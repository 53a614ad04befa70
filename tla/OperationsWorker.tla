--------------------------- MODULE OperationsWorker ---------------------------
(***************************************************************************)
(* The loop of scripts/operations-worker.mjs over the two queues it        *)
(* drains: in every cycle a batch of jobs, then a batch of webhook events, *)
(* then the scans.  An error anywhere ends the cycle, not the loop.  The   *)
(* handler of a job queues the webhook event of the same notification, so  *)
(* what one cycle's first phase produces its second phase delivers.        *)
(*                                                                         *)
(* JobQueue and OutgoingWebhook are used as they are; this module adds the *)
(* order in which one process takes their steps.                           *)
(***************************************************************************)
EXTENDS Integers, Sequences, FiniteSets

CONSTANTS
    Job, Worker,
    BatchSize, LeaseTicks, MaxAttempts, BaseDelay, MaximumDelay,  \* of JobQueue
    AttemptsPerCycle, MaxRecovery, RetryDelays, LockTicks,        \* of OutgoingWebhook
    \* bounds of the model, as in the two modules
    MaxClock, MaxBatchTicks, MaxCrashes, MaxRetries, MaxErrors, MaxOperations

(* What the two modules assume of their constants. *)
Configured ==
    /\ Job \subseteq Nat
    /\ {BatchSize, LeaseTicks, MaxAttempts, AttemptsPerCycle} \subseteq Nat \ {0}
    /\ {BaseDelay, MaximumDelay, MaxRecovery, LockTicks} \subseteq Nat
    /\ RetryDelays \in Seq(Nat) /\ RetryDelays # << >>

ASSUME ConfiguredAssumption == Configured

VARIABLES
    clock,
    rows, nextToken, jobPc, jobNow, candidates, target, claimed, crashes, retries,
    event, attempts, connection, hookPc, hookNow, todo, current, seen, toRecover,
    decided, errors, operations, accepted,
    phase       \* where each worker is in its cycle

jobVars == <<rows, nextToken, jobPc, jobNow, candidates, target, claimed, crashes, retries>>
hookVars == <<event, attempts, connection, hookPc, hookNow, todo, current, seen,
              toRecover, decided, errors, operations, accepted>>
vars == <<clock, jobVars, hookVars, phase>>

Jobs == INSTANCE JobQueue WITH pc <- jobPc, batchNow <- jobNow
Hooks == INSTANCE OutgoingWebhook WITH
            Event <- Job, Dispatcher <- Worker, pc <- hookPc, batchNow <- hookNow

-----------------------------------------------------------------------------
Init ==
    /\ Jobs!Init /\ Hooks!Init
    /\ phase = [w \in Worker |-> "sleep"]

In(w, p) == phase[w] = p
EnterPhase(w, p) == phase' = [phase EXCEPT ![w] = p]

(* Fault: an error ends the loop. *)
AfterError_Stopped == "stopped"
(* The catch block inside the loop logs the error; the next cycle follows. *)
AfterError == "sleep"

Wake(w) == In(w, "sleep") /\ EnterPhase(w, "jobs") /\ UNCHANGED <<clock, jobVars, hookVars>>

(* A job's handler has queued the event when it returns; when it throws it *)
(* may or may not have done so.                                            *)
RunHandler(w) ==
    LET j == Head(claimed[w]).job
    IN  /\ Jobs!RunHandler(w)
        /\ \/ Hooks!QueueEvent(j)
           \/ /\ jobPc'[w] = "fail" \/ event[j].status # "ABSENT"
              /\ UNCHANGED hookVars
        /\ UNCHANGED phase

JobStep(w) ==
    /\ In(w, "jobs")
    /\ \/ RunHandler(w)
       \/ /\ \/ Jobs!FindCandidates(w) \/ Jobs!ClaimRow(w) \/ Jobs!SkipCandidate(w)
             \/ Jobs!RereadRow(w) \/ Jobs!StartProcessing(w) \/ Jobs!CompleteJob(w)
             \/ Jobs!CompleteRefused(w) \/ Jobs!FailJob(w)
          /\ UNCHANGED <<hookVars, phase>>
       \/ Jobs!FinishBatch(w) /\ EnterPhase(w, "webhooks") /\ UNCHANGED hookVars
       \/ Jobs!AbortBatch(w) /\ EnterPhase(w, AfterError) /\ UNCHANGED hookVars
       \/ /\ jobPc[w] = "idle" /\ \A j \in Job : ~Jobs!Eligible(j, clock)
          /\ EnterPhase(w, "webhooks") /\ UNCHANGED <<clock, jobVars, hookVars>>

NothingDue ==
    \/ ~Hooks!Dispatching
    \/ \A e \in Job : event[e].status \notin Hooks!Open \/ event[e].nextAttemptAt > clock

HookStep(w) ==
    /\ In(w, "webhooks")
    /\ \/ /\ \/ Hooks!FindDue(w) \/ \E e \in Job : Hooks!LockEvent(w, e) \/ Hooks!SkipEvent(w, e)
             \/ Hooks!ReadEvent(w) \/ Hooks!Send(w) \/ Hooks!RecordAttempt(w)
             \/ Hooks!RecordRefused(w) \/ Hooks!NoteError(w)
          /\ UNCHANGED <<jobVars, phase>>
       \/ Hooks!EndBatch(w) /\ EnterPhase(w, "scans") /\ UNCHANGED jobVars
       \/ /\ hookPc[w] = "idle" /\ NothingDue
          /\ EnterPhase(w, "scans") /\ UNCHANGED <<clock, jobVars, hookVars>>

(* The remaining phases, whether they fail or not. *)
Scans(w) == In(w, "scans") /\ EnterPhase(w, "sleep") /\ UNCHANGED <<clock, jobVars, hookVars>>

(* A statement of a batch fails outside its own error handling, or the     *)
(* process dies: the cycle ends where it is.                               *)
CycleFails(w) ==
    /\ \/ In(w, "jobs") /\ Jobs!Crash(w) /\ UNCHANGED hookVars
       \/ In(w, "webhooks") /\ Hooks!Crash(w) /\ UNCHANGED jobVars
    /\ EnterPhase(w, AfterError)

(* The delivery of one event fails and is noted; the batch goes on. *)
DeliveryFails(w) == In(w, "webhooks") /\ Hooks!DatabaseError(w) /\ UNCHANGED <<jobVars, phase>>

Enqueue(j) == Jobs!Enqueue(j) /\ UNCHANGED <<hookVars, phase>>

Tick ==
    /\ clock < MaxClock
    /\ Jobs!TimeMatters \/ Hooks!TimeMatters
    /\ clock' = clock + 1
    /\ UNCHANGED <<jobVars, hookVars, phase>>

Cycle(w) == Wake(w) \/ JobStep(w) \/ HookStep(w) \/ Scans(w)

Next ==
    \/ \E w \in Worker : Cycle(w) \/ CycleFails(w) \/ DeliveryFails(w)
    \/ \E j \in Job : Enqueue(j)
    \/ Tick

(* The loop never stops by itself, its process is restarted when it dies,  *)
(* and time goes on.  Nothing obliges anybody to enqueue or to fail.       *)
Fairness == WF_vars(Tick) /\ \A w \in Worker : WF_vars(Cycle(w))

Spec == Init /\ [][Next]_vars /\ Fairness

-----------------------------------------------------------------------------
(* The other variables have the types they have in the two queues. *)
TypeOK == phase \in [Worker -> {"sleep", "jobs", "webhooks", "scans"}]

(* A worker is inside a batch only in the phase of that batch: it never     *)
(* works on both queues at once, however its cycles end.                    *)
OneBatch ==
    \A w \in Worker :
        /\ jobPc[w] # "idle" => In(w, "jobs")
        /\ hookPc[w] # "idle" => In(w, "webhooks")

(* Nothing is lost between the queues: a job that has succeeded has left an *)
(* event in the second one, although the attempt that queued it may have    *)
(* failed, crashed or lost its lease afterwards.                            *)
HandedOn == \A j \in Job : rows[j].status = "SUCCEEDED" => event[j].status # "ABSENT"

(* The second queue holds nothing the first has not been given. *)
EventHasJob == \A j \in Job : event[j].status # "ABSENT" => rows[j].status # "ABSENT"

(* What makes the three inductive: a handler that has returned has queued   *)
(* its event, and what a worker has claimed exists.                         *)
HandingOn ==
    \A w \in Worker : jobPc[w] = "complete" => event[Head(claimed[w]).job].status # "ABSENT"

ClaimedExists ==
    \A w \in Worker :
        /\ jobPc[w] = "reread" => rows[target[w]].status # "ABSENT"
        /\ \A s \in Jobs!Held(w) : rows[s.job].status # "ABSENT"

CycleInv == TypeOK /\ OneBatch /\ HandedOn /\ EventHasJob /\ HandingOn /\ ClaimedExists

(* What the loop has finished with. *)
Ended(j) ==
    \/ rows[j].status = "DEAD_LETTER"
    \/ rows[j].status = "SUCCEEDED" /\ event[j].status \in {"DELIVERED", "ABANDONED"}

(* Although job batches and webhook batches fail each other's cycles, every *)
(* job becomes a dead letter or succeeds, and what it succeeded in queueing *)
(* reaches the endpoint of the connection or uses up its attempts, for good.*)
EndToEnd == \A j \in Job : (rows[j].status # "ABSENT") ~> []Ended(j)
=============================================================================
