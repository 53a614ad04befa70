----------------------------- MODULE LiveFailover -----------------------------
(***************************************************************************)
(* The external live sources of one channel and the failover policy that   *)
(* chooses between them (lib/external-live-service.js,                     *)
(* lib/live-failover-service.js, lib/live-failover.mjs).                   *)
(*                                                                         *)
(* One operations worker probes the sources and reconciles the policy in   *)
(* cycles; managers test, activate, suspend and archive sources and save,  *)
(* override, clear and disable the policy.  Every read that a later write  *)
(* relies on is a step of its own.  A tick is the 30 seconds between two   *)
(* cycles and between two due probes; a cycle and a request end within it. *)
(* Times are kept as ticks passed or left, so that nothing is bounded but  *)
(* the requests of managers.                                               *)
(***************************************************************************)
EXTENDS Integers

CONSTANTS
    Primary, Backup,    \* the two sources of the policy, both set up
    None,               \* null in a column of source ids
    FreshTicks,         \* EXTERNAL_LIVE_HEALTH_FRESH_SECONDS
    FailureThreshold,   \* the thresholds and the hold of the policy
    RecoveryThreshold,
    HoldTicks,
    OverrideTicks,      \* the window of a manual override
    MaxRequests         \* bound: requests of managers

Source == {Primary, Backup}

(* The two sources differ, and null is neither a source nor a number.      *)
Configured ==
    /\ Primary # Backup /\ None \notin Source /\ None \notin Nat
    /\ FailureThreshold \in Nat \ {0}
    /\ RecoveryThreshold \in Nat \ {0}
    /\ HoldTicks \in Nat \ {0}
    /\ FreshTicks \in Nat \ {0}
    /\ OverrideTicks \in Nat \ {0}
    /\ MaxRequests \in Nat

ASSUME ConfiguredAssumption == Configured

VARIABLES
    up,         \* whether the endpoint of a source serves audio (environment)
    source,     \* the rows of the sources
    policy,     \* the row of the policy
    worker,     \* the operations worker in its cycle
    request,    \* the request of a manager between its read and its write
    requests,   \* requests so far (bounded)
    record      \* history: what the health checks of the primary have shown

vars == <<up, source, policy, worker, request, requests, record>>

-----------------------------------------------------------------------------
Lower(a, b) == IF a < b THEN a ELSE b

Usable == {"READY", "ACTIVE"}
State == {"PRIMARY", "BACKUP", "SCHEDULED_FALLBACK", "RECOVERY_PENDING", "MANUAL_OVERRIDE"}

(* healthy: healthStatus = HEALTHY; age: ticks since lastHealthCheckedAt;  *)
(* failures: consecutiveFailures, kept up to the threshold.                *)
SourceRow ==
    [status : Usable \union {"SUSPENDED", "ARCHIVED"}, healthy : BOOLEAN,
     age : 0..(FreshTicks + 1), failures : 0..FailureThreshold]

(* left: ticks until manualOverrideUntil; since: ticks since               *)
(* primaryHealthySince, None when it is null; probes:                      *)
(* recoveryHealthyProbes, kept up to the threshold.                        *)
PolicyRow ==
    [enabled : BOOLEAN, state : State, effective : Source \union {None},
     manual : Source \union {None}, left : 0..OverrideTicks,
     since : (0..HoldTicks) \union {None}, probes : 0..RecoveryThreshold]

PolicyIn(state, effective) ==
    [enabled |-> TRUE, state |-> state, effective |-> effective, manual |-> None,
     left |-> 0, since |-> None, probes |-> 0]

(* failoverSourceAvailability, without the optional window of a source. *)
Available(s) ==
    source[s].status \in Usable /\ source[s].healthy /\ source[s].age <= FreshTicks

(* Fault: the window of an override is not looked at. *)
OverrideActive_Always == policy.manual # None
OverrideActive == policy.manual # None /\ policy.left > 0

(* The row of a source after a probe found it healthy or not. *)
Probed(row, ok) ==
    [row EXCEPT !.healthy = ok, !.age = 0,
                !.failures = IF ok THEN 0 ELSE Lower(@ + 1, FailureThreshold)]

(* Fault: the hold starts over with every reconciliation. *)
HealthySince_StartsOver == 0
HealthySince == IF policy.since = None THEN 0 ELSE policy.since

(* Fault: the hold alone brings the primary back. *)
Confirmed_HoldOnly(probes, since) == since >= HoldTicks
Confirmed(probes, since) == probes >= RecoveryThreshold /\ since >= HoldTicks

(* A healthy primary that is not on air counts healthy reconciliations and *)
(* the time since the first of them.                                       *)
Recovering ==
    LET since == HealthySince
        counted == IF policy.state = "RECOVERY_PENDING" THEN policy.probes ELSE 0
        probes == Lower(counted + 1, RecoveryThreshold)
    IN  IF Confirmed(probes, since)
        THEN PolicyIn("PRIMARY", Primary)
        ELSE [PolicyIn("RECOVERY_PENDING", IF Available(Backup) THEN Backup ELSE None)
                 EXCEPT !.since = since, !.probes = probes]

(* decideLiveFailover: the row a reconciliation will write. *)
Decision ==
    CASE OverrideActive /\ Available(policy.manual) ->
            [PolicyIn("MANUAL_OVERRIDE", policy.manual)
                EXCEPT !.manual = policy.manual, !.left = policy.left]
      [] ~(OverrideActive /\ Available(policy.manual)) /\ Available(Primary) ->
            IF policy.state = "PRIMARY" /\ policy.effective = Primary
            THEN PolicyIn("PRIMARY", Primary)
            ELSE Recovering
      [] OTHER ->
            IF source[Primary].failures >= FailureThreshold /\ Available(Backup)
            THEN PolicyIn("BACKUP", Backup)
            ELSE PolicyIn("SCHEDULED_FALLBACK", None)

(* The row that is written: a reconciliation does not touch `enabled`. *)
Reconciled(row) == [row EXCEPT !.enabled = policy.enabled]

(* A manager acts: on a source, on the policy, or not. *)
SourceOp == {"ACTIVATE", "SUSPEND", "ARCHIVE", "OVERRIDE"}
Requested == [op : SourceOp, source : Source] \union
             [op : {"SAVE", "SAVE_DISABLED", "CLEAR"}, source : {None}] \union
             [op : {"WRITE"}, source : {None}, row : PolicyRow]
NoRequest == [op |-> "NONE", source |-> None]

Worker == [at : {"idle", "rest", "live", "policy"}, todo : SUBSET Source] \union
          [at : {"write"}, todo : {{}}, row : PolicyRow]

(* History of the primary's checks: the healthy ones since the last that   *)
(* failed, the ticks since the first of them, and whether a manager has    *)
(* meanwhile tested it, saved the policy or cleared an override.           *)
Record == [checks : 0..RecoveryThreshold, held : 0..HoldTicks, managed : BOOLEAN]

Checked(s, ok, managed) ==
    IF s # Primary THEN record
    ELSE [checks |-> IF ok THEN Lower(record.checks + 1, RecoveryThreshold) ELSE 0,
          held |-> IF ok THEN record.held ELSE 0,
          managed |-> managed \/ (ok /\ record.managed)]

TypeOK ==
    /\ up \in [Source -> BOOLEAN]
    /\ source \in [Source -> SourceRow]
    /\ policy \in PolicyRow
    /\ worker \in Worker
    /\ request \in Requested \union {NoRequest}
    /\ requests \in 0..MaxRequests
    /\ record \in Record

(* A policy that a manager has just saved with two tested sources. *)
Init ==
    /\ up = [s \in Source |-> TRUE]
    /\ source = [s \in Source |->
                    [status |-> IF s = Primary THEN "ACTIVE" ELSE "READY",
                     healthy |-> TRUE, age |-> 0, failures |-> 0]]
    /\ policy = PolicyIn("PRIMARY", Primary)
    /\ worker = [at |-> "rest", todo |-> {}]
    /\ request = NoRequest
    /\ requests = 0
    /\ record = [checks |-> RecoveryThreshold, held |-> HoldTicks, managed |-> TRUE]

-----------------------------------------------------------------------------
(* An endpoint fails or recovers. *)
Environment(s) ==
    /\ up' = [up EXCEPT ![s] = ~@]
    /\ UNCHANGED <<source, policy, worker, request, requests, record>>

(* Thirty seconds pass; a resting worker wakes up. *)
Tick ==
    /\ worker.at \in {"idle", "rest"} /\ request = NoRequest
    /\ source' = [s \in Source |->
                    [source[s] EXCEPT !.age = Lower(@ + 1, FreshTicks + 1)]]
    /\ policy' = [policy EXCEPT !.left = IF @ > 0 THEN @ - 1 ELSE 0,
                                !.since = IF @ = None THEN None ELSE Lower(@ + 1, HoldTicks)]
    /\ worker' = [worker EXCEPT !.at = "idle"]
    /\ record' = [record EXCEPT !.held = IF record.checks = 0 THEN 0 ELSE Lower(@ + 1, HoldTicks)]
    /\ UNCHANGED <<up, request, requests>>

(* A probe of the worker reaches the row: status is left as it is. *)
Probe(s) ==
    /\ worker.at \in {"live", "policy"} /\ s \in worker.todo
    /\ source' = [source EXCEPT ![s] = Probed(@, up[s])]
    /\ worker' = [worker EXCEPT !.todo = @ \ {s}]
    /\ record' = Checked(s, up[s], FALSE)
    /\ UNCHANGED <<up, policy, request, requests>>

(* scanExternalLiveHealth reads the active sources whose probe is due. *)
ScanSources ==
    /\ worker.at = "idle"
    /\ worker' = [at |-> "live", todo |-> {s \in Source : source[s].status = "ACTIVE"
                                                           /\ source[s].age >= 1}]
    /\ UNCHANGED <<up, source, policy, request, requests, record>>

(* Fault: only the scan of the active source probes. *)
PolicyProbes_None == {}
PolicyProbes == {s \in Source : source[s].age >= 1}

(* scanLiveFailoverPolicies reads the enabled policies with their sources. *)
ScanPolicy ==
    /\ worker.at = "live" /\ worker.todo = {}
    /\ worker' = IF policy.enabled
                 THEN [at |-> "policy", todo |-> PolicyProbes]
                 ELSE [at |-> "rest", todo |-> {}]
    /\ UNCHANGED <<up, source, policy, request, requests, record>>

(* reconcileLiveFailoverPolicy reads the policy and decides ... *)
ReadPolicy ==
    /\ worker.at = "policy" /\ worker.todo = {}
    /\ worker' = IF policy.enabled
                 THEN [at |-> "write", todo |-> {}, row |-> Decision]
                 ELSE [at |-> "rest", todo |-> {}]
    /\ UNCHANGED <<up, source, policy, request, requests, record>>

(* ... and updates it by its id, whatever it has become. *)
WritePolicy ==
    /\ worker.at = "write"
    /\ policy' = Reconciled(worker.row)
    /\ worker' = [at |-> "rest", todo |-> {}]
    /\ UNCHANGED <<up, source, request, requests, record>>

-----------------------------------------------------------------------------
NewRequest ==
    /\ request = NoRequest /\ requests < MaxRequests
    /\ requests' = requests + 1

(* A manager tests a source. *)
Test(s) ==
    /\ NewRequest
    /\ source[s].status # "ARCHIVED"
    /\ source' = [source EXCEPT ![s] = Probed(@, up[s])]
    /\ record' = Checked(s, up[s], TRUE)
    /\ UNCHANGED <<up, policy, worker, request>>

(* Activation tests the source first and goes on when it is healthy. *)
BeginActivate(s) ==
    /\ NewRequest
    /\ source[s].status # "ARCHIVED"
    /\ source' = [source EXCEPT ![s] = Probed(@, up[s])]
    /\ record' = Checked(s, up[s], TRUE)
    /\ request' = IF up[s] THEN [op |-> "ACTIVATE", source |-> s] ELSE NoRequest
    /\ UNCHANGED <<up, policy, worker>>

(* The one active source of the channel is replaced. *)
Promoted(s) ==
    [t \in Source |-> IF t = s THEN [source[t] EXCEPT !.status = "ACTIVE"]
                      ELSE [source[t] EXCEPT !.status = IF @ = "ACTIVE" THEN "READY" ELSE @]]

Activate(s) ==
    /\ request = [op |-> "ACTIVATE", source |-> s]
    /\ request' = NoRequest
    /\ source' = IF source[s].status = "ARCHIVED" THEN source ELSE Promoted(s)
    /\ UNCHANGED <<up, policy, worker, requests, record>>

(* Suspending and archiving read the row and update it by its id. *)
BeginStatus(s, op) ==
    /\ NewRequest
    /\ source[s].status # "ARCHIVED"
    /\ request' = [op |-> op, source |-> s]
    /\ UNCHANGED <<up, source, policy, worker, record>>

ChangeStatus(s, op) ==
    /\ request = [op |-> op, source |-> s]
    /\ request' = NoRequest
    /\ source' = [source EXCEPT ![s].status = IF op = "ARCHIVE" THEN "ARCHIVED" ELSE "SUSPENDED"]
    /\ UNCHANGED <<up, policy, worker, requests, record>>

(* saveLiveFailoverPolicy wants both sources usable, and tested when it    *)
(* enables the policy; the transaction does not look again.                *)
BeginSave(op) ==
    /\ NewRequest
    /\ \A s \in Source : IF op = "SAVE" THEN Available(s) ELSE source[s].status \in Usable
    /\ request' = [op |-> op, source |-> None]
    /\ UNCHANGED <<up, source, policy, worker, record>>

Save ==
    /\ request.op \in {"SAVE", "SAVE_DISABLED"}
    /\ request' = NoRequest
    /\ source' = IF request.op = "SAVE" THEN Promoted(Primary) ELSE source
    /\ policy' = IF request.op = "SAVE" THEN PolicyIn("PRIMARY", Primary)
                 ELSE [PolicyIn("SCHEDULED_FALLBACK", None) EXCEPT !.enabled = FALSE]
    /\ record' = [record EXCEPT !.managed = TRUE]
    /\ UNCHANGED <<up, worker, requests>>

Disable ==
    /\ NewRequest
    /\ policy' = [PolicyIn("SCHEDULED_FALLBACK", None) EXCEPT !.enabled = FALSE]
    /\ UNCHANGED <<up, source, worker, request, record>>

BeginOverride(s) ==
    /\ NewRequest
    /\ Available(s)
    /\ request' = [op |-> "OVERRIDE", source |-> s]
    /\ UNCHANGED <<up, source, policy, worker, record>>

Overriding(s) ==
    [PolicyIn("MANUAL_OVERRIDE", s) EXCEPT !.manual = s, !.left = OverrideTicks]

Override(s) ==
    /\ request = [op |-> "OVERRIDE", source |-> s]
    /\ request' = NoRequest
    /\ policy' = Overriding(s)
    /\ UNCHANGED <<up, source, worker, requests, record>>

(* Fault: the source is taken off air, the rest is left to the next cycle. *)
Cleared_DropsSource == [policy EXCEPT !.manual = None, !.left = 0, !.effective = None]
Cleared == [policy EXCEPT !.manual = None, !.left = 0]

(* Clearing an override updates two columns, then reconciles at once. *)
BeginClear ==
    /\ NewRequest
    /\ policy' = Cleared
    /\ request' = [op |-> "CLEAR", source |-> None]
    /\ UNCHANGED <<up, source, worker, record>>

ReadClear ==
    /\ request.op = "CLEAR"
    /\ request' = IF policy.enabled THEN [op |-> "WRITE", source |-> None, row |-> Decision]
                  ELSE NoRequest
    /\ UNCHANGED <<up, source, policy, worker, requests, record>>

WriteClear ==
    /\ request.op = "WRITE"
    /\ request' = NoRequest
    /\ policy' = Reconciled(request.row)
    /\ record' = [record EXCEPT !.managed = TRUE]
    /\ UNCHANGED <<up, source, worker, requests>>

-----------------------------------------------------------------------------
WorkerStep ==
    \/ ScanSources \/ ScanPolicy \/ ReadPolicy \/ WritePolicy
    \/ \E s \in Source : Probe(s)

(* A request that has read goes on to its write. *)
RequestStep ==
    \/ Save \/ ReadClear \/ WriteClear
    \/ \E s \in Source : Activate(s) \/ Override(s)
    \/ \E s \in Source, op \in {"SUSPEND", "ARCHIVE"} : ChangeStatus(s, op)

ManagerStep ==
    \/ Disable \/ BeginClear
    \/ \E op \in {"SAVE", "SAVE_DISABLED"} : BeginSave(op)
    \/ \E s \in Source : Test(s) \/ BeginActivate(s) \/ BeginOverride(s)
    \/ \E s \in Source, op \in {"SUSPEND", "ARCHIVE"} : BeginStatus(s, op)

Next == Tick \/ WorkerStep \/ RequestStep \/ ManagerStep \/ \E s \in Source : Environment(s)

Fairness == WF_vars(Tick) /\ WF_vars(WorkerStep) /\ WF_vars(RequestStep)

Spec == Init /\ [][Next]_vars /\ Fairness

-----------------------------------------------------------------------------
(* A primary that has failed comes back on air only after the configured   *)
(* number of health checks in a row have found it healthy and the hold     *)
(* has passed since the first of them: reconciliations and checks are      *)
(* counted by different code.  Managers can shorten this: a test replaces  *)
(* checks, and saving or clearing reconciles without one.                  *)
ReturnIsEarned ==
    [][ (WritePolicy /\ policy.state # "PRIMARY" /\ policy'.state = "PRIMARY")
        => (\/ record.managed
            \/ record.checks = RecoveryThreshold /\ record.held = HoldTicks) ]_vars

(* The source a row puts on air is the one its state stands for.           *)
Matching(row) ==
    CASE row.state = "PRIMARY" -> row.effective = Primary
      [] row.state = "BACKUP" -> row.effective = Backup
      [] row.state = "SCHEDULED_FALLBACK" -> row.effective = None
      [] row.state = "MANUAL_OVERRIDE" -> row.effective # None
      [] OTHER -> row.effective # Primary

(* The source on air is the one the recorded state stands for, also when a *)
(* reconciliation overwrites what a manager has just changed.              *)
EffectiveMatchesState == Matching(policy)

(* The inductive invariant, in parts.  A row, stored or about to be stored,*)
(* names the source of its state and counts only while it recovers.        *)
RowSound(row) ==
    /\ Matching(row)
    /\ IF row.state = "RECOVERY_PENDING" THEN row.since # None /\ row.probes > 0
       ELSE row.since = None

RowsSound ==
    /\ RowSound(policy)
    /\ worker.at = "write" => RowSound(worker.row)
    /\ request.op = "WRITE" => RowSound(request.row)

(* A row claims no more than the checks have shown. *)
Backed(row) ==
    /\ row.state = "PRIMARY" => record.checks = RecoveryThreshold /\ record.held = HoldTicks
    /\ row.state = "RECOVERY_PENDING" => row.probes <= record.checks /\ row.since <= record.held

(* The primary of a cycle that has been checked: healthy again, with a     *)
(* check that the row has not counted yet, or not healthy.                 *)
Uncounted ==
    source[Primary].healthy =>
        /\ record.checks > 0
        /\ policy.enabled =>
              /\ Backed(policy)
              /\ policy.state = "RECOVERY_PENDING" =>
                    policy.probes < record.checks \/ record.checks = RecoveryThreshold

(* Checks and reconciliations in step, as long as no manager interferes: a *)
(* cycle checks the primary before it reconciles.                          *)
InStep ==
    LET checked == Primary \notin worker.todo /\ source[Primary].age = 0
        level == policy.enabled => Backed(policy)
    IN  /\ worker.at = "rest" => level
        /\ worker.at = "idle" => source[Primary].age > 0 /\ level
        /\ worker.at = "live" => IF checked THEN Uncounted ELSE level
        /\ worker.at = "policy" => IF Primary \notin worker.todo THEN Uncounted ELSE level
        /\ worker.at = "write" => Backed(worker.row)

IInv ==
    /\ TypeOK
    /\ RowsSound
    /\ record.managed \/ InStep

(* An override gives the channel back to the health checks: its window     *)
(* ends, whether the manager returns or not.                               *)
OverrideEnds == (policy.enabled /\ policy.manual # None) ~> (~policy.enabled \/ policy.manual = None)

Working(s) == up[s] /\ source[s].status \in Usable

(* A primary that works for good is back on air in the end: a recovery     *)
(* that is being confirmed must not start over by itself.                  *)
PrimaryReturns ==
    <>[](Working(Primary) /\ policy.enabled) => <>[](policy.effective = Primary)

(* A backup that works for good takes over from a primary that never does. *)
BackupTakesOver ==
    <>[](~up[Primary] /\ Working(Backup) /\ policy.enabled) => <>[](policy.effective = Backup)

(* What a response relies on in every state: the stored policy names the   *)
(* source that its state says is on air.                                   *)
PolicySound == TypeOK /\ EffectiveMatchesState
=============================================================================
