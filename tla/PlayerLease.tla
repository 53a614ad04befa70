----------------------------- MODULE PlayerLease -----------------------------
(***************************************************************************)
(* The listener leases of one organisation's players                       *)
(* (lib/player-listener-lease.mjs, lib/player-session-management.mjs): who *)
(* may stream at the same time under the subscription's stream limit.      *)
(*                                                                         *)
(* A request reads the player and the subscription, then takes its         *)
(* `instant`, then claims its lease in a serializable transaction that is  *)
(* retried as often as needed.  The claim is one action; the limit it      *)
(* works with was read before, and its instant lies somewhere in between.  *)
(***************************************************************************)
EXTENDS Integers, FiniteSets

CONSTANTS
    Player,         \* enrolled players of the organisation
    Instance,       \* browser instances a player's session was opened in
    Request,        \* requests that may be in progress at the same time
    LeaseTicks,     \* PLAYER_LISTENER_LEASE_SECONDS, in ticks
    RequestTicks,   \* how long a request may take to commit
    \* bounds of the model
    MaxLimit,       \* largest stream limit of a plan
    MaxClock,       \* the clock stops here
    MaxGrants,      \* leases created
    MaxChanges,     \* changes of the stream limit
    MaxRetired      \* players disabled

ASSUME FiniteAssumption == IsFiniteSet(Player \X Instance)
ASSUME TicksAssumption == LeaseTicks \in Nat \ {0} /\ RequestTicks \in Nat

VARIABLES
    clock,
    limit,      \* streamLimit of the current entitlements, 0 without service
    lease,      \* the row of a player and an instance
    nextSince,  \* order of creation: (createdAt, id)
    retired,    \* players that were disabled
    request,    \* what a request has read before its transaction
    changes,    \* changes of the limit so far (bounded)
    changedAt   \* history: when the limit last changed

vars == <<clock, limit, lease, nextSince, retired, request, changes, changedAt>>

-----------------------------------------------------------------------------
Key == Player \X Instance

(* `under` is history: the limit of the last grant or renewal. *)
LeaseRow == [kind : {"none", "held", "stopped"}, until : Nat, since : Nat, under : Nat]
NoLease == [kind |-> "none", until |-> 0, since |-> 0, under |-> 0]

(* A request between its reads and its transaction. *)
Pending == [key : Key, readAt : Nat, limit : Nat \ {0}]
NoRequest == [key |-> {}]

(* The instants the transaction of a request may work with. *)
Instants(q) == IF request[q] = NoRequest THEN {} ELSE request[q].readAt..clock

Held == {k \in Key : lease[k].kind = "held"}

(* The active leases a transaction sees: not revoked and not expired. *)
LiveAt(t) == {k \in Held : lease[k].until > t}

(* Leases created before that of k. *)
Seniors(k, S) == {x \in S : lease[x].since < lease[k].since}

(* Fault: a lease is swept in its last tick. *)
Swept_TooEarly(t) ==
    [k \in Key |-> IF lease[k].until <= t + 1 THEN NoLease ELSE lease[k]]

(* The table after deleteMany of the organisation's expired leases. *)
Swept(t) == [k \in Key |-> IF lease[k].until <= t THEN NoLease ELSE lease[k]]

(* The instance was stopped and its safety window is still running. *)
Blocked(k, t) == lease[k].kind = "stopped" /\ lease[k].until > t

(* Another instance of the same player is active. *)
DeviceInUse(k, t) == \E x \in LiveAt(t) \ {k} : x[1] = k[1]

-----------------------------------------------------------------------------
Init ==
    /\ clock = 0
    /\ limit \in 0..MaxLimit
    /\ lease = [k \in Key |-> NoLease]
    /\ nextSince = 1
    /\ retired = {}
    /\ request = [q \in Request |-> NoRequest]
    /\ changes = 0
    /\ changedAt = 0

(* A heartbeat, state or manifest request of an instance: the player is    *)
(* enrolled and the service is enabled.  Without service it ends here.     *)
Arrive(q, k) ==
    /\ request[q] = NoRequest
    /\ k[1] \notin retired
    /\ limit > 0
    /\ request' = [request EXCEPT ![q] = [key |-> k, readAt |-> clock, limit |-> limit]]
    /\ UNCHANGED <<clock, limit, lease, nextSince, retired, changes, changedAt>>

Answer(q) ==
    /\ request' = [request EXCEPT ![q] = NoRequest]
    /\ UNCHANGED <<clock, limit, retired, changes, changedAt>>

(* The instance has no active lease and gets none: it was stopped, another *)
(* device of the player is active, or every stream is taken.               *)
RefuseClaim(q, t) ==
    LET r == request[q]
    IN  /\ r.key \notin LiveAt(t)
        /\ \/ Blocked(r.key, t)
           \/ DeviceInUse(r.key, t)
           \/ Cardinality(LiveAt(t)) >= r.limit
        /\ lease' = Swept(t)
        /\ Answer(q)
        /\ UNCHANGED nextSince

(* The instance had a lease, but it is not the first of its player or not  *)
(* within the limit any more: it is deleted.                               *)
DropClaim(q, t) ==
    LET r == request[q]
        live == LiveAt(t)
    IN  /\ r.key \in live
        /\ \/ \E x \in Seniors(r.key, live) : x[1] = r.key[1]
           \/ Cardinality(Seniors(r.key, live)) >= r.limit
        /\ lease' = [Swept(t) EXCEPT ![r.key] = NoLease]
        /\ Answer(q)
        /\ UNCHANGED nextSince

RenewedLease(row, t, l) ==
    [row EXCEPT !.until = t + LeaseTicks, !.under = l]

GrantedLease(since, t, l) ==
    [kind |-> "held", until |-> t + LeaseTicks, since |-> since, under |-> l]

(* Fault: a renewal does not look at the limit. *)
Renew_AnyRank(q, t) ==
    LET r == request[q]
    IN  /\ r.key \in LiveAt(t)
        /\ lease' = [Swept(t) EXCEPT ![r.key] = RenewedLease(@, t, r.limit)]
        /\ Answer(q)
        /\ UNCHANGED nextSince

Renew(q, t) ==
    LET r == request[q]
        live == LiveAt(t)
    IN  /\ r.key \in live
        /\ \A x \in Seniors(r.key, live) : x[1] # r.key[1]
        /\ Cardinality(Seniors(r.key, live)) < r.limit
        /\ lease' = [Swept(t) EXCEPT ![r.key] = RenewedLease(@, t, r.limit)]
        /\ Answer(q)
        /\ UNCHANGED nextSince

(* Fault: the device lock is missing. *)
Grant_AnyDevice(q, t) ==
    LET r == request[q]
    IN  /\ nextSince <= MaxGrants
        /\ r.key \notin LiveAt(t)
        /\ ~Blocked(r.key, t)
        /\ Cardinality(LiveAt(t)) < r.limit
        /\ lease' = [Swept(t) EXCEPT ![r.key] = GrantedLease(nextSince, t, r.limit)]
        /\ nextSince' = nextSince + 1
        /\ Answer(q)

Grant(q, t) ==
    LET r == request[q]
    IN  /\ nextSince <= MaxGrants
        /\ r.key \notin LiveAt(t)
        /\ ~Blocked(r.key, t)
        /\ ~DeviceInUse(r.key, t)
        /\ Cardinality(LiveAt(t)) < r.limit
        /\ lease' = [Swept(t) EXCEPT ![r.key] = GrantedLease(nextSince, t, r.limit)]
        /\ nextSince' = nextSince + 1
        /\ Answer(q)

-----------------------------------------------------------------------------
(* Fault: a release deletes the row of a stopped browser, too. *)
Release_AnyRow(k) ==
    /\ k[1] \notin retired
    /\ lease[k].kind # "none"
    /\ lease' = [lease EXCEPT ![k] = NoLease]
    /\ UNCHANGED <<clock, limit, nextSince, retired, request, changes, changedAt>>

(* releasePlayerListenerLease: the player is closed.  A revoked row stays. *)
Release(k) ==
    /\ k[1] \notin retired
    /\ lease[k].kind = "held"
    /\ lease' = [lease EXCEPT ![k] = NoLease]
    /\ UNCHANGED <<clock, limit, nextSince, retired, request, changes, changedAt>>

(* revokePlayerSession by a manager: the slot is free at once, and the     *)
(* instance is kept away for a whole lease.                                *)
StopSession(k) ==
    /\ k \in LiveAt(clock)
    /\ lease' = [lease EXCEPT ![k] = [@ EXCEPT !.kind = "stopped",
                                               !.until = clock + LeaseTicks]]
    /\ UNCHANGED <<clock, limit, nextSince, retired, request, changes, changedAt>>

(* transitionPlayerLifecycle: the player is disabled and its leases go. *)
Retire(p) ==
    /\ p \notin retired
    /\ Cardinality(retired) < MaxRetired
    /\ retired' = retired \union {p}
    /\ lease' = [k \in Key |-> IF k[1] = p THEN NoLease ELSE lease[k]]
    /\ UNCHANGED <<clock, limit, nextSince, request, changes, changedAt>>

NewLimit(l) ==
    /\ changes < MaxChanges
    /\ l # limit
    /\ limit' = l
    /\ changes' = changes + 1
    /\ changedAt' = clock
    /\ UNCHANGED <<clock, nextSince, retired, request>>

(* The plan changes, or the subscription lapses or resumes. *)
ChangePlan(l) == NewLimit(l) /\ UNCHANGED lease

(* A complimentary grant is stopped: every session is revoked, and what is *)
(* left of the subscription applies.                                       *)
StopComplimentary(l) ==
    /\ NewLimit(l)
    /\ lease' = [k \in Key |-> IF k \in Held THEN [lease[k] EXCEPT !.kind = "stopped"]
                                             ELSE lease[k]]

Tick ==
    /\ clock < MaxClock
    /\ \A q \in Request : request[q] # NoRequest => clock < request[q].readAt + RequestTicks
    /\ clock' = clock + 1
    /\ UNCHANGED <<limit, lease, nextSince, retired, request, changes, changedAt>>

RequestStep(q) ==
    \/ \E k \in Key : Arrive(q, k)
    \/ \E t \in Instants(q) : RefuseClaim(q, t)
    \/ \E t \in Instants(q) : DropClaim(q, t)
    \/ \E t \in Instants(q) : Renew(q, t)
    \/ \E t \in Instants(q) : Grant(q, t)

Next ==
    \/ \E q \in Request : RequestStep(q)
    \/ \E k \in Key : Release(k) \/ StopSession(k)
    \/ \E p \in Player : Retire(p)
    \/ \E l \in 0..MaxLimit : ChangePlan(l) \/ StopComplimentary(l)
    \/ Tick

Spec == Init /\ [][Next]_vars

-----------------------------------------------------------------------------
(* A row of the table is complete or absent, and no request gets past the  *)
(* service check with nothing to grant.                                    *)
TypeOK ==
    /\ clock \in Nat
    /\ limit \in Nat
    /\ lease \in [Key -> LeaseRow]
    /\ \A k \in Key : lease[k].kind = "none" => lease[k] = NoLease
    /\ nextSince \in Nat \ {0}
    /\ retired \subseteq Player
    /\ request \in [Request -> Pending \union {NoRequest}]
    /\ changes \in Nat
    /\ changedAt \in Nat

(* docs/stage-15d: each enrolled player holds at most one active device    *)
(* lease, whatever limit and instant its concurrent requests have read,    *)
(* and whether or not the lease has expired meanwhile.                     *)
DeviceLock == \A x, y \in Held : x[1] = y[1] => x = y

(* docs/stage-15b, the quota: a lease and those created before it fit into *)
(* the limit the lease was last granted or renewed under, although claims  *)
(* overlap and work with limits and instants read earlier.                 *)
UpTo(k) == {x \in Held : lease[x].since <= lease[k].since}
RankWithinLimit == \A k \in Held : Cardinality(UpTo(k)) <= lease[k].under

(* docs/stage-15b: a plan change takes effect with the next renewals.  One *)
(* lease after the last request that may have read the old limit, no more  *)
(* streams are active than the new limit allows.                           *)
QuotaRestored ==
    clock >= changedAt + RequestTicks + LeaseTicks => Cardinality(LiveAt(clock)) <= limit

(* docs/stage-15c: a stopped browser stays out for its safety window.  No  *)
(* request in progress, release, second stop or plan change brings it back;*)
(* only retiring its player removes the row.                               *)
KeepsBlocked ==
    \A k \in Key :
        Blocked(k, clock) /\ k[1] \notin retired' \ retired => lease'[k] = lease[k]

StopHolds == [][KeepsBlocked]_vars

(* docs/stage-15b: earlier holders keep their slots.  The claim of one     *)
(* browser never takes away or shortens the running lease of another.      *)
KeepsOthers ==
    \A q \in Request : \A k \in LiveAt(clock) :
        (request'[q] # request[q] /\ request[q] # NoRequest /\ request[q].key # k)
            => lease'[k] = lease[k]

NoEviction == [][KeepsOthers]_vars

(* The order of creation is strict. *)
SinceDistinct ==
    /\ \A k \in Held : lease[k].since < nextSince
    /\ \A x, y \in Held : lease[x].since = lease[y].since => x = y

(* Only requests from before the last change know another limit, and what  *)
(* they were granted runs out one lease after they had to commit.          *)
OldLimitFades ==
    /\ changedAt <= clock
    /\ \A q \in Request : request[q] # NoRequest =>
          /\ request[q].readAt <= clock /\ clock <= request[q].readAt + RequestTicks
          /\ request[q].limit = limit \/ request[q].readAt <= changedAt
    /\ \A k \in Held :
          /\ lease[k].until <= clock + LeaseTicks
          /\ \/ lease[k].under = limit
             \/ lease[k].until <= changedAt + RequestTicks + LeaseTicks

(* The inductive invariant of the proofs in PlayerLeaseProofs. *)
IInv ==
    /\ TypeOK
    /\ SinceDistinct
    /\ OldLimitFades
    /\ DeviceLock
    /\ RankWithinLimit
=============================================================================
