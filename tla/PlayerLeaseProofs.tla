------------------------- MODULE PlayerLeaseProofs -------------------------
(***************************************************************************)
(* What holds of PlayerLease for any number of players, browsers and       *)
(* concurrent requests, any lease and request duration, any limits, and    *)
(* without the bounds of the model.                                        *)
(***************************************************************************)
EXTENDS PlayerLease, FiniteSetTheorems, WellFoundedInduction, TLAPS

(* What the sweep leaves: the unexpired rows as they were. *)
LEMMA SweptRows ==
    ASSUME TypeOK, NEW t \in Nat
    PROVE  /\ Swept(t) \in [Key -> LeaseRow]
           /\ \A k \in Key : Swept(t)[k].kind = "none" => Swept(t)[k] = NoLease
           /\ \A k \in Key : Swept(t)[k].kind = "held" <=> k \in LiveAt(t)
           /\ \A k \in Key : lease[k].until > t => Swept(t)[k] = lease[k]
           /\ \A k \in Key : Swept(t)[k] \in {lease[k], NoLease}
<1>1. NoLease \in LeaseRow /\ NoLease.kind = "none"
  BY DEF NoLease, LeaseRow
<1>2. \A k \in Key : lease[k] \in LeaseRow /\ lease[k].until \in Nat
  BY DEF TypeOK, LeaseRow
<1>3. Swept(t) = [k \in Key |-> IF lease[k].until <= t THEN NoLease ELSE lease[k]]
  BY DEF Swept
<1>4. QED
  BY <1>1, <1>2, <1>3 DEF TypeOK, LiveAt, Held

LEMMA PendingType ==
    ASSUME TypeOK, NEW q \in Request, request[q] # NoRequest
    PROVE  /\ request[q] \in Pending
           /\ request[q].key \in Key
           /\ request[q].readAt \in Nat
           /\ request[q].limit \in Nat \ {0}
BY DEF TypeOK, Pending

(* What a claim works with. *)
LEMMA InstantType ==
    ASSUME TypeOK, NEW q \in Request, NEW t \in Instants(q)
    PROVE  /\ request[q] # NoRequest
           /\ request[q] \in Pending
           /\ request[q].key \in Key
           /\ request[q].limit \in Nat \ {0}
           /\ t \in Nat /\ request[q].readAt <= t /\ t <= clock
<1>1. request[q] # NoRequest
  BY DEF Instants
<1>2. request[q].readAt \in Nat /\ clock \in Nat
  BY <1>1, PendingType DEF TypeOK
<1>3. QED
  BY <1>1, <1>2, PendingType DEF Instants

LEMMA RenewedType ==
    ASSUME NEW row \in LeaseRow, NEW t \in Nat, NEW l \in Nat
    PROVE  /\ RenewedLease(row, t, l) \in LeaseRow
           /\ RenewedLease(row, t, l).kind = row.kind
           /\ RenewedLease(row, t, l).since = row.since
           /\ RenewedLease(row, t, l).until = t + LeaseTicks
           /\ RenewedLease(row, t, l).under = l
<1> DEFINE until == t + LeaseTicks
<1>1. until \in Nat
  BY TicksAssumption
<1> HIDE DEF until
<1>2. /\ [row EXCEPT !.until = until, !.under = l] \in LeaseRow
      /\ [row EXCEPT !.until = until, !.under = l].kind = row.kind
      /\ [row EXCEPT !.until = until, !.under = l].since = row.since
      /\ [row EXCEPT !.until = until, !.under = l].until = until
      /\ [row EXCEPT !.until = until, !.under = l].under = l
  BY <1>1 DEF LeaseRow
<1>3. QED
  BY <1>2 DEF RenewedLease, until

LEMMA GrantedType ==
    ASSUME NEW s \in Nat, NEW t \in Nat, NEW l \in Nat
    PROVE  /\ GrantedLease(s, t, l) \in LeaseRow
           /\ GrantedLease(s, t, l).kind = "held"
           /\ GrantedLease(s, t, l).since = s
           /\ GrantedLease(s, t, l).until = t + LeaseTicks
           /\ GrantedLease(s, t, l).under = l
BY TicksAssumption DEF GrantedLease, LeaseRow

-----------------------------------------------------------------------------
LEMMA TypeInit == Init => TypeOK
BY DEF Init, TypeOK, NoLease, LeaseRow

LEMMA TypeStep ==
    ASSUME TypeOK, [Next]_vars
    PROVE  TypeOK'
<1> USE DEF TypeOK
<1>1. ASSUME NEW q \in Request, NEW k \in Key, Arrive(q, k)
      PROVE  TypeOK'
  <2>1. [key |-> k, readAt |-> clock, limit |-> limit] \in Pending
    BY <1>1 DEF Arrive, Pending
  <2>2. QED
    BY <1>1, <2>1 DEF Arrive
<1>2. ASSUME NEW q \in Request, NEW t \in Instants(q),
             RefuseClaim(q, t) \/ DropClaim(q, t) \/ Renew(q, t) \/ Grant(q, t)
      PROVE  TypeOK'
  <2> DEFINE r == request[q]
             table == Swept(t)
  <2>2. r.key \in Key /\ t \in Nat /\ r.limit \in Nat \ {0}
    BY InstantType
  <2>3. /\ table \in [Key -> LeaseRow]
        /\ \A k \in Key : table[k].kind = "none" => table[k] = NoLease
    BY <2>2, SweptRows
  <2>4. /\ request' = [request EXCEPT ![q] = NoRequest]
        /\ UNCHANGED <<clock, limit, retired, changes, changedAt>>
    BY <1>2 DEF RefuseClaim, DropClaim, Renew, Grant, Answer
  <2>5. NoLease \in LeaseRow
    BY DEF NoLease, LeaseRow
  <2>6. CASE RefuseClaim(q, t)
    <3>1. lease' = table /\ nextSince' = nextSince
      BY <2>6 DEF RefuseClaim
    <3>2. QED
      BY <2>3, <2>4, <3>1
  <2>7. CASE DropClaim(q, t)
    <3>1. lease' = [table EXCEPT ![r.key] = NoLease] /\ nextSince' = nextSince
      BY <2>7 DEF DropClaim
    <3> HIDE DEF table
    <3>2. QED
      BY <2>2, <2>3, <2>4, <2>5, <3>1
  <2>8. CASE Renew(q, t)
    <3>1. /\ lease' = [table EXCEPT ![r.key] = RenewedLease(table[r.key], t, r.limit)]
          /\ nextSince' = nextSince
          /\ r.key \in LiveAt(t)
      BY <2>8 DEF Renew
    <3>2. table[r.key].kind = "held"
      BY <2>2, <3>1, SweptRows
    <3> HIDE DEF table, r
    <3> DEFINE row == table[r.key]
               under == r.limit
    <3>3. row \in LeaseRow /\ under \in Nat /\ t \in Nat /\ row.kind = "held"
      BY <2>2, <2>3, <3>2
    <3>4. /\ RenewedLease(row, t, under) \in LeaseRow
          /\ RenewedLease(row, t, under).kind = "held"
      <4> HIDE DEF row, under
      <4>1. QED
        BY <3>3, RenewedType
    <3>5. QED
      BY <2>2, <2>3, <2>4, <3>1, <3>4
  <2>9. CASE Grant(q, t)
    <3>1. /\ lease' = [table EXCEPT ![r.key] = GrantedLease(nextSince, t, r.limit)]
          /\ nextSince' = nextSince + 1
      BY <2>9 DEF Grant
    <3>2. table[r.key] \in LeaseRow /\ nextSince \in Nat
      BY <2>2, <2>3
    <3>3. /\ GrantedLease(nextSince, t, r.limit) \in LeaseRow
          /\ GrantedLease(nextSince, t, r.limit).kind = "held"
      BY <2>2, <3>2, GrantedType
    <3> HIDE DEF table
    <3>4. QED
      BY <2>2, <2>3, <2>4, <3>1, <3>3
  <2>10. QED
    BY <1>2, <2>6, <2>7, <2>8, <2>9
<1>3. ASSUME NEW k \in Key, Release(k)
      PROVE  TypeOK'
  BY <1>3 DEF Release, NoLease, LeaseRow
<1>4. ASSUME NEW k \in Key, StopSession(k)
      PROVE  TypeOK'
  <2> DEFINE row == [lease[k] EXCEPT !.kind = "stopped", !.until = clock + LeaseTicks]
  <2>1. clock + LeaseTicks \in Nat
    BY TicksAssumption
  <2>2. row \in LeaseRow /\ row.kind = "stopped"
    BY <2>1 DEF LeaseRow
  <2>3. lease' = [lease EXCEPT ![k] = row]
    BY <1>4 DEF StopSession
  <2> HIDE DEF row
  <2>4. QED
    BY <1>4, <2>2, <2>3 DEF StopSession
<1>5. ASSUME NEW p \in Player, Retire(p)
      PROVE  TypeOK'
  <2>1. NoLease \in LeaseRow
    BY DEF NoLease, LeaseRow
  <2>2. QED
    BY <1>5, <2>1 DEF Retire
<1>6. ASSUME NEW l \in 0..MaxLimit, ChangePlan(l)
      PROVE  TypeOK'
  BY <1>6 DEF ChangePlan, NewLimit
<1>7. ASSUME NEW l \in 0..MaxLimit, StopComplimentary(l)
      PROVE  TypeOK'
  <2>1. \A k \in Key : /\ [lease[k] EXCEPT !.kind = "stopped"] \in LeaseRow
                       /\ [lease[k] EXCEPT !.kind = "stopped"].kind = "stopped"
    BY DEF LeaseRow
  <2>2. lease' \in [Key -> LeaseRow]
    BY <1>7, <2>1 DEF StopComplimentary
  <2>3. \A k \in Key : lease'[k].kind = "none" => lease'[k] = NoLease
    BY <1>7, <2>1 DEF StopComplimentary
  <2>4. QED
    BY <1>7, <2>2, <2>3 DEF StopComplimentary, NewLimit
<1>8. CASE Tick
  BY <1>8 DEF Tick
<1>9. CASE UNCHANGED vars
  BY <1>9 DEF vars
<1>10. QED
  BY <1>1, <1>2, <1>3, <1>4, <1>5, <1>6, <1>7, <1>8, <1>9 DEF Next, RequestStep

(* Every reachable state has its type. *)
THEOREM LeaseTypeCorrect == Spec => []TypeOK
<1>1. QED
  BY TypeInit, TypeStep, PTL DEF Spec

-----------------------------------------------------------------------------
(* The part of the inductive invariant that is about the table. *)
TableInv == SinceDistinct /\ DeviceLock /\ RankWithinLimit

LEMMA RankFinite ==
    ASSUME NEW S \in SUBSET Key
    PROVE  IsFiniteSet(S) /\ Cardinality(S) \in Nat
BY FiniteAssumption, FS_Subset, FS_CardinalityType DEF Key

(* Fewer leases than before, each as senior as before. *)
LEMMA TableShrinks ==
    ASSUME TypeOK, TypeOK', TableInv, nextSince' = nextSince,
           \A k \in Held' : /\ k \in Held
                            /\ lease'[k].since = lease[k].since
                            /\ lease'[k].under = lease[k].under
    PROVE  TableInv'
<1>1. SinceDistinct' /\ DeviceLock'
  BY DEF TableInv, SinceDistinct, DeviceLock
<1>2. ASSUME NEW k \in Held'
      PROVE  Cardinality(UpTo(k)') <= lease'[k].under
  <2>1. UpTo(k)' \in SUBSET Key /\ UpTo(k) \in SUBSET Key
    BY DEF UpTo, Held
  <2>2. UpTo(k)' \subseteq UpTo(k)
    BY <1>2 DEF UpTo
  <2>3. Cardinality(UpTo(k)') <= Cardinality(UpTo(k))
    BY <2>1, <2>2, RankFinite, FS_Subset
  <2>4. Cardinality(UpTo(k)) <= lease[k].under /\ lease'[k].under = lease[k].under
    BY <1>2 DEF TableInv, RankWithinLimit
  <2>5. lease[k].under \in Nat
    BY <1>2 DEF TypeOK, LeaseRow, Held
  <2>6. QED
    BY <2>1, <2>3, <2>4, <2>5, RankFinite
<1>3. RankWithinLimit'
  BY <1>2 DEF RankWithinLimit
<1>4. QED
  BY <1>1, <1>3 DEF TableInv

(* The renewed lease and its seniors fit into the limit of the request. *)
LEMMA TableRenew ==
    ASSUME TypeOK, TypeOK', TableInv, NEW q \in Request, NEW t \in Instants(q), Renew(q, t)
    PROVE  TableInv'
<1> DEFINE r == request[q]
           live == LiveAt(t)
           table == Swept(t)
<1>1. r.key \in Key /\ t \in Nat /\ r.limit \in Nat \ {0}
  BY InstantType
<1>2. /\ lease' = [table EXCEPT ![r.key] = RenewedLease(table[r.key], t, r.limit)]
      /\ nextSince' = nextSince
      /\ r.key \in live
      /\ Cardinality(Seniors(r.key, live)) < r.limit
  BY DEF Renew
<1>3. /\ table \in [Key -> LeaseRow]
      /\ \A k \in Key : table[k].kind = "held" <=> k \in live
      /\ \A k \in live : table[k] = lease[k]
      /\ live \subseteq Held /\ Held \subseteq Key
  BY <1>1, SweptRows DEF LiveAt, Held
<1>4. /\ RenewedLease(table[r.key], t, r.limit).kind = table[r.key].kind
      /\ RenewedLease(table[r.key], t, r.limit).since = table[r.key].since
      /\ RenewedLease(table[r.key], t, r.limit).under = r.limit
  <2> HIDE DEF table, r
  <2> DEFINE row == table[r.key]
             under == r.limit
  <2>1. row \in LeaseRow /\ under \in Nat /\ t \in Nat
    BY <1>1, <1>3
  <2>3. /\ RenewedLease(row, t, under).kind = row.kind
        /\ RenewedLease(row, t, under).since = row.since
        /\ RenewedLease(row, t, under).under = under
    <3> HIDE DEF row, under
    <3>1. QED
      BY <2>1, RenewedType
  <2>2. QED
    BY <2>3
<1> HIDE DEF table, live, r
<1>5. /\ Held' = live
      /\ \A k \in live : lease'[k].since = lease[k].since
      /\ \A k \in live \ {r.key} : lease'[k].under = lease[k].under
      /\ lease'[r.key].under = r.limit
  BY <1>1, <1>2, <1>3, <1>4 DEF Held
<1>6. SinceDistinct' /\ DeviceLock'
  BY <1>2, <1>3, <1>5 DEF TableInv, SinceDistinct, DeviceLock
<1>7. ASSUME NEW k \in Held', k # r.key
      PROVE  Cardinality(UpTo(k)') <= lease'[k].under
  <2>1. UpTo(k)' \in SUBSET Key /\ UpTo(k) \in SUBSET Key
    BY DEF UpTo, Held
  <2>2. UpTo(k)' \subseteq UpTo(k)
    BY <1>3, <1>5, <1>7 DEF UpTo
  <2>3. Cardinality(UpTo(k)') <= Cardinality(UpTo(k))
    BY <2>1, <2>2, RankFinite, FS_Subset
  <2>4. Cardinality(UpTo(k)) <= lease[k].under /\ lease'[k].under = lease[k].under
    BY <1>3, <1>5, <1>7 DEF TableInv, RankWithinLimit
  <2>5. lease[k].under \in Nat
    BY <1>3, <1>5, <1>7 DEF TypeOK, LeaseRow
  <2>6. QED
    BY <2>1, <2>3, <2>4, <2>5, RankFinite
<1>8. ASSUME NEW k \in Held', k = r.key
      PROVE  Cardinality(UpTo(k)') <= lease'[k].under
  <2> DEFINE S == Seniors(r.key, live)
  <2>1. \A x \in live : lease[x].since \in Nat
    BY <1>3 DEF TypeOK, LeaseRow
  <2>2. \A x \in live : lease[x].since <= lease[r.key].since => x \in S \/ x = r.key
    BY <1>2, <1>3, <2>1 DEF Seniors, TableInv, SinceDistinct
  <2>3. S \in SUBSET Key /\ S \union {k} \in SUBSET Key /\ UpTo(k)' \in SUBSET Key
    BY <1>1, <1>3, <1>5, <1>8 DEF Seniors, UpTo
  <2>4. UpTo(k)' \subseteq S \union {k}
    BY <1>2, <1>5, <1>8, <2>2 DEF UpTo
  <2>5. Cardinality(S \union {k}) <= Cardinality(S) + 1
    BY <2>3, RankFinite, FS_AddElement
  <2>6. Cardinality(UpTo(k)') <= Cardinality(S \union {k})
    BY <2>3, <2>4, RankFinite, FS_Subset
  <2>7. Cardinality(S) < r.limit
    BY <1>2
  <2>8. Cardinality(S) \in Nat /\ Cardinality(S \union {k}) \in Nat
        /\ Cardinality(UpTo(k)') \in Nat
    BY <2>3, RankFinite
  <2> HIDE DEF S
  <2>9. QED
    BY <1>1, <1>5, <1>8, <2>5, <2>6, <2>7, <2>8
<1>9. RankWithinLimit'
  BY <1>5, <1>7, <1>8 DEF RankWithinLimit
<1>10. QED
  BY <1>6, <1>9 DEF TableInv

(* The new lease is the youngest, and it is within the limit together with *)
(* every lease the sweep has left.                                         *)
LEMMA TableGrant ==
    ASSUME TypeOK, TypeOK', TableInv, NEW q \in Request, NEW t \in Instants(q), Grant(q, t)
    PROVE  TableInv'
<1> DEFINE r == request[q]
           live == LiveAt(t)
           table == Swept(t)
           new == GrantedLease(nextSince, t, r.limit)
<1>1. /\ r.key \in Key /\ t \in Nat /\ r.limit \in Nat \ {0}
      /\ nextSince \in Nat
  BY InstantType DEF TypeOK
<1>2. /\ lease' = [table EXCEPT ![r.key] = new]
      /\ nextSince' = nextSince + 1
      /\ r.key \notin live
      /\ Cardinality(live) < r.limit
      /\ ~DeviceInUse(r.key, t)
  BY DEF Grant
<1>3. /\ table \in [Key -> LeaseRow]
      /\ \A k \in Key : table[k].kind = "held" <=> k \in live
      /\ \A k \in live : table[k] = lease[k]
      /\ live \subseteq Held /\ Held \subseteq Key
  BY <1>1, SweptRows DEF LiveAt, Held
<1>4. new.kind = "held" /\ new.since = nextSince /\ new.under = r.limit
  BY <1>1 DEF GrantedLease
<1>5. \A x \in live : x[1] # r.key[1]
  BY <1>2 DEF DeviceInUse
<1> HIDE DEF table, live, r, new
<1>6. /\ Held' = live \union {r.key}
      /\ \A k \in live : lease'[k] = lease[k]
      /\ lease'[r.key].since = nextSince
      /\ lease'[r.key].under = r.limit
  BY <1>1, <1>2, <1>3, <1>4 DEF Held
<1>7. \A k \in live : lease[k].since < nextSince /\ lease[k].since \in Nat
  BY <1>3 DEF TableInv, SinceDistinct, TypeOK, LeaseRow
<1>8. SinceDistinct'
  BY <1>1, <1>2, <1>3, <1>6, <1>7 DEF TableInv, SinceDistinct
<1>9. DeviceLock'
  BY <1>3, <1>5, <1>6 DEF TableInv, DeviceLock
<1>10. ASSUME NEW k \in live
       PROVE  Cardinality(UpTo(k)') <= lease'[k].under
  <2>1. UpTo(k)' \in SUBSET Key /\ UpTo(k) \in SUBSET Key
    BY DEF UpTo, Held
  <2>2. UpTo(k)' \subseteq UpTo(k)
    BY <1>1, <1>3, <1>6, <1>7 DEF UpTo
  <2>3. Cardinality(UpTo(k)') <= Cardinality(UpTo(k))
    BY <2>1, <2>2, RankFinite, FS_Subset
  <2>4. Cardinality(UpTo(k)) <= lease[k].under /\ lease'[k].under = lease[k].under
    BY <1>3, <1>6 DEF TableInv, RankWithinLimit
  <2>5. lease[k].under \in Nat
    BY <1>3 DEF TypeOK, LeaseRow
  <2>6. QED
    BY <2>1, <2>3, <2>4, <2>5, RankFinite
<1>11. ASSUME NEW k \in Held', k = r.key
       PROVE  Cardinality(UpTo(k)') <= lease'[k].under
  <2>1. live \in SUBSET Key /\ live \union {k} \in SUBSET Key
        /\ UpTo(k)' \in SUBSET Key
    BY <1>1, <1>3, <1>6, <1>11 DEF UpTo
  <2>2. UpTo(k)' \subseteq live \union {k}
    BY <1>6, <1>11 DEF UpTo
  <2>3. Cardinality(UpTo(k)') <= Cardinality(live \union {k})
    BY <2>1, <2>2, RankFinite, FS_Subset
  <2>4. Cardinality(live \union {k}) = Cardinality(live) + 1
    BY <1>2, <1>11, <2>1, RankFinite, FS_AddElement
  <2>5. Cardinality(live) \in Nat /\ Cardinality(UpTo(k)') \in Nat
    BY <2>1, RankFinite
  <2>6. QED
    BY <1>1, <1>2, <1>6, <1>11, <2>3, <2>4, <2>5
<1>12. RankWithinLimit'
  BY <1>6, <1>10, <1>11 DEF RankWithinLimit
<1>13. QED
  BY <1>8, <1>9, <1>12 DEF TableInv

LEMMA TableStep ==
    ASSUME TypeOK, TypeOK', TableInv, [Next]_vars
    PROVE  TableInv'
<1>1. ASSUME NEW q \in Request, NEW t \in Instants(q),
             RefuseClaim(q, t) \/ DropClaim(q, t)
      PROVE  TableInv'
  <2> DEFINE r == request[q]
             table == Swept(t)
  <2>1. nextSince' = nextSince
    BY <1>1 DEF RefuseClaim, DropClaim
  <2>2. r.key \in Key /\ t \in Nat
    BY InstantType
  <2>3. /\ table \in [Key -> LeaseRow]
        /\ \A k \in Key : table[k].kind = "held" => k \in Held /\ table[k] = lease[k]
    BY <2>2, SweptRows DEF LiveAt, Held
  <2>4. lease' = table \/ lease' = [table EXCEPT ![r.key] = NoLease]
    BY <1>1 DEF RefuseClaim, DropClaim
  <2>5. NoLease.kind # "held"
    BY DEF NoLease
  <2> HIDE DEF table
  <2>6. \A k \in Held' : k \in Held /\ lease'[k] = lease[k]
    BY <2>2, <2>3, <2>4, <2>5 DEF Held
  <2>7. QED
    BY <2>1, <2>6, TableShrinks
<1>2. ASSUME NEW k \in Key, Release(k) \/ StopSession(k)
      PROVE  TableInv'
  <2> DEFINE row == [lease[k] EXCEPT !.kind = "stopped", !.until = clock + LeaseTicks]
  <2>1. nextSince' = nextSince
        /\ (lease' = [lease EXCEPT ![k] = NoLease] \/ lease' = [lease EXCEPT ![k] = row])
    BY <1>2 DEF Release, StopSession
  <2>2. NoLease.kind # "held" /\ row.kind # "held"
    BY DEF NoLease, TypeOK, LeaseRow
  <2> HIDE DEF row
  <2>3. \A x \in Held' : x \in Held /\ lease'[x] = lease[x]
    BY <2>1, <2>2 DEF Held, TypeOK
  <2>4. QED
    BY <2>1, <2>3, TableShrinks
<1>3. ASSUME NEW p \in Player, Retire(p)
      PROVE  TableInv'
  <2>1. NoLease.kind # "held"
    BY DEF NoLease
  <2>2. \A x \in Held' : x \in Held /\ lease'[x] = lease[x]
    BY <1>3, <2>1 DEF Retire, Held
  <2>3. QED
    BY <1>3, <2>2, TableShrinks DEF Retire
<1>4. ASSUME NEW l \in 0..MaxLimit, StopComplimentary(l)
      PROVE  TableInv'
  <2>1. \A k \in Key : [lease[k] EXCEPT !.kind = "stopped"].kind # "held"
    BY DEF TypeOK, LeaseRow
  <2>2. \A x \in Held' : x \in Held /\ lease'[x] = lease[x]
    BY <1>4, <2>1 DEF StopComplimentary, Held
  <2>3. QED
    BY <1>4, <2>2, TableShrinks DEF StopComplimentary, NewLimit
<1>5. ASSUME NEW q \in Request, NEW t \in Instants(q), Renew(q, t) \/ Grant(q, t)
      PROVE  TableInv'
  BY <1>5, TableRenew, TableGrant
<1>6. CASE UNCHANGED <<lease, nextSince>>
  BY <1>6, TableShrinks DEF Held
<1>7. QED
  BY <1>1, <1>2, <1>3, <1>4, <1>5, <1>6
     DEF Next, RequestStep, Arrive, ChangePlan, NewLimit, Tick, vars

-----------------------------------------------------------------------------
(* A step that keeps the limit: requests of before the step, and leases    *)
(* that are as they were or were written by a claim of such a request.     *)
LEMMA FadesWithin ==
    ASSUME TypeOK, TypeOK', OldLimitFades,
           UNCHANGED <<clock, limit, changedAt>>,
           \A q \in Request : request'[q] \in {request[q], NoRequest},
           \A k \in Held' :
              \/ k \in Held /\ lease'[k] = lease[k]
              \/ \E q \in Request : \E t \in Instants(q) :
                    /\ lease'[k].until = t + LeaseTicks
                    /\ lease'[k].under = request[q].limit
    PROVE  OldLimitFades'
<1>1. ASSUME NEW k \in Held', NEW q \in Request, NEW t \in Instants(q),
             lease'[k].until = t + LeaseTicks, lease'[k].under = request[q].limit
      PROVE  /\ lease'[k].until <= clock + LeaseTicks
             /\ \/ lease'[k].under = limit
                \/ lease'[k].until <= changedAt + RequestTicks + LeaseTicks
  <2>1. request[q] # NoRequest /\ t \in Nat /\ t <= clock /\ request[q].readAt \in Nat
    BY InstantType, PendingType
  <2>2. /\ clock <= request[q].readAt + RequestTicks
        /\ request[q].limit = limit \/ request[q].readAt <= changedAt
    BY <2>1 DEF OldLimitFades
  <2>3. clock \in Nat /\ changedAt \in Nat
    BY DEF TypeOK
  <2>4. QED
    BY <1>1, <2>1, <2>2, <2>3, TicksAssumption
<1>2. \A k \in Held' :
         /\ lease'[k].until <= clock + LeaseTicks
         /\ \/ lease'[k].under = limit
            \/ lease'[k].until <= changedAt + RequestTicks + LeaseTicks
  BY <1>1 DEF OldLimitFades
<1>3. \A q \in Request : request'[q] # NoRequest => request'[q] = request[q]
  OBVIOUS
<1>4. QED
  BY <1>2, <1>3 DEF OldLimitFades

LEMMA FadesStep ==
    ASSUME TypeOK, TypeOK', OldLimitFades, [Next]_vars
    PROVE  OldLimitFades'
<1>1. ASSUME NEW q \in Request, NEW k \in Key, Arrive(q, k)
      PROVE  OldLimitFades'
  <2> DEFINE new == [key |-> k, readAt |-> clock, limit |-> limit]
  <2>1. /\ request' = [request EXCEPT ![q] = new]
        /\ UNCHANGED <<clock, limit, lease, changedAt>>
    BY <1>1 DEF Arrive
  <2>2. new.readAt = clock /\ new.limit = limit /\ clock \in Nat
        /\ clock <= clock + RequestTicks
    BY TicksAssumption DEF TypeOK
  <2>3. \A p \in Request : request'[p] = IF p = q THEN new ELSE request[p]
    BY <2>1 DEF TypeOK
  <2>4. Held' = Held
    BY <2>1 DEF Held
  <2> HIDE DEF new
  <2>5. QED
    BY <2>1, <2>2, <2>3, <2>4 DEF OldLimitFades
<1>2. ASSUME NEW q \in Request, NEW t \in Instants(q),
             RefuseClaim(q, t) \/ DropClaim(q, t) \/ Renew(q, t) \/ Grant(q, t)
      PROVE  OldLimitFades'
  <2> DEFINE r == request[q]
             table == Swept(t)
  <2>1. r.key \in Key /\ t \in Nat /\ r.limit \in Nat
    BY InstantType
  <2>2. /\ table \in [Key -> LeaseRow]
        /\ \A k \in Key : table[k].kind = "held" => k \in Held /\ table[k] = lease[k]
    BY <2>1, SweptRows DEF LiveAt, Held
  <2>3. /\ request' = [request EXCEPT ![q] = NoRequest]
        /\ UNCHANGED <<clock, limit, changedAt>>
    BY <1>2 DEF RefuseClaim, DropClaim, Renew, Grant, Answer
  <2>4. \A p \in Request : request'[p] \in {request[p], NoRequest}
    BY <2>3 DEF TypeOK
  <2>5. /\ RenewedLease(table[r.key], t, r.limit).until = t + LeaseTicks
        /\ RenewedLease(table[r.key], t, r.limit).under = r.limit
    <3>1. table[r.key] \in LeaseRow
      BY <2>1, <2>2
    <3> HIDE DEF table, r
    <3>2. QED
      BY <2>1, <3>1, RenewedType
  <2>6. /\ GrantedLease(nextSince, t, r.limit).until = t + LeaseTicks
        /\ GrantedLease(nextSince, t, r.limit).under = r.limit
    BY DEF GrantedLease
  <2>7. \/ lease' = table
        \/ lease' = [table EXCEPT ![r.key] = NoLease]
        \/ lease' = [table EXCEPT ![r.key] = RenewedLease(table[r.key], t, r.limit)]
        \/ lease' = [table EXCEPT ![r.key] = GrantedLease(nextSince, t, r.limit)]
    BY <1>2 DEF RefuseClaim, DropClaim, Renew, Grant
  <2>8. NoLease.kind # "held"
    BY DEF NoLease
  <2> HIDE DEF table, r
  <2>9. \A k \in Held' : \/ k \in Held /\ lease'[k] = lease[k]
                         \/ /\ lease'[k].until = t + LeaseTicks
                            /\ lease'[k].under = r.limit
    BY <2>1, <2>2, <2>5, <2>6, <2>7, <2>8 DEF Held
  <2>10. \A k \in Held' : \/ k \in Held /\ lease'[k] = lease[k]
                          \/ \E p \in Request : \E u \in Instants(p) :
                                /\ lease'[k].until = u + LeaseTicks
                                /\ lease'[k].under = request[p].limit
    BY <2>9 DEF r
  <2>11. QED
    BY <2>3, <2>4, <2>10, FadesWithin
<1>3. ASSUME UNCHANGED <<clock, limit, changedAt, request>>,
             \A k \in Held' : k \in Held /\ lease'[k] = lease[k]
      PROVE  OldLimitFades'
  BY <1>3, FadesWithin
<1>4. ASSUME NEW k \in Key, Release(k) \/ StopSession(k)
      PROVE  OldLimitFades'
  <2> DEFINE row == [lease[k] EXCEPT !.kind = "stopped", !.until = clock + LeaseTicks]
  <2>1. UNCHANGED <<clock, limit, changedAt, request>>
        /\ (lease' = [lease EXCEPT ![k] = NoLease] \/ lease' = [lease EXCEPT ![k] = row])
    BY <1>4 DEF Release, StopSession
  <2>2. NoLease.kind # "held" /\ row.kind # "held"
    BY DEF NoLease, TypeOK, LeaseRow
  <2> HIDE DEF row
  <2>3. \A x \in Held' : x \in Held /\ lease'[x] = lease[x]
    BY <2>1, <2>2 DEF Held, TypeOK
  <2>4. QED
    BY <1>3, <2>1, <2>3
<1>5. ASSUME NEW p \in Player, Retire(p)
      PROVE  OldLimitFades'
  <2>1. \A x \in Held' : x \in Held /\ lease'[x] = lease[x]
    BY <1>5 DEF Retire, Held, NoLease
  <2>2. QED
    BY <1>3, <1>5, <2>1 DEF Retire
<1>6. ASSUME NEW l \in 0..MaxLimit, ChangePlan(l) \/ StopComplimentary(l)
      PROVE  OldLimitFades'
  <2>1. UNCHANGED <<clock, request>> /\ changedAt' = clock
    BY <1>6 DEF ChangePlan, StopComplimentary, NewLimit
  <2>2. \A k \in Key : [lease[k] EXCEPT !.kind = "stopped"].kind # "held"
    BY DEF TypeOK, LeaseRow
  <2>3. \A k \in Held' : k \in Held /\ lease'[k] = lease[k]
    BY <1>6, <2>2 DEF ChangePlan, StopComplimentary, Held
  <2>4. \A k \in Held : lease[k].until \in Nat
    BY DEF TypeOK, LeaseRow, Held
  <2>5. \A k \in Held' : /\ lease'[k].until <= clock + LeaseTicks
                         /\ lease'[k].until <= clock + RequestTicks + LeaseTicks
    BY <2>3, <2>4, TicksAssumption DEF OldLimitFades, TypeOK
  <2>6. QED
    BY <2>1, <2>5 DEF OldLimitFades, TypeOK
<1>7. CASE Tick
  <2>1. /\ UNCHANGED <<limit, lease, request, changedAt>> /\ clock' = clock + 1
        /\ \A q \in Request : request[q] # NoRequest => clock < request[q].readAt + RequestTicks
    BY <1>7 DEF Tick
  <2>2. Held' = Held /\ \A k \in Held : lease[k].until \in Nat
    BY <2>1 DEF TypeOK, LeaseRow, Held
  <2>3. \A q \in Request : request[q] # NoRequest => request[q].readAt \in Nat
    BY PendingType
  <2>4. \A k \in Held' : lease'[k].until <= clock' + LeaseTicks
    BY <2>1, <2>2, TicksAssumption DEF OldLimitFades, TypeOK
  <2>5. \A q \in Request : request'[q] # NoRequest =>
            /\ request'[q].readAt <= clock' /\ clock' <= request'[q].readAt + RequestTicks
    BY <2>1, <2>3, TicksAssumption DEF OldLimitFades, TypeOK
  <2>6. QED
    BY <2>1, <2>2, <2>4, <2>5 DEF OldLimitFades, TypeOK
<1>8. CASE UNCHANGED vars
  BY <1>3, <1>8 DEF vars, Held
<1>9. QED
  BY <1>1, <1>2, <1>4, <1>5, <1>6, <1>7, <1>8 DEF Next, RequestStep

LEMMA LeaseInductive == Spec => []IInv
<1>1. Init => IInv
  <2>1. Init => TypeOK /\ Held = {}
    BY TypeInit DEF Init, Held, NoLease
  <2>2. Init => OldLimitFades
    BY <2>1 DEF Init, OldLimitFades
  <2>3. QED
    BY <2>1, <2>2 DEF IInv, SinceDistinct, DeviceLock, RankWithinLimit
<1>2. IInv /\ [Next]_vars => IInv'
  BY TypeStep, TableStep, FadesStep DEF IInv, TableInv
<1>3. QED
  BY <1>1, <1>2, PTL DEF Spec

(* An enrolled player never has two device leases, however many browsers   *)
(* claim one at the same time.                                             *)
THEOREM OneDevicePerPlayer == Spec => []DeviceLock
<1>1. IInv => DeviceLock
  BY DEF IInv
<1>2. QED
  BY <1>1, LeaseInductive, PTL

(* The stream quota: every lease, with those created before it, fits into  *)
(* the limit it was last granted or renewed under.                         *)
THEOREM QuotaAtGrant == Spec => []RankWithinLimit
<1>1. IInv => RankWithinLimit
  BY DEF IInv
<1>2. QED
  BY <1>1, LeaseInductive, PTL

(* Of a set of leases that is not empty, one was created last. *)
LEMMA Youngest ==
    ASSUME TypeOK, SinceDistinct, NEW S \in SUBSET Held, S # {}
    PROVE  \E k \in S : \A x \in S : lease[x].since <= lease[k].since
<1> DEFINE age(x) == nextSince - lease[x].since
           Ages == {age(x) : x \in S}
<1>1. \A x \in S : lease[x].since \in Nat /\ lease[x].since < nextSince
  BY DEF TypeOK, LeaseRow, SinceDistinct, Held
<1>2. nextSince \in Nat
  BY DEF TypeOK
<1>3. Ages \in SUBSET Nat /\ Ages # {}
  BY <1>1, <1>2
<1>4. PICK a \in Ages : \A b \in Ages : a <= b
  <2> DEFINE less == OpToRel(<, Nat)
  <2>1. \A m, n \in Nat : m < n => <<m, n>> \in less
    BY DEF OpToRel
  <2>2. IsWellFoundedOn(less, Nat)
    BY NatLessThanWellFounded
  <2> HIDE DEF Ages, less
  <2>3. PICK a \in Ages : \A b \in Ages : <<b, a>> \notin less
    BY <1>3, <2>2, WFMin
  <2>4. ASSUME NEW b \in Ages
        PROVE  a <= b
    <3>1. a \in Nat /\ b \in Nat
      BY <1>3
    <3>2. ~ (b < a)
      BY <2>1, <2>3, <3>1
    <3>3. QED
      BY <3>1, <3>2
  <2>5. QED
    BY <2>4
<1>5. PICK k \in S : a = age(k)
  BY <1>4
<1>6. \A x \in S : age(k) <= age(x)
  BY <1>4, <1>5
<1>7. QED
  BY <1>1, <1>2, <1>6

(* After a change of the plan the number of active streams is within the   *)
(* new limit as soon as nothing granted before it can still be running.    *)
THEOREM QuotaComesBack == Spec => []QuotaRestored
<1>1. ASSUME IInv, clock >= changedAt + RequestTicks + LeaseTicks
      PROVE  Cardinality(LiveAt(clock)) <= limit
  <2>1. TypeOK /\ SinceDistinct /\ OldLimitFades /\ RankWithinLimit
    BY <1>1 DEF IInv
  <2>2. LiveAt(clock) \in SUBSET Held /\ Held \in SUBSET Key
    BY DEF LiveAt, Held
  <2>3. CASE LiveAt(clock) = {}
    BY <2>1, <2>3, FS_EmptySet DEF TypeOK
  <2>4. CASE LiveAt(clock) # {}
    <3>1. PICK k \in LiveAt(clock) : \A x \in LiveAt(clock) : lease[x].since <= lease[k].since
      BY <2>1, <2>2, <2>4, Youngest
    <3>2. LiveAt(clock) \subseteq UpTo(k) /\ UpTo(k) \in SUBSET Key
      BY <2>2, <3>1 DEF UpTo
    <3>3. Cardinality(LiveAt(clock)) <= Cardinality(UpTo(k))
      BY <3>2, RankFinite, FS_Subset
    <3>4. k \in Held /\ lease[k].until > clock /\ lease[k].until \in Nat
      BY <2>1, <3>1 DEF LiveAt, Held, TypeOK, LeaseRow
    <3>5. lease[k].under = limit
      BY <1>1, <2>1, <3>4, TicksAssumption DEF OldLimitFades, TypeOK
    <3>6. Cardinality(UpTo(k)) <= limit
      BY <2>1, <3>4, <3>5 DEF RankWithinLimit
    <3>7. /\ Cardinality(LiveAt(clock)) \in Nat /\ Cardinality(UpTo(k)) \in Nat
          /\ limit \in Nat
      BY <2>1, <2>2, <3>2, RankFinite DEF TypeOK
    <3>8. QED
      BY <3>3, <3>6, <3>7
  <2>5. QED
    BY <2>3, <2>4
<1>2. IInv => QuotaRestored
  BY <1>1 DEF QuotaRestored
<1>3. QED
  BY <1>2, LeaseInductive, PTL

-----------------------------------------------------------------------------
(* What a claim does to the rows of the other instances. *)
LEMMA ClaimKeepsOthers ==
    ASSUME TypeOK, NEW q \in Request, NEW t \in Instants(q),
           RefuseClaim(q, t) \/ DropClaim(q, t) \/ Renew(q, t) \/ Grant(q, t)
    PROVE  /\ \A p \in Request \ {q} : request'[p] = request[p]
           /\ \A k \in Key \ {request[q].key} : lease'[k] = Swept(t)[k]
           /\ \A k \in Key : lease[k].until > clock => Swept(t)[k] = lease[k]
           /\ request[q].key \notin LiveAt(t) /\ Blocked(request[q].key, t)
                 => lease'[request[q].key] = Swept(t)[request[q].key]
<1> DEFINE r == request[q]
           table == Swept(t)
<1>1. r.key \in Key /\ t \in Nat /\ t <= clock
  BY InstantType
<1>2. table \in [Key -> LeaseRow]
  BY <1>1, SweptRows
<1>3. \A k \in Key : lease[k].until > clock => table[k] = lease[k]
  BY <1>1, SweptRows DEF TypeOK, LeaseRow
<1>4. request' = [request EXCEPT ![q] = NoRequest]
  BY DEF RefuseClaim, DropClaim, Renew, Grant, Answer
<1>5. \/ lease' = table
      \/ /\ r.key \in LiveAt(t) \/ ~Blocked(r.key, t)
         /\ \/ lease' = [table EXCEPT ![r.key] = NoLease]
            \/ lease' = [table EXCEPT ![r.key] = RenewedLease(table[r.key], t, r.limit)]
            \/ lease' = [table EXCEPT ![r.key] = GrantedLease(nextSince, t, r.limit)]
  BY DEF RefuseClaim, DropClaim, Renew, Grant
<1> HIDE DEF table
<1>6. \A k \in Key \ {r.key} : lease'[k] = table[k]
  BY <1>1, <1>2, <1>5
<1>7. \A p \in Request \ {q} : request'[p] = request[p]
  BY <1>4 DEF TypeOK
<1>8. r.key \notin LiveAt(t) /\ Blocked(r.key, t) => lease'[r.key] = table[r.key]
  BY <1>5
<1>9. QED
  BY <1>3, <1>6, <1>7, <1>8 DEF table

(* The claims of other browsers never touch a running lease. *)
THEOREM EarlierHoldersKeepTheirSlots == Spec => NoEviction
<1>1. TypeOK /\ [Next]_vars => [KeepsOthers]_vars
  <2> SUFFICES ASSUME TypeOK, [Next]_vars,
                      NEW q \in Request, NEW k \in LiveAt(clock),
                      request'[q] # request[q], request[q] # NoRequest, request[q].key # k
               PROVE  lease'[k] = lease[k]
    BY DEF KeepsOthers
  <2>1. k \in Key /\ lease[k].until > clock
    BY DEF LiveAt, Held
  <2>2. ASSUME NEW p \in Request, NEW t \in Instants(p),
               RefuseClaim(p, t) \/ DropClaim(p, t) \/ Renew(p, t) \/ Grant(p, t)
        PROVE  lease'[k] = lease[k]
    <3>1. p = q
      BY <2>2, ClaimKeepsOthers
    <3>2. lease'[k] = Swept(t)[k] /\ Swept(t)[k] = lease[k]
      BY <2>1, <2>2, <3>1, ClaimKeepsOthers
    <3>3. QED
      BY <3>2
  <2>3. ASSUME NEW p \in Request, NEW x \in Key, Arrive(p, x)
        PROVE  lease'[k] = lease[k]
    BY <2>3 DEF Arrive
  <2>4. CASE UNCHANGED request
    BY <2>4
  <2>5. QED
    BY <2>2, <2>3, <2>4
       DEF Next, RequestStep, Release, StopSession, Retire, ChangePlan, StopComplimentary,
           NewLimit, Tick, vars
<1>2. QED
  BY <1>1, LeaseTypeCorrect, PTL DEF Spec, NoEviction

(* A stopped browser stays out until its safety window is over. *)
THEOREM StopsHold == Spec => StopHolds
<1>1. TypeOK /\ [Next]_vars => [KeepsBlocked]_vars
  <2> SUFFICES ASSUME TypeOK, [Next]_vars, NEW k \in Key,
                      Blocked(k, clock), k[1] \notin retired' \ retired
               PROVE  lease'[k] = lease[k]
    BY DEF KeepsBlocked
  <2>1. lease[k].kind = "stopped" /\ lease[k].until > clock /\ k \notin Held
    BY DEF Blocked, Held
  <2>2. ASSUME NEW q \in Request, NEW t \in Instants(q),
               RefuseClaim(q, t) \/ DropClaim(q, t) \/ Renew(q, t) \/ Grant(q, t)
        PROVE  lease'[k] = lease[k]
    <3>1. t \in Nat /\ t <= clock /\ clock \in Nat /\ lease[k].until \in Nat
      BY InstantType DEF TypeOK, LeaseRow
    <3>2. k \notin LiveAt(t) /\ Blocked(k, t)
      BY <2>1, <3>1 DEF LiveAt, Blocked
    <3>3. lease'[k] = Swept(t)[k] /\ Swept(t)[k] = lease[k]
      BY <2>1, <2>2, <3>2, ClaimKeepsOthers
    <3>4. QED
      BY <3>3
  <2>3. ASSUME NEW x \in Key, Release(x) \/ StopSession(x)
        PROVE  lease'[k] = lease[k]
    <3>1. x # k
      BY <2>1, <2>3 DEF Release, StopSession, LiveAt, Held
    <3>2. QED
      BY <2>3, <3>1 DEF Release, StopSession, TypeOK
  <2>4. ASSUME NEW p \in Player, Retire(p)
        PROVE  lease'[k] = lease[k]
    BY <2>4 DEF Retire
  <2>5. ASSUME NEW l \in 0..MaxLimit, StopComplimentary(l)
        PROVE  lease'[k] = lease[k]
    BY <2>1, <2>5 DEF StopComplimentary
  <2>6. CASE UNCHANGED lease
    BY <2>6
  <2>7. QED
    BY <2>2, <2>3, <2>4, <2>5, <2>6 DEF Next, RequestStep, Arrive, ChangePlan, Tick, vars
<1>2. QED
  BY <1>1, LeaseTypeCorrect, PTL DEF Spec, StopHolds
=============================================================================
