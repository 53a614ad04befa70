----------------------------- MODULE PlayerHealth -----------------------------
(***************************************************************************)
(* Signs of life of players and the missed-heartbeat incidents             *)
(* (lib/player-health-service.js, lib/player-health.mjs,                   *)
(* app/api/player/heartbeat, app/api/player/proof-of-play,                 *)
(* app/api/admin/players/health).                                          *)
(*                                                                         *)
(* Devices report in requests that have read the player before; operations *)
(* workers scan from a list that is a while old; staff review incidents    *)
(* they have seen earlier.                                                 *)
(***************************************************************************)
EXTENDS Integers, FiniteSets

CONSTANTS
    Player, Incident,
    Worker,         \* operations workers, more than one during a deployment
    Request,        \* requests that may be in progress at the same time
    OfflineTicks,   \* PLAYER_OFFLINE_AFTER_SECONDS
    Escalation,     \* times offline after which the severity rises
    MaxClock,       \* bound: the last instant
    MaxRequests,    \* bound: requests begun
    None

(* Thresholds and bounds are numbers, and null is neither a number nor an  *)
(* incident.                                                               *)
Configured ==
    /\ OfflineTicks \in Nat /\ Escalation \subseteq Nat /\ IsFiniteSet(Escalation)
    /\ MaxClock \in Nat /\ MaxRequests \in Nat
    /\ None \notin Nat /\ None \notin Incident

ASSUME ConfiguredAssumption == Configured

VARIABLES
    clock,
    player,         \* rows of Player
    incident,       \* rows of PlayerHealthIncident
    request,        \* requests in progress
    scan,           \* what each worker still has to look at
    begun           \* bound: requests begun so far

vars == <<clock, player, incident, request, scan, begun>>

-----------------------------------------------------------------------------
Unresolved == {"OPEN", "ACKNOWLEDGED"}
Severity(duration) == Cardinality({t \in Escalation : duration >= t})
Top == Cardinality(Escalation)

(* beat: lastHeartbeatAt; enabled: the status is not DISABLED. *)
PlayerRow == [beat : 0..MaxClock \union {None}, enabled : BOOLEAN, session : BOOLEAN]
NoRow == [status |-> "NONE"]
IncidentRow == [player : Player, status : Unresolved \union {"RESOLVED"}, severity : 0..Top]

(* Requests.  A heartbeat carries the lastHeartbeatAt it has read and, in  *)
(* its transaction, the incident it has found; a review the status it has  *)
(* seen and the one it leads to.                                           *)
Running ==
    [at : {"heartbeat"}, player : Player, seen : 0..MaxClock]
    \union [at : {"recover"}, player : Player, now : 0..MaxClock, found : Incident \union {None}]
    \union [at : {"proof"}, player : Player, now : 0..MaxClock]
    \union [at : {"review"}, incident : Incident, seen : Unresolved,
            to : {"ACKNOWLEDGED", "RESOLVED"}]

(* A worker's list: for each player still to be looked at, how long it has *)
(* been offline and its unresolved incident.                               *)
Listed == [duration : 0..MaxClock, existing : Incident \union {None}]

TypeOK ==
    /\ clock \in 0..MaxClock
    /\ player \in [Player -> PlayerRow]
    /\ incident \in [Incident -> IncidentRow \union {NoRow}]
    /\ request \in [Request -> Running \union {None}]
    /\ scan \in [Worker -> [Player -> Listed \union {None}]]
    /\ begun \in 0..MaxRequests

Init ==
    /\ clock = 0
    /\ player = [p \in Player |-> [beat |-> None, enabled |-> TRUE, session |-> FALSE]]
    /\ incident = [i \in Incident |-> NoRow]
    /\ request = [q \in Request |-> None]
    /\ scan = [w \in Worker |-> [p \in Player |-> None]]
    /\ begun = 0

-----------------------------------------------------------------------------
(* effectivePlayerStatus, from a row that may have been read earlier. *)
OfflineSince(beat, now) == now - beat > OfflineTicks

(* Fault: only OPEN incidents are looked for. *)
IncidentsOf_OpenOnly(p) == {i \in Incident : incident[i] # NoRow /\ incident[i].player = p
                                            /\ incident[i].status = "OPEN"}
(* Fault: a resolved incident still counts. *)
IncidentsOf_Any(p) == {i \in Incident : incident[i] # NoRow /\ incident[i].player = p}
IncidentsOf(p) == {i \in Incident : incident[i] # NoRow /\ incident[i].player = p
                                   /\ incident[i].status \in Unresolved}
FirstOr(S) == IF S = {} THEN {None} ELSE S

Start(q, running) ==
    /\ request[q] = None /\ begun < MaxRequests /\ begun' = begun + 1
    /\ request' = [request EXCEPT ![q] = running]
    /\ UNCHANGED <<clock, player, incident, scan>>
Leave(q) == request' = [request EXCEPT ![q] = None]
At(q, step) == request[q] # None /\ request[q].at = step

Enrol(p) ==
    /\ player[p].beat = None /\ player[p].enabled
    /\ player' = [player EXCEPT ![p] = [beat |-> clock, enabled |-> TRUE, session |-> TRUE]]
    /\ UNCHANGED <<clock, incident, request, scan, begun>>
Retire(p) ==
    /\ player[p].enabled
    /\ player' = [player EXCEPT ![p] = [@ EXCEPT !.enabled = FALSE, !.session = FALSE]]
    /\ UNCHANGED <<clock, incident, request, scan, begun>>

Known(p) == player[p].session /\ player[p].enabled
HeartbeatBegin(q, p) ==
    Known(p) /\ Start(q, [at |-> "heartbeat", player |-> p, seen |-> player[p].beat])
ProofBegin(q, p) == Known(p) /\ Start(q, [at |-> "proof", player |-> p, now |-> clock])
ReviewBegin(q, i) ==
    /\ incident[i] # NoRow /\ incident[i].status \in Unresolved
    /\ \E to \in {"ACKNOWLEDGED", "RESOLVED"} :
          /\ to = "ACKNOWLEDGED" => incident[i].status = "OPEN"
          /\ Start(q, [at |-> "review", incident |-> i, seen |-> incident[i].status, to |-> to])

(* In its transaction, a heartbeat that finds the player it has read       *)
(* offline looks for the unresolved incident.                              *)
Heartbeat(q) ==
    LET r == request[q]
    IN  /\ At(q, "heartbeat")
        /\ \E i \in IF OfflineSince(r.seen, clock) THEN FirstOr(IncidentsOf(r.player)) ELSE {None} :
              request' = [request EXCEPT ![q] =
                  [at |-> "recover", player |-> r.player, now |-> clock, found |-> i]]
        /\ UNCHANGED <<clock, player, incident, scan, begun>>

Alive(p, now) == [player EXCEPT ![p] = [@ EXCEPT !.beat = now, !.enabled = TRUE]]
(* It commits: the player is alive and the incident resolved, by its id. *)
Recover(q) ==
    LET r == request[q]
    IN  /\ At(q, "recover") /\ Leave(q)
        /\ player' = Alive(r.player, r.now)
        /\ incident' = IF r.found = None THEN incident
                       ELSE [incident EXCEPT ![r.found].status = "RESOLVED"]
        /\ UNCHANGED <<clock, scan, begun>>

(* A proof of play is a sign of life too, and looks at no incident. *)
Proof(q) ==
    /\ At(q, "proof") /\ Leave(q)
    /\ player' = Alive(request[q].player, request[q].now)
    /\ UNCHANGED <<clock, incident, scan, begun>>

(* Fault: the incident is updated whatever its status is by now. *)
Reviewable_Always(i, seen) == incident[i] # NoRow /\ seen \in Unresolved
Reviewable(i, seen) == incident[i].status = seen
Review(q) ==
    LET r == request[q]
    IN  /\ At(q, "review") /\ Leave(q)
        /\ incident' = IF Reviewable(r.incident, r.seen)
                       THEN [incident EXCEPT ![r.incident].status = r.to] ELSE incident
        /\ UNCHANGED <<clock, player, scan, begun>>

(* An error, a lost connection, a process that stops. *)
Abandon(q) ==
    /\ request[q] # None /\ Leave(q)
    /\ UNCHANGED <<clock, player, incident, scan, begun>>

-----------------------------------------------------------------------------
Scanning(w) == \E p \in Player : scan[w][p] # None
Missing(p) ==
    player[p].enabled /\ player[p].beat # None /\ OfflineSince(player[p].beat, clock)

(* scanPlayerHealth: the players that are offline and their incidents. *)
List(w) ==
    /\ ~Scanning(w)
    /\ \E p \in Player : Missing(p)
    /\ \E existing \in [Player -> Incident \union {None}] :
          /\ \A p \in Player : existing[p] \in FirstOr(IncidentsOf(p))
          /\ scan' = [scan EXCEPT ![w] = [p \in Player |->
                IF Missing(p)
                THEN [duration |-> clock - player[p].beat - OfflineTicks, existing |-> existing[p]]
                ELSE None]]
    /\ UNCHANGED <<clock, player, incident, request, begun>>

(* The partial unique index: one unresolved incident per player. *)
Openable(p) == IncidentsOf(p) = {}

(* One player of the list: its incident is updated by its id, or one is    *)
(* opened; the index turns a second one away, which the scan ignores.      *)
Examine(w, p) ==
    LET l == scan[w][p]
    IN  /\ l # None
        /\ scan' = [scan EXCEPT ![w][p] = None]
        /\ IF l.existing # None
           THEN incident' = [incident EXCEPT ![l.existing].severity = Severity(l.duration)]
           ELSE IF Openable(p)
           THEN \E i \in Incident :
                  /\ incident[i] = NoRow
                  /\ incident' = [incident EXCEPT ![i] =
                        [player |-> p, status |-> "OPEN", severity |-> Severity(l.duration)]]
           ELSE UNCHANGED incident
        /\ UNCHANGED <<clock, player, request, begun>>

(* An error ends the scan; the next cycle starts a new one. *)
ScanFails(w) ==
    /\ Scanning(w)
    /\ scan' = [scan EXCEPT ![w] = [p \in Player |-> None]]
    /\ UNCHANGED <<clock, player, incident, request, begun>>

Tick ==
    /\ clock < MaxClock /\ clock' = clock + 1
    /\ UNCHANGED <<player, incident, request, scan, begun>>

-----------------------------------------------------------------------------
Next ==
    \/ \E p \in Player : Enrol(p) \/ Retire(p)
    \/ \E q \in Request :
          \/ \E p \in Player : HeartbeatBegin(q, p) \/ ProofBegin(q, p)
          \/ \E i \in Incident : ReviewBegin(q, i)
          \/ Heartbeat(q) \/ Recover(q) \/ Proof(q) \/ Review(q) \/ Abandon(q)
    \/ \E w \in Worker : List(w) \/ ScanFails(w) \/ \E p \in Player : Examine(w, p)
    \/ Tick

(* The workers scan in every cycle, and not every scan meets an error. *)
Fairness ==
    /\ \A w \in Worker : WF_vars(List(w)) /\ \A p \in Player : SF_vars(Examine(w, p))
    /\ WF_vars(Tick)
Spec == Init /\ [][Next]_vars /\ Fairness

-----------------------------------------------------------------------------
(* "Only one OPEN or ACKNOWLEDGED missed-heartbeat incident may exist for  *)
(* a player", also when two workers scan from lists of the same moment.    *)
Unsettled(i) == incident[i] # NoRow /\ incident[i].status \in Unresolved
OneUnresolved ==
    \A i, j \in Incident :
        (Unsettled(i) /\ Unsettled(j) /\ incident[i].player = incident[j].player) => i = j

(* An incident is acknowledged once and resolved for good: a review that   *)
(* overlaps another, or a recovery, never takes it back.                   *)
IncidentAdvances ==
    [][\A i \in Incident : (incident[i] # NoRow /\ incident'[i].status # incident[i].status) =>
            \/ incident[i].status = "OPEN"
            \/ incident[i].status = "ACKNOWLEDGED" /\ incident'[i].status = "RESOLVED"]_vars

(* A player that stays offline is reported, also again after staff have    *)
(* resolved its incident, unless the instance has no incident left.        *)
OfflineIsReported ==
    \A p \in Player :
        Missing(p) ~> \/ ~Missing(p)
                      \/ \E i \in Incident : Unsettled(i) /\ incident[i].player = p
                      \/ \A i \in Incident : incident[i] # NoRow

(* The severity of its incident, acknowledged or not, follows the time the *)
(* player has been offline.                                                *)
Overdue(i) ==
    /\ Unsettled(i) /\ Missing(incident[i].player)
    /\ Severity(clock - player[incident[i].player].beat - OfflineTicks) = Top
Escalates == \A i \in Incident : Overdue(i) ~> (~Overdue(i) \/ incident[i].severity = Top)
=============================================================================
