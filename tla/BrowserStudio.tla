---------------------------- MODULE BrowserStudio ----------------------------
(***************************************************************************)
(* One Browser Live Studio session of an Online Radio channel, the live    *)
(* source generated for it and the presenter's grant                       *)
(* (lib/browser-live-studio-service.js, lib/browser-live-studio.mjs,       *)
(* lib/dj-access-service.js).                                              *)
(*                                                                         *)
(* The presenter's and the managers' requests overlap.  A request reads    *)
(* the session and checks the version its browser has seen, works on the   *)
(* source or the media provider, checks the version again in a transaction *)
(* and updates the session by its id.  At PostgreSQL's default isolation   *)
(* the second check and the update are two steps.  The operations worker   *)
(* closes sessions whose heartbeat has expired.                            *)
(*                                                                         *)
(* Versions are only compared with the current one, so a request carries   *)
(* whether the version it expects is still current.  The server would also *)
(* take a request without a version; no page of the studio sends one.      *)
(***************************************************************************)
EXTENDS Integers

CONSTANTS
    Request,        \* requests that may be in progress at the same time
    StaleTicks,     \* BROWSER_STUDIO_STALE_SECONDS, in heartbeats of 15 seconds
    NoRequest,      \* no request in progress
    NoScan          \* no session in the worker's list

ASSUME StaleAssumption == StaleTicks \in Nat

VARIABLES
    status, good,   \* the session: status, connectionQuality = GOOD
    beat,           \* ticks since lastHeartbeatAt
    source,         \* status of the generated source, "NONE" before it exists
    granted,        \* the presenter's grant is open: not revoked, not expired
    request,        \* requests in progress
    scan,           \* the worker between its list and its update
    lost, died      \* history: an update overwrote a newer version; a request died

vars == <<status, good, beat, source, granted, request, scan, lost, died>>

-----------------------------------------------------------------------------
Streaming == {"READY", "ON_AIR"}
Open == {"CREATED", "SOUNDCHECK"} \union Streaming
Closed == {"FALLBACK", "ENDED"}

PresenterOp == {"START_SOUNDCHECK", "SAVE_SOUNDCHECK", "PREPARE", "GO_LIVE", "HEARTBEAT"}
Op == PresenterOp \union {"FORCE_FALLBACK", "END"}

(* browserStudioTransition: the statuses in which an action may start. *)
Allowed(op) ==
    CASE op = "START_SOUNDCHECK" -> status \in {"CREATED", "SOUNDCHECK"}
      [] op = "SAVE_SOUNDCHECK" -> status = "SOUNDCHECK"
      [] op = "PREPARE" -> status = "SOUNDCHECK" /\ good
      [] op = "GO_LIVE" -> status = "READY"
      [] op \in {"HEARTBEAT", "FORCE_FALLBACK"} -> status \in {"SOUNDCHECK"} \union Streaming
      [] op = "END" -> status \in Open \union {"FALLBACK"}

(* The step that follows the read. *)
FirstStep(op) ==
    CASE op = "HEARTBEAT" -> "beat"
      [] op = "PREPARE" -> "allocate"
      [] op = "GO_LIVE" -> "activate"
      [] op \in {"FORCE_FALLBACK", "END"} /\ source # "NONE" -> "suspend"
      [] OTHER -> "check"

(* seen: the status that was read; fresh: its version is still current. *)
Running == [op : Op, at : {"beat", "allocate", "activate", "suspend", "check", "update", "undo"},
            seen : Open \union Closed, fresh : BOOLEAN]

ASSUME NothingAssumption == NoRequest \notin Running /\ NoScan \notin BOOLEAN

TypeOK ==
    /\ status \in Open \union Closed /\ good \in BOOLEAN
    /\ beat \in 0..(StaleTicks + 1)
    /\ source \in {"NONE", "READY", "ACTIVE", "SUSPENDED"}
    /\ granted \in BOOLEAN
    /\ request \in [Request -> Running \union {NoRequest}]
    /\ scan \in BOOLEAN \union {NoScan}
    /\ lost \in BOOLEAN /\ died \in BOOLEAN

Init ==
    /\ status = "CREATED" /\ good = FALSE /\ beat = 0 /\ source = "NONE" /\ granted = TRUE
    /\ request = [q \in Request |-> NoRequest] /\ scan = NoScan
    /\ lost = FALSE /\ died = FALSE

-----------------------------------------------------------------------------
At(q, step) == request[q] # NoRequest /\ request[q].at = step

GoTo(q, step) == request' = [request EXCEPT ![q].at = step]
Leave(q) == request' = [request EXCEPT ![q] = NoRequest]

(* A new version: the others' requests and the worker's list are outdated. *)
Outdated(q) ==
    [r \in Request |-> IF r = q \/ request[r] = NoRequest THEN NoRequest
                       ELSE [request[r] EXCEPT !.fresh = FALSE]]
ScanOutdated == IF scan = NoScan THEN NoScan ELSE FALSE

(* A request reads the session.  Presenters need their grant; managers     *)
(* only force the fallback or end the session.                             *)
Begin(q, op) ==
    /\ request[q] = NoRequest
    /\ op \in PresenterOp => granted
    /\ Allowed(op)
    /\ request' = [request EXCEPT ![q] = [op |-> op, at |-> FirstStep(op), seen |-> status,
                                          fresh |-> TRUE]]
    /\ UNCHANGED <<status, good, beat, source, granted, scan, lost, died>>

(* A heartbeat is one guarded update and makes no new version. *)
Heartbeat(q) ==
    /\ At(q, "beat") /\ Leave(q)
    /\ beat' = IF status = request[q].seen THEN 0 ELSE beat
    /\ UNCHANGED <<status, good, source, granted, scan, lost, died>>

(* The media provider allocates a connection for PREPARE, or does not. *)
Allocate(q) ==
    /\ At(q, "allocate")
    /\ GoTo(q, "check") \/ Leave(q)
    /\ UNCHANGED <<status, good, beat, source, granted, scan, lost, died>>

(* GO_LIVE probes the source and activates it, whatever its status, or     *)
(* fails on its health.                                                    *)
Activate(q) ==
    /\ At(q, "activate")
    /\ \/ GoTo(q, "check") /\ source' = "ACTIVE"
       \/ Leave(q) /\ source' = source
    /\ UNCHANGED <<status, good, beat, granted, scan, lost, died>>

(* END and FORCE_FALLBACK suspend the source before anything else. *)
Suspend(q) ==
    /\ At(q, "suspend") /\ GoTo(q, "check")
    /\ source' = "SUSPENDED"
    /\ UNCHANGED <<status, good, beat, granted, scan, lost, died>>

(* The transaction reads the session again and compares the versions; a    *)
(* second PREPARE finds the provider's reference and gives up.             *)
Unchanged(q) == request[q].fresh /\ (request[q].op = "PREPARE" => source = "NONE")

(* Fault: a GO_LIVE that fails leaves its activation behind. *)
OnConflict_Forget(q) == Leave(q)
(* A GO_LIVE that fails takes its activation back. *)
OnConflict(q) == IF request[q].op = "GO_LIVE" THEN GoTo(q, "undo") ELSE Leave(q)

(* The transaction may also fail for a reason of its own. *)
Check(q) ==
    /\ At(q, "check")
    /\ (Unchanged(q) /\ GoTo(q, "update")) \/ OnConflict(q)
    /\ UNCHANGED <<status, good, beat, source, granted, scan, lost, died>>

Undo(q) ==
    /\ At(q, "undo") /\ Leave(q)
    /\ source' = "SUSPENDED"
    /\ UNCHANGED <<status, good, beat, granted, scan, lost, died>>

NextStatus(op) ==
    CASE op = "START_SOUNDCHECK" -> "SOUNDCHECK"
      [] op = "PREPARE" -> "READY"
      [] op = "GO_LIVE" -> "ON_AIR"
      [] op = "FORCE_FALLBACK" -> "FALLBACK"
      [] op = "END" -> "ENDED"
      [] OTHER -> status

(* The update goes by the id alone.  SAVE_SOUNDCHECK writes the quality it *)
(* has measured; PREPARE creates the source.                               *)
Update(q) ==
    /\ At(q, "update")
    /\ LET op == request[q].op IN
       /\ status' = NextStatus(op)
       /\ good' \in IF op = "SAVE_SOUNDCHECK" THEN BOOLEAN ELSE {good}
       /\ source' = IF op = "PREPARE" THEN "READY" ELSE source
    /\ beat' = 0
    /\ request' = Outdated(q) /\ scan' = ScanOutdated
    /\ lost' = (lost \/ ~request[q].fresh)
    /\ UNCHANGED <<granted, died>>

(* The web server dies with the request, or taking an activation back fails. *)
Die(q) ==
    /\ request[q] # NoRequest /\ Leave(q)
    /\ died' = TRUE
    /\ UNCHANGED <<status, good, beat, source, granted, scan, lost>>

-----------------------------------------------------------------------------
(* Fault: a prepared studio that never went on air is forgotten. *)
Stale_OnAirOnly == status = "ON_AIR" /\ beat > StaleTicks
Stale == status \in Streaming /\ beat > StaleTicks

(* The worker lists the stale sessions ... *)
Scan ==
    /\ scan = NoScan /\ Stale
    /\ scan' = TRUE
    /\ UNCHANGED <<status, good, beat, source, granted, request, lost, died>>

(* Fault: the automatic fallback leaves the source as it is. *)
FallenBack_KeepsSource == source
FallenBack == IF source = "NONE" THEN "NONE" ELSE "SUSPENDED"

(* Fault: the automatic fallback makes no new version. *)
NewVersion_Same == request
(* The automatic fallback makes a new version as every other change does. *)
NewVersion == Outdated(NoRequest)

(* ... and closes one if its version is still the same. *)
CloseStale ==
    /\ scan # NoScan
    /\ scan' = NoScan
    /\ IF scan
       THEN /\ status' = "FALLBACK" /\ beat' = 0 /\ source' = FallenBack
            /\ request' = NewVersion
       ELSE UNCHANGED <<status, beat, source, request>>
    /\ UNCHANGED <<good, granted, lost, died>>

(* A manager revokes the grant, or its window ends. *)
Revoke ==
    /\ granted /\ granted' = FALSE
    /\ UNCHANGED <<status, good, beat, source, request, scan, lost, died>>

(* Another source of the channel is activated. *)
Replace ==
    /\ source = "ACTIVE" /\ source' = "READY"
    /\ UNCHANGED <<status, good, beat, granted, request, scan, lost, died>>

Tick ==
    /\ status \in Streaming /\ beat <= StaleTicks /\ beat' = beat + 1
    /\ UNCHANGED <<status, good, source, granted, request, scan, lost, died>>

RequestStep(q) ==
    \/ Heartbeat(q) \/ Allocate(q) \/ Activate(q) \/ Suspend(q) \/ Check(q) \/ Undo(q)
    \/ Update(q)

Next ==
    \/ \E q \in Request : RequestStep(q) \/ Die(q) \/ \E op \in Op : Begin(q, op)
    \/ Scan \/ CloseStale \/ Revoke \/ Replace \/ Tick

Fairness ==
    /\ \A q \in Request : WF_vars(RequestStep(q))
    /\ WF_vars(Scan) /\ WF_vars(CloseStale) /\ WF_vars(Tick)

Spec == Init /\ [][Next]_vars /\ Fairness

-----------------------------------------------------------------------------
GoingLive == \E q \in Request : request[q] # NoRequest /\ request[q].op = "GO_LIVE"

(* A closed studio is off air once no GO_LIVE is in progress, whoever      *)
(* closed it and however the requests overlapped, as long as no update was *)
(* lost and no request died: the other side's activation is taken back.    *)
ClosedIsOffAir == (status \in Closed /\ ~GoingLive /\ ~lost /\ ~died) => source # "ACTIVE"

(* No request reopens a studio that somebody has closed meanwhile. *)
ClosedStaysClosed == [][(status \in Closed /\ ~lost') => status' \in Closed]_vars

(* No studio gets a connection without a good soundcheck, also when a      *)
(* second soundcheck is saved while the connection is prepared.            *)
SoundcheckRequired == ~lost => (status \in Streaming => good)

(* A presenter whose access has ended does not keep the studio, however    *)
(* the requests overlap: heartbeats are refused and the scan finds it.     *)
RevokedCloses == <>~granted => <>[](status \notin Streaming)

(* Without lost updates and crashes the channel gets its air time back. *)
RevokedGoesOffAir == (<>~granted /\ []~lost /\ []~died) => <>[](source # "ACTIVE")

(* The studio agrees with the channel's source and with its soundcheck in  *)
(* every state, unless an update was lost or a request died.               *)
StudioSound == ClosedIsOffAir /\ SoundcheckRequired
=============================================================================
