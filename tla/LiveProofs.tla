---------------------------- MODULE LiveProofs ----------------------------
(***************************************************************************)
(* What holds of the two state machines that decide whether an external    *)
(* live source is on air.  First BrowserStudio, for any number of          *)
(* overlapping requests and any length of the heartbeat's grace; then      *)
(* LiveFailover, for any thresholds, hold and number of requests.          *)
(***************************************************************************)
EXTENDS BrowserStudio, TLAPS

(* A request whose version is current may still do what it was let in for. *)
FreshIsAllowed ==
    \A q \in Request, op \in Op :
        (request[q] # NoRequest /\ request[q].fresh /\ request[q].op = op) => Allowed(op)

(* The steps that only some requests take. *)
Fits(r) ==
    r # NoRequest =>
        /\ r.at = "allocate" => r.op = "PREPARE"
        /\ r.at \in {"activate", "undo"} => r.op = "GO_LIVE"
InStep == \A q \in Request : Fits(request[q])

(* A GO_LIVE that has activated the source and has not finished.           *)
Activated(q) ==
    /\ request[q] # NoRequest /\ request[q].op = "GO_LIVE"
    /\ request[q].at \in {"check", "update", "undo"}

(* An active source is on air, or is about to be put on air or taken back. *)
ActiveIsWanted ==
    (source = "ACTIVE" /\ ~lost /\ ~died) => (status = "ON_AIR" \/ \E q \in Request : Activated(q))

(* A request that closes the studio has suspended the source by the time   *)
(* it updates the session, or an activation will be taken back.            *)
Closing(q) ==
    /\ request[q] # NoRequest /\ request[q].op \in {"FORCE_FALLBACK", "END"}
    /\ request[q].at \in {"check", "update"} /\ request[q].fresh
ClosingSuspends ==
    (source = "ACTIVE" /\ ~lost /\ ~died /\ \E q \in Request : Closing(q))
        => \E q \in Request : Activated(q)

IInv ==
    /\ TypeOK
    /\ InStep
    /\ FreshIsAllowed
    /\ SoundcheckRequired
    /\ ActiveIsWanted
    /\ ClosingSuspends

-----------------------------------------------------------------------------
(* browserStudioTransition, for each action that updates the session. *)
LEMMA AllowedFrom ==
    ASSUME NEW op \in Op
    PROVE  /\ op = "START_SOUNDCHECK" => (Allowed(op) <=> status \in {"CREATED", "SOUNDCHECK"})
           /\ op = "SAVE_SOUNDCHECK" => (Allowed(op) <=> status = "SOUNDCHECK")
           /\ op = "PREPARE" => (Allowed(op) <=> status = "SOUNDCHECK" /\ good)
           /\ op = "GO_LIVE" => (Allowed(op) <=> status = "READY")
           /\ op \in {"HEARTBEAT", "FORCE_FALLBACK"} =>
                  (Allowed(op) <=> status \in {"SOUNDCHECK"} \union Streaming)
           /\ op = "END" => (Allowed(op) <=> status \in Open \union {"FALLBACK"})
BY DEF Allowed, Op, PresenterOp

LEMMA AllowedSame ==
    ASSUME UNCHANGED <<status, good>>, NEW op \in Op
    PROVE  Allowed(op)' <=> Allowed(op)
BY DEF Allowed, Op, PresenterOp

LEMMA NextStatusOf ==
    ASSUME NEW op \in Op
    PROVE  /\ op = "START_SOUNDCHECK" => NextStatus(op) = "SOUNDCHECK"
           /\ op = "PREPARE" => NextStatus(op) = "READY"
           /\ op = "GO_LIVE" => NextStatus(op) = "ON_AIR"
           /\ op = "FORCE_FALLBACK" => NextStatus(op) = "FALLBACK"
           /\ op = "END" => NextStatus(op) = "ENDED"
           /\ op \in {"SAVE_SOUNDCHECK", "HEARTBEAT"} => NextStatus(op) = status
BY DEF NextStatus, Op, PresenterOp

LEMMA OpCases ==
    Op = {"START_SOUNDCHECK", "SAVE_SOUNDCHECK", "PREPARE", "GO_LIVE", "HEARTBEAT",
          "FORCE_FALLBACK", "END"}
BY DEF Op, PresenterOp

LEMMA FirstStepType ==
    ASSUME NEW op \in Op
    PROVE  /\ FirstStep(op) \in {"beat", "allocate", "activate", "suspend", "check"}
           /\ FirstStep(op) = "allocate" => op = "PREPARE"
           /\ FirstStep(op) = "activate" => op = "GO_LIVE"
           /\ op = "GO_LIVE" => FirstStep(op) = "activate"
           /\ (op \in {"FORCE_FALLBACK", "END"} /\ FirstStep(op) = "check") => source = "NONE"
<1>1. CASE op \in PresenterOp
  BY <1>1 DEF FirstStep, PresenterOp
<1>2. CASE op \in {"FORCE_FALLBACK", "END"}
  BY <1>2 DEF FirstStep
<1>3. QED
  BY <1>1, <1>2 DEF Op

LEMMA RunningRequest ==
    ASSUME TypeOK, NEW q \in Request, request[q] # NoRequest
    PROVE  request[q] \in Running
BY DEF TypeOK

(* Requests after a step of one of them. *)
LEMMA GoesTo ==
    ASSUME TypeOK, NEW q \in Request, request[q] # NoRequest,
           NEW step \in {"check", "update", "undo"}, GoTo(q, step)
    PROVE  /\ request' \in [Request -> Running \union {NoRequest}]
           /\ \A r \in Request : r # q => request'[r] = request[r]
           /\ request'[q] # NoRequest /\ request'[q].at = step
           /\ request'[q].op = request[q].op /\ request'[q].fresh = request[q].fresh
<1>1. request[q] \in Running
  BY RunningRequest
<1> DEFINE next == [request[q] EXCEPT !.at = step]
<1>2. next \in Running /\ next.at = step /\ next.op = request[q].op /\ next.fresh = request[q].fresh
  BY <1>1 DEF Running
<1>3. request' = [request EXCEPT ![q] = next]
  BY DEF GoTo
<1> HIDE DEF next
<1>4. request' \in [Request -> Running \union {NoRequest}] /\ request'[q] = next
  BY <1>2, <1>3 DEF TypeOK
<1>5. QED
  BY <1>2, <1>3, <1>4, NothingAssumption DEF TypeOK

LEMMA Leaves ==
    ASSUME TypeOK, NEW q \in Request, Leave(q)
    PROVE  /\ request' \in [Request -> Running \union {NoRequest}]
           /\ \A r \in Request : r # q => request'[r] = request[r]
           /\ request'[q] = NoRequest
BY DEF TypeOK, Leave

(* After an update nobody else's version is current. *)
LEMMA OutdatedAll ==
    ASSUME TypeOK, NEW q, request' = Outdated(q)
    PROVE  /\ request' \in [Request -> Running \union {NoRequest}]
           /\ \A r \in Request : request'[r] # NoRequest =>
                  /\ ~request'[r].fresh /\ r # q /\ request[r] # NoRequest
                  /\ request'[r].op = request[r].op /\ request'[r].at = request[r].at
           /\ \A r \in Request : (r # q /\ request[r] # NoRequest) => request'[r] # NoRequest
<1>1. SUFFICES ASSUME NEW r \in Request
               PROVE  /\ request'[r] \in Running \union {NoRequest}
                      /\ request'[r] # NoRequest =>
                            /\ ~request'[r].fresh /\ r # q /\ request[r] # NoRequest
                            /\ request'[r].op = request[r].op /\ request'[r].at = request[r].at
                      /\ (r # q /\ request[r] # NoRequest) => request'[r] # NoRequest
  <2>1. request' = [p \in Request |-> request'[p]]
    BY DEF Outdated
  <2>2. QED
    BY <2>1
<1>2. CASE r = q \/ request[r] = NoRequest
  BY <1>2 DEF Outdated
<1>3. CASE r # q /\ request[r] # NoRequest
  <2>1. request[r] \in Running
    BY <1>3, RunningRequest
  <2>2. request'[r] = [request[r] EXCEPT !.fresh = FALSE]
    BY <1>3 DEF Outdated
  <2>3. request'[r] \in Running /\ request'[r].fresh = FALSE
        /\ request'[r].op = request[r].op /\ request'[r].at = request[r].at
    BY <2>1, <2>2 DEF Running
  <2>4. QED
    BY <1>3, <2>3, NothingAssumption
<1>4. QED
  BY <1>2, <1>3

-----------------------------------------------------------------------------
LEMMA InitInv == Init => IInv
<1> SUFFICES ASSUME Init PROVE IInv
  OBVIOUS
<1>1. TypeOK
  <2>1. 0 \in 0..(StaleTicks + 1)
    BY StaleAssumption
  <2>2. request \in [Request -> Running \union {NoRequest}]
    BY DEF Init
  <2>3. QED
    BY <2>1, <2>2 DEF Init, TypeOK, Open
<1>2. \A q \in Request : request[q] = NoRequest
  BY DEF Init
<1>3. FreshIsAllowed /\ InStep
  BY <1>2 DEF FreshIsAllowed, InStep, Fits
<1>4. SoundcheckRequired /\ ActiveIsWanted /\ ClosingSuspends
  BY DEF Init, SoundcheckRequired, Streaming, ActiveIsWanted, ClosingSuspends
<1>5. QED
  BY <1>1, <1>3, <1>4 DEF IInv

(* What a request was let in for stays allowed while the session is kept.  *)
LEMMA StillAllowed ==
    ASSUME TypeOK, FreshIsAllowed, UNCHANGED <<status, good>>,
           \A r \in Request : (request'[r] # NoRequest /\ request'[r].fresh) =>
               /\ request[r] # NoRequest /\ request[r].fresh
               /\ request'[r].op = request[r].op
    PROVE  FreshIsAllowed'
<1>1. SUFFICES ASSUME NEW r \in Request, NEW op \in Op,
                      request'[r] # NoRequest, request'[r].fresh, request'[r].op = op
               PROVE  Allowed(op)'
  BY DEF FreshIsAllowed
<1>2. Allowed(op)
  BY <1>1 DEF FreshIsAllowed
<1>3. QED
  BY <1>2, AllowedSame

LEMMA BeginStep ==
    ASSUME IInv, NEW q \in Request, NEW op \in Op, Begin(q, op)
    PROVE  IInv'
<1>1. /\ TypeOK /\ InStep /\ FreshIsAllowed /\ SoundcheckRequired
      /\ ActiveIsWanted /\ ClosingSuspends
  BY DEF IInv
<1>2. /\ request[q] = NoRequest /\ Allowed(op)
      /\ UNCHANGED <<status, good, beat, source, granted, scan, lost, died>>
  BY DEF Begin
<1> DEFINE new == [op |-> op, at |-> FirstStep(op), seen |-> status, fresh |-> TRUE]
<1>3. new \in Running
  BY <1>1, FirstStepType DEF Running, TypeOK
<1>4. new.op = op /\ new.at = FirstStep(op)
  OBVIOUS
<1>5. request' = [request EXCEPT ![q] = new]
  BY DEF Begin
<1> HIDE DEF new
<1>6. /\ request' \in [Request -> Running \union {NoRequest}] /\ request'[q] = new
      /\ \A r \in Request : r # q => request'[r] = request[r]
  BY <1>1, <1>3, <1>5 DEF TypeOK
<1>7. TypeOK'
  BY <1>1, <1>2, <1>6 DEF TypeOK
<1>8. FreshIsAllowed'
  <2>1. SUFFICES ASSUME NEW r \in Request, NEW o \in Op,
                        request'[r] # NoRequest, request'[r].fresh, request'[r].op = o
                 PROVE  Allowed(o)'
    BY DEF FreshIsAllowed
  <2>2. CASE r = q
    BY <1>2, <1>4, <1>6, <2>1, <2>2, AllowedSame
  <2>3. CASE r # q
    <3>1. Allowed(o)
      BY <1>1, <1>6, <2>1, <2>3 DEF FreshIsAllowed
    <3>2. QED
      BY <1>2, <3>1, AllowedSame
  <2>4. QED
    BY <2>2, <2>3
<1>9. SoundcheckRequired'
  BY <1>1, <1>2 DEF SoundcheckRequired
<1>10. \A r \in Request : Activated(r) => Activated(r)'
  BY <1>2, <1>6 DEF Activated
<1>11. ActiveIsWanted'
  BY <1>1, <1>2, <1>10 DEF ActiveIsWanted
<1>12. \A r \in Request : (Closing(r)' /\ source # "NONE") => Closing(r)
  <2>1. SUFFICES ASSUME NEW r \in Request, Closing(r)', source # "NONE"
                 PROVE  Closing(r)
    OBVIOUS
  <2>2. r # q
    BY <1>4, <1>6, <2>1, FirstStepType DEF Closing
  <2>3. QED
    BY <1>6, <2>1, <2>2 DEF Closing
<1>13. ClosingSuspends'
  BY <1>1, <1>2, <1>10, <1>12 DEF ClosingSuspends
<1>14. InStep'
  <2>1. Fits(new)
    BY <1>4, FirstStepType DEF Fits
  <2>2. QED
    BY <1>1, <1>6, <2>1 DEF InStep, Fits
<1>15. QED
  BY <1>7, <1>8, <1>9, <1>11, <1>13, <1>14 DEF IInv

(* A step of a request that changes neither the session nor its version.   *)
LEMMA QuietStep ==
    ASSUME IInv, NEW q \in Request,
           UNCHANGED <<status, good, granted, scan, lost>>, beat' \in 0..(StaleTicks + 1),
           source' \in {"NONE", "READY", "ACTIVE", "SUSPENDED"},
           died' \in BOOLEAN, died => died',
           request' \in [Request -> Running \union {NoRequest}],
           \A r \in Request : r # q => request'[r] = request[r],
           request'[q] # NoRequest =>
               /\ request[q] # NoRequest
               /\ request'[q].op = request[q].op /\ request'[q].fresh = request[q].fresh,
           Fits(request'[q]),
           source' = "ACTIVE" => source = "ACTIVE" \/ Activated(q)',
           Activated(q) => Activated(q)' \/ source' # "ACTIVE" \/ died',
           Closing(q)' => Closing(q) \/ source' # "ACTIVE"
    PROVE  IInv'
<1>1. /\ TypeOK /\ InStep /\ FreshIsAllowed /\ SoundcheckRequired
      /\ ActiveIsWanted /\ ClosingSuspends
  BY DEF IInv
<1>2. TypeOK'
  BY <1>1 DEF TypeOK
<1>3. InStep'
  BY <1>1 DEF InStep, Fits
<1>4. FreshIsAllowed'
  BY <1>1, StillAllowed
<1>5. SoundcheckRequired'
  BY <1>1 DEF SoundcheckRequired
<1>6. \A r \in Request : r # q => (Activated(r)' <=> Activated(r)) /\ (Closing(r)' <=> Closing(r))
  BY DEF Activated, Closing
<1>7. ActiveIsWanted'
  BY <1>1, <1>6 DEF ActiveIsWanted
<1>8. ClosingSuspends'
  BY <1>1, <1>6 DEF ClosingSuspends
<1>9. QED
  BY <1>2, <1>3, <1>4, <1>5, <1>7, <1>8 DEF IInv

LEMMA RequestQuiet ==
    ASSUME IInv, NEW q \in Request,
           Heartbeat(q) \/ Allocate(q) \/ Activate(q) \/ Suspend(q) \/ Check(q) \/ Undo(q) \/ Die(q)
    PROVE  IInv'
<1>1. TypeOK /\ InStep
  BY DEF IInv
<1>2. request[q] # NoRequest /\ request[q] \in Running /\ Fits(request[q])
  BY <1>1, RunningRequest
     DEF InStep, Heartbeat, Allocate, Activate, Suspend, Check, Undo, Die, At
<1>3. UNCHANGED <<status, good, granted, scan, lost>> /\ died' \in BOOLEAN /\ (died => died')
  BY <1>1 DEF TypeOK, Heartbeat, Allocate, Activate, Suspend, Check, Undo, Die
<1>4. beat' \in 0..(StaleTicks + 1)
  <2>1. beat' = beat \/ beat' = 0
    BY DEF Heartbeat, Allocate, Activate, Suspend, Check, Undo, Die
  <2>2. QED
    BY <1>1, <2>1, StaleAssumption DEF TypeOK
<1>5. source' \in {"NONE", "READY", "ACTIVE", "SUSPENDED"}
  BY <1>1 DEF TypeOK, Heartbeat, Allocate, Activate, Suspend, Check, Undo, Die
<1>6. Leave(q) \/ \E step \in {"check", "update", "undo"} : GoTo(q, step)
  BY DEF Heartbeat, Allocate, Activate, Suspend, Check, Undo, Die, OnConflict
<1>7. /\ request' \in [Request -> Running \union {NoRequest}]
      /\ \A r \in Request : r # q => request'[r] = request[r]
      /\ request'[q] # NoRequest =>
             request'[q].op = request[q].op /\ request'[q].fresh = request[q].fresh
  BY <1>1, <1>2, <1>6, GoesTo, Leaves
<1>8. CASE Heartbeat(q)
  <2>1. At(q, "beat") /\ Leave(q) /\ UNCHANGED source
    BY <1>8 DEF Heartbeat
  <2>2. request'[q] = NoRequest /\ request[q].at = "beat"
    BY <1>1, <2>1, Leaves DEF At
  <2>3. QED
    BY <1>2, <1>3, <1>4, <1>5, <1>7, <2>1, <2>2, QuietStep DEF Fits, Activated, Closing
<1>9. CASE Allocate(q)
  <2>1. request[q].at = "allocate" /\ request[q].op = "PREPARE" /\ UNCHANGED source
    BY <1>2, <1>9 DEF Allocate, At, Fits
  <2>2. request'[q] = NoRequest \/ request'[q].at = "check"
    BY <1>1, <1>2, <1>9, GoesTo, Leaves DEF Allocate
  <2>3. QED
    BY <1>2, <1>3, <1>4, <1>5, <1>7, <2>1, <2>2, QuietStep DEF Fits, Activated, Closing
<1>10. CASE Activate(q)
  <2>1. request[q].at = "activate" /\ request[q].op = "GO_LIVE"
    BY <1>2, <1>10 DEF Activate, At, Fits
  <2>2. \/ request'[q] = NoRequest /\ source' = source
        \/ request'[q] # NoRequest /\ request'[q].at = "check"
    BY <1>1, <1>2, <1>10, GoesTo, Leaves DEF Activate
  <2>3. QED
    BY <1>2, <1>3, <1>4, <1>5, <1>7, <2>1, <2>2, QuietStep DEF Fits, Activated, Closing
<1>11. CASE Suspend(q)
  <2>1. request[q].at = "suspend" /\ source' = "SUSPENDED" /\ GoTo(q, "check")
    BY <1>2, <1>11 DEF Suspend, At
  <2>2. request'[q] # NoRequest /\ request'[q].at = "check"
    BY <1>1, <1>2, <2>1, GoesTo
  <2>3. QED
    BY <1>2, <1>3, <1>4, <1>5, <1>7, <2>1, <2>2, QuietStep DEF Fits, Activated, Closing
<1>12. CASE Check(q)
  <2>1. request[q].at = "check" /\ UNCHANGED source
    BY <1>2, <1>12 DEF Check, At
  <2>2. \/ request'[q] # NoRequest /\ request'[q].at = "update"
        \/ request'[q] # NoRequest /\ request'[q].at = "undo" /\ request[q].op = "GO_LIVE"
        \/ request'[q] = NoRequest /\ request[q].op # "GO_LIVE"
    BY <1>1, <1>2, <1>12, GoesTo, Leaves DEF Check, OnConflict
  <2>3. QED
    BY <1>2, <1>3, <1>4, <1>5, <1>7, <2>1, <2>2, QuietStep DEF Fits, Activated, Closing
<1>13. CASE Undo(q)
  <2>1. source' = "SUSPENDED" /\ request'[q] = NoRequest
    BY <1>1, <1>13, Leaves DEF Undo
  <2>2. QED
    BY <1>2, <1>3, <1>4, <1>5, <1>7, <2>1, QuietStep DEF Fits, Activated, Closing
<1>14. CASE Die(q)
  <2>1. died' /\ request'[q] = NoRequest /\ UNCHANGED source
    BY <1>1, <1>14, Leaves DEF Die
  <2>2. QED
    BY <1>2, <1>3, <1>4, <1>5, <1>7, <2>1, QuietStep DEF Fits, Activated, Closing
<1>15. QED
  BY <1>8, <1>9, <1>10, <1>11, <1>12, <1>13, <1>14

(* An update by a request whose version is still current moves the session *)
(* along its transitions; any other update is remembered as lost.          *)
LEMMA UpdateStep ==
    ASSUME IInv, NEW q \in Request, Update(q)
    PROVE  /\ IInv'
           /\ (status \in Closed /\ ~lost') => status' \in Closed
<1>1. /\ TypeOK /\ InStep /\ FreshIsAllowed /\ SoundcheckRequired
      /\ ActiveIsWanted /\ ClosingSuspends
  BY DEF IInv
<1>2. /\ request[q] # NoRequest /\ request[q].at = "update" /\ request[q] \in Running
      /\ request' = Outdated(q) /\ scan' = ScanOutdated /\ beat' = 0
      /\ lost' = (lost \/ ~request[q].fresh)
      /\ UNCHANGED <<granted, died>>
  BY <1>1, RunningRequest DEF Update, At
<1>3. PICK op \in Op : op = request[q].op
  BY <1>2 DEF Running
<1>4. /\ status' = NextStatus(op)
      /\ good' \in IF op = "SAVE_SOUNDCHECK" THEN BOOLEAN ELSE {good}
      /\ source' = IF op = "PREPARE" THEN "READY" ELSE source
  BY <1>3 DEF Update
<1>5. /\ request' \in [Request -> Running \union {NoRequest}]
      /\ \A r \in Request : request'[r] # NoRequest =>
             /\ ~request'[r].fresh /\ r # q /\ request[r] # NoRequest
             /\ request'[r].op = request[r].op /\ request'[r].at = request[r].at
      /\ \A r \in Request : (r # q /\ request[r] # NoRequest) => request'[r] # NoRequest
  <2>1. request' = Outdated(q)
    BY <1>2
  <2>2. QED
    BY <1>1, <2>1, OutdatedAll
<1>6. request[q].fresh \in BOOLEAN
  BY <1>2 DEF Running
<1>7. ~lost' => ~lost /\ Allowed(op)
  BY <1>1, <1>2, <1>3, <1>6 DEF FreshIsAllowed
<1>8. status' \in Open \union Closed
  BY <1>1, <1>4, NextStatusOf, OpCases DEF TypeOK, Open, Closed, Streaming
<1>9. TypeOK'
  <2>1. beat' \in 0..(StaleTicks + 1)
    BY <1>2, StaleAssumption
  <2>2. scan' \in BOOLEAN \union {NoScan} /\ lost' \in BOOLEAN /\ died' \in BOOLEAN
        /\ granted' \in BOOLEAN
    BY <1>1, <1>2, <1>6 DEF TypeOK, ScanOutdated
  <2>3. good' \in BOOLEAN /\ source' \in {"NONE", "READY", "ACTIVE", "SUSPENDED"}
    BY <1>1, <1>4 DEF TypeOK
  <2>4. QED
    BY <1>5, <1>8, <2>1, <2>2, <2>3 DEF TypeOK
<1>10. FreshIsAllowed'
  BY <1>5 DEF FreshIsAllowed
<1>11. InStep'
  BY <1>1, <1>5 DEF InStep, Fits
<1>12. SoundcheckRequired'
  <2>1. SUFFICES ASSUME ~lost', status' \in Streaming
                 PROVE  good'
    BY DEF SoundcheckRequired, Streaming
  <2>2. op \in {"PREPARE", "GO_LIVE"} \/ (op \in {"SAVE_SOUNDCHECK", "HEARTBEAT"} /\ status' = status)
    BY <1>4, <2>1, NextStatusOf, OpCases DEF Streaming
  <2>3. op # "SAVE_SOUNDCHECK" /\ good' = good
    BY <1>4, <1>7, <2>1, <2>2, AllowedFrom DEF Streaming
  <2>4. op = "PREPARE" \/ status \in Streaming
    BY <1>7, <2>1, <2>2, AllowedFrom DEF Streaming
  <2>5. QED
    BY <1>1, <1>7, <2>1, <2>3, <2>4, AllowedFrom DEF SoundcheckRequired
<1>13. \A r \in Request : (r # q /\ Activated(r)) => Activated(r)'
  BY <1>5 DEF Activated
<1>14. ActiveIsWanted'
  <2>1. SUFFICES ASSUME source' = "ACTIVE", ~lost', ~died', \A r \in Request : ~Activated(r)'
                 PROVE  status' = "ON_AIR"
    BY DEF ActiveIsWanted
  <2>2. source = "ACTIVE" /\ op # "PREPARE" /\ ~lost /\ ~died /\ Allowed(op)
    BY <1>2, <1>4, <1>7, <2>1
  <2>3. CASE op = "GO_LIVE"
    BY <1>4, <2>3, NextStatusOf
  <2>4. CASE op # "GO_LIVE"
    <3>1. \A r \in Request : ~Activated(r)
      BY <1>3, <1>13, <2>1, <2>4 DEF Activated
    <3>2. status = "ON_AIR"
      BY <1>1, <2>2, <3>1 DEF ActiveIsWanted
    <3>3. op \notin {"FORCE_FALLBACK", "END"}
      <4>1. request[q].fresh
        BY <1>2, <1>6, <2>1
      <4>2. QED
        BY <1>1, <1>2, <1>3, <2>2, <3>1, <4>1 DEF ClosingSuspends, Closing
    <3>4. op = "HEARTBEAT"
      BY <2>2, <2>4, <3>2, <3>3, AllowedFrom, OpCases
    <3>5. QED
      BY <1>4, <3>2, <3>4, NextStatusOf
  <2>5. QED
    BY <2>3, <2>4
<1>15. ClosingSuspends'
  BY <1>5 DEF ClosingSuspends, Closing
<1>16. (status \in Closed /\ ~lost') => status' \in Closed
  <2>1. SUFFICES ASSUME status \in Closed, ~lost'
                 PROVE  status' \in Closed
    OBVIOUS
  <2>2. op = "END"
    BY <1>7, <2>1, AllowedFrom, OpCases DEF Closed, Streaming
  <2>3. QED
    BY <1>4, <2>2, NextStatusOf DEF Closed
<1>17. QED
  BY <1>9, <1>10, <1>11, <1>12, <1>14, <1>15, <1>16 DEF IInv

LEMMA CloseStaleStep ==
    ASSUME IInv, CloseStale, scan
    PROVE  IInv'
<1>1. /\ TypeOK /\ InStep /\ FreshIsAllowed /\ SoundcheckRequired
      /\ ActiveIsWanted /\ ClosingSuspends
  BY DEF IInv
<1>2. /\ status' = "FALLBACK" /\ beat' = 0 /\ source' = FallenBack
      /\ request' = Outdated(NoRequest) /\ scan' = NoScan
      /\ UNCHANGED <<good, granted, lost, died>>
  BY DEF CloseStale, NewVersion
<1>3. /\ request' \in [Request -> Running \union {NoRequest}]
      /\ \A r \in Request : request'[r] # NoRequest =>
             /\ ~request'[r].fresh /\ request[r] # NoRequest
             /\ request'[r].op = request[r].op /\ request'[r].at = request[r].at
  <2>1. request' = Outdated(NoRequest)
    BY <1>2
  <2>2. QED
    BY <1>1, <2>1, OutdatedAll
<1>4. source' \in {"NONE", "SUSPENDED"}
  BY <1>2 DEF FallenBack
<1>5. TypeOK'
  <2>1. beat' \in 0..(StaleTicks + 1)
    BY <1>2, StaleAssumption
  <2>2. status' \in Open \union Closed
    BY <1>2 DEF Closed
  <2>3. QED
    BY <1>1, <1>2, <1>3, <1>4, <2>1, <2>2 DEF TypeOK
<1>6. FreshIsAllowed'
  BY <1>3 DEF FreshIsAllowed
<1>7. InStep'
  BY <1>1, <1>3 DEF InStep, Fits
<1>8. SoundcheckRequired'
  BY <1>2 DEF SoundcheckRequired, Streaming
<1>9. ActiveIsWanted' /\ ClosingSuspends'
  BY <1>4 DEF ActiveIsWanted, ClosingSuspends
<1>10. QED
  BY <1>5, <1>6, <1>7, <1>8, <1>9 DEF IInv

(* The worker's list, the grant, the clock and the rest of the channel.    *)
LEMMA OtherStep ==
    ASSUME IInv, UNCHANGED vars \/ Scan \/ (CloseStale /\ ~scan) \/ Revoke \/ Replace \/ Tick
    PROVE  IInv'
<1>1. /\ TypeOK /\ InStep /\ FreshIsAllowed /\ SoundcheckRequired
      /\ ActiveIsWanted /\ ClosingSuspends
  BY DEF IInv
<1>2. UNCHANGED <<status, good, request, lost, died>>
  BY DEF vars, Scan, CloseStale, Revoke, Replace, Tick
<1>3. source' = source \/ source' = "READY"
  BY DEF vars, Scan, CloseStale, Revoke, Replace, Tick
<1>4. beat' \in 0..(StaleTicks + 1)
  <2>1. beat' = beat \/ (beat <= StaleTicks /\ beat' = beat + 1)
    BY DEF vars, Scan, CloseStale, Revoke, Replace, Tick
  <2>2. QED
    BY <1>1, <2>1, StaleAssumption DEF TypeOK
<1>5. TypeOK'
  <2>1. granted' \in BOOLEAN /\ scan' \in BOOLEAN \union {NoScan}
    BY <1>1 DEF TypeOK, vars, Scan, CloseStale, Revoke, Replace, Tick
  <2>2. QED
    BY <1>1, <1>2, <1>3, <1>4, <2>1 DEF TypeOK
<1>6. FreshIsAllowed'
  BY <1>1, <1>2, StillAllowed
<1>7. InStep' /\ SoundcheckRequired'
  BY <1>1, <1>2 DEF InStep, Fits, SoundcheckRequired
<1>8. ActiveIsWanted' /\ ClosingSuspends'
  BY <1>1, <1>2, <1>3 DEF ActiveIsWanted, ClosingSuspends, Activated, Closing
<1>9. QED
  BY <1>5, <1>6, <1>7, <1>8 DEF IInv

LEMMA NextStep ==
    ASSUME IInv, [Next]_vars
    PROVE  IInv' /\ ((status \in Closed /\ ~lost') => status' \in Closed)
<1>1. CASE \E q \in Request : Update(q)
  BY <1>1, UpdateStep
<1>2. CASE CloseStale /\ scan
  BY <1>2, CloseStaleStep DEF CloseStale, Closed
<1>3. CASE \E q \in Request, op \in Op : Begin(q, op)
  BY <1>3, BeginStep DEF Begin
<1>4. CASE \E q \in Request : \/ Heartbeat(q) \/ Allocate(q) \/ Activate(q) \/ Suspend(q)
                              \/ Check(q) \/ Undo(q) \/ Die(q)
  <2>1. IInv'
    BY <1>4, RequestQuiet
  <2>2. UNCHANGED status
    BY <1>4 DEF Heartbeat, Allocate, Activate, Suspend, Check, Undo, Die
  <2>3. QED
    BY <2>1, <2>2
<1>5. CASE UNCHANGED vars \/ Scan \/ (CloseStale /\ ~scan) \/ Revoke \/ Replace \/ Tick
  <2>1. IInv'
    BY <1>5, OtherStep
  <2>2. UNCHANGED status
    BY <1>5 DEF vars, Scan, CloseStale, Revoke, Replace, Tick
  <2>3. QED
    BY <2>1, <2>2
<1>6. QED
  BY <1>1, <1>2, <1>3, <1>4, <1>5 DEF Next, RequestStep

-----------------------------------------------------------------------------
(* The inductive invariant holds throughout: whoever holds a current       *)
(* version may still do what it was let in for, and an active source is    *)
(* on air or in the hands of a GO_LIVE.                                    *)
THEOREM InvAlways == Spec => []IInv
<1>1. IInv /\ [Next]_vars => IInv'
  BY NextStep
<1>2. QED
  BY InitInv, <1>1, PTL DEF Spec

(* Every reachable state has the declared types. *)
THEOREM StudioTypeCorrect == Spec => []TypeOK
<1>1. IInv => TypeOK
  BY DEF IInv
<1>2. QED
  BY InvAlways, <1>1, PTL

(* However requests overlap, a studio that streams has a good soundcheck,  *)
(* unless an update has overwritten a newer version (prepareBrowserStudio  *)
(* and saveBrowserStudioSoundcheck compare versions before they update).   *)
THEOREM SoundcheckAlwaysRequired == Spec => []SoundcheckRequired
<1>1. IInv => SoundcheckRequired
  BY DEF IInv
<1>2. QED
  BY InvAlways, <1>1, PTL

(* A closed studio is off air once no GO_LIVE is in progress, unless an    *)
(* update was lost or a request died: every activation of a source is put  *)
(* on air or taken back.                                                   *)
THEOREM ClosedAlwaysOffAir == Spec => []ClosedIsOffAir
<1>1. IInv => ClosedIsOffAir
  BY DEF IInv, ActiveIsWanted, ClosedIsOffAir, GoingLive, Activated, Closed
<1>2. QED
  BY InvAlways, <1>1, PTL

(* No request reopens a studio that was closed after it had read the       *)
(* session, unless its update is one that overwrites a newer version.      *)
THEOREM ClosedAlwaysStays == Spec => ClosedStaysClosed
<1>1. IInv /\ [Next]_vars => [(status \in Closed /\ ~lost') => status' \in Closed]_vars
  BY NextStep
<1>2. QED
  BY InvAlways, <1>1, PTL DEF Spec, ClosedStaysClosed

(* The studio and its source agree in every state, for any requests.       *)
THEOREM StudioAlwaysSound == Spec => []StudioSound
<1>1. ClosedIsOffAir /\ SoundcheckRequired => StudioSound
  BY DEF StudioSound
<1>2. QED
  BY <1>1, ClosedAlwaysOffAir, SoundcheckAlwaysRequired, PTL

-----------------------------------------------------------------------------
(* LiveFailover, beside the studio: its constants, and its variables under *)
(* names of their own.                                                     *)
CONSTANTS Primary, Backup, None, FreshTicks, FailureThreshold, RecoveryThreshold,
          HoldTicks, OverrideTicks, MaxRequests
VARIABLES up, sources, policy, worker, managing, requests, record

F == INSTANCE LiveFailover WITH source <- sources, request <- managing

(* The rows a reconciliation and a manager write. *)
LEMMA LowerType ==
    ASSUME NEW n \in Nat, NEW a \in 0..n
    PROVE  /\ F!Lower(a + 1, n) \in 0..n /\ F!Lower(a + 1, n) >= a /\ (n > 0 => F!Lower(a + 1, n) > 0)
           /\ F!Lower(a + 1, n) <= a + 1
BY DEF F!Lower

LEMMA LowerMonotone ==
    ASSUME NEW n \in Nat, NEW a \in 0..n, NEW b \in 0..n, a <= b
    PROVE  F!Lower(a + 1, n) <= F!Lower(b + 1, n)
BY DEF F!Lower

LEMMA PolicyInRow ==
    ASSUME F!Configured, NEW state \in F!State, NEW effective \in F!Source \union {None}
    PROVE  /\ F!PolicyIn(state, effective) \in F!PolicyRow
           /\ F!PolicyIn(state, effective).state = state
           /\ F!PolicyIn(state, effective).effective = effective
           /\ F!PolicyIn(state, effective).enabled = TRUE
           /\ F!PolicyIn(state, effective).since = None
           /\ F!PolicyIn(state, effective).probes = 0
BY DEF F!Configured, F!PolicyIn, F!PolicyRow

LEMMA PolicyInSound ==
    ASSUME F!Configured, NEW state \in F!State \ {"RECOVERY_PENDING"},
           NEW effective \in F!Source \union {None},
           state = "PRIMARY" => effective = Primary, state = "BACKUP" => effective = Backup,
           state = "SCHEDULED_FALLBACK" => effective = None,
           state = "MANUAL_OVERRIDE" => effective # None
    PROVE  F!RowSound(F!PolicyIn(state, effective))
<1>1. PICK row \in F!PolicyRow :
        /\ row = F!PolicyIn(state, effective) /\ row.state = state
        /\ row.effective = effective /\ row.since = None
  BY PolicyInRow
<1>2. F!RowSound(row)
  BY <1>1 DEF F!RowSound, F!Matching, F!State
<1>3. QED
  BY <1>1, <1>2

LEMMA SavedPolicy ==
    ASSUME F!Configured
    PROVE  /\ F!PolicyIn("PRIMARY", Primary) \in F!PolicyRow /\ F!RowSound(F!PolicyIn("PRIMARY", Primary))
           /\ [F!PolicyIn("SCHEDULED_FALLBACK", None) EXCEPT !.enabled = FALSE] \in F!PolicyRow
           /\ F!RowSound([F!PolicyIn("SCHEDULED_FALLBACK", None) EXCEPT !.enabled = FALSE])
           /\ [F!PolicyIn("SCHEDULED_FALLBACK", None) EXCEPT !.enabled = FALSE].state
                  = "SCHEDULED_FALLBACK"
<1>1. /\ {"PRIMARY", "SCHEDULED_FALLBACK"} \subseteq F!State
      /\ {Primary, None} \subseteq F!Source \union {None}
  BY DEF F!State, F!Source
<1>2. F!PolicyIn("PRIMARY", Primary) \in F!PolicyRow /\ F!RowSound(F!PolicyIn("PRIMARY", Primary))
  BY <1>1, PolicyInRow, PolicyInSound
<1>3. PICK row \in F!PolicyRow :
        /\ row = F!PolicyIn("SCHEDULED_FALLBACK", None)
        /\ row.state = "SCHEDULED_FALLBACK"
        /\ row.effective = None /\ row.since = None
  <2>1. PICK state \in F!State, to \in F!Source \union {None} :
          state = "SCHEDULED_FALLBACK" /\ to = None
    BY <1>1
  <2>2. /\ F!PolicyIn(state, to) \in F!PolicyRow /\ F!PolicyIn(state, to).since = None
        /\ F!PolicyIn(state, to).state = state
        /\ F!PolicyIn(state, to).effective = to
    BY PolicyInRow
  <2>3. QED
    BY <2>1, <2>2
<1>4. PICK next \in F!PolicyRow :
        /\ next = [row EXCEPT !.enabled = FALSE] /\ next.state = "SCHEDULED_FALLBACK"
        /\ next.effective = None /\ next.since = None
  <2>1. /\ [row EXCEPT !.enabled = FALSE] \in F!PolicyRow
        /\ [row EXCEPT !.enabled = FALSE].state = row.state
        /\ [row EXCEPT !.enabled = FALSE].effective = row.effective
        /\ [row EXCEPT !.enabled = FALSE].since = row.since
    BY DEF F!PolicyRow
  <2>2. QED
    BY <1>3, <2>1
<1>5. F!RowSound(next)
  BY <1>4 DEF F!RowSound, F!Matching
<1>6. QED
  BY <1>2, <1>3, <1>4, <1>5

LEMMA ProbedRow ==
    ASSUME F!Configured, NEW row \in F!SourceRow, NEW ok \in BOOLEAN
    PROVE  /\ F!Probed(row, ok) \in F!SourceRow
           /\ F!Probed(row, ok).healthy = ok /\ F!Probed(row, ok).age = 0
           /\ F!Probed(row, ok).status = row.status
<1>1. F!Lower(row.failures + 1, FailureThreshold) \in 0..FailureThreshold
  BY LowerType DEF F!Configured, F!SourceRow
<1>2. PICK failures \in 0..FailureThreshold :
        F!Probed(row, ok) = [row EXCEPT !.healthy = ok, !.age = 0, !.failures = failures]
  <2>1. 0 \in 0..FailureThreshold
    BY DEF F!Configured
  <2>2. QED
    BY <1>1, <2>1 DEF F!Probed
<1>3. 0 \in 0..(FreshTicks + 1)
  BY DEF F!Configured
<1>4. QED
  BY <1>2, <1>3 DEF F!SourceRow

LEMMA CheckedRecord ==
    ASSUME F!Configured, F!TypeOK, NEW s \in F!Source, NEW ok \in BOOLEAN, NEW managed \in BOOLEAN
    PROVE  /\ F!Checked(s, ok, managed) \in F!Record
           /\ s # Primary => F!Checked(s, ok, managed) = record
           /\ s = Primary =>
                /\ managed => F!Checked(s, ok, managed).managed
                /\ ok => /\ F!Checked(s, ok, managed).checks
                               = F!Lower(record.checks + 1, RecoveryThreshold)
                         /\ F!Checked(s, ok, managed).held = record.held
                         /\ record.managed => F!Checked(s, ok, managed).managed
<1>1. F!Lower(record.checks + 1, RecoveryThreshold) \in 0..RecoveryThreshold
  BY LowerType DEF F!Configured, F!TypeOK, F!Record
<1>2. QED
  BY <1>1 DEF F!Checked, F!Configured, F!TypeOK, F!Record

(* What decideLiveFailover returns, and what a recovering primary gets.    *)
LEMMA RecoveringRow ==
    ASSUME F!Configured, F!TypeOK, F!RowSound(policy)
    PROVE  /\ F!Recovering \in F!PolicyRow /\ F!RowSound(F!Recovering)
           /\ (F!Uncounted /\ sources[Primary].healthy /\ policy.enabled) => F!Backed(F!Recovering)
<1>1. /\ policy.since \in (0..HoldTicks) \union {None} /\ policy.probes \in 0..RecoveryThreshold
      /\ record.checks \in 0..RecoveryThreshold /\ record.held \in 0..HoldTicks
      /\ policy.state = "RECOVERY_PENDING" => policy.since # None
      /\ policy.state # "RECOVERY_PENDING" => policy.since = None
      /\ RecoveryThreshold \in Nat \ {0} /\ HoldTicks \in Nat \ {0} /\ None \notin Nat
  BY DEF F!TypeOK, F!PolicyRow, F!Record, F!RowSound,
     F!Configured
<1>2. PICK since \in 0..HoldTicks : since = F!HealthySince
  BY <1>1 DEF F!HealthySince
<1>3. PICK counted \in 0..RecoveryThreshold :
        counted = IF policy.state = "RECOVERY_PENDING" THEN policy.probes ELSE 0
  BY <1>1
<1>4. PICK probes \in 0..RecoveryThreshold :
        /\ probes = F!Lower(counted + 1, RecoveryThreshold) /\ probes > 0
        /\ probes <= counted + 1
  <2>1. RecoveryThreshold \in Nat /\ RecoveryThreshold > 0
    BY <1>1
  <2>2. QED
    BY <2>1, LowerType
<1>5. PICK effective \in {Backup, None} : effective = IF F!Available(Backup) THEN Backup ELSE None
  OBVIOUS
<1>6. F!Recovering = IF F!Confirmed(probes, since) THEN F!PolicyIn("PRIMARY", Primary)
                   ELSE [F!PolicyIn("RECOVERY_PENDING", effective)
                            EXCEPT !.since = since, !.probes = probes]
  BY <1>2, <1>3, <1>4, <1>5 DEF F!Recovering
<1>7. /\ "PRIMARY" \in F!State /\ "RECOVERY_PENDING" \in F!State
      /\ Primary \in F!Source \union {None}
      /\ effective \in F!Source \union {None}
      /\ effective # Primary
  BY DEF F!State, F!Source, F!Configured
<1>8. CASE F!Confirmed(probes, since)
  <2>1. F!Recovering = F!PolicyIn("PRIMARY", Primary)
    BY <1>6, <1>8
  <2>2. F!Recovering \in F!PolicyRow /\ F!RowSound(F!Recovering)
    BY <1>7, <2>1, PolicyInRow, PolicyInSound
  <2>3. ASSUME F!Uncounted, sources[Primary].healthy, policy.enabled PROVE F!Backed(F!Recovering)
    <3>1. /\ policy.state = "RECOVERY_PENDING" =>
                /\ policy.since <= record.held
                /\ policy.probes < record.checks \/ record.checks = RecoveryThreshold
      BY <2>3 DEF F!Uncounted, F!Backed
    <3>2. since >= HoldTicks /\ probes >= RecoveryThreshold
      BY <1>8 DEF F!Confirmed
    <3>3. policy.state = "RECOVERY_PENDING" /\ since = policy.since
      BY <1>1, <1>2, <3>2 DEF F!HealthySince
    <3>4. record.checks = RecoveryThreshold /\ record.held = HoldTicks
      <4>1. record.checks >= RecoveryThreshold
        BY <1>1, <1>3, <1>4, <3>1, <3>2, <3>3
      <4>2. record.held >= HoldTicks
        BY <1>1, <3>1, <3>2, <3>3
      <4>3. QED
        BY <1>1, <4>1, <4>2
    <3>5. F!Recovering.state = "PRIMARY"
      BY <1>7, <2>1, PolicyInRow
    <3>6. QED
      BY <3>4, <3>5 DEF F!Backed
  <2>4. QED
    BY <2>2, <2>3
<1>9. CASE ~F!Confirmed(probes, since)
  <2>1. PICK row \in F!PolicyRow :
          /\ row = F!PolicyIn("RECOVERY_PENDING", effective)
          /\ row.state = "RECOVERY_PENDING" /\ row.effective = effective
    BY <1>7, PolicyInRow
  <2>2. F!Recovering = [row EXCEPT !.since = since, !.probes = probes]
    BY <1>6, <1>9, <2>1
  <2>3. /\ F!Recovering \in F!PolicyRow
        /\ F!Recovering.state = "RECOVERY_PENDING"
        /\ F!Recovering.effective = effective /\ F!Recovering.since = since
        /\ F!Recovering.probes = probes
    BY <2>1, <2>2 DEF F!PolicyRow
  <2>4. F!RowSound(F!Recovering)
    BY <1>1, <1>4, <1>7, <2>3 DEF F!RowSound, F!Matching
  <2>5. ASSUME F!Uncounted, sources[Primary].healthy, policy.enabled PROVE F!Backed(F!Recovering)
    <3>1. /\ record.checks > 0
          /\ policy.state = "RECOVERY_PENDING" =>
                /\ policy.since <= record.held
                /\ policy.probes < record.checks \/ record.checks = RecoveryThreshold
      BY <2>5 DEF F!Uncounted, F!Backed
    <3>2. since <= record.held
      BY <1>1, <1>2, <3>1 DEF F!HealthySince
    <3>3. probes <= record.checks
      <4>1. CASE policy.state = "RECOVERY_PENDING"
        BY <1>1, <1>3, <1>4, <3>1, <4>1
      <4>2. CASE policy.state # "RECOVERY_PENDING"
        <5>1. probes = 1
          BY <1>1, <1>3, <1>4, <4>2
        <5>2. QED
          BY <1>1, <3>1, <5>1
      <4>3. QED
        BY <4>1, <4>2
    <3>4. QED
      BY <2>3, <3>2, <3>3 DEF F!Backed
  <2>6. QED
    BY <2>3, <2>4, <2>5
<1>10. QED
  BY <1>8, <1>9

LEMMA DecisionRow ==
    ASSUME F!Configured, F!TypeOK, F!RowSound(policy)
    PROVE  /\ F!Decision \in F!PolicyRow /\ F!RowSound(F!Decision)
           /\ (F!Uncounted /\ policy.enabled) => F!Backed(F!Decision)
<1>1. /\ policy \in F!PolicyRow /\ F!State \subseteq F!State
      /\ {"PRIMARY", "BACKUP", "SCHEDULED_FALLBACK", "MANUAL_OVERRIDE"} \subseteq F!State
      /\ {Primary, Backup, None} \subseteq F!Source \union {None}
  BY DEF F!TypeOK, F!State, F!Source
<1>2. CASE F!OverrideActive /\ F!Available(policy.manual)
  <2>1. policy.manual \in F!Source \union {None} /\ policy.manual # None /\ policy.left \in 0..OverrideTicks
    BY <1>1, <1>2 DEF F!OverrideActive, F!PolicyRow
  <2>2. PICK row \in F!PolicyRow :
          /\ row = F!PolicyIn("MANUAL_OVERRIDE", policy.manual) /\ row.since = None
          /\ row.state = "MANUAL_OVERRIDE" /\ row.effective = policy.manual
    <3>1. PICK state \in F!State, to \in F!Source \union {None} :
            state = "MANUAL_OVERRIDE" /\ to = policy.manual
      BY <1>1, <2>1
    <3>2. /\ F!PolicyIn(state, to) \in F!PolicyRow /\ F!PolicyIn(state, to).since = None
          /\ F!PolicyIn(state, to).state = state
          /\ F!PolicyIn(state, to).effective = to
      BY PolicyInRow
    <3>3. QED
      BY <3>1, <3>2
  <2>3. F!Decision = [row EXCEPT !.manual = policy.manual, !.left = policy.left]
    BY <1>2, <2>2 DEF F!Decision
  <2>4. /\ F!Decision \in F!PolicyRow
        /\ F!Decision.state = "MANUAL_OVERRIDE"
        /\ F!Decision.effective = policy.manual /\ F!Decision.since = None
    BY <2>1, <2>2, <2>3 DEF F!PolicyRow
  <2>5. QED
    BY <2>1, <2>4 DEF F!RowSound, F!Matching, F!Backed
<1>3. CASE ~(F!OverrideActive /\ F!Available(policy.manual)) /\ F!Available(Primary)
  <2>1. sources[Primary].healthy
    BY <1>3 DEF F!Available
  <2>2. CASE policy.state = "PRIMARY" /\ policy.effective = Primary
    <3>1. F!Decision = F!PolicyIn("PRIMARY", Primary)
      BY <1>3, <2>2 DEF F!Decision
    <3>2. F!Decision \in F!PolicyRow /\ F!RowSound(F!Decision) /\ F!Decision.state = "PRIMARY"
      <4>1. "PRIMARY" \in F!State /\ Primary \in F!Source \union {None}
        BY <1>1
      <4>2. QED
        BY <3>1, <4>1, PolicyInRow, PolicyInSound
    <3>3. (F!Uncounted /\ policy.enabled) => F!Backed(F!Decision)
      BY <2>1, <2>2, <3>2 DEF F!Uncounted, F!Backed
    <3>4. QED
      BY <3>2, <3>3
  <2>3. CASE ~(policy.state = "PRIMARY" /\ policy.effective = Primary)
    <3>1. F!Decision = F!Recovering
      BY <1>3, <2>3 DEF F!Decision
    <3>2. QED
      BY <2>1, <3>1, RecoveringRow
  <2>4. QED
    BY <2>2, <2>3
<1>4. CASE ~(F!OverrideActive /\ F!Available(policy.manual)) /\ ~F!Available(Primary)
  <2>1. PICK state \in {"BACKUP", "SCHEDULED_FALLBACK"} :
          F!Decision = F!PolicyIn(state, IF state = "BACKUP" THEN Backup ELSE None)
    BY <1>4 DEF F!Decision
  <2>2. PICK effective \in {Backup, None} :
          effective = IF state = "BACKUP" THEN Backup ELSE None
    OBVIOUS
  <2>3. /\ state \in F!State /\ effective \in F!Source \union {None}
        /\ F!Decision = F!PolicyIn(state, effective)
    BY <1>1, <2>1, <2>2
  <2>4. /\ F!Decision \in F!PolicyRow /\ F!Decision.state = state
        /\ F!Decision.effective = effective /\ F!Decision.since = None
    BY <2>3, PolicyInRow
  <2>5. QED
    BY <2>2, <2>4 DEF F!RowSound, F!Matching, F!Backed
<1>5. QED
  BY <1>2, <1>3, <1>4

-----------------------------------------------------------------------------
LEMMA Shapes ==
    ASSUME F!TypeOK
    PROVE  /\ worker.at \in {"idle", "rest", "live", "policy", "write"}
           /\ worker.at = "write" => worker.row \in F!PolicyRow /\ worker.todo = {}
           /\ worker.at # "write" =>
                worker \in [at : {"idle", "rest", "live", "policy"}, todo : SUBSET F!Source]
           /\ worker.todo \subseteq F!Source
           /\ managing.op = "WRITE" => managing.row \in F!PolicyRow
           /\ policy \in F!PolicyRow
           /\ sources \in [F!Source -> F!SourceRow] /\ record \in F!Record
           /\ Primary \in F!Source /\ Backup \in F!Source
<1>1. worker \in F!Worker /\ managing \in F!Requested \union {F!NoRequest}
  BY DEF F!TypeOK
<1>2. managing.op = "WRITE" => managing.row \in F!PolicyRow
  BY <1>1 DEF F!Requested, F!NoRequest, F!SourceOp
<1>3. /\ worker.at \in {"idle", "rest", "live", "policy", "write"}
      /\ worker.at = "write" => worker.row \in F!PolicyRow /\ worker.todo = {}
      /\ worker.at # "write" =>
           worker \in [at : {"idle", "rest", "live", "policy"}, todo : SUBSET F!Source]
      /\ worker.todo \subseteq F!Source
  BY <1>1 DEF F!Worker
<1>4. QED
  BY <1>2, <1>3 DEF F!TypeOK, F!Source

(* Requests and rows are of the kinds that the actions write. *)
LEMMA RequestKinds ==
    /\ \A op \in F!SourceOp, s \in F!Source : [op |-> op, source |-> s] \in F!Requested
    /\ \A op \in {"SAVE", "SAVE_DISABLED", "CLEAR"} : [op |-> op, source |-> None] \in F!Requested
    /\ \A row \in F!PolicyRow : [op |-> "WRITE", source |-> None, row |-> row] \in F!Requested
BY DEF F!Requested

(* What a manager does to the policy: nothing a reconciliation counts, or  *)
(* a row that is not counted.                                              *)
Recounted ==
    \/ /\ (policy'.enabled <=> policy.enabled) /\ policy'.state = policy.state
       /\ policy'.since = policy.since /\ policy'.probes = policy.probes
    \/ policy'.state \notin {"PRIMARY", "RECOVERY_PENDING"}

LEMMA KeepsInStep ==
    ASSUME F!InStep, Recounted, UNCHANGED <<worker, record>>,
           sources'[Primary].healthy = sources[Primary].healthy,
           sources'[Primary].age = sources[Primary].age
    PROVE  F!InStep'
<1>1. (policy.enabled => F!Backed(policy)) => (policy'.enabled => F!Backed(policy)')
  BY DEF Recounted, F!Backed
<1>2. F!Uncounted => F!Uncounted'
  BY <1>1 DEF F!Uncounted, Recounted
<1>3. F!Backed(worker.row) => F!Backed(worker.row)'
  BY DEF F!Backed
<1>4. QED
  BY <1>1, <1>2, <1>3 DEF F!InStep

(* The rows of a step that writes none. *)
LEMMA KeepsRows ==
    ASSUME F!RowsSound, UNCHANGED policy,
           UNCHANGED worker \/ worker'.at # "write",
           UNCHANGED managing \/ managing'.op # "WRITE"
    PROVE  F!RowsSound'
BY DEF F!RowsSound, F!RowSound, F!Matching

LEMMA EnvironmentStep ==
    ASSUME F!IInv, NEW s \in F!Source, F!Environment(s)
    PROVE  F!IInv'
<1>1. up' = [up EXCEPT ![s] = ~@] /\ UNCHANGED <<sources, policy, worker, managing, requests, record>>
  BY DEF F!Environment
<1>2. F!TypeOK'
  BY <1>1 DEF F!IInv, F!TypeOK
<1>3. F!RowsSound'
  BY <1>1, KeepsRows DEF F!IInv
<1>4. record'.managed \/ F!InStep'
  BY <1>1, KeepsInStep DEF F!IInv, Recounted
<1>5. QED
  BY <1>2, <1>3, <1>4 DEF F!IInv

LEMMA TickStep ==
    ASSUME F!Configured, F!IInv, F!Tick
    PROVE  F!IInv'
<1>1. /\ worker.at \in {"idle", "rest"} /\ managing = F!NoRequest
      /\ sources' = [s \in F!Source |-> [sources[s] EXCEPT !.age = F!Lower(@ + 1, FreshTicks + 1)]]
      /\ policy' = [policy EXCEPT !.left = IF @ > 0 THEN @ - 1 ELSE 0,
                                  !.since = IF @ = None THEN None ELSE F!Lower(@ + 1, HoldTicks)]
      /\ worker' = [worker EXCEPT !.at = "idle"]
      /\ record' = [record EXCEPT !.held = IF record.checks = 0 THEN 0
                                           ELSE F!Lower(@ + 1, HoldTicks)]
      /\ UNCHANGED <<up, managing, requests>>
  BY DEF F!Tick
<1>2. /\ policy \in F!PolicyRow /\ record \in F!Record
      /\ sources \in [F!Source -> F!SourceRow]
      /\ Primary \in F!Source
      /\ worker \in [at : {"idle", "rest", "live", "policy"}, todo : SUBSET F!Source]
  BY <1>1, Shapes DEF F!IInv
<1>3. /\ policy.left \in 0..OverrideTicks /\ policy.since \in (0..HoldTicks) \union {None}
      /\ record.held \in 0..HoldTicks /\ record.checks \in 0..RecoveryThreshold
      /\ \A s \in F!Source : sources[s].age \in 0..(FreshTicks + 1)
      /\ HoldTicks \in Nat \ {0} /\ FreshTicks + 1 \in Nat /\ FreshTicks + 1 > 0
      /\ OverrideTicks \in Nat \ {0} /\ RecoveryThreshold \in Nat \ {0}
      /\ None \notin Nat
  BY <1>2 DEF F!PolicyRow, F!Record, F!SourceRow, F!Configured
<1>4. PICK left \in 0..OverrideTicks : left = IF policy.left > 0 THEN policy.left - 1 ELSE 0
  BY <1>3
<1>5. PICK since \in (0..HoldTicks) \union {None} :
        /\ since = IF policy.since = None THEN None ELSE F!Lower(policy.since + 1, HoldTicks)
        /\ policy.since # None => since \in 0..HoldTicks
  BY <1>3, LowerType
<1>6. PICK held \in 0..HoldTicks :
        held = IF record.checks = 0 THEN 0 ELSE F!Lower(record.held + 1, HoldTicks)
  <2>1. HoldTicks \in Nat /\ 0 \in 0..HoldTicks
    BY <1>3
  <2>2. F!Lower(record.held + 1, HoldTicks) \in 0..HoldTicks
    BY <1>3, <2>1, LowerType
  <2>3. QED
    BY <2>1, <2>2
<1>7. /\ policy' = [policy EXCEPT !.left = left, !.since = since]
      /\ record' = [record EXCEPT !.held = held]
  BY <1>1, <1>4, <1>5, <1>6
<1>8. /\ policy' \in F!PolicyRow /\ policy'.state = policy.state
      /\ policy'.effective = policy.effective
      /\ policy'.enabled = policy.enabled /\ policy'.probes = policy.probes
      /\ policy'.since = since
  BY <1>2, <1>7 DEF F!PolicyRow
<1>9. /\ record' \in F!Record /\ record'.held = held /\ record'.checks = record.checks
      /\ record'.managed = record.managed
  BY <1>2, <1>7 DEF F!Record
<1>10. /\ worker' \in [at : {"idle", "rest", "live", "policy"}, todo : SUBSET F!Source]
       /\ worker'.at = "idle"
  BY <1>1, <1>2
<1>11. \A s \in F!Source : /\ sources'[s] \in F!SourceRow /\ sources'[s].age > 0
  <2>1. TAKE s \in F!Source
  <2>2. PICK age \in 0..(FreshTicks + 1) : age = F!Lower(sources[s].age + 1, FreshTicks + 1) /\ age > 0
    BY <1>3, LowerType
  <2>3. sources'[s] = [sources[s] EXCEPT !.age = age]
    BY <1>1, <2>2
  <2>4. QED
    BY <1>2, <2>2, <2>3 DEF F!SourceRow
<1>12. sources' \in [F!Source -> F!SourceRow]
  BY <1>1, <1>11
<1>13. F!TypeOK'
  BY <1>1, <1>8, <1>9, <1>10, <1>12 DEF F!IInv, F!TypeOK, F!Worker
<1>14. since = None <=> policy.since = None
  <2>1. \A n \in 0..HoldTicks : n # None
    BY <1>3
  <2>2. QED
    BY <1>5, <2>1
<1>15. F!RowsSound'
  <2>1. F!RowSound(policy)'
    BY <1>8, <1>14 DEF F!IInv, F!RowsSound, F!RowSound, F!Matching
  <2>2. managing'.op # "WRITE"
    BY <1>1 DEF F!NoRequest
  <2>3. QED
    BY <1>10, <2>1, <2>2 DEF F!RowsSound
<1>16. F!Backed(policy) => F!Backed(policy)'
  <2>1. HoldTicks \in Nat /\ HoldTicks > 0
    BY <1>3
  <2>2. ASSUME F!Backed(policy), policy.state = "PRIMARY" PROVE record'.held = HoldTicks
    BY <1>3, <1>6, <1>9, <2>2 DEF F!Backed, F!Lower
  <2>3. ASSUME F!Backed(policy), policy.state = "RECOVERY_PENDING" PROVE policy'.since <= record'.held
    <3>1. /\ policy.since \in 0..HoldTicks /\ policy.since <= record.held /\ record.checks # 0
      BY <1>3, <2>3 DEF F!Backed, F!IInv, F!RowsSound, F!RowSound,
         F!PolicyRow, F!TypeOK
    <3>2. since = F!Lower(policy.since + 1, HoldTicks) /\ held = F!Lower(record.held + 1, HoldTicks)
      BY <1>3, <1>5, <1>6, <3>1
    <3>3. QED
      BY <1>3, <1>8, <1>9, <2>1, <3>1, <3>2, LowerMonotone
  <2>4. QED
    BY <1>8, <1>9, <2>2, <2>3 DEF F!Backed
<1>17. record'.managed \/ F!InStep'
  BY <1>1, <1>2, <1>8, <1>9, <1>10, <1>11, <1>16 DEF F!IInv, F!InStep
<1>18. QED
  BY <1>13, <1>15, <1>17 DEF F!IInv

LEMMA ProbeStep ==
    ASSUME F!Configured, F!IInv, NEW s \in F!Source, F!Probe(s)
    PROVE  F!IInv'
<1>1. /\ worker.at \in {"live", "policy"} /\ s \in worker.todo
      /\ sources' = [sources EXCEPT ![s] = F!Probed(@, up[s])]
      /\ worker' = [worker EXCEPT !.todo = @ \ {s}]
      /\ record' = F!Checked(s, up[s], FALSE)
      /\ UNCHANGED <<up, policy, managing, requests>>
  BY DEF F!Probe
<1>2. /\ F!TypeOK /\ up[s] \in BOOLEAN /\ sources[s] \in F!SourceRow
      /\ Primary \in F!Source
      /\ worker \in [at : {"idle", "rest", "live", "policy"}, todo : SUBSET F!Source]
      /\ sources \in [F!Source -> F!SourceRow] /\ record \in F!Record
      /\ policy \in F!PolicyRow
  BY <1>1, Shapes DEF F!IInv, F!TypeOK
<1>3. /\ sources'[s] \in F!SourceRow /\ sources'[s].healthy = up[s]
      /\ sources'[s].age = 0
      /\ sources' \in [F!Source -> F!SourceRow]
      /\ \A t \in F!Source \ {s} : sources'[t] = sources[t]
  BY <1>1, <1>2, ProbedRow
<1>4. /\ worker' \in [at : {"idle", "rest", "live", "policy"}, todo : SUBSET F!Source]
      /\ worker'.at = worker.at /\ worker'.todo = worker.todo \ {s}
  BY <1>1, <1>2
<1>5. /\ record' \in F!Record
      /\ s # Primary => record' = record
      /\ (s = Primary /\ up[s]) =>
           /\ record'.checks = F!Lower(record.checks + 1, RecoveryThreshold)
           /\ record'.held = record.held /\ (record.managed => record'.managed)
  <2>1. PICK next \in F!Record : next = F!Checked(s, up[s], FALSE)
    BY <1>2, CheckedRecord
  <2>2. s # Primary => next = record
    BY <1>2, <2>1, CheckedRecord
  <2>3. (s = Primary /\ up[s]) =>
          /\ next.checks = F!Lower(record.checks + 1, RecoveryThreshold)
          /\ next.held = record.held /\ (record.managed => next.managed)
    BY <1>2, <2>1, CheckedRecord
  <2>4. record' = next
    BY <1>1, <2>1
  <2>5. QED
    BY <2>1, <2>2, <2>3, <2>4
<1>6. F!TypeOK'
  BY <1>1, <1>2, <1>3, <1>4, <1>5 DEF F!TypeOK, F!Worker
<1>7. F!RowsSound'
  BY <1>1, <1>4, KeepsRows DEF F!IInv
<1>8. record'.managed \/ F!InStep'
  <2>1. CASE s # Primary
    <3>1. /\ sources'[Primary] = sources[Primary] /\ record' = record
          /\ Primary \in worker'.todo <=> Primary \in worker.todo
      BY <1>2, <1>3, <1>4, <1>5, <2>1
    <3>2. F!Backed(policy) => F!Backed(policy)'
      BY <1>1, <3>1 DEF F!Backed
    <3>3. F!Uncounted => F!Uncounted'
      BY <1>1, <3>1, <3>2 DEF F!Uncounted
    <3>4. QED
      BY <1>1, <1>4, <3>1, <3>2, <3>3 DEF F!IInv, F!InStep
  <2>2. CASE s = Primary /\ ~up[s]
    <3>1. F!Uncounted'
      BY <1>3, <2>2 DEF F!Uncounted
    <3>2. QED
      BY <1>1, <1>3, <1>4, <2>2, <3>1 DEF F!InStep
  <2>3. CASE s = Primary /\ up[s]
    <3>1. SUFFICES ASSUME ~record'.managed PROVE F!InStep'
      OBVIOUS
    <3>2. policy.enabled => F!Backed(policy)
      BY <1>1, <1>5, <2>3, <3>1 DEF F!IInv, F!InStep
    <3>3. /\ RecoveryThreshold \in Nat /\ RecoveryThreshold > 0
          /\ record.checks \in 0..RecoveryThreshold /\ policy.probes \in 0..RecoveryThreshold
      BY <1>2 DEF F!Configured, F!Record, F!PolicyRow
    <3>4. /\ record'.checks = F!Lower(record.checks + 1, RecoveryThreshold)
          /\ record'.checks \in 0..RecoveryThreshold /\ record'.checks >= record.checks
          /\ record'.checks > 0 /\ record'.held = record.held
      BY <1>5, <2>3, <3>3, LowerType
    <3>5. record'.checks > record.checks \/ record'.checks = RecoveryThreshold
      BY <3>3, <3>4 DEF F!Lower
    <3>6. policy' = policy
      BY <1>1
    <3>7. F!Backed(policy) => F!Backed(policy)'
      BY <3>3, <3>4, <3>6 DEF F!Backed
    <3>8. F!Uncounted'
      <4>1. ASSUME policy.enabled, policy.state = "RECOVERY_PENDING"
            PROVE  policy.probes < record'.checks \/ record'.checks = RecoveryThreshold
        <5>1. policy.probes <= record.checks
          BY <3>2, <4>1 DEF F!Backed
        <5>2. QED
          BY <3>3, <3>4, <3>5, <5>1
      <4>2. QED
        BY <3>2, <3>4, <3>6, <3>7, <4>1 DEF F!Uncounted
    <3>9. QED
      BY <1>1, <1>3, <1>4, <2>3, <3>8 DEF F!InStep
  <2>4. QED
    BY <1>2, <2>1, <2>2, <2>3
<1>9. QED
  BY <1>6, <1>7, <1>8 DEF F!IInv

LEMMA ScanStep ==
    ASSUME F!Configured, F!IInv, F!ScanSources \/ F!ScanPolicy
    PROVE  F!IInv'
<1>1. F!TypeOK /\ Primary \in F!Source /\ UNCHANGED <<up, sources, policy, managing, requests, record>>
  BY Shapes DEF F!IInv, F!ScanSources, F!ScanPolicy
<1>2. PICK at \in {"live", "policy", "rest"}, todo \in SUBSET F!Source :
        /\ worker' = [at |-> at, todo |-> todo]
        /\ at = "live" => worker.at = "idle" /\ \A s \in todo : sources[s].age >= 1
        /\ at # "live" => worker.at = "live" /\ worker.todo = {}
        /\ at = "policy" => policy.enabled /\ todo = {s \in F!Source : sources[s].age >= 1}
        /\ at = "rest" => ~policy.enabled
  <2>1. CASE F!ScanSources
    BY <2>1 DEF F!ScanSources
  <2>2. CASE F!ScanPolicy
    BY <2>2 DEF F!ScanPolicy, F!PolicyProbes
  <2>3. QED
    BY <2>1, <2>2
<1>3. F!TypeOK'
  BY <1>1, <1>2 DEF F!TypeOK, F!Worker
<1>4. F!RowsSound'
  BY <1>1, <1>2, KeepsRows DEF F!IInv
<1>5. F!Backed(policy) => F!Backed(policy)'
  BY <1>1 DEF F!Backed
<1>6. F!Uncounted => F!Uncounted'
  BY <1>1, <1>5 DEF F!Uncounted
<1>7. sources[Primary].age \in 0..(FreshTicks + 1) /\ FreshTicks \in Nat
  BY <1>1, Shapes DEF F!SourceRow, F!Configured
<1>8. F!InStep => F!InStep'
  BY <1>1, <1>2, <1>5, <1>6, <1>7 DEF F!InStep
<1>9. QED
  BY <1>1, <1>3, <1>4, <1>8 DEF F!IInv

LEMMA ReadPolicyStep ==
    ASSUME F!Configured, F!IInv, F!ReadPolicy
    PROVE  F!IInv'
<1>1. /\ worker.at = "policy" /\ worker.todo = {}
      /\ worker' = IF policy.enabled THEN [at |-> "write", todo |-> {}, row |-> F!Decision]
                   ELSE [at |-> "rest", todo |-> {}]
      /\ UNCHANGED <<up, sources, policy, managing, requests, record>>
  BY DEF F!ReadPolicy
<1>2. /\ F!TypeOK /\ F!Decision \in F!PolicyRow
      /\ F!RowSound(F!Decision)
      /\ (F!Uncounted /\ policy.enabled) => F!Backed(F!Decision)
  BY DecisionRow DEF F!IInv, F!RowsSound
<1>3. CASE policy.enabled
  <2>1. PICK row \in F!PolicyRow : row = F!Decision
    BY <1>2
  <2>2. worker' = [at |-> "write", todo |-> {}, row |-> row]
    BY <1>1, <1>3, <2>1
  <2>3. worker' \in F!Worker /\ worker'.at = "write" /\ worker'.row = row
    BY <2>2 DEF F!Worker
  <2>4. F!TypeOK'
    BY <1>1, <1>2, <2>3 DEF F!TypeOK
  <2>5. F!RowSound(row)
    BY <1>2, <2>1
  <2>6. F!RowsSound'
    BY <1>1, <2>3, <2>5 DEF F!IInv, F!RowsSound, F!RowSound,
       F!Matching
  <2>7. F!InStep => F!Backed(row)
    BY <1>1, <1>2, <1>3, <2>1 DEF F!InStep
  <2>8. F!Backed(row) => F!InStep'
    BY <1>1, <2>3 DEF F!InStep, F!Backed
  <2>9. QED
    BY <1>1, <2>4, <2>6, <2>7, <2>8 DEF F!IInv
<1>4. CASE ~policy.enabled
  <2>1. worker' = [at |-> "rest", todo |-> {}]
    BY <1>1, <1>4
  <2>2. F!TypeOK'
    BY <1>1, <1>2, <2>1 DEF F!TypeOK, F!Worker
  <2>3. F!RowsSound'
    BY <1>1, <2>1, KeepsRows DEF F!IInv
  <2>4. F!InStep'
    BY <1>1, <1>4, <2>1 DEF F!InStep
  <2>5. QED
    BY <2>2, <2>3, <2>4 DEF F!IInv
<1>5. QED
  BY <1>3, <1>4

(* The row is written as it was decided, but for `enabled`. *)
LEMMA ReconciledRow ==
    ASSUME F!TypeOK, NEW row \in F!PolicyRow, F!RowSound(row)
    PROVE  /\ F!Reconciled(row) \in F!PolicyRow /\ F!RowSound(F!Reconciled(row))
           /\ F!Reconciled(row).state = row.state
           /\ F!Reconciled(row).since = row.since
           /\ F!Reconciled(row).probes = row.probes
<1>1. policy.enabled \in BOOLEAN
  BY DEF F!TypeOK, F!PolicyRow
<1>2. F!Reconciled(row) \in F!PolicyRow /\ F!Reconciled(row).effective = row.effective
      /\ F!Reconciled(row).state = row.state
      /\ F!Reconciled(row).since = row.since
      /\ F!Reconciled(row).probes = row.probes
  BY <1>1 DEF F!Reconciled, F!PolicyRow
<1>3. PICK next \in F!PolicyRow :
        /\ next = F!Reconciled(row) /\ next.state = row.state /\ next.since = row.since
        /\ next.probes = row.probes /\ next.effective = row.effective
  BY <1>2
<1>4. F!RowSound(next)
  BY <1>3 DEF F!RowSound, F!Matching
<1>5. QED
  BY <1>3, <1>4

LEMMA WritePolicyStep ==
    ASSUME F!IInv, F!WritePolicy
    PROVE  F!IInv' /\ (policy'.state = "PRIMARY" =>
             \/ record.managed
             \/ record.checks = RecoveryThreshold /\ record.held = HoldTicks)
<1>1. /\ worker.at = "write" /\ policy' = F!Reconciled(worker.row)
      /\ worker' = [at |-> "rest", todo |-> {}]
      /\ UNCHANGED <<up, sources, managing, requests, record>>
  BY DEF F!WritePolicy
<1>2. F!TypeOK /\ worker.row \in F!PolicyRow /\ F!RowSound(worker.row)
  BY <1>1, Shapes DEF F!IInv, F!RowsSound
<1>3. /\ policy' \in F!PolicyRow /\ F!RowSound(policy')
      /\ policy'.state = worker.row.state /\ policy'.since = worker.row.since
      /\ policy'.probes = worker.row.probes
  BY <1>1, <1>2, ReconciledRow
<1>4. F!TypeOK'
  BY <1>1, <1>2, <1>3 DEF F!TypeOK, F!Worker
<1>5. F!RowSound(policy)'
  BY <1>3 DEF F!RowSound, F!Matching
<1>6. F!RowsSound'
  <2>1. managing.op = "WRITE" => F!RowSound(managing.row)'
    BY <1>1 DEF F!IInv, F!RowsSound, F!RowSound, F!Matching
  <2>2. QED
    BY <1>1, <1>5, <2>1 DEF F!RowsSound
<1>7. record.managed \/ F!Backed(worker.row)
  BY <1>1 DEF F!IInv, F!InStep
<1>8. record'.managed \/ F!InStep'
  BY <1>1, <1>3, <1>7 DEF F!InStep, F!Backed
<1>9. QED
  BY <1>3, <1>4, <1>6, <1>7, <1>8 DEF F!IInv, F!Backed

-----------------------------------------------------------------------------
(* Managers.  A test replaces a check, and says so in the history.         *)
LEMMA TestStep ==
    ASSUME F!Configured, F!IInv, NEW s \in F!Source, F!Test(s) \/ F!BeginActivate(s)
    PROVE  F!IInv'
<1>1. /\ sources' = [sources EXCEPT ![s] = F!Probed(@, up[s])]
      /\ record' = F!Checked(s, up[s], TRUE)
      /\ managing' \in {managing, F!NoRequest, [op |-> "ACTIVATE", source |-> s]}
      /\ requests < MaxRequests /\ requests' = requests + 1
      /\ UNCHANGED <<up, policy, worker>>
  BY DEF F!Test, F!BeginActivate, F!NewRequest
<1>2. /\ F!TypeOK /\ up[s] \in BOOLEAN /\ sources[s] \in F!SourceRow
      /\ Primary \in F!Source
      /\ sources \in [F!Source -> F!SourceRow]
  BY Shapes DEF F!IInv, F!TypeOK
<1>3. /\ sources' \in [F!Source -> F!SourceRow]
      /\ s # Primary => sources'[Primary] = sources[Primary]
  BY <1>1, <1>2, ProbedRow
<1>4. PICK next \in F!Record :
        /\ next = F!Checked(s, up[s], TRUE)
        /\ s # Primary => next = record
        /\ s = Primary => next.managed
  BY <1>2, CheckedRecord
<1>5. record' = next
  BY <1>1, <1>4
<1>6. [op |-> "ACTIVATE", source |-> s] \in F!Requested
  BY RequestKinds DEF F!SourceOp
<1>7. requests' \in 0..MaxRequests
  BY <1>1, <1>2 DEF F!TypeOK, F!Configured
<1>8. F!TypeOK'
  BY <1>1, <1>2, <1>3, <1>4, <1>5, <1>6, <1>7 DEF F!TypeOK
<1>9. F!RowsSound'
  BY <1>1, KeepsRows DEF F!IInv, F!NoRequest
<1>10. record'.managed \/ F!InStep'
  <2>1. CASE s = Primary
    BY <1>4, <1>5, <2>1
  <2>2. CASE s # Primary
    BY <1>1, <1>3, <1>4, <1>5, <2>2, KeepsInStep DEF F!IInv, Recounted
  <2>3. QED
    BY <2>1, <2>2
<1>11. QED
  BY <1>8, <1>9, <1>10 DEF F!IInv

(* The status of a source is not what the checks and counts are about. *)
LEMMA PromotedRows ==
    ASSUME F!TypeOK, NEW s \in F!Source
    PROVE  /\ F!Promoted(s) \in [F!Source -> F!SourceRow]
           /\ \A t \in F!Source : /\ F!Promoted(s)[t].healthy = sources[t].healthy
                                  /\ F!Promoted(s)[t].age = sources[t].age
<1>1. sources \in [F!Source -> F!SourceRow]
  BY DEF F!TypeOK
<1>2. ASSUME NEW t \in F!Source
      PROVE  /\ F!Promoted(s)[t] \in F!SourceRow /\ F!Promoted(s)[t].healthy = sources[t].healthy
             /\ F!Promoted(s)[t].age = sources[t].age
  <2>1. PICK kept \in F!Usable \union {"SUSPENDED", "ARCHIVED"} :
          F!Promoted(s)[t] = [sources[t] EXCEPT !.status = kept]
    <3>1. sources[t].status \in F!Usable \union {"SUSPENDED", "ARCHIVED"}
      BY <1>1 DEF F!SourceRow
    <3>2. QED
      BY <3>1 DEF F!Promoted, F!Usable
  <2>2. sources[t] \in F!SourceRow
    BY <1>1
  <2>3. QED
    BY <2>1, <2>2 DEF F!SourceRow
<1>3. F!Promoted(s) \in [F!Source -> F!SourceRow]
  BY <1>2 DEF F!Promoted
<1>4. QED
  BY <1>2, <1>3

LEMMA StatusStep ==
    ASSUME F!IInv, NEW s \in F!Source,
           F!Activate(s) \/ F!ChangeStatus(s, "SUSPEND") \/ F!ChangeStatus(s, "ARCHIVE")
    PROVE  F!IInv'
<1>1. /\ managing' = F!NoRequest /\ UNCHANGED <<up, policy, worker, requests, record>>
      /\ \/ sources' \in {sources, F!Promoted(s)}
         \/ \E ended \in {"ARCHIVED", "SUSPENDED"} : sources' = [sources EXCEPT ![s].status = ended]
  BY DEF F!Activate, F!ChangeStatus
<1>2. F!TypeOK /\ sources \in [F!Source -> F!SourceRow] /\ Primary \in F!Source
  BY Shapes DEF F!IInv
<1>3. /\ sources' \in [F!Source -> F!SourceRow]
      /\ sources'[Primary].healthy = sources[Primary].healthy
      /\ sources'[Primary].age = sources[Primary].age
  <2>1. CASE sources' \in {sources, F!Promoted(s)}
    BY <1>2, <2>1, PromotedRows
  <2>2. ASSUME NEW ended \in {"ARCHIVED", "SUSPENDED"}, sources' = [sources EXCEPT ![s].status = ended]
        PROVE  /\ sources' \in [F!Source -> F!SourceRow]
               /\ sources'[Primary].healthy = sources[Primary].healthy
               /\ sources'[Primary].age = sources[Primary].age
    BY <1>2, <2>2 DEF F!SourceRow
  <2>3. QED
    BY <1>1, <2>1, <2>2
<1>4. F!TypeOK'
  BY <1>1, <1>2, <1>3 DEF F!TypeOK
<1>5. F!RowsSound'
  BY <1>1, KeepsRows DEF F!IInv, F!NoRequest
<1>6. record'.managed \/ F!InStep'
  BY <1>1, <1>3, KeepsInStep DEF F!IInv, Recounted
<1>7. QED
  BY <1>4, <1>5, <1>6 DEF F!IInv

(* A request that has only read. *)
LEMMA ReadingStep ==
    ASSUME F!Configured, F!IInv, managing' \in F!Requested, UNCHANGED <<up, sources, policy, worker, record>>,
           requests' \in 0..MaxRequests, managing'.op # "WRITE"
    PROVE  F!IInv'
<1>1. F!TypeOK'
  BY DEF F!IInv, F!TypeOK
<1>2. F!RowsSound'
  BY KeepsRows DEF F!IInv
<1>3. record'.managed \/ F!InStep'
  BY KeepsInStep DEF F!IInv, Recounted
<1>4. QED
  BY <1>1, <1>2, <1>3 DEF F!IInv

LEMMA BeginRequestStep ==
    ASSUME F!Configured, F!IInv,
           \/ \E op \in {"SAVE", "SAVE_DISABLED"} : F!BeginSave(op)
           \/ \E s \in F!Source : F!BeginOverride(s)
           \/ \E s \in F!Source, op \in {"SUSPEND", "ARCHIVE"} : F!BeginStatus(s, op)
    PROVE  F!IInv'
<1>1. /\ UNCHANGED <<up, sources, policy, worker, record>>
      /\ requests < MaxRequests /\ requests' = requests + 1
  BY DEF F!BeginSave, F!BeginOverride, F!BeginStatus, F!NewRequest
<1>2. requests' \in 0..MaxRequests
  BY <1>1 DEF F!IInv, F!TypeOK, F!Configured
<1>3. managing' \in F!Requested /\ managing'.op # "WRITE"
  BY RequestKinds DEF F!BeginSave, F!BeginOverride, F!BeginStatus,
     F!SourceOp
<1>4. QED
  BY <1>1, <1>2, <1>3, ReadingStep

(* A manager's update of the row that no check stands behind, and needs    *)
(* none. *)
LEMMA ManagedRow ==
    ASSUME F!IInv, policy' \in F!PolicyRow, F!RowSound(policy'), Recounted,
           UNCHANGED <<up, sources, worker, record>>, managing' \in F!Requested \union {F!NoRequest},
           managing'.op # "WRITE" \/ UNCHANGED managing, requests' \in 0..MaxRequests
    PROVE  F!IInv'
<1>1. F!TypeOK'
  BY DEF F!IInv, F!TypeOK
<1>2. F!RowSound(policy)'
  BY DEF F!RowSound, F!Matching
<1>3. worker.at = "write" => F!RowSound(worker.row)'
  BY DEF F!IInv, F!RowsSound, F!RowSound, F!Matching
<1>4. managing'.op = "WRITE" => F!RowSound(managing.row)'
  BY DEF F!IInv, F!RowsSound, F!RowSound, F!Matching
<1>5. F!RowsSound'
  BY <1>2, <1>3, <1>4 DEF F!RowsSound
<1>6. record'.managed \/ F!InStep'
  BY KeepsInStep DEF F!IInv
<1>7. QED
  BY <1>1, <1>5, <1>6 DEF F!IInv

(* Saving and clearing reconcile without a check, and the history says so. *)
LEMMA SavedRow ==
    ASSUME F!IInv, policy' \in F!PolicyRow, F!RowSound(policy'), sources' \in [F!Source -> F!SourceRow],
           UNCHANGED <<up, worker, requests>>, managing' = F!NoRequest,
           record' = [record EXCEPT !.managed = TRUE]
    PROVE  F!IInv'
<1>1. record' \in F!Record /\ record'.managed
  BY DEF F!IInv, F!TypeOK, F!Record
<1>2. F!TypeOK'
  BY <1>1 DEF F!IInv, F!TypeOK
<1>3. F!RowSound(policy)'
  BY DEF F!RowSound, F!Matching
<1>4. worker.at = "write" => F!RowSound(worker.row)'
  BY DEF F!IInv, F!RowsSound, F!RowSound, F!Matching
<1>5. F!RowsSound'
  BY <1>3, <1>4 DEF F!RowsSound, F!NoRequest
<1>6. QED
  BY <1>1, <1>2, <1>5 DEF F!IInv

LEMMA SaveStep ==
    ASSUME F!Configured, F!IInv, F!Save
    PROVE  F!IInv'
<1>1. /\ managing' = F!NoRequest /\ UNCHANGED <<up, worker, requests>>
      /\ sources' \in {sources, F!Promoted(Primary)}
      /\ \/ policy' = F!PolicyIn("PRIMARY", Primary)
         \/ policy' = [F!PolicyIn("SCHEDULED_FALLBACK", None) EXCEPT !.enabled = FALSE]
      /\ record' = [record EXCEPT !.managed = TRUE]
  BY DEF F!Save
<1>2. sources' \in [F!Source -> F!SourceRow]
  BY <1>1, Shapes, PromotedRows DEF F!IInv
<1>3. policy' \in F!PolicyRow /\ F!RowSound(policy')
  BY <1>1, SavedPolicy
<1>4. QED
  BY <1>1, <1>2, <1>3, SavedRow

LEMMA DisableStep ==
    ASSUME F!Configured, F!IInv, F!Disable
    PROVE  F!IInv'
<1>1. /\ requests < MaxRequests /\ requests' = requests + 1
      /\ policy' = [F!PolicyIn("SCHEDULED_FALLBACK", None) EXCEPT !.enabled = FALSE]
      /\ UNCHANGED <<up, sources, worker, managing, record>>
  BY DEF F!Disable, F!NewRequest
<1>2. /\ policy' \in F!PolicyRow /\ F!RowSound(policy')
      /\ policy'.state = "SCHEDULED_FALLBACK"
  BY <1>1, SavedPolicy
<1>3. requests' \in 0..MaxRequests /\ managing' \in F!Requested \union {F!NoRequest}
  BY <1>1 DEF F!IInv, F!TypeOK, F!Configured
<1>4. QED
  BY <1>1, <1>2, <1>3, ManagedRow DEF Recounted

LEMMA OverrideStep ==
    ASSUME F!Configured, F!IInv, NEW s \in F!Source, F!Override(s)
    PROVE  F!IInv'
<1>1. /\ managing' = F!NoRequest
      /\ policy' = [F!PolicyIn("MANUAL_OVERRIDE", s) EXCEPT !.manual = s, !.left = OverrideTicks]
      /\ UNCHANGED <<up, sources, worker, requests, record>>
  BY DEF F!Override, F!Overriding
<1>2. "MANUAL_OVERRIDE" \in F!State /\ s \in F!Source \union {None} /\ s # None
  BY DEF F!State, F!Configured
<1>3. PICK row \in F!PolicyRow :
        /\ row = F!PolicyIn("MANUAL_OVERRIDE", s) /\ row.state = "MANUAL_OVERRIDE"
        /\ row.effective = s /\ row.since = None
  BY <1>2, PolicyInRow
<1>4. OverrideTicks \in 0..OverrideTicks
  BY DEF F!Configured
<1>5. PICK next \in F!PolicyRow :
        /\ next = [row EXCEPT !.manual = s, !.left = OverrideTicks]
        /\ next.state = "MANUAL_OVERRIDE" /\ next.effective = s /\ next.since = None
  <2>1. /\ [row EXCEPT !.manual = s, !.left = OverrideTicks] \in F!PolicyRow
        /\ [row EXCEPT !.manual = s, !.left = OverrideTicks].state = row.state
        /\ [row EXCEPT !.manual = s, !.left = OverrideTicks].effective = row.effective
        /\ [row EXCEPT !.manual = s, !.left = OverrideTicks].since = row.since
    BY <1>2, <1>4 DEF F!PolicyRow
  <2>2. QED
    BY <1>3, <2>1
<1>6. F!RowSound(next)
  BY <1>2, <1>5 DEF F!RowSound, F!Matching
<1>7. policy' = next
  BY <1>1, <1>3, <1>5
<1>8. managing'.op # "WRITE" /\ requests' \in 0..MaxRequests
  BY <1>1 DEF F!NoRequest, F!IInv, F!TypeOK
<1>9. policy' \in F!PolicyRow /\ F!RowSound(policy') /\ Recounted
  BY <1>5, <1>6, <1>7 DEF Recounted
<1>10. QED
  BY <1>1, <1>8, <1>9, ManagedRow

LEMMA BeginClearStep ==
    ASSUME F!Configured, F!IInv, F!BeginClear
    PROVE  F!IInv'
<1>1. /\ policy' = [policy EXCEPT !.manual = None, !.left = 0]
      /\ managing' = [op |-> "CLEAR", source |-> None]
      /\ requests < MaxRequests /\ requests' = requests + 1
      /\ UNCHANGED <<up, sources, worker, record>>
  BY DEF F!BeginClear, F!Cleared, F!NewRequest
<1>2. policy \in F!PolicyRow /\ F!RowSound(policy) /\ 0 \in 0..OverrideTicks
  BY DEF F!IInv, F!TypeOK, F!RowsSound, F!Configured
<1>3. PICK next \in F!PolicyRow :
        /\ next = [policy EXCEPT !.manual = None, !.left = 0]
        /\ next.state = policy.state /\ next.effective = policy.effective
        /\ next.since = policy.since /\ next.probes = policy.probes
        /\ next.enabled <=> policy.enabled
  <2>1. /\ [policy EXCEPT !.manual = None, !.left = 0] \in F!PolicyRow
        /\ [policy EXCEPT !.manual = None, !.left = 0].state = policy.state
        /\ [policy EXCEPT !.manual = None, !.left = 0].effective = policy.effective
        /\ [policy EXCEPT !.manual = None, !.left = 0].since = policy.since
        /\ [policy EXCEPT !.manual = None, !.left = 0].probes = policy.probes
        /\ [policy EXCEPT !.manual = None, !.left = 0].enabled <=> policy.enabled
    BY <1>2 DEF F!PolicyRow
  <2>2. QED
    BY <2>1
<1>4. F!RowSound(next)
  BY <1>2, <1>3 DEF F!RowSound, F!Matching
<1>5. policy' = next
  BY <1>1, <1>3
<1>6. policy' \in F!PolicyRow /\ F!RowSound(policy') /\ Recounted
  BY <1>3, <1>4, <1>5 DEF Recounted
<1>7. requests' \in 0..MaxRequests
  BY <1>1 DEF F!IInv, F!TypeOK, F!Configured
<1>8. managing' \in F!Requested /\ managing'.op # "WRITE"
  BY <1>1, RequestKinds
<1>9. QED
  BY <1>1, <1>6, <1>7, <1>8, ManagedRow

(* ... and then reconciles. *)
LEMMA ReadClearStep ==
    ASSUME F!Configured, F!IInv, F!ReadClear
    PROVE  F!IInv'
<1>1. /\ managing' = IF policy.enabled THEN [op |-> "WRITE", source |-> None, row |-> F!Decision]
                    ELSE F!NoRequest
      /\ UNCHANGED <<up, sources, policy, worker, requests, record>>
  BY DEF F!ReadClear
<1>2. PICK row \in F!PolicyRow : row = F!Decision /\ F!RowSound(row)
  BY DecisionRow DEF F!IInv, F!RowsSound
<1>3. /\ managing' \in F!Requested \union {F!NoRequest}
      /\ managing'.op = "WRITE" => managing'.row = row
  BY <1>1, <1>2, RequestKinds DEF F!NoRequest
<1>4. F!TypeOK'
  BY <1>1, <1>3 DEF F!IInv, F!TypeOK
<1>5. F!RowsSound'
  <2>1. F!RowSound(policy)' /\ (worker.at = "write" => F!RowSound(worker.row)')
    BY <1>1 DEF F!IInv, F!RowsSound, F!RowSound, F!Matching
  <2>2. managing'.op = "WRITE" => F!RowSound(managing.row)'
    BY <1>2, <1>3 DEF F!RowSound, F!Matching
  <2>3. QED
    BY <1>1, <2>1, <2>2 DEF F!RowsSound
<1>6. record'.managed \/ F!InStep'
  BY <1>1, KeepsInStep DEF F!IInv, Recounted
<1>7. QED
  BY <1>4, <1>5, <1>6 DEF F!IInv

LEMMA WriteClearStep ==
    ASSUME F!IInv, F!WriteClear
    PROVE  F!IInv'
<1>1. /\ managing.op = "WRITE" /\ managing' = F!NoRequest
      /\ policy' = F!Reconciled(managing.row)
      /\ record' = [record EXCEPT !.managed = TRUE]
      /\ UNCHANGED <<up, sources, worker, requests>>
  BY DEF F!WriteClear
<1>2. F!TypeOK /\ managing.row \in F!PolicyRow /\ F!RowSound(managing.row)
  BY <1>1, Shapes DEF F!IInv, F!RowsSound
<1>3. policy' \in F!PolicyRow /\ F!RowSound(policy')
  BY <1>1, <1>2, ReconciledRow
<1>4. sources' \in [F!Source -> F!SourceRow]
  BY <1>1, <1>2 DEF F!TypeOK
<1>5. QED
  BY <1>1, <1>3, <1>4, SavedRow

-----------------------------------------------------------------------------
LEMMA FailoverInvInit == F!Configured /\ F!Init => F!IInv
<1> SUFFICES ASSUME F!Configured, F!Init PROVE F!IInv
  OBVIOUS
<1>1. /\ policy \in F!PolicyRow /\ F!RowSound(policy)
  BY SavedPolicy DEF F!Init
<1>2. record \in F!Record /\ record.managed
  BY DEF F!Init, F!Record, F!Configured
<1>3. sources \in [F!Source -> F!SourceRow]
  BY DEF F!Init, F!SourceRow, F!Usable, F!Configured
<1>4. F!TypeOK
  <2>1. up \in [F!Source -> BOOLEAN] /\ managing \in F!Requested \union {F!NoRequest}
    BY DEF F!Init
  <2>2. worker \in F!Worker
    BY DEF F!Init, F!Worker
  <2>3. requests \in 0..MaxRequests
    BY DEF F!Init, F!Configured
  <2>4. QED
    BY <1>1, <1>2, <1>3, <2>1, <2>2, <2>3 DEF F!TypeOK
<1>5. F!RowsSound
  BY <1>1 DEF F!Init, F!RowsSound, F!NoRequest
<1>6. QED
  BY <1>2, <1>4, <1>5 DEF F!IInv

LEMMA FailoverInvStep ==
    ASSUME F!Configured, F!IInv, [F!Next]_(F!vars)
    PROVE  F!IInv'
<1>1. CASE F!WorkerStep
  BY <1>1, ScanStep, ReadPolicyStep, WritePolicyStep, ProbeStep DEF F!WorkerStep
<1>2. CASE F!RequestStep
  BY <1>2, SaveStep, ReadClearStep, WriteClearStep, OverrideStep, StatusStep
     DEF F!RequestStep
<1>3. CASE F!ManagerStep
  BY <1>3, DisableStep, BeginClearStep, BeginRequestStep, TestStep DEF F!ManagerStep
<1>4. CASE UNCHANGED F!vars
  <2>1. UNCHANGED <<up, sources, policy, worker, managing, requests, record>>
    BY <1>4 DEF F!vars
  <2>2. F!TypeOK'
    BY <2>1 DEF F!IInv, F!TypeOK
  <2>3. F!RowsSound'
    BY <2>1, KeepsRows DEF F!IInv
  <2>4. record'.managed \/ F!InStep'
    BY <2>1, KeepsInStep DEF F!IInv, Recounted
  <2>5. QED
    BY <2>2, <2>3, <2>4 DEF F!IInv
<1>5. QED
  BY <1>1, <1>2, <1>3, <1>4, TickStep, EnvironmentStep DEF F!Next

(* The failover invariant holds throughout, for any thresholds and hold.   *)
THEOREM FailoverInvAlways == ASSUME F!Configured PROVE F!Spec => []F!IInv
<1>1. F!Init => F!IInv
  BY FailoverInvInit
<1>2. F!IInv /\ [F!Next]_(F!vars) => F!IInv'
  BY FailoverInvStep
<1>3. QED
  BY <1>1, <1>2, PTL DEF F!Spec

(* The stored policy names the source that its state puts on air, whatever *)
(* managers and the worker have overwritten of each other.                 *)
THEOREM PolicyAlwaysSound == ASSUME F!Configured PROVE F!Spec => []F!PolicySound
<1>1. F!IInv => F!PolicySound
  BY DEF F!IInv, F!RowsSound, F!RowSound, F!PolicySound,
     F!EffectiveMatchesState
<1>2. QED
  BY <1>1, FailoverInvAlways, PTL

(* The worker puts a failed primary back on air only after the configured  *)
(* number of healthy checks and the hold, unless a manager has interfered. *)
THEOREM ReturnAlwaysEarned == ASSUME F!Configured PROVE F!Spec => F!ReturnIsEarned
<1>1. F!IInv /\ [F!Next]_(F!vars) =>
        [ (F!WritePolicy /\ policy.state # "PRIMARY" /\ policy'.state = "PRIMARY")
          => (\/ record.managed
              \/ record.checks = RecoveryThreshold /\ record.held = HoldTicks) ]_(F!vars)
  BY WritePolicyStep
<1>2. QED
  BY <1>1, FailoverInvAlways, PTL DEF F!Spec, F!ReturnIsEarned
=============================================================================
