---------------------------- MODULE InsideOverride ----------------------------
(***************************************************************************)
(* Overrides of a private facility and the evidence that they were played  *)
(* (lib/corrections-announcements-service.js,                              *)
(* lib/corrections-delivery-service.js, app/api/player/proof-of-play,      *)
(* lib/playback-proof-drain.mjs, lib/playback-queue.mjs, app/player).      *)
(*                                                                         *)
(* Staff start and clear overrides of some areas.  The player of each area *)
(* learns of them by polling its manifest, interrupts what it plays and    *)
(* reports what it has played from a queue in the browser's storage; the   *)
(* server counts the reports.  Reports arrive late, twice, after the       *)
(* override they are about has ended, or when the area has another channel *)
(* than the one the override was planned on.                               *)
(***************************************************************************)
EXTENDS Integers, FiniteSets, Sequences, SequencesExt

CONSTANTS
    Player,         \* one player per area, so that a target is a player
    Prompt,         \* players whose steps from the manifest to the report are one
    Override,       \* overrides staff may ask for: [type, targets]
    Normal,         \* the item of the normal schedule, played once
    Channel,        \* private Inside channels, all active
    None,
    Capacity,       \* MAX_OFFLINE_PLAYBACK_EVENTS
    BatchSize,      \* events of one request
    MaxPlays,       \* bound: items begun by all players
    MaxFaults       \* bound: lost requests, lost answers, reloads, channel changes
                    \* and players away for a month

ASSUME ParametersAssumption ==
    {Capacity, BatchSize} \subseteq Nat \ {0} /\ {MaxPlays, MaxFaults} \subseteq Nat
ASSUME PlayersAssumption == Prompt \subseteq Player /\ IsFiniteSet(Player) /\ IsFiniteSet(Override)
ASSUME OverrideAssumption ==
    Override \subseteq [type : {"PRIORITY", "EMERGENCY"}, targets : (SUBSET Player) \ {{}}]
ASSUME NamesAssumption ==
    Normal # None /\ {Normal, None} \cap Override = {} /\ None \notin Channel

VARIABLES
    override,       \* rows of CorrectionsOverride, with their PlayoutIntents
    stored,         \* rows of ProofOfPlayEvent, by player and event
    made,           \* per player: its playback events, in the order they happened
    device,         \* per player: the page app/player and its local storage
    late,           \* per player: a request nobody waits for, still on its way
    passed,         \* players whose late request the server has found valid
    assigned,       \* per player: the channels its area has had, the current one last;
                    \* None is one without programme for it, or no channel
    intent,         \* per player: of the planned items the one of these channels that
                    \* is the channelId of the PlayoutIntent
    aged,           \* per player: its first events that happened over 30 days ago
    faults

areas == <<assigned, intent, aged>>
vars == <<override, stored, made, device, late, passed, areas, faults>>

-----------------------------------------------------------------------------
Ended == {"COMPLETED", "CLEARED", "SUPERSEDED", "EXPIRED"}
Item == Override \union {Normal}
Absent == [status |-> "ABSENT"]

(* due: the clock has reached expiresAt. *)
OverrideRow == [status : {"ACTIVE"} \union Ended, due : BOOLEAN]

(* The server compares the occurredAt of an event with the startedAt,      *)
(* expiresAt and endedAt of overrides, which never change once they are    *)
(* set: the answers are those of the moment the event happens.  Of an      *)
(* event of an override, overdue: after expiresAt; ended: after endedAt;   *)
(* soon: within 15 seconds of endedAt.  Of a normal one, during: an        *)
(* override of the player's area was running.                              *)
PlaybackEvent == [item : Item, type : {"STARTED", "COMPLETED", "FAILED", "INTERRUPTED"},
                  overdue : BOOLEAN, ended : BOOLEAN, soon : BOOLEAN, during : BOOLEAN]

(* manifest is the planned item as long as it is not played: what the      *)
(* device will start, or plays now.  queue and rejected hold positions in  *)
(* made; drain the parts of a batch still to be sent, the first of which   *)
(* is the request in progress; stage whether the server has found that     *)
(* request valid or refuses it.                                            *)
DeviceState == [manifest : Item \union {None}, playing : Item \union {None}, played : SUBSET Item,
                queue : SUBSET Nat, rejected : SUBSET Nat,
                drain : Seq((SUBSET Nat) \ {{}}), stage : {"idle", "checked", "bad"}]

Known(o) == override[o] # Absent
Active(o) == override[o].status = "ACTIVE"
Running(o) == Active(o) /\ ~override[o].due
Over(p) == {o \in Override : Known(o) /\ Running(o) /\ p \in o.targets}

Init ==
    /\ faults = 0
    /\ override = [o \in Override |-> Absent]
    /\ stored = [p \in Player |-> {}]
    /\ made = [p \in Player |-> <<>>]
    /\ device = [p \in Player |->
         [manifest |-> None, playing |-> None, played |-> {}, queue |-> {}, rejected |-> {},
          drain |-> <<>>, stage |-> "idle"]]
    /\ late = [p \in Player |-> {}] /\ passed = {}
    /\ assigned \in [Player -> {<<c>> : c \in Channel}]
    /\ intent = [p \in Player |-> [i \in Item |-> IF i = Normal THEN 1 ELSE 0]]
    /\ aged = [p \in Player |-> 0]

Fault == faults < MaxFaults /\ faults' = faults + 1

-----------------------------------------------------------------------------
(* Staff *)

(* Fault: a row already ended may be ended again. *)
Closed_Again(row, status) == [row EXCEPT !.status = status]
(* updateMany where status is ACTIVE, or the check under the facility's    *)
(* lock.                                                                   *)
Closed(row, status) ==
    IF row.status = "ACTIVE" THEN [row EXCEPT !.status = status] ELSE row

(* correctionsOverrideConflict. *)
Conflicts(r, o) == r.type = "EMERGENCY" \/ o.type = "PRIORITY"

(* The request key makes a second request for the same override a no-op.   *)
(* Every target needs a private channel, which its intent remembers.       *)
Start(o) ==
    LET overlapping == {r \in Override : Known(r) /\ Running(r) /\ r.targets \cap o.targets # {}}
    IN  /\ ~Known(o)
        /\ \A r \in overlapping : ~Conflicts(r, o)
        /\ \A p \in o.targets : Last(assigned[p]) # None
        /\ intent' = [p \in Player |->
             IF p \in o.targets THEN [intent[p] EXCEPT ![o] = Len(assigned[p])] ELSE intent[p]]
        /\ override' = [r \in Override |->
             IF r = o THEN [status |-> "ACTIVE", due |-> FALSE]
             ELSE IF r \in overlapping /\ o.type = "EMERGENCY" THEN Closed(override[r], "SUPERSEDED")
             ELSE override[r]]
        /\ UNCHANGED <<stored, made, device, late, passed, assigned, aged, faults>>

Clear(o) ==
    /\ Known(o) /\ Active(o)
    /\ override' = [override EXCEPT ![o] = Closed(@, "CLEARED")]
    /\ UNCHANGED <<stored, made, device, late, passed, areas, faults>>

(* The area gets another channel, perhaps one that it has had before.      *)
Reassign(p) ==
    /\ Fault
    /\ \E c \in (Channel \union {None}) \ {Last(assigned[p])} :
         assigned' = [assigned EXCEPT ![p] = Append(@, c)]
    /\ UNCHANGED <<override, stored, made, device, late, passed, intent, aged>>

-----------------------------------------------------------------------------
(* The server's view of an event *)

(* Fault: proofs of an override that has ended are refused. *)
InWindow_ActiveOnly(o, e) == ~e.overdue /\ Active(o)
(* Fault: any proof of the planned window is taken. *)
InWindow_Planned(o, e) == ~e.overdue
(* validPromoTime, and an override that is active or ended after the event *)
(* (endedProofAllowed).                                                    *)
InWindow(o, e) ==
    ~e.overdue /\ (Active(o) \/ ~e.ended \/ (e.type = "INTERRUPTED" /\ e.soon))

(* interruptedByOverride. *)
Playable(e) == e.type = "COMPLETED" => ~e.during

(* validChannel: the intent was planned on the area's current channel.     *)
OnChannel(p, item) == assigned[p][intent[p][item]] = Last(assigned[p])

(* The event at position e of what the player has made can be stored: it   *)
(* is at most MAX_EVENT_AGE_MS old, on the channel and in its time.        *)
Valid(p, e) ==
    LET event == made[p][e]
    IN  /\ e > aged[p]
        /\ OnChannel(p, event.item)
        /\ IF event.item = Normal THEN Playable(event) ELSE InWindow(event.item, event)

-----------------------------------------------------------------------------
(* The device.  Its handlers run to completion.                            *)

FirstOf(events, n) == {e \in events : Cardinality({x \in events : x < e}) < n}

(* flushPlaybackQueue: the next part of the batch is sent, or the next     *)
(* batch, and validated with what the server reads before its transaction, *)
(* now or later (ReadLater).  Then staff and players may act, until the    *)
(* transaction commits and the answer is dealt with.                       *)
Send(p, d, parts) ==
    LET next == IF parts = <<>> /\ d.queue # {} THEN <<FirstOf(d.queue, BatchSize)>> ELSE parts
    IN  device' = [device EXCEPT ![p] =
            [d EXCEPT !.drain = next,
                      !.stage = IF next = <<>> THEN "idle"
                                ELSE IF \A e \in Head(next) : Valid(p, e)' THEN "checked"
                                ELSE "bad"]]

(* appendPlaybackEvent. *)
Queued(queue, e) ==
    {x \in queue \union {e} : Cardinality({y \in queue \union {e} : y > x}) < Capacity}

(* Bound: items begun so far; every one of them has at most one end. *)
Begun ==
    Cardinality(UNION {{p} \X {e \in DOMAIN made[p] : made[p][e].type = "STARTED"} : p \in Player})

(* A playback event happens. *)
Happens(p, item, type) ==
    LET ended == item \in Override /\ ~Active(item)
    IN  \E soon \in {ended /\ type = "INTERRUPTED", FALSE} :
            made' = [made EXCEPT ![p] = Append(@,
                [item |-> item, type |-> type,
                 overdue |-> item \in Override /\ override[item].due, ended |-> ended,
                 soon |-> soon, during |-> item = Normal /\ type = "COMPLETED" /\ Over(p) # {}])]

(* The device queues it and flushes the queue, unless a flush is under     *)
(* way; d is the rest of the change.                                       *)
Note(p, item, type, d) ==
    /\ Happens(p, item, type)
    /\ LET q == [d EXCEPT !.queue = Queued(@, Len(made[p]) + 1)]
       IN  IF d.stage = "idle" THEN Send(p, q, <<>>) ELSE device' = [device EXCEPT ![p] = q]

EventsOf(p, item, types) == {e \in stored[p] : made[p][e].item = item /\ made[p][e].type \in types}
Settled(p, item) == EventsOf(p, item, {"COMPLETED", "FAILED"}) # {}

(* chooseCorrectionsOverride: an emergency first; the latest one of a type *)
(* is the only one, by OneOverridePerArea.                                 *)
Chosen(os) == CHOOSE o \in os : o.type = "EMERGENCY" \/ \A r \in os : r.type = "PRIORITY"

(* The item the server plans for a player now.  An override planned on     *)
(* another channel is not played, nor anything in its place.               *)
Programme(p) ==
    LET now == IF Over(p) # {} /\ ~Settled(p, Chosen(Over(p))) THEN Chosen(Over(p)) ELSE Normal
    IN  IF Settled(p, now) \/ ~OnChannel(p, now) THEN None ELSE now

(* reconcileExpiredCorrectionsOverrides. *)
Due(o) == Known(o) /\ Active(o) /\ override[o].due

Planned(p, item) == device[p].playing \in {item, None}

(* loadManifest: the server closes what has expired and selects; the       *)
(* device interrupts what is no longer planned.                            *)
Fetch(p) ==
    LET item == Programme(p)
        d == [device[p] EXCEPT !.manifest = IF item \in device[p].played THEN None ELSE item]
    IN  /\ override' = [o \in Override |->
             IF Due(o) THEN Closed(override[o], "EXPIRED") ELSE override[o]]
        /\ UNCHANGED <<stored, late, passed, areas, faults>>
        /\ \/ Planned(p, item) /\ device' = [device EXCEPT ![p] = d] /\ UNCHANGED made
           \/ /\ ~Planned(p, item)
              /\ Note(p, d.playing, "INTERRUPTED", [d EXCEPT !.playing = None, !.played = @ \ {d.playing}])

StartItem(p) ==
    LET item == device[p].manifest
    IN  /\ device[p].playing = None
        /\ item # None
        /\ item \in Override => ~override[item].due
        /\ Begun < MaxPlays               \* bound
        /\ UNCHANGED <<override, stored, late, passed, areas, faults>>
        /\ Note(p, item, "STARTED", [device[p] EXCEPT !.playing = item])

(* finishTrack and failTrack. *)
EndItem(p, type) ==
    /\ device[p].playing # None
    /\ UNCHANGED <<override, stored, late, passed, areas, faults>>
    /\ Note(p, device[p].playing, type,
            [device[p] EXCEPT !.manifest = None, !.playing = None, !.played = @ \union {device[p].playing}])

-----------------------------------------------------------------------------
(* The server: POST /api/player/proof-of-play *)

(* The events of a request are taken in their order.  A start always is;   *)
(* an interruption when the item was started since the last one; and one   *)
(* completion and one failure of an item.  before: what is taken already.  *)
LastOf(p, item, type, before) ==
    LET of(events) == {x \in events : made[p][x].item = item /\ made[p][x].type = type}
    IN  IF of(before) # {} THEN Max(of(before)) ELSE Max(of(stored[p]) \union {0})

Fresh(p, e, before) ==
    LET i == made[p][e].item
        t == made[p][e].type
    IN  \/ t = "STARTED"
        \/ /\ t = "INTERRUPTED"
           /\ \/ LastOf(p, i, "INTERRUPTED", before) = 0
              \/ LastOf(p, i, "STARTED", before) > LastOf(p, i, "INTERRUPTED", before)
        \/ /\ t \in {"COMPLETED", "FAILED"}
           /\ \A x \in stored[p] \union before : made[p][x].item # i \/ made[p][x].type # t

Accepted(p, part, taken) ==
    taken = {e \in part : Fresh(p, e, {x \in taken : x < e})}

(* Fault: a failure counts as well. *)
Counted_AnyEnd(o) == UNION {{p} \X EventsOf(p, o, {"COMPLETED", "FAILED"}) : p \in Player}
Counted(o) == UNION {{p} \X EventsOf(p, o, {"COMPLETED"}) : p \in Player}
Enough(o) == Cardinality(Counted(o)) >= Cardinality(o.targets)

(* The end of the transaction.  An override that was active when it was    *)
(* read before the transaction and is no longer is left alone by the       *)
(* guarded update, as is one that was not active then.                     *)
Settle(completed) ==
    override' = [o \in Override |->
        IF o \in completed /\ Enough(o)' THEN Closed(override[o], "COMPLETED") ELSE override[o]]

Record(p, part) ==
    \E taken \in SUBSET part :
        /\ Accepted(p, part, taken)
        /\ stored' = [stored EXCEPT ![p] = @ \union taken]
        /\ UNCHANGED made
        /\ Settle({o \in Override : \E e \in taken :
                      made[p][e].item = o /\ made[p][e].type = "COMPLETED"})

-----------------------------------------------------------------------------
(* The next heartbeat, or the browser is online again. *)
StartFlush(p) ==
    /\ device[p].stage = "idle" /\ device[p].queue # {}
    /\ UNCHANGED <<override, stored, made, late, passed, areas, faults>>
    /\ Send(p, device[p], <<>>)

(* The request reaches the server only now. *)
ReadLater(p) ==
    /\ device[p].stage # "idle"
    /\ UNCHANGED <<override, stored, made, late, passed, areas, faults>>
    /\ Send(p, device[p], device[p].drain)

(* Fault: the queue is emptied, not freed of the events sent. *)
Removed_All(queue, part) == {}
(* removePlaybackEvents, from the queue as it is when the answer arrives.  *)
Removed(queue, part) == queue \ part

AcceptPart(p) ==
    LET d == device[p]
    IN  /\ d.stage = "checked"
        /\ Record(p, Head(d.drain))
        /\ UNCHANGED <<late, passed, areas, faults>>
        /\ Send(p, [d EXCEPT !.queue = Removed(@, Head(d.drain))], Tail(d.drain))

(* Fault: the second half begins one event too early. *)
Halves_Overlapping(part) ==
    LET middle == Cardinality(part) \div 2
    IN  <<FirstOf(part, middle), part \ FirstOf(part, middle - 1)>>
Halves(part) ==
    LET first == FirstOf(part, Cardinality(part) \div 2) IN <<first, part \ first>>

RejectPart(p) ==
    LET d == device[p]
        part == Head(d.drain)
    IN  /\ d.stage = "bad"
        /\ UNCHANGED <<override, stored, made, late, passed, areas, faults>>
        /\ \/ /\ Cardinality(part) = 1
              /\ Send(p, [d EXCEPT !.queue = @ \ part, !.rejected = @ \union part], Tail(d.drain))
           \/ /\ Cardinality(part) > 1
              /\ Send(p, d, Halves(part) \o Tail(d.drain))

-----------------------------------------------------------------------------
(* Faults.  A request fails before the server has it, in the server, or on *)
(* its way back: the device keeps the events.  A request given up may      *)
(* still be read and served, the latest one or one given up before it.  A  *)
(* reload of the page forgets what is being played.                        *)
Stopped(d) == [d EXCEPT !.drain = <<>>, !.stage = "idle"]

(* What may still arrive of a request the device forgets.  The server      *)
(* finds it valid at once or later (ReadLate), or never.                   *)
Forgotten(p) ==
    IF device[p].stage = "idle" THEN UNCHANGED <<late, passed>>
    ELSE late' = [late EXCEPT ![p] = Head(device[p].drain)] /\ passed' = passed \ {p}

RequestFails(p) ==
    /\ Fault
    /\ device[p].stage # "idle"
    /\ device' = [device EXCEPT ![p] = Stopped(@)]
    /\ (late[p] # {} /\ UNCHANGED <<late, passed>>) \/ Forgotten(p)
    /\ UNCHANGED <<override, stored, made, areas>>

Reload(p) ==
    /\ Fault
    /\ device' = [device EXCEPT ![p] = [Stopped(@) EXCEPT !.playing = None, !.manifest = None]]
    /\ Forgotten(p)
    /\ UNCHANGED <<override, stored, made, areas>>

ReadLate(p) ==
    /\ late[p] # {}
    /\ passed' = IF \A e \in late[p] : Valid(p, e) THEN passed \union {p} ELSE passed \ {p}
    /\ UNCHANGED <<override, stored, made, device, late, areas, faults>>

ServeLate(p) ==
    /\ p \in passed
    /\ late' = [late EXCEPT ![p] = {}] /\ passed' = passed \ {p}
    /\ Record(p, late[p])
    /\ UNCHANGED <<device, areas, faults>>

(* A player that has been away for a month finds events in its queue that  *)
(* are too old.  No override lasts that long.                              *)
Ages(p) ==
    /\ Fault
    /\ \E n \in (aged[p] + 1)..Len(made[p]) :
         /\ \A e \in 1..n : made[p][e].item \in Override => override[made[p][e].item].due
         /\ aged' = [aged EXCEPT ![p] = n]
    /\ UNCHANGED <<override, stored, made, device, late, passed, assigned, intent>>

(* A player that reads the manifest, plays to the end and reports it in    *)
(* one go.                                                                 *)
PlayAtOnce(p) ==
    LET item == Programme(p)
    IN  /\ item \in Override
        /\ Happens(p, item, "COMPLETED")
        /\ stored' = [stored EXCEPT ![p] = @ \union {Len(made[p]) + 1}]
        /\ Settle({item})
        /\ UNCHANGED <<device, late, passed, areas, faults>>

(* A prompt player asks for nothing but what runs: when the time of an     *)
(* override for such players alone is over matters while it is active.     *)
WindowCloses(o) ==
    /\ Known(o) /\ ~override[o].due
    /\ o.targets \subseteq Prompt => Active(o)
    /\ override' = [override EXCEPT ![o].due = TRUE]
    /\ UNCHANGED <<stored, made, device, late, passed, areas, faults>>

-----------------------------------------------------------------------------
Next ==
    \/ \E o \in Override : Start(o) \/ Clear(o) \/ WindowCloses(o)
    \/ \E p \in Player : Reassign(p)
    \/ \E p \in Prompt : PlayAtOnce(p)
    \/ \E p \in Player \ Prompt :
         \/ Fetch(p) \/ StartItem(p) \/ EndItem(p, "COMPLETED") \/ EndItem(p, "FAILED")
         \/ StartFlush(p) \/ ReadLater(p) \/ AcceptPart(p) \/ RejectPart(p)
         \/ RequestFails(p) \/ Reload(p) \/ ReadLate(p) \/ ServeLate(p) \/ Ages(p)

Spec == Init /\ [][Next]_vars

-----------------------------------------------------------------------------
TypeOK ==
    /\ faults \in 0..MaxFaults
    /\ override \in [Override -> OverrideRow \union {Absent}]
    /\ made \in [Player -> Seq(PlaybackEvent)]
    /\ device \in [Player -> DeviceState]
    /\ stored \in [Player -> SUBSET Nat] /\ late \in [Player -> SUBSET Nat]
    /\ passed \subseteq Player \ Prompt
    /\ assigned \in [Player -> Seq(Channel \union {None})]
    /\ intent \in [Player -> [Item -> Nat]] /\ aged \in [Player -> Nat]
    /\ \A p \in Player :
         /\ \A i \in Item : i = Normal \/ (Known(i) /\ p \in i.targets) =>
              intent[p][i] \in DOMAIN assigned[p]
         /\ stored[p] \union late[p] \union device[p].queue \union device[p].rejected
              \subseteq DOMAIN made[p]
         /\ \A i \in DOMAIN device[p].drain : device[p].drain[i] \subseteq DOMAIN made[p]
         /\ device[p].stage # "idle" <=> device[p].drain # <<>>

(* No area ever has two overrides to obey. *)
OneOverridePerArea ==
    \A o, r \in Override :
        o # r /\ Known(o) /\ Known(r) /\ Running(o) /\ Running(r)
            => o.targets \cap r.targets = {}

Delivered(p, o) == EventsOf(p, o, {"COMPLETED"}) # {}

(* An override counts as completed exactly when every player it targets    *)
(* has proved a complete play, whichever proof is the last to come in.     *)
CompletedIsDelivered ==
    \A o \in Override : Known(o) =>
        /\ override[o].status = "COMPLETED" => \A p \in o.targets : Delivered(p, o)
        /\ Active(o) => \E p \in o.targets : ~Delivered(p, o)

(* What counts as played was played while the override stood, although its *)
(* proof may arrive long after the end and the device may not have heard   *)
(* of the end; and a normal item does not count as played in the midst of  *)
(* an override.                                                            *)
EvidenceInTime ==
    \A p \in Player : \A e \in stored[p] :
        made[p][e].type = "COMPLETED" =>
            ~made[p][e].overdue /\ ~made[p][e].ended /\ ~made[p][e].during

(* An event leaves the device's queue only when the server has stored it,  *)
(* when it was refused on its own, or when the queue has overflowed since. *)
(* An item may be interrupted more than once: the server takes an          *)
(* interruption for a repeated one when the start just before it has       *)
(* overflowed or was refused.                                              *)
Overflowed(p, e) == Len(made[p]) - e >= Capacity
StartMissing(p, e) ==
    /\ made[p][e].type = "INTERRUPTED"
    /\ Overflowed(p, e - 1) \/ (e - 1) \in device[p].rejected
NothingLost ==
    \A p \in Player \ Prompt : \A e \in 1..Len(made[p]) :
        \/ e \in stored[p] \union device[p].queue \union device[p].rejected
        \/ Overflowed(p, e) \/ StartMissing(p, e)

(* The proof of a complete play of an override that stood at that moment   *)
(* is refused for good only when it is a month late or the area got        *)
(* another channel after the override had begun: not because the override  *)
(* has ended since, nor because another event of its batch is refused.     *)
TrueProofKept ==
    \A p \in Player : \A e \in device[p].rejected :
        LET event == made[p][e]
        IN  event.item \in Override /\ event.type = "COMPLETED" =>
                \/ event.overdue \/ event.ended
                \/ e <= aged[p] \/ intent[p][event.item] < Len(assigned[p])

(* The way an override has ended is final, whoever ends it first. *)
EndedIsFinal ==
    [][\A o \in Override : Known(o) /\ ~Active(o) => override'[o].status = override[o].status]_vars

(* Answers that the device may still need when every part is refused until *)
(* it is a single event: one for each of the n events of a part and one    *)
(* for each of its n - 1 cuts.                                             *)
Unanswered(d) == d.queue \union UNION {d.drain[i] : i \in DOMAIN d.drain}
Work(d) == 2 * Cardinality(Unanswered(d)) - Len(d.drain)

(* Every answer, a refusal too, brings the device closer to an empty       *)
(* queue: an event the server never accepts does not hold up the others.   *)
AnswersAdvance ==
    [][\A p \in Player :
         device[p].stage # "idle" /\ device'[p].drain # device[p].drain /\ faults' = faults
             => Work(device'[p]) \in 0..(Work(device[p]) - 1)]_vars

(* Server and devices stay in the states the code foresees, with one       *)
(* override on air in each area, completed exactly when it is delivered.   *)
OverridesSound == TypeOK /\ OneOverridePerArea /\ CompletedIsDelivered
=============================================================================
