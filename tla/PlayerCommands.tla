---------------------------- MODULE PlayerCommands ----------------------------
(***************************************************************************)
(* Enrolment, sessions and retirement of players, and the diagnostic       *)
(* commands that platform staff send them (lib/player-command-service.js,  *)
(* app/api/player/enrol, heartbeat and commands, app/api/admin/players).   *)
(*                                                                         *)
(* A request reads the player (a device by its session token) and writes   *)
(* in a later statement or transaction: staff, devices, members and the    *)
(* operations worker overlap in between.  Commands are changed by updates  *)
(* guarded on their status; enrolment and heartbeat update the player by   *)
(* its id.                                                                 *)
(***************************************************************************)
EXTENDS Integers

CONSTANTS
    Player, Command, Kind,
    Before,         \* players that are enrolled already
    Request,        \* requests that may be in progress at the same time
    Ttl,            \* PLAYER_COMMAND_TTL_MINUTES, in ticks
    MaxClock,       \* bound: the last instant
    MaxRequests,    \* bound: requests begun
    None            \* no request, no player, never

ASSUME PlayerAssumption == Before \subseteq Player
ASSUME TtlAssumption == Ttl \in Nat \ {0}
ASSUME BoundAssumption == MaxClock \in Nat /\ MaxRequests \in Nat
ASSUME NoneAssumption == None \notin Player /\ None \notin Int

VARIABLES
    clock,
    player,         \* rows of Player
    command,        \* rows of PlayerCommand
    request,        \* requests in progress
    begun,          \* bound: requests begun so far
    handed          \* history: how often a command was handed to a device

vars == <<clock, player, command, request, begun, handed>>

-----------------------------------------------------------------------------
Active == {"PENDING", "DELIVERED"}
Settled == {"ACKNOWLEDGED", "FAILED", "EXPIRED", "CANCELLED"}

NoRow == [status |-> "NONE"]
(* code: an enrolment code is open; session: there is a session token. *)
PlayerRow == [status : {"PENDING_ENROLMENT", "ONLINE", "DISABLED"}, code : BOOLEAN,
              session : BOOLEAN, retiredAt : 0..MaxClock \union {None},
              replaces : Player \union {None}]
CommandRow == [status : Active \union Settled, player : Player, kind : Kind,
               requestedAt : 0..MaxClock, expiresAt : Nat]
Known(p) == player[p] # NoRow
Sent(c) == command[c] # NoRow

(* A request: its step, its player, the instant it reckons with, and the   *)
(* command or the kind of command it is about.                             *)
Step == {"enrol", "heartbeat", "retire", "replace",
         "check", "create", "poll", "claim", "look", "acknowledge", "lapse"}
Running == [at : Step, player : Player, now : 0..MaxClock,
            about : Command \union Kind \union {None}]

ASSUME RowAssumption == None \notin Running

TypeOK ==
    /\ clock \in 0..MaxClock
    /\ player \in [Player -> PlayerRow \union {NoRow}]
    /\ command \in [Command -> CommandRow \union {NoRow}]
    /\ request \in [Request -> Running \union {None}]
    /\ begun \in 0..MaxRequests
    /\ handed \in [Command -> Nat]

Enrolled == [status |-> "ONLINE", code |-> FALSE, session |-> TRUE, retiredAt |-> None,
             replaces |-> None]
Init ==
    /\ clock = 0
    /\ player = [p \in Player |-> IF p \in Before THEN Enrolled ELSE NoRow]
    /\ command = [c \in Command |-> NoRow]
    /\ request = [q \in Request |-> None]
    /\ begun = 0 /\ handed = [c \in Command |-> 0]

-----------------------------------------------------------------------------
At(q, step) == request[q] # None /\ request[q].at = step
Start(q, step, p, about) ==
    /\ request[q] = None /\ begun < MaxRequests /\ begun' = begun + 1
    /\ request' = [request EXCEPT ![q] = [at |-> step, player |-> p, now |-> clock, about |-> about]]
    /\ UNCHANGED <<clock, player, command, handed>>
Continue(q, step, about) ==
    request' = [request EXCEPT ![q] = [@ EXCEPT !.at = step, !.about = about, !.now = clock]]
Leave(q) == request' = [request EXCEPT ![q] = None]

NewPlayer(replaced) ==
    [status |-> "PENDING_ENROLMENT", code |-> TRUE, session |-> FALSE, retiredAt |-> None,
     replaces |-> replaced]

(* A device is known by its session; a disabled player is turned away. *)
Authenticated(p) == Known(p) /\ player[p].session /\ player[p].status # "DISABLED"

(* Staff or a subscriber prepares a player and gets its enrolment code. *)
Prepare(p) ==
    /\ ~Known(p)
    /\ player' = [player EXCEPT ![p] = NewPlayer(None)]
    /\ UNCHANGED <<clock, command, request, begun, handed>>

(* The requests, up to their first read. *)
EnrolBegin(q, p) ==
    Known(p) /\ player[p].code /\ player[p].status # "DISABLED" /\ Start(q, "enrol", p, None)
HeartbeatBegin(q, p) == Authenticated(p) /\ Start(q, "heartbeat", p, None)
RetireBegin(q, p) ==
    Known(p) /\ player[p].status # "DISABLED" /\ Start(q, "retire", p, None)
ReplaceBegin(q, p) ==
    /\ Known(p) /\ player[p].status # "DISABLED"
    /\ \A n \in Player : Known(n) => player[n].replaces # p
    /\ Start(q, "replace", p, None)
SendBegin(q, p, kind) == Authenticated(p) /\ Start(q, "check", p, kind)
PollBegin(q, p) == Authenticated(p) /\ Start(q, "poll", p, None)
AcknowledgeBegin(q, p, c) ==
    Authenticated(p) /\ Sent(c) /\ command[c].player = p /\ Start(q, "look", p, c)

-----------------------------------------------------------------------------
(* The enrolment and the heartbeat update the player they have read. *)
Enrol(q) ==
    /\ At(q, "enrol") /\ Leave(q)
    /\ player' = [player EXCEPT ![request[q].player] =
            [@ EXCEPT !.status = "ONLINE", !.code = FALSE, !.session = TRUE]]
    /\ UNCHANGED <<clock, command, begun, handed>>
Heartbeat(q) ==
    /\ At(q, "heartbeat") /\ Leave(q)
    /\ player' = [player EXCEPT ![request[q].player].status = "ONLINE"]
    /\ UNCHANGED <<clock, command, begun, handed>>

Disabled(p, now) ==
    [player[p] EXCEPT !.status = "DISABLED", !.code = FALSE, !.session = FALSE, !.retiredAt = now]
(* Fault: a delivered command is left alone. *)
Cancelled_PendingOnly(p) ==
    [c \in Command |-> IF Sent(c) /\ command[c].player = p /\ command[c].status = "PENDING"
                       THEN [command[c] EXCEPT !.status = "CANCELLED"] ELSE command[c]]
Cancelled(p) ==
    [c \in Command |-> IF Sent(c) /\ command[c].player = p /\ command[c].status \in Active
                       THEN [command[c] EXCEPT !.status = "CANCELLED"] ELSE command[c]]

(* transitionPlayerLifecycle: the guarded disabling, then the commands. *)
Retire(q) ==
    LET p == request[q].player
    IN  /\ At(q, "retire") /\ Leave(q)
        /\ player[p].status # "DISABLED"
        /\ player' = [player EXCEPT ![p] = Disabled(p, request[q].now)]
        /\ command' = Cancelled(p)
        /\ UNCHANGED <<clock, begun, handed>>

(* The unique index on replacesPlayerId. *)
Replaceable(p) == \A n \in Player : Known(n) => player[n].replaces # p

Replace(q, new) ==
    LET p == request[q].player
    IN  /\ At(q, "replace") /\ Leave(q)
        /\ player[p].status # "DISABLED" /\ Replaceable(p) /\ ~Known(new)
        /\ player' = [player EXCEPT ![p] = Disabled(p, request[q].now), ![new] = NewPlayer(p)]
        /\ command' = Cancelled(p)
        /\ UNCHANGED <<clock, begun, handed>>

-----------------------------------------------------------------------------
(* Fault: only commands that wait for delivery expire. *)
Lapsed_PendingOnly(c) == Sent(c) /\ command[c].status = "PENDING" /\ command[c].expiresAt <= clock
Lapsed(c) == Sent(c) /\ command[c].status \in Active /\ command[c].expiresAt <= clock
(* expirePlayerCommands, for the commands in C. *)
Expired(C) ==
    [c \in Command |-> IF c \in C /\ Lapsed(c) THEN [command[c] EXCEPT !.status = "EXPIRED"]
                       ELSE command[c]]
(* The operations worker's scan. *)
Expire ==
    /\ \E c \in Command : Lapsed(c)
    /\ command' = Expired(Command)
    /\ UNCHANGED <<clock, player, request, begun, handed>>

SameKind(p, kind) ==
    {c \in Command : Sent(c) /\ command[c].player = p /\ command[c].kind = kind
                     /\ command[c].status \in Active}
(* Sending expires first and looks for a duplicate that is still active. *)
Check(q) ==
    /\ At(q, "check")
    /\ command' = Expired(Command)
    /\ IF \A c \in SameKind(request[q].player, request[q].about) : Lapsed(c)
       THEN Continue(q, "create", request[q].about)
       ELSE Leave(q)
    /\ UNCHANGED <<clock, player, begun, handed>>

(* The partial unique index: one active command per player and kind. *)
Unique(p, kind) == SameKind(p, kind) = {}

Create(q, c) ==
    LET r == request[q]
    IN  /\ At(q, "create") /\ ~Sent(c) /\ Leave(q)
        /\ Unique(r.player, r.about)
        /\ command' = [command EXCEPT ![c] =
                [status |-> "PENDING", player |-> r.player, kind |-> r.about,
                 requestedAt |-> clock, expiresAt |-> clock + Ttl]]
        /\ UNCHANGED <<clock, player, begun, handed>>

Cancel(c) ==
    /\ Sent(c) /\ command[c].status \in Active
    /\ command' = [command EXCEPT ![c].status = "CANCELLED"]
    /\ UNCHANGED <<clock, player, request, begun, handed>>

(* Polling expires the player's commands and finds the oldest that waits. *)
Poll(q) ==
    LET p == request[q].player
        own == {c \in Command : Sent(c) /\ command[c].player = p}
        waiting == {c \in own : command[c].status = "PENDING" /\ ~Lapsed(c)}
    IN  /\ At(q, "poll")
        /\ command' = Expired(own)
        /\ \/ \E c \in waiting :
                /\ \A d \in waiting : command[c].requestedAt <= command[d].requestedAt
                /\ Continue(q, "claim", c)
           \/ waiting = {} /\ Leave(q)
        /\ UNCHANGED <<clock, player, begun, handed>>

(* An update guarded by the status that was read and by the expiry, at the *)
(* instant at which the request reckons.                                   *)
Matches(q, status) ==
    LET c == request[q].about
    IN  command[c].status = status /\ command[c].expiresAt > request[q].now

HandOver(q) ==
    IF Matches(q, "PENDING") THEN [handed EXCEPT ![request[q].about] = @ + 1] ELSE handed
Claim(q) ==
    /\ At(q, "claim") /\ Leave(q)
    /\ command' = IF Matches(q, "PENDING")
                  THEN [command EXCEPT ![request[q].about].status = "DELIVERED"] ELSE command
    /\ handed' = HandOver(q)
    /\ UNCHANGED <<clock, player, begun>>

(* acknowledgePlayerCommand: the read and canAcknowledgePlayerCommand. *)
Look(q) ==
    LET c == request[q].about
    IN  /\ At(q, "look")
        /\ IF command[c].status # "DELIVERED" THEN Leave(q)
           ELSE Continue(q, IF command[c].expiresAt <= clock THEN "lapse" ELSE "acknowledge", c)
        /\ UNCHANGED <<clock, player, command, begun, handed>>

(* Fault: the outcome is written to the command by its id. *)
Acknowledgeable_Always(q) == Sent(request[q].about)
Acknowledgeable(q) == Matches(q, "DELIVERED")
Acknowledge(q) ==
    /\ At(q, "acknowledge") /\ Leave(q)
    /\ \E outcome \in {"ACKNOWLEDGED", "FAILED"} :
          command' = IF Acknowledgeable(q)
                     THEN [command EXCEPT ![request[q].about].status = outcome] ELSE command
    /\ UNCHANGED <<clock, player, begun, handed>>
Lapse(q) ==
    /\ At(q, "lapse") /\ Leave(q)
    /\ command' = IF command[request[q].about].status = "DELIVERED"
                  THEN [command EXCEPT ![request[q].about].status = "EXPIRED"] ELSE command
    /\ UNCHANGED <<clock, player, begun, handed>>

(* An update that matches nothing, a violated index, an error, a process   *)
(* that stops: the request ends without a change.                          *)
Abandon(q) ==
    /\ request[q] # None /\ Leave(q)
    /\ UNCHANGED <<clock, player, command, begun, handed>>

Tick ==
    /\ clock < MaxClock /\ clock' = clock + 1
    /\ UNCHANGED <<player, command, request, begun, handed>>

-----------------------------------------------------------------------------
Begin(q) ==
    \E p \in Player :
        \/ EnrolBegin(q, p) \/ HeartbeatBegin(q, p) \/ RetireBegin(q, p) \/ ReplaceBegin(q, p)
        \/ \E kind \in Kind : SendBegin(q, p, kind)
        \/ PollBegin(q, p)
        \/ \E c \in Command : AcknowledgeBegin(q, p, c)
Proceed(q) ==
    \/ Enrol(q) \/ Heartbeat(q) \/ Retire(q) \/ \E p \in Player : Replace(q, p)
    \/ Check(q) \/ \E c \in Command : Create(q, c)
    \/ Poll(q) \/ Claim(q) \/ Look(q) \/ Acknowledge(q) \/ Lapse(q) \/ Abandon(q)

Next ==
    \/ \E p \in Player : Prepare(p)
    \/ \E q \in Request : Begin(q) \/ Proceed(q)
    \/ \E c \in Command : Cancel(c)
    \/ Expire \/ Tick

(* The worker scans in every cycle and time goes on; nobody else need act. *)
Spec == Init /\ [][Next]_vars /\ WF_vars(Expire) /\ WF_vars(Tick)

-----------------------------------------------------------------------------
(* One diagnostic of a kind at a time: overlapping requests of staff that  *)
(* have both found no duplicate do not both create one.                    *)
OneActivePerKind ==
    \A p \in Player, kind \in Kind : \A c, d \in SameKind(p, kind) : c = d

(* Two polls of a player's devices never both get the same command. *)
HandedOverOnce == \A c \in Command : handed[c] <= 1

(* A retirement invalidates every command that was sent before it, also    *)
(* when the player has meanwhile been brought back by a late heartbeat or  *)
(* enrolment.                                                              *)
RetirementCancels ==
    \A c \in Command : (Sent(c) /\ command[c].status \in Active) =>
        LET at == player[command[c].player].retiredAt
        IN  at # None => command[c].requestedAt >= at

(* A player is replaced once, although a heartbeat in progress may undo    *)
(* the disabling between two requests to replace it.                       *)
ReplacedOnce ==
    \A p, n \in Player : (Known(p) /\ Known(n) /\ p # n) =>
        (player[p].replaces = None \/ player[p].replaces # player[n].replaces)

(* A command that is settled stays as it is, and only a delivered command  *)
(* is ever acknowledged, whatever the requests in progress have read.      *)
CommandLifecycle ==
    [][\A c \in Command : (Sent(c) /\ command'[c] # command[c]) =>
            /\ command[c].status \in Active
            /\ command'[c].status \in {"ACKNOWLEDGED", "FAILED"} => command[c].status = "DELIVERED"
            /\ command'[c].status = "DELIVERED" => command[c].status = "PENDING"]_vars

(* Every command is settled in the end, if only by its expiry: also when   *)
(* its player is gone or when it was sent to a player just retired.        *)
CommandsSettle ==
    \A c \in Command :
        (Sent(c) /\ command[c].status \in Active /\ command[c].expiresAt <= MaxClock)
            ~> (command[c].status \in Settled)

(* What the commands of a player and its replacement agree on in every     *)
(* state.                                                                  *)
CommandsSound == OneActivePerKind /\ HandedOverOnce /\ RetirementCancels /\ ReplacedOnce
=============================================================================
