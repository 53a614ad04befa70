------------------------- MODULE PlayerCommandsProofs -------------------------
(***************************************************************************)
(* What holds of PlayerCommands for any number of players, commands and    *)
(* overlapping requests, and any time to live.                             *)
(***************************************************************************)
EXTENDS PlayerCommands, TLAPS

(* What a request has read is still there, and no instant is ahead of the  *)
(* clock.                                                                  *)
RequestOk(q) ==
    request[q] # None =>
        /\ Known(request[q].player)
        /\ request[q].now <= clock
        /\ request[q].at \in {"check", "create"} => request[q].about \in Kind
        /\ request[q].at \in {"claim", "look", "acknowledge", "lapse"} =>
               request[q].about \in Command /\ Sent(request[q].about)
ForKnown == \A c \in Command : Sent(c) => Known(command[c].player)
RetiredInPast ==
    \A p \in Player : (Known(p) /\ player[p].retiredAt # None) => player[p].retiredAt <= clock
HandedLater ==
    \A c \in Command : (~Sent(c) \/ command[c].status = "PENDING") => handed[c] = 0

IInv ==
    /\ TypeOK
    /\ \A q \in Request : RequestOk(q)
    /\ ForKnown
    /\ RetiredInPast
    /\ HandedLater
    /\ HandedOverOnce
    /\ OneActivePerKind
    /\ RetirementCancels
    /\ ReplacedOnce

-----------------------------------------------------------------------------
LEMMA RowsAreRows ==
    /\ \A r \in PlayerRow : r # NoRow
    /\ \A r \in CommandRow : r # NoRow /\ r.status # "NONE"
BY DEF PlayerRow, CommandRow, NoRow, Active, Settled

(* A command keeps its row, or its status moves along its life.            *)
Moves(c) ==
    /\ command[c].status \in Active
    /\ command'[c].status \in Settled \union {"DELIVERED"}
    /\ command'[c].status \in {"ACKNOWLEDGED", "FAILED"} => command[c].status = "DELIVERED"
    /\ command'[c].status = "DELIVERED" => command[c].status = "PENDING"
Kept(c) ==
    /\ command'[c] \in CommandRow \union {NoRow}
    /\ Sent(c) => /\ Sent(c)'
                  /\ command'[c].player = command[c].player
                  /\ command'[c].kind = command[c].kind
                  /\ command'[c].requestedAt = command[c].requestedAt
    /\ command'[c] = command[c] \/ (Sent(c) /\ Moves(c))
CommandsKept ==
    command' = [c \in Command |-> command'[c]] /\ \A c \in Command : Kept(c)

LEMMA Unmoved ==
    ASSUME TypeOK, NEW c \in Command, command'[c] = command[c]
    PROVE  Kept(c)
BY DEF TypeOK, Kept, Sent

LEMMA Written ==
    ASSUME TypeOK, NEW c \in Command, Sent(c), command[c].status \in Active,
           NEW s \in Settled \union {"DELIVERED"},
           s \in {"ACKNOWLEDGED", "FAILED"} => command[c].status = "DELIVERED",
           s = "DELIVERED" => command[c].status = "PENDING",
           command'[c] = [command[c] EXCEPT !.status = s]
    PROVE  Kept(c)
<1>1. command[c] \in CommandRow
  BY DEF TypeOK, Sent
<1>2. /\ command'[c] \in CommandRow /\ command'[c].status = s
      /\ command'[c].player = command[c].player /\ command'[c].kind = command[c].kind
      /\ command'[c].requestedAt = command[c].requestedAt
  BY <1>1 DEF CommandRow, Active
<1>3. QED
  BY <1>2, RowsAreRows DEF Kept, Moves, Sent

(* The updates of several rows. *)
LEMMA ExpiredKept ==
    ASSUME TypeOK, NEW C, command' = Expired(C)
    PROVE  CommandsKept
<1>1. ASSUME NEW c \in Command PROVE Kept(c)
  <2>1. CASE c \in C /\ Lapsed(c)
    <3>1. command'[c] = [command[c] EXCEPT !.status = "EXPIRED"]
      BY <2>1 DEF Expired
    <3>2. QED
      BY <2>1, <3>1, Written DEF Lapsed, Settled
  <2>2. CASE ~(c \in C /\ Lapsed(c))
    BY <2>2, Unmoved DEF Expired
  <2>3. QED
    BY <2>1, <2>2
<1>2. QED
  BY <1>1 DEF Expired, CommandsKept

LEMMA CancelledKept ==
    ASSUME TypeOK, NEW p, command' = Cancelled(p)
    PROVE  /\ CommandsKept
           /\ \A c \in Command :
                (Sent(c)' /\ command'[c].status \in Active) => command'[c].player # p
<1>1. ASSUME NEW c \in Command
      PROVE  Kept(c) /\ ((Sent(c)' /\ command'[c].status \in Active) => command'[c].player # p)
  <2>1. CASE Sent(c) /\ command[c].player = p /\ command[c].status \in Active
    <3>1. command'[c] = [command[c] EXCEPT !.status = "CANCELLED"]
      BY <2>1 DEF Cancelled
    <3>2. Kept(c)
      BY <2>1, <3>1, Written DEF Settled
    <3>3. command'[c].status = "CANCELLED"
      BY <2>1, <3>1 DEF TypeOK, Sent, CommandRow
    <3>4. QED
      BY <3>2, <3>3 DEF Active
  <2>2. CASE ~(Sent(c) /\ command[c].player = p /\ command[c].status \in Active)
    BY <2>2, Unmoved DEF Cancelled, Sent
  <2>3. QED
    BY <2>1, <2>2
<1>2. QED
  BY <1>1 DEF Cancelled, CommandsKept

LEMMA OneWritten ==
    ASSUME TypeOK, NEW c \in Command, Sent(c), command[c].status \in Active,
           NEW s \in Settled \union {"DELIVERED"},
           s \in {"ACKNOWLEDGED", "FAILED"} => command[c].status = "DELIVERED",
           s = "DELIVERED" => command[c].status = "PENDING",
           command' = [command EXCEPT ![c].status = s]
    PROVE  CommandsKept
<1>1. /\ command' = [d \in Command |-> command'[d]]
      /\ command'[c] = [command[c] EXCEPT !.status = s]
      /\ \A d \in Command : d # c => command'[d] = command[d]
  BY DEF TypeOK
<1>2. QED
  BY <1>1, Written, Unmoved DEF CommandsKept

LEMMA NoneWritten ==
    ASSUME TypeOK, UNCHANGED command
    PROVE  CommandsKept
BY Unmoved DEF CommandsKept, TypeOK

-----------------------------------------------------------------------------
(* What holds after commands were kept, players have stayed and the clock  *)
(* has not gone back.                                                      *)
PlayersStay ==
    \A p \in Player : Known(p) =>
        /\ Known(p)'
        /\ player'[p].retiredAt = player[p].retiredAt
        /\ player'[p].replaces = player[p].replaces

LEMMA KeptRequest ==
    ASSUME IInv, CommandsKept, \A p \in Player : Known(p) => Known(p)', clock <= clock',
           clock' \in Nat, NEW q \in Request, request'[q] = request[q] \/ request'[q] = None
    PROVE  RequestOk(q)'
<1>1. CASE request'[q] = None
  BY <1>1 DEF RequestOk
<1>2. CASE request'[q] = request[q] /\ request[q] # None
  <2>1. /\ request[q].player \in Player /\ request[q].now \in 0..MaxClock /\ clock \in 0..MaxClock
        /\ RequestOk(q)
    BY <1>2 DEF IInv, TypeOK, Running
  <2>2. request[q].now <= clock'
    BY <1>2, <2>1, BoundAssumption DEF RequestOk
  <2>3. QED
    BY <1>2, <2>1, <2>2 DEF RequestOk, CommandsKept, Kept
<1>3. QED
  BY <1>1, <1>2

LEMMA KeptType ==
    ASSUME TypeOK, CommandsKept
    PROVE  command' \in [Command -> CommandRow \union {NoRow}]
BY DEF CommandsKept, Kept

LEMMA KeptHanded ==
    ASSUME IInv, CommandsKept, UNCHANGED handed
    PROVE  HandedLater' /\ HandedOverOnce'
<1>1. \A c \in Command :
        (~Sent(c)' \/ command'[c].status = "PENDING") => (~Sent(c) \/ command[c].status = "PENDING")
  BY DEF CommandsKept, Kept, Moves, Settled, Sent
<1>2. QED
  BY <1>1 DEF IInv, HandedLater, HandedOverOnce

LEMMA KeptActive ==
    ASSUME CommandsKept, NEW c \in Command, Sent(c)', command'[c].status \in Active
    PROVE  /\ Sent(c) /\ command[c].status \in Active
           /\ command'[c].player = command[c].player
           /\ command'[c].kind = command[c].kind
           /\ command'[c].requestedAt = command[c].requestedAt
BY DEF CommandsKept, Kept, Moves, Sent

LEMMA KeptOne ==
    ASSUME OneActivePerKind, CommandsKept
    PROVE  OneActivePerKind'
BY KeptActive DEF OneActivePerKind, SameKind

LEMMA KeptForKnown ==
    ASSUME IInv, CommandsKept, \A p \in Player : Known(p) => Known(p)'
    PROVE  ForKnown'
<1>1. ASSUME NEW c \in Command, Sent(c)' PROVE Known(command[c].player)'
  <2>1. Sent(c) /\ command'[c].player = command[c].player /\ command[c].player \in Player
    BY <1>1 DEF CommandsKept, Kept, Sent, IInv, TypeOK, CommandRow
  <2>2. QED
    BY <2>1 DEF IInv, ForKnown, Known
<1>2. QED
  BY <1>1 DEF ForKnown

LEMMA KeptRetirement ==
    ASSUME IInv, CommandsKept, PlayersStay
    PROVE  RetirementCancels'
<1>1. ASSUME NEW c \in Command, Sent(c)', command'[c].status \in Active
      PROVE  player'[command'[c].player].retiredAt # None =>
                 command'[c].requestedAt >= player'[command'[c].player].retiredAt
  <2>1. /\ Sent(c) /\ command[c].status \in Active
        /\ command'[c].player = command[c].player
        /\ command'[c].requestedAt = command[c].requestedAt
    BY <1>1, KeptActive
  <2>2. command[c].player \in Player /\ Known(command[c].player)
    BY <2>1 DEF IInv, ForKnown, TypeOK, CommandRow, Sent
  <2>3. QED
    BY <2>1, <2>2 DEF IInv, RetirementCancels, PlayersStay
<1>2. QED
  BY <1>1 DEF RetirementCancels

(* Players who stay, with one more, not yet retired, and replacing nobody. *)
LEMMA SamePlayers ==
    ASSUME IInv, UNCHANGED player
    PROVE  PlayersStay /\ ReplacedOnce' /\ (UNCHANGED clock => RetiredInPast')
BY DEF IInv, PlayersStay, ReplacedOnce, RetiredInPast, Known

LEMMA OneRequest ==
    ASSUME IInv, CommandsKept, \A p \in Player : Known(p) => Known(p)', UNCHANGED clock,
           NEW q \in Request, NEW r \in Running \union {None},
           request' = [request EXCEPT ![q] = r], RequestOk(q)'
    PROVE  request' \in [Request -> Running \union {None}] /\ \A p \in Request : RequestOk(p)'
<1>1. request' \in [Request -> Running \union {None}]
  BY DEF IInv, TypeOK
<1>2. ASSUME NEW p \in Request, p # q PROVE RequestOk(p)'
  <2>1. request'[p] = request[p] /\ clock <= clock' /\ clock' \in Nat
    BY <1>2, BoundAssumption DEF IInv, TypeOK
  <2>2. QED
    BY <2>1, KeptRequest
<1>3. QED
  BY <1>1, <1>2

LEMMA Ended ==
    ASSUME IInv, NEW q \in Request, Leave(q)
    PROVE  request' = [request EXCEPT ![q] = None] /\ RequestOk(q)'
BY DEF Leave, IInv, TypeOK, RequestOk

LEMMA LeaveRequests ==
    ASSUME IInv, CommandsKept, \A p \in Player : Known(p) => Known(p)', UNCHANGED clock,
           NEW q \in Request, Leave(q)
    PROVE  request' \in [Request -> Running \union {None}] /\ \A p \in Request : RequestOk(p)'
<1>1. request' = [request EXCEPT ![q] = None] /\ RequestOk(q)'
  BY Ended
<1>2. None \in Running \union {None}
  OBVIOUS
<1> HIDE DEF Running
<1>3. QED
  BY <1>1, <1>2, OneRequest

(* Steps that change no player and not the clock. *)
LEMMA CommandStep ==
    ASSUME IInv, CommandsKept, UNCHANGED <<clock, player>>,
           request' \in [Request -> Running \union {None}], \A q \in Request : RequestOk(q)',
           begun' \in 0..MaxRequests,
           handed' \in [Command -> Nat], HandedLater', HandedOverOnce'
    PROVE  IInv'
<1>1. /\ command' \in [Command -> CommandRow \union {NoRow}]
      /\ OneActivePerKind'
      /\ PlayersStay /\ ReplacedOnce' /\ RetiredInPast'
  BY KeptType, KeptOne, SamePlayers DEF IInv
<1>2. ForKnown' /\ RetirementCancels'
  BY <1>1, KeptForKnown, KeptRetirement DEF PlayersStay
<1>3. TypeOK'
  BY <1>1 DEF IInv, TypeOK
<1>4. QED
  BY <1>1, <1>2, <1>3 DEF IInv

(* Those that hand nothing over. *)
LEMMA QuietStep ==
    ASSUME IInv, CommandsKept, UNCHANGED <<clock, player, handed>>, begun' \in 0..MaxRequests,
           \/ UNCHANGED request
           \/ \E q \in Request, r \in Running \union {None} :
                request' = [request EXCEPT ![q] = r] /\ RequestOk(q)'
    PROVE  IInv'
<1>1. \A p \in Player : Known(p) => Known(p)'
  BY DEF Known
<1>2. request' \in [Request -> Running \union {None}] /\ \A q \in Request : RequestOk(q)'
  <2>1. CASE UNCHANGED request
    <3>1. clock <= clock' /\ clock' \in Nat
      BY BoundAssumption DEF IInv, TypeOK
    <3>2. \A q \in Request : RequestOk(q)'
      BY <1>1, <2>1, <3>1, KeptRequest
    <3>3. QED
      BY <2>1, <3>2 DEF IInv, TypeOK
  <2>2. CASE \E q \in Request, r \in Running \union {None} :
               request' = [request EXCEPT ![q] = r] /\ RequestOk(q)'
    BY <1>1, <2>2, OneRequest
  <2>3. QED
    BY <2>1, <2>2
<1>3. HandedLater' /\ HandedOverOnce' /\ handed' \in [Command -> Nat]
  BY KeptHanded DEF IInv, TypeOK
<1>4. QED
  BY <1>2, <1>3, CommandStep

LEMMA BeginStep ==
    ASSUME IInv, NEW q \in Request, Begin(q)
    PROVE  IInv'
<1>1. TypeOK /\ clock \in 0..MaxClock /\ begun \in 0..MaxRequests
  BY DEF IInv, TypeOK
<1>2. ASSUME NEW p \in Player, Known(p), NEW step \in Step,
             NEW about \in Command \union Kind \union {None}, Start(q, step, p, about),
             step \notin {"create", "claim", "acknowledge", "lapse"},
             step = "check" => about \in Kind,
             step = "look" => about \in Command /\ Sent(about)
      PROVE  IInv'
  <2> DEFINE r == [at |-> step, player |-> p, now |-> clock, about |-> about]
  <2>1. /\ r \in Running /\ r.at = step /\ r.player = p /\ r.now = clock /\ r.about = about
        /\ request' = [request EXCEPT ![q] = r]
        /\ UNCHANGED <<clock, player, command, handed>>
    BY <1>1, <1>2 DEF Running, Start
  <2> HIDE DEF r
  <2>2. request'[q] = r
    BY <1>1, <2>1 DEF TypeOK
  <2>3. clock <= clock
    BY <1>1
  <2>4. RequestOk(q)'
    BY <1>2, <2>1, <2>2, <2>3 DEF RequestOk, Known, Sent
  <2>5. begun' \in 0..MaxRequests
    BY <1>1, <1>2, BoundAssumption DEF Start
  <2>6. CommandsKept
    BY <1>1, <2>1, NoneWritten
  <2>7. QED
    BY <2>1, <2>4, <2>5, <2>6, QuietStep
<1>3. PICK p \in Player :
        \/ EnrolBegin(q, p) \/ HeartbeatBegin(q, p) \/ RetireBegin(q, p) \/ ReplaceBegin(q, p)
        \/ \E kind \in Kind : SendBegin(q, p, kind)
        \/ PollBegin(q, p)
        \/ \E c \in Command : AcknowledgeBegin(q, p, c)
  BY DEF Begin
<1>4. CASE EnrolBegin(q, p)
  BY <1>2, <1>4 DEF EnrolBegin, Step
<1>5. CASE HeartbeatBegin(q, p)
  BY <1>2, <1>5 DEF HeartbeatBegin, Authenticated, Step
<1>6. CASE RetireBegin(q, p)
  BY <1>2, <1>6 DEF RetireBegin, Step
<1>7. CASE ReplaceBegin(q, p)
  BY <1>2, <1>7 DEF ReplaceBegin, Step
<1>8. CASE \E kind \in Kind : SendBegin(q, p, kind)
  BY <1>2, <1>8 DEF SendBegin, Authenticated, Step
<1>9. CASE PollBegin(q, p)
  BY <1>2, <1>9 DEF PollBegin, Authenticated, Step
<1>10. CASE \E c \in Command : AcknowledgeBegin(q, p, c)
  BY <1>2, <1>10 DEF AcknowledgeBegin, Authenticated, Step
<1>11. QED
  BY <1>3, <1>4, <1>5, <1>6, <1>7, <1>8, <1>9, <1>10

(* What a request goes on with. *)
LEMMA ContinueOk ==
    ASSUME IInv, NEW q \in Request, request[q] # None, NEW step \in Step,
           NEW about \in Command \union Kind \union {None},
           Continue(q, step, about), UNCHANGED <<clock, player>>, CommandsKept,
           step \in {"check", "create"} => about \in Kind,
           step \in {"claim", "look", "acknowledge", "lapse"} => about \in Command /\ Sent(about)
    PROVE  \E r \in Running \union {None} : request' = [request EXCEPT ![q] = r] /\ RequestOk(q)'
<1> DEFINE r == [request[q] EXCEPT !.at = step, !.about = about, !.now = clock]
<1>1. request[q] \in Running /\ clock \in 0..MaxClock /\ clock <= clock
  BY DEF IInv, TypeOK
<1>2. /\ r \in Running /\ r.at = step /\ r.player = request[q].player /\ r.now = clock
      /\ r.about = about
  BY <1>1 DEF Running
<1>3. request' = [request EXCEPT ![q] = r]
  BY DEF Continue
<1> HIDE DEF r
<1>4. request'[q] = r
  BY <1>3 DEF IInv, TypeOK
<1>5. Known(request[q].player)
  BY DEF IInv, RequestOk
<1>6. about \in Command /\ Sent(about) => Sent(about)'
  BY DEF CommandsKept, Kept
<1>7. RequestOk(q)'
  BY <1>1, <1>2, <1>4, <1>5, <1>6 DEF RequestOk, Known
<1>8. QED
  BY <1>2, <1>3, <1>7

LEMMA LeaveOk ==
    ASSUME IInv, NEW q \in Request, Leave(q)
    PROVE  \E r \in Running \union {None} : request' = [request EXCEPT ![q] = r] /\ RequestOk(q)'
BY Ended

LEMMA CommandOnlyStep ==
    ASSUME IInv,
           \/ Expire \/ \E c \in Command : Cancel(c)
           \/ \E q \in Request : Check(q) \/ Poll(q) \/ Look(q) \/ Acknowledge(q) \/ Lapse(q)
                                 \/ Abandon(q)
    PROVE  CommandsKept /\ IInv'
<1>1. TypeOK /\ begun \in 0..MaxRequests
  BY DEF IInv, TypeOK
<1>2. CASE Expire
  <2>1. CommandsKept
    BY <1>1, <1>2, ExpiredKept DEF Expire
  <2>2. QED
    BY <1>1, <1>2, <2>1, QuietStep DEF Expire
<1>3. ASSUME NEW c \in Command, Cancel(c) PROVE CommandsKept /\ IInv'
  <2>1. CommandsKept
    BY <1>1, <1>3, OneWritten DEF Cancel, Settled
  <2>2. QED
    BY <1>1, <1>3, <2>1, QuietStep DEF Cancel
<1>4. ASSUME NEW q \in Request, Check(q) PROVE CommandsKept /\ IInv'
  <2>1. CommandsKept
    BY <1>1, <1>4, ExpiredKept DEF Check
  <2>2. request[q] # None /\ request[q].about \in Kind /\ "create" \in Step
    BY <1>4 DEF Check, At, IInv, RequestOk, Step
  <2>3. \E r \in Running \union {None} : request' = [request EXCEPT ![q] = r] /\ RequestOk(q)'
    BY <1>4, <2>1, <2>2, ContinueOk, LeaveOk DEF Check
  <2>4. QED
    BY <1>1, <1>4, <2>1, <2>3, QuietStep DEF Check
<1>5. ASSUME NEW q \in Request, Poll(q) PROVE CommandsKept /\ IInv'
  <2>1. CommandsKept
    BY <1>1, <1>5, ExpiredKept DEF Poll
  <2>2. request[q] # None /\ "claim" \in Step
    BY <1>5 DEF Poll, At, Step
  <2>3. Leave(q) \/ \E c \in Command : Sent(c) /\ Continue(q, "claim", c)
    BY <1>5 DEF Poll
  <2>4. \E r \in Running \union {None} : request' = [request EXCEPT ![q] = r] /\ RequestOk(q)'
    BY <1>5, <2>1, <2>2, <2>3, ContinueOk, LeaveOk DEF Poll
  <2>5. QED
    BY <1>1, <1>5, <2>1, <2>4, QuietStep DEF Poll
<1>6. ASSUME NEW q \in Request, Look(q) PROVE CommandsKept /\ IInv'
  <2>1. CommandsKept
    BY <1>1, <1>6, NoneWritten DEF Look
  <2>2. /\ request[q] # None /\ request[q].about \in Command /\ Sent(request[q].about)
        /\ "lapse" \in Step /\ "acknowledge" \in Step
    BY <1>6 DEF Look, At, IInv, RequestOk, Step
  <2>3. \/ Leave(q) \/ Continue(q, "lapse", request[q].about)
        \/ Continue(q, "acknowledge", request[q].about)
    BY <1>6 DEF Look
  <2>4. \E r \in Running \union {None} : request' = [request EXCEPT ![q] = r] /\ RequestOk(q)'
    BY <1>6, <2>1, <2>2, <2>3, ContinueOk, LeaveOk DEF Look
  <2>5. QED
    BY <1>1, <1>6, <2>1, <2>4, QuietStep DEF Look
<1>7. ASSUME NEW q \in Request, Acknowledge(q) \/ Lapse(q) PROVE CommandsKept /\ IInv'
  <2>1. request[q].about \in Command /\ Sent(request[q].about)
    BY <1>7 DEF Acknowledge, Lapse, At, IInv, RequestOk
  <2>2. \/ UNCHANGED command
        \/ /\ command[request[q].about].status = "DELIVERED"
           /\ \E s \in {"ACKNOWLEDGED", "FAILED", "EXPIRED"} :
                command' = [command EXCEPT ![request[q].about].status = s]
    BY <1>7 DEF Acknowledge, Lapse, Acknowledgeable, Matches
  <2>3. CommandsKept
    BY <1>1, <2>1, <2>2, NoneWritten, OneWritten DEF Active, Settled
  <2>4. QED
    BY <1>1, <1>7, <2>3, QuietStep, LeaveOk DEF Acknowledge, Lapse
<1>8. ASSUME NEW q \in Request, Abandon(q) PROVE CommandsKept /\ IInv'
  <2>1. CommandsKept
    BY <1>1, <1>8, NoneWritten DEF Abandon
  <2>2. QED
    BY <1>1, <1>8, <2>1, QuietStep, LeaveOk DEF Abandon
<1>9. QED
  BY <1>2, <1>3, <1>4, <1>5, <1>6, <1>7, <1>8

(* The claim and the answer to the device are one step. *)
LEMMA ClaimStep ==
    ASSUME IInv, NEW q \in Request, Claim(q)
    PROVE  CommandsKept /\ IInv'
<1>1. PICK c \in Command : c = request[q].about /\ Sent(c) /\ TypeOK
  BY DEF Claim, At, IInv, RequestOk
<1>2. /\ UNCHANGED <<clock, player, begun>> /\ Leave(q)
      /\ command' = IF Matches(q, "PENDING") THEN [command EXCEPT ![c].status = "DELIVERED"]
                    ELSE command
      /\ handed' = IF Matches(q, "PENDING") THEN [handed EXCEPT ![c] = @ + 1] ELSE handed
  BY <1>1 DEF Claim, HandOver
<1>3. Matches(q, "PENDING") => command[c].status = "PENDING"
  BY <1>1 DEF Matches
<1>4. CommandsKept
  BY <1>1, <1>2, <1>3, NoneWritten, OneWritten DEF Active, Settled
<1>5. handed' \in [Command -> Nat] /\ HandedLater' /\ HandedOverOnce'
  <2>1. CASE ~Matches(q, "PENDING")
    BY <1>2, <1>4, <2>1, KeptHanded DEF IInv, TypeOK
  <2>2. CASE Matches(q, "PENDING")
    <3>1. handed[c] = 0 /\ handed \in [Command -> Nat]
      BY <1>1, <1>3, <2>2 DEF IInv, HandedLater, TypeOK
    <3>2. /\ handed' = [handed EXCEPT ![c] = 1]
          /\ command' = [command EXCEPT ![c].status = "DELIVERED"]
      BY <1>2, <2>2, <3>1
    <3>3. command[c] \in CommandRow
      BY <1>1 DEF TypeOK, Sent
    <3>4. Sent(c)' /\ command'[c].status = "DELIVERED"
      <4>1. command'[c] = [command[c] EXCEPT !.status = "DELIVERED"]
        BY <1>1, <3>2 DEF TypeOK
      <4>2. command'[c].status = "DELIVERED"
        BY <3>3, <4>1 DEF CommandRow
      <4>3. QED
        BY <1>1, <1>4, <4>2 DEF CommandsKept, Kept
    <3>5. \A d \in Command : d # c => command'[d] = command[d] /\ handed'[d] = handed[d]
      BY <1>1, <3>1, <3>2 DEF TypeOK
    <3>6. HandedLater'
      <4>1. ASSUME NEW d \in Command, ~Sent(d)' \/ command'[d].status = "PENDING"
            PROVE  handed'[d] = 0
        <5>1. d # c
          BY <3>4, <4>1
        <5>2. ~Sent(d) \/ command[d].status = "PENDING"
          BY <3>5, <4>1, <5>1 DEF Sent
        <5>3. QED
          BY <3>5, <5>1, <5>2 DEF IInv, HandedLater
      <4>2. QED
        BY <4>1 DEF HandedLater
    <3>7. HandedOverOnce'
      BY <1>1, <3>1, <3>2, <3>5 DEF IInv, HandedOverOnce
    <3>8. QED
      BY <3>1, <3>2, <3>6, <3>7
  <2>3. QED
    BY <2>1, <2>2
<1>6. \A p \in Player : Known(p) => Known(p)'
  BY <1>2 DEF Known
<1>7. request' \in [Request -> Running \union {None}] /\ \A p \in Request : RequestOk(p)'
  BY <1>2, <1>4, <1>6, LeaveRequests
<1>8. QED
  BY <1>2, <1>4, <1>5, <1>7, CommandStep DEF IInv, TypeOK

LEMMA CreateStep ==
    ASSUME IInv, NEW q \in Request, NEW c \in Command, Create(q, c)
    PROVE  /\ IInv'
           /\ ~Sent(c) /\ \A d \in Command : d # c => command'[d] = command[d]
<1> DEFINE r == request[q]
           row == [status |-> "PENDING", player |-> r.player, kind |-> r.about,
                   requestedAt |-> clock, expiresAt |-> clock + Ttl]
<1>1. TypeOK /\ clock \in 0..MaxClock /\ ~Sent(c) /\ RequestOk(q)
  BY DEF IInv, TypeOK, Create
<1>2. r.player \in Player /\ Known(r.player) /\ r.about \in Kind
  BY <1>1 DEF Create, At, RequestOk, TypeOK, Running
<1>3. clock + Ttl \in Nat
  BY <1>1, TtlAssumption, BoundAssumption
<1>4. /\ row \in CommandRow /\ row.status = "PENDING" /\ row.player = r.player
      /\ row.kind = r.about /\ row.requestedAt = clock
  BY <1>1, <1>2, <1>3 DEF CommandRow, Active
<1>5. /\ command' = [command EXCEPT ![c] = row] /\ Unique(r.player, r.about) /\ Leave(q)
      /\ UNCHANGED <<clock, player, begun, handed>>
  BY DEF Create
<1> HIDE DEF row, r
<1>6. command'[c] = row /\ \A d \in Command : d # c => command'[d] = command[d]
  BY <1>1, <1>5 DEF TypeOK
<1>7. Sent(c)' /\ \A d \in Command : Sent(d) => Sent(d)'
  BY <1>4, <1>6, RowsAreRows DEF Sent
<1>8. request' \in [Request -> Running \union {None}] /\ \A p \in Request : RequestOk(p)'
  <2>1. request' = [request EXCEPT ![q] = None]
    BY <1>5 DEF Leave
  <2>2. \A p \in Request : request'[p] = request[p] \/ request'[p] = None
    BY <1>1, <2>1 DEF TypeOK
  <2>3. QED
    BY <1>1, <1>5, <1>7, <2>1, <2>2 DEF IInv, TypeOK, RequestOk, Known
<1>9. TypeOK'
  BY <1>1, <1>4, <1>5, <1>8 DEF TypeOK
<1>10. ForKnown'
  BY <1>2, <1>4, <1>5, <1>6 DEF IInv, ForKnown, Sent, Known
<1>11. HandedLater' /\ HandedOverOnce'
  BY <1>1, <1>5, <1>6 DEF IInv, HandedLater, HandedOverOnce, Sent
<1>12. OneActivePerKind'
  <2>1. SUFFICES ASSUME NEW p \in Player, NEW kind \in Kind,
                        NEW d \in SameKind(p, kind)', NEW e \in SameKind(p, kind)'
                 PROVE  d = e
    BY DEF OneActivePerKind
  <2>2. \A x \in SameKind(p, kind)' : x \in SameKind(p, kind) \/ (x = c /\ p = r.player /\ kind = r.about)
    BY <1>4, <1>6 DEF SameKind, Sent
  <2>3. p = r.player /\ kind = r.about => SameKind(p, kind) = {}
    BY <1>5 DEF Unique
  <2>4. QED
    BY <2>1, <2>2, <2>3 DEF IInv, OneActivePerKind
<1>13. RetirementCancels'
  <2>1. ASSUME NEW d \in Command, Sent(d)', command'[d].status \in Active
        PROVE  player'[command'[d].player].retiredAt # None =>
                   command'[d].requestedAt >= player'[command'[d].player].retiredAt
    <3>1. CASE d = c
      BY <1>2, <1>4, <1>5, <1>6, <3>1 DEF IInv, RetiredInPast
    <3>2. CASE d # c
      BY <1>5, <1>6, <2>1, <3>2 DEF IInv, RetirementCancels, Sent
    <3>3. QED
      BY <3>1, <3>2
  <2>2. QED
    BY <2>1 DEF RetirementCancels
<1>14. RetiredInPast' /\ ReplacedOnce'
  BY <1>5, SamePlayers
<1>15. QED
  BY <1>1, <1>6, <1>8, <1>9, <1>10, <1>11, <1>12, <1>13, <1>14 DEF IInv

-----------------------------------------------------------------------------
LEMMA NewPlayerType ==
    ASSUME NEW p \in Player \union {None}
    PROVE  /\ NewPlayer(p) \in PlayerRow
           /\ NewPlayer(p).retiredAt = None /\ NewPlayer(p).replaces = p
BY DEF NewPlayer, PlayerRow

(* Steps that change a player, or add one, without retiring any.           *)
LEMMA PlayerStep ==
    ASSUME IInv, UNCHANGED <<clock, command, begun, handed>>, PlayersStay,
           player' \in [Player -> PlayerRow \union {NoRow}],
           \A p \in Player : (Known(p)' /\ ~Known(p)) =>
               player'[p].retiredAt = None /\ player'[p].replaces = None,
           UNCHANGED request \/ \E q \in Request : Leave(q)
    PROVE  IInv'
<1>1. TypeOK /\ CommandsKept /\ clock \in 0..MaxClock /\ \A p \in Player : Known(p) => Known(p)'
  BY NoneWritten DEF IInv, TypeOK, PlayersStay
<1>2. request' \in [Request -> Running \union {None}] /\ \A q \in Request : RequestOk(q)'
  <2>1. CASE UNCHANGED request
    <3>1. clock <= clock' /\ clock' \in Nat
      BY <1>1, BoundAssumption
    <3>2. \A q \in Request : RequestOk(q)'
      BY <1>1, <2>1, <3>1, KeptRequest
    <3>3. QED
      BY <1>1, <2>1, <3>2 DEF TypeOK
  <2>2. CASE \E q \in Request : Leave(q)
    BY <1>1, <2>2, LeaveRequests
  <2>3. QED
    BY <2>1, <2>2
<1>3. /\ HandedLater' /\ HandedOverOnce' /\ OneActivePerKind' /\ ForKnown' /\ RetirementCancels'
  BY <1>1, KeptHanded, KeptOne, KeptForKnown, KeptRetirement DEF IInv
<1>4. RetiredInPast'
  BY DEF IInv, RetiredInPast, PlayersStay
<1>5. ReplacedOnce'
  BY DEF IInv, ReplacedOnce, PlayersStay
<1>6. TypeOK'
  BY <1>1, <1>2 DEF TypeOK
<1>7. QED
  BY <1>2, <1>3, <1>4, <1>5, <1>6 DEF IInv

LEMMA PlayerOnlyStep ==
    ASSUME IInv,
           \/ \E p \in Player : Prepare(p)
           \/ \E q \in Request : Enrol(q) \/ Heartbeat(q)
    PROVE  UNCHANGED command /\ IInv'
<1>1. player \in [Player -> PlayerRow \union {NoRow}]
  BY DEF IInv, TypeOK
<1>2. ASSUME NEW p \in Player, Prepare(p) PROVE UNCHANGED command /\ IInv'
  <2>1. /\ player' = [player EXCEPT ![p] = NewPlayer(None)] /\ ~Known(p)
        /\ UNCHANGED <<clock, command, request, begun, handed>>
    BY <1>2 DEF Prepare
  <2>2. player' \in [Player -> PlayerRow \union {NoRow}] /\ PlayersStay
    BY <1>1, <2>1, NewPlayerType DEF PlayersStay, Known
  <2>3. \A r \in Player : (Known(r)' /\ ~Known(r)) =>
            player'[r].retiredAt = None /\ player'[r].replaces = None
    BY <1>1, <2>1, NewPlayerType DEF Known
  <2>4. QED
    BY <2>1, <2>2, <2>3, PlayerStep
<1>3. ASSUME NEW q \in Request, Enrol(q) \/ Heartbeat(q) PROVE UNCHANGED command /\ IInv'
  <2>1. PICK p \in Player : p = request[q].player /\ Known(p)
    BY <1>3 DEF Enrol, Heartbeat, At, IInv, TypeOK, Running, RequestOk
  <2>2. PICK row :
          /\ player' = [player EXCEPT ![p] = row]
          /\ \/ row = [player[p] EXCEPT !.status = "ONLINE", !.code = FALSE, !.session = TRUE]
             \/ row = [player[p] EXCEPT !.status = "ONLINE"]
    BY <1>3, <2>1 DEF Enrol, Heartbeat
  <2>3. /\ row \in PlayerRow /\ row.retiredAt = player[p].retiredAt
        /\ row.replaces = player[p].replaces
    <3>1. player[p] \in PlayerRow
      BY <1>1, <2>1 DEF Known
    <3>2. QED
      BY <2>2, <3>1 DEF PlayerRow
  <2>4. player' \in [Player -> PlayerRow \union {NoRow}] /\ PlayersStay
    BY <1>1, <2>2, <2>3, RowsAreRows DEF PlayersStay, Known
  <2>5. \A r \in Player : Known(r)' => Known(r)
    BY <1>1, <2>1, <2>2 DEF Known
  <2>6. /\ UNCHANGED <<clock, command, begun, handed>> /\ Leave(q)
    BY <1>3 DEF Enrol, Heartbeat
  <2>7. QED
    BY <2>4, <2>5, <2>6, PlayerStep
<1>4. QED
  BY <1>2, <1>3

LEMMA DisabledType ==
    ASSUME TypeOK, NEW p \in Player, Known(p), NEW now \in 0..MaxClock
    PROVE  /\ Disabled(p, now) \in PlayerRow
           /\ Disabled(p, now).retiredAt = now
           /\ Disabled(p, now).replaces = player[p].replaces
<1>1. player[p] \in PlayerRow
  BY DEF TypeOK, Known
<1>2. QED
  BY <1>1 DEF Disabled, PlayerRow

(* A player is retired, and perhaps replaced by a new one.                 *)
LEMMA RetiringStep ==
    ASSUME IInv, NEW q \in Request, NEW p \in Player, NEW now \in 0..MaxClock, now <= clock,
           Known(p), player'[p] = Disabled(p, now),
           player' \in [Player -> PlayerRow \union {NoRow}],
           \A r \in Player \ {p} :
               \/ player'[r] = player[r]
               \/ ~Known(r) /\ player'[r] = NewPlayer(p) /\ Replaceable(p),
           \A r, s \in Player \ {p} :
               (player'[r] # player[r] /\ player'[s] # player[s]) => r = s,
           command' = Cancelled(p), Leave(q), UNCHANGED <<clock, begun, handed>>
    PROVE  IInv'
<1>1. TypeOK /\ clock \in 0..MaxClock
  BY DEF IInv, TypeOK
<1>2. /\ Disabled(p, now) \in PlayerRow /\ Disabled(p, now).retiredAt = now
      /\ Disabled(p, now).replaces = player[p].replaces
  BY <1>1, DisabledType
<1>3. /\ NewPlayer(p) \in PlayerRow
      /\ NewPlayer(p).retiredAt = None /\ NewPlayer(p).replaces = p
  BY NewPlayerType
<1>4. /\ CommandsKept
      /\ \A c \in Command : (Sent(c)' /\ command'[c].status \in Active) => command'[c].player # p
  BY <1>1, CancelledKept
<1>5. \A r \in Player : Known(r) => Known(r)'
  BY <1>2, <1>3, RowsAreRows DEF Known
<1>6. request' \in [Request -> Running \union {None}] /\ \A r \in Request : RequestOk(r)'
  BY <1>4, <1>5, LeaveRequests
<1>7. HandedLater' /\ HandedOverOnce' /\ OneActivePerKind' /\ ForKnown'
  BY <1>4, <1>5, KeptHanded, KeptOne, KeptForKnown DEF IInv
<1>8. RetiredInPast'
  BY <1>2, <1>3 DEF IInv, RetiredInPast, Known
<1>9. RetirementCancels'
  <2>1. ASSUME NEW c \in Command, Sent(c)', command'[c].status \in Active
        PROVE  player'[command'[c].player].retiredAt # None =>
                   command'[c].requestedAt >= player'[command'[c].player].retiredAt
    <3>1. /\ Sent(c) /\ command[c].status \in Active
          /\ command'[c].player = command[c].player
          /\ command'[c].requestedAt = command[c].requestedAt
      BY <1>4, <2>1, KeptActive
    <3>2. command[c].player \in Player \ {p} /\ Known(command[c].player)
      BY <1>1, <1>4, <2>1, <3>1 DEF IInv, ForKnown, TypeOK, CommandRow, Sent
    <3>3. player'[command[c].player] = player[command[c].player]
      BY <3>2
    <3>4. QED
      BY <3>1, <3>2, <3>3 DEF IInv, RetirementCancels
  <2>2. QED
    BY <2>1 DEF RetirementCancels
<1>10. ReplacedOnce'
  <2>1. ASSUME NEW r \in Player, NEW s \in Player, Known(r)', Known(s)', r # s
        PROVE  player'[r].replaces = None \/ player'[r].replaces # player'[s].replaces
    <3>1. \A x \in Player : Known(x)' =>
            \/ Known(x) /\ player'[x].replaces = player[x].replaces
            \/ /\ ~Known(x) /\ player'[x].replaces = p /\ Replaceable(p)
               /\ player'[x] # player[x] /\ x # p
      BY <1>2, <1>3, RowsAreRows DEF Known
    <3>2. CASE Known(r) /\ Known(s)
      BY <2>1, <3>1, <3>2 DEF IInv, ReplacedOnce
    <3>3. CASE Known(r) /\ ~Known(s)
      BY <2>1, <3>1, <3>3 DEF Replaceable
    <3>4. CASE ~Known(r) /\ Known(s)
      BY <2>1, <3>1, <3>4 DEF Replaceable
    <3>5. CASE ~Known(r) /\ ~Known(s)
      BY <2>1, <3>1, <3>5
    <3>6. QED
      BY <3>2, <3>3, <3>4, <3>5
  <2>2. QED
    BY <2>1 DEF ReplacedOnce
<1>11. TypeOK'
  BY <1>1, <1>4, <1>6, KeptType DEF TypeOK
<1>12. QED
  BY <1>6, <1>7, <1>8, <1>9, <1>10, <1>11 DEF IInv

LEMMA LifecycleStep ==
    ASSUME IInv, NEW q \in Request, Retire(q) \/ \E new \in Player : Replace(q, new)
    PROVE  CommandsKept /\ IInv'
<1>1. TypeOK /\ player \in [Player -> PlayerRow \union {NoRow}]
  BY DEF IInv, TypeOK
<1>2. PICK p \in Player :
        p = request[q].player /\ Known(p) /\ request[q].now \in 0..MaxClock /\ request[q].now <= clock
  BY DEF Retire, Replace, At, IInv, TypeOK, Running, RequestOk
<1>3. PICK now \in 0..MaxClock : now = request[q].now /\ now <= clock
  BY <1>2
<1>4. Disabled(p, now) \in PlayerRow
  BY <1>1, <1>2, DisabledType
<1>5. command' = Cancelled(p) /\ Leave(q) /\ UNCHANGED <<clock, begun, handed>>
  BY <1>2 DEF Retire, Replace
<1>6. CommandsKept
  BY <1>1, <1>5, CancelledKept
<1>7. CASE Retire(q)
  <2>1. player' = [player EXCEPT ![p] = Disabled(p, now)]
    BY <1>2, <1>3, <1>7 DEF Retire
  <2>2. /\ player' \in [Player -> PlayerRow \union {NoRow}] /\ player'[p] = Disabled(p, now)
        /\ \A r \in Player \ {p} : player'[r] = player[r]
    BY <1>1, <1>4, <2>1
  <2>3. QED
    BY <1>2, <1>3, <1>5, <1>6, <2>2, RetiringStep
<1>8. ASSUME NEW new \in Player, Replace(q, new) PROVE CommandsKept /\ IInv'
  <2>1. /\ player' = [player EXCEPT ![p] = Disabled(p, now), ![new] = NewPlayer(p)]
        /\ Replaceable(p) /\ ~Known(new)
    BY <1>2, <1>3, <1>8 DEF Replace
  <2>2. new # p /\ NewPlayer(p) \in PlayerRow
    BY <1>2, <2>1, NewPlayerType
  <2>3. /\ player' \in [Player -> PlayerRow \union {NoRow}] /\ player'[p] = Disabled(p, now)
        /\ player'[new] = NewPlayer(p)
        /\ \A r \in Player \ {p, new} : player'[r] = player[r]
    BY <1>1, <1>4, <2>1, <2>2
  <2>4. \A r \in Player \ {p} :
          \/ player'[r] = player[r]
          \/ ~Known(r) /\ player'[r] = NewPlayer(p) /\ Replaceable(p)
    BY <2>1, <2>3
  <2>5. \A r, s \in Player \ {p} : (player'[r] # player[r] /\ player'[s] # player[s]) => r = s
    BY <2>3
  <2>6. QED
    BY <1>2, <1>3, <1>5, <1>6, <2>3, <2>4, <2>5, RetiringStep
<1>9. QED
  BY <1>7, <1>8

-----------------------------------------------------------------------------
LEMMA InvInit == Init => IInv
<1> SUFFICES ASSUME Init PROVE IInv
  OBVIOUS
<1>1. Enrolled \in PlayerRow /\ Enrolled.retiredAt = None /\ Enrolled.replaces = None
  BY DEF Enrolled, PlayerRow
<1>2. player \in [Player -> PlayerRow \union {NoRow}]
  BY <1>1 DEF Init
<1>3. \A p \in Player : Known(p) => player[p].retiredAt = None /\ player[p].replaces = None
  BY <1>1 DEF Init, Known
<1>4. TypeOK
  BY <1>2, BoundAssumption DEF Init, TypeOK
<1>5. QED
  BY <1>3, <1>4 DEF Init, IInv, RequestOk, ForKnown, RetiredInPast, HandedLater, HandedOverOnce,
     OneActivePerKind, RetirementCancels, ReplacedOnce, Sent, SameKind

LEMMA TickStep ==
    ASSUME IInv, Tick \/ UNCHANGED vars
    PROVE  UNCHANGED command /\ IInv'
<1>1. /\ clock' \in 0..MaxClock /\ clock <= clock' /\ clock \in 0..MaxClock
      /\ UNCHANGED <<player, command, request, begun, handed>>
  BY BoundAssumption DEF IInv, TypeOK, Tick, vars
<1>2. CommandsKept /\ clock' \in Nat /\ \A p \in Player : Known(p) => Known(p)'
  BY <1>1, NoneWritten, BoundAssumption DEF IInv, Known
<1>3. \A q \in Request : RequestOk(q)'
  BY <1>1, <1>2, KeptRequest
<1>4. PlayersStay /\ ReplacedOnce'
  BY <1>1, SamePlayers
<1>5. HandedLater' /\ HandedOverOnce' /\ OneActivePerKind' /\ ForKnown' /\ RetirementCancels'
  BY <1>1, <1>2, <1>4, KeptHanded, KeptOne, KeptForKnown, KeptRetirement DEF IInv
<1>6. RetiredInPast'
  <2>1. \A p \in Player : (Known(p) /\ player[p].retiredAt # None) => player[p].retiredAt \in 0..MaxClock
    BY DEF IInv, TypeOK, Known, PlayerRow
  <2>2. QED
    BY <1>1, <2>1, BoundAssumption DEF IInv, RetiredInPast, Known
<1>7. TypeOK'
  BY <1>1 DEF IInv, TypeOK
<1>8. QED
  BY <1>1, <1>3, <1>4, <1>5, <1>6, <1>7 DEF IInv

Lifecycle ==
    \A c \in Command : (Sent(c) /\ command'[c] # command[c]) =>
        /\ command[c].status \in Active
        /\ command'[c].status \in {"ACKNOWLEDGED", "FAILED"} => command[c].status = "DELIVERED"
        /\ command'[c].status = "DELIVERED" => command[c].status = "PENDING"

LEMMA KeptLifecycle ==
    ASSUME CommandsKept
    PROVE  Lifecycle
BY DEF CommandsKept, Kept, Moves, Lifecycle

LEMMA StepEffect ==
    ASSUME IInv, [Next]_vars
    PROVE  IInv' /\ Lifecycle
<1>1. ASSUME NEW q \in Request, Begin(q) PROVE IInv' /\ Lifecycle
  <2>1. UNCHANGED command
    BY <1>1 DEF Begin, EnrolBegin, HeartbeatBegin, RetireBegin, ReplaceBegin, SendBegin, PollBegin,
                AcknowledgeBegin, Start
  <2>2. QED
    BY <1>1, <2>1, BeginStep DEF Lifecycle
<1>2. ASSUME NEW q \in Request, Proceed(q) PROVE IInv' /\ Lifecycle
  <2>1. CASE Enrol(q) \/ Heartbeat(q)
    BY <2>1, PlayerOnlyStep DEF Lifecycle
  <2>2. CASE Retire(q) \/ \E p \in Player : Replace(q, p)
    BY <2>2, LifecycleStep, KeptLifecycle
  <2>3. CASE Check(q) \/ Poll(q) \/ Look(q) \/ Acknowledge(q) \/ Lapse(q) \/ Abandon(q)
    BY <2>3, CommandOnlyStep, KeptLifecycle
  <2>4. CASE Claim(q)
    BY <2>4, ClaimStep, KeptLifecycle
  <2>5. ASSUME NEW c \in Command, Create(q, c) PROVE IInv' /\ Lifecycle
    BY <2>5, CreateStep DEF Lifecycle
  <2>6. QED
    BY <1>2, <2>1, <2>2, <2>3, <2>4, <2>5 DEF Proceed
<1>3. ASSUME NEW p \in Player, Prepare(p) PROVE IInv' /\ Lifecycle
  BY <1>3, PlayerOnlyStep DEF Lifecycle
<1>4. CASE Expire \/ \E c \in Command : Cancel(c)
  BY <1>4, CommandOnlyStep, KeptLifecycle
<1>5. CASE Tick \/ UNCHANGED vars
  BY <1>5, TickStep DEF Lifecycle
<1>6. QED
  BY <1>1, <1>2, <1>3, <1>4, <1>5 DEF Next

(* What requests have read is still there, and everything below. *)
THEOREM InvAlways == Spec => []IInv
<1>1. IInv /\ [Next]_vars => IInv'
  BY StepEffect
<1>2. QED
  BY <1>1, InvInit, PTL DEF Spec

(* Every reachable state is well typed. *)
THEOREM CommandsTypeCorrect == Spec => []TypeOK
<1>1. IInv => TypeOK
  BY DEF IInv
<1>2. QED
  BY <1>1, InvAlways, PTL

(* Overlapping requests of staff never create two active commands of a     *)
(* kind for a player.                                                      *)
THEOREM OneActiveCommand == Spec => []OneActivePerKind
<1>1. IInv => OneActivePerKind
  BY DEF IInv
<1>2. QED
  BY <1>1, InvAlways, PTL

(* Overlapping polls never both get the same command.                      *)
THEOREM CommandHandedOnce == Spec => []HandedOverOnce
<1>1. IInv => HandedOverOnce
  BY DEF IInv
<1>2. QED
  BY <1>1, InvAlways, PTL

(* No command sent before its player was retired is still active, whoever  *)
(* brings the player back.                                                 *)
THEOREM RetirementAlwaysCancels == Spec => []RetirementCancels
<1>1. IInv => RetirementCancels
  BY DEF IInv
<1>2. QED
  BY <1>1, InvAlways, PTL

(* No player is replaced twice. *)
THEOREM AlwaysReplacedOnce == Spec => []ReplacedOnce
<1>1. IInv => ReplacedOnce
  BY DEF IInv
<1>2. QED
  BY <1>1, InvAlways, PTL

(* A settled command never changes; only a delivered one is acknowledged.  *)
THEOREM CommandsFollowLifecycle == Spec => CommandLifecycle
<1>1. IInv /\ [Next]_vars => [Lifecycle]_vars
  BY StepEffect
<1>2. QED
  BY <1>1, InvAlways, PTL DEF Spec, CommandLifecycle, Lifecycle

(* What the commands of a player and its replacement agree on, for any     *)
(* players, commands and requests.                                         *)
THEOREM CommandsAlwaysSound == Spec => []CommandsSound
<1>1. IInv => CommandsSound
  BY DEF IInv, CommandsSound
<1>2. QED
  BY <1>1, InvAlways, PTL
=============================================================================
