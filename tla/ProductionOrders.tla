--------------------------- MODULE ProductionOrders ---------------------------
(***************************************************************************)
(* The production orders of one organisation and its append-only ledger of *)
(* production credits (app/api/studio/orders, app/api/studio/credits,      *)
(* lib/production-orders.mjs, lib/production-credits.mjs and               *)
(* lib/production-credit-service.js).                                      *)
(*                                                                         *)
(* A request reads the order, decides on what it has read and writes in    *)
(* one transaction: it may overlap any other.  A transaction that appends  *)
(* to the ledger holds the organisation's advisory lock until it commits,  *)
(* so a transaction is one step.  The change of status is guarded by the   *)
(* status that was read; the funding that was read is written back         *)
(* unguarded, and so is the funding of an authorised add-on.               *)
(***************************************************************************)
EXTENDS Integers, FiniteSets, FiniteSetsExt

CONSTANTS
    Order,          \* production orders
    StaffKey,       \* idempotency keys of the ledger entries made by staff
    Quantity,       \* quantities of those entries
    Request,        \* requests that may be in progress at the same time
    Nothing         \* no request in progress

ASSUME KeysAssumption == Order \cap StaffKey = {}
ASSUME QuantityAssumption == Quantity \subseteq Int \ {0}

VARIABLES
    order,          \* rows of ProductionOrder
    books,          \* the ledger: its entries and the balances after the last
    request         \* requests between their read and their transaction

vars == <<order, books, request>>

-----------------------------------------------------------------------------
Status == {"DRAFT", "SUBMITTED", "IN_PRODUCTION", "AWAITING_CUSTOMER_APPROVAL",
           "CHANGES_REQUESTED", "APPROVED", "DELIVERED", "CANCELLED"}
FundingType == {"PLAN_INCLUDED", "PAID_ADD_ON"}
FundingStatus == {"LEGACY_UNMETERED", "PENDING", "RESERVED", "CONSUMED", "RELEASED"}

(* STATUS_TRANSITIONS: the action, where it may start, where it leads. *)
Transition ==
    [ SUBMIT            |-> [from |-> {"DRAFT", "CHANGES_REQUESTED"}, to |-> "SUBMITTED"],
      START_PRODUCTION  |-> [from |-> {"SUBMITTED"}, to |-> "IN_PRODUCTION"],
      RESUME_PRODUCTION |-> [from |-> {"CHANGES_REQUESTED"}, to |-> "IN_PRODUCTION"],
      REQUEST_APPROVAL  |-> [from |-> {"IN_PRODUCTION"}, to |-> "AWAITING_CUSTOMER_APPROVAL"],
      REQUEST_CHANGES   |-> [from |-> {"AWAITING_CUSTOMER_APPROVAL"}, to |-> "CHANGES_REQUESTED"],
      APPROVE           |-> [from |-> {"AWAITING_CUSTOMER_APPROVAL"}, to |-> "APPROVED"],
      DELIVER           |-> [from |-> {"APPROVED"}, to |-> "DELIVERED"],
      CANCEL            |-> [from |-> Status \ {"APPROVED", "DELIVERED", "CANCELLED"},
                             to |-> "CANCELLED"] ]
Action == DOMAIN Transition
Op == Action \union {"AUTHORISE_PAID_ADD_ON", "FINAL_MASTER"}

(* revision: an open revision request; master: an uploaded final master. *)
Row == [status : Status, type : FundingType, funding : FundingStatus,
        revision : BOOLEAN, master : BOOLEAN]
NoRow == [status |-> "NONE"]
Exists(o) == order[o] # NoRow

EntryType == {"GRANT", "PURCHASE", "RESERVE", "CONSUME", "RELEASE", "EXPIRY", "ADJUSTMENT"}
Entry == [for : Order \union StaffKey, type : EntryType, quantity : Int]
Running == [op : Op, order : Order, seen : Row]

ASSUME NothingAssumption == Nothing \notin Running

TypeOK ==
    /\ order \in [Order -> Row \union {NoRow}]
    /\ books \in [entries : SUBSET Entry, available : Nat, reserved : Nat]
    /\ request \in [Request -> Running \union {Nothing}]

(* Orders that are older than the ledger are grandfathered. *)
Legacy == [status : Status, type : {"PLAN_INCLUDED"}, funding : {"LEGACY_UNMETERED"},
           revision : {FALSE}, master : {FALSE}]
Init ==
    /\ order \in [Order -> {NoRow} \union Legacy]
    /\ books = [entries |-> {}, available |-> 0, reserved |-> 0]
    /\ request = [q \in Request |-> Nothing]

-----------------------------------------------------------------------------
(* creditMovement: what an entry moves. *)
Movement_ReleaseLost(type, n) ==    \* Fault: a released credit is gone.
    CASE type = "RELEASE" -> [available |-> 0, reserved |-> -n]
      [] type = "RESERVE" -> [available |-> -n, reserved |-> n]
      [] type = "CONSUME" -> [available |-> 0, reserved |-> -n]
      [] type = "EXPIRY" -> [available |-> -n, reserved |-> 0]
      [] OTHER -> [available |-> n, reserved |-> 0]
Movement(type, n) ==
    CASE type \in {"GRANT", "PURCHASE", "ADJUSTMENT"} -> [available |-> n, reserved |-> 0]
      [] type = "RESERVE" -> [available |-> -n, reserved |-> n]
      [] type = "CONSUME" -> [available |-> 0, reserved |-> -n]
      [] type = "RELEASE" -> [available |-> n, reserved |-> -n]
      [] type = "EXPIRY"  -> [available |-> -n, reserved |-> 0]

(* The idempotency key of an order's entry is made of the order and the    *)
(* type of the entry, that of a staff entry is the caller's.               *)
Recorded(b, for, type) ==
    \E e \in b.entries : e.for = for /\ (for \in StaffKey \/ e.type = type)

(* appendProductionCreditEntry: an entry that is there already is returned *)
(* as it is; a new one carries the balances on.                            *)
Append(b, for, type, n) ==
    IF Recorded(b, for, type) THEN b
    ELSE [entries |-> b.entries \union {[for |-> for, type |-> type, quantity |-> n]},
          available |-> b.available + Movement(type, n).available,
          reserved |-> b.reserved + Movement(type, n).reserved]

(* nextCreditBalance rejects an entry that would make a balance negative. *)
Enough(b) == b.available >= 0 /\ b.reserved >= 0

FundingAllows(funding) == funding \in {"RESERVED", "LEGACY_UNMETERED"}

-----------------------------------------------------------------------------
(* An order is created as a draft or submitted at once; a submitted order  *)
(* of the plan reserves its credit or is not created.                      *)
Create(o, type, submitNow) ==
    LET reserves == submitNow /\ type = "PLAN_INCLUDED"
        after == IF reserves THEN Append(books, o, "RESERVE", 1) ELSE books
    IN  /\ ~Exists(o) /\ Enough(after)
        /\ order' = [order EXCEPT ![o] =
                [status |-> IF submitNow THEN "SUBMITTED" ELSE "DRAFT", type |-> type,
                 funding |-> IF reserves THEN "RESERVED" ELSE "PENDING",
                 revision |-> FALSE, master |-> FALSE]]
        /\ books' = after
        /\ UNCHANGED request

(* GRANT, EXPIRY and ADJUSTMENT by staff; a repeated key changes nothing. *)
StaffEntry(k, type, n) ==
    LET after == Append(books, k, type, n)
    IN  /\ type # "ADJUSTMENT" => n > 0
        /\ Enough(after)
        /\ books' = after
        /\ UNCHANGED <<order, request>>

(* What a request checks on the order it has read. *)
Accepts(op, row) ==
    CASE op = "AUTHORISE_PAID_ADD_ON" ->
            row.type = "PAID_ADD_ON" /\ row.funding = "PENDING" /\ row.status = "SUBMITTED"
      [] op = "FINAL_MASTER" -> row.status = "APPROVED"
      [] OTHER ->
            /\ row.status \in Transition[op].from
            /\ op \in {"START_PRODUCTION", "RESUME_PRODUCTION"} => FundingAllows(row.funding)
            /\ op = "DELIVER" => row.master /\ FundingAllows(row.funding)

Begin(q, op, o) ==
    /\ request[q] = Nothing /\ Exists(o)
    /\ Accepts(op, order[o])
    /\ request' = [request EXCEPT ![q] = [op |-> op, order |-> o, seen |-> order[o]]]
    /\ UNCHANGED <<order, books>>

Leave(q) == request' = [request EXCEPT ![q] = Nothing]

(* The ledger entry of a change of status, or NONE. *)
EntryOf(op, seen) ==
    CASE op = "SUBMIT" /\ seen.type = "PLAN_INCLUDED" /\ seen.funding = "PENDING" -> "RESERVE"
      [] op = "DELIVER" /\ seen.funding = "RESERVED" -> "CONSUME"
      [] op = "CANCEL" /\ seen.funding = "RESERVED" -> "RELEASE"
      [] OTHER -> "NONE"
(* The funding that is written: that of the entry, or what was read. *)
FundingOf(op, seen) ==
    CASE EntryOf(op, seen) = "RESERVE" -> "RESERVED"
      [] EntryOf(op, seen) = "CONSUME" -> "CONSUMED"
      [] EntryOf(op, seen) = "RELEASE" -> "RELEASED"
      [] op = "CANCEL" /\ seen.funding = "PENDING" -> "RELEASED"
      [] OTHER -> seen.funding
BooksAfter(q) ==
    LET type == EntryOf(request[q].op, request[q].seen)
    IN  IF type = "NONE" THEN books ELSE Append(books, request[q].order, type, 1)

(* Fault: the status is written whatever it is by now. *)
StillCurrent_Always(q) == order[request[q].order].status \in Status
(* The guard of the update: the status is the one that was read. *)
StillCurrent(q) == order[request[q].order].status = request[q].seen.status

(* Changes open a revision request, a new presentation resolves them. *)
Revision(op, row) ==
    CASE op = "REQUEST_CHANGES" -> TRUE
      [] op = "REQUEST_APPROVAL" -> FALSE
      [] OTHER -> row.revision

ChangeStatus(q) ==
    LET r == request[q]
        row == order[r.order]
    IN  /\ r # Nothing /\ r.op \in Action
        /\ StillCurrent(q) /\ Enough(BooksAfter(q))
        /\ order' = [order EXCEPT ![r.order] =
                [row EXCEPT !.status = Transition[r.op].to,
                            !.funding = FundingOf(r.op, r.seen),
                            !.revision = Revision(r.op, row)]]
        /\ books' = BooksAfter(q)
        /\ Leave(q)

(* ORDER_CHANGED, or not enough credits: the transaction is rolled back. *)
Refuse(q) ==
    /\ request[q] # Nothing /\ request[q].op \in Action
    /\ ~StillCurrent(q) \/ ~Enough(BooksAfter(q))
    /\ Leave(q)
    /\ UNCHANGED <<order, books>>

(* A paid add-on is purchased and reserved, and the order updated by id. *)
Authorise(q) ==
    LET r == request[q]
        after == Append(Append(books, r.order, "PURCHASE", 1), r.order, "RESERVE", 1)
    IN  /\ r # Nothing /\ r.op = "AUTHORISE_PAID_ADD_ON"
        /\ Enough(after)
        /\ books' = after
        /\ order' = [order EXCEPT ![r.order].funding = "RESERVED"]
        /\ Leave(q)

(* A final master has been stored and checked: its row is added. *)
AddMaster(q) ==
    LET r == request[q]
    IN  /\ r # Nothing /\ r.op = "FINAL_MASTER"
        /\ order' = [order EXCEPT ![r.order].master = TRUE]
        /\ Leave(q)
        /\ UNCHANGED books

(* The process stops, or the storage refuses the file. *)
Die(q) ==
    /\ request[q] # Nothing
    /\ Leave(q)
    /\ UNCHANGED <<order, books>>

Next ==
    \/ \E o \in Order, type \in FundingType, submitNow \in BOOLEAN : Create(o, type, submitNow)
    \/ \E k \in StaffKey, type \in {"GRANT", "EXPIRY", "ADJUSTMENT"}, n \in Quantity :
          StaffEntry(k, type, n)
    \/ \E q \in Request, o \in Order, op \in Op : Begin(q, op, o)
    \/ \E q \in Request : ChangeStatus(q) \/ Refuse(q) \/ Authorise(q) \/ AddMaster(q) \/ Die(q)

Spec == Init /\ [][Next]_vars

-----------------------------------------------------------------------------
Has(o, type) == Recorded(books, o, type)
(* The order holds a credit: reserved, and neither consumed nor released. *)
Holds(o) == Has(o, "RESERVE") /\ ~Has(o, "CONSUME") /\ ~Has(o, "RELEASE")

(* No credit appears or is lost: what staff granted and customers bought   *)
(* is available, reserved or consumed by a delivery, and the reserved      *)
(* balance is the number of orders that hold a credit, whatever requests   *)
(* overlap, die or are repeated.                                           *)
CreditsConserved ==
    LET Granted(e) == CASE e.type \in {"GRANT", "PURCHASE", "ADJUSTMENT"} -> e.quantity
                        [] e.type \in {"EXPIRY", "CONSUME"} -> -e.quantity
                        [] OTHER -> 0
    IN  /\ books.available + books.reserved = MapThenSumSet(Granted, books.entries)
        /\ books.reserved = Cardinality({o \in Order : Holds(o)})

(* One credit cannot be both used by the delivery and given back by the    *)
(* cancellation, nor either without having been reserved.                  *)
CreditUsedOnce ==
    \A o \in Order :
        /\ ~(Has(o, "CONSUME") /\ Has(o, "RELEASE"))
        /\ Has(o, "CONSUME") \/ Has(o, "RELEASE") => Has(o, "RESERVE")

(* The funding of an order of the plan says what the ledger says, although *)
(* it is written from what a request has read.                             *)
PlanFundingMatchesLedger ==
    \A o \in Order : (Exists(o) /\ order[o].type = "PLAN_INCLUDED") =>
        /\ order[o].funding = "RESERVED" <=> Holds(o)
        /\ order[o].funding = "CONSUMED" <=> Has(o, "CONSUME")
        /\ Has(o, "RELEASE") => order[o].funding = "RELEASED"

(* Production and delivery are paid for: from the start of production to   *)
(* its end an order holds a credit, a delivered one has consumed it; only  *)
(* grandfathered orders go without.                                        *)
ProductionIsFunded ==
    \A o \in Order : (Exists(o) /\ order[o].funding # "LEGACY_UNMETERED") =>
        /\ order[o].status \in {"IN_PRODUCTION", "AWAITING_CUSTOMER_APPROVAL",
                                "CHANGES_REQUESTED", "APPROVED"} => Holds(o)
        /\ order[o].status = "DELIVERED" => Has(o, "CONSUME") /\ order[o].master

(* Nothing the customer is shown, has approved or has been delivered       *)
(* leaves a revision request unanswered.                                   *)
RevisionsAnswered ==
    \A o \in Order : (Exists(o) /\ order[o].revision) =>
        order[o].status \notin {"AWAITING_CUSTOMER_APPROVAL", "APPROVED", "DELIVERED"}

(* A delivered or cancelled order never comes back, whichever requests     *)
(* still carry what they read before.                                      *)
ClosedIsFinal ==
    [][\A o \in Order : (Exists(o) /\ order[o].status \in {"DELIVERED", "CANCELLED"}) =>
            order'[o].status = order[o].status]_vars

(* docs/phase-4a3: "Delivery consumes the reservation. Cancellation        *)
(* releases it."                                                           *)
CancellationReleases ==
    \A o \in Order : (Exists(o) /\ order[o].status = "CANCELLED") => ~Holds(o)

(* The ledger and the orders agree in every state: a credit is used once,  *)
(* an order paid from the plan has its entry, work has its funding and a   *)
(* requested revision has its answer.                                      *)
OrdersSound == PlanFundingMatchesLedger /\ CreditUsedOnce /\ ProductionIsFunded /\ RevisionsAnswered
=============================================================================
