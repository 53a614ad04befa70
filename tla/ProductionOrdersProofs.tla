------------------------ MODULE ProductionOrdersProofs ------------------------
(***************************************************************************)
(* What holds of ProductionOrders for any number of orders, keys and       *)
(* overlapping requests, and any quantities.                               *)
(***************************************************************************)
EXTENDS ProductionOrders, WellFoundedInduction, FiniteSetTheorems, TLAPS

InProduction == {"SUBMITTED", "IN_PRODUCTION", "AWAITING_CUSTOMER_APPROVAL",
                 "CHANGES_REQUESTED", "APPROVED"}

(* Of an order of the plan the status alone tells the funding, unless the  *)
(* order is grandfathered: what a request has read is therefore still true *)
(* when it finds the same status.                                          *)
FundingFitsStatus(row) ==
    row.type = "PLAN_INCLUDED" =>
        \/ row.funding = "LEGACY_UNMETERED"
        \/ row.status = "DRAFT" /\ row.funding = "PENDING"
        \/ row.status \in InProduction /\ row.funding = "RESERVED"
        \/ row.status = "DELIVERED" /\ row.funding = "CONSUMED"
        \/ row.status = "CANCELLED" /\ row.funding = "RELEASED"

(* The ledger of an order. *)
NoEntries(o) == ~Has(o, "RESERVE") /\ ~Has(o, "CONSUME") /\ ~Has(o, "RELEASE")
LedgerFits(o) ==
    LET row == order[o] IN
    IF ~Exists(o) THEN NoEntries(o) ELSE
    /\ FundingFitsStatus(row)
    /\ row.funding = "LEGACY_UNMETERED" => row.type = "PLAN_INCLUDED" /\ NoEntries(o)
    /\ Has(o, "CONSUME") => row.status = "DELIVERED" /\ Has(o, "RESERVE")
    /\ Has(o, "RELEASE") => row.status = "CANCELLED" /\ Has(o, "RESERVE")
    /\ row.type = "PLAN_INCLUDED" =>
           /\ row.funding = "PENDING" => NoEntries(o)
           /\ (row.funding = "RELEASED" /\ Has(o, "RESERVE")) => Has(o, "RELEASE")
    /\ row.funding = "RESERVED" => Has(o, "RESERVE")
    /\ (row.status \in InProduction \ {"SUBMITTED"} /\ row.funding # "LEGACY_UNMETERED")
           => Has(o, "RESERVE")
    /\ (row.status = "DELIVERED" /\ row.funding # "LEGACY_UNMETERED")
           => Has(o, "CONSUME") /\ row.master

(* What a request has read of its order. *)
SeenFits(q) ==
    LET r == request[q] IN
    r # Nothing =>
        /\ Exists(r.order)
        /\ Accepts(r.op, r.seen)
        /\ FundingFitsStatus(r.seen)
        /\ r.seen.type = order[r.order].type
        /\ r.seen.funding = "LEGACY_UNMETERED" <=> order[r.order].funding = "LEGACY_UNMETERED"
        /\ r.seen.funding = "RESERVED" => Has(r.order, "RESERVE")
        /\ r.seen.master => order[r.order].master

IInv ==
    /\ TypeOK
    /\ \A o \in Order : LedgerFits(o)
    /\ \A q \in Request : SeenFits(q)
    /\ RevisionsAnswered

-----------------------------------------------------------------------------
LEMMA RowIsNotNoRow == \A r \in Row : r # NoRow
BY DEF Row, NoRow, Status

(* STATUS_TRANSITIONS, spelled out. *)
LEMMA Moves ==
    ASSUME NEW op \in Action, NEW s, s \in Transition[op].from
    PROVE  \/ op = "SUBMIT" /\ s \in {"DRAFT", "CHANGES_REQUESTED"} /\ Transition[op].to = "SUBMITTED"
           \/ op = "START_PRODUCTION" /\ s = "SUBMITTED" /\ Transition[op].to = "IN_PRODUCTION"
           \/ op = "RESUME_PRODUCTION" /\ s = "CHANGES_REQUESTED" /\ Transition[op].to = "IN_PRODUCTION"
           \/ op = "REQUEST_APPROVAL" /\ s = "IN_PRODUCTION"
              /\ Transition[op].to = "AWAITING_CUSTOMER_APPROVAL"
           \/ op = "REQUEST_CHANGES" /\ s = "AWAITING_CUSTOMER_APPROVAL"
              /\ Transition[op].to = "CHANGES_REQUESTED"
           \/ op = "APPROVE" /\ s = "AWAITING_CUSTOMER_APPROVAL" /\ Transition[op].to = "APPROVED"
           \/ op = "DELIVER" /\ s = "APPROVED" /\ Transition[op].to = "DELIVERED"
           \/ op = "CANCEL" /\ s \in Status \ {"APPROVED", "DELIVERED", "CANCELLED"}
              /\ Transition[op].to = "CANCELLED"
BY DEF Action, Transition

-----------------------------------------------------------------------------
(* The ledger after an entry: the order's entry is there, no other order   *)
(* has gained one.                                                         *)
Books == [entries : SUBSET Entry, available : Int, reserved : Int]

LEMMA OrderRecorded ==
    ASSUME NEW b, NEW o \in Order, NEW type
    PROVE  Recorded(b, o, type) <=> \E e \in b.entries : e.for = o /\ e.type = type
BY KeysAssumption DEF Recorded

LEMMA MovementType ==
    ASSUME NEW type \in EntryType, NEW n \in Int
    PROVE  Movement(type, n).available \in Int /\ Movement(type, n).reserved \in Int
BY DEF Movement, EntryType

LEMMA AppendType ==
    ASSUME NEW b \in Books, NEW for \in Order \union StaffKey, NEW type \in EntryType, NEW n \in Int
    PROVE  Append(b, for, type, n) \in Books
<1>1. CASE Recorded(b, for, type)
  BY <1>1 DEF Append
<1>2. CASE ~Recorded(b, for, type)
  <2> DEFINE m == Movement(type, n)
             e == [for |-> for, type |-> type, quantity |-> n]
  <2>1. m.available \in Int /\ m.reserved \in Int
    BY MovementType
  <2>2. e \in Entry
    BY DEF Entry
  <2>3. Append(b, for, type, n) =
            [entries |-> b.entries \union {e}, available |-> b.available + m.available,
             reserved |-> b.reserved + m.reserved]
    BY <1>2 DEF Append
  <2> HIDE DEF m, e
  <2>4. QED
    BY <2>1, <2>2, <2>3 DEF Books
<1>3. QED
  BY <1>1, <1>2

LEMMA AppendRecorded ==
    ASSUME NEW b \in Books, NEW for \in Order \union StaffKey, NEW type, NEW n
    PROVE  /\ \A o \in Order : \A t : Recorded(b, o, t) => Recorded(Append(b, for, type, n), o, t)
           /\ \A o \in Order : \A t : Recorded(Append(b, for, type, n), o, t) =>
                  Recorded(b, o, t) \/ (o = for /\ t = type)
           /\ for \in Order => Recorded(Append(b, for, type, n), for, type)
<1>1. CASE Recorded(b, for, type)
  BY <1>1 DEF Append
<1>2. CASE ~Recorded(b, for, type)
  <2> DEFINE e == [for |-> for, type |-> type, quantity |-> n]
             a == Append(b, for, type, n)
  <2>1. a.entries = b.entries \union {e} /\ e.for = for /\ e.type = type
    BY <1>2 DEF Append
  <2> HIDE DEF a, e
  <2>2. \A o \in Order : \A t : Recorded(a, o, t) <=> \E x \in a.entries : x.for = o /\ x.type = t
    BY OrderRecorded
  <2>3. \A o \in Order : \A t : Recorded(b, o, t) <=> \E x \in b.entries : x.for = o /\ x.type = t
    BY OrderRecorded
  <2>4. QED
    BY <2>1, <2>2, <2>3 DEF a
<1>3. QED
  BY <1>1, <1>2

LEMMA BooksType ==
    ASSUME TypeOK
    PROVE  books \in Books
BY DEF TypeOK, Books

(* What other orders and the requests about them see of a step on one      *)
(* order: nothing.                                                         *)
SameLedger(o) ==
    \A t \in {"RESERVE", "CONSUME", "RELEASE"} : Has(o, t)' <=> Has(o, t)

LEMMA OthersFit ==
    ASSUME NEW o \in Order, LedgerFits(o), order'[o] = order[o], SameLedger(o)
    PROVE  LedgerFits(o)'
BY DEF LedgerFits, SameLedger, Exists, NoEntries, FundingFitsStatus

(* An order on which requests may have what they read: it stays, with its  *)
(* type and its master, and is not (un)grandfathered.                      *)
Stays(o) ==
    Exists(o) =>
        /\ Exists(o)'
        /\ order'[o].type = order[o].type
        /\ order'[o].funding = "LEGACY_UNMETERED" <=> order[o].funding = "LEGACY_UNMETERED"
        /\ order[o].master => order'[o].master

LEMMA SeenStays ==
    ASSUME NEW q \in Request, SeenFits(q), request'[q] = request[q], request[q].order \in Order,
           Stays(request[q].order),
           Has(request[q].order, "RESERVE") => Has(request[q].order, "RESERVE")'
    PROVE  SeenFits(q)'
BY DEF SeenFits, Stays, Exists, FundingFitsStatus, Accepts

LEMMA AllSeenStay ==
    ASSUME IInv, \A o \in Order : Stays(o),
           \A o \in Order : Has(o, "RESERVE") => Has(o, "RESERVE")',
           \A q \in Request : request'[q] = request[q] \/ request'[q] = Nothing
    PROVE  \A q \in Request : SeenFits(q)'
<1>1. ASSUME NEW q \in Request PROVE SeenFits(q)'
  <2>1. CASE request'[q] = Nothing
    BY <2>1 DEF SeenFits
  <2>2. CASE request'[q] = request[q] /\ request[q] # Nothing
    <3>1. request[q].order \in Order
      BY <2>2 DEF IInv, TypeOK, Running
    <3>2. QED
      BY <2>2, <3>1, SeenStays DEF IInv
  <2>3. QED
    BY <2>1, <2>2
<1>2. QED
  BY <1>1

(* A step on one order that ends a request or none. *)
LEMMA OrderStep ==
    ASSUME IInv, NEW o \in Order, NEW row \in Row, order' = [order EXCEPT ![o] = row],
           books' \in Books, Enough(books'),
           LedgerFits(o)', Stays(o),
           \A p \in Order : p # o => SameLedger(p),
           Has(o, "RESERVE") => Has(o, "RESERVE")',
           row.revision => row.status \notin {"AWAITING_CUSTOMER_APPROVAL", "APPROVED", "DELIVERED"},
           UNCHANGED request \/ \E q \in Request : Leave(q)
    PROVE  IInv'
<1>1. TypeOK
  BY DEF IInv
<1>2. /\ order'[o] = row /\ \A p \in Order : p # o => order'[p] = order[p]
      /\ order' \in [Order -> Row \union {NoRow}]
  BY <1>1 DEF TypeOK
<1>3. /\ request' \in [Request -> Running \union {Nothing}]
      /\ \A q \in Request : request'[q] = request[q] \/ request'[q] = Nothing
  BY <1>1 DEF TypeOK, Leave
<1>4. books' \in [entries : SUBSET Entry, available : Nat, reserved : Nat]
  BY DEF Books, Enough
<1>5. \A p \in Order : LedgerFits(p)'
  BY <1>2, OthersFit DEF IInv
<1>6. \A p \in Order : Stays(p) /\ (Has(p, "RESERVE") => Has(p, "RESERVE")')
  BY <1>2 DEF Stays, Exists, SameLedger
<1>7. \A q \in Request : SeenFits(q)'
  BY <1>3, <1>6, AllSeenStay
<1>8. RevisionsAnswered'
  BY <1>2 DEF IInv, RevisionsAnswered, Exists
<1>9. QED
  BY <1>2, <1>3, <1>4, <1>5, <1>7, <1>8 DEF IInv, TypeOK

(* A step that changes no order. *)
LEMMA SameOrders ==
    ASSUME IInv, UNCHANGED order, books' \in [entries : SUBSET Entry, available : Nat, reserved : Nat],
           \A o \in Order : SameLedger(o),
           request' \in [Request -> Running \union {Nothing}], \A q \in Request : SeenFits(q)'
    PROVE  IInv'
BY OthersFit DEF IInv, TypeOK, RevisionsAnswered, Exists

LEMMA SameBooks ==
    ASSUME UNCHANGED books
    PROVE  \A o \in Order : SameLedger(o)
BY DEF SameLedger, Has, Recorded

LEMMA CreateStep ==
    ASSUME IInv, NEW o \in Order, NEW type \in FundingType, NEW submitNow \in BOOLEAN,
           Create(o, type, submitNow)
    PROVE  IInv'
<1> DEFINE reserves == submitNow /\ type = "PLAN_INCLUDED"
           after == IF reserves THEN Append(books, o, "RESERVE", 1) ELSE books
           row == [status |-> IF submitNow THEN "SUBMITTED" ELSE "DRAFT", type |-> type,
                   funding |-> IF reserves THEN "RESERVED" ELSE "PENDING",
                   revision |-> FALSE, master |-> FALSE]
<1>1. /\ ~Exists(o) /\ Enough(after) /\ order' = [order EXCEPT ![o] = row] /\ books' = after
      /\ UNCHANGED request
  BY DEF Create
<1>2. row \in Row
  BY DEF Row, Status, FundingType, FundingStatus
<1>3. books \in Books /\ TypeOK
  BY BooksType DEF IInv
<1>4. "RESERVE" \in EntryType /\ 1 \in Int
  BY DEF EntryType
<1>5. Append(books, o, "RESERVE", 1) \in Books
  BY <1>3, <1>4, AppendType
<1>6. books' \in Books
  BY <1>1, <1>3, <1>5
<1>7. /\ \A p \in Order : \A t : Has(p, t)' => Has(p, t) \/ (reserves /\ p = o /\ t = "RESERVE")
      /\ \A p \in Order : \A t : Has(p, t) => Has(p, t)'
      /\ reserves => Has(o, "RESERVE")'
  <2>1. /\ \A p \in Order : \A t : Recorded(books, p, t) => Recorded(Append(books, o, "RESERVE", 1), p, t)
        /\ \A p \in Order : \A t : Recorded(Append(books, o, "RESERVE", 1), p, t) =>
               Recorded(books, p, t) \/ (p = o /\ t = "RESERVE")
        /\ Recorded(Append(books, o, "RESERVE", 1), o, "RESERVE")
    BY <1>3, AppendRecorded
  <2>2. \A p, t : Recorded(books, p, t)' <=> Recorded(after, p, t)
    BY <1>1 DEF Recorded
  <2>3. QED
    BY <2>1, <2>2 DEF Has
<1>8. NoEntries(o)
  BY <1>1 DEF IInv, LedgerFits
<1>9. \A p \in Order : p # o => SameLedger(p)
  BY <1>7 DEF SameLedger
<1>10. order'[o] = row /\ Exists(o)'
  BY <1>1, <1>2, <1>3, RowIsNotNoRow DEF TypeOK, Exists
<1>11. LedgerFits(o)'
  <2>1. ~Has(o, "CONSUME")' /\ ~Has(o, "RELEASE")' /\ (~reserves => ~Has(o, "RESERVE")')
    BY <1>7, <1>8 DEF NoEntries
  <2>2. /\ row.type = type /\ ~row.revision /\ ~row.master
        /\ row.status = IF submitNow THEN "SUBMITTED" ELSE "DRAFT"
        /\ row.funding = IF reserves THEN "RESERVED" ELSE "PENDING"
    OBVIOUS
  <2> HIDE DEF row
  <2>3. QED
    BY <1>7, <1>10, <2>1, <2>2 DEF LedgerFits, FundingFitsStatus, NoEntries, InProduction
<1>12. Stays(o)
  BY <1>1 DEF Stays
<1>13. row.revision = FALSE
  OBVIOUS
<1> HIDE DEF row, after, reserves
<1>14. QED
  BY <1>1, <1>2, <1>6, <1>7, <1>9, <1>11, <1>12, <1>13, OrderStep

LEMMA StaffStep ==
    ASSUME IInv, NEW k \in StaffKey, NEW type \in {"GRANT", "EXPIRY", "ADJUSTMENT"},
           NEW n \in Quantity, StaffEntry(k, type, n)
    PROVE  IInv'
<1>1. books \in Books /\ TypeOK /\ type \in EntryType /\ n \in Int
  BY BooksType, QuantityAssumption DEF IInv, EntryType
<1>2. /\ books' = Append(books, k, type, n) /\ Enough(books') /\ UNCHANGED <<order, request>>
  BY DEF StaffEntry
<1>3. books' \in Books
  BY <1>1, <1>2, AppendType
<1>4. books' \in [entries : SUBSET Entry, available : Nat, reserved : Nat]
  BY <1>2, <1>3 DEF Books, Enough
<1>5. \A o \in Order : \A t : Recorded(books', o, t) <=> Recorded(books, o, t)
  BY <1>1, <1>2, AppendRecorded, KeysAssumption
<1>6. \A o \in Order : SameLedger(o)
  BY <1>5 DEF SameLedger, Has
<1>7. \A o \in Order : Stays(o) /\ (Has(o, "RESERVE") => Has(o, "RESERVE")')
  BY <1>2, <1>6 DEF Stays, Exists, SameLedger
<1>8. \A q \in Request : SeenFits(q)'
  BY <1>2, <1>7, AllSeenStay
<1>9. QED
  BY <1>1, <1>2, <1>4, <1>6, <1>8, SameOrders DEF TypeOK

LEMMA BeginStep ==
    ASSUME IInv, NEW q \in Request, NEW op \in Op, NEW o \in Order, Begin(q, op, o)
    PROVE  IInv'
<1> DEFINE r == [op |-> op, order |-> o, seen |-> order[o]]
<1>1. TypeOK /\ Exists(o) /\ Accepts(op, order[o]) /\ UNCHANGED <<order, books>>
  BY DEF IInv, Begin
<1>2. order[o] \in Row
  BY <1>1 DEF TypeOK, Exists
<1>3. r \in Running /\ r.op = op /\ r.order = o /\ r.seen = order[o]
  BY <1>2 DEF Running
<1>4. request' = [request EXCEPT ![q] = r]
  BY DEF Begin
<1> HIDE DEF r
<1>5. /\ request' \in [Request -> Running \union {Nothing}] /\ request'[q] = r
      /\ \A p \in Request : p # q => request'[p] = request[p]
  BY <1>1, <1>3, <1>4 DEF TypeOK
<1>6. \A p \in Order : SameLedger(p) /\ Stays(p)
  BY <1>1, SameBooks DEF Stays, Exists
<1>7. ASSUME NEW p \in Request PROVE SeenFits(p)'
  <2>1. CASE p = q
    <3>1. LedgerFits(o)
      BY DEF IInv
    <3>2. QED
      BY <1>1, <1>3, <1>5, <2>1, <3>1 DEF SeenFits, LedgerFits, Exists, Has, Recorded
  <2>2. CASE p # q /\ request[p] # Nothing
    <3>1. request[p].order \in Order /\ request'[p] = request[p]
      BY <1>1, <1>5, <2>2 DEF TypeOK, Running
    <3>2. QED
      BY <1>6, <3>1, SeenStays DEF IInv, SameLedger
  <2>3. CASE p # q /\ request[p] = Nothing
    BY <1>5, <2>3 DEF SeenFits
  <2>4. QED
    BY <2>1, <2>2, <2>3
<1>8. QED
  BY <1>1, <1>5, <1>6, <1>7, SameOrders DEF TypeOK

LEMMA GiveUpStep ==
    ASSUME IInv, NEW q \in Request, Refuse(q) \/ Die(q)
    PROVE  IInv'
<1>1. TypeOK /\ UNCHANGED <<order, books>> /\ request' = [request EXCEPT ![q] = Nothing]
  BY DEF IInv, Refuse, Die, Leave
<1>2. /\ request' \in [Request -> Running \union {Nothing}]
      /\ \A p \in Request : request'[p] = request[p] \/ request'[p] = Nothing
  BY <1>1 DEF TypeOK
<1>3. \A o \in Order : SameLedger(o) /\ Stays(o)
  BY <1>1, SameBooks DEF Stays, Exists
<1>4. \A p \in Request : SeenFits(p)'
  BY <1>2, <1>3, AllSeenStay DEF SameLedger
<1>5. QED
  BY <1>1, <1>2, <1>3, <1>4, SameOrders DEF TypeOK

-----------------------------------------------------------------------------
LEMMA AcceptsAction ==
    ASSUME NEW op \in Action, NEW row, Accepts(op, row)
    PROVE  /\ row.status \in Transition[op].from
           /\ op \in {"START_PRODUCTION", "RESUME_PRODUCTION"} =>
                  row.funding \in {"RESERVED", "LEGACY_UNMETERED"}
           /\ op = "DELIVER" => row.master /\ row.funding \in {"RESERVED", "LEGACY_UNMETERED"}
<1>1. op # "AUTHORISE_PAID_ADD_ON" /\ op # "FINAL_MASTER"
  BY DEF Action, Transition
<1>2. QED
  BY <1>1 DEF Accepts, FundingAllows

(* What a change of status makes of the order and of its ledger. *)
Changes(o, op, seen, row) ==
    /\ order[o] \in Row /\ row \in Row
    /\ row.status = Transition[op].to
    /\ row.funding = FundingOf(op, seen)
    /\ row.type = order[o].type /\ row.master = order[o].master
    /\ row.revision = Revision(op, order[o])
    /\ \A t \in {"RESERVE", "CONSUME", "RELEASE"} : Has(o, t)' <=> Has(o, t) \/ t = EntryOf(op, seen)

LEMMA ChangeFits ==
    ASSUME NEW o \in Order, NEW op \in Action, NEW seen \in Row, NEW row,
           Changes(o, op, seen, row), order'[o] = row, Exists(o), Exists(o)', LedgerFits(o),
           Accepts(op, seen), FundingFitsStatus(seen), seen.type = order[o].type,
           seen.funding = "LEGACY_UNMETERED" <=> order[o].funding = "LEGACY_UNMETERED",
           seen.funding = "RESERVED" => Has(o, "RESERVE"),
           seen.master => order[o].master,
           order[o].status = seen.status
    PROVE  /\ LedgerFits(o)'
           /\ row.funding = "LEGACY_UNMETERED" <=> order[o].funding = "LEGACY_UNMETERED"
<1> DEFINE from == seen.status
           entry == EntryOf(op, seen)
<1>1. /\ from \in Transition[op].from
      /\ op \in {"START_PRODUCTION", "RESUME_PRODUCTION"} =>
             seen.funding \in {"RESERVED", "LEGACY_UNMETERED"}
      /\ op = "DELIVER" => seen.master /\ seen.funding \in {"RESERVED", "LEGACY_UNMETERED"}
  BY AcceptsAction
<1>2. \/ op = "SUBMIT" /\ from \in {"DRAFT", "CHANGES_REQUESTED"} /\ row.status = "SUBMITTED"
      \/ op = "START_PRODUCTION" /\ from = "SUBMITTED" /\ row.status = "IN_PRODUCTION"
      \/ op = "RESUME_PRODUCTION" /\ from = "CHANGES_REQUESTED" /\ row.status = "IN_PRODUCTION"
      \/ op = "REQUEST_APPROVAL" /\ from = "IN_PRODUCTION" /\ row.status = "AWAITING_CUSTOMER_APPROVAL"
      \/ op = "REQUEST_CHANGES" /\ from = "AWAITING_CUSTOMER_APPROVAL"
         /\ row.status = "CHANGES_REQUESTED"
      \/ op = "APPROVE" /\ from = "AWAITING_CUSTOMER_APPROVAL" /\ row.status = "APPROVED"
      \/ op = "DELIVER" /\ from = "APPROVED" /\ row.status = "DELIVERED"
      \/ op = "CANCEL" /\ from \in Status \ {"APPROVED", "DELIVERED", "CANCELLED"}
         /\ row.status = "CANCELLED"
  BY <1>1, Moves DEF Changes
<1>3. entry = IF op = "SUBMIT" /\ seen.type = "PLAN_INCLUDED" /\ seen.funding = "PENDING"
              THEN "RESERVE"
              ELSE IF op = "DELIVER" /\ seen.funding = "RESERVED" THEN "CONSUME"
              ELSE IF op = "CANCEL" /\ seen.funding = "RESERVED" THEN "RELEASE" ELSE "NONE"
  BY DEF EntryOf
<1>4. row.funding = IF entry = "RESERVE" THEN "RESERVED"
                    ELSE IF entry = "CONSUME" THEN "CONSUMED"
                    ELSE IF entry = "RELEASE" THEN "RELEASED"
                    ELSE IF op = "CANCEL" /\ seen.funding = "PENDING" THEN "RELEASED"
                    ELSE seen.funding
  BY <1>3 DEF Changes, FundingOf
<1>5. /\ row.type = order[o].type /\ row.master = order[o].master
      /\ order[o].type \in FundingType
      /\ seen.funding \in FundingStatus /\ order[o].funding \in FundingStatus /\ from \in Status
      /\ \A t \in {"RESERVE", "CONSUME", "RELEASE"} : Has(o, t)' <=> Has(o, t) \/ t = entry
  BY DEF Changes, Row
<1>6. /\ ~Has(o, "CONSUME") /\ ~Has(o, "RELEASE")
  <2>1. order[o].status # "DELIVERED" /\ order[o].status # "CANCELLED"
    BY <1>2
  <2>2. QED
    BY <2>1 DEF LedgerFits
<1>7. order[o].type = "PLAN_INCLUDED" => seen.funding = order[o].funding
  BY <1>5 DEF LedgerFits, FundingFitsStatus, InProduction
<1> DEFINE R == Has(o, "RESERVE")
           RR == Has(o, "RESERVE")'
           CC == Has(o, "CONSUME")'
           LL == Has(o, "RELEASE")'
<1>8. /\ RR <=> R \/ entry = "RESERVE"
      /\ CC <=> entry = "CONSUME"
      /\ LL <=> entry = "RELEASE"
  BY <1>5, <1>6
<1>9. /\ order[o].funding = "LEGACY_UNMETERED" => order[o].type = "PLAN_INCLUDED" /\ ~R
      /\ order[o].type = "PLAN_INCLUDED" /\ order[o].funding = "PENDING" => ~R
      /\ order[o].funding = "RESERVED" => R
      /\ (from \in InProduction \ {"SUBMITTED"} /\ order[o].funding # "LEGACY_UNMETERED") => R
      /\ FundingFitsStatus(order[o])
      /\ seen.funding = "RESERVED" => R
  BY DEF LedgerFits, NoEntries
<1> HIDE DEF entry, R, RR, CC, LL, from
<1>10. entry \in {"NONE", "RESERVE", "CONSUME", "RELEASE"}
  BY <1>3
<1>11. row.funding = "LEGACY_UNMETERED" <=> order[o].funding = "LEGACY_UNMETERED"
  BY <1>3, <1>4
<1>12. CC => row.status = "DELIVERED" /\ RR
  BY <1>2, <1>3, <1>8, <1>9
<1>13. LL => row.status = "CANCELLED" /\ RR
  BY <1>2, <1>3, <1>8, <1>9
<1>14. FundingFitsStatus(row)
  BY <1>2, <1>3, <1>4, <1>5, <1>7, <1>9 DEF FundingFitsStatus, InProduction, from
<1>15. row.funding = "LEGACY_UNMETERED" => row.type = "PLAN_INCLUDED" /\ ~RR /\ ~CC /\ ~LL
  BY <1>3, <1>5, <1>7, <1>8, <1>9, <1>11
<1>16. row.type = "PLAN_INCLUDED" =>
         /\ row.funding = "PENDING" => ~RR /\ ~CC /\ ~LL
         /\ (row.funding = "RELEASED" /\ RR) => LL
  <2> SUFFICES ASSUME row.type = "PLAN_INCLUDED"
               PROVE  /\ row.funding = "PENDING" => ~RR /\ ~CC /\ ~LL
                      /\ (row.funding = "RELEASED" /\ RR) => LL
    OBVIOUS
  <2>1. order[o].type = "PLAN_INCLUDED" /\ seen.type = "PLAN_INCLUDED" /\ seen.funding = order[o].funding
    BY <1>5, <1>7
  <2>2. seen.funding # "RELEASED"
    BY <1>2, <1>9, <2>1 DEF FundingFitsStatus, InProduction, from
  <2>3. QED
    BY <1>3, <1>4, <1>8, <1>9, <2>1, <2>2
<1>17. row.funding = "RESERVED" => RR
  BY <1>3, <1>4, <1>8, <1>9
<1>18. (row.status \in InProduction \ {"SUBMITTED"} /\ row.funding # "LEGACY_UNMETERED") => RR
  BY <1>1, <1>2, <1>8, <1>9, <1>11 DEF InProduction
<1>19. (row.status = "DELIVERED" /\ row.funding # "LEGACY_UNMETERED") => CC /\ row.master
  BY <1>1, <1>2, <1>3, <1>5, <1>8, <1>11
<1>20. LedgerFits(o)'
  BY <1>12, <1>13, <1>14, <1>15, <1>16, <1>17, <1>18, <1>19
     DEF LedgerFits, NoEntries, RR, CC, LL, FundingFitsStatus
<1>21. QED
  BY <1>11, <1>20

LEMMA FundingOfType ==
    ASSUME NEW op, NEW seen \in Row
    PROVE  FundingOf(op, seen) \in FundingStatus
<1>1. seen.funding \in FundingStatus
  BY DEF Row
<1>2. \/ FundingOf(op, seen) \in {"RESERVED", "CONSUMED", "RELEASED"}
      \/ FundingOf(op, seen) = seen.funding
  BY DEF FundingOf
<1>3. QED
  BY <1>1, <1>2 DEF FundingStatus

LEMMA ChangeStatusStep ==
    ASSUME IInv, NEW q \in Request, ChangeStatus(q)
    PROVE  IInv'
<1>1. TypeOK /\ books \in Books /\ request[q] \in Running
  BY BooksType DEF IInv, TypeOK, ChangeStatus
<1>2. PICK o \in Order, op \in Action, seen \in Row :
        o = request[q].order /\ op = request[q].op /\ seen = request[q].seen
  BY <1>1 DEF ChangeStatus, Running
<1>3. /\ order[o].status = seen.status /\ Leave(q)
      /\ order' = [order EXCEPT ![o] =
              [order[o] EXCEPT !.status = Transition[op].to, !.funding = FundingOf(op, seen),
                               !.revision = Revision(op, order[o])]]
      /\ books' = IF EntryOf(op, seen) = "NONE" THEN books
                  ELSE Append(books, o, EntryOf(op, seen), 1)
      /\ Enough(books')
  BY <1>2 DEF ChangeStatus, StillCurrent, BooksAfter
<1>4. /\ Exists(o) /\ Accepts(op, seen) /\ FundingFitsStatus(seen)
      /\ seen.type = order[o].type
      /\ seen.funding = "LEGACY_UNMETERED" <=> order[o].funding = "LEGACY_UNMETERED"
      /\ seen.funding = "RESERVED" => Has(o, "RESERVE")
      /\ seen.master => order[o].master
  BY <1>2 DEF ChangeStatus, IInv, SeenFits
<1>5. order[o] \in Row
  BY <1>1, <1>4 DEF TypeOK, Exists
<1> DEFINE row == [order[o] EXCEPT !.status = Transition[op].to, !.funding = FundingOf(op, seen),
                                   !.revision = Revision(op, order[o])]
<1>6. Transition[op].to \in Status /\ seen.status \in Transition[op].from
  <2>1. seen.status \in Transition[op].from
    BY <1>4, AcceptsAction
  <2>2. QED
    BY <2>1, Moves DEF Status
<1>7. Revision(op, order[o]) \in BOOLEAN
  BY <1>5 DEF Revision, Row
<1>8. /\ row \in Row /\ row.status = Transition[op].to /\ row.funding = FundingOf(op, seen)
      /\ row.type = order[o].type /\ row.master = order[o].master
      /\ row.revision = Revision(op, order[o])
  BY <1>5, <1>6, <1>7, FundingOfType DEF Row
<1>9. order' = [order EXCEPT ![o] = row]
  BY <1>3
<1> HIDE DEF row
<1>10. EntryOf(op, seen) \in {"NONE", "RESERVE", "CONSUME", "RELEASE"}
  BY DEF EntryOf
<1>11. books' \in Books
  BY <1>1, <1>3, <1>10, AppendType DEF EntryType
<1>12. /\ \A p \in Order : \A t : Has(p, t) => Has(p, t)'
       /\ \A p \in Order : \A t : Has(p, t)' => Has(p, t) \/ (p = o /\ t = EntryOf(op, seen))
       /\ EntryOf(op, seen) # "NONE" => Has(o, EntryOf(op, seen))'
  <2>1. \A p, t : Has(p, t)' <=> Recorded(books', p, t)
    BY DEF Has, Recorded
  <2>2. CASE EntryOf(op, seen) = "NONE"
    BY <1>3, <2>1, <2>2 DEF Has
  <2>3. CASE EntryOf(op, seen) # "NONE"
    <3>1. books' = Append(books, o, EntryOf(op, seen), 1)
      BY <1>3, <2>3
    <3>2. QED
      BY <1>1, <2>1, <3>1, AppendRecorded DEF Has
  <2>4. QED
    BY <2>2, <2>3
<1>13. Changes(o, op, seen, row)
  BY <1>5, <1>8, <1>12 DEF Changes
<1>14. order'[o] = row /\ Exists(o)'
  BY <1>1, <1>8, <1>9, RowIsNotNoRow DEF TypeOK, Exists
<1>15. /\ LedgerFits(o)'
       /\ row.funding = "LEGACY_UNMETERED" <=> order[o].funding = "LEGACY_UNMETERED"
  <2>1. LedgerFits(o)
    BY DEF IInv
  <2>2. QED
    BY <1>3, <1>4, <1>13, <1>14, <2>1, ChangeFits
<1>16. Stays(o)
  BY <1>8, <1>14, <1>15 DEF Stays
<1>17. \A p \in Order : p # o => SameLedger(p)
  BY <1>12 DEF SameLedger
<1>18. row.revision => row.status \notin {"AWAITING_CUSTOMER_APPROVAL", "APPROVED", "DELIVERED"}
  <2>1. order[o].revision =>
            order[o].status \notin {"AWAITING_CUSTOMER_APPROVAL", "APPROVED", "DELIVERED"}
    BY <1>4 DEF IInv, RevisionsAnswered
  <2>2. QED
    BY <1>3, <1>6, <1>8, <2>1, Moves DEF Revision
<1>19. QED
  BY <1>3, <1>8, <1>9, <1>11, <1>12, <1>15, <1>16, <1>17, <1>18, OrderStep

LEMMA AuthoriseStep ==
    ASSUME IInv, NEW q \in Request, Authorise(q)
    PROVE  IInv'
<1>1. TypeOK /\ books \in Books /\ request[q] \in Running
  BY BooksType DEF IInv, TypeOK, Authorise
<1>2. PICK o \in Order, seen \in Row : o = request[q].order /\ seen = request[q].seen
  BY <1>1 DEF Authorise, Running
<1> DEFINE first == Append(books, o, "PURCHASE", 1)
           after == Append(first, o, "RESERVE", 1)
<1>3. /\ books' = after /\ Enough(books') /\ Leave(q)
      /\ order' = [order EXCEPT ![o].funding = "RESERVED"]
  BY <1>2 DEF Authorise
<1>4. Exists(o) /\ order[o].type = "PAID_ADD_ON" /\ order[o] \in Row
  <2>1. Accepts("AUTHORISE_PAID_ADD_ON", seen)
    BY <1>2 DEF IInv, SeenFits, Authorise
  <2>2. seen.type = "PAID_ADD_ON"
    BY <2>1 DEF Accepts
  <2>3. QED
    BY <1>1, <1>2, <2>2 DEF IInv, SeenFits, Authorise, TypeOK, Exists
<1>5. first \in Books /\ after \in Books
  BY <1>1, AppendType DEF EntryType
<1>6. /\ \A p \in Order : \A t : Has(p, t) => Has(p, t)'
      /\ \A p \in Order : \A t : Has(p, t)' => Has(p, t) \/ (p = o /\ t \in {"PURCHASE", "RESERVE"})
      /\ Has(o, "RESERVE")'
  <2>1. /\ \A p \in Order : \A t : Recorded(books, p, t) => Recorded(first, p, t)
        /\ \A p \in Order : \A t : Recorded(first, p, t) => Recorded(books, p, t) \/ (p = o /\ t = "PURCHASE")
    BY <1>1, AppendRecorded
  <2> HIDE DEF first
  <2>2. /\ \A p \in Order : \A t : Recorded(first, p, t) => Recorded(after, p, t)
        /\ \A p \in Order : \A t : Recorded(after, p, t) => Recorded(first, p, t) \/ (p = o /\ t = "RESERVE")
        /\ Recorded(after, o, "RESERVE")
    BY <1>5, AppendRecorded
  <2> HIDE DEF after
  <2>3. \A p, t : Has(p, t)' <=> Recorded(after, p, t)
    BY <1>3 DEF Has, Recorded
  <2>4. QED
    BY <2>1, <2>2, <2>3 DEF Has
<1> DEFINE row == [order[o] EXCEPT !.funding = "RESERVED"]
<1>7. /\ row \in Row /\ row.funding = "RESERVED" /\ row.type = order[o].type
      /\ row.status = order[o].status /\ row.revision = order[o].revision
      /\ row.master = order[o].master
  BY <1>4 DEF Row, FundingStatus
<1>8. order' = [order EXCEPT ![o] = row]
  BY <1>3
<1> HIDE DEF row, after, first
<1>9. order'[o] = row /\ Exists(o)'
  BY <1>1, <1>7, <1>8, RowIsNotNoRow DEF TypeOK, Exists
<1>10. LedgerFits(o) /\ order[o].funding # "LEGACY_UNMETERED"
  BY <1>4 DEF IInv, LedgerFits
<1>11. LedgerFits(o)'
  BY <1>4, <1>6, <1>7, <1>9, <1>10 DEF LedgerFits, FundingFitsStatus
<1>12. Stays(o)
  BY <1>7, <1>9, <1>10 DEF Stays
<1>13. \A p \in Order : p # o => SameLedger(p)
  BY <1>6 DEF SameLedger
<1>14. row.revision => row.status \notin {"AWAITING_CUSTOMER_APPROVAL", "APPROVED", "DELIVERED"}
  BY <1>4, <1>7 DEF IInv, RevisionsAnswered
<1>15. QED
  BY <1>3, <1>5, <1>6, <1>7, <1>8, <1>11, <1>12, <1>13, <1>14, OrderStep

LEMMA MasterStep ==
    ASSUME IInv, NEW q \in Request, AddMaster(q)
    PROVE  IInv'
<1>1. TypeOK /\ books \in Books /\ request[q] \in Running
  BY BooksType DEF IInv, TypeOK, AddMaster
<1>2. PICK o \in Order : o = request[q].order
  BY <1>1 DEF AddMaster, Running
<1>3. Exists(o) /\ order[o] \in Row
  BY <1>1, <1>2 DEF IInv, SeenFits, AddMaster, TypeOK, Exists
<1> DEFINE row == [order[o] EXCEPT !.master = TRUE]
<1>4. /\ row \in Row /\ row.funding = order[o].funding /\ row.type = order[o].type
      /\ row.status = order[o].status /\ row.revision = order[o].revision /\ row.master
  BY <1>3 DEF Row
<1>5. order' = [order EXCEPT ![o] = row] /\ UNCHANGED books /\ Leave(q)
  BY <1>2 DEF AddMaster
<1> HIDE DEF row
<1>6. order'[o] = row /\ Exists(o)'
  BY <1>1, <1>4, <1>5, RowIsNotNoRow DEF TypeOK, Exists
<1>7. \A p \in Order : SameLedger(p)
  BY <1>5, SameBooks
<1>8. LedgerFits(o)'
  BY <1>3, <1>4, <1>6, <1>7 DEF IInv, LedgerFits, FundingFitsStatus, SameLedger, NoEntries
<1>9. Stays(o)
  BY <1>4, <1>6 DEF Stays
<1>10. row.revision => row.status \notin {"AWAITING_CUSTOMER_APPROVAL", "APPROVED", "DELIVERED"}
  BY <1>3, <1>4 DEF IInv, RevisionsAnswered
<1>11. books' \in Books /\ Enough(books')
  BY <1>1, <1>5 DEF Enough, TypeOK
<1>12. QED
  BY <1>4, <1>5, <1>7, <1>8, <1>9, <1>10, <1>11, OrderStep DEF SameLedger

-----------------------------------------------------------------------------
LEMMA InvInit == Init => IInv
<1> SUFFICES ASSUME Init PROVE IInv
  OBVIOUS
<1>1. order \in [Order -> {NoRow} \union Legacy] /\ books.entries = {}
  BY DEF Init
<1>2. Legacy \subseteq Row
  BY DEF Legacy, Row, FundingType, FundingStatus
<1>3. TypeOK
  BY <1>1, <1>2 DEF Init, TypeOK
<1>4. \A o \in Order : NoEntries(o)
  BY <1>1 DEF NoEntries, Has, Recorded
<1>5. \A o \in Order : LedgerFits(o)
  BY <1>1, <1>4 DEF LedgerFits, NoEntries, Exists, FundingFitsStatus, Legacy
<1>6. RevisionsAnswered
  BY <1>1 DEF RevisionsAnswered, Exists, Legacy
<1>7. QED
  BY <1>3, <1>5, <1>6 DEF IInv, Init, SeenFits

LEMMA InvStep == IInv /\ [Next]_vars => IInv'
<1> SUFFICES ASSUME IInv, [Next]_vars PROVE IInv'
  OBVIOUS
<1>1. CASE UNCHANGED vars
  <2>1. UNCHANGED <<order, books, request>>
    BY <1>1 DEF vars
  <2>2. \A o \in Order : SameLedger(o) /\ Stays(o)
    BY <2>1, SameBooks DEF Stays, Exists
  <2>3. \A q \in Request : SeenFits(q)'
    BY <2>1, <2>2, AllSeenStay DEF SameLedger
  <2>4. QED
    BY <2>1, <2>2, <2>3, SameOrders DEF IInv, TypeOK
<1>2. ASSUME Next PROVE IInv'
  BY <1>2, CreateStep, StaffStep, BeginStep, ChangeStatusStep, GiveUpStep, AuthoriseStep,
     MasterStep
     DEF Next
<1>3. QED
  BY <1>1, <1>2

(* The ledger fits every order, and what a request has read still fits     *)
(* its order when the status is the same.                                  *)
THEOREM InvAlways == Spec => []IInv
<1>1. QED
  BY InvInit, InvStep, PTL DEF Spec

(* Every reachable state is well typed: in particular no balance is ever   *)
(* negative.                                                               *)
THEOREM OrdersTypeCorrect == Spec => []TypeOK
<1>1. IInv => TypeOK
  BY DEF IInv
<1>2. QED
  BY <1>1, InvAlways, PTL

(* No credit is both consumed and released, and none without a reservation.*)
THEOREM CreditAlwaysUsedOnce == Spec => []CreditUsedOnce
<1>1. IInv => CreditUsedOnce
  BY DEF IInv, LedgerFits, CreditUsedOnce, NoEntries
<1>2. QED
  BY <1>1, InvAlways, PTL

(* The funding written from a stale read never contradicts the ledger.     *)
THEOREM FundingAlwaysMatches == Spec => []PlanFundingMatchesLedger
<1>1. IInv => PlanFundingMatchesLedger
  <2> SUFFICES ASSUME IInv, NEW o \in Order, Exists(o), order[o].type = "PLAN_INCLUDED"
               PROVE  /\ order[o].funding = "RESERVED" <=> Holds(o)
                      /\ order[o].funding = "CONSUMED" <=> Has(o, "CONSUME")
                      /\ Has(o, "RELEASE") => order[o].funding = "RELEASED"
    BY DEF PlanFundingMatchesLedger
  <2>1. LedgerFits(o)
    BY DEF IInv
  <2>2. QED
    BY <2>1 DEF LedgerFits, FundingFitsStatus, NoEntries, Holds, InProduction
<1>2. QED
  BY <1>1, InvAlways, PTL

(* Nothing is produced or delivered without a credit. *)
THEOREM ProductionAlwaysFunded == Spec => []ProductionIsFunded
<1>1. IInv => ProductionIsFunded
  BY DEF IInv, LedgerFits, ProductionIsFunded, Holds, InProduction
<1>2. QED
  BY <1>1, InvAlways, PTL

(* No revision request is left open on what is presented or delivered. *)
THEOREM RevisionsAlwaysAnswered == Spec => []RevisionsAnswered
<1>1. IInv => RevisionsAnswered
  BY DEF IInv
<1>2. QED
  BY <1>1, InvAlways, PTL

KeepsClosed ==
    \A o \in Order : (Exists(o) /\ order[o].status \in {"DELIVERED", "CANCELLED"}) =>
        order'[o].status = order[o].status

LEMMA ClosedStep ==
    ASSUME IInv, [Next]_vars
    PROVE  KeepsClosed
<1>1. order \in [Order -> Row \union {NoRow}]
  BY DEF IInv, TypeOK
<1>2. CASE UNCHANGED order
  BY <1>2 DEF KeepsClosed
<1>3. ASSUME NEW o \in Order, NEW type \in FundingType, NEW submitNow \in BOOLEAN,
             Create(o, type, submitNow)
      PROVE  KeepsClosed
  BY <1>1, <1>3 DEF Create, KeepsClosed
<1>4. ASSUME NEW q \in Request, ChangeStatus(q) PROVE KeepsClosed
  <2>1. PICK o \in Order, op \in Action, seen \in Row :
          o = request[q].order /\ op = request[q].op /\ seen = request[q].seen
    BY <1>4 DEF IInv, TypeOK, ChangeStatus, Running
  <2>2. Accepts(op, seen) /\ order[o].status = seen.status
    BY <1>4, <2>1 DEF IInv, SeenFits, ChangeStatus, StillCurrent
  <2>3. order[o].status \notin {"DELIVERED", "CANCELLED"}
    BY <2>2, AcceptsAction, Moves
  <2>4. \A p \in Order : p # o => order'[p] = order[p]
    BY <1>1, <1>4, <2>1 DEF ChangeStatus
  <2>5. QED
    BY <2>3, <2>4 DEF KeepsClosed
<1>5. ASSUME NEW q \in Request, Authorise(q) \/ AddMaster(q) PROVE KeepsClosed
  <2>1. PICK o \in Order : o = request[q].order /\ Exists(o)
    BY <1>5 DEF IInv, TypeOK, Authorise, AddMaster, Running, SeenFits
  <2>2. order[o] \in Row
    BY <1>1, <2>1 DEF Exists
  <2>3. \/ order' = [order EXCEPT ![o] = [order[o] EXCEPT !.funding = "RESERVED"]]
        \/ order' = [order EXCEPT ![o] = [order[o] EXCEPT !.master = TRUE]]
    BY <1>5, <2>1 DEF Authorise, AddMaster
  <2>4. order'[o].status = order[o].status /\ \A p \in Order : p # o => order'[p] = order[p]
    BY <1>1, <2>2, <2>3 DEF Row
  <2>5. QED
    BY <2>4 DEF KeepsClosed
<1>6. QED
  BY <1>2, <1>3, <1>4, <1>5 DEF Next, vars, StaffEntry, Begin, Refuse, Die

(* A delivered or cancelled order never changes its status again. *)
THEOREM ClosedAlwaysFinal == Spec => ClosedIsFinal
<1>1. IInv /\ [Next]_vars => [KeepsClosed]_vars
  BY ClosedStep
<1>2. QED
  BY <1>1, InvAlways, PTL DEF Spec, ClosedIsFinal, KeepsClosed

(* The ledger and the orders agree in every state, for any orders, staff   *)
(* entries and requests.                                                   *)
THEOREM OrdersAlwaysSound == Spec => []OrdersSound
<1>1. PlanFundingMatchesLedger /\ CreditUsedOnce /\ ProductionIsFunded /\ RevisionsAnswered => OrdersSound
  BY DEF OrdersSound
<1>2. QED
  BY <1>1, FundingAlwaysMatches, CreditAlwaysUsedOnce, ProductionAlwaysFunded,
     RevisionsAlwaysAnswered, PTL

-----------------------------------------------------------------------------
(***************************************************************************)
(* The sum over the ledger.  MapThenSumSet adds the entries up in an order *)
(* of its own, by a function on the subsets of the set it is given; that   *)
(* there is one such function, and that the order does not matter, is      *)
(* proved from smaller sets to larger ones.                                *)
(***************************************************************************)
(* Induction over the natural numbers, for a set of them. *)
LEMMA SetInduction ==
    ASSUME NEW K, 0 \in K, \A n \in Nat : n \in K => n + 1 \in K
    PROVE  Nat \subseteq K
<1> SUFFICES ASSUME ~(Nat \subseteq K) PROVE FALSE
  OBVIOUS
<1>1. (Nat \ K) \subseteq Nat /\ Nat \ K # {}
  OBVIOUS
<1>2. PICK n \in Nat \ K : \A m \in Nat \ K : <<m, n>> \notin OpToRel(<, Nat)
  <2>1. IsWellFoundedOn(OpToRel(<, Nat), Nat)
    BY NatLessThanWellFounded
  <2>2. QED
    BY <1>1, <2>1, WFMin
<1>3. \A m \in Nat \ K : ~(m < n)
  BY <1>2 DEF OpToRel
<1>4. n # 0 /\ n - 1 \in Nat
  OBVIOUS
<1>5. n - 1 \in K
  BY <1>3, <1>4
<1>6. QED
  BY <1>4, <1>5

Granted(e) == CASE e.type \in {"GRANT", "PURCHASE", "ADJUSTMENT"} -> e.quantity
                [] e.type \in {"EXPIRY", "CONSUME"} -> -e.quantity
                [] OTHER -> 0
Pick(s) == CHOOSE x \in s : TRUE
(* f adds up the subsets of B that are in D. *)
SumFits(f, D) ==
    f = [s \in D |-> IF s = {} THEN 0 ELSE Granted(Pick(s)) + f[s \ {Pick(s)}]]
(* f adds up the subsets of B. *)
Sums(f, B) == SumFits(f, SUBSET B)
Total(S) == (CHOOSE f : Sums(f, S))[S]

LEMMA SumIsTotal == \A S : MapThenSumSet(Granted, S) = Total(S)
BY DEF MapThenSumSet, MapThenFoldSet, Total, Sums, SumFits, Pick

(* Induction over the subsets of a finite set. *)
LEMMA SubsetInduction ==
    ASSUME NEW B, IsFiniteSet(B), NEW K,
           \A s \in SUBSET B : (\A t \in SUBSET s : t # s => t \in K) => s \in K
    PROVE  SUBSET B \subseteq K
<1> SUFFICES ASSUME NEW S \in SUBSET B, S \notin K PROVE FALSE
  OBVIOUS
<1>1. FiniteSubsetsOf(B) = SUBSET B
  BY FS_Subset DEF FiniteSubsetsOf
<1>2. IsWellFoundedOn(StrictSubsetOrdering(B), SUBSET B)
  <2>1. IsWellFoundedOn(StrictSubsetOrdering(B), FiniteSubsetsOf(B))
    BY FS_StrictSubsetOrderingWellFounded, Zenon
  <2>2. QED
    BY <1>1, <2>1, Zenon
<1>3. PICK s \in (SUBSET B) \ K : \A t \in (SUBSET B) \ K : ~(<<t, s>> \in StrictSubsetOrdering(B))
  <2>1. PICK T, Q, R : T = (SUBSET B) \ K /\ Q = SUBSET B /\ R = StrictSubsetOrdering(B)
    OBVIOUS
  <2>2. T \subseteq Q /\ T # {} /\ IsWellFoundedOn(R, Q)
    BY <1>2, <2>1
  <2>3. \E x \in T : \A y \in T : ~(<<y, x>> \in R)
    BY <2>2, WFMin
  <2>4. QED
    BY <2>1, <2>3, Zenon
<1>4. ASSUME NEW t \in SUBSET s, t # s PROVE t \in K
  <2>1. <<t, s>> \in StrictSubsetOrdering(B)
    BY <1>4 DEF StrictSubsetOrdering
  <2>2. QED
    BY <1>3, <2>1
<1>5. QED
  BY <1>3, <1>4

(* The subsets of B of up to n elements. *)
UpTo(B, n) == {s \in SUBSET B : Cardinality(s) <= n}

LEMMA SmallerByOne ==
    ASSUME NEW B, IsFiniteSet(B), NEW n \in Nat, NEW s \in UpTo(B, n + 1), s # {}
    PROVE  s \ {Pick(s)} \in UpTo(B, n)
<1>1. Pick(s) \in s
  BY DEF Pick
<1>2. IsFiniteSet(s)
  BY FS_Subset DEF UpTo
<1>3. Cardinality(s \ {Pick(s)}) = Cardinality(s) - 1 /\ Cardinality(s) \in Nat
  BY <1>1, <1>2, FS_RemoveElement, FS_CardinalityType
<1>4. QED
  BY <1>3 DEF UpTo

LEMMA SumOneLarger ==
    ASSUME NEW B, IsFiniteSet(B), NEW n \in Nat, NEW f, SumFits(f, UpTo(B, n))
    PROVE  \E g : SumFits(g, UpTo(B, n + 1))
<1> DEFINE g == [s \in UpTo(B, n + 1) |->
                   IF s = {} THEN 0 ELSE Granted(Pick(s)) + f[s \ {Pick(s)}]]
<1>1. \A s \in UpTo(B, n) : s \in UpTo(B, n + 1)
  BY FS_Subset, FS_CardinalityType DEF UpTo
<1>2. \A s \in UpTo(B, n) : f[s] = g[s]
  BY <1>1, Zenon DEF SumFits
<1>3. \A s \in UpTo(B, n + 1) : s # {} => f[s \ {Pick(s)}] = g[s \ {Pick(s)}]
  BY <1>2, SmallerByOne
<1>4. \A s \in UpTo(B, n + 1) :
        (IF s = {} THEN 0 ELSE Granted(Pick(s)) + f[s \ {Pick(s)}])
          = (IF s = {} THEN 0 ELSE Granted(Pick(s)) + g[s \ {Pick(s)}])
  BY <1>3, Zenon
<1>5. g = [s \in UpTo(B, n + 1) |-> IF s = {} THEN 0 ELSE Granted(Pick(s)) + f[s \ {Pick(s)}]]
  OBVIOUS
<1> HIDE DEF g
<1>6. g = [s \in UpTo(B, n + 1) |-> IF s = {} THEN 0 ELSE Granted(Pick(s)) + g[s \ {Pick(s)}]]
  BY <1>4, <1>5, Zenon
<1>7. QED
  BY <1>6, Zenon DEF SumFits

(* The function that adds up the subsets of a finite set exists. *)
LEMMA SumExists ==
    ASSUME NEW B, IsFiniteSet(B)
    PROVE  \E f : Sums(f, B)
<1> DEFINE K == {n \in Nat : \E f : SumFits(f, UpTo(B, n))}
<1>1. 0 \in K
  <2>1. \A s \in UpTo(B, 0) : s = {}
    BY FS_Subset, FS_CardinalityType, FS_EmptySet DEF UpTo
  <2>2. PICK f : f = [s \in UpTo(B, 0) |-> 0]
    OBVIOUS
  <2>3. f = [s \in UpTo(B, 0) |-> IF s = {} THEN 0 ELSE Granted(Pick(s)) + f[s \ {Pick(s)}]]
    BY <2>1, <2>2, Zenon
  <2>4. QED
    BY <2>3 DEF SumFits, Sums
<1>2. \A n \in Nat : n \in K => n + 1 \in K
  BY SumOneLarger
<1>3. Nat \subseteq K
  <2> HIDE DEF K
  <2>1. QED
    BY <1>1, <1>2, SetInduction
<1>4. UpTo(B, Cardinality(B)) = SUBSET B /\ Cardinality(B) \in Nat
  BY FS_Subset, FS_CardinalityType DEF UpTo
<1>5. PICK f : SumFits(f, UpTo(B, Cardinality(B)))
  BY <1>3, <1>4
<1>6. QED
  BY <1>4, <1>5 DEF Sums

(* On the subsets of a part of B, any two of them agree. *)
LEMMA SumUnique ==
    ASSUME NEW B, IsFiniteSet(B), NEW f, Sums(f, B),
           NEW S \in SUBSET B, NEW g, Sums(g, S)
    PROVE  f[S] = g[S]
<1> DEFINE K == {s \in SUBSET S : f[s] = g[s]}
<1>1. ASSUME NEW s \in SUBSET S, \A t \in SUBSET s : t # s => t \in K
      PROVE  s \in K
  <2>1. s \in SUBSET B /\ s \in SUBSET S
    OBVIOUS
  <2>2. /\ f[s] = IF s = {} THEN 0 ELSE Granted(Pick(s)) + f[s \ {Pick(s)}]
        /\ g[s] = IF s = {} THEN 0 ELSE Granted(Pick(s)) + g[s \ {Pick(s)}]
    BY <2>1, Zenon DEF SumFits, Sums
  <2>3. s # {} => s \ {Pick(s)} \in SUBSET s /\ s \ {Pick(s)} # s
    BY DEF Pick
  <2>4. s # {} => f[s \ {Pick(s)}] = g[s \ {Pick(s)}]
    BY <1>1, <2>3
  <2>5. f[s] = g[s]
    BY <2>2, <2>4
  <2>6. QED
    BY <2>5
<1>2. IsFiniteSet(S)
  BY FS_Subset
<1>3. SUBSET S \subseteq K
  <2> HIDE DEF K
  <2>1. QED
    BY <1>1, <1>2, SubsetInduction
<1>4. QED
  BY <1>3

(* What the total is: the entry picked first and the total of the rest.    *)
LEMMA TotalIs ==
    ASSUME NEW B, IsFiniteSet(B), NEW f, Sums(f, B), NEW S \in SUBSET B
    PROVE  Total(S) = f[S]
<1>1. IsFiniteSet(S)
  BY FS_Subset
<1>2. PICK g : g = CHOOSE h : Sums(h, S)
  OBVIOUS
<1>3. \E h : Sums(h, S)
  BY <1>1, SumExists
<1>4. Sums(g, S)
  BY <1>2, <1>3
<1>5. f[S] = g[S]
  BY <1>4, SumUnique
<1>6. QED
  BY <1>2, <1>5 DEF Total

LEMMA TotalUnfolds ==
    ASSUME NEW S, IsFiniteSet(S)
    PROVE  Total(S) = IF S = {} THEN 0 ELSE Granted(Pick(S)) + Total(S \ {Pick(S)})
<1>1. PICK f : Sums(f, S)
  BY SumExists
<1>2. f[S] = IF S = {} THEN 0 ELSE Granted(Pick(S)) + f[S \ {Pick(S)}]
  BY <1>1, Zenon DEF SumFits, Sums
<1>3. \A T \in SUBSET S : Total(T) = f[T]
  BY <1>1, TotalIs
<1>4. S \in SUBSET S /\ S \ {Pick(S)} \in SUBSET S
  OBVIOUS
<1>5. QED
  BY <1>2, <1>3, <1>4

(* The order does not matter. *)
LEMMA TotalTakesAny ==
    ASSUME NEW B, IsFiniteSet(B), \A e \in B : Granted(e) \in Int
    PROVE  Total(B) \in Int /\ \A x \in B : Total(B) = Granted(x) + Total(B \ {x})
<1> DEFINE Fine(s) == Total(s) \in Int /\ \A x \in s : Total(s) = Granted(x) + Total(s \ {x})
           K == {s \in SUBSET B : Fine(s)}
<1>1. ASSUME NEW s \in SUBSET B, \A t \in SUBSET s : t # s => t \in K
      PROVE  Fine(s)
  <2>1. \A t \in SUBSET s : t # s => Fine(t)
    BY <1>1
  <2>2. Total(s) = IF s = {} THEN 0 ELSE Granted(Pick(s)) + Total(s \ {Pick(s)})
    BY FS_Subset, TotalUnfolds
  <2>3. CASE s = {}
    BY <2>2, <2>3
  <2>4. CASE s # {}
    <3>1. PICK y \in s : y = Pick(s)
      BY <2>4 DEF Pick
    <3>2. s \ {y} \in SUBSET s /\ s \ {y} # s
      OBVIOUS
    <3>3. Total(s) = Granted(y) + Total(s \ {y}) /\ Granted(y) \in Int /\ Total(s \ {y}) \in Int
      BY <2>1, <2>2, <2>4, <3>1, <3>2
    <3>4. ASSUME NEW x \in s, x # y PROVE Total(s) = Granted(x) + Total(s \ {x})
      <4>1. s \ {x} \in SUBSET s /\ s \ {x} # s /\ y \in s \ {x} /\ x \in s \ {y}
        BY <3>4
      <4>2. Total(s \ {y}) = Granted(x) + Total((s \ {y}) \ {x})
        BY <2>1, <3>2, <4>1
      <4>3. Total(s \ {x}) = Granted(y) + Total((s \ {x}) \ {y})
        BY <2>1, <4>1
      <4>4. (s \ {y}) \ {x} = (s \ {x}) \ {y}
        OBVIOUS
      <4>5. (s \ {y}) \ {x} \in SUBSET s /\ (s \ {y}) \ {x} # s
        OBVIOUS
      <4>6. Total((s \ {y}) \ {x}) \in Int
        BY <2>1, <4>5
      <4>7. Granted(x) \in Int
        OBVIOUS
      <4>8. PICK a, b, c : a = Granted(x) /\ b = Granted(y) /\ c = Total((s \ {y}) \ {x})
        OBVIOUS
      <4>9. a \in Int /\ b \in Int /\ c \in Int /\ b + (a + c) = a + (b + c)
        BY <3>3, <4>6, <4>7, <4>8
      <4>10. Total(s) = b + (a + c) /\ Total(s \ {x}) = b + c
        BY <3>3, <4>2, <4>3, <4>4, <4>8, Zenon
      <4>11. QED
        BY <4>8, <4>9, <4>10, Zenon
    <3>5. QED
      BY <3>3, <3>4
  <2>5. QED
    BY <2>3, <2>4
<1>2. SUBSET B \subseteq K
  <2>1. \A s \in SUBSET B : (\A t \in SUBSET s : t # s => t \in K) => s \in K
    BY <1>1
  <2> HIDE DEF K
  <2>2. QED
    BY <2>1, SubsetInduction
<1>3. B \in K
  BY <1>2
<1>4. QED
  BY <1>3
(* A new entry counts once. *)
LEMMA TotalWithNew ==
    ASSUME NEW S, IsFiniteSet(S), NEW e, e \notin S, \A x \in S \union {e} : Granted(x) \in Int
    PROVE  Total(S \union {e}) = Total(S) + Granted(e) /\ Total(S) \in Int
<1>1. PICK B : B = S \union {e}
  OBVIOUS
<1>2. IsFiniteSet(B) /\ B \ {e} = S /\ e \in B
  BY <1>1, FS_AddElement
<1>3. Total(B) = Granted(e) + Total(B \ {e}) /\ Total(S) \in Int
  <2>1. \A x \in B : Granted(x) \in Int
    BY <1>1
  <2>2. \A x \in B : Total(B) = Granted(x) + Total(B \ {x})
    BY <1>2, <2>1, TotalTakesAny
  <2>3. Total(S) \in Int
    BY TotalTakesAny
  <2>4. QED
    BY <1>2, <2>2, <2>3, Zenon
<1>4. Total(B) = Granted(e) + Total(S)
  BY <1>2, <1>3, Zenon
<1>5. Granted(e) \in Int /\ Granted(e) + Total(S) = Total(S) + Granted(e)
  BY <1>3
<1>6. QED
  BY <1>1, <1>3, <1>4, <1>5, Zenon

-----------------------------------------------------------------------------
(* The credits are all there, and the reserved balance counts the orders   *)
(* that hold one.                                                          *)
HoldersOf(b) ==
    {o \in Order : Recorded(b, o, "RESERVE") /\ ~Recorded(b, o, "CONSUME") /\ ~Recorded(b, o, "RELEASE")}
Balanced(b) ==
    /\ b \in Books /\ IsFiniteSet(b.entries)
    /\ b.available + b.reserved = Total(b.entries)
Reserved(b) == IsFiniteSet(HoldersOf(b)) /\ b.reserved = Cardinality(HoldersOf(b))

LEMMA GrantedType ==
    ASSUME NEW e \in Entry
    PROVE  Granted(e) \in Int
BY DEF Granted, Entry

(* An entry adds to the two balances what it adds to the sum. *)
LEMMA AppendBalanced ==
    ASSUME NEW b, Balanced(b), NEW for \in Order \union StaffKey, NEW type \in EntryType, NEW n \in Int
    PROVE  Balanced(Append(b, for, type, n))
<1>1. CASE Recorded(b, for, type)
  BY <1>1 DEF Append
<1>2. CASE ~Recorded(b, for, type)
  <2>1. PICK e, m, a : /\ e = [for |-> for, type |-> type, quantity |-> n]
                       /\ m = Movement(type, n) /\ a = Append(b, for, type, n)
    OBVIOUS
  <2>2. /\ a = [entries |-> b.entries \union {e}, available |-> b.available + m.available,
                reserved |-> b.reserved + m.reserved]
        /\ a \in Books
    BY <1>2, <2>1, AppendType DEF Append, Balanced
  <2>3. e \notin b.entries
    BY <1>2, <2>1 DEF Recorded
  <2>4. m.available \in Int /\ m.reserved \in Int /\ m.available + m.reserved = Granted(e)
    <3>1. e.type = type /\ e.quantity = n
      BY <2>1
    <3>2. QED
      BY <2>1, <3>1 DEF Movement, EntryType, Granted
  <2>5. e \in Entry /\ b.entries \subseteq Entry /\ b.available \in Int /\ b.reserved \in Int
    BY <2>1 DEF Entry, Balanced, Books
  <2>6. Total(b.entries \union {e}) = Total(b.entries) + Granted(e) /\ Total(b.entries) \in Int
    BY <2>3, <2>5, GrantedType, TotalWithNew DEF Balanced
  <2>7. IsFiniteSet(b.entries \union {e})
    BY FS_AddElement DEF Balanced
  <2>8. /\ a.entries = b.entries \union {e} /\ a.available = b.available + m.available
        /\ a.reserved = b.reserved + m.reserved
    BY <2>2
  <2>9. b.available + b.reserved = Total(b.entries)
    BY DEF Balanced
  <2>10. a.available + a.reserved = Total(a.entries)
    BY <2>4, <2>5, <2>6, <2>8, <2>9
  <2>11. QED
    BY <2>1, <2>2, <2>7, <2>8, <2>10 DEF Balanced
<1>3. QED
  BY <1>1, <1>2

(* An entry that the reserved balance can take. *)
Fits(b, for, type, n) ==
    /\ for \in StaffKey => type \in {"GRANT", "EXPIRY", "ADJUSTMENT"}
    /\ for \in Order => n = 1 /\ type \in {"PURCHASE", "RESERVE", "CONSUME", "RELEASE"}
    /\ type = "RESERVE" =>
           (Recorded(b, for, "CONSUME") \/ Recorded(b, for, "RELEASE") => Recorded(b, for, "RESERVE"))
    /\ type \in {"CONSUME", "RELEASE"} => Recorded(b, for, type) \/ for \in HoldersOf(b)

LEMMA AppendReserved ==
    ASSUME NEW b \in Books, Reserved(b), NEW for \in Order \union StaffKey, NEW type \in EntryType,
           NEW n \in Int, Fits(b, for, type, n)
    PROVE  Reserved(Append(b, for, type, n))
<1>1. CASE Recorded(b, for, type)
  BY <1>1 DEF Append
<1>2. CASE ~Recorded(b, for, type)
  <2>1. PICK a : a = Append(b, for, type, n)
    OBVIOUS
  <2>2. a.reserved = b.reserved + Movement(type, n).reserved
    BY <1>2, <2>1 DEF Append
  <2>3. /\ \A o \in Order : \A t : Recorded(b, o, t) => Recorded(a, o, t)
        /\ \A o \in Order : \A t : Recorded(a, o, t) => Recorded(b, o, t) \/ (o = for /\ t = type)
        /\ for \in Order => Recorded(a, for, type)
    BY <2>1, AppendRecorded
  <2>4. b.reserved \in Int /\ IsFiniteSet(HoldersOf(b)) /\ b.reserved = Cardinality(HoldersOf(b))
    BY DEF Books, Reserved
  <2>5. CASE type \in {"GRANT", "PURCHASE", "ADJUSTMENT", "EXPIRY"}
    <3>1. HoldersOf(a) = HoldersOf(b)
      BY <2>3, <2>5 DEF HoldersOf
    <3>2. Movement(type, n).reserved = 0
      BY <2>5 DEF Movement
    <3>3. QED
      BY <2>1, <2>2, <2>4, <3>1, <3>2 DEF Reserved
  <2>6. CASE type = "RESERVE"
    <3>1. for \in Order /\ n = 1
      BY <2>6 DEF Fits
    <3>2. ~Recorded(b, for, "CONSUME") /\ ~Recorded(b, for, "RELEASE") /\ ~Recorded(b, for, "RESERVE")
      BY <1>2, <2>6 DEF Fits
    <3>3. HoldersOf(a) = HoldersOf(b) \union {for} /\ for \notin HoldersOf(b)
      BY <2>3, <2>6, <3>1, <3>2 DEF HoldersOf
    <3>4. Movement(type, n).reserved = 1
      BY <2>6, <3>1 DEF Movement
    <3>5. IsFiniteSet(HoldersOf(a)) /\ Cardinality(HoldersOf(a)) = Cardinality(HoldersOf(b)) + 1
      BY <2>4, <3>3, FS_AddElement
    <3>6. QED
      BY <2>1, <2>2, <2>4, <3>4, <3>5 DEF Reserved
  <2>7. CASE type \in {"CONSUME", "RELEASE"}
    <3>1. for \in Order /\ n = 1 /\ for \in HoldersOf(b)
      BY <1>2, <2>7 DEF Fits
    <3>2. HoldersOf(a) = HoldersOf(b) \ {for}
      BY <2>3, <2>7, <3>1 DEF HoldersOf
    <3>3. Movement(type, n).reserved = -1
      BY <2>7, <3>1 DEF Movement
    <3>4. IsFiniteSet(HoldersOf(a)) /\ Cardinality(HoldersOf(a)) = Cardinality(HoldersOf(b)) - 1
      BY <2>4, <3>1, <3>2, FS_RemoveElement
    <3>5. QED
      BY <2>1, <2>2, <2>4, <3>3, <3>4 DEF Reserved
  <2>8. QED
    BY <2>5, <2>6, <2>7 DEF EntryType
<1>3. QED
  BY <1>1, <1>2

CreditsInv == Balanced(books) /\ Reserved(books)

(* Every step leaves the ledger as it is or appends entries that fit. *)
LEMMA AppendKeeps ==
    ASSUME NEW b, Balanced(b), Reserved(b), NEW for \in Order \union StaffKey, NEW type \in EntryType,
           NEW n \in Int, Fits(b, for, type, n)
    PROVE  Balanced(Append(b, for, type, n)) /\ Reserved(Append(b, for, type, n))
BY AppendBalanced, AppendReserved DEF Balanced

LEMMA CreditsCreate ==
    ASSUME IInv, CreditsInv, NEW o \in Order, NEW type \in FundingType, NEW submitNow \in BOOLEAN,
           Create(o, type, submitNow)
    PROVE  CreditsInv'
<1>1. books' = books \/ books' = Append(books, o, "RESERVE", 1)
  BY DEF Create
<1>2. NoEntries(o)
  BY DEF IInv, LedgerFits, Create
<1>3. Fits(books, o, "RESERVE", 1)
  BY <1>2, KeysAssumption DEF Fits, NoEntries, Has
<1>4. Balanced(Append(books, o, "RESERVE", 1)) /\ Reserved(Append(books, o, "RESERVE", 1))
  BY <1>3, AppendKeeps DEF CreditsInv, EntryType
<1>5. Balanced(books') /\ Reserved(books')
  BY <1>1, <1>4 DEF CreditsInv
<1>6. QED
  BY <1>5 DEF CreditsInv, Balanced, Reserved, HoldersOf, Recorded

LEMMA CreditsStaff ==
    ASSUME IInv, CreditsInv, NEW k \in StaffKey, NEW type \in {"GRANT", "EXPIRY", "ADJUSTMENT"},
           NEW n \in Quantity, StaffEntry(k, type, n)
    PROVE  CreditsInv'
<1>1. books' = Append(books, k, type, n)
  BY DEF StaffEntry
<1>2. Fits(books, k, type, n) /\ n \in Int /\ type \in EntryType
  BY KeysAssumption, QuantityAssumption DEF Fits, EntryType
<1>3. Balanced(books') /\ Reserved(books')
  BY <1>1, <1>2, AppendKeeps DEF CreditsInv
<1>4. QED
  BY <1>3 DEF CreditsInv, Balanced, Reserved, HoldersOf, Recorded

LEMMA CreditsChangeStatus ==
    ASSUME IInv, CreditsInv, NEW q \in Request, ChangeStatus(q)
    PROVE  CreditsInv'
<1>1. TypeOK /\ request[q] \in Running
  BY DEF IInv, TypeOK, ChangeStatus
<1>2. PICK o \in Order, op \in Action, seen \in Row :
        o = request[q].order /\ op = request[q].op /\ seen = request[q].seen
  BY <1>1 DEF ChangeStatus, Running
<1>3. /\ order[o].status = seen.status
      /\ books' = IF EntryOf(op, seen) = "NONE" THEN books
                  ELSE Append(books, o, EntryOf(op, seen), 1)
  BY <1>2 DEF ChangeStatus, StillCurrent, BooksAfter
<1>4. /\ Exists(o) /\ Accepts(op, seen)
      /\ seen.funding = "RESERVED" => Has(o, "RESERVE")
  BY <1>2 DEF ChangeStatus, IInv, SeenFits
<1>5. seen.status \in Transition[op].from
  BY <1>4, AcceptsAction
<1>6. /\ Has(o, "CONSUME") => order[o].status = "DELIVERED" /\ Has(o, "RESERVE")
      /\ Has(o, "RELEASE") => order[o].status = "CANCELLED" /\ Has(o, "RESERVE")
  BY <1>4 DEF IInv, LedgerFits
<1>7. CASE EntryOf(op, seen) = "NONE"
  BY <1>3, <1>7 DEF CreditsInv, Balanced, Reserved, HoldersOf, Recorded
<1>8. CASE EntryOf(op, seen) # "NONE"
  <2>1. \/ EntryOf(op, seen) = "RESERVE"
        \/ EntryOf(op, seen) = "CONSUME" /\ op = "DELIVER" /\ seen.funding = "RESERVED"
        \/ EntryOf(op, seen) = "RELEASE" /\ op = "CANCEL" /\ seen.funding = "RESERVED"
    BY <1>8 DEF EntryOf
  <2>2. PICK t : t = EntryOf(op, seen)
    OBVIOUS
  <2>3. order[o].status \notin {"DELIVERED", "CANCELLED"}
    BY <1>3, <1>5, Moves
  <2>4. Fits(books, o, t, 1) /\ t \in EntryType
    BY <1>4, <1>6, <2>1, <2>2, <2>3, KeysAssumption DEF Fits, Has, HoldersOf, EntryType
  <2>5. books' = Append(books, o, t, 1)
    BY <1>3, <1>8, <2>2
  <2>6. Balanced(books') /\ Reserved(books')
    BY <2>4, <2>5, AppendKeeps DEF CreditsInv
  <2>7. QED
    BY <2>6 DEF CreditsInv, Balanced, Reserved, HoldersOf, Recorded
<1>9. QED
  BY <1>7, <1>8

LEMMA CreditsAuthorise ==
    ASSUME IInv, CreditsInv, NEW q \in Request, Authorise(q)
    PROVE  CreditsInv'
<1>1. PICK o \in Order : o = request[q].order
  BY DEF Authorise, IInv, TypeOK, Running
<1>2. PICK first : first = Append(books, o, "PURCHASE", 1)
  OBVIOUS
<1>3. books' = Append(first, o, "RESERVE", 1)
  BY <1>1, <1>2 DEF Authorise
<1>4. /\ Recorded(books, o, "CONSUME") => Recorded(books, o, "RESERVE")
      /\ Recorded(books, o, "RELEASE") => Recorded(books, o, "RESERVE")
  BY DEF IInv, LedgerFits, NoEntries, Has
<1>5. Fits(books, o, "PURCHASE", 1) /\ "PURCHASE" \in EntryType /\ "RESERVE" \in EntryType
  BY KeysAssumption DEF Fits, EntryType
<1>6. Balanced(first) /\ Reserved(first)
  BY <1>2, <1>5, AppendKeeps DEF CreditsInv
<1>7. books \in Books
  BY DEF CreditsInv, Balanced
<1>8. /\ \A t : Recorded(books, o, t) => Recorded(first, o, t)
      /\ \A t : Recorded(first, o, t) => Recorded(books, o, t) \/ t = "PURCHASE"
  BY <1>2, <1>7, AppendRecorded
<1>9. Fits(first, o, "RESERVE", 1)
  BY <1>4, <1>8, KeysAssumption DEF Fits
<1>10. Balanced(books') /\ Reserved(books')
  BY <1>3, <1>5, <1>6, <1>9, AppendKeeps
<1>11. QED
  BY <1>10 DEF CreditsInv, Balanced, Reserved, HoldersOf, Recorded

(* The balances of the ledger are those its entries add up to. *)
THEOREM CreditsInvAlways == Spec => []CreditsInv
<1>1. Init => CreditsInv
  <2> SUFFICES ASSUME Init PROVE CreditsInv
    OBVIOUS
  <2>1. books = [entries |-> {}, available |-> 0, reserved |-> 0]
    BY DEF Init
  <2>2. IsFiniteSet({}) /\ Cardinality({}) = 0 /\ Total({}) = 0
    BY FS_EmptySet, TotalUnfolds
  <2>3. HoldersOf(books) = {}
    BY <2>1 DEF HoldersOf, Recorded
  <2>4. QED
    BY <2>1, <2>2, <2>3 DEF CreditsInv, Balanced, Reserved, Books
<1>2. IInv /\ CreditsInv /\ [Next]_vars => CreditsInv'
  <2> SUFFICES ASSUME IInv, CreditsInv, [Next]_vars PROVE CreditsInv'
    OBVIOUS
  <2>1. CASE UNCHANGED books
    BY <2>1 DEF CreditsInv, Balanced, Reserved, HoldersOf, Recorded
  <2>2. QED
    BY <2>1, CreditsCreate, CreditsStaff, CreditsChangeStatus, CreditsAuthorise
       DEF Next, vars, Begin, Refuse, AddMaster, Die
<1>3. QED
  BY <1>1, <1>2, InvAlways, PTL DEF Spec

(* What was granted and purchased is available, reserved or consumed by a  *)
(* delivery, and the reserved balance counts the orders that hold a        *)
(* credit, for any quantities, orders, keys and overlapping requests.      *)
THEOREM CreditsAlwaysConserved == Spec => []CreditsConserved
<1>1. CreditsInv => CreditsConserved
  <2> SUFFICES ASSUME CreditsInv PROVE CreditsConserved
    OBVIOUS
  <2>1. HoldersOf(books) = {o \in Order : Holds(o)}
    BY DEF HoldersOf, Holds, Has
  <2>2. books.available + books.reserved = MapThenSumSet(Granted, books.entries)
    BY SumIsTotal DEF CreditsInv, Balanced
  <2>3. books.reserved = Cardinality({o \in Order : Holds(o)})
    BY <2>1 DEF CreditsInv, Reserved
  <2>4. QED
    BY <2>2, <2>3, Zenon DEF CreditsConserved, Granted
<1>2. QED
  BY <1>1, CreditsInvAlways, PTL
=============================================================================
