---------------------------- MODULE PurchaseOrder ---------------------------
(***************************************************************************)
(* Orders paid from the organization wallet                                  *)
(* (internal/commercial/billing/service.go, storage_purchase.go,              *)
(* resource_recovery.go): the order row, the reservation at the money owner    *)
(* and the grant at the resource owner (or the lot of storage capacity), which *)
(* live in three databases and are brought together by the buying request,     *)
(* repeated at will, and by the paged recovery loop.                           *)
(*                                                                         *)
(* A row is written by compare-and-swap on its version; "fresh" holds the      *)
(* actors whose copy is current.  Money and the two effects are idempotent in  *)
(* the order, so a replayed call changes nothing.                              *)
(***************************************************************************)
EXTENDS Wallet

CONSTANTS
  Storage,      \* the orders for storage capacity; the others buy a resource
  Grantable,    \* the resource orders the resource owner does not refuse
  Buyer,        \* the request that creates an order
  Recovery,     \* the recovery loop
  OrderOf,      \* the orders by creation time: 1..n -> Orders
  BatchLimit,   \* orders per page
  MaxFaults     \* bound on lost answers, lost races and crashes

ASSUME PurchaseAssumption ==
  /\ Storage \subseteq Orders /\ Grantable \subseteq Orders \ Storage
  /\ Buyer # Recovery
  /\ OrderOf \in [1..Cardinality(Orders) -> Orders]
  /\ BatchLimit \in Nat \ {0} /\ MaxFaults \in Nat

Actors == {Buyer, Recovery}

VARIABLES
  row,       \* commercial_orders
  granted,   \* resource grants, by order
  lot,       \* storage lots, by order
  actor,     \* the order each actor works on, where it stands, and while it
             \* decides by it, the copy of the order it read
  page,      \* the orders the recovery loop has still to visit
  after,     \* its cursor, 0 for none
  fresh,     \* actors whose copy of an order is current
  faults

effects == <<granted, lot>>

purchaseVars == <<money, row, granted, lot, actor, page, after, fresh, faults>>

Open == {"PENDING", "FUNDS_RESERVED", "FULFILLING", "RECONCILIATION_REQUIRED"}

NoRow == [status |-> "none", reservation |-> FALSE, proof |-> FALSE]

Job(pc, o) == [pc |-> pc, order |-> o, copy |-> NoRow]

Idle == Job("idle", "none")

PurchaseInit ==
  /\ LET paid == SumOf(TopUpMinor, Payments)
     IN  money = [available |-> paid, reserved |-> 0, debt |-> 0, topup |-> paid, spend |-> 0,
                  posted |-> Payments, effect |-> [r \in Reversals |-> NoReceipt],
                  hold |-> [r \in Reversals |-> "none"], admitted |-> {},
                  purchase |-> [o \in Orders |-> "none"]]
  /\ row = [o \in Orders |-> NoRow]
  /\ granted = {} /\ lot = [o \in Storage |-> "none"]
  /\ actor = [x \in Actors |-> Idle]
  /\ page = <<>> /\ after = 0
  /\ fresh = [o \in Orders |-> {}]
  /\ faults = 0

-----------------------------------------------------------------------------
(* Writing an order, and moving on.                                          *)

At(x, pc, o) == actor[x].pc = pc /\ actor[x].order = o

Goto(x, pc, o) == actor' = [actor EXCEPT ![x] = Job(pc, o)] /\ UNCHANGED <<row, fresh>>

Stop(x, o) ==
  /\ actor' = [actor EXCEPT ![x] = Idle]
  /\ fresh' = [fresh EXCEPT ![o] = @ \ {x}]
  /\ UNCHANGED row

\* updateOrder: a stale copy is refused, and every caller returns then.
SaveOrStop(x, o, new, pc) ==
  IF x \in fresh[o]
  THEN /\ row' = [row EXCEPT ![o] = new]
       /\ fresh' = [fresh EXCEPT ![o] = IF pc = "idle" THEN {} ELSE {x}]
       /\ actor' = [actor EXCEPT ![x] = IF pc = "idle" THEN Idle ELSE Job(pc, o)]
  ELSE Stop(x, o)

\* The copy that the caller saves with another status.
WithStatus(o, status) == [row[o] EXCEPT !.status = status, !.reservation = TRUE]

Cancelled == [status |-> "CANCELLED", reservation |-> FALSE, proof |-> FALSE]

Fault == faults < MaxFaults /\ faults' = faults + 1

NoFault == UNCHANGED faults

Still == UNCHANGED <<page, after>>

-----------------------------------------------------------------------------
(* The buying request: CreateResourceOrder.                                  *)

\* A new order is reserved for; an existing one without a durable money
\* decision too, any other is reconciled.
CreateResourceOrder(x, o) ==
  /\ x = Buyer /\ actor[x] = Idle
  /\ row[o].status \in Open \cup {"none"}
  /\ row' = [row EXCEPT ![o].status = IF @ = "none" THEN "PENDING" ELSE @]
  /\ fresh' = [fresh EXCEPT ![o] = @ \cup {x}]
  /\ actor' = [actor EXCEPT ![x] =
                 Job(IF row[o].status \in {"none", "PENDING"} /\ money.purchase[o] = "none"
                     THEN "reserve" ELSE "read", o)]
  /\ UNCHANGED <<money, effects, faults>> /\ Still

Decided(x, o, decision) ==
  Goto(x, IF decision = "rejected" THEN "rejected" ELSE "reserved", o)

\* The first call decides, a replay repeats the decision.
ReservePurchase(x, o) ==
  /\ At(x, "reserve", o)
  /\ \/ ReserveCommercialPurchase(o) /\ Decided(x, o, money'.purchase[o]) /\ NoFault
     \/ ReserveCommercialPurchase(o) /\ Stop(x, o) /\ Fault
     \/ money.purchase[o] # "none" /\ UNCHANGED money /\ Decided(x, o, money.purchase[o]) /\ NoFault
  /\ UNCHANGED effects /\ Still

SaveReserved(x, o) ==
  /\ \/ At(x, "rejected", o) /\ SaveOrStop(x, o, Cancelled, "idle")
     \/ At(x, "reserved", o)
        /\ SaveOrStop(x, o, WithStatus(o, "FUNDS_RESERVED"), IF o \in Storage THEN "storage" ELSE "grant")
  /\ UNCHANGED <<money, effects, faults>> /\ Still

-----------------------------------------------------------------------------
(* ReconcileResourceOrder and ReconcileStorageOrder, up to the effect.        *)

ReadOrder(x, o) ==
  /\ At(x, "read", o)
  /\ IF row[o].status \notin Open THEN Stop(x, o)
     ELSE /\ fresh' = [fresh EXCEPT ![o] = @ \cup {x}]
          /\ actor' = [actor EXCEPT ![x] = [pc |-> "decision", order |-> o, copy |-> row[o]]]
          /\ UNCHANGED row
  /\ UNCHANGED <<money, effects, faults>> /\ Still

\* No durable decision is no proof of a failed reserve: the order is left alone.
ReadDecision(x, o) ==
  LET decision == money.purchase[o]
      known    == actor[x].copy.reservation
      goes     == actor' = [actor EXCEPT ![x].pc = "reservation"] /\ UNCHANGED <<row, fresh>>
  IN  /\ At(x, "decision", o)
      /\ \/ known /\ o \in Storage /\ Goto(x, "storage", o)
         \/ (known \/ decision \notin {"none", "rejected"}) /\ o \notin Storage /\ goes
         \/ ~known /\ decision = "none" /\ Stop(x, o)
         \/ ~known /\ decision = "rejected" /\ SaveOrStop(x, o, Cancelled, "idle")
         \/ ~known /\ decision \notin {"none", "rejected"} /\ o \in Storage
            /\ SaveOrStop(x, o, WithStatus(o, "FUNDS_RESERVED"), "storage")
      /\ UNCHANGED <<money, effects, faults>> /\ Still

\* What the reservation has become decides a resource order.
ReadReservation(x, o) ==
  LET state == money.purchase[o]
      copy  == actor[x].copy
  IN  /\ At(x, "reservation", o)
      /\ \/ state = (IF copy.proof THEN "RELEASED" ELSE "COMMITTED") /\ Stop(x, o)
         \/ state = "RELEASED" /\ ~copy.proof /\ SaveOrStop(x, o, Cancelled, "idle")
         \/ state = "COMMITTED" /\ copy.proof /\ SaveOrStop(x, o, WithStatus(o, "FULFILLED"), "idle")
         \/ state = "RESERVED" /\ copy.status = "PENDING"
            /\ SaveOrStop(x, o, WithStatus(o, "FUNDS_RESERVED"), "regrant")
         \/ state = "RESERVED" /\ copy.status # "PENDING" /\ Goto(x, "regrant", o)
      /\ UNCHANGED <<money, effects, faults>> /\ Still

-----------------------------------------------------------------------------
(* A resource order: grant first, then commit.                               *)

\* The request records that it does not know; a reconciliation just returns.
GiveUp(x, o) ==
  IF actor[x].pc \in {"regrant", "rereject"} THEN Stop(x, o) ELSE Goto(x, "unsettled", o)

\* Mutant: any error of the resource owner is taken for its refusal.
AnyErrorRejects(failure) == TRUE

\* terminalGrantError: only a refusal of the request itself is final.
Rejects(failure) == failure = "refused"

GrantFailed(x, o, failure) ==
  IF Rejects(failure)
  THEN Goto(x, IF actor[x].pc = "grant" THEN "reject" ELSE "rereject", o)
  ELSE GiveUp(x, o)

\* GrantPurchasedResource.
GrantResource(x, o) ==
  /\ At(x, "grant", o) \/ At(x, "regrant", o)
  /\ \/ o \in Grantable /\ granted' = granted \cup {o} /\ Goto(x, "granted", o) /\ NoFault
     \/ o \notin Grantable /\ UNCHANGED granted /\ GrantFailed(x, o, "refused") /\ NoFault
     \/ o \in Grantable /\ granted' \in {granted, granted \cup {o}}
        /\ GrantFailed(x, o, "unavailable") /\ Fault
  /\ UNCHANGED <<money, lot>> /\ Still

\* finishReservation: repeated, it returns what it did; a call that loses the
\* race to an equal one, or its answer, fails.
Finish(o, can, next, done) ==
  \/ can /\ money' = next
  \/ money.purchase[o] = done /\ UNCHANGED money

FinishFails(o, can, next) ==
  Fault /\ (UNCHANGED money \/ (can /\ money' = next))

RejectGrant(x, o) ==
  /\ At(x, "reject", o) \/ At(x, "rereject", o)
  /\ \/ /\ Finish(o, CanRelease(money, o), Release(money, o), "RELEASED") /\ NoFault
        /\ Goto(x, "released", o)
     \/ FinishFails(o, CanRelease(money, o), Release(money, o)) /\ GiveUp(x, o)
  /\ UNCHANGED effects /\ Still

\* The proof of the grant is on the order before its money is spent.
SaveGranted(x, o) ==
  /\ At(x, "granted", o)
  /\ SaveOrStop(x, o, [WithStatus(o, "FULFILLING") EXCEPT !.proof = TRUE], "commit")
  /\ UNCHANGED <<money, effects, faults>> /\ Still

CommitPurchase(x, o) ==
  /\ At(x, "commit", o)
  /\ \/ /\ Finish(o, CanCommit(money, o), Commit(money, o), "COMMITTED") /\ NoFault
        /\ Goto(x, IF o \in Storage THEN "activate" ELSE "fulfilled", o)
     \/ FinishFails(o, CanCommit(money, o), Commit(money, o)) /\ Goto(x, "unsettled", o)
  /\ UNCHANGED effects /\ Still

SaveOutcome(x, o) ==
  /\ \/ At(x, "released", o) /\ SaveOrStop(x, o, Cancelled, "idle")
     \/ At(x, "fulfilled", o) /\ SaveOrStop(x, o, WithStatus(o, "FULFILLED"), "idle")
     \/ At(x, "unsettled", o) /\ SaveOrStop(x, o, WithStatus(o, "RECONCILIATION_REQUIRED"), "idle")
  /\ UNCHANGED <<money, effects, faults>> /\ Still

-----------------------------------------------------------------------------
(* A storage order: commit first, then activate the prepared lot.            *)

\* fulfillStorage reads the reservation and prepares the lot.
PrepareStorageOrder(x, o) ==
  /\ At(x, "storage", o)
  /\ lot' = [lot EXCEPT ![o] = IF @ = "none" THEN "prepared" ELSE @]
  /\ \/ money.purchase[o] = "RESERVED" /\ Goto(x, "prepared", o)
     \/ money.purchase[o] = "COMMITTED" /\ Goto(x, "activate", o)
  /\ UNCHANGED <<money, granted, faults>> /\ Still

SavePrepared(x, o) ==
  /\ At(x, "prepared", o)
  /\ SaveOrStop(x, o, WithStatus(o, "FULFILLING"), "commit")
  /\ UNCHANGED <<money, effects, faults>> /\ Still

\* ActivateStorageOrder: lot and order in one transaction.
ActivateStorageOrder(x, o) ==
  /\ At(x, "activate", o)
  /\ lot' = [lot EXCEPT ![o] = IF x \in fresh[o] THEN "active" ELSE @]
  /\ SaveOrStop(x, o, WithStatus(o, "FULFILLED"), "idle")
  /\ UNCHANGED <<money, granted, faults>> /\ Still

-----------------------------------------------------------------------------
(* The recovery loop, and crashes.                                           *)

\* Open orders behind the cursor, oldest first.
Listed == {i \in DOMAIN OrderOf : i > after /\ row[OrderOf[i]].status \in Open}

\* Mutant: the cursor stays where the page began.
StuckCursor(rows) == after

\* The cursor moves behind the page, and back to the start after the last one.
NextAfter(rows) == IF Len(rows) > BatchLimit THEN rows[BatchLimit] ELSE 0

Ascending(S) ==
  CHOOSE rows \in Orderings(S) : \A i, j \in DOMAIN rows : i < j => rows[i] < rows[j]

ListRecoverableResourceOrders ==
  LET rows == Ascending(Listed)
      head == SubSeq(rows, 1, Lesser(Len(rows), BatchLimit))
  IN  /\ actor[Recovery] = Idle /\ page = <<>>
      /\ page' = [i \in DOMAIN head |-> OrderOf[head[i]]]
      /\ after' = NextAfter(rows)
      /\ UNCHANGED <<money, row, effects, actor, fresh, faults>>

ReconcileNext ==
  /\ actor[Recovery] = Idle /\ page # <<>>
  /\ actor' = [actor EXCEPT ![Recovery] = Job("read", Head(page))]
  /\ page' = Tail(page)
  /\ UNCHANGED <<money, row, effects, after, fresh, faults>>

\* A restart of the server loses the cursor as well.
Crash(x) ==
  /\ actor[x] # Idle /\ Fault
  /\ Stop(x, actor[x].order)
  /\ IF x = Recovery THEN page' = <<>> /\ after' = 0 ELSE Still
  /\ UNCHANGED <<money, effects>>

-----------------------------------------------------------------------------
Work(x) ==
  \E o \in Orders :
    \/ ReservePurchase(x, o) \/ SaveReserved(x, o)
    \/ ReadOrder(x, o) \/ ReadDecision(x, o) \/ ReadReservation(x, o)
    \/ GrantResource(x, o) \/ RejectGrant(x, o) \/ SaveGranted(x, o)
    \/ CommitPurchase(x, o) \/ SaveOutcome(x, o)
    \/ (o \in Storage /\ (PrepareStorageOrder(x, o) \/ SavePrepared(x, o) \/ ActivateStorageOrder(x, o)))

Recover == Work(Recovery) \/ ListRecoverableResourceOrders \/ ReconcileNext

PurchaseNext ==
  \/ \E o \in Orders : CreateResourceOrder(Buyer, o)
  \/ Work(Buyer)
  \/ Recover
  \/ \E x \in Actors : Crash(x)

\* The recovery loop runs as long as the server; a request may stop anywhere.
PurchaseSpec == PurchaseInit /\ [][PurchaseNext]_purchaseVars /\ WF_purchaseVars(Recover)

-----------------------------------------------------------------------------
(* Properties.                                                               *)

Delivered(o) == o \in granted \/ (o \in Storage /\ lot[o] = "active")

\* Order, money and effect agree, whichever of the two actors wrote them: what
\* was delivered is paid or still held and never given back, money is spent on
\* a resource only once it is granted and storage is active only once it is
\* paid, and the order says so.
PurchaseAgrees ==
  \A o \in Orders :
    /\ Delivered(o) => money.purchase[o] \in {"RESERVED", "COMMITTED"}
    /\ (o \in Storage /\ Delivered(o)) => money.purchase[o] = "COMMITTED"
    /\ (o \notin Storage /\ money.purchase[o] = "COMMITTED") => Delivered(o)
    /\ row[o].status = "FULFILLED" => money.purchase[o] = "COMMITTED" /\ Delivered(o)
    /\ row[o].status = "CANCELLED" => money.purchase[o] \in {"rejected", "RELEASED"} /\ ~Delivered(o)

\* An order the money owner has decided on is finished by the recovery loop
\* alone, even when its request died and orders that nobody can finish, having
\* no decision, fill the pages before it.
PurchaseSettles ==
  \A o \in Orders : money.purchase[o] # "none" ~> row[o].status \in {"FULFILLED", "CANCELLED"}
=============================================================================
