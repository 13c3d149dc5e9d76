----------------------------- MODULE TopUpOrder -----------------------------
(***************************************************************************)
(* One wallet top-up order (internal/commercial/billing/topup_service.go and  *)
(* internal/integration/persistence/commercialbilling/topup_repository.go):   *)
(* the payment attempt row, its inbox of verified provider observations, the  *)
(* checkout, the cancellation, and the reconciliation that two processes may  *)
(* run at once, with the money owner of Wallet behind it.                     *)
(*                                                                         *)
(* The attempt row is written by compare-and-swap on its version.  A writer   *)
(* whose version is still the row's is in "fresh"; every write and every newly *)
(* recorded observation makes all other copies stale, and a stale write fails  *)
(* and changes nothing.  The provider (Alipay, WeChat Pay) is external.        *)
(***************************************************************************)
EXTENDS Wallet

CONSTANTS
  Workers,    \* processes that run ReconcileTopUpOrder
  Client,     \* the request that opens the checkout
  Payment,    \* the payment of this order, the one member of Payments
  Abnormal,   \* refunds the provider announces before their result is known
  RefundResults,  \* how a refund may end: "refunded" or "closed"
  MaxFaults   \* bound on crashes, failed calls, early ends of leases, repeated cancels

ASSUME OrderAssumption ==
  /\ Payments = {Payment} /\ Client \notin Workers
  /\ Abnormal \subseteq Reversals /\ RefundResults \subseteq {"refunded", "closed"}
  /\ MaxFaults \in Nat

VARIABLES
  attempt,   \* commercial_topup_attempts: the columns and payload the code branches on
  order,     \* status of the commercial order row
  inbox,     \* commercial_topup_inbox
  expired,   \* ExpiresAt has passed
  trade,     \* at the provider: the trade
  refunds,   \* at the provider: refunds made outside this system
  work,      \* what each running reconciliation has read and where it stands
  client,    \* the checkout request
  fresh,     \* who holds a copy of the attempt at its current version
  faults

orderVars == <<money, attempt, order, inbox, expired, trade, refunds, work, client, fresh, faults>>

Phases == {"CREATED", "AWAITING_PAYMENT", "PAID_PENDING_CREDIT", "COMPLETED",
           "CLOSED_UNPAID", "RECONCILIATION_REQUIRED"}

\* Verified observations.  A query's identity is derived from what it says, a
\* notice has one of its own, so that one fact may be recorded once by each.
Fact(state, by) == [state |-> state, refund |-> "none", by |-> by]
RefundFact(state, r, by) == [state |-> state, refund |-> r, by |-> by]

PaymentStates == {"PAID", "PAID_REFUND_UNKNOWN", "UNPAID", "NOT_FOUND", "CLOSED"}

Facts ==
  {Fact(s, by) : s \in PaymentStates, by \in {"query", "notice"}}
    \cup {RefundFact(s, r, by) : s \in {"REFUND_PENDING", "REFUNDED", "REFUND_CLOSED"},
                                 r \in Reversals, by \in {"query", "notice"}}

PaidIn(seen) == \E o \in seen : o.state \in {"PAID", "PAID_REFUND_UNKNOWN"}

Idle == [pc |-> "idle", seen |-> {}, normal |-> FALSE,
         admitted |-> FALSE, sealed |-> FALSE, closing |-> FALSE]

OrderTypeOK ==
  /\ attempt \in [phase : Phases, admitted : BOOLEAN, sealed : BOOLEAN, closing : BOOLEAN,
                  needs : BOOLEAN, lease : Workers \cup {Client, "none"}, lapsed : BOOLEAN]
  /\ order \in {"pending", "cancelled", "fulfilled"}
  /\ inbox \subseteq Facts
  /\ fresh \subseteq Workers \cup {Client}

OrderInit ==
  /\ MoneyInit
  /\ attempt = [phase |-> "CREATED", admitted |-> FALSE, sealed |-> FALSE, closing |-> FALSE,
                needs |-> FALSE, lease |-> "none", lapsed |-> FALSE]
  /\ order = "pending" /\ inbox = {} /\ expired = FALSE
  /\ trade = "none" /\ refunds = [r \in Reversals |-> "none"]
  /\ work = [w \in Workers |-> Idle]
  /\ client = "idle" /\ fresh = {} /\ faults = 0

-----------------------------------------------------------------------------
(* Writing the attempt row and the inbox.                                    *)

\* SaveTopUpAttempt at the current version, which the given writers then hold;
\* closing the attempt cancels the order in the same transaction, and fails when
\* that one is fulfilled.
Writable(row) == row.phase = "CLOSED_UNPAID" => order # "fulfilled"

Save(copies, row) ==
  /\ Writable(row)
  /\ attempt' = row
  /\ order' = IF row.phase = "CLOSED_UNPAID" THEN "cancelled" ELSE order
  /\ fresh' = copies

Unleased(row) == [row EXCEPT !.lease = "none", !.lapsed = FALSE]

\* Mutant: a new observation leaves the version alone.
RecordedUnversioned(o, readers) ==
  /\ inbox' = inbox \cup {o}
  /\ attempt' = IF o \in inbox THEN attempt ELSE [attempt EXCEPT !.needs = TRUE]
  /\ fresh' = fresh \cup readers
  /\ UNCHANGED order

\* RecordTopUpObservation: a new observation advances the version and asks for
\* reconciliation, a repeated one changes nothing; the readers then read the
\* attempt again.
Recorded(o, readers) ==
  /\ inbox' = inbox \cup {o}
  /\ attempt' = IF o \in inbox THEN attempt ELSE [attempt EXCEPT !.needs = TRUE]
  /\ fresh' = (IF o \in inbox THEN fresh ELSE {}) \cup readers
  /\ UNCHANGED order

-----------------------------------------------------------------------------
(* The provider (external).                                                  *)

ProviderStep ==
  /\ trade = "open" /\ trade' \in {"paid", "closed"}
  /\ UNCHANGED <<money, attempt, order, inbox, expired, refunds, work, client, fresh, faults>>

RefundOutside(r) ==
  /\ trade = "paid" /\ refunds[r] = "none"
  /\ \E result \in RefundResults : refunds' = [refunds EXCEPT ![r] = result]
  /\ UNCHANGED <<money, attempt, order, inbox, expired, trade, work, client, fresh, faults>>

\* QueryRefund; a refund that is pending leaves its hint unresolved.
RefundAnswer(r, by) ==
  CASE refunds[r] = "refunded" -> {RefundFact("REFUNDED", r, by)}
    [] refunds[r] = "closed"   -> {RefundFact("REFUND_CLOSED", r, by)}
    [] OTHER                   -> {}

\* How a paid trade is reported: WeChat Pay has one state for every trade with
\* refunds, Alipay calls it paid until all of it was refunded.
PaidAnswer ==
  LET seen == {r \in Reversals : refunds[r] # "none"}
      returned == SumOf(ReversalMinor, {r \in Reversals : refunds[r] = "refunded"})
  IN  (IF returned < TopUpMinor[Payment] THEN {"PAID"} ELSE {})
        \cup (IF seen # {} THEN {"PAID_REFUND_UNKNOWN"} ELSE {})

\* absentPayment: a trade that does not exist once its checkout has expired is
\* closed.
AbsentPayment == IF expired THEN "CLOSED" ELSE "NOT_FOUND"

\* QueryPayment.  A checkout that was offered is unpaid, or not found until the
\* payer opens its page, which the code treats alike.
PaymentAnswer ==
  CASE trade = "paid"   -> {Fact(s, "query") : s \in PaidAnswer}
    [] trade = "open"   -> {Fact("UNPAID", "query")}
    [] trade = "closed" -> {Fact("CLOSED", "query")}
    [] OTHER            -> {Fact(AbsentPayment, "query")}

\* VerifyNotification.  Alipay announces a closed trade as well as a paid one.
\* One that awaits its payer it may announce too; the fact would only advance
\* the version once more, and is left out.
TradeNotice == [paid |-> "PAID", closed |-> "CLOSED"]

Announced ==
  {Fact(TradeNotice[t], "notice") : t \in {trade} \cap DOMAIN TradeNotice}
    \cup {RefundFact("REFUND_PENDING", r, "notice") : r \in {r \in Abnormal : refunds[r] # "none"}}
    \cup UNION {RefundAnswer(r, "notice") : r \in Reversals \ Abnormal}

\* RecordVerifiedPaymentObservation: a signed notice, once, late or repeatedly.
Notify(o) ==
  /\ o \in Announced \ inbox
  /\ Recorded(o, {})
  /\ UNCHANGED <<money, expired, trade, refunds, work, client, faults>>

\* Once the payment is known, expiry no longer decides anything.
Expire ==
  /\ ~expired /\ ~PaidIn(inbox)
  /\ expired' = TRUE
  /\ UNCHANGED <<money, attempt, order, inbox, trade, refunds, work, client, fresh, faults>>

-----------------------------------------------------------------------------
(* CheckoutTopUp and CancelTopUp.                                            *)

CheckoutTopUp ==
  /\ client = "idle"
  /\ ~expired /\ ~attempt.closing /\ ~attempt.needs /\ ~attempt.admitted
  /\ attempt.phase \notin {"CLOSED_UNPAID", "COMPLETED", "PAID_PENDING_CREDIT"}
  /\ Save({Client}, [attempt EXCEPT !.admitted = TRUE, !.phase = "AWAITING_PAYMENT",
                                    !.lease = Client, !.lapsed = FALSE])
  /\ client' = "called"
  /\ UNCHANGED <<money, inbox, expired, trade, refunds, work, faults>>

\* CreateOrReadCheckout answers that nothing was dispatched, answers with the
\* checkout, or fails with the checkout dispatched or not.  The answer is saved
\* only by a client whose copy is still current.
CheckoutAnswered(result, dispatched, row) ==
  /\ client = "called"
  /\ client' = "done"
  /\ trade' = IF dispatched THEN "open" ELSE trade
  /\ \/ Client \in fresh /\ Save({}, row)
     \/ Client \notin fresh /\ UNCHANGED <<attempt, order, fresh>>
  /\ faults' = IF result = "unknown" THEN faults + 1 ELSE faults
  /\ UNCHANGED <<money, inbox, expired, refunds, work>>

CheckoutResult ==
  \/ CheckoutAnswered("not_dispatched", FALSE, Unleased([attempt EXCEPT !.phase = "CLOSED_UNPAID"]))
  \/ CheckoutAnswered("sealed", TRUE, Unleased([attempt EXCEPT !.sealed = TRUE]))
  \/ /\ faults < MaxFaults
     /\ \E dispatched \in BOOLEAN :
          CheckoutAnswered("unknown", dispatched,
                           Unleased([attempt EXCEPT !.phase = "RECONCILIATION_REQUIRED"]))

\* An attempt that never reached the provider closes at once; any other one
\* only asks for the close.  The lease is not looked at.  Repeating the request
\* writes the row again, and counts as a fault: without a bound the client could
\* make every copy of the attempt stale for ever.
CancelTopUp ==
  /\ attempt.phase \notin {"COMPLETED", "PAID_PENDING_CREDIT", "CLOSED_UNPAID"}
  /\ attempt.closing => faults < MaxFaults
  /\ LET closed == ~attempt.admitted /\ ~attempt.needs
     IN  Save({}, [attempt EXCEPT !.closing = TRUE,
                                  !.phase = IF closed THEN "CLOSED_UNPAID" ELSE @])
  /\ faults' = IF attempt.closing THEN faults + 1 ELSE faults
  /\ UNCHANGED <<money, inbox, expired, trade, refunds, work, client>>

ClientCrash ==
  /\ client = "called" /\ faults < MaxFaults
  /\ client' = "done"
  /\ trade' \in {trade, "open"}
  /\ faults' = faults + 1
  /\ UNCHANGED <<money, attempt, order, inbox, expired, refunds, work, fresh>>

-----------------------------------------------------------------------------
(* ReconcileTopUpOrder.                                                      *)

At(w, pc) == work[w].pc = pc

Goto(w, pc) == work' = [work EXCEPT ![w].pc = pc]

Stop(w) == work' = [work EXCEPT ![w] = Idle]

\* A write of worker w's copy: it succeeds and work goes on at pc, or it is
\* stale, fails and ends the reconciliation.
SaveOrStop(w, row, pc) ==
  IF w \in fresh /\ Writable(row)
  THEN /\ Save(IF pc = "idle" THEN {} ELSE {w}, row)
       /\ IF pc = "idle" THEN Stop(w) ELSE Goto(w, pc)
  ELSE Stop(w) /\ UNCHANGED <<attempt, order, fresh>>

\* Mutant: a lease is respected even when it has run out.
LeasedForever == attempt.lease # "none"

Leased == attempt.lease # "none" /\ ~attempt.lapsed

Settled == attempt.phase \in {"COMPLETED", "CLOSED_UNPAID"} /\ ~attempt.needs

\* The copy of the attempt that decides the branches.
Copied(w, pc) ==
  [work[w] EXCEPT !.pc = pc, !.admitted = attempt.admitted,
                  !.sealed = attempt.sealed, !.closing = attempt.closing]

\* The lease is taken by compare-and-swap before anything else.
TakeLease(w) ==
  /\ At(w, "idle") /\ ~Leased /\ ~Settled
  /\ Save({w}, [attempt EXCEPT !.lease = w, !.lapsed = FALSE,
                               !.phase = IF @ = "COMPLETED" THEN "PAID_PENDING_CREDIT" ELSE @])
  /\ work' = [work EXCEPT ![w] = Copied(w, "read")]
  /\ UNCHANGED <<money, inbox, expired, trade, refunds, client, faults>>

\* The inbox is read after the attempt; only an unpaid attempt looks back at it.
Observed(w, unpaid) ==
  IF PaidIn(inbox) THEN [Idle EXCEPT !.pc = "paid", !.seen = inbox]
                   ELSE [work[w] EXCEPT !.pc = unpaid, !.seen = inbox]

ReadTopUpObservations(w) ==
  /\ At(w, "read")
  /\ work' = [work EXCEPT ![w] = IF work[w].admitted
                                 THEN Observed(w, "query")
                                 ELSE [Observed(w, "unpaid") EXCEPT !.normal = inbox = {}]]
  /\ UNCHANGED <<money, attempt, order, inbox, expired, trade, refunds, client, fresh, faults>>

\* After recording an answer the worker reads the attempt again and goes on only
\* while the lease is still its own.
KeepsLease(w) == attempt.lease = w /\ ~attempt.lapsed

Reread(w, o, next) ==
  /\ Recorded(o, IF KeepsLease(w) THEN {w} ELSE {})
  /\ work' = [work EXCEPT ![w] = IF KeepsLease(w) THEN next ELSE Idle]

\* QueryPayment, and the record of what it answers.  An unpaid trade, or one not
\* opened yet, is no cause for concern while a checkout can be offered.
QueryPayment(w) ==
  /\ At(w, "query")
  /\ \E o \in PaymentAnswer :
       Reread(w, o, [Copied(w, "reread") EXCEPT
                       !.normal = o.state = "UNPAID" /\ work[w].sealed])
  /\ UNCHANGED <<money, expired, trade, refunds, client, faults>>

QueryFails(w) ==
  /\ At(w, "query") /\ faults < MaxFaults
  /\ work' = [work EXCEPT ![w].pc = "unpaid", ![w].normal = FALSE]
  /\ faults' = faults + 1
  /\ UNCHANGED <<money, attempt, order, inbox, expired, trade, refunds, client, fresh>>

RereadObservations(w) ==
  /\ At(w, "reread")
  /\ work' = [work EXCEPT ![w] = Observed(w, "unpaid")]
  /\ UNCHANGED <<money, attempt, order, inbox, expired, trade, refunds, client, fresh, faults>>

\* deferTopUp: the attempt is looked at again later.
Defer(w) ==
  SaveOrStop(w, Unleased([attempt EXCEPT !.phase = "RECONCILIATION_REQUIRED", !.needs = FALSE]), "idle")

\* The inbox or the provider cannot be reached, or the result of a refund is not
\* known yet.
DeferUnavailable(w) ==
  /\ work[w].pc \in {"read", "query", "paid"} /\ faults < MaxFaults
  /\ Defer(w)
  /\ faults' = faults + 1
  /\ UNCHANGED <<money, inbox, expired, trade, refunds, client>>

-----------------------------------------------------------------------------
(* ReconcileTopUpOrder, the payment known.                                   *)

Resolved(seen) == {o.refund : o \in {x \in seen : x.state \in {"REFUNDED", "REFUND_CLOSED"}}}

Hinted(seen) == {o.refund : o \in {x \in seen : x.state = "REFUND_PENDING"}} \ Resolved(seen)

Refunded(seen) == {o.refund : o \in {x \in seen : x.state = "REFUNDED"}}

\* A refund that was only announced is asked for by its request id.  What the
\* query answers joins the observations read before; they are not read again.
ResolveHint(w) ==
  /\ At(w, "paid")
  /\ \E r \in Hinted(work[w].seen) :
       \E o \in RefundAnswer(r, "query") :
            Reread(w, o, [work[w] EXCEPT !.seen = @ \cup {o}])
  /\ UNCHANGED <<money, expired, trade, refunds, client, faults>>

\* A refund state of the whole trade names no refund: the payment waits until
\* the known refunds cover all of it.
RefundDetailsUnknown(seen) ==
  /\ \E o \in seen : o.state = "PAID_REFUND_UNKNOWN"
  /\ SumOf(ReversalMinor, Refunded(seen)) < TopUpMinor[Payment]

BeginPosting(w) ==
  /\ At(w, "paid") /\ Hinted(work[w].seen) = {}
  /\ IF RefundDetailsUnknown(work[w].seen)
     THEN Defer(w)
     ELSE SaveOrStop(w, [attempt EXCEPT !.phase = "PAID_PENDING_CREDIT", !.needs = FALSE], "post")
  /\ UNCHANGED <<money, inbox, expired, trade, refunds, client, faults>>

\* Mutant: the credit is posted without the refunds already known.
KnownNone(w) == {<<>>}

KnownReversals(w) == Orderings(Refunded(work[w].seen))

PostTopUp(w) ==
  /\ At(w, "post")
  /\ \E known \in KnownReversals(w) :
       AcceptAndPostProviderTopUp(Payment, known)
  /\ Goto(w, "complete")
  /\ UNCHANGED <<attempt, order, inbox, expired, trade, refunds, client, fresh, faults>>

\* The call fails, before or after the owner's commit; ReadTopUpPosting decides
\* whether the order may still be completed.
PostFails(w) ==
  /\ At(w, "post") /\ faults < MaxFaults
  /\ \/ \E known \in KnownReversals(w) : AcceptAndPostProviderTopUp(Payment, known)
     \/ UNCHANGED money
  /\ Goto(w, IF Payment \in money'.posted /\ Refunded(work[w].seen) = {} THEN "complete" ELSE "defer")
  /\ faults' = faults + 1
  /\ UNCHANGED <<attempt, order, inbox, expired, trade, refunds, client, fresh>>

DeferUnposted(w) ==
  /\ At(w, "defer")
  /\ Defer(w)
  /\ UNCHANGED <<money, inbox, expired, trade, refunds, client, faults>>

CompleteTopUpOrder(w) ==
  /\ At(w, "complete")
  /\ Stop(w)
  /\ \/ /\ w \in fresh
        /\ attempt' = Unleased([attempt EXCEPT !.phase = "COMPLETED", !.sealed = FALSE, !.needs = FALSE])
        /\ order' = "fulfilled" /\ fresh' = {}
     \/ w \notin fresh /\ UNCHANGED <<attempt, order, fresh>>
  /\ UNCHANGED <<money, inbox, expired, trade, refunds, client, faults>>

-----------------------------------------------------------------------------
(* ReconcileTopUpOrder, no payment known.                                    *)

ConfirmedClosed(seen) == \E o \in seen : o.state = "CLOSED"

WantsClose(w) == ConfirmedClosed(work[w].seen) \/ work[w].closing \/ expired

\* Nothing was ever offered to the payer, or the provider confirmed the close.
MayClose(w) == ~work[w].admitted \/ ConfirmedClosed(work[w].seen)

RequestClose(w) ==
  /\ At(w, "unpaid") /\ WantsClose(w) /\ ~work[w].closing
  /\ \/ /\ w \in fresh
        /\ Save({w}, [attempt EXCEPT !.closing = TRUE])
        /\ work' = [work EXCEPT ![w].closing = TRUE]
     \/ w \notin fresh /\ Stop(w) /\ UNCHANGED <<attempt, order, fresh>>
  /\ UNCHANGED <<money, inbox, expired, trade, refunds, client, faults>>

\* ClosePayment closes an unpaid trade and reports what became of it; a payment
\* that came first drops the lease and starts over.
ClosePayment(w) ==
  /\ At(w, "unpaid") /\ work[w].closing /\ ~MayClose(w)
  /\ trade \in {"open", "paid", "closed"}
  /\ trade' = IF trade = "open" THEN "closed" ELSE trade
  /\ IF trade = "paid"
     THEN \E o \in PaymentAnswer : Reread(w, o, Copied(w, "again"))
     ELSE Reread(w, Fact("CLOSED", "query"), Copied(w, "closed"))
  /\ UNCHANGED <<money, expired, refunds, client, faults>>

CloseFails(w) ==
  /\ At(w, "unpaid") /\ work[w].closing /\ ~MayClose(w)
  /\ Defer(w)
  /\ UNCHANGED <<money, inbox, expired, trade, refunds, client, faults>>

StartOver(w) ==
  /\ At(w, "again")
  /\ SaveOrStop(w, Unleased(attempt), "idle")
  /\ UNCHANGED <<money, inbox, expired, trade, refunds, client, faults>>

CloseUnpaid(w) ==
  /\ \/ At(w, "closed")
     \/ At(w, "unpaid") /\ work[w].closing /\ MayClose(w)
  /\ SaveOrStop(w, Unleased([attempt EXCEPT !.phase = "CLOSED_UNPAID",
                                            !.sealed = FALSE, !.needs = FALSE]), "idle")
  /\ UNCHANGED <<money, inbox, expired, trade, refunds, client, faults>>

\* Still waiting for the payer, or nothing conclusive.
KeepWaiting(w) ==
  /\ At(w, "unpaid") /\ ~WantsClose(w)
  /\ IF work[w].normal /\ \A o \in work[w].seen : o.refund = "none"
     THEN SaveOrStop(w, Unleased([attempt EXCEPT
                          !.phase = IF attempt.admitted THEN "AWAITING_PAYMENT" ELSE "CREATED",
                          !.needs = FALSE]), "idle")
     ELSE Defer(w)
  /\ UNCHANGED <<money, inbox, expired, trade, refunds, client, faults>>

-----------------------------------------------------------------------------
(* Leases, crashes and the whole.                                            *)

Crash(w) ==
  /\ ~At(w, "idle") /\ faults < MaxFaults
  /\ Stop(w)
  /\ fresh' = fresh \ {w} /\ faults' = faults + 1
  /\ UNCHANGED <<money, attempt, order, inbox, expired, trade, refunds, client>>

Holding(who) == IF who = Client THEN client = "called" ELSE ~At(who, "idle")

\* A call is bounded by less than its lease, so that a lease only runs out on a
\* holder that still works when that holder was held up.
Lapse ==
  /\ Leased
  /\ Holding(attempt.lease) => faults < MaxFaults
  /\ attempt' = [attempt EXCEPT !.lapsed = TRUE]
  /\ faults' = IF Holding(attempt.lease) THEN faults + 1 ELSE faults
  /\ UNCHANGED <<money, order, inbox, expired, trade, refunds, work, client, fresh>>

WorkerStep(w) ==
  \/ TakeLease(w) \/ ReadTopUpObservations(w) \/ QueryPayment(w) \/ RereadObservations(w)
  \/ ResolveHint(w) \/ BeginPosting(w) \/ PostTopUp(w) \/ DeferUnposted(w)
  \/ CompleteTopUpOrder(w)
  \/ RequestClose(w) \/ ClosePayment(w) \/ CloseFails(w) \/ StartOver(w) \/ CloseUnpaid(w)
  \/ KeepWaiting(w)

OrderNext ==
  \/ ProviderStep \/ Expire \/ Lapse
  \/ \E r \in Reversals : RefundOutside(r)
  \/ \E o \in Announced : Notify(o)
  \/ CheckoutTopUp \/ CheckoutResult \/ ClientCrash \/ CancelTopUp
  \/ \E w \in Workers :
       WorkerStep(w) \/ QueryFails(w) \/ DeferUnavailable(w) \/ PostFails(w) \/ Crash(w)

\* The recovery loop runs as long as the process (commercial_billing_module.go),
\* and leases run out.
OrderFairness ==
  /\ \A w \in Workers : WF_orderVars(WorkerStep(w))
  /\ WF_orderVars(Lapse)

OrderSpec == OrderInit /\ [][OrderNext]_orderVars

FairOrderSpec == OrderSpec /\ OrderFairness

-----------------------------------------------------------------------------
(* Properties.                                                               *)

\* An order that reports completion with nothing left to reconcile has credited
\* its payment, has taken back every refund the inbox knows, and has resolved
\* every refund it was told of: no observation is lost to a reconciliation that
\* read the inbox before it arrived.
NothingForgotten ==
  attempt.phase = "COMPLETED" /\ ~attempt.needs =>
    /\ Payment \in money.posted
    /\ \A r \in Refunded(inbox) : Replayed(money, r)
    /\ Hinted(inbox) = {}

\* An attempt closed as unpaid with nothing left to reconcile has no payment in
\* its inbox and nothing in the wallet, and its order is cancelled: a payment
\* that races the cancellation, the expiry or the provider's close is not lost.
ClosedIsUnpaid ==
  attempt.phase = "CLOSED_UNPAID" /\ ~attempt.needs =>
    /\ ~PaidIn(inbox)
    /\ Payment \notin money.posted
    /\ order = "cancelled"

\* A payment the provider announced is credited and its order completed in the
\* end, through lost responses, crashes, lapsed leases and a racing cancellation
\* or checkout, unless the provider reported refunds without naming them.
PaidIsCredited ==
  Fact("PAID", "notice") \in inbox
    ~> \/ Payment \in money.posted /\ order = "fulfilled"
       \/ \E o \in inbox : o.state = "PAID_REFUND_UNKNOWN"
=============================================================================
