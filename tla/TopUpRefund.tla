---------------------------- MODULE TopUpRefund -----------------------------
(***************************************************************************)
(* Approved refunds of a posted wallet top-up                                *)
(* (internal/commercial/billing/topup_service.go): the refund intent row in   *)
(* the billing database, the hold and its admission at the money owner, and   *)
(* the refund at the provider, driven by the approving request and by the     *)
(* recovery loop at once.                                                     *)
(*                                                                         *)
(* An intent row is written by compare-and-swap on its version; "fresh" holds *)
(* the actors whose copy is current.  A refund request that was sent may      *)
(* reach the provider late or, if it was lost, only when it is sent again.     *)
(***************************************************************************)
EXTENDS Wallet

CONSTANTS
  Payment,    \* the posted payment
  Approver,   \* the request that approves refunds, repeated at will
  Workers,    \* recovery processes
  MaxFaults   \* bound on lost requests and answers, crashes and overrun leases

ASSUME RefundAssumption ==
  /\ Payment \in Payments
  /\ Approver \notin Workers /\ MaxFaults \in Nat

\* The reversals that are refunds of this payment.
Refunds == {r \in Reversals \ Chargebacks : Against[r] = Payment}

Actors == {Approver} \cup Workers

VARIABLES
  intent,    \* commercial_topup_refunds
  sent,      \* refunds whose request is on its way or at the provider
  provider,  \* the provider's refund of each request
  inbox,     \* reversals the payment inbox knows as REFUNDED
  actor,     \* the refund each actor works on and where it stands
  fresh,     \* actors whose copy of an intent is at its current version
  faults

refundVars == <<money, intent, sent, provider, inbox, actor, fresh, faults>>

Idle == [pc |-> "idle", refund |-> "none"]

\* The order is completed: its payment, perhaps with others, is in the wallet.
RefundInit ==
  /\ \E posted \in SUBSET Payments :
       LET paid == SumOf(TopUpMinor, posted)
       IN  /\ Payment \in posted /\ paid <= MaxInt
           /\ money = [available |-> paid, reserved |-> 0, debt |-> 0, topup |-> paid, spend |-> 0,
                       posted |-> posted, effect |-> [r \in Reversals |-> NoReceipt],
                       hold |-> [r \in Reversals |-> "none"], admitted |-> {},
                       purchase |-> [o \in Orders |-> "none"]]
  /\ intent = [r \in Refunds |-> [state |-> "none", dispatched |-> FALSE,
                                  lease |-> "none", lapsed |-> FALSE]]
  /\ sent = {} /\ inbox = {}
  /\ provider = [r \in Refunds |-> "none"]
  /\ actor = [x \in Actors |-> Idle]
  /\ fresh = [r \in Refunds |-> {}]
  /\ faults = 0

-----------------------------------------------------------------------------
(* Writing an intent, and moving on.                                         *)

At(x, pc, r) == actor[x] = [pc |-> pc, refund |-> r]

Goto(x, pc, r) == actor' = [actor EXCEPT ![x] = [pc |-> pc, refund |-> r]] /\ UNCHANGED fresh

Stop(x, r) ==
  /\ actor' = [actor EXCEPT ![x] = Idle]
  /\ fresh' = [fresh EXCEPT ![r] = @ \ {x}]

Unleased(row) == [row EXCEPT !.lease = "none", !.lapsed = FALSE]

\* Mutant: a lease is respected even when it has run out.
LeasedForever(r) == intent[r].lease # "none"

Leased(r) == intent[r].lease # "none" /\ ~intent[r].lapsed

\* SaveTopUpRefund: a stale copy is refused and ends the call.
SaveOrStop(x, r, row, pc) ==
  IF x \in fresh[r]
  THEN /\ intent' = [intent EXCEPT ![r] = row]
       /\ fresh' = [fresh EXCEPT ![r] = IF pc = "idle" THEN {} ELSE {x}]
       /\ actor' = [actor EXCEPT ![x] = IF pc = "idle" THEN Idle ELSE [pc |-> pc, refund |-> r]]
  ELSE Stop(x, r) /\ UNCHANGED intent

\* A call may take effect and lose its answer.
Fault == faults < MaxFaults /\ faults' = faults + 1

NoFault == UNCHANGED faults

-----------------------------------------------------------------------------
(* ApproveTopUpRefund.                                                       *)

\* Creates the intent or replays it; a dispatched one is only reconciled.
Approve(x, r) ==
  /\ actor[x] = Idle
  /\ intent[r].state \notin {"CONFIRMED", "RELEASED"}
  /\ intent' = [intent EXCEPT ![r].state = IF @ = "none" THEN "PREPARED" ELSE @]
  /\ fresh' = [fresh EXCEPT ![r] = @ \cup {x}]
  /\ actor' = [actor EXCEPT ![x] = [pc |-> IF intent[r].dispatched THEN "lease" ELSE "prepare",
                                    refund |-> r]]
  /\ UNCHANGED <<money, sent, provider, inbox, faults>>

\* A hold that exists is replayed, whatever became of it.
PrepareHold(x, r) ==
  /\ At(x, "prepare", r)
  /\ \/ money.hold[r] # "none" /\ UNCHANGED money /\ Goto(x, "admit", r) /\ NoFault
     \/ PrepareTopUpRefund(r) /\ Goto(x, "admit", r) /\ NoFault
     \/ PrepareTopUpRefund(r) /\ Stop(x, r) /\ Fault
     \/ money.hold[r] = "none" /\ ~CanPrepare(money, r) /\ UNCHANGED money /\ Stop(x, r) /\ NoFault
  /\ UNCHANGED <<intent, sent, provider, inbox>>

\* The authorization is asked for again and may be gone; the answer of an
\* admission may be lost.
AdmitHold(x, r) ==
  /\ At(x, "admit", r)
  /\ \/ r \in money.admitted /\ UNCHANGED money /\ Goto(x, "dispatch", r)
     \/ AdmitTopUpRefund(r) /\ Goto(x, "dispatch", r)
     \/ UNCHANGED money /\ Goto(x, "undo", r)
  /\ UNCHANGED <<intent, sent, provider, inbox, faults>>

AdmitAnswerLost(x, r) ==
  /\ At(x, "admit", r)
  /\ AdmitTopUpRefund(r) /\ Goto(x, "undo", r) /\ Fault
  /\ UNCHANGED <<intent, sent, provider, inbox>>

\* Mutant: the request takes its own error for a proof that nothing was sent.
TrustedError == TRUE

\* No local flag authorizes a release: only the money owner knows admissions.
LocalProof == FALSE

\* releaseUndispatchedTopUpRefund.
UndoHold(x, r) ==
  /\ At(x, "undo", r)
  /\ \/ ReleaseTopUpRefundHold(r, LocalProof) /\ Goto(x, "undone", r)
     \/ money.hold[r] = "RELEASED" /\ UNCHANGED money /\ Goto(x, "undone", r)
     \/ /\ money.hold[r] # "RELEASED" /\ ~CanReleaseHold(money, r, LocalProof)
        /\ UNCHANGED money /\ Stop(x, r)
  /\ UNCHANGED <<intent, sent, provider, inbox, faults>>

MarkDispatched(x, r) ==
  /\ At(x, "dispatch", r)
  /\ SaveOrStop(x, r, [state |-> "UNKNOWN", dispatched |-> TRUE, lease |-> x, lapsed |-> FALSE], "call")
  /\ UNCHANGED <<money, sent, provider, inbox, faults>>

\* p.Refund leaves for the provider; the caller waits for at most ten seconds.
Refund(x, r) ==
  /\ \/ At(x, "call", r) /\ Goto(x, "called", r)
     \/ At(x, "replay", r) /\ Goto(x, "replayed", r)
  /\ sent' = sent \cup {r}
  /\ UNCHANGED <<money, intent, provider, inbox, faults>>

\* An answer is recorded, an error is not; then the request reconciles.
Called(x, r) ==
  /\ At(x, "called", r)
  /\ inbox' \in {inbox} \cup {inbox \cup {s} : s \in {r} \cap {s \in Refunds : provider[s] = "refunded"}}
  /\ SaveOrStop(x, r, Unleased(intent[r]), "lease")
  /\ UNCHANGED <<money, sent, provider, faults>>

-----------------------------------------------------------------------------
(* reconcileTopUpRefund, by the request and by the recovery loop.            *)

\* The loop lists every refund that is not finished; a held lease is respected.
TakeLease(x, r) ==
  /\ \/ actor[x] = Idle /\ x \in Workers
        /\ intent[r].state \in {"PREPARED", "UNKNOWN"} /\ ~Leased(r)
        /\ intent' = [intent EXCEPT ![r].lease = x, ![r].lapsed = FALSE]
        /\ fresh' = [fresh EXCEPT ![r] = {x}]
        /\ actor' = [actor EXCEPT ![x] = [pc |-> "receipt", refund |-> r]]
     \/ At(x, "lease", r)
        /\ IF Leased(r) THEN Stop(x, r) /\ UNCHANGED intent
           ELSE SaveOrStop(x, r, [intent[r] EXCEPT !.lease = x, !.lapsed = FALSE], "receipt")
  /\ UNCHANGED <<money, sent, provider, inbox, faults>>

\* The reversal's receipt decides; one without this hold is a conflict.
ReadTopUpReversal(x, r) ==
  /\ At(x, "receipt", r)
  /\ \/ ~Replayed(money, r) /\ Goto(x, "hold", r)
     \/ Replayed(money, r) /\ money.hold[r] = "CONFIRMED" /\ Goto(x, "confirmed", r)
     \/ Replayed(money, r) /\ money.hold[r] # "CONFIRMED" /\ Stop(x, r)
  /\ UNCHANGED <<money, intent, sent, provider, inbox, faults>>

\* Recovery never creates or admits a hold: an admitted one goes on to the
\* provider, one that was not admitted is released.
ReadTopUpRefundHold(x, r) ==
  /\ At(x, "hold", r)
  /\ \/ money.hold[r] = "RELEASED" /\ Goto(x, "released", r) /\ UNCHANGED intent
     \/ money.hold[r] \in {"none", "CONFIRMED"} /\ Goto(x, "wait", r) /\ UNCHANGED intent
     \/ money.hold[r] = "RESERVED" /\ r \notin money.admitted /\ Goto(x, "free", r) /\ UNCHANGED intent
     \/ /\ money.hold[r] = "RESERVED" /\ r \in money.admitted
        /\ IF intent[r].dispatched /\ x \in fresh[r] THEN Goto(x, "query", r) /\ UNCHANGED intent
           ELSE SaveOrStop(x, r, [intent[r] EXCEPT !.dispatched = TRUE, !.state = "UNKNOWN"], "query")
  /\ UNCHANGED <<money, sent, provider, inbox, faults>>

FreeHold(x, r) ==
  /\ At(x, "free", r)
  /\ \/ ReleaseTopUpRefundHold(r, LocalProof) /\ Goto(x, "released", r)
     \/ money.hold[r] = "RELEASED" /\ UNCHANGED money /\ Goto(x, "released", r)
     \/ /\ money.hold[r] # "RELEASED" /\ ~CanReleaseHold(money, r, LocalProof)
        /\ UNCHANGED money /\ Goto(x, "wait", r)
  /\ UNCHANGED <<intent, sent, provider, inbox, faults>>

\* What the provider's answer, once recorded, makes of the refund.
Answer(x, r) ==
  \/ provider[r] = "refunded" /\ inbox' = inbox \cup {r} /\ Goto(x, "accept", r)
  \/ provider[r] = "closed" /\ Goto(x, "dead", r) /\ UNCHANGED inbox
  \/ provider[r] = "processing" /\ Goto(x, "wait", r) /\ UNCHANGED inbox

QueryRefund(x, r) ==
  /\ At(x, "query", r) /\ Answer(x, r)
  /\ UNCHANGED <<money, intent, sent, provider, faults>>

\* The provider has no such refund: the same request may be sent again, behind
\* the hold, the lease and a compare-and-swap that fences a stale worker.
ReplayRefund(x, r) ==
  /\ At(x, "query", r) /\ provider[r] = "none"
  /\ IF money.hold[r] = "RESERVED" /\ r \in money.admitted /\ ~intent[r].lapsed
     THEN SaveOrStop(x, r, intent[r], "replay")
     ELSE Stop(x, r) /\ UNCHANGED intent
  /\ UNCHANGED <<money, sent, provider, inbox, faults>>

Replied(x, r) ==
  /\ At(x, "replayed", r)
  /\ \/ Answer(x, r)
     \/ provider[r] = "none" /\ Goto(x, "wait", r) /\ UNCHANGED inbox
  /\ UNCHANGED <<money, intent, sent, provider, faults>>

AnswerLost(x, r) ==
  /\ actor[x].pc \in {"query", "replayed"} /\ actor[x].refund = r
  /\ Goto(x, "wait", r) /\ Fault
  /\ UNCHANGED <<money, intent, sent, provider, inbox>>

AcceptRefund(x, r) ==
  /\ At(x, "accept", r)
  /\ \/ Replayed(money, r) /\ UNCHANGED money /\ Goto(x, "confirmed", r) /\ NoFault
     \/ AcceptProviderTopUpReversal(r) /\ Goto(x, "confirmed", r) /\ NoFault
     \/ AcceptProviderTopUpReversal(r) /\ Goto(x, "wait", r) /\ Fault
  /\ UNCHANGED <<intent, sent, provider, inbox>>

ReleaseDeadHold(x, r) ==
  /\ At(x, "dead", r)
  /\ \/ ReleaseTopUpRefundHold(r, TRUE) /\ Goto(x, "released", r)
     \/ money.hold[r] = "RELEASED" /\ UNCHANGED money /\ Goto(x, "released", r)
  /\ UNCHANGED <<intent, sent, provider, inbox, faults>>

\* The outcome is saved and the lease returned.
SaveOutcome(x, r) ==
  /\ \/ At(x, "confirmed", r)
        /\ SaveOrStop(x, r, Unleased([intent[r] EXCEPT !.state = "CONFIRMED"]), "idle")
     \/ At(x, "released", r)
        /\ SaveOrStop(x, r, Unleased([intent[r] EXCEPT !.state = "RELEASED"]), "idle")
     \/ At(x, "undone", r)
        /\ SaveOrStop(x, r, [intent[r] EXCEPT !.state = "RELEASED"], "idle")
     \/ At(x, "wait", r) /\ SaveOrStop(x, r, Unleased(intent[r]), "idle")
  /\ UNCHANGED <<money, sent, provider, inbox, faults>>

-----------------------------------------------------------------------------
(* The provider, the order worker and the faults.                            *)

Arrive(r) ==
  /\ r \in sent /\ provider[r] = "none"
  /\ provider' = [provider EXCEPT ![r] = "processing"]
  /\ UNCHANGED <<money, intent, sent, inbox, actor, fresh, faults>>

Decide(r) ==
  /\ provider[r] = "processing"
  /\ \E result \in {"refunded", "closed"} : provider' = [provider EXCEPT ![r] = result]
  /\ UNCHANGED <<money, intent, sent, inbox, actor, fresh, faults>>

Notify(r) ==
  /\ provider[r] = "refunded" /\ r \notin inbox
  /\ inbox' = inbox \cup {r}
  /\ UNCHANGED <<money, intent, sent, provider, actor, fresh, faults>>

\* The order worker posts the payment again with the refunds the inbox knows.
ReconcileOrder ==
  /\ \E known \in Orderings(inbox) :
       AcceptAndPostProviderTopUp(Payment, known)
  /\ UNCHANGED <<intent, sent, provider, inbox, actor, fresh, faults>>

LoseRequest(r) ==
  /\ r \in sent /\ provider[r] = "none" /\ Fault
  /\ sent' = sent \ {r}
  /\ UNCHANGED <<money, intent, provider, inbox, actor, fresh>>

Crash(x) ==
  /\ actor[x] # Idle /\ Fault
  /\ Stop(x, actor[x].refund)
  /\ UNCHANGED <<money, intent, sent, provider, inbox>>

\* The work that a lease covers.
Covered == {"call", "called", "receipt", "hold", "free", "query", "replay", "replayed",
            "accept", "dead", "confirmed", "released", "wait"}

\* A lease runs out; under a holder still at work only as a fault.
Lapse(r) ==
  /\ Leased(r)
  /\ LET holder == intent[r].lease
     IN  IF actor[holder].refund = r /\ actor[holder].pc \in Covered /\ holder \in fresh[r]
         THEN Fault ELSE NoFault
  /\ intent' = [intent EXCEPT ![r].lapsed = TRUE]
  /\ UNCHANGED <<money, sent, provider, inbox, actor, fresh>>

-----------------------------------------------------------------------------
ActorStep(x, r) ==
  \/ PrepareHold(x, r) \/ AdmitHold(x, r) \/ AdmitAnswerLost(x, r) \/ UndoHold(x, r)
  \/ MarkDispatched(x, r) \/ Refund(x, r) \/ Called(x, r)
  \/ TakeLease(x, r) \/ ReadTopUpReversal(x, r) \/ ReadTopUpRefundHold(x, r) \/ FreeHold(x, r)
  \/ QueryRefund(x, r) \/ ReplayRefund(x, r) \/ Replied(x, r) \/ AnswerLost(x, r)
  \/ AcceptRefund(x, r) \/ ReleaseDeadHold(x, r) \/ SaveOutcome(x, r)

RefundNext ==
  \/ \E r \in Refunds :
       \/ Approve(Approver, r) \/ Arrive(r) \/ Decide(r) \/ Notify(r)
       \/ LoseRequest(r) \/ Lapse(r)
       \/ \E x \in Actors : ActorStep(x, r)
  \/ ReconcileOrder
  \/ \E x \in Actors : Crash(x)

\* A request that was started ends, its calls being bounded by timeouts; the
\* recovery loop comes to every listed refund; a lease is a wall-clock bound.
\* Nothing is assumed of approvals, of notifications or of the provider.
RefundFairness ==
  \A r \in Refunds :
    /\ WF_refundVars(Lapse(r))
    /\ WF_refundVars(ActorStep(Approver, r))
    /\ \A w \in Workers : SF_refundVars(ActorStep(w, r))

RefundSpec == RefundInit /\ [][RefundNext]_refundVars /\ RefundFairness

-----------------------------------------------------------------------------
(* Properties.                                                               *)

\* The three books agree on every outcome: a hold is given back to the wallet
\* only when the provider does not and will not refund it, it is consumed only
\* when the provider did, and an intent is finished only as its hold is.  Lost
\* admissions, late requests and concurrent recovery cannot part them.
RefundAgrees ==
  \A r \in Refunds :
    /\ money.hold[r] = "RELEASED" => provider[r] \in {"none", "closed"} /\ (r \in sent => provider[r] = "closed")
    /\ money.hold[r] = "CONFIRMED" => provider[r] = "refunded"
    /\ intent[r].state \in {"CONFIRMED", "RELEASED"} => money.hold[r] = intent[r].state

\* The requests sent for a payment never ask for more than was paid, whatever
\* mix of approvals was prepared, admitted, released and replayed.
RefundsWithinPayment ==
  SumOf(ReversalMinor, {r \in sent : provider[r] # "closed"})
    <= TopUpMinor[Payment]

\* Once the provider has decided on a refund, the intent is finished and, as
\* RefundAgrees says, so is its hold: consumed or given back.
RefundSettles ==
  \A r \in Refunds :
    provider[r] \in {"refunded", "closed"} ~> intent[r].state \in {"CONFIRMED", "RELEASED"}
=============================================================================
