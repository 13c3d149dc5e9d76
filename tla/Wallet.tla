------------------------------- MODULE Wallet -------------------------------
(***************************************************************************)
(* The money owner (internal/integration/persistence/money): one            *)
(* organization wallet, the provider top-ups posted to it, the refunds and   *)
(* chargebacks taken back from it, the holds of approved refunds and the     *)
(* reservations of commercial purchases.  Every operation is one database    *)
(* transaction under the wallet row lock, hence one action here; a replayed  *)
(* or refused call changes nothing and is a stuttering step.                 *)
(*                                                                         *)
(* The owner's tables are one record, and every transaction a function from  *)
(* that record to the next one, so that the order flows that call the owner  *)
(* can be composed with it.                                                  *)
(***************************************************************************)
EXTENDS RowSums, Sequences

CONSTANTS
  MaxInt,         \* math.MaxInt64, scaled down so that the bound is reachable
  Payments,       \* provider payments for wallet top-ups
  TopUpMinor,     \* amount of each payment
  Reversals,      \* refunds and chargebacks of payments
  Chargebacks,    \* the reversals that are chargebacks
  Against,        \* the payment each reversal takes back
  ReversalMinor,  \* its provider amount
  Orders,         \* commercial orders paid from the wallet
  PriceMinor      \* price of each order

ASSUME WalletAssumption ==
  /\ MaxInt \in Nat
  /\ IsFiniteSet(Payments) /\ IsFiniteSet(Reversals) /\ IsFiniteSet(Orders)
  /\ TopUpMinor \in [Payments -> 1..MaxInt]
  /\ Chargebacks \subseteq Reversals
  /\ Against \in [Reversals -> Payments]
  /\ ReversalMinor \in [Reversals -> 1..MaxInt]
  /\ PriceMinor \in [Orders -> 1..MaxInt]

VARIABLE money

NoReceipt == -1

Amounts == 0..MaxInt

Wallets ==
  [available : Amounts, reserved : Amounts, debt : Amounts,
   topup : Amounts, spend : Amounts,
   posted : SUBSET Payments,
   effect : [Reversals -> Amounts \cup {NoReceipt}],
   hold : [Reversals -> {"none", "RESERVED", "CONFIRMED", "RELEASED"}],
   admitted : SUBSET Reversals,
   purchase : [Orders -> {"none", "rejected", "RESERVED", "COMMITTED", "RELEASED"}]]

MoneyTypeOK == money \in Wallets

MoneyInit ==
  money = [available |-> 0, reserved |-> 0, debt |-> 0, topup |-> 0, spend |-> 0,
           posted |-> {},
           effect |-> [r \in Reversals |-> NoReceipt],
           hold |-> [r \in Reversals |-> "none"],
           admitted |-> {},
           purchase |-> [o \in Orders |-> "none"]]

Lesser(a, b) == IF a < b THEN a ELSE b

-----------------------------------------------------------------------------
(* What the SQL sums of a payment's rows return.                             *)

Accepted(m, p) == {r \in Reversals : Against[r] = p /\ m.effect[r] # NoReceipt}

Principal(m, p) == SumOf(m.effect, Accepted(m, p))

Provider(m, p) == SumOf(ReversalMinor, Accepted(m, p))

HeldAgainst(m, p) == {r \in Reversals : Against[r] = p /\ m.hold[r] = "RESERVED"}

Held(m, p) == SumOf(ReversalMinor, HeldAgainst(m, p))

-----------------------------------------------------------------------------
(* Moving balances.                                                          *)

\* Mutant: a credit ignores the debt it should repay first.
AddedPlain(m, amount) == [m EXCEPT !.available = @ + amount]

\* addTopUp: a credit repays debt before it becomes spendable.
Added(m, amount) ==
  [m EXCEPT !.debt = @ - Lesser(m.debt, amount),
            !.available = @ + amount - Lesser(m.debt, amount)]

AddFits(m, amount) == m.available <= MaxInt - (amount - Lesser(m.debt, amount))

\* A reversal without a hold takes what is available; the rest becomes debt.
Taken(m, amount) ==
  [m EXCEPT !.available = @ - Lesser(m.available, amount),
            !.debt = @ + amount - Lesser(m.available, amount)]

TakeFits(m, amount) == m.debt <= MaxInt - (amount - Lesser(m.available, amount))

Unreserved(m, amount) == [m EXCEPT !.reserved = @ - amount]

Reserved(m, amount) == [m EXCEPT !.available = @ - amount, !.reserved = @ + amount]

-----------------------------------------------------------------------------
(* Top-ups and their reversals.                                              *)

\* The part of a provider reversal that takes the posted principal back; what
\* the payment no longer covers is excess.
PrincipalEffect(m, r) ==
  Lesser(ReversalMinor[r], TopUpMinor[Against[r]] - Principal(m, Against[r]))

\* Mutant: a released hold is still taken for the refund's.
ConfirmsAny(m, r) == r \notin Chargebacks /\ m.hold[r] # "none"

\* Only a refund meets a hold, and a released one no longer counts.
Confirms(m, r) == r \notin Chargebacks /\ m.hold[r] = "RESERVED"

Replayed(m, r) == m.effect[r] # NoReceipt

CanReverse(m, r) ==
  LET d == PrincipalEffect(m, r)
  IN  /\ Against[r] \in m.posted
      /\ ~Replayed(m, r)
      /\ Provider(m, Against[r]) <= MaxInt - ReversalMinor[r]
      /\ m.hold[r] # "CONFIRMED"
      /\ IF Confirms(m, r)
         THEN m.reserved >= ReversalMinor[r] /\ AddFits(m, ReversalMinor[r] - d)
         ELSE TakeFits(m, d)

\* Mutant: the whole hold is consumed although a chargeback took its part.
ConsumeWholeHold(m, r, d) == Unreserved(m, ReversalMinor[r])

\* The hold gives way to the principal taken back; the excess is a credit.
ConsumeHold(m, r, d) == Added(Unreserved(m, ReversalMinor[r]), ReversalMinor[r] - d)

\* acceptTopUpReversalTx: a held refund consumes its hold; anything else takes
\* the principal from the spendable funds.
TakeBack(m, r) ==
  LET d     == PrincipalEffect(m, r)
      moved == IF Confirms(m, r) THEN ConsumeHold(m, r, d) ELSE Taken(m, d)
  IN  [moved EXCEPT !.effect[r] = d,
                    !.hold[r] = IF Confirms(m, r) THEN "CONFIRMED" ELSE @]

\* The reversals already known when a payment is posted, one after the other.
ReverseKnown(m, r) == IF Replayed(m, r) THEN m ELSE TakeBack(m, r)

\* The wallet after each of them.
Stages(m, known) ==
  LET after[i \in 0..Len(known)] ==
        IF i = 0 THEN m ELSE ReverseKnown(after[i - 1], known[i])
  IN  after

ReverseAll(m, known) == Stages(m, known)[Len(known)]

CanReverseAll(m, known) ==
  \A i \in 1..Len(known) :
    LET before == Stages(m, known)[i - 1]
    IN  Replayed(before, known[i]) \/ CanReverse(before, known[i])

\* The first posting credits the payment; a replay leaves the credit alone.
Credit(m, p) ==
  IF p \in m.posted
  THEN m
  ELSE [Added(m, TopUpMinor[p]) EXCEPT !.topup = @ + TopUpMinor[p], !.posted = @ \cup {p}]

CanPost(m, p, known) ==
  /\ p \in m.posted \/ (AddFits(m, TopUpMinor[p]) /\ m.topup <= MaxInt - TopUpMinor[p])
  /\ CanReverseAll(Credit(m, p), known)

Post(m, p, known) == ReverseAll(Credit(m, p), known)

-----------------------------------------------------------------------------
(* Holds of approved refunds.                                                *)

\* Mutant: refunds approved at the same time are not counted.
BudgetWithoutHolds(m, p, extra) == Provider(m, p) + extra <= TopUpMinor[p]

\* checkRefundBudget: the provider is never asked for more than was paid.
WithinRefundBudget(m, p, extra) ==
  Provider(m, p) + Held(m, p) + extra <= TopUpMinor[p]

CanPrepare(m, r) ==
  /\ r \notin Chargebacks
  /\ Against[r] \in m.posted
  /\ m.hold[r] = "none" /\ ~Replayed(m, r)
  /\ WithinRefundBudget(m, Against[r], ReversalMinor[r])
  /\ m.debt = 0 /\ m.available >= ReversalMinor[r]
  /\ m.reserved <= MaxInt - ReversalMinor[r]

Prepare(m, r) == [Reserved(m, ReversalMinor[r]) EXCEPT !.hold[r] = "RESERVED"]

CanAdmit(m, r) ==
  /\ r \notin m.admitted
  /\ m.hold[r] = "RESERVED"
  /\ WithinRefundBudget(m, Against[r], 0)

Admit(m, r) == [m EXCEPT !.admitted = @ \cup {r}]

\* terminalNotExecuted: the provider's proof that a dispatched refund is dead.
CanReleaseHold(m, r, terminalNotExecuted) ==
  /\ m.hold[r] = "RESERVED"
  /\ r \in m.admitted => terminalNotExecuted
  /\ m.reserved >= ReversalMinor[r]
  /\ AddFits(m, ReversalMinor[r])

ReleaseHold(m, r) ==
  [Added(Unreserved(m, ReversalMinor[r]), ReversalMinor[r]) EXCEPT !.hold[r] = "RELEASED"]

-----------------------------------------------------------------------------
(* Reservations of commercial purchases.                                     *)

CanReserve(m, o) ==
  /\ m.purchase[o] = "none"
  /\ m.available >= PriceMinor[o] => m.reserved <= MaxInt - PriceMinor[o]

Affords(m, o) == m.available >= PriceMinor[o]

\* The decision is durable: an order once rejected is never reserved later.
Reserve(m, o) ==
  IF Affords(m, o)
  THEN [Reserved(m, PriceMinor[o]) EXCEPT !.purchase[o] = "RESERVED"]
  ELSE [m EXCEPT !.purchase[o] = "rejected"]

CanCommit(m, o) ==
  /\ m.purchase[o] = "RESERVED"
  /\ m.reserved >= PriceMinor[o]
  /\ m.spend <= MaxInt - PriceMinor[o]

Commit(m, o) ==
  [Unreserved(m, PriceMinor[o]) EXCEPT !.spend = @ + PriceMinor[o],
                                       !.purchase[o] = "COMMITTED"]

CanRelease(m, o) ==
  /\ m.purchase[o] = "RESERVED"
  /\ m.reserved >= PriceMinor[o]
  /\ AddFits(m, PriceMinor[o])

Release(m, o) ==
  [Added(Unreserved(m, PriceMinor[o]), PriceMinor[o]) EXCEPT !.purchase[o] = "RELEASED"]

-----------------------------------------------------------------------------
(* The owner on its own: any caller, in any order.                           *)

AcceptAndPostProviderTopUp(p, known) ==
  /\ CanPost(money, p, known)
  /\ money' = Post(money, p, known)

AcceptProviderTopUpReversal(r) ==
  /\ CanReverse(money, r)
  /\ money' = TakeBack(money, r)

PrepareTopUpRefund(r) ==
  /\ CanPrepare(money, r)
  /\ money' = Prepare(money, r)

AdmitTopUpRefund(r) ==
  /\ CanAdmit(money, r)
  /\ money' = Admit(money, r)

ReleaseTopUpRefundHold(r, terminalNotExecuted) ==
  /\ CanReleaseHold(money, r, terminalNotExecuted)
  /\ money' = ReleaseHold(money, r)

ReserveCommercialPurchase(o) ==
  /\ CanReserve(money, o)
  /\ money' = Reserve(money, o)

CommitCommercialPurchase(o) ==
  /\ CanCommit(money, o)
  /\ money' = Commit(money, o)

ReleaseCommercialPurchase(o) ==
  /\ CanRelease(money, o)
  /\ money' = Release(money, o)

\* The lists in which the members of a set may come.
Orderings(S) == Injection(1..Cardinality(S), S)

\* Reversals of a payment that a worker may know of, in the order it read them.
Known(p) == UNION {Orderings(S) : S \in SUBSET {r \in Reversals : Against[r] = p}}

MoneyNext ==
  \/ \E p \in Payments : \E known \in Known(p) : AcceptAndPostProviderTopUp(p, known)
  \/ \E r \in Reversals :
       \/ AcceptProviderTopUpReversal(r)
       \/ PrepareTopUpRefund(r)
       \/ AdmitTopUpRefund(r)
       \/ \E terminal \in BOOLEAN : ReleaseTopUpRefundHold(r, terminal)
  \/ \E o \in Orders :
       \/ ReserveCommercialPurchase(o)
       \/ CommitCommercialPurchase(o)
       \/ ReleaseCommercialPurchase(o)

MoneySpec == MoneyInit /\ [][MoneyNext]_money

-----------------------------------------------------------------------------
(* Properties.                                                               *)

PrincipalTaken(m) == SumOf(m.effect, {r \in Reversals : m.effect[r] # NoReceipt})

HoldsReserved(m) == SumOf(ReversalMinor, {r \in Reversals : m.hold[r] = "RESERVED"})

PriceReserved(m) == SumOf(PriceMinor, {o \in Orders : m.purchase[o] = "RESERVED"})

\* Money is neither made nor lost by any order of postings, reversals, refund
\* holds and purchases: what was paid in and not taken back is spendable, set
\* aside or spent, less what the organization owes; what is set aside is
\* exactly the open holds and reservations.
WalletConserved ==
  /\ money.topup - PrincipalTaken(money)
       = money.available + money.reserved + money.spend - money.debt
  /\ money.reserved = HoldsReserved(money) + PriceReserved(money)

\* OrganizationWalletSnapshot.Validate never refuses a posting: no balance
\* leaves its column or is negative, the wallet never owes money while it has some to spend, and no
\* more principal is taken back from a payment than was posted.
WalletShape ==
  /\ MoneyTypeOK
  /\ money.debt = 0 \/ money.available = 0
  /\ \A p \in Payments : Principal(money, p) <= TopUpMinor[p]

\* No posting that must happen is refused: every open reservation can be both
\* committed and released, every open hold released on the provider's proof,
\* and every reversal of a posted payment accepted, whatever happened before,
\* until the provider's amounts themselves no longer fit the column.
WalletSettles ==
  /\ \A o \in Orders :
       money.purchase[o] = "RESERVED" => CanCommit(money, o) /\ CanRelease(money, o)
  /\ \A r \in Reversals :
       /\ money.hold[r] = "RESERVED" => CanReleaseHold(money, r, TRUE)
       /\ (/\ Against[r] \in money.posted
           /\ ~Replayed(money, r)
           /\ Provider(money, Against[r]) <= MaxInt - ReversalMinor[r]) => CanReverse(money, r)
=============================================================================
