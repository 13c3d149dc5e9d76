--------------------------- MODULE ConsumerLedger ---------------------------
(***************************************************************************)
(* One bucket of the organization resource ledger: one organization and one *)
(* allocatable resource (data rows or store renewal periods).  Purchases    *)
(* credit it, an administrator moves quota between the enterprise balance   *)
(* and the positions of members, and consumers reserve a charge and later   *)
(* settle it.                                                               *)
(*                                                                          *)
(* Every operation is one SERIALIZABLE transaction that locks the bucket    *)
(* row first (transaction.go), so it is one action; a refused, replayed or  *)
(* conflicting call rolls back or changes nothing and is a stuttering step. *)
(* Callers are unconstrained here: any call may arrive at any time, any     *)
(* number of times, with any proof.  ChargeRecovery and StoreService        *)
(* restrict them to what the owners of the charges really do.               *)
(***************************************************************************)
EXTENDS ResourceCredit, RowSums

CONSTANTS
  Members,          \* members of the organization
  Charges,          \* identities of consumer charges
  Intent,           \* the immutable intent the owner admitted for each charge
  GrantOps,         \* operation ids of purchased grants
  Sources,          \* source identities (paid order items)
  GrantQuantity,    \* quantity bought by each source
  TransferOps,      \* operation ids of member transfers
  TransferCommands, \* commands an administrator may send
  MaxIncurred       \* bound on the debt that is ever recorded

Fundings == {"member_allocated", "enterprise_unallocated"}

Intents == [member: Members, funding: Fundings, quantity: Quantities]

Commands == [member: Members, action: {"allocate", "reclaim"},
             quantity: Quantities, expectedVersion: Nat]

ASSUME LedgerAssumption ==
  /\ Intent \in [Charges -> Intents]
  /\ GrantQuantity \in [Sources -> Quantities]
  /\ TransferCommands \subseteq Commands
  /\ IsFiniteSet(Members) /\ IsFiniteSet(Charges) /\ IsFiniteSet(Sources)
  /\ MaxIncurred \in Nat

VARIABLES
  bucket,       \* the locked bucket row
  debt,         \* the amount of the debt row
  position,     \* each member's resource position row
  reservation,  \* the state of each charge's reservation row
  reserveOp,    \* the state of operation "consumer-reserve:" of each charge
  settleOp,     \* the state of operation "consumer-settle:" of each charge
  grantOp,      \* the state of each grant operation
  sourceClaim,  \* the sources that have been claimed
  transferOp,   \* the state of each transfer operation
  granted,      \* history: the gross quantity ever granted
  incurred      \* history: the debt ever recorded

ledgerVars == <<bucket, debt, position, reservation, reserveOp, settleOp,
                grantOp, sourceClaim, transferOp, granted, incurred>>

OpStates == {"none", "succeeded"}

BucketRows == [available: Balances, allocated: Balances,
               reserved: Balances, consumed: Balances]

\* The bucket columns as updateConsumerBucket writes them.
Columns(available, allocated, reserved, consumed) ==
  [available |-> available, allocated |-> allocated,
   reserved |-> reserved, consumed |-> consumed]

PositionRows == [free: Balances, reserved: Balances, consumed: Balances,
                 version: Balances]

\* Mutant: the hold is not recorded in the member's position.
MovedWithoutHold(p, free, reserved, consumed) ==
  [free |-> p.free + free, reserved |-> p.reserved,
   consumed |-> p.consumed + consumed, version |-> p.version + 1]

\* A position row after a move of its columns; every move bumps the version.
Moved(p, free, reserved, consumed) ==
  [free |-> p.free + free, reserved |-> p.reserved + reserved,
   consumed |-> p.consumed + consumed, version |-> p.version + 1]

ReservationStates == {"none", "reserved", "committed", "released"}

Terminal == {"committed", "released"}

\* A tuple of rows that the tables can hold, and nothing else.
TypeOK ==
  /\ bucket \in BucketRows
  /\ debt \in Nat
  /\ position \in [Members -> PositionRows]
  /\ reservation \in [Charges -> ReservationStates]
  /\ reserveOp \in [Charges -> OpStates]
  /\ settleOp \in [Charges -> OpStates]
  /\ grantOp \in [GrantOps -> OpStates]
  /\ sourceClaim \in SUBSET Sources
  /\ transferOp \in [TransferOps -> OpStates]
  /\ granted \in Nat
  /\ incurred \in Nat

LedgerInit ==
  /\ bucket = Columns(0, 0, 0, 0)
  /\ debt = 0
  /\ position = [m \in Members |->
                   [free |-> 0, reserved |-> 0, consumed |-> 0, version |-> 0]]
  /\ reservation = [c \in Charges |-> "none"]
  /\ reserveOp = [c \in Charges |-> "none"]
  /\ settleOp = [c \in Charges |-> "none"]
  /\ grantOp = [o \in GrantOps |-> "none"]
  /\ sourceClaim = {}
  /\ transferOp = [t \in TransferOps |-> "none"]
  /\ granted = 0
  /\ incurred = 0

-----------------------------------------------------------------------------
(* Grants and debt *)

\* Mutant: only the operation id is looked up, not the source claim.
UnclaimedByOperation(o, s) == grantOp[o] = "none"

\* replayPurchasedGrantOnce finds neither the operation nor the source claim.
Unclaimed(o, s) == grantOp[o] = "none" /\ s \notin sourceClaim

\* ExecutePurchasedResourceGrant(o, s): nothing is minted when the operation
\* id is known or the source is already claimed.
PurchasedGrant(o, s) ==
  LET q == GrantQuantity[s] IN
  /\ Unclaimed(o, s)
  /\ CreditFits(bucket.available, q, debt)
  /\ bucket' = Columns(CreditedBalance(bucket.available, q, debt), bucket.allocated,
                       bucket.reserved, bucket.consumed)
  /\ debt' = debt - DebtRepaid(q, debt)
  /\ grantOp' = [grantOp EXCEPT ![o] = "succeeded"]
  /\ sourceClaim' = sourceClaim \cup {s}
  /\ granted' = granted + q
  /\ UNCHANGED <<position, reservation, reserveOp, settleOp, transferOp, incurred>>

\* External: nothing under src/ records a debt, the ledger only reads and
\* repays the row it finds.
IncurDebt(d) ==
  /\ incurred + d <= MaxIncurred
  /\ debt' = debt + d
  /\ incurred' = incurred + d
  /\ UNCHANGED <<bucket, position, reservation, reserveOp, settleOp, grantOp,
                 sourceClaim, transferOp, granted>>

\* Mutant: outstanding debt does not stop the caller.
DebtIgnored == TRUE

\* Allocate and Reserve refuse with ErrResourceDebtOutstanding otherwise.
NoDebt == debt = 0

-----------------------------------------------------------------------------
(* GormMemberAllocationRepository.Transfer *)

\* The shared part of both directions: a fresh operation at the version the
\* administrator read.
TransferFence(t, cmd) ==
  LET p == position[cmd.member] IN
  /\ transferOp[t] = "none"
  /\ p.version = cmd.expectedVersion
  /\ p.version # MaxInt
  /\ transferOp' = [transferOp EXCEPT ![t] = "succeeded"]
  /\ UNCHANGED <<reservation, reserveOp, settleOp, grantOp, sourceClaim,
                 granted, incurred>>

Allocate(t, cmd) ==
  LET m == cmd.member
      q == cmd.quantity IN
  /\ cmd.action = "allocate"
  /\ TransferFence(t, cmd)
  /\ NoDebt
  /\ bucket.available >= q
  /\ position[m].free <= MaxInt - q
  /\ bucket.allocated <= MaxInt - q
  /\ bucket' = Columns(bucket.available - q, bucket.allocated + q,
                       bucket.reserved, bucket.consumed)
  /\ position' = [position EXCEPT ![m] = Moved(@, q, 0, 0)]
  /\ UNCHANGED debt

Reclaim(t, cmd) ==
  LET m == cmd.member
      q == cmd.quantity IN
  /\ cmd.action = "reclaim"
  /\ TransferFence(t, cmd)
  /\ position[m].free >= q
  /\ bucket.allocated >= q
  /\ CreditFits(bucket.available, q, debt)
  /\ bucket' = Columns(CreditedBalance(bucket.available, q, debt),
                       bucket.allocated - q, bucket.reserved, bucket.consumed)
  /\ debt' = debt - DebtRepaid(q, debt)
  /\ position' = [position EXCEPT ![m] = Moved(@, -q, 0, 0)]

-----------------------------------------------------------------------------
(* GormConsumerChargeRepository.Reserve *)

MemberFunded(c) == Intent[c].funding = "member_allocated"

\* lockFixedResourceOperation returns a fresh "consumer-reserve:" operation.
Unreserved(c) == reserveOp[c] = "none"

ReserveRow(c) ==
  /\ Unreserved(c)
  /\ NoDebt
  /\ bucket.reserved <= MaxInt - Intent[c].quantity
  /\ reservation' = [reservation EXCEPT ![c] = "reserved"]
  /\ reserveOp' = [reserveOp EXCEPT ![c] = "succeeded"]
  /\ UNCHANGED <<debt, settleOp, grantOp, sourceClaim, transferOp, granted, incurred>>

ReserveMember(c) ==
  LET m == Intent[c].member
      q == Intent[c].quantity IN
  /\ MemberFunded(c)
  /\ ReserveRow(c)
  /\ position[m].free >= q
  /\ bucket.allocated >= q
  /\ position[m].reserved <= MaxInt - q
  /\ position[m].version # MaxInt
  /\ position' = [position EXCEPT ![m] = Moved(@, -q, q, 0)]
  /\ bucket' = Columns(bucket.available, bucket.allocated - q,
                       bucket.reserved + q, bucket.consumed)

ReserveEnterprise(c) ==
  LET q == Intent[c].quantity IN
  /\ ~MemberFunded(c)
  /\ ReserveRow(c)
  /\ bucket.available >= q
  /\ bucket' = Columns(bucket.available - q, bucket.allocated,
                       bucket.reserved + q, bucket.consumed)
  /\ UNCHANGED position

Reserve(c) == ReserveMember(c) \/ ReserveEnterprise(c)

-----------------------------------------------------------------------------
(* GormConsumerChargeRepository.Settle *)

\* A fresh "consumer-settle:" operation meets an open reservation row.
Unsettled(c) == settleOp[c] = "none" /\ reservation[c] = "reserved"

SettleRow(c, outcome) ==
  LET p == position[Intent[c].member]
      q == Intent[c].quantity IN
  /\ Unsettled(c)
  /\ bucket.reserved >= q
  /\ MemberFunded(c) => p.reserved >= q /\ p.version # MaxInt
  /\ reservation' = [reservation EXCEPT ![c] = outcome]
  /\ settleOp' = [settleOp EXCEPT ![c] = "succeeded"]
  /\ UNCHANGED <<reserveOp, grantOp, sourceClaim, transferOp, granted, incurred>>

\* The owner proved that the effect happened.
SettleCommitted(c) ==
  LET m == Intent[c].member
      q == Intent[c].quantity IN
  /\ SettleRow(c, "committed")
  /\ bucket.consumed <= MaxInt - q
  /\ MemberFunded(c) => position[m].consumed <= MaxInt - q
  /\ bucket' = Columns(bucket.available, bucket.allocated,
                       bucket.reserved - q, bucket.consumed + q)
  /\ position' = IF MemberFunded(c)
                   THEN [position EXCEPT ![m] = Moved(@, 0, -q, q)]
                   ELSE position
  /\ UNCHANGED debt

\* Mutant: the member gets the gross refund although part of it repaid debt.
MemberRefundGross(q) == q

\* credit.net: what a release returns to the member's free balance.
MemberRefund(q) == NetCredit(q, debt)

\* The owner proved that the effect is fenced off for good.
SettleReleased(c) ==
  LET m == Intent[c].member
      q == Intent[c].quantity
      net == MemberRefund(q) IN
  /\ SettleRow(c, "released")
  /\ CreditFits(IF MemberFunded(c) THEN bucket.allocated ELSE bucket.available, q, debt)
  /\ MemberFunded(c) => position[m].free <= MaxInt - net
  /\ bucket' = IF MemberFunded(c)
                 THEN Columns(bucket.available, CreditedBalance(bucket.allocated, q, debt),
                              bucket.reserved - q, bucket.consumed)
                 ELSE Columns(CreditedBalance(bucket.available, q, debt), bucket.allocated,
                              bucket.reserved - q, bucket.consumed)
  /\ debt' = debt - DebtRepaid(q, debt)
  /\ position' = IF MemberFunded(c)
                   THEN [position EXCEPT ![m] = Moved(@, net, -q, 0)]
                   ELSE position

Settle(c) == SettleCommitted(c) \/ SettleReleased(c)

-----------------------------------------------------------------------------
LedgerNext ==
  \/ \E o \in GrantOps, s \in Sources : PurchasedGrant(o, s)
  \/ \E d \in 1..MaxIncurred : IncurDebt(d)
  \/ \E t \in TransferOps, cmd \in TransferCommands :
       Allocate(t, cmd) \/ Reclaim(t, cmd)
  \/ \E c \in Charges : Reserve(c) \/ Settle(c)

LedgerSpec == LedgerInit /\ [][LedgerNext]_ledgerVars

-----------------------------------------------------------------------------
(* Properties *)

Free == bucket.available + bucket.allocated

QuantityOf(S) == SumOf([c \in Charges |-> Intent[c].quantity], S)

\* The quantity of the charges of S in a state.
QuantityIn(state, S) == QuantityOf({c \in S : reservation[c] = state})

FundedBy(m) == {c \in Charges : MemberFunded(c) /\ Intent[c].member = m}

\* Value is neither made nor lost: what was granted is still available,
\* allocated, reserved or consumed, or has repaid debt.  Grants, transfers,
\* Reserve and Settle each move two or three columns of the bucket and the
\* debt row, and a missed one breaks the balance for good.
Conservation ==
  Free + bucket.reserved + bucket.consumed + (incurred - debt) = granted

\* A source mints its quantity once, however many operation ids and retries
\* carry it (the source claim of ExecutePurchasedResourceGrant).
MintedOnce == granted = SumOf(GrantQuantity, sourceClaim)

\* The reserved columns of the bucket and of every position are exactly the
\* open reservations behind them, so the "reserved balance is inconsistent"
\* errors of Settle are unreachable.
HoldsBacked ==
  /\ bucket.reserved = QuantityIn("reserved", Charges)
  /\ \A m \in Members : position[m].reserved = QuantityIn("reserved", FundedBy(m))

\* The allocated column is exactly what members can still spend, so "member
\* free balance exceeds allocated bucket" is unreachable in Reserve and
\* Transfer, also when a release repays debt out of a member's refund.
PositionsBacked ==
  bucket.allocated = SumOf([m \in Members |-> position[m].free], Members)

\* Consumption is charged once, to the bucket and to the member who funded it.
ConsumptionBacked ==
  /\ bucket.consumed = QuantityIn("committed", Charges)
  /\ \A m \in Members : position[m].consumed = QuantityIn("committed", FundedBy(m))

\* Bucket and positions are backed, column by column, by the rows that stand
\* for them, whatever grants, transfers, charges and refunds interleave.
BooksBacked == HoldsBacked /\ PositionsBacked /\ ConsumptionBacked

\* The operation rows that Reserve and Settle trust on replay agree with the
\* reservation row they stand for.
ReplayAgrees ==
  \A c \in Charges :
    /\ reserveOp[c] = "succeeded" <=> reservation[c] # "none"
    /\ settleOp[c] = "succeeded" <=> reservation[c] \in Terminal

\* An open reservation can be settled either way: no later grant, transfer,
\* charge or debt leaves it stuck, as long as int64 holds all that was granted.
\* The version of a position is not modelled: Settle also refuses one that has
\* reached MaxInt64, after as many changes of that position.
Settleable ==
  \A c \in Charges :
    LET m == Intent[c].member
        q == Intent[c].quantity IN
    (reservation[c] = "reserved" /\ granted <= MaxInt) =>
      /\ bucket.reserved >= q
      /\ bucket.consumed <= MaxInt - q
      /\ CreditFits(bucket.available, q, debt)
      /\ CreditFits(bucket.allocated, q, debt)
      /\ MemberFunded(c) =>
           /\ position[m].reserved >= q
           /\ position[m].consumed <= MaxInt - q
           /\ position[m].free <= MaxInt - NetCredit(q, debt)

\* Debt comes first: spendable value only grows in a step that leaves no debt,
\* and no reservation is opened while there is any.
DebtFirst ==
  [][/\ Free' > Free => debt' = 0
     /\ bucket'.reserved > bucket.reserved => debt = 0]_ledgerVars

\* A settled charge keeps its outcome: a late or duplicated Settle with the
\* opposite proof never turns a commit into a release.
SettledForGood ==
  [][\A c \in Charges : reservation[c] \in Terminal => reservation'[c] = reservation[c]]_ledgerVars

\* Every change of a position moves its version by one, so a transfer decided
\* on a stale read is refused whatever changed the position in between.
VersionFence ==
  [][\A m \in Members : position'[m] # position[m]
        => position'[m].version = position[m].version + 1]_ledgerVars

=============================================================================
