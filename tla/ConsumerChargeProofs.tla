------------------------ MODULE ConsumerChargeProofs ------------------------
(***************************************************************************)
(* Proofs about ConsumerLedger and ChargeRecovery, for every set of        *)
(* members, charges, sources, commands, loops and callers, every integer   *)
(* width and batch limit and any number of faults.  Of the ledger: value   *)
(* is conserved, the counters of the bucket and of the positions are the   *)
(* sums of the charges and transfers they summarise, and every open charge *)
(* can be settled.  Of recovery: it takes no step that the ledger does not *)
(* allow, and settles a charge only as its owner has proved it.            *)
(***************************************************************************)
EXTENDS ChargeRecovery, RowSumsProofs

\* The leaves are first-order; one that needs arithmetic names the SMT solver.
USE Zenon

-----------------------------------------------------------------------------
(* Credits, for every integer width *)

\* A quantity that may be granted or charged is a balance.
LEMMA QuantitiesAreBalances == \A q \in Quantities : q \in Balances
BY MaxIntAssumption, SMT DEF Quantities, Balances

\* What applyPositiveCredit returns when it does not fail: the net credit and
\* the repaid debt split the gross amount, and wrap-around is always noticed.
LEMMA CreditSplit ==
  ASSUME NEW before \in Balances, NEW gross \in Balances, NEW owed \in Nat
  PROVE  /\ DebtRepaid(gross, owed) \in 0..gross
         /\ DebtRepaid(gross, owed) <= owed
         /\ NetCredit(gross, owed) = gross - DebtRepaid(gross, owed)
         /\ NetCredit(gross, owed) \in 0..gross
         /\ NetCredit(gross, owed) > 0 => DebtRepaid(gross, owed) = owed
         /\ CreditFits(before, gross, owed) =>
              /\ CreditedBalance(before, gross, owed) = before + NetCredit(gross, owed)
              /\ CreditedBalance(before, gross, owed) \in Balances
BY MaxIntAssumption, SMT
   DEF Balances, DebtRepaid, NetCredit, CreditFits, CreditedBalance, WrappingAdd

\* A credit for which the balance has room is never refused, whatever is owed.
LEMMA CreditRoom ==
  ASSUME NEW before \in Balances, NEW gross \in Balances, NEW owed \in Nat,
         before + gross <= MaxInt
  PROVE  CreditFits(before, gross, owed)
BY MaxIntAssumption, SMT
   DEF Balances, DebtRepaid, NetCredit, CreditFits, CreditedBalance, WrappingAdd

-----------------------------------------------------------------------------
(* The ledger *)

\* The fields of intents and commands have the types the code validates.
LEMMA InputTypes ==
  /\ \A c \in Charges : /\ Intent[c].member \in Members
                        /\ Intent[c].quantity \in Quantities
  /\ \A s \in Sources : GrantQuantity[s] \in Quantities
  /\ \A cmd \in TransferCommands : /\ cmd.member \in Members
                                   /\ cmd.quantity \in Quantities
BY LedgerAssumption DEF Intents, Commands

\* The rows of the initial ledger are typed.
LEMMA TypeInit == LedgerInit => TypeOK
BY MaxIntAssumption, SMT DEF LedgerInit, TypeOK, BucketRows, PositionRows, Balances,
   ReservationStates, OpStates, Columns

\* Every operation leaves rows that the tables can hold.
LEMMA TypeStep == TypeOK /\ [LedgerNext]_ledgerVars => TypeOK'
<1> SUFFICES ASSUME TypeOK, [LedgerNext]_ledgerVars PROVE TypeOK'
  OBVIOUS
<1> USE MaxIntAssumption
<1>1. ASSUME NEW o \in GrantOps, NEW s \in Sources, PurchasedGrant(o, s) PROVE TypeOK'
  <2> DEFINE q == GrantQuantity[s]
  <2>1. q \in Quantities /\ bucket.available \in Balances /\ debt \in Nat
    BY InputTypes DEF TypeOK, BucketRows
  <2>c. /\ q \in Balances /\ bucket.available \in Balances /\ debt \in Nat
        /\ CreditFits(bucket.available, q, debt)
    BY <1>1, <2>1, QuantitiesAreBalances DEF PurchasedGrant
  <2>2. /\ DebtRepaid(q, debt) \in 0..q
        /\ DebtRepaid(q, debt) <= debt
        /\ CreditedBalance(bucket.available, q, debt) \in Balances
    BY <2>c, CreditSplit, Zenon
  <2>3. bucket' \in BucketRows
    BY <1>1, <2>2 DEF TypeOK, PurchasedGrant, BucketRows, Columns
  <2>4. debt' \in Nat /\ granted' \in Nat
    BY <1>1, <2>1, <2>2, SMT DEF TypeOK, PurchasedGrant, Quantities
  <2>5. QED
    BY <1>1, <2>3, <2>4 DEF TypeOK, PurchasedGrant, OpStates
<1>2. ASSUME NEW d \in 1..MaxIncurred, IncurDebt(d) PROVE TypeOK'
  BY <1>2, LedgerAssumption, SMT DEF TypeOK, IncurDebt
<1>3. ASSUME NEW t \in TransferOps, NEW cmd \in TransferCommands, Allocate(t, cmd)
      PROVE TypeOK'
  <2>1. cmd.quantity \in 1..MaxInt /\ cmd.member \in Members
    BY InputTypes DEF Quantities
  <2>2. bucket' \in BucketRows
    BY <1>3, <2>1, SMT DEF TypeOK, Allocate, BucketRows, Balances, Columns
  <2>3. position[cmd.member] \in PositionRows
    BY <2>1 DEF TypeOK
  <2>4. Moved(position[cmd.member], cmd.quantity, 0, 0) \in PositionRows
    BY <1>3, <2>1, <2>3, SMT DEF Allocate, TransferFence, PositionRows, Moved, Balances
  <2>5. position' \in [Members -> PositionRows]
    BY <1>3, <2>4 DEF TypeOK, Allocate
  <2>6. QED
    BY <1>3, <2>2, <2>5 DEF TypeOK, Allocate, TransferFence, OpStates
<1>4. ASSUME NEW t \in TransferOps, NEW cmd \in TransferCommands, Reclaim(t, cmd)
      PROVE TypeOK'
  <2> DEFINE q == cmd.quantity
  <2>1. /\ q \in Quantities /\ bucket.available \in Balances /\ debt \in Nat
        /\ cmd.member \in Members
    BY InputTypes DEF TypeOK, BucketRows
  <2>c. /\ q \in Balances /\ bucket.available \in Balances /\ debt \in Nat
        /\ CreditFits(bucket.available, q, debt)
    BY <1>4, <2>1, QuantitiesAreBalances DEF Reclaim
  <2>2. /\ DebtRepaid(q, debt) \in 0..q
        /\ DebtRepaid(q, debt) <= debt
        /\ CreditedBalance(bucket.available, q, debt) \in Balances
    BY <2>c, CreditSplit, Zenon
  <2>3. bucket' \in BucketRows
    BY <1>4, <2>1, <2>2, SMT DEF TypeOK, Reclaim, BucketRows, Balances, Quantities, Columns
  <2>4. position[cmd.member] \in PositionRows
    BY <2>1 DEF TypeOK
  <2>5. Moved(position[cmd.member], -q, 0, 0) \in PositionRows
    BY <1>4, <2>1, <2>4, SMT DEF Reclaim, TransferFence, PositionRows, Moved, Balances, Quantities
  <2>6. position' \in [Members -> PositionRows]
    BY <1>4, <2>5 DEF TypeOK, Reclaim
  <2>7. debt' \in Nat
    BY <1>4, <2>1, <2>2, SMT DEF Reclaim, Quantities
  <2>8. QED
    BY <1>4, <2>3, <2>6, <2>7 DEF TypeOK, Reclaim, TransferFence, OpStates
<1>5. ASSUME NEW c \in Charges, ReserveMember(c) PROVE TypeOK'
  <2> DEFINE q == Intent[c].quantity
             m == Intent[c].member
  <2>1. q \in 1..MaxInt /\ m \in Members
    BY InputTypes DEF Quantities
  <2>2. bucket' \in BucketRows
    BY <1>5, <2>1, SMT DEF TypeOK, ReserveMember, ReserveRow, Unreserved, NoDebt, BucketRows, Balances, Columns
  <2>3. position[m] \in PositionRows
    BY <2>1 DEF TypeOK
  <2>4. Moved(position[m], -q, q, 0) \in PositionRows
    BY <1>5, <2>1, <2>3, SMTT(30) DEF ReserveMember, PositionRows, Moved, Balances
  <2>5. position' \in [Members -> PositionRows]
    BY <1>5, <2>4 DEF TypeOK, ReserveMember
  <2>6. QED
    BY <1>5, <2>2, <2>5 DEF TypeOK, ReserveMember, ReserveRow, Unreserved, NoDebt, OpStates, ReservationStates
<1>6. ASSUME NEW c \in Charges, ReserveEnterprise(c) PROVE TypeOK'
  <2>1. Intent[c].quantity \in 1..MaxInt
    BY InputTypes DEF Quantities
  <2>2. bucket' \in BucketRows
    BY <1>6, <2>1, SMT DEF TypeOK, ReserveEnterprise, ReserveRow, Unreserved, NoDebt, BucketRows, Balances, Columns
  <2>3. QED
    BY <1>6, <2>2 DEF TypeOK, ReserveEnterprise, ReserveRow, Unreserved, NoDebt, OpStates, ReservationStates
<1>7. ASSUME NEW c \in Charges, SettleCommitted(c) PROVE TypeOK'
  <2> DEFINE q == Intent[c].quantity
             m == Intent[c].member
  <2>1. q \in 1..MaxInt /\ m \in Members
    BY InputTypes DEF Quantities
  <2>2. bucket' \in BucketRows
    BY <1>7, <2>1, SMT DEF TypeOK, SettleCommitted, SettleRow, BucketRows, Balances, Columns
  <2>3. position[m] \in PositionRows
    BY <2>1 DEF TypeOK
  <2>4. MemberFunded(c) => Moved(position[m], 0, -q, q) \in PositionRows
    BY <1>7, <2>1, <2>3, SMTT(30) DEF SettleCommitted, SettleRow, PositionRows, Moved, Balances
  <2>5. position' \in [Members -> PositionRows]
    BY <1>7, <2>4 DEF TypeOK, SettleCommitted
  <2>6. QED
    BY <1>7, <2>2, <2>5 DEF TypeOK, SettleCommitted, SettleRow, OpStates, ReservationStates
<1>8. ASSUME NEW c \in Charges, SettleReleased(c) PROVE TypeOK'
  <2> DEFINE q == Intent[c].quantity
             m == Intent[c].member
             before == IF MemberFunded(c) THEN bucket.allocated ELSE bucket.available
  <2>1. /\ q \in Quantities /\ before \in Balances /\ debt \in Nat
        /\ m \in Members
    BY InputTypes DEF TypeOK, BucketRows
  <2>c. /\ q \in Balances /\ before \in Balances /\ debt \in Nat
        /\ CreditFits(before, q, debt)
    BY <1>8, <2>1, QuantitiesAreBalances DEF SettleReleased
  <2>2. /\ DebtRepaid(q, debt) \in 0..q
        /\ DebtRepaid(q, debt) <= debt
        /\ NetCredit(q, debt) \in 0..q
        /\ CreditedBalance(before, q, debt) \in Balances
    BY <2>c, CreditSplit, Zenon
  <2>3. bucket' \in BucketRows
    BY <1>8, <2>1, <2>2, SMT DEF TypeOK, SettleReleased, SettleRow, MemberRefund, BucketRows, Balances,
       Quantities, Columns
  <2>4. position[m] \in PositionRows
    BY <2>1 DEF TypeOK
  <2>5. MemberFunded(c) => Moved(position[m], NetCredit(q, debt), -q, 0) \in PositionRows
    <3>1. PICK p, d : p = position[m] /\ d = NetCredit(q, debt)
      OBVIOUS
    <3>2. MemberFunded(c) => p.reserved >= q /\ p.version # MaxInt /\ p.free <= MaxInt - d
      BY <1>8, <3>1 DEF SettleReleased, SettleRow, MemberRefund
    <3>3. p \in PositionRows /\ d \in 0..q /\ q \in Balances
      BY <2>2, <2>4, <2>c, <3>1
    <3> HIDE DEF q
    <3>4. MemberFunded(c) => Moved(p, d, -q, 0) \in PositionRows
      BY <3>2, <3>3, MaxIntAssumption, SMT DEF PositionRows, Moved, Balances
    <3> QED
      BY <3>1, <3>4
  <2>6. position' \in [Members -> PositionRows]
    BY <1>8, <2>5 DEF TypeOK, SettleReleased, MemberRefund
  <2>7. debt' \in Nat
    BY <1>8, <2>1, <2>2, SMT DEF SettleReleased, Quantities
  <2>8. QED
    BY <1>8, <2>3, <2>6, <2>7 DEF TypeOK, SettleReleased, SettleRow, MemberRefund, OpStates, ReservationStates
<1>9. CASE UNCHANGED ledgerVars
  BY <1>9 DEF TypeOK, ledgerVars
<1> QED
  BY <1>1, <1>2, <1>3, <1>4, <1>5, <1>6, <1>7, <1>8, <1>9 DEF LedgerNext, Reserve, Settle

\* The rows always have the types of their columns: no balance is ever
\* negative or beyond the integer width.
THEOREM TypeCorrect == LedgerSpec => []TypeOK
BY TypeInit, TypeStep, PTL DEF LedgerSpec

\* What each operation does to the columns that hold value.  Conservation and
\* the debt rule both follow from these five cases.
ValueMove ==
  /\ Free' + bucket'.reserved + bucket'.consumed + (incurred' - debt') - granted'
       = Free + bucket.reserved + bucket.consumed + (incurred - debt) - granted
  /\ Free' > Free => debt' = 0
  /\ bucket'.reserved > bucket.reserved => debt = 0

\* Every operation of the ledger moves value without making or losing any.
LEMMA ValueStep == TypeOK /\ [LedgerNext]_ledgerVars => ValueMove
<1> SUFFICES ASSUME TypeOK, [LedgerNext]_ledgerVars PROVE ValueMove
  OBVIOUS
<1> USE MaxIntAssumption DEF ValueMove, Free
<1>0. /\ bucket.available \in Balances /\ bucket.allocated \in Balances
      /\ bucket.reserved \in Balances /\ bucket.consumed \in Balances
      /\ debt \in Nat /\ incurred \in Nat /\ granted \in Nat
  BY DEF TypeOK, BucketRows
<1>i. /\ bucket.available \in Int /\ bucket.allocated \in Int
      /\ bucket.reserved \in Int /\ bucket.consumed \in Int
  BY <1>0, SMT DEF Balances
<1>1. ASSUME NEW o \in GrantOps, NEW s \in Sources, PurchasedGrant(o, s) PROVE ValueMove
  <2> DEFINE q == GrantQuantity[s]
  <2>1. q \in Quantities
    BY InputTypes
  <2>c. /\ q \in Balances /\ bucket.available \in Balances /\ debt \in Nat
        /\ CreditFits(bucket.available, q, debt)
    BY <1>0, <1>1, <2>1, QuantitiesAreBalances DEF PurchasedGrant
  <2>2. /\ DebtRepaid(q, debt) \in 0..q
        /\ NetCredit(q, debt) = q - DebtRepaid(q, debt)
        /\ NetCredit(q, debt) > 0 => DebtRepaid(q, debt) = debt
        /\ CreditedBalance(bucket.available, q, debt) = bucket.available + NetCredit(q, debt)
    BY <2>c, CreditSplit, Zenon
  <2>3. QED
    BY <1>0, <1>i, <1>1, <2>1, <2>2, SMT DEF PurchasedGrant, Columns, Quantities
<1>2. ASSUME NEW d \in 1..MaxIncurred, IncurDebt(d) PROVE ValueMove
  BY <1>0, <1>i, <1>2, LedgerAssumption, SMT DEF IncurDebt
<1>3. ASSUME NEW t \in TransferOps, NEW cmd \in TransferCommands, Allocate(t, cmd)
      PROVE ValueMove
  <2>1. cmd.quantity \in 1..MaxInt
    BY InputTypes DEF Quantities
  <2>2. QED
    BY <1>0, <1>i, <1>3, <2>1, SMT DEF Allocate, NoDebt, TransferFence, Columns
<1>4. ASSUME NEW t \in TransferOps, NEW cmd \in TransferCommands, Reclaim(t, cmd)
      PROVE ValueMove
  <2> DEFINE q == cmd.quantity
  <2>1. q \in Quantities
    BY InputTypes
  <2>c. /\ q \in Balances /\ bucket.available \in Balances /\ debt \in Nat
        /\ CreditFits(bucket.available, q, debt)
    BY <1>0, <1>4, <2>1, QuantitiesAreBalances DEF Reclaim
  <2>2. /\ DebtRepaid(q, debt) \in 0..q
        /\ NetCredit(q, debt) = q - DebtRepaid(q, debt)
        /\ CreditedBalance(bucket.available, q, debt) = bucket.available + NetCredit(q, debt)
    BY <2>c, CreditSplit, Zenon
  <2>3. QED
    BY <1>0, <1>i, <1>4, <2>1, <2>2, SMT DEF Reclaim, TransferFence, Columns, Quantities
<1>5. ASSUME NEW c \in Charges, ReserveMember(c) \/ ReserveEnterprise(c) PROVE ValueMove
  <2>1. Intent[c].quantity \in 1..MaxInt
    BY InputTypes DEF Quantities
  <2>2. QED
    BY <1>0, <1>i, <1>5, <2>1, SMT DEF ReserveMember, ReserveEnterprise, ReserveRow, Unreserved, NoDebt, Columns
<1>6. ASSUME NEW c \in Charges, SettleCommitted(c) PROVE ValueMove
  <2>1. Intent[c].quantity \in 1..MaxInt
    BY InputTypes DEF Quantities
  <2>2. QED
    BY <1>0, <1>i, <1>6, <2>1, SMT DEF SettleCommitted, SettleRow, Columns
<1>7. ASSUME NEW c \in Charges, SettleReleased(c) PROVE ValueMove
  <2> DEFINE q == Intent[c].quantity
             before == IF MemberFunded(c) THEN bucket.allocated ELSE bucket.available
  <2>1. q \in Quantities /\ before \in Balances
    BY <1>0, InputTypes
  <2>c. /\ q \in Balances /\ before \in Balances /\ debt \in Nat
        /\ CreditFits(before, q, debt)
    BY <1>0, <1>7, <2>1, QuantitiesAreBalances DEF SettleReleased
  <2>2. /\ DebtRepaid(q, debt) \in 0..q
        /\ NetCredit(q, debt) = q - DebtRepaid(q, debt)
        /\ NetCredit(q, debt) > 0 => DebtRepaid(q, debt) = debt
        /\ CreditedBalance(before, q, debt) = before + NetCredit(q, debt)
    BY <2>c, CreditSplit, ZenonT(40)
  <2>3. QED
    BY <1>0, <1>i, <1>7, <2>1, <2>2, SMTT(30) DEF SettleReleased, SettleRow, MemberRefund, Columns, Quantities
<1>8. CASE UNCHANGED ledgerVars
  BY <1>0, <1>i, <1>8, SMT DEF ledgerVars
<1> QED
  BY <1>1, <1>2, <1>3, <1>4, <1>5, <1>6, <1>7, <1>8 DEF LedgerNext, Reserve, Settle

\* Nothing granted is ever lost or counted twice, in any interleaving of
\* grants, transfers, charges, settlements and debt.
THEOREM ValueConserved == LedgerSpec => []Conservation
<1>1. LedgerInit => Conservation
  BY SMT DEF LedgerInit, Conservation, Free, Columns
<1>2. TypeOK /\ TypeOK' /\ Conservation /\ [LedgerNext]_ledgerVars => Conservation'
  <2> SUFFICES ASSUME TypeOK, TypeOK', Conservation, ValueMove PROVE Conservation'
    BY ValueStep
  <2>1. /\ Free \in Int /\ bucket.reserved \in Int /\ bucket.consumed \in Int
        /\ Free' \in Int /\ bucket'.reserved \in Int /\ bucket'.consumed \in Int
        /\ debt \in Int /\ incurred \in Int /\ granted \in Int
        /\ debt' \in Int /\ incurred' \in Int /\ granted' \in Int
    BY MaxIntAssumption, SMT DEF TypeOK, BucketRows, Balances, Free
  <2>2. QED
    BY <2>1, SMT DEF ValueMove, Conservation
<1>3. QED
  BY <1>1, <1>2, TypeCorrect, PTL DEF LedgerSpec

\* Debt is repaid before any value becomes spendable, and no reservation is
\* opened while debt is outstanding.
THEOREM DebtComesFirst == LedgerSpec => DebtFirst
<1>1. TypeOK /\ [LedgerNext]_ledgerVars
        => [/\ Free' > Free => debt' = 0
            /\ bucket'.reserved > bucket.reserved => debt = 0]_ledgerVars
  BY ValueStep DEF ValueMove
<1>2. QED
  BY <1>1, TypeCorrect, PTL DEF LedgerSpec, DebtFirst

\* The operation rows that replays trust agree with the reservation rows.
THEOREM ReplaysAgree == LedgerSpec => []ReplayAgrees
<1>1. LedgerInit => ReplayAgrees
  BY DEF LedgerInit, ReplayAgrees, Terminal
<1>2. TypeOK /\ ReplayAgrees /\ [LedgerNext]_ledgerVars => ReplayAgrees'
  <2> SUFFICES ASSUME TypeOK, ReplayAgrees, [LedgerNext]_ledgerVars PROVE ReplayAgrees'
    OBVIOUS
  <2> USE DEF TypeOK, ReplayAgrees, Terminal, OpStates
  <2>1. CASE UNCHANGED <<reservation, reserveOp, settleOp>>
    BY <2>1
  <2>2. ASSUME NEW c \in Charges, ReserveRow(c) PROVE ReplayAgrees'
    BY <2>2 DEF ReserveRow, Unreserved
  <2>3. ASSUME NEW c \in Charges, NEW o \in Terminal, SettleRow(c, o) PROVE ReplayAgrees'
    BY <2>3 DEF SettleRow, Unsettled
  <2>4. QED
    BY <2>1, <2>2, <2>3 DEF LedgerNext, ledgerVars, PurchasedGrant, IncurDebt, Allocate,
       Reclaim, TransferFence, Reserve, ReserveMember, ReserveEnterprise, Settle,
       SettleCommitted, SettleReleased
<1>3. QED
  BY <1>1, <1>2, TypeCorrect, PTL DEF LedgerSpec

\* A charge is settled at most once and keeps its outcome.
THEOREM SettlementIsFinal == LedgerSpec => SettledForGood
<1>1. TypeOK /\ ReplayAgrees /\ [LedgerNext]_ledgerVars
        => [\A c \in Charges : reservation[c] \in Terminal
              => reservation'[c] = reservation[c]]_ledgerVars
  <2> SUFFICES ASSUME TypeOK, ReplayAgrees, [LedgerNext]_ledgerVars,
                      NEW c \in Charges, reservation[c] \in Terminal
               PROVE  reservation'[c] = reservation[c]
    OBVIOUS
  <2> USE DEF TypeOK, ReplayAgrees, Terminal
  <2>1. ASSUME NEW d \in Charges, ReserveRow(d) PROVE reservation'[c] = reservation[c]
    BY <2>1 DEF ReserveRow, Unreserved
  <2>2. ASSUME NEW d \in Charges, NEW o \in Terminal, SettleRow(d, o)
        PROVE  reservation'[c] = reservation[c]
    BY <2>2 DEF SettleRow, Unsettled
  <2>3. QED
    BY <2>1, <2>2 DEF LedgerNext, ledgerVars, PurchasedGrant, IncurDebt, Allocate,
       Reclaim, TransferFence, Reserve, ReserveMember, ReserveEnterprise, Settle,
       SettleCommitted, SettleReleased
<1>2. QED
  BY <1>1, TypeCorrect, ReplaysAgree, PTL DEF LedgerSpec, SettledForGood

\* No change of a member's position escapes the version that transfers check.
THEOREM PositionsAreVersioned == LedgerSpec => VersionFence
<1>1. TypeOK /\ [LedgerNext]_ledgerVars
        => [\A m \in Members : position'[m] # position[m]
              => position'[m].version = position[m].version + 1]_ledgerVars
  <2> SUFFICES ASSUME TypeOK, [LedgerNext]_ledgerVars,
                      NEW m \in Members, position'[m] # position[m]
               PROVE  position'[m].version = position[m].version + 1
    OBVIOUS
  <2>1. ASSUME NEW n \in Members, NEW f, NEW r, NEW k,
               position' = [position EXCEPT ![n] = Moved(@, f, r, k)]
        PROVE  position'[m].version = position[m].version + 1
    BY <2>1 DEF TypeOK, Moved
  <2>2. ASSUME NEW t \in TransferOps, NEW cmd \in TransferCommands,
               Allocate(t, cmd) \/ Reclaim(t, cmd)
        PROVE  position'[m].version = position[m].version + 1
    BY <2>1, <2>2, InputTypes DEF Allocate, Reclaim
  <2>3. ASSUME NEW c \in Charges, ReserveMember(c)
        PROVE  position'[m].version = position[m].version + 1
    BY <2>1, <2>3, InputTypes DEF ReserveMember
  <2>4. ASSUME NEW c \in Charges, SettleCommitted(c) \/ SettleReleased(c)
        PROVE  position'[m].version = position[m].version + 1
    BY <2>1, <2>4, InputTypes DEF SettleCommitted, SettleReleased
  <2>5. QED
    BY <2>2, <2>3, <2>4 DEF LedgerNext, ledgerVars, PurchasedGrant, IncurDebt,
       Reserve, ReserveEnterprise, Settle
<1>2. QED
  BY <1>1, TypeCorrect, PTL DEF LedgerSpec, VersionFence

-----------------------------------------------------------------------------
(* The counters of bucket and positions are the sums of the rows they summarise *)

\* The column that the books of the charges add up.
Quantity == [c \in Charges |-> Intent[c].quantity]

\* Its entries are amounts.
LEMMA QuantityType ==
  /\ \A c \in Charges : Quantity[c] = Intent[c].quantity /\ Quantity[c] \in Nat /\ Quantity[c] \in Int
  /\ \A S \in SUBSET Charges : IsFiniteSet(S)
BY InputTypes, LedgerAssumption, FS_Subset, SMT DEF Quantity, Quantities

\* What all members together may still spend.
AllFree == SumOf([m \in Members |-> position[m].free], Members)

\* The step moves the columns of member n's position, and no other position.
PositionMoves(n, f, r, k) == position' = [position EXCEPT ![n] = Moved(@, f, r, k)]

\* What it does to the columns.
ColumnsMove(n, f, r, k) ==
  /\ AllFree' = AllFree + f
  /\ \A m \in Members :
       /\ position'[m].reserved = position[m].reserved + (IF m = n THEN r ELSE 0)
       /\ position'[m].consumed = position[m].consumed + (IF m = n THEN k ELSE 0)

\* A move of one position's columns moves their sums, and no other position.
LEMMA PositionMove ==
  ASSUME TypeOK, NEW n \in Members, NEW f \in Int, NEW r \in Int, NEW k \in Int,
         PositionMoves(n, f, r, k)
  PROVE  ColumnsMove(n, f, r, k)
<1>1. \A m \in Members : /\ position[m].free \in Int /\ position[m].reserved \in Int
                          /\ position[m].consumed \in Int
  BY MaxIntAssumption, SMT DEF TypeOK, PositionRows, Balances
<1>2. /\ position'[n] = Moved(position[n], f, r, k)
      /\ \A m \in Members \ {n} : position'[m] = position[m]
  BY DEF TypeOK, PositionMoves
<1>3. /\ position'[n].free = position[n].free + f
      /\ position'[n].reserved = position[n].reserved + r
      /\ position'[n].consumed = position[n].consumed + k
  BY <1>2, SMT DEF Moved
<1> DEFINE old == [m \in Members |-> position[m].free]
           new == [m \in Members |-> position'[m].free]
<1>4. /\ \A x \in Members : old[x] \in Int /\ new[x] \in Int
      /\ \A x \in Members \ {n} : old[x] = new[x]
      /\ new[n] = old[n] + f
  BY <1>1, <1>2, <1>3, SMT
<1>5. AllFree = SumOf(old, Members) /\ AllFree' = SumOf(new, Members)
  BY DEF AllFree
<1> HIDE DEF old, new
<1>6. IsFiniteSet(Members)
  BY LedgerAssumption
<1>7. SumOf(new, Members) = SumOf(old, Members) - old[n] + new[n]
  BY <1>4, <1>6, SumUpdate, SMT
<1>8. SumOf(old, Members) \in Int
  BY <1>4, <1>6, SumInt
<1>9. AllFree' = AllFree + f
  BY <1>4, <1>5, <1>7, <1>8, SMT
<1> QED
  BY <1>1, <1>2, <1>3, <1>9, SMT DEF ColumnsMove

\* What a move of charge c to a state adds to the quantity of another state.
Shift(c, state, to) ==
  IF state = to THEN Intent[c].quantity
  ELSE IF state = reservation[c] THEN -Intent[c].quantity ELSE 0

\* Opening and settling a charge moves its quantity from one state to another,
\* within every set of charges that it belongs to.
LEMMA ChargeMove ==
  ASSUME TypeOK, NEW c \in Charges, NEW to, reservation[c] # to,
         reservation' = [reservation EXCEPT ![c] = to],
         NEW state, NEW F \in SUBSET Charges
  PROVE  /\ Shift(c, state, to) \in Int /\ QuantityIn(state, F) \in Int
         /\ c \in F => QuantityIn(state, F)' = QuantityIn(state, F) + Shift(c, state, to)
         /\ c \notin F => QuantityIn(state, F)' = QuantityIn(state, F)
<1> DEFINE S == {d \in F : reservation[d] = state}
           T == {d \in F : reservation'[d] = state}
<1>1. QuantityIn(state, F) = SumOf(Quantity, S) /\ QuantityIn(state, F)' = SumOf(Quantity, T)
  BY DEF QuantityIn, QuantityOf, Quantity
<1>2. \A d \in Charges : reservation'[d] = IF d = c THEN to ELSE reservation[d]
  BY DEF TypeOK
<1>3. /\ S \in SUBSET Charges
      /\ c \in F /\ state = to => T = S \cup {c} /\ c \notin S
      /\ c \in F /\ state # to /\ state = reservation[c] => T = S \ {c} /\ c \in S
      /\ c \notin F \/ (state # to /\ state # reservation[c]) => T = S
  BY <1>2
<1> HIDE DEF S, T
<1>4. IsFiniteSet(S) /\ \A x \in S \cup {c} : Quantity[x] \in Int
  BY <1>3, QuantityType
<1>5. SumOf(Quantity, S) \in Int /\ Quantity[c] = Intent[c].quantity /\ Quantity[c] \in Int
  BY <1>4, SumInt, QuantityType
<1>6. CASE c \in F /\ state = to
  <2>1. SumOf(Quantity, S \cup {c}) = SumOf(Quantity, S) + Quantity[c]
    BY <1>3, <1>4, <1>6, SumAdd
  <2>2. QED
    BY <1>1, <1>3, <1>5, <1>6, <2>1 DEF Shift
<1>7. CASE c \in F /\ state # to /\ state = reservation[c]
  <2>1. SumOf(Quantity, S) = Quantity[c] + SumOf(Quantity, S \ {c})
    BY <1>3, <1>4, <1>7, SumRemove, SMT
  <2>2. T = S \ {c} /\ T \in SUBSET Charges
    BY <1>3, <1>7
  <2>3. SumOf(Quantity, T) \in Int
    BY <2>2, SumInt, QuantityType
  <2>4. SumOf(Quantity, S) = Quantity[c] + SumOf(Quantity, T)
    BY <2>1, <2>2
  <2>5. QED
    BY <1>1, <1>5, <1>7, <2>3, <2>4, SMT DEF Shift
<1>8. CASE c \notin F \/ (state # to /\ state # reservation[c])
  BY <1>1, <1>3, <1>5, <1>8, SMT DEF Shift
<1> QED
  BY <1>6, <1>7, <1>8

\* An open or settled charge is part of its sum, and a part of the charges
\* never has more than all of them.
LEMMA ChargePart ==
  ASSUME NEW state, NEW F \in SUBSET Charges
  PROVE  /\ QuantityIn(state, F) \in Nat
         /\ QuantityIn(state, F) <= QuantityIn(state, Charges)
         /\ \A c \in F : reservation[c] = state => Intent[c].quantity <= QuantityIn(state, F)
<1> DEFINE S == {d \in F : reservation[d] = state}
           A == {d \in Charges : reservation[d] = state}
<1>1. QuantityIn(state, F) = SumOf(Quantity, S) /\ QuantityIn(state, Charges) = SumOf(Quantity, A)
  BY DEF QuantityIn, QuantityOf, Quantity
<1>2. S \in SUBSET A /\ A \in SUBSET Charges /\ S \in SUBSET Charges
  OBVIOUS
<1>3. \A c \in F : reservation[c] = state => c \in S
  OBVIOUS
<1> HIDE DEF S, A
<1>4. /\ IsFiniteSet(A) /\ \A x \in A : Quantity[x] \in Nat
      /\ IsFiniteSet(S) /\ \A x \in S : Quantity[x] \in Nat
  BY <1>2, QuantityType
<1>5. SumOf(Quantity, S) \in Nat /\ SumOf(Quantity, S) <= SumOf(Quantity, A)
  BY <1>2, <1>4, SumPart
<1>6. \A c \in S : Intent[c].quantity <= SumOf(Quantity, S)
  BY <1>2, <1>4, SumElement, QuantityType
<1> QED
  BY <1>1, <1>3, <1>5, <1>6

\* The columns of bucket and positions that the books compare are integers.
LEMMA BookTypes ==
  ASSUME TypeOK
  PROVE  /\ bucket.allocated \in Int /\ bucket.reserved \in Int /\ bucket.consumed \in Int
         /\ \A m \in Members : /\ position[m].free \in Nat /\ position[m].reserved \in Int
                               /\ position[m].consumed \in Int
         /\ \A m \in Members : FundedBy(m) \in SUBSET Charges
BY MaxIntAssumption, SMT DEF TypeOK, BucketRows, PositionRows, Balances, FundedBy

\* A transfer moves the allocated column with the free column of its member,
\* and leaves charges alone.
LEMMA TransferBooks ==
  ASSUME TypeOK, BooksBacked, NEW n \in Members, NEW f \in Int,
         PositionMoves(n, f, 0, 0),
         bucket'.allocated = bucket.allocated + f,
         bucket'.reserved = bucket.reserved, bucket'.consumed = bucket.consumed,
         reservation' = reservation
  PROVE  BooksBacked'
<1>1. /\ AllFree' = AllFree + f
      /\ \A m \in Members : /\ position'[m].reserved = position[m].reserved
                            /\ position'[m].consumed = position[m].consumed
  <2>1. 0 \in Int
    BY SMT
  <2>2. /\ AllFree' = AllFree + f
        /\ \A m \in Members :
             /\ position'[m].reserved = position[m].reserved + (IF m = n THEN 0 ELSE 0)
             /\ position'[m].consumed = position[m].consumed + (IF m = n THEN 0 ELSE 0)
    <3>1. ColumnsMove(n, f, 0, 0)
      BY <2>1, PositionMove
    <3> QED
      BY <3>1 DEF ColumnsMove
  <2>3. QED
    BY <2>2, BookTypes, SMT
<1>2. \A state, F : QuantityIn(state, F)' = QuantityIn(state, F)
  BY DEF QuantityIn
<1>3. bucket.allocated = AllFree
  BY DEF BooksBacked, PositionsBacked, AllFree
<1>4. bucket'.allocated = AllFree'
  BY <1>1, <1>3
<1> QED
  BY <1>1, <1>2, <1>4
     DEF BooksBacked, PositionsBacked, HoldsBacked, ConsumptionBacked, AllFree, FundedBy, MemberFunded

\* A charge that is opened or settled moves the columns of the bucket and, if a
\* member funds it, of that member's position by its quantity.
LEMMA ChargeBooks ==
  ASSUME TypeOK, BooksBacked, NEW c \in Charges, NEW to, reservation[c] # to,
         reservation' = [reservation EXCEPT ![c] = to], NEW f \in Int,
         bucket'.allocated = bucket.allocated + (IF MemberFunded(c) THEN f ELSE 0),
         bucket'.reserved = bucket.reserved + Shift(c, "reserved", to),
         bucket'.consumed = bucket.consumed + Shift(c, "committed", to),
         IF MemberFunded(c)
         THEN PositionMoves(Intent[c].member, f, Shift(c, "reserved", to), Shift(c, "committed", to))
         ELSE position' = position
  PROVE  BooksBacked'
<1> DEFINE r == Shift(c, "reserved", to)
           k == Shift(c, "committed", to)
           n == Intent[c].member
<1>1. n \in Members /\ Charges \in SUBSET Charges /\ \A m \in Members : FundedBy(m) \in SUBSET Charges
  BY InputTypes, BookTypes
<1>2. r \in Int /\ k \in Int
  BY <1>1, ChargeMove
<1> HIDE DEF r, k, n
<1>3. /\ QuantityIn("reserved", Charges)' = QuantityIn("reserved", Charges) + r
      /\ QuantityIn("committed", Charges)' = QuantityIn("committed", Charges) + k
  BY <1>1, ChargeMove DEF r, k
<1>4. bucket'.reserved = QuantityIn("reserved", Charges)' /\ bucket'.consumed = QuantityIn("committed", Charges)'
  BY <1>3 DEF r, k, BooksBacked, HoldsBacked, ConsumptionBacked
<1>5. CASE MemberFunded(c)
  <2>1. PositionMoves(n, f, r, k)
    BY <1>5 DEF r, k, n
  <2>2. /\ AllFree' = AllFree + f
        /\ \A m \in Members :
             /\ position'[m].reserved = position[m].reserved + (IF m = n THEN r ELSE 0)
             /\ position'[m].consumed = position[m].consumed + (IF m = n THEN k ELSE 0)
    <3>1. ColumnsMove(n, f, r, k)
      BY <1>1, <1>2, <2>1, PositionMove
    <3> QED
      BY <3>1 DEF ColumnsMove
  <2>3. bucket'.allocated = AllFree'
    BY <1>5, <2>2 DEF BooksBacked, PositionsBacked, AllFree
  <2>4. ASSUME NEW m \in Members
        PROVE  /\ position'[m].reserved = QuantityIn("reserved", FundedBy(m))'
               /\ position'[m].consumed = QuantityIn("committed", FundedBy(m))'
    <3>1. c \in FundedBy(m) <=> m = n
      BY <1>5 DEF FundedBy, n
    <3>2. /\ QuantityIn("reserved", FundedBy(m)) \in Int /\ QuantityIn("committed", FundedBy(m)) \in Int
          /\ position[m].reserved = QuantityIn("reserved", FundedBy(m))
          /\ position[m].consumed = QuantityIn("committed", FundedBy(m))
      BY <1>1, ChargePart, SMT DEF BooksBacked, HoldsBacked, ConsumptionBacked
    <3>3. CASE m = n
      <4>1. /\ QuantityIn("reserved", FundedBy(m))' = QuantityIn("reserved", FundedBy(m)) + r
            /\ QuantityIn("committed", FundedBy(m))' = QuantityIn("committed", FundedBy(m)) + k
        BY <1>1, <3>1, <3>3, ChargeMove DEF r, k
      <4>2. QED
        BY <1>2, <2>2, <3>2, <3>3, <4>1
    <3>4. CASE m # n
      <4>1. /\ QuantityIn("reserved", FundedBy(m))' = QuantityIn("reserved", FundedBy(m))
            /\ QuantityIn("committed", FundedBy(m))' = QuantityIn("committed", FundedBy(m))
        BY <1>1, <3>1, <3>4, ChargeMove
      <4>2. QED
        BY <2>2, <3>2, <3>4, <4>1, SMT
    <3>5. QED
      BY <3>3, <3>4
  <2>5. QED
    BY <1>4, <2>3, <2>4
       DEF BooksBacked, PositionsBacked, HoldsBacked, ConsumptionBacked, AllFree, FundedBy, MemberFunded
<1>6. CASE ~MemberFunded(c)
  <2>1. position' = position /\ bucket'.allocated = bucket.allocated
    BY <1>6, BookTypes, SMT
  <2>2. \A m \in Members : c \notin FundedBy(m)
    BY <1>6 DEF FundedBy
  <2>3. \A m \in Members :
          /\ QuantityIn("reserved", FundedBy(m))' = QuantityIn("reserved", FundedBy(m))
          /\ QuantityIn("committed", FundedBy(m))' = QuantityIn("committed", FundedBy(m))
    BY <1>1, <2>2, ChargeMove
  <2>4. QED
    BY <1>4, <2>1, <2>3
       DEF BooksBacked, PositionsBacked, HoldsBacked, ConsumptionBacked, FundedBy, MemberFunded
<1> QED
  BY <1>5, <1>6

\* What the four steps of a charge do to its row, in terms of Shift.
LEMMA ShiftOf ==
  ASSUME NEW c \in Charges
  PROVE  /\ reservation[c] = "none" => /\ Shift(c, "reserved", "reserved") = Intent[c].quantity
                                       /\ Shift(c, "committed", "reserved") = 0
         /\ reservation[c] = "reserved" =>
              /\ Shift(c, "reserved", "committed") = -Intent[c].quantity
              /\ Shift(c, "committed", "committed") = Intent[c].quantity
              /\ Shift(c, "reserved", "released") = -Intent[c].quantity
              /\ Shift(c, "committed", "released") = 0
BY DEF Shift

\* Every operation keeps bucket and positions backed by their rows.
LEMMA BooksStep ==
  TypeOK /\ ReplayAgrees /\ BooksBacked /\ [LedgerNext]_ledgerVars => BooksBacked'
<1> SUFFICES ASSUME TypeOK, ReplayAgrees, BooksBacked, [LedgerNext]_ledgerVars
             PROVE  BooksBacked'
  OBVIOUS
<1>0. /\ bucket.available \in Balances /\ bucket.allocated \in Balances /\ debt \in Nat
      /\ bucket.allocated \in Int /\ bucket.reserved \in Int /\ bucket.consumed \in Int
  BY BookTypes DEF TypeOK, BucketRows
<1>1. ASSUME UNCHANGED <<position, reservation>>, bucket'.allocated = bucket.allocated,
             bucket'.reserved = bucket.reserved, bucket'.consumed = bucket.consumed
      PROVE  BooksBacked'
  <2>1. \A state, F : QuantityIn(state, F)' = QuantityIn(state, F)
    BY <1>1 DEF QuantityIn
  <2>2. QED
    BY <1>1, <2>1
       DEF BooksBacked, PositionsBacked, HoldsBacked, ConsumptionBacked, FundedBy, MemberFunded
<1>2. ASSUME NEW o \in GrantOps, NEW s \in Sources, PurchasedGrant(o, s) PROVE BooksBacked'
  BY <1>1, <1>2 DEF PurchasedGrant, Columns
<1>3. ASSUME NEW t \in TransferOps, NEW cmd \in TransferCommands, Allocate(t, cmd)
      PROVE  BooksBacked'
  <2>1. cmd.member \in Members /\ cmd.quantity \in Int
    BY InputTypes, SMT DEF Quantities
  <2>2. /\ PositionMoves(cmd.member, cmd.quantity, 0, 0) /\ reservation' = reservation
        /\ bucket'.allocated = bucket.allocated + cmd.quantity
        /\ bucket'.reserved = bucket.reserved /\ bucket'.consumed = bucket.consumed
    BY <1>3 DEF Allocate, TransferFence, Columns, PositionMoves
  <2>3. QED
    BY <2>1, <2>2, TransferBooks
<1>4. ASSUME NEW t \in TransferOps, NEW cmd \in TransferCommands, Reclaim(t, cmd)
      PROVE  BooksBacked'
  <2>1. cmd.member \in Members /\ cmd.quantity \in Int /\ -cmd.quantity \in Int
    BY InputTypes, SMT DEF Quantities
  <2>2. /\ PositionMoves(cmd.member, -cmd.quantity, 0, 0) /\ reservation' = reservation
        /\ bucket'.allocated = bucket.allocated - cmd.quantity
        /\ bucket'.reserved = bucket.reserved /\ bucket'.consumed = bucket.consumed
    BY <1>4 DEF Reclaim, TransferFence, Columns, PositionMoves
  <2>3. bucket'.allocated = bucket.allocated + (-cmd.quantity)
    BY <1>0, <2>1, <2>2
  <2>4. QED
    BY <2>1, <2>2, <2>3, TransferBooks
<1>5. ASSUME NEW c \in Charges, Reserve(c) PROVE BooksBacked'
  <2> DEFINE q == Intent[c].quantity
  <2>1. q \in Int /\ -q \in Int
    BY InputTypes, SMT DEF Quantities
  <2>2. reservation[c] = "none" /\ reservation' = [reservation EXCEPT ![c] = "reserved"]
    BY <1>5 DEF Reserve, ReserveMember, ReserveEnterprise, ReserveRow, Unreserved, ReplayAgrees
  <2>3. Shift(c, "reserved", "reserved") = q /\ Shift(c, "committed", "reserved") = 0
    BY <2>2, ShiftOf
  <2>4. /\ bucket'.reserved = bucket.reserved + q /\ bucket'.consumed = bucket.consumed + 0
        /\ bucket'.allocated = bucket.allocated + (IF MemberFunded(c) THEN -q ELSE 0)
    BY <1>0, <1>5, <2>1, SMT DEF Reserve, ReserveMember, ReserveEnterprise, Columns
  <2>5. IF MemberFunded(c) THEN PositionMoves(Intent[c].member, -q, q, 0) ELSE position' = position
    BY <1>5 DEF Reserve, ReserveMember, ReserveEnterprise, PositionMoves
  <2>6. reservation[c] # "reserved"
    BY <2>2
  <2> HIDE DEF q
  <2>7. QED
    BY <2>1, <2>2, <2>3, <2>4, <2>5, <2>6, ChargeBooks
<1>6. ASSUME NEW c \in Charges, SettleCommitted(c) PROVE BooksBacked'
  <2> DEFINE q == Intent[c].quantity
  <2>1. q \in Int /\ 0 \in Int
    BY InputTypes, SMT DEF Quantities
  <2>2. reservation[c] = "reserved" /\ reservation' = [reservation EXCEPT ![c] = "committed"]
    BY <1>6 DEF SettleCommitted, SettleRow, Unsettled
  <2>3. Shift(c, "reserved", "committed") = -q /\ Shift(c, "committed", "committed") = q
    BY <2>2, ShiftOf
  <2>4. /\ bucket'.reserved = bucket.reserved + (-q) /\ bucket'.consumed = bucket.consumed + q
        /\ bucket'.allocated = bucket.allocated + (IF MemberFunded(c) THEN 0 ELSE 0)
    BY <1>0, <1>6, <2>1, SMT DEF SettleCommitted, Columns
  <2>5. IF MemberFunded(c) THEN PositionMoves(Intent[c].member, 0, -q, q) ELSE position' = position
    BY <1>6 DEF SettleCommitted, PositionMoves
  <2>6. reservation[c] # "committed"
    BY <2>2
  <2> HIDE DEF q
  <2>7. QED
    BY <2>1, <2>2, <2>3, <2>4, <2>5, <2>6, ChargeBooks
<1>7. ASSUME NEW c \in Charges, SettleReleased(c) PROVE BooksBacked'
  <2> DEFINE q == Intent[c].quantity
             net == NetCredit(q, debt)
  <2>1. q \in Int /\ q \in Balances
    BY InputTypes, QuantitiesAreBalances, SMT DEF Quantities
  <2>c. MemberFunded(c) => CreditFits(bucket.allocated, q, debt)
    BY <1>7 DEF SettleReleased
  <2>n. /\ net \in 0..q
        /\ MemberFunded(c) => CreditedBalance(bucket.allocated, q, debt) = bucket.allocated + net
    BY <1>0, <2>1, <2>c, CreditSplit
  <2>2. reservation[c] = "reserved" /\ reservation' = [reservation EXCEPT ![c] = "released"]
    BY <1>7 DEF SettleReleased, SettleRow, Unsettled
  <2>3. Shift(c, "reserved", "released") = -q /\ Shift(c, "committed", "released") = 0
    BY <2>2, ShiftOf
  <2>4. /\ bucket'.reserved = bucket.reserved + (-q) /\ bucket'.consumed = bucket.consumed + 0
        /\ bucket'.allocated = bucket.allocated + (IF MemberFunded(c) THEN net ELSE 0)
    BY <1>0, <1>7, <2>1, <2>n, SMT DEF SettleReleased, Columns
  <2>5. IF MemberFunded(c) THEN PositionMoves(Intent[c].member, net, -q, 0) ELSE position' = position
    BY <1>7 DEF SettleReleased, PositionMoves, MemberRefund
  <2>6. reservation[c] # "released" /\ net \in Int
    BY <2>1, <2>2, <2>n, SMT
  <2> HIDE DEF q, net
  <2>7. QED
    BY <2>1, <2>2, <2>3, <2>4, <2>5, <2>6, ChargeBooks
<1>8. ASSUME NEW d \in 1..MaxIncurred, IncurDebt(d) PROVE BooksBacked'
  BY <1>1, <1>8 DEF IncurDebt
<1>9. CASE UNCHANGED ledgerVars
  BY <1>1, <1>9 DEF ledgerVars
<1> QED
  BY <1>2, <1>3, <1>4, <1>5, <1>6, <1>7, <1>8, <1>9 DEF LedgerNext, Settle

\* Bucket and positions stay backed by reservations, members and settlements,
\* column by column.
THEOREM BooksBalance == LedgerSpec => []BooksBacked
<1>1. LedgerInit => BooksBacked
  <2> SUFFICES ASSUME LedgerInit PROVE BooksBacked
    OBVIOUS
  <2> DEFINE free == [m \in Members |-> position[m].free]
  <2>1. \A state \in {"reserved", "committed"}, F \in SUBSET Charges : QuantityIn(state, F) = 0
    <3> SUFFICES ASSUME NEW state \in {"reserved", "committed"}, NEW F \in SUBSET Charges
                 PROVE  QuantityIn(state, F) = 0
      OBVIOUS
    <3>1. {c \in F : reservation[c] = state} = {}
      BY DEF LedgerInit
    <3>2. QED
      BY <3>1, SumEmpty DEF QuantityIn, QuantityOf
  <2>2. \A m \in Members : free[m] = 0 /\ free[m] \in Int
    BY SMT DEF LedgerInit
  <2> HIDE DEF free
  <2>3. SumOf(free, Members) = 0
    BY <2>2, LedgerAssumption, SumZero
  <2>4. \A m \in Members : FundedBy(m) \in SUBSET Charges
    BY DEF FundedBy
  <2>5. QED
    BY <2>1, <2>3, <2>4
       DEF free, LedgerInit, Columns, BooksBacked, HoldsBacked, PositionsBacked, ConsumptionBacked
<1>2. QED
  BY <1>1, BooksStep, TypeCorrect, ReplaysAgree, PTL DEF LedgerSpec

\* However many operations and retries carry a source, it is minted once.
THEOREM MintsOnce == LedgerSpec => []MintedOnce
<1>1. LedgerInit => MintedOnce
  BY SumEmpty DEF LedgerInit, MintedOnce
<1>2. TypeOK /\ MintedOnce /\ [LedgerNext]_ledgerVars => MintedOnce'
  <2> SUFFICES ASSUME TypeOK, MintedOnce, [LedgerNext]_ledgerVars PROVE MintedOnce'
    OBVIOUS
  <2>1. CASE UNCHANGED <<granted, sourceClaim>>
    BY <2>1 DEF MintedOnce
  <2>2. ASSUME NEW o \in GrantOps, NEW s \in Sources, PurchasedGrant(o, s) PROVE MintedOnce'
    <3>s. sourceClaim \in SUBSET Sources /\ IsFiniteSet(Sources)
      BY LedgerAssumption DEF TypeOK
    <3>f. IsFiniteSet(sourceClaim)
      BY <3>s, FS_Subset
    <3>g. \A x \in Sources : GrantQuantity[x] \in Int
      BY InputTypes, SMT DEF Quantities
    <3>1. /\ sourceClaim \in SUBSET Sources /\ IsFiniteSet(sourceClaim)
          /\ \A x \in sourceClaim \cup {s} : GrantQuantity[x] \in Int
      BY <3>s, <3>f, <3>g
    <3>2. /\ s \notin sourceClaim /\ sourceClaim' = sourceClaim \cup {s}
          /\ granted' = granted + GrantQuantity[s]
      BY <2>2 DEF PurchasedGrant, Unclaimed
    <3>3. SumOf(GrantQuantity, sourceClaim \cup {s}) = SumOf(GrantQuantity, sourceClaim) + GrantQuantity[s]
      BY <3>1, <3>2, SumAdd
    <3>4. QED
      BY <3>2, <3>3 DEF MintedOnce
  <2>3. QED
    BY <2>1, <2>2 DEF LedgerNext, ledgerVars, IncurDebt, Allocate, Reclaim, TransferFence,
       Reserve, ReserveMember, ReserveEnterprise, ReserveRow, Settle, SettleCommitted,
       SettleReleased, SettleRow
<1>3. QED
  BY <1>1, <1>2, TypeCorrect, PTL DEF LedgerSpec

\* Debt is only ever repaid, so none is owed that was not recorded.
DebtRecorded == debt <= incurred

\* No operation of the ledger raises debt; only the record of a new one does.
LEMMA DebtStep == TypeOK /\ DebtRecorded /\ [LedgerNext]_ledgerVars => DebtRecorded'
<1> SUFFICES ASSUME TypeOK, DebtRecorded, [LedgerNext]_ledgerVars PROVE DebtRecorded'
  OBVIOUS
<1>0. debt \in Nat /\ incurred \in Nat
  BY DEF TypeOK
<1>1. ASSUME UNCHANGED <<debt, incurred>> PROVE DebtRecorded'
  BY <1>1 DEF DebtRecorded
<1>2. ASSUME NEW q \in Quantities, debt' = debt - DebtRepaid(q, debt), incurred' = incurred
      PROVE  DebtRecorded'
  BY <1>0, <1>2, SMT DEF DebtRecorded, DebtRepaid, Quantities
<1>3. ASSUME NEW d \in 1..MaxIncurred, IncurDebt(d) PROVE DebtRecorded'
  BY <1>0, <1>3, LedgerAssumption, SMT DEF DebtRecorded, IncurDebt
<1>4. ASSUME NEW o \in GrantOps, NEW s \in Sources, PurchasedGrant(o, s) PROVE DebtRecorded'
  BY <1>2, <1>4, InputTypes DEF PurchasedGrant
<1>5. ASSUME NEW t \in TransferOps, NEW cmd \in TransferCommands, Reclaim(t, cmd)
      PROVE  DebtRecorded'
  BY <1>2, <1>5, InputTypes DEF Reclaim, TransferFence
<1>6. ASSUME NEW c \in Charges, SettleReleased(c) PROVE DebtRecorded'
  BY <1>2, <1>6, InputTypes DEF SettleReleased, SettleRow
<1> QED
  BY <1>1, <1>3, <1>4, <1>5, <1>6 DEF LedgerNext, ledgerVars, Allocate, TransferFence,
     Reserve, ReserveMember, ReserveEnterprise, ReserveRow, Settle, SettleCommitted, SettleRow

\* Books that balance leave room to settle: what a settlement moves is part of
\* what was granted, and int64 holds all of that.
LEMMA BooksSettle == TypeOK /\ BooksBacked /\ Conservation /\ DebtRecorded => Settleable
<1> SUFFICES ASSUME TypeOK, BooksBacked, Conservation, DebtRecorded,
                    NEW c \in Charges, reservation[c] = "reserved", granted <= MaxInt
             PROVE  LET m == Intent[c].member
                        q == Intent[c].quantity
                    IN  /\ bucket.reserved >= q
                        /\ bucket.consumed <= MaxInt - q
                        /\ CreditFits(bucket.available, q, debt)
                        /\ CreditFits(bucket.allocated, q, debt)
                        /\ MemberFunded(c) =>
                             /\ position[m].reserved >= q
                             /\ position[m].consumed <= MaxInt - q
                             /\ position[m].free <= MaxInt - NetCredit(q, debt)
  BY DEF Settleable
<1> DEFINE m == Intent[c].member
           q == Intent[c].quantity
           free == [n \in Members |-> position[n].free]
<1>1. m \in Members /\ q \in Balances /\ q \in Nat
  BY InputTypes, QuantitiesAreBalances, SMT DEF Quantities
<1>2. /\ bucket.available \in Balances /\ bucket.allocated \in Balances
      /\ bucket.available \in Nat /\ bucket.allocated \in Nat
      /\ bucket.reserved \in Nat /\ bucket.consumed \in Nat
      /\ debt \in Nat /\ incurred \in Nat /\ granted \in Nat
      /\ position[m].free \in Nat
  BY <1>1, MaxIntAssumption, SMT DEF TypeOK, BucketRows, PositionRows, Balances
<1>3. /\ Charges \in SUBSET Charges /\ FundedBy(m) \in SUBSET Charges
      /\ MemberFunded(c) => c \in FundedBy(m)
  BY DEF FundedBy
<1>4. bucket.reserved >= q
  BY <1>1, <1>2, <1>3, ChargePart DEF BooksBacked, HoldsBacked
<1>5. bucket.available + bucket.allocated + bucket.reserved + bucket.consumed <= MaxInt
  BY <1>2, MaxIntAssumption, SMT DEF Conservation, Free, DebtRecorded
<1>6. bucket.available + q <= MaxInt /\ bucket.allocated + q <= MaxInt /\ bucket.consumed + q <= MaxInt
  BY <1>1, <1>2, <1>4, <1>5, MaxIntAssumption, SMT
<1>7. CreditFits(bucket.available, q, debt) /\ CreditFits(bucket.allocated, q, debt)
  BY <1>1, <1>2, <1>6, CreditRoom
<1>8. ASSUME MemberFunded(c)
      PROVE  /\ position[m].reserved >= q
             /\ position[m].consumed <= MaxInt - q
             /\ position[m].free <= MaxInt - NetCredit(q, debt)
  <2>1. position[m].reserved >= q
    BY <1>1, <1>3, <1>8, ChargePart DEF BooksBacked, HoldsBacked
  <2>2. position[m].consumed \in Nat /\ position[m].consumed <= bucket.consumed
    BY <1>1, <1>3, ChargePart, SMT DEF BooksBacked, ConsumptionBacked
  <2>3. \A x \in Members : free[x] = position[x].free /\ free[x] \in Nat
    BY BookTypes
  <2>4. bucket.allocated = SumOf(free, Members)
    BY DEF BooksBacked, PositionsBacked
  <2> HIDE DEF free
  <2>5. position[m].free <= bucket.allocated
    BY <1>1, <2>3, <2>4, LedgerAssumption, SumElement, ZenonT(40)
  <2>6. NetCredit(q, debt) \in 0..q
    BY <1>1, <1>2, CreditSplit
  <2> HIDE DEF q, m
  <2>7. QED
    BY <1>1, <1>2, <1>6, <2>1, <2>2, <2>5, <2>6, MaxIntAssumption, SMT
<1>9. bucket.consumed <= MaxInt - q
  <2> HIDE DEF q
  <2> QED
    BY <1>1, <1>2, <1>6, MaxIntAssumption, SMT
<1> QED
  BY <1>4, <1>7, <1>8, <1>9

\* An open reservation can always be settled either way while int64 holds all
\* that was granted.
THEOREM AlwaysSettleable == LedgerSpec => []Settleable
<1>1. LedgerInit => DebtRecorded
  BY SMT DEF LedgerInit, DebtRecorded
<1>2. QED
  BY <1>1, DebtStep, BooksSettle, TypeCorrect, BooksBalance, ValueConserved, PTL DEF LedgerSpec

-----------------------------------------------------------------------------
(* Recovery is made of ledger operations *)

\* What the owner, the loops and the callers do is an operation of the ledger
\* or leaves its rows alone.
LEMMA RecoverySteps == [Next]_vars => [LedgerNext]_ledgerVars
<1> SUFFICES ASSUME [Next]_vars PROVE [LedgerNext]_ledgerVars
  OBVIOUS
<1>1. CASE OwnerStep
  BY <1>1 DEF OwnerStep, Admit, Prove, Reject, OwnerMoves
<1>2. ASSUME NEW c \in Charges, ReserveCharge(c) PROVE LedgerNext
  BY <1>2 DEF ReserveCharge, LedgerNext
<1>3. CASE OtherLedgerStep
  BY <1>3 DEF OtherLedgerStep, LedgerNext
<1>4. CASE Tick
  BY <1>4 DEF Tick
<1>5. ASSUME NEW p \in Loops, ClaimDue(p) PROVE UNCHANGED ledgerVars
  BY <1>5 DEF ClaimDue
<1>6. ASSUME NEW p \in Callers, NEW c \in Charges, CallReconcile(p, c)
      PROVE  UNCHANGED ledgerVars
  BY <1>6 DEF CallReconcile
<1>7. ASSUME NEW p \in Processes, ReadProof(p) \/ Fail(p) \/ Crash(p)
      PROVE  UNCHANGED ledgerVars
  BY <1>7 DEF ReadProof, Fail, Crash
<1>8. ASSUME NEW p \in Processes, SettleClaim(p) PROVE [LedgerNext]_ledgerVars
  BY <1>8 DEF SettleClaim, LedgerNext, Settle
<1>9. CASE UNCHANGED vars
  BY <1>9 DEF vars
<1> QED
  BY <1>1, <1>2, <1>3, <1>4, <1>5, <1>6, <1>7, <1>8, <1>9 DEF Next, RecoveryStep

\* Two databases, crashes and retries add no behaviour to the ledger: what a
\* recovery loop or a caller does to its rows is a reservation, a settlement,
\* a grant, a transfer or a debt, each taken whole.
THEOREM RecoveryIsLedger == Spec => LedgerSpec
<1>1. Init => LedgerInit
  BY DEF Init
<1> QED
  BY <1>1, RecoverySteps, PTL DEF Spec, LedgerSpec

\* The accounts of the ledger are right in every state that recovery reaches:
\* value is conserved, each source is minted once, the books are backed and
\* every open charge can still be settled.
THEOREM RecoveryKeepsBooks ==
  Spec => [](Conservation /\ MintedOnce /\ BooksBacked /\ Settleable)
BY RecoveryIsLedger, ValueConserved, MintsOnce, BooksBalance, AlwaysSettleable, PTL

-----------------------------------------------------------------------------
(* Settlement follows proof *)

\* Process memory is one entry per process, and an owner's row one per charge.
MemoryTyped ==
  /\ proof \in [Charges -> OwnerStates]
  /\ reading \in [Processes -> Proven \cup {"none"}]
  /\ claimed = [p \in Processes |-> claimed[p]]

\* What a process has read of the first charge it claims is what the owner's
\* row still says: proofs are immutable, and the claim stays until it is done.
ReadingHolds ==
  \A p \in Processes :
    reading[p] # "none" =>
      /\ claimed[p] # <<>>
      /\ \A c \in Charges : c = Head(claimed[p]) => proof[c] = reading[p]

\* The inductive invariant: SettledAsProved alone is not one, since a process
\* settles with what it has read some steps before.
ProofInv == MemoryTyped /\ ReadingHolds /\ SettledAsProved

\* A step that leaves the owner's rows and the ledger alone and at most ends
\* the claim of one process keeps the invariant.
LEMMA ClaimEnds ==
  ASSUME ProofInv, NEW p \in Processes, NEW rest,
         UNCHANGED <<proof, reservation>>,
         claimed' = [claimed EXCEPT ![p] = rest],
         reading' = [reading EXCEPT ![p] = "none"]
  PROVE  ProofInv'
<1>1. MemoryTyped'
  BY DEF ProofInv, MemoryTyped
<1>2. ASSUME NEW q \in Processes, reading'[q] # "none"
      PROVE  reading'[q] = reading[q] /\ claimed'[q] = claimed[q]
  BY <1>2 DEF ProofInv, MemoryTyped
<1>3. ReadingHolds'
  BY <1>2, SMT DEF ProofInv, ReadingHolds
<1>4. SettledAsProved'
  BY DEF ProofInv, SettledAsProved
<1> QED
  BY <1>1, <1>3, <1>4 DEF ProofInv

\* The owner's rows only gain proofs; nothing that was read becomes stale.
LEMMA OwnerKeepsProofs ==
  ASSUME ProofInv, NEW c \in Charges, NEW to \in OwnerStates,
         proof[c] \notin Proven, OwnerMoves(c, to)
  PROVE  ProofInv'
<1>1. /\ proof' = [proof EXCEPT ![c] = to] /\ proof \in [Charges -> OwnerStates]
      /\ UNCHANGED <<reservation, claimed, reading>>
  BY DEF OwnerMoves, ledgerVars, recoveryVars, ProofInv, MemoryTyped
<1>2. MemoryTyped'
  BY <1>1 DEF ProofInv, MemoryTyped
<1>3. \A d \in Charges : proof[d] \in Proven => proof'[d] = proof[d]
  BY <1>1
<1>4. ReadingHolds'
  BY <1>1, <1>3 DEF ProofInv, ReadingHolds, MemoryTyped
<1>5. SettledAsProved'
  BY <1>1, <1>3 DEF ProofInv, SettledAsProved, Proven
<1> QED
  BY <1>2, <1>4, <1>5 DEF ProofInv

\* Every step keeps the invariant; the ledger's own types are known already.
LEMMA ProofStep == TypeOK /\ ProofInv /\ [Next]_vars => ProofInv'
<1> SUFFICES ASSUME TypeOK, ProofInv, [Next]_vars PROVE ProofInv'
  OBVIOUS
<1>0. CASE UNCHANGED <<proof, reading, claimed, reservation>>
  BY <1>0 DEF ProofInv, MemoryTyped, ReadingHolds, SettledAsProved
<1>1. CASE OwnerStep
  BY <1>1, OwnerKeepsProofs DEF OwnerStep, Admit, Prove, Reject, OwnerStates, Proven
<1>2. ASSUME NEW c \in Charges, ReserveCharge(c) PROVE ProofInv'
  <2>1. /\ reservation \in [Charges -> ReservationStates]
        /\ reservation' = [reservation EXCEPT ![c] = "reserved"]
        /\ UNCHANGED <<proof, reading, claimed>>
    BY <1>2 DEF ReserveCharge, Reserve, ReserveMember, ReserveEnterprise, ReserveRow, TypeOK
  <2>2. QED
    BY <2>1 DEF ProofInv, MemoryTyped, ReadingHolds, SettledAsProved
<1>3. CASE OtherLedgerStep
  BY <1>0, <1>3 DEF OtherLedgerStep, recoveryVars, PurchasedGrant, IncurDebt, Allocate,
     Reclaim, TransferFence
<1>4. CASE Tick
  BY <1>0, <1>4 DEF Tick, ledgerVars
<1>5. ASSUME NEW p \in Processes, NEW batch, claimed[p] = <<>>,
             claimed' = [claimed EXCEPT ![p] = batch],
             UNCHANGED <<proof, reading, reservation>>
      PROVE  ProofInv'
  <2>1. reading[p] = "none"
    BY <1>5 DEF ProofInv, ReadingHolds
  <2>2. reading' = [reading EXCEPT ![p] = "none"]
    BY <1>5, <2>1 DEF ProofInv, MemoryTyped
  <2>3. QED
    BY <1>5, <2>2, ClaimEnds
<1>6. ASSUME NEW p \in Loops, ClaimDue(p) PROVE ProofInv'
  BY <1>5, <1>6 DEF ClaimDue, ledgerVars, Processes
<1>7. ASSUME NEW p \in Callers, NEW c \in Charges, CallReconcile(p, c) PROVE ProofInv'
  BY <1>5, <1>7 DEF CallReconcile, ledgerVars, Processes
<1>8. ASSUME NEW p \in Processes, ReadProof(p) PROVE ProofInv'
  <2>1. UNCHANGED <<proof, reservation>>
    BY <1>8 DEF ReadProof, ledgerVars
  <2>2. CASE Done(p)
    BY <2>1, <2>2, ClaimEnds DEF Done
  <2> DEFINE found == ProofOf(proof[Head(claimed[p])])
  <2>3. CASE found # "none" /\ reading' = [reading EXCEPT ![p] = found] /\ UNCHANGED claimed
    <3>1. found \in Proven /\ found = proof[Head(claimed[p])]
      BY <2>3 DEF ProofOf
    <3> HIDE DEF found
    <3>2. MemoryTyped'
      BY <2>1, <2>3, <3>1 DEF ProofInv, MemoryTyped
    <3>3. ReadingHolds'
      BY <1>8, <2>1, <2>3, <3>1 DEF ReadProof, ProofInv, MemoryTyped, ReadingHolds
    <3>4. QED
      BY <2>1, <3>2, <3>3 DEF ProofInv, SettledAsProved
  <2>4. QED
    BY <1>8, <2>2, <2>3 DEF ReadProof
<1>9. ASSUME NEW p \in Processes, SettleClaim(p) PROVE ProofInv'
  <2>1. UNCHANGED proof /\ Done(p)
    BY <1>9 DEF SettleClaim
  <2>2. CASE UNCHANGED reservation
    BY <2>1, <2>2, ClaimEnds DEF Done
  <2>3. ASSUME NEW c \in Charges, NEW to \in Terminal,
               proof[c] = IF to = "committed" THEN "succeeded" ELSE "failed",
               reservation' = [reservation EXCEPT ![c] = to]
        PROVE  ProofInv'
    <3>1. SettledAsProved'
      BY <2>1, <2>3 DEF ProofInv, SettledAsProved, Terminal, TypeOK
    <3>2. MemoryTyped' /\ ReadingHolds'
      BY <2>1 DEF Done, ProofInv, MemoryTyped, ReadingHolds
    <3>3. QED
      BY <3>1, <3>2 DEF ProofInv
  <2>4. QED
    BY <1>9, <2>2, <2>3
       DEF SettleClaim, SettleCommitted, SettleReleased, SettleRow, ledgerVars, ProofInv,
           ReadingHolds, Terminal
<1>10. ASSUME NEW p \in Processes, Fail(p) \/ Crash(p) PROVE ProofInv'
  BY <1>10, ClaimEnds DEF Fail, Crash, Done, ledgerVars
<1>11. CASE UNCHANGED vars
  BY <1>0, <1>11 DEF vars, ledgerVars, recoveryVars
<1> QED
  BY <1>1, <1>2, <1>3, <1>4, <1>6, <1>7, <1>8, <1>9, <1>10, <1>11 DEF Next, RecoveryStep

\* No charge is settled against its owner, whatever crashes, times out or is
\* retried between reading the proof and settling with it.
THEOREM SettlesAsProved == Spec => []SettledAsProved
<1>1. Init => ProofInv
  BY DEF Init, LedgerInit, RecoveryInit, ProofInv, MemoryTyped, ReadingHolds, SettledAsProved,
     OwnerStates
<1>2. ProofInv => SettledAsProved
  BY DEF ProofInv
<1> QED
  BY <1>1, <1>2, ProofStep, RecoveryIsLedger, TypeCorrect, PTL DEF Spec

=============================================================================
