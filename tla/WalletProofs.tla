---------------------------- MODULE WalletProofs ----------------------------
(***************************************************************************)
(* Proofs about the wallet and about the refunds of a posted payment, for  *)
(* every set of payments, reversals and orders, all amounts, every integer *)
(* width, and any number of recovery processes and faults.  Of the wallet: *)
(* its totals are the sums of its rows, its snapshot always validates, and *)
(* no settlement is refused for want of room.  Of refunds: the wallet, the *)
(* intents and the provider agree on every outcome, and no more is asked   *)
(* back than was paid.                                                     *)
(***************************************************************************)
EXTENDS TopUpRefund, RowSumsProofs

\* The leaves are first-order; one that needs arithmetic names the SMT solver.
USE Zenon

-----------------------------------------------------------------------------
(* The inductive invariant *)

\* The columns that the books add up: principal taken back, holds, prices and
\* payments, zero where a row does not count.
Back(effect) == [r \in Reversals |-> IF effect[r] = NoReceipt THEN 0 ELSE effect[r]]

BackFrom(effect, p) ==
  [r \in Reversals |-> IF Against[r] = p /\ effect[r] # NoReceipt THEN effect[r] ELSE 0]

SetFor(state, amount) == IF state = "RESERVED" THEN amount ELSE 0

Holds(hold) == [r \in Reversals |-> SetFor(hold[r], ReversalMinor[r])]

Prices(purchase) == [o \in Orders |-> SetFor(purchase[o], PriceMinor[o])]

Paid(posted) == [p \in Payments |-> IF p \in posted THEN TopUpMinor[p] ELSE 0]

TakenBack(m) == SumOf(Back(m.effect), Reversals)

TakenFrom(m, p) == SumOf(BackFrom(m.effect, p), Reversals)

Set(m) == SumOf(Holds(m.hold), Reversals) + SumOf(Prices(m.purchase), Orders)

\* Balances agree with the rows.  Debt is only made by taking back, so it never
\* exceeds what was taken: this leaves room in the columns for every settlement.
BalancesFit(m) ==
  /\ m.debt = 0 \/ m.available = 0
  /\ m.topup = SumOf(Paid(m.posted), Payments)
  /\ m.reserved = Set(m)
  /\ m.topup - TakenBack(m) = m.available + m.reserved + m.spend - m.debt
  /\ m.debt <= TakenBack(m)

\* Only posted payments are taken back, none beyond its amount, and a hold is
\* only consumed by its reversal.
RowsFit(m) ==
  /\ \A p \in Payments : TakenFrom(m, p) <= TopUpMinor[p]
  /\ \A r \in Reversals :
       /\ m.effect[r] # NoReceipt => Against[r] \in m.posted
       /\ m.hold[r] = "CONFIRMED" => m.effect[r] # NoReceipt

WalletInv(m) == m \in Wallets /\ BalancesFit(m) /\ RowsFit(m)

-----------------------------------------------------------------------------
(* The columns *)

\* What the constants are.
LEMMA Inputs ==
  /\ MaxInt \in Nat
  /\ IsFiniteSet(Payments) /\ IsFiniteSet(Reversals) /\ IsFiniteSet(Orders)
  /\ \A p \in Payments : TopUpMinor[p] \in Nat /\ TopUpMinor[p] <= MaxInt /\ TopUpMinor[p] > 0
  /\ \A r \in Reversals : /\ ReversalMinor[r] \in Nat /\ ReversalMinor[r] <= MaxInt /\ ReversalMinor[r] > 0
                          /\ Against[r] \in Payments
  /\ \A o \in Orders : PriceMinor[o] \in Nat /\ PriceMinor[o] <= MaxInt /\ PriceMinor[o] > 0
<1>1. \A x \in 1..MaxInt : x \in Nat /\ x <= MaxInt /\ x > 0
  BY WalletAssumption, SMT
<1> QED
  BY <1>1, WalletAssumption

LEMMA FiniteTables == IsFiniteSet(Payments) /\ IsFiniteSet(Reversals) /\ IsFiniteSet(Orders)
BY Inputs

\* The columns of a wallet hold amounts.
LEMMA ColumnsTyped ==
  ASSUME NEW m \in Wallets
  PROVE  /\ \A r \in Reversals : /\ Back(m.effect)[r] \in Nat
                                 /\ \A p : BackFrom(m.effect, p)[r] \in Nat
                                 /\ Holds(m.hold)[r] \in Nat
         /\ \A o \in Orders : Prices(m.purchase)[o] \in Nat
         /\ \A p \in Payments : Paid(m.posted)[p] \in Nat
<1>1. \A r \in Reversals : m.effect[r] \in Amounts \cup {NoReceipt}
  BY SMT DEF Wallets
<1>2. \A x \in Amounts : x \in Nat
  BY Inputs, SMT DEF Amounts
<1>3. 0 \in Nat
  BY SMT
<1> QED
  BY <1>1, <1>2, <1>3, Inputs DEF Back, BackFrom, Holds, Prices, Paid, SetFor

\* So do their sums.
LEMMA SumsTyped ==
  ASSUME NEW m \in Wallets
  PROVE  /\ TakenBack(m) \in Nat
         /\ \A p : TakenFrom(m, p) \in Nat
         /\ SumOf(Holds(m.hold), Reversals) \in Nat
         /\ SumOf(Prices(m.purchase), Orders) \in Nat
         /\ SumOf(Paid(m.posted), Payments) \in Nat
BY ColumnsTyped, SumNat, FiniteTables DEF TakenBack, TakenFrom

\* The sums that the code asks for are the sums of the columns.
LEMMA SumsAreColumns ==
  ASSUME NEW m \in Wallets
  PROVE  /\ \A p \in Payments : Principal(m, p) = TakenFrom(m, p)
         /\ PrincipalTaken(m) = TakenBack(m)
         /\ HoldsReserved(m) = SumOf(Holds(m.hold), Reversals)
         /\ PriceReserved(m) = SumOf(Prices(m.purchase), Orders)
<1>0. \A n \in Nat : n \in Int
  BY SMT
<1>1. ASSUME NEW p \in Payments PROVE Principal(m, p) = TakenFrom(m, p)
  <2> DEFINE T == Accepted(m, p)
             g == BackFrom(m.effect, p)
  <2>1. T \in SUBSET Reversals /\ (\A r \in T : m.effect[r] = g[r]) /\ (\A r \in Reversals \ T : g[r] = 0)
    BY DEF Accepted, BackFrom
  <2>2. \A r \in Reversals : g[r] \in Int
    BY <1>0, ColumnsTyped
  <2> HIDE DEF T, g
  <2>3. SumOf(m.effect, T) = SumOf(g, Reversals)
    BY <2>1, <2>2, FiniteTables, SumSelect, SMT
  <2> QED
    BY <2>3 DEF Principal, TakenFrom, T, g
<1>2. PrincipalTaken(m) = TakenBack(m)
  <2> DEFINE T == {r \in Reversals : m.effect[r] # NoReceipt}
             g == Back(m.effect)
  <2>1. T \in SUBSET Reversals /\ (\A r \in T : m.effect[r] = g[r]) /\ (\A r \in Reversals \ T : g[r] = 0)
    BY DEF Back
  <2>2. \A r \in Reversals : g[r] \in Int
    BY <1>0, ColumnsTyped
  <2> HIDE DEF T, g
  <2>3. SumOf(m.effect, T) = SumOf(g, Reversals)
    BY <2>1, <2>2, FiniteTables, SumSelect, SMT
  <2> QED
    BY <2>3 DEF PrincipalTaken, TakenBack, T, g
<1>3. HoldsReserved(m) = SumOf(Holds(m.hold), Reversals)
  <2> DEFINE T == {r \in Reversals : m.hold[r] = "RESERVED"}
             g == Holds(m.hold)
  <2>1. T \in SUBSET Reversals /\ (\A r \in T : ReversalMinor[r] = g[r]) /\ (\A r \in Reversals \ T : g[r] = 0)
    BY DEF Holds, SetFor
  <2>2. \A r \in Reversals : g[r] \in Int
    BY <1>0, ColumnsTyped
  <2> HIDE DEF T, g
  <2>3. SumOf(ReversalMinor, T) = SumOf(g, Reversals)
    BY <2>1, <2>2, FiniteTables, SumSelect, SMT
  <2> QED
    BY <2>3 DEF HoldsReserved, T, g
<1>4. PriceReserved(m) = SumOf(Prices(m.purchase), Orders)
  <2> DEFINE T == {o \in Orders : m.purchase[o] = "RESERVED"}
             g == Prices(m.purchase)
  <2>1. T \in SUBSET Orders /\ (\A o \in T : PriceMinor[o] = g[o]) /\ (\A o \in Orders \ T : g[o] = 0)
    BY DEF Prices, SetFor
  <2>2. \A o \in Orders : g[o] \in Int
    BY <1>0, ColumnsTyped
  <2> HIDE DEF T, g
  <2>3. SumOf(PriceMinor, T) = SumOf(g, Orders)
    BY <2>1, <2>2, FiniteTables, SumSelect, SMT
  <2> QED
    BY <2>3 DEF PriceReserved, T, g
<1> QED
  BY <1>1, <1>2, <1>3, <1>4

\* One row of a table is written.
Written(after, before, row, value) == after = [before EXCEPT ![row] = value]

\* A receipt adds its principal to what was taken back.
LEMMA BackMoves ==
  ASSUME NEW m \in Wallets, NEW n \in Wallets, NEW r \in Reversals, NEW d \in Amounts,
         m.effect[r] = NoReceipt, Written(n.effect, m.effect, r, d)
  PROVE  /\ TakenBack(n) = TakenBack(m) + d
         /\ TakenFrom(n, Against[r]) = TakenFrom(m, Against[r]) + d
         /\ \A p : p # Against[r] => TakenFrom(n, p) = TakenFrom(m, p)
<1>0. (\A k \in Nat : k \in Int) /\ d \in Nat /\ d # NoReceipt
  BY Inputs, SMT DEF Amounts, NoReceipt
<1>e. n.effect[r] = d /\ \A q \in Reversals \ {r} : n.effect[q] = m.effect[q]
  <2>1. m.effect \in [Reversals -> Amounts \cup {NoReceipt}]
    BY SMT DEF Wallets
  <2> QED
    BY <2>1 DEF Written
<1>1. TakenBack(n) = TakenBack(m) + d
  <2> DEFINE f == Back(m.effect)
             g == Back(n.effect)
  <2>1. f[r] = 0 /\ g[r] = d /\ \A q \in Reversals \ {r} : f[q] = g[q]
    BY <1>0, <1>e DEF Back
  <2>2. \A q \in Reversals : f[q] \in Int /\ g[q] \in Int
    BY <1>0, ColumnsTyped
  <2> HIDE DEF f, g
  <2>3. SumOf(g, Reversals) = SumOf(f, Reversals) - f[r] + g[r]
    BY <2>1, <2>2, FiniteTables, SumUpdate, SMT
  <2>4. SumOf(f, Reversals) \in Int
    BY <2>2, FiniteTables, SumInt
  <2>5. SumOf(g, Reversals) = SumOf(f, Reversals) + d
    BY <1>0, <2>1, <2>3, <2>4, SMT
  <2> QED
    BY <2>5 DEF TakenBack, f, g
<1>2. TakenFrom(n, Against[r]) = TakenFrom(m, Against[r]) + d
  <2> DEFINE f == BackFrom(m.effect, Against[r])
             g == BackFrom(n.effect, Against[r])
  <2>1. f[r] = 0 /\ g[r] = d /\ \A q \in Reversals \ {r} : f[q] = g[q]
    BY <1>0, <1>e DEF BackFrom
  <2>2. \A q \in Reversals : f[q] \in Int /\ g[q] \in Int
    BY <1>0, ColumnsTyped
  <2> HIDE DEF f, g
  <2>3. SumOf(g, Reversals) = SumOf(f, Reversals) - f[r] + g[r]
    BY <2>1, <2>2, FiniteTables, SumUpdate, SMT
  <2>4. SumOf(f, Reversals) \in Int
    BY <2>2, FiniteTables, SumInt
  <2>5. SumOf(g, Reversals) = SumOf(f, Reversals) + d
    BY <1>0, <2>1, <2>3, <2>4, SMT
  <2> QED
    BY <2>5 DEF TakenFrom, f, g
<1>3. ASSUME NEW p, p # Against[r] PROVE TakenFrom(n, p) = TakenFrom(m, p)
  <2>1. \A q \in Reversals : BackFrom(m.effect, p)[q] = BackFrom(n.effect, p)[q]
    BY <1>3, <1>e DEF BackFrom
  <2> QED
    BY <2>1, FiniteTables, SumEqual, SMT DEF TakenFrom
<1> QED
  BY <1>1, <1>2, <1>3

\* A hold or a reservation that opens or ends moves what is set aside.
LEMMA HoldMoves ==
  ASSUME NEW m \in Wallets, NEW n \in Wallets, NEW r \in Reversals, NEW state,
         Written(n.hold, m.hold, r, state), n.purchase = m.purchase
  PROVE  Set(n) = Set(m) - SetFor(m.hold[r], ReversalMinor[r]) + SetFor(state, ReversalMinor[r])
<1> DEFINE f == Holds(m.hold)
           g == Holds(n.hold)
<1>0. \A k \in Nat : k \in Int
  BY SMT
<1>1. n.hold[r] = state /\ \A q \in Reversals \ {r} : n.hold[q] = m.hold[q]
  <2>1. m.hold \in [Reversals -> {"none", "RESERVED", "CONFIRMED", "RELEASED"}]
    BY SMT DEF Wallets
  <2> QED
    BY <2>1 DEF Written
<1>2. /\ f[r] = SetFor(m.hold[r], ReversalMinor[r]) /\ g[r] = SetFor(state, ReversalMinor[r])
      /\ \A q \in Reversals \ {r} : f[q] = g[q]
  BY <1>1 DEF Holds, SetFor
<1>3. \A q \in Reversals : f[q] \in Int /\ g[q] \in Int
  BY <1>0, ColumnsTyped
<1>4. SumOf(Prices(m.purchase), Orders) \in Int
  BY <1>0, SumsTyped
<1> HIDE DEF f, g
<1>5. SumOf(g, Reversals) = SumOf(f, Reversals) - f[r] + g[r]
  BY <1>2, <1>3, FiniteTables, SumUpdate, SMT
<1>6. SumOf(f, Reversals) \in Int
  BY <1>3, FiniteTables, SumInt
<1>7. Set(m) = SumOf(f, Reversals) + SumOf(Prices(m.purchase), Orders)
      /\ Set(n) = SumOf(g, Reversals) + SumOf(Prices(m.purchase), Orders)
  BY DEF Set, f, g
<1>8. Set(n) = Set(m) - f[r] + g[r]
  BY <1>3, <1>4, <1>5, <1>6, <1>7, SMT
<1> QED
  BY <1>2, <1>8

LEMMA PriceMoves ==
  ASSUME NEW m \in Wallets, NEW n \in Wallets, NEW o \in Orders, NEW state,
         Written(n.purchase, m.purchase, o, state), n.hold = m.hold
  PROVE  Set(n) = Set(m) - SetFor(m.purchase[o], PriceMinor[o]) + SetFor(state, PriceMinor[o])
<1> DEFINE f == Prices(m.purchase)
           g == Prices(n.purchase)
<1>0. \A k \in Nat : k \in Int
  BY SMT
<1>1. n.purchase[o] = state /\ \A q \in Orders \ {o} : n.purchase[q] = m.purchase[q]
  <2>1. m.purchase \in [Orders -> {"none", "rejected", "RESERVED", "COMMITTED", "RELEASED"}]
    BY SMT DEF Wallets
  <2> QED
    BY <2>1 DEF Written
<1>2. /\ f[o] = SetFor(m.purchase[o], PriceMinor[o]) /\ g[o] = SetFor(state, PriceMinor[o])
      /\ \A q \in Orders \ {o} : f[q] = g[q]
  BY <1>1 DEF Prices, SetFor
<1>3. \A q \in Orders : f[q] \in Int /\ g[q] \in Int
  BY <1>0, ColumnsTyped
<1>4. SumOf(Holds(m.hold), Reversals) \in Int
  BY <1>0, SumsTyped
<1> HIDE DEF f, g
<1>5. SumOf(g, Orders) = SumOf(f, Orders) - f[o] + g[o]
  BY <1>2, <1>3, FiniteTables, SumUpdate, SMT
<1>6. SumOf(f, Orders) \in Int
  BY <1>3, FiniteTables, SumInt
<1>7. Set(m) = SumOf(Holds(m.hold), Reversals) + SumOf(f, Orders)
      /\ Set(n) = SumOf(Holds(m.hold), Reversals) + SumOf(g, Orders)
  BY DEF Set, f, g
<1>8. Set(n) = Set(m) - f[o] + g[o]
  BY <1>3, <1>4, <1>5, <1>6, <1>7, SMT
<1> QED
  BY <1>2, <1>8

\* A first posting adds the payment.
LEMMA PaidMoves ==
  ASSUME NEW m \in Wallets, NEW p \in Payments, p \notin m.posted
  PROVE  SumOf(Paid(m.posted \cup {p}), Payments) = SumOf(Paid(m.posted), Payments) + TopUpMinor[p]
<1> DEFINE f == Paid(m.posted)
           g == Paid(m.posted \cup {p})
<1>0. (\A k \in Nat : k \in Int) /\ 0 \in Nat
  BY SMT
<1>1. f[p] = 0 /\ g[p] = TopUpMinor[p] /\ \A q \in Payments \ {p} : f[q] = g[q]
  BY DEF Paid
<1>2. \A q \in Payments : f[q] \in Int /\ g[q] \in Int
  BY <1>0, Inputs DEF Paid
<1> HIDE DEF f, g
<1>3. SumOf(g, Payments) = SumOf(f, Payments) - f[p] + g[p]
  BY <1>1, <1>2, FiniteTables, SumUpdate, SMT
<1>4. SumOf(f, Payments) \in Int
  BY <1>2, FiniteTables, SumInt
<1>5. SumOf(g, Payments) = SumOf(f, Payments) + TopUpMinor[p]
  BY <1>1, <1>2, <1>3, <1>4, SMT
<1> QED
  BY <1>5 DEF f, g

-----------------------------------------------------------------------------
(* What each operation does to the fields *)

\* The rows of the wallet are left alone.
SameRows(m, n) ==
  /\ n.posted = m.posted /\ n.effect = m.effect /\ n.hold = m.hold
  /\ n.admitted = m.admitted /\ n.purchase = m.purchase

\* Its balances are amounts, and others may take their place.
LEMMA Balances ==
  ASSUME NEW m \in Wallets
  PROVE  /\ m.available \in Amounts /\ m.reserved \in Amounts /\ m.debt \in Amounts
         /\ m.topup \in Amounts /\ m.spend \in Amounts
BY SMT DEF Wallets

LEMMA Replaced ==
  ASSUME NEW m \in Wallets, NEW x \in Amounts
  PROVE  /\ [m EXCEPT !.available = x] \in Wallets /\ [m EXCEPT !.reserved = x] \in Wallets
         /\ [m EXCEPT !.debt = x] \in Wallets /\ [m EXCEPT !.topup = x] \in Wallets
         /\ [m EXCEPT !.spend = x] \in Wallets
<1>1. [m EXCEPT !.available = x] \in Wallets
  BY SMT DEF Wallets
<1>2. [m EXCEPT !.reserved = x] \in Wallets
  BY SMT DEF Wallets
<1>3. [m EXCEPT !.debt = x] \in Wallets
  BY SMT DEF Wallets
<1>4. [m EXCEPT !.topup = x] \in Wallets
  BY SMT DEF Wallets
<1>5. [m EXCEPT !.spend = x] \in Wallets
  BY SMT DEF Wallets
<1> QED
  BY <1>1, <1>2, <1>3, <1>4, <1>5

LEMMA AddedIs ==
  ASSUME NEW m \in Wallets, NEW a \in Amounts, AddFits(m, a)
  PROVE  /\ Added(m, a) \in Wallets /\ SameRows(m, Added(m, a))
         /\ Added(m, a).debt = m.debt - Lesser(m.debt, a)
         /\ Added(m, a).available = m.available + a - Lesser(m.debt, a)
         /\ Added(m, a).reserved = m.reserved
         /\ Added(m, a).topup = m.topup /\ Added(m, a).spend = m.spend
<1> DEFINE x == m.debt - Lesser(m.debt, a)
           y == m.available + a - Lesser(m.debt, a)
<1>1. x \in Amounts /\ y \in Amounts
  BY Inputs, Balances, SMT DEF AddFits, Lesser, Amounts
<1> HIDE DEF x, y
<1>2. Added(m, a) = [m EXCEPT !.debt = x, !.available = y]
  BY SMT DEF Added, x, y, Wallets
<1>3. [m EXCEPT !.debt = x, !.available = y] \in Wallets
  <2>1. [m EXCEPT !.debt = x] \in Wallets
    BY <1>1, Replaced
  <2>2. [[m EXCEPT !.debt = x] EXCEPT !.available = y] \in Wallets
    BY <1>1, <2>1, Replaced
  <2> QED
    BY <2>2
<1>4. Added(m, a).debt = x /\ Added(m, a).available = y
  BY <1>2, SMT DEF Wallets
<1>5. SameRows(m, Added(m, a)) /\ Added(m, a).reserved = m.reserved
      /\ Added(m, a).topup = m.topup /\ Added(m, a).spend = m.spend
  BY <1>2, SMT DEF Wallets, SameRows
<1> QED
  BY <1>2, <1>3, <1>4, <1>5 DEF x, y

LEMMA TakenIs ==
  ASSUME NEW m \in Wallets, NEW a \in Amounts, TakeFits(m, a)
  PROVE  /\ Taken(m, a) \in Wallets /\ SameRows(m, Taken(m, a))
         /\ Taken(m, a).available = m.available - Lesser(m.available, a)
         /\ Taken(m, a).debt = m.debt + a - Lesser(m.available, a)
         /\ Taken(m, a).reserved = m.reserved
         /\ Taken(m, a).topup = m.topup /\ Taken(m, a).spend = m.spend
<1> DEFINE x == m.available - Lesser(m.available, a)
           y == m.debt + a - Lesser(m.available, a)
<1>1. x \in Amounts /\ y \in Amounts
  BY Inputs, Balances, SMT DEF TakeFits, Lesser, Amounts
<1> HIDE DEF x, y
<1>2. Taken(m, a) = [m EXCEPT !.available = x, !.debt = y]
  BY SMT DEF Taken, x, y, Wallets
<1>3. [m EXCEPT !.available = x, !.debt = y] \in Wallets
  <2>1. [m EXCEPT !.available = x] \in Wallets
    BY <1>1, Replaced
  <2>2. [[m EXCEPT !.available = x] EXCEPT !.debt = y] \in Wallets
    BY <1>1, <2>1, Replaced
  <2> QED
    BY <2>2
<1>4. Taken(m, a).debt = y /\ Taken(m, a).available = x
  BY <1>2, SMT DEF Wallets
<1>5. SameRows(m, Taken(m, a)) /\ Taken(m, a).reserved = m.reserved
      /\ Taken(m, a).topup = m.topup /\ Taken(m, a).spend = m.spend
  BY <1>2, SMT DEF Wallets, SameRows
<1> QED
  BY <1>2, <1>3, <1>4, <1>5 DEF x, y

LEMMA UnreservedIs ==
  ASSUME NEW m \in Wallets, NEW a \in Amounts, m.reserved >= a
  PROVE  /\ Unreserved(m, a) \in Wallets /\ SameRows(m, Unreserved(m, a))
         /\ Unreserved(m, a).reserved = m.reserved - a
         /\ Unreserved(m, a).available = m.available /\ Unreserved(m, a).debt = m.debt
         /\ Unreserved(m, a).topup = m.topup /\ Unreserved(m, a).spend = m.spend
BY Inputs, SMT DEF Unreserved, Amounts, Wallets, SameRows

LEMMA ReservedIs ==
  ASSUME NEW m \in Wallets, NEW a \in Amounts, m.available >= a, m.reserved <= MaxInt - a
  PROVE  /\ Reserved(m, a) \in Wallets /\ SameRows(m, Reserved(m, a))
         /\ Reserved(m, a).reserved = m.reserved + a
         /\ Reserved(m, a).available = m.available - a /\ Reserved(m, a).debt = m.debt
         /\ Reserved(m, a).topup = m.topup /\ Reserved(m, a).spend = m.spend
<1> DEFINE x == m.available - a
           y == m.reserved + a
<1>1. x \in Amounts /\ y \in Amounts
  BY Inputs, Balances, SMT DEF Amounts
<1> HIDE DEF x, y
<1>2. Reserved(m, a) = [m EXCEPT !.available = x, !.reserved = y]
  BY SMT DEF Reserved, x, y, Wallets
<1>3. [m EXCEPT !.available = x, !.reserved = y] \in Wallets
  <2>1. [m EXCEPT !.available = x] \in Wallets
    BY <1>1, Replaced
  <2>2. [[m EXCEPT !.available = x] EXCEPT !.reserved = y] \in Wallets
    BY <1>1, <2>1, Replaced
  <2> QED
    BY <2>2
<1>4. Reserved(m, a).reserved = y /\ Reserved(m, a).available = x
  BY <1>2, SMT DEF Wallets
<1>5. SameRows(m, Reserved(m, a)) /\ Reserved(m, a).debt = m.debt
      /\ Reserved(m, a).topup = m.topup /\ Reserved(m, a).spend = m.spend
  BY <1>2, SMT DEF Wallets, SameRows
<1> QED
  BY <1>2, <1>3, <1>4, <1>5 DEF x, y

SameBalances(m, n) ==
  /\ n.available = m.available /\ n.reserved = m.reserved /\ n.debt = m.debt
  /\ n.topup = m.topup /\ n.spend = m.spend

\* n is m with one row written.
HoldWritten(m, n, r, state) ==
  /\ n \in Wallets /\ SameBalances(m, n) /\ Written(n.hold, m.hold, r, state)
  /\ n.posted = m.posted /\ n.effect = m.effect /\ n.admitted = m.admitted
  /\ n.purchase = m.purchase

EffectWritten(m, n, r, d) ==
  /\ n \in Wallets /\ SameBalances(m, n) /\ Written(n.effect, m.effect, r, d)
  /\ n.posted = m.posted /\ n.hold = m.hold /\ n.admitted = m.admitted
  /\ n.purchase = m.purchase

PurchaseWritten(m, n, o, state) ==
  /\ n \in Wallets /\ SameBalances(m, n) /\ Written(n.purchase, m.purchase, o, state)
  /\ n.posted = m.posted /\ n.hold = m.hold /\ n.admitted = m.admitted
  /\ n.effect = m.effect

WithHold(m, r, state) == [m EXCEPT !.hold[r] = state]

WithEffect(m, r, d) == [m EXCEPT !.effect[r] = d]

WithPurchase(m, o, state) == [m EXCEPT !.purchase[o] = state]

LEMMA HoldReplaced ==
  ASSUME NEW m \in Wallets, NEW r \in Reversals,
         NEW state \in {"none", "RESERVED", "CONFIRMED", "RELEASED"}
  PROVE  HoldWritten(m, WithHold(m, r, state), r, state)
<1> DEFINE n == WithHold(m, r, state)
<1>1. n \in Wallets
  BY SMT DEF Wallets, WithHold
<1> DEFINE x == [m.hold EXCEPT ![r] = state]
<1>2. n = [m EXCEPT !.hold = x]
  BY SMT DEF Wallets, WithHold
<1> HIDE DEF x, n
<1>3. n.hold = x
  BY <1>2, SMT DEF Wallets
<1>4. SameBalances(m, n)
  BY <1>2, SMT DEF Wallets, SameBalances
<1>5. /\ n.posted = m.posted /\ n.admitted = m.admitted
      /\ n.effect = m.effect /\ n.purchase = m.purchase
  BY <1>2, SMT DEF Wallets
<1> QED
  BY <1>1, <1>3, <1>4, <1>5 DEF x, n, HoldWritten, Written

LEMMA EffectReplaced ==
  ASSUME NEW m \in Wallets, NEW r \in Reversals, NEW d \in Amounts
  PROVE  EffectWritten(m, WithEffect(m, r, d), r, d)
<1> DEFINE n == WithEffect(m, r, d)
<1>1. n \in Wallets
  BY SMT DEF Wallets, WithEffect
<1> DEFINE x == [m.effect EXCEPT ![r] = d]
<1>2. n = [m EXCEPT !.effect = x]
  BY SMT DEF Wallets, WithEffect
<1> HIDE DEF x, n
<1>3. n.effect = x
  BY <1>2, SMT DEF Wallets
<1>4. SameBalances(m, n)
  BY <1>2, SMT DEF Wallets, SameBalances
<1>5. /\ n.posted = m.posted /\ n.admitted = m.admitted
      /\ n.hold = m.hold /\ n.purchase = m.purchase
  BY <1>2, SMT DEF Wallets
<1> QED
  BY <1>1, <1>3, <1>4, <1>5 DEF x, n, EffectWritten, Written

LEMMA PurchaseReplaced ==
  ASSUME NEW m \in Wallets, NEW o \in Orders,
         NEW state \in {"none", "rejected", "RESERVED", "COMMITTED", "RELEASED"}
  PROVE  PurchaseWritten(m, WithPurchase(m, o, state), o, state)
<1> DEFINE n == WithPurchase(m, o, state)
<1>1. n \in Wallets
  BY SMT DEF Wallets, WithPurchase
<1> DEFINE x == [m.purchase EXCEPT ![o] = state]
<1>2. n = [m EXCEPT !.purchase = x]
  BY SMT DEF Wallets, WithPurchase
<1> HIDE DEF x, n
<1>3. n.purchase = x
  BY <1>2, SMT DEF Wallets
<1>4. SameBalances(m, n)
  BY <1>2, SMT DEF Wallets, SameBalances
<1>5. /\ n.posted = m.posted /\ n.admitted = m.admitted
      /\ n.effect = m.effect /\ n.hold = m.hold
  BY <1>2, SMT DEF Wallets
<1> QED
  BY <1>1, <1>3, <1>4, <1>5 DEF x, n, PurchaseWritten, Written

\* The effect of a reversal is an amount, and leaves no payment overdrawn.
LEMMA EffectFits ==
  ASSUME NEW m, WalletInv(m), NEW r \in Reversals
  PROVE  /\ PrincipalEffect(m, r) \in Amounts
         /\ PrincipalEffect(m, r) <= ReversalMinor[r]
         /\ TakenFrom(m, Against[r]) + PrincipalEffect(m, r) <= TopUpMinor[Against[r]]
<1> DEFINE t == TakenFrom(m, Against[r])
           x == TopUpMinor[Against[r]]
           y == ReversalMinor[r]
<1>1. m \in Wallets /\ Against[r] \in Payments
  BY Inputs DEF WalletInv
<1>2. Principal(m, Against[r]) = t
  BY <1>1, SumsAreColumns
<1>3. t \in Nat /\ t <= x
  BY <1>1, SumsTyped DEF WalletInv, RowsFit
<1>4. /\ x \in Nat /\ x <= MaxInt /\ y \in Nat /\ y <= MaxInt /\ MaxInt \in Nat
  BY <1>1, Inputs
<1>5. PrincipalEffect(m, r) = Lesser(y, x - t)
  BY <1>2 DEF PrincipalEffect
<1> HIDE DEF t, x, y
<1>6. Lesser(y, x - t) \in Amounts /\ Lesser(y, x - t) <= y /\ t + Lesser(y, x - t) <= x
  BY <1>3, <1>4, SMT DEF Lesser, Amounts
<1> QED
  BY <1>5, <1>6 DEF t, x, y

-----------------------------------------------------------------------------
(* Each operation preserves the invariant *)

\* An accepted reversal: what it does to the fields.
TookBack(m, n, r, d, q) ==
  /\ n \in Wallets
  /\ Written(n.effect, m.effect, r, d) /\ m.effect[r] = NoReceipt
  /\ n.posted = m.posted /\ n.admitted = m.admitted /\ n.purchase = m.purchase
  /\ n.topup = m.topup /\ n.spend = m.spend
  /\ Confirms(m, r) =>
       /\ Written(n.hold, m.hold, r, "CONFIRMED")
       /\ n.reserved = m.reserved - q /\ n.debt = m.debt - Lesser(m.debt, q - d)
       /\ n.available = m.available + (q - d) - Lesser(m.debt, q - d)
  /\ ~Confirms(m, r) =>
       /\ n.hold = m.hold /\ n.reserved = m.reserved
       /\ n.available = m.available - Lesser(m.available, d)
       /\ n.debt = m.debt + d - Lesser(m.available, d)

LEMMA TakeBackIs ==
  ASSUME NEW m, WalletInv(m), NEW r \in Reversals, CanReverse(m, r)
  PROVE  TookBack(m, TakeBack(m, r), r, PrincipalEffect(m, r), ReversalMinor[r])
<1>0. PICK n, d, q : n = TakeBack(m, r) /\ d = PrincipalEffect(m, r) /\ q = ReversalMinor[r]
  OBVIOUS
<1>1. m \in Wallets /\ d \in Amounts /\ d <= q /\ q \in Nat /\ q <= MaxInt /\ MaxInt \in Nat
  BY <1>0, EffectFits, Inputs DEF WalletInv
<1>2. q \in Amounts /\ q - d \in Amounts
  BY <1>1, SMT DEF Amounts
<1>3. m.effect[r] = NoReceipt
  BY DEF CanReverse, Replayed
<1>4. CASE Confirms(m, r)
  <2>1. m.reserved >= q /\ AddFits(m, q - d)
    BY <1>0, <1>4 DEF CanReverse
  <2> DEFINE u == Unreserved(m, q)
             v == Added(u, q - d)
  <2>2. /\ u \in Wallets /\ SameRows(m, u) /\ u.reserved = m.reserved - q
        /\ u.available = m.available /\ u.debt = m.debt /\ u.topup = m.topup /\ u.spend = m.spend
    BY <1>1, <1>2, <2>1, UnreservedIs
  <2>3. AddFits(u, q - d)
    BY <2>1, <2>2 DEF AddFits
  <2>4. n = [v EXCEPT !.effect[r] = d, !.hold[r] = "CONFIRMED"]
    BY <1>0, <1>4 DEF TakeBack, ConsumeHold
  <2> HIDE DEF u
  <2>5. /\ v \in Wallets /\ SameRows(u, v) /\ v.debt = u.debt - Lesser(u.debt, q - d)
        /\ v.available = u.available + (q - d) - Lesser(u.debt, q - d)
        /\ v.reserved = u.reserved /\ v.topup = u.topup /\ v.spend = u.spend
    BY <1>2, <2>2, <2>3, AddedIs
  <2> HIDE DEF v
  <2>6. PICK w : w = WithEffect(v, r, d)
    OBVIOUS
  <2>7. EffectWritten(v, w, r, d)
    BY <1>1, <2>5, <2>6, EffectReplaced
  <2>8. n = WithHold(w, r, "CONFIRMED")
    BY <2>4, <2>6 DEF WithEffect, WithHold
  <2>9. HoldWritten(w, n, r, "CONFIRMED")
    BY <2>7, <2>8, HoldReplaced DEF EffectWritten
  <2> QED
    <3>1. TookBack(m, n, r, d, q)
      BY <1>3, <1>4, <2>2, <2>5, <2>7, <2>9, SMT DEF SameRows, SameBalances, EffectWritten, HoldWritten, TookBack, Written
    <3> QED
      BY <3>1, <1>0
<1>5. CASE ~Confirms(m, r)
  <2>1. TakeFits(m, d)
    BY <1>0, <1>5 DEF CanReverse
  <2> DEFINE v == Taken(m, d)
  <2>2. n = [v EXCEPT !.effect[r] = d, !.hold[r] = @]
    BY <1>0, <1>5 DEF TakeBack
  <2>3. /\ v \in Wallets /\ SameRows(m, v)
        /\ v.available = m.available - Lesser(m.available, d)
        /\ v.debt = m.debt + d - Lesser(m.available, d)
        /\ v.reserved = m.reserved /\ v.topup = m.topup /\ v.spend = m.spend
    BY <1>1, <2>1, TakenIs
  <2> HIDE DEF v
  <2>4. PICK w : w = WithEffect(v, r, d)
    OBVIOUS
  <2>5. EffectWritten(v, w, r, d)
    BY <1>1, <2>3, <2>4, EffectReplaced
  <2>6. n = WithHold(w, r, w.hold[r])
    BY <2>2, <2>4 DEF WithEffect, WithHold
  <2>7. w \in Wallets /\ w.hold[r] \in {"none", "RESERVED", "CONFIRMED", "RELEASED"}
    BY <2>5, SMT DEF Wallets, EffectWritten
  <2>8. HoldWritten(w, n, r, w.hold[r])
    BY <2>6, <2>7, HoldReplaced
  <2>9. w.hold = [w.hold EXCEPT ![r] = w.hold[r]]
    BY <2>5, SMT DEF Wallets, EffectWritten
  <2> QED
    <3>1. TookBack(m, n, r, d, q)
      BY <1>3, <1>5, <2>3, <2>5, <2>8, <2>9, SMT DEF SameRows, SameBalances, EffectWritten, HoldWritten, TookBack, Written
    <3> QED
      BY <3>1, <1>0
<1> QED
  BY <1>0, <1>4, <1>5

\* What a step may not disturb follows from the rows it leaves alone.
LEMMA SameSums ==
  ASSUME NEW m, NEW n
  PROVE  /\ n.effect = m.effect =>
              TakenBack(n) = TakenBack(m) /\ \A p : TakenFrom(n, p) = TakenFrom(m, p)
         /\ n.hold = m.hold /\ n.purchase = m.purchase => Set(n) = Set(m)
BY DEF TakenBack, TakenFrom, Set

LEMMA Numbers ==
  ASSUME NEW m, WalletInv(m)
  PROVE  /\ m.available \in Nat /\ m.reserved \in Nat /\ m.debt \in Nat
         /\ m.topup \in Nat /\ m.spend \in Nat /\ MaxInt \in Nat
         /\ m.available <= MaxInt /\ m.reserved <= MaxInt /\ m.debt <= MaxInt
         /\ m.topup <= MaxInt /\ m.spend <= MaxInt
         /\ TakenBack(m) \in Nat /\ Set(m) \in Nat
<1>1. m \in Wallets
  BY DEF WalletInv
<1>2. TakenBack(m) \in Nat /\ SumOf(Holds(m.hold), Reversals) \in Nat
      /\ SumOf(Prices(m.purchase), Orders) \in Nat
  BY <1>1, SumsTyped
<1>3. Set(m) \in Nat
  BY <1>2, SMT DEF Set
<1>4. MaxInt \in Nat
  BY Inputs
<1> QED
  BY <1>1, <1>2, <1>3, <1>4, Balances, SMT DEF Amounts

\* The books still balance when d is taken back, q set free and e credited.
LEMMA BookMoves ==
  ASSUME NEW t \in Nat, NEW b \in Nat, NEW a \in Nat, NEW r \in Nat, NEW s \in Nat, NEW x \in Nat,
         NEW d \in Nat, NEW q \in Nat, NEW e \in Nat, e = q - d, t - b = a + r + s - x
  PROVE  t - (b + d) = a + (r - q) + s - (x - e)
BY SMT

LEMMA TakeBackKeeps ==
  ASSUME NEW m, WalletInv(m), NEW r \in Reversals, CanReverse(m, r)
  PROVE  WalletInv(TakeBack(m, r))
<1>1. PICK n, d, q : n = TakeBack(m, r) /\ d = PrincipalEffect(m, r) /\ q = ReversalMinor[r]
  OBVIOUS
<1>2. TookBack(m, n, r, d, q)
  BY <1>1, TakeBackIs
<1>3. m \in Wallets /\ BalancesFit(m) /\ RowsFit(m)
  BY DEF WalletInv
<1>4. /\ d \in Amounts /\ d <= q /\ TakenFrom(m, Against[r]) + d <= TopUpMinor[Against[r]]
      /\ q \in Nat
  BY <1>1, EffectFits, Inputs
<1>5. d \in Nat /\ d # NoReceipt
  BY <1>4, Inputs, SMT DEF Amounts, NoReceipt
<1>e. /\ n \in Wallets /\ Written(n.effect, m.effect, r, d) /\ m.effect[r] = NoReceipt
      /\ n.posted = m.posted /\ n.purchase = m.purchase
  BY <1>2 DEF TookBack
<1>6. /\ TakenBack(n) = TakenBack(m) + d
      /\ TakenFrom(n, Against[r]) = TakenFrom(m, Against[r]) + d
      /\ \A p : p # Against[r] => TakenFrom(n, p) = TakenFrom(m, p)
  BY <1>e, <1>3, <1>4, BackMoves
<1>7. RowsFit(n)
  <2>1. \A p \in Payments : TakenFrom(n, p) <= TopUpMinor[p]
    BY <1>3, <1>4, <1>6 DEF RowsFit
  <2>2. n.effect[r] = d /\ \A s \in Reversals \ {r} : n.effect[s] = m.effect[s]
    <3>1. m.effect \in [Reversals -> Amounts \cup {NoReceipt}]
      BY <1>3, SMT DEF Wallets
    <3> QED
      BY <1>e, <3>1 DEF Written
  <2>3. \A s \in Reversals \ {r} : n.hold[s] = m.hold[s]
    <3>1. m.hold \in [Reversals -> {"none", "RESERVED", "CONFIRMED", "RELEASED"}]
      BY <1>3, SMT DEF Wallets
    <3> QED
      BY <1>2, <3>1 DEF TookBack, Written
  <2>4. Against[r] \in n.posted
    BY <1>e DEF CanReverse
  <2>5. n.hold[r] = "CONFIRMED" => n.effect[r] # NoReceipt
    BY <1>5, <2>2
  <2> QED
    BY <1>e, <1>2, <1>3, <1>5, <2>1, <2>2, <2>3, <2>4, <2>5 DEF RowsFit
<1>8. BalancesFit(n)
  <2>1. /\ m.available \in Nat /\ m.reserved \in Nat /\ m.debt \in Nat
        /\ m.topup \in Nat /\ m.spend \in Nat /\ TakenBack(m) \in Nat /\ Set(m) \in Nat
    BY Numbers
  <2>2. m.topup = SumOf(Paid(m.posted), Payments) /\ n.topup = SumOf(Paid(n.posted), Payments)
    BY <1>e, <1>2, <1>3 DEF BalancesFit, TookBack
  <2>3. /\ m.debt = 0 \/ m.available = 0
        /\ m.reserved = Set(m) /\ m.debt <= TakenBack(m)
        /\ m.topup - TakenBack(m) = m.available + m.reserved + m.spend - m.debt
    BY <1>3 DEF BalancesFit
  <2>4. CASE Confirms(m, r)
    <3>0. /\ Written(n.hold, m.hold, r, "CONFIRMED")
          /\ n.reserved = m.reserved - q /\ n.debt = m.debt - Lesser(m.debt, q - d)
          /\ n.available = m.available + (q - d) - Lesser(m.debt, q - d)
          /\ n.topup = m.topup /\ n.spend = m.spend
      BY <1>2, <2>4 DEF TookBack
    <3>1. Set(n) = Set(m) - q
      <4>1. m.hold[r] = "RESERVED"
        BY <2>4 DEF Confirms
      <4>2. Set(n) = Set(m) - SetFor(m.hold[r], ReversalMinor[r]) + SetFor("CONFIRMED", ReversalMinor[r])
        BY <1>e, <1>3, <3>0, HoldMoves
      <4>3. Set(n) = Set(m) - q + 0
        BY <1>1, <4>1, <4>2 DEF SetFor
      <4> QED
        BY <1>4, <2>1, <4>3, SMT
    <3>2. /\ n.debt = 0 \/ n.available = 0
          /\ n.reserved = Set(n) /\ n.debt <= TakenBack(n)
          /\ n.topup - TakenBack(n) = n.available + n.reserved + n.spend - n.debt
      <4>0. PICK e : e = q - d /\ e \in Nat
        BY <1>4, <1>5, SMT
      <4>1. CASE m.debt < e
        <5>1. n.available = m.available + e - m.debt /\ n.debt = m.debt - m.debt
          BY <3>0, <4>0, <4>1 DEF Lesser
        <5> QED
          BY <1>4, <1>5, <1>6, <2>1, <2>3, <3>0, <3>1, <4>0, <5>1, SMT
      <4>2. CASE ~(m.debt < e)
        <5>1. n.available = m.available + e - e /\ n.debt = m.debt - e
          BY <3>0, <4>0, <4>2 DEF Lesser
        <5>2. m.debt >= e /\ n.available = m.available
          BY <2>1, <4>0, <4>2, <5>1, SMT
        <5> QED
          <6>1. /\ n.reserved = m.reserved - q /\ n.topup = m.topup /\ n.spend = m.spend
                /\ TakenBack(n) = TakenBack(m) + d
            BY <1>6, <3>0
          <6>2. n.debt = 0 \/ n.available = 0
            BY <2>1, <2>3, <4>0, <5>1, <5>2, SMT
          <6>3. n.reserved = Set(n) /\ n.debt <= TakenBack(n)
            BY <1>4, <1>5, <2>1, <2>3, <3>1, <4>0, <5>1, <6>1, SMT
          <6>4. n.topup - TakenBack(n) = n.available + n.reserved + n.spend - n.debt
            <7>1. m.topup - TakenBack(m) = m.available + m.reserved + m.spend - m.debt
              BY <2>3
            <7>2. n.debt = m.debt - e /\ n.available = m.available /\ q \in Nat
              BY <1>4, <5>1, <5>2
            <7>3. m.topup - (TakenBack(m) + d) = m.available + (m.reserved - q) + m.spend - (m.debt - e)
              BY <1>5, <2>1, <4>0, <7>1, <7>2, BookMoves, SMT
            <7> QED
              BY <6>1, <7>2, <7>3
          <6> QED
            BY <6>2, <6>3, <6>4
      <4> QED
        BY <4>1, <4>2
    <3> QED
      BY <2>2, <3>2 DEF BalancesFit
  <2>5. CASE ~Confirms(m, r)
    <3>0. /\ n.hold = m.hold /\ n.reserved = m.reserved
          /\ n.available = m.available - Lesser(m.available, d)
          /\ n.debt = m.debt + d - Lesser(m.available, d)
          /\ n.topup = m.topup /\ n.spend = m.spend
      BY <1>2, <2>5 DEF TookBack
    <3>1. Set(n) = Set(m)
      BY <1>e, <3>0, SameSums
    <3>2. /\ n.debt = 0 \/ n.available = 0
          /\ n.reserved = Set(n) /\ n.debt <= TakenBack(n)
          /\ n.topup - TakenBack(n) = n.available + n.reserved + n.spend - n.debt
      <4>1. CASE m.available < d
        BY <1>5, <1>6, <2>1, <2>3, <3>0, <3>1, <4>1, SMT DEF Lesser
      <4>2. CASE ~(m.available < d)
        <5>1. n.available = m.available - d /\ n.debt = m.debt + d - d
          BY <3>0, <4>2 DEF Lesser
        <5>2. n.debt = m.debt
          BY <1>5, <2>1, <5>1, SMT
        <5>3. m.available >= d
          BY <1>5, <2>1, <4>2, SMT
        <5> QED
          BY <1>5, <1>6, <2>1, <2>3, <3>0, <3>1, <5>1, <5>2, <5>3, SMT
      <4> QED
        BY <4>1, <4>2
    <3> QED
      BY <2>2, <3>2 DEF BalancesFit
  <2> QED
    BY <2>4, <2>5
<1> QED
  BY <1>1, <1>e, <1>7, <1>8 DEF WalletInv

\* A step that leaves payments and receipts alone keeps the invariant when it
\* moves money only between the columns and the rows that account for it.
LEMMA Moved ==
  ASSUME NEW m, WalletInv(m), NEW n \in Wallets,
         n.effect = m.effect, n.posted = m.posted, n.topup = m.topup,
         \A r \in Reversals : n.hold[r] = "CONFIRMED" => m.hold[r] = "CONFIRMED",
         n.reserved = Set(n), n.debt <= m.debt, n.debt = 0 \/ n.available = 0,
         n.available + n.reserved + n.spend - n.debt
           = m.available + m.reserved + m.spend - m.debt
  PROVE  WalletInv(n)
<1>1. BalancesFit(m) /\ RowsFit(m) /\ m \in Wallets
  BY DEF WalletInv
<1>2. TakenBack(n) = TakenBack(m) /\ \A p : TakenFrom(n, p) = TakenFrom(m, p)
  BY SameSums
<1>3. RowsFit(n)
  BY <1>1, <1>2 DEF RowsFit
<1>4. n.debt \in Nat /\ m.debt \in Nat /\ TakenBack(m) \in Nat
  BY <1>1, Balances, SumsTyped, Inputs, SMT DEF Amounts
<1>5. n.debt <= TakenBack(n)
  <2>1. m.debt <= TakenBack(m)
    BY <1>1 DEF BalancesFit
  <2> QED
    BY <1>2, <1>4, <2>1, SMT
<1>6. BalancesFit(n)
  BY <1>1, <1>2, <1>5 DEF BalancesFit
<1> QED
  BY <1>3, <1>6 DEF WalletInv

\* The numbers of a wallet that satisfies the invariant.
LEMMA InvGives ==
  ASSUME NEW m, WalletInv(m)
  PROVE  /\ m \in Wallets /\ m.reserved = Set(m) /\ (m.debt = 0 \/ m.available = 0)
         /\ m.available \in Nat /\ m.reserved \in Nat /\ m.debt \in Nat /\ m.spend \in Nat
         /\ Set(m) \in Nat
BY Numbers DEF WalletInv, BalancesFit

\* A row that is opened sets its amount aside, one that ends frees it.
LEMMA SetForIs ==
  ASSUME NEW a
  PROVE  /\ SetFor("RESERVED", a) = a /\ SetFor("none", a) = 0 /\ SetFor("RELEASED", a) = 0
         /\ SetFor("COMMITTED", a) = 0 /\ SetFor("rejected", a) = 0
BY DEF SetFor

\* A hold is opened or ends; receipts, payments and admissions stay.
HoldMoved(m, n, r, state) ==
  /\ Written(n.hold, m.hold, r, state)
  /\ n.effect = m.effect /\ n.posted = m.posted /\ n.admitted = m.admitted

LEMMA PrepareKeeps ==
  ASSUME NEW m, WalletInv(m), NEW r \in Reversals, CanPrepare(m, r)
  PROVE  WalletInv(Prepare(m, r)) /\ HoldMoved(m, Prepare(m, r), r, "RESERVED")
<1>1. PICK q, u, n : q = ReversalMinor[r] /\ u = Reserved(m, q) /\ n = WithHold(u, r, "RESERVED")
  OBVIOUS
<1>2. /\ m \in Wallets /\ m.reserved = Set(m) /\ m.available \in Nat /\ m.reserved \in Nat
      /\ m.debt \in Nat /\ m.spend \in Nat /\ q \in Nat /\ q \in Amounts
  BY <1>1, InvGives, Inputs, SMT DEF Amounts
<1>3. m.available >= q /\ m.reserved <= MaxInt - q /\ m.debt = 0 /\ m.hold[r] = "none"
  BY <1>1 DEF CanPrepare
<1>4. /\ u \in Wallets /\ SameRows(m, u) /\ u.reserved = m.reserved + q
      /\ u.available = m.available - q /\ u.debt = m.debt
      /\ u.topup = m.topup /\ u.spend = m.spend
  BY <1>1, <1>2, <1>3, ReservedIs
<1>5. HoldWritten(u, n, r, "RESERVED")
  BY <1>1, <1>4, HoldReplaced
<1>6. /\ n \in Wallets /\ n.effect = m.effect /\ n.posted = m.posted /\ n.purchase = m.purchase
      /\ n.admitted = m.admitted
      /\ Written(n.hold, m.hold, r, "RESERVED")
  BY <1>4, <1>5 DEF HoldWritten, SameRows
<1>7. /\ n.available = m.available - q /\ n.reserved = m.reserved + q /\ n.debt = 0
      /\ n.topup = m.topup /\ n.spend = m.spend
  BY <1>3, <1>4, <1>5 DEF HoldWritten, SameBalances
<1>8. Set(n) = Set(m) - 0 + q
  <2>1. Set(n) = Set(m) - SetFor(m.hold[r], ReversalMinor[r]) + SetFor("RESERVED", ReversalMinor[r])
    BY <1>2, <1>6, HoldMoves
  <2> QED
    BY <1>1, <1>3, <2>1, SetForIs
<1>9. \A s \in Reversals : n.hold[s] = "CONFIRMED" => m.hold[s] = "CONFIRMED"
  <2>1. m.hold \in [Reversals -> {"none", "RESERVED", "CONFIRMED", "RELEASED"}]
    BY <1>2, SMT DEF Wallets
  <2> QED
    BY <1>6, <2>1, SMT DEF Written
<1>10. /\ n.reserved = Set(n) /\ n.debt <= m.debt
       /\ n.available + n.reserved + n.spend - n.debt
            = m.available + m.reserved + m.spend - m.debt
  BY <1>2, <1>3, <1>7, <1>8, SMT
<1>11. WalletInv(n)
  BY <1>6, <1>7, <1>9, <1>10, Moved
<1> QED
  BY <1>1, <1>6, <1>11 DEF Prepare, WithHold, HoldMoved

LEMMA AdmitKeeps ==
  ASSUME NEW m, WalletInv(m), NEW r \in Reversals
  PROVE  /\ WalletInv(Admit(m, r))
         /\ Admit(m, r).hold = m.hold /\ Admit(m, r).effect = m.effect
         /\ Admit(m, r).posted = m.posted /\ Admit(m, r).admitted = m.admitted \cup {r}
<1>1. PICK n : n = Admit(m, r)
  OBVIOUS
<1>2. m \in Wallets
  BY DEF WalletInv
<1>3. n \in Wallets /\ SameBalances(m, n)
  BY <1>1, <1>2, SMT DEF Admit, Wallets, SameBalances
<1>4. n.effect = m.effect /\ n.posted = m.posted /\ n.hold = m.hold /\ n.purchase = m.purchase
      /\ n.admitted = m.admitted \cup {r}
  BY <1>1, <1>2, SMT DEF Admit, Wallets
<1>5. Set(n) = Set(m)
  BY <1>4, SameSums
<1>6. m.reserved = Set(m) /\ (m.debt = 0 \/ m.available = 0) /\ m.debt \in Nat
  BY InvGives
<1>7. m.debt <= m.debt
  BY <1>6, SMT
<1>8. WalletInv(n)
  BY <1>3, <1>4, <1>5, <1>6, <1>7, Moved DEF SameBalances
<1> QED
  BY <1>1, <1>4, <1>8

\* Funds that are no longer set aside repay debt first.
Freed(m, v, q) ==
  /\ v \in Wallets /\ SameRows(m, v) /\ v.topup = m.topup
  /\ v.reserved = m.reserved - q /\ v.debt <= m.debt /\ (v.debt = 0 \/ v.available = 0)
  /\ v.available + v.reserved + v.spend - v.debt = m.available + m.reserved + m.spend - m.debt

LEMMA FreedIs ==
  ASSUME NEW m, WalletInv(m), NEW q \in Amounts, m.reserved >= q, AddFits(m, q)
  PROVE  Freed(m, Added(Unreserved(m, q), q), q)
<1>1. PICK u, v : u = Unreserved(m, q) /\ v = Added(u, q)
  OBVIOUS
<1>2. /\ m \in Wallets /\ (m.debt = 0 \/ m.available = 0) /\ m.available \in Nat
      /\ m.reserved \in Nat /\ m.debt \in Nat /\ m.spend \in Nat
  BY InvGives
<1>3. q \in Nat
  BY Inputs, SMT DEF Amounts
<1>4. /\ u \in Wallets /\ SameRows(m, u) /\ u.reserved = m.reserved - q
      /\ u.available = m.available /\ u.debt = m.debt
      /\ u.topup = m.topup /\ u.spend = m.spend
  BY <1>1, <1>2, UnreservedIs
<1>5. AddFits(u, q)
  BY <1>4 DEF AddFits
<1>6. /\ v \in Wallets /\ SameRows(u, v) /\ v.debt = u.debt - Lesser(u.debt, q)
      /\ v.available = u.available + q - Lesser(u.debt, q)
      /\ v.reserved = u.reserved /\ v.topup = u.topup /\ v.spend = u.spend
  BY <1>1, <1>4, <1>5, AddedIs
<1>7. SameRows(m, v) /\ v.topup = m.topup /\ v.spend = m.spend /\ v.reserved = m.reserved - q
  BY <1>4, <1>6 DEF SameRows
<1>8. v.debt = m.debt - Lesser(m.debt, q) /\ v.available = m.available + q - Lesser(m.debt, q)
  BY <1>4, <1>6
<1>9. /\ v.debt <= m.debt /\ (v.debt = 0 \/ v.available = 0)
      /\ v.available + v.reserved + v.spend - v.debt = m.available + m.reserved + m.spend - m.debt
  <2>1. CASE m.debt < q
    <3>1. v.debt = m.debt - m.debt /\ v.available = m.available + q - m.debt
      BY <1>8, <2>1 DEF Lesser
    <3> QED
      BY <1>2, <1>3, <1>7, <3>1, SMT
  <2>2. CASE ~(m.debt < q)
    <3>1. v.debt = m.debt - q /\ v.available = m.available + q - q /\ m.debt >= q
      BY <1>2, <1>3, <1>8, <2>2, SMT DEF Lesser
    <3>2. v.debt <= m.debt /\ v.available = m.available /\ (v.debt = 0 \/ v.available = 0)
      BY <1>2, <1>3, <3>1, SMT
    <3>3. m.available + (m.reserved - q) + m.spend - (m.debt - q)
            = m.available + m.reserved + m.spend - m.debt
      BY <1>2, <1>3, SMT
    <3> QED
      BY <1>7, <3>1, <3>2, <3>3
  <2> QED
    BY <2>1, <2>2
<1> QED
  BY <1>1, <1>6, <1>7, <1>9 DEF Freed

LEMMA ReleaseHoldKeeps ==
  ASSUME NEW m, WalletInv(m), NEW r \in Reversals, NEW t, CanReleaseHold(m, r, t)
  PROVE  WalletInv(ReleaseHold(m, r)) /\ HoldMoved(m, ReleaseHold(m, r), r, "RELEASED")
<1>1. PICK q, v, n : /\ q = ReversalMinor[r] /\ v = Added(Unreserved(m, q), q)
                     /\ n = WithHold(v, r, "RELEASED")
  OBVIOUS
<1>2. /\ m \in Wallets /\ m.reserved = Set(m) /\ m.reserved \in Nat /\ q \in Nat /\ q \in Amounts
  BY <1>1, InvGives, Inputs, SMT DEF Amounts
<1>3. m.hold[r] = "RESERVED" /\ m.reserved >= q /\ AddFits(m, q)
  BY <1>1 DEF CanReleaseHold
<1>4. Freed(m, v, q)
  BY <1>1, <1>2, <1>3, FreedIs
<1>5. HoldWritten(v, n, r, "RELEASED")
  BY <1>1, <1>4, HoldReplaced DEF Freed
<1>6. /\ n \in Wallets /\ n.effect = m.effect /\ n.posted = m.posted /\ n.purchase = m.purchase
      /\ n.admitted = m.admitted
      /\ Written(n.hold, m.hold, r, "RELEASED")
  BY <1>4, <1>5 DEF HoldWritten, Freed, SameRows
<1>7. /\ n.topup = m.topup /\ n.reserved = m.reserved - q /\ n.debt <= m.debt
      /\ (n.debt = 0 \/ n.available = 0)
      /\ n.available + n.reserved + n.spend - n.debt = m.available + m.reserved + m.spend - m.debt
  BY <1>4, <1>5 DEF HoldWritten, Freed, SameBalances
<1>8. Set(n) = Set(m) - q + 0
  <2>1. Set(n) = Set(m) - SetFor(m.hold[r], ReversalMinor[r]) + SetFor("RELEASED", ReversalMinor[r])
    BY <1>2, <1>6, HoldMoves
  <2> QED
    BY <1>1, <1>3, <2>1, SetForIs
<1>9. n.reserved = Set(n)
  BY <1>2, <1>7, <1>8, SMT
<1>10. \A s \in Reversals : n.hold[s] = "CONFIRMED" => m.hold[s] = "CONFIRMED"
  <2>1. m.hold \in [Reversals -> {"none", "RESERVED", "CONFIRMED", "RELEASED"}]
    BY <1>2, SMT DEF Wallets
  <2> QED
    BY <1>6, <2>1, SMT DEF Written
<1>11. WalletInv(n)
  BY <1>6, <1>7, <1>9, <1>10, Moved
<1> QED
  BY <1>1, <1>6, <1>11 DEF ReleaseHold, WithHold, HoldMoved

LEMMA ReserveKeeps ==
  ASSUME NEW m, WalletInv(m), NEW o \in Orders, CanReserve(m, o)
  PROVE  WalletInv(Reserve(m, o))
<1>1. PICK q : q = PriceMinor[o]
  OBVIOUS
<1>2. /\ m \in Wallets /\ m.reserved = Set(m) /\ m.available \in Nat /\ m.reserved \in Nat
      /\ m.debt \in Nat /\ m.spend \in Nat /\ q \in Nat /\ q \in Amounts /\ q > 0
      /\ (m.debt = 0 \/ m.available = 0)
  BY <1>1, InvGives, Inputs, SMT DEF Amounts
<1>3. m.purchase[o] = "none"
  BY DEF CanReserve
<1>4. CASE Affords(m, o)
  <2>1. m.available >= q /\ m.reserved <= MaxInt - q /\ m.debt = 0
    <3>1. m.available >= q /\ m.reserved <= MaxInt - q
      BY <1>1, <1>4 DEF CanReserve, Affords
    <3> QED
      BY <1>2, <3>1, SMT
  <2>2. PICK u, n : u = Reserved(m, q) /\ n = WithPurchase(u, o, "RESERVED")
    OBVIOUS
  <2>3. /\ u \in Wallets /\ SameRows(m, u) /\ u.reserved = m.reserved + q
        /\ u.available = m.available - q /\ u.debt = m.debt
        /\ u.topup = m.topup /\ u.spend = m.spend
    BY <1>2, <2>1, <2>2, ReservedIs
  <2>4. PurchaseWritten(u, n, o, "RESERVED")
    BY <2>2, <2>3, PurchaseReplaced
  <2>5. /\ n \in Wallets /\ n.effect = m.effect /\ n.posted = m.posted /\ n.hold = m.hold
        /\ Written(n.purchase, m.purchase, o, "RESERVED")
    BY <2>3, <2>4 DEF PurchaseWritten, SameRows
  <2>6. /\ n.available = m.available - q /\ n.reserved = m.reserved + q /\ n.debt = 0
        /\ n.topup = m.topup /\ n.spend = m.spend
    BY <2>1, <2>3, <2>4 DEF PurchaseWritten, SameBalances
  <2>7. Set(n) = Set(m) - 0 + q
    <3>1. Set(n) = Set(m) - SetFor(m.purchase[o], PriceMinor[o]) + SetFor("RESERVED", PriceMinor[o])
      BY <1>2, <2>5, PriceMoves
    <3> QED
      BY <1>1, <1>3, <3>1, SetForIs
  <2>8. /\ n.reserved = Set(n) /\ n.debt <= m.debt
        /\ n.available + n.reserved + n.spend - n.debt
             = m.available + m.reserved + m.spend - m.debt
    BY <1>2, <2>1, <2>6, <2>7, SMT
  <2>9. WalletInv(n)
    BY <2>5, <2>6, <2>8, Moved
  <2> QED
    BY <1>1, <1>4, <2>2, <2>9 DEF Reserve, WithPurchase
<1>5. CASE ~Affords(m, o)
  <2>1. PICK n : n = WithPurchase(m, o, "rejected")
    OBVIOUS
  <2>2. PurchaseWritten(m, n, o, "rejected")
    BY <1>2, <2>1, PurchaseReplaced
  <2>3. /\ n \in Wallets /\ n.effect = m.effect /\ n.posted = m.posted /\ n.hold = m.hold
        /\ Written(n.purchase, m.purchase, o, "rejected")
    BY <2>2 DEF PurchaseWritten
  <2>4. Set(n) = Set(m) - 0 + 0
    <3>1. Set(n) = Set(m) - SetFor(m.purchase[o], PriceMinor[o]) + SetFor("rejected", PriceMinor[o])
      BY <1>2, <2>3, PriceMoves
    <3> QED
      BY <1>1, <1>3, <3>1, SetForIs
  <2>5. SameBalances(m, n)
    BY <2>2 DEF PurchaseWritten
  <2>6. n.reserved = Set(n) /\ m.debt <= m.debt
    BY <1>2, <2>4, <2>5, SMT DEF SameBalances
  <2>7. WalletInv(n)
    BY <1>2, <2>3, <2>5, <2>6, Moved DEF SameBalances
  <2> QED
    BY <1>5, <2>1, <2>7 DEF Reserve, WithPurchase
<1> QED
  BY <1>4, <1>5

LEMMA CommitKeeps ==
  ASSUME NEW m, WalletInv(m), NEW o \in Orders, CanCommit(m, o)
  PROVE  WalletInv(Commit(m, o))
<1>1. PICK q, u : q = PriceMinor[o] /\ u = Unreserved(m, q)
  OBVIOUS
<1>2. /\ m \in Wallets /\ m.reserved = Set(m) /\ m.available \in Nat /\ m.reserved \in Nat
      /\ m.debt \in Nat /\ m.spend \in Nat /\ q \in Nat /\ q \in Amounts
      /\ (m.debt = 0 \/ m.available = 0)
  BY <1>1, InvGives, Inputs, SMT DEF Amounts
<1>3. m.purchase[o] = "RESERVED" /\ m.reserved >= q /\ m.spend <= MaxInt - q
  BY <1>1 DEF CanCommit
<1>4. /\ u \in Wallets /\ SameRows(m, u) /\ u.reserved = m.reserved - q
      /\ u.available = m.available /\ u.debt = m.debt
      /\ u.topup = m.topup /\ u.spend = m.spend
  BY <1>1, <1>2, <1>3, UnreservedIs
<1>5. PICK s, v, n : /\ s = u.spend + q /\ v = [u EXCEPT !.spend = s]
                     /\ n = WithPurchase(v, o, "COMMITTED")
  OBVIOUS
<1>6. s \in Amounts
  BY <1>2, <1>3, <1>4, <1>5, Inputs, SMT DEF Amounts
<1>7. v \in Wallets
  BY <1>4, <1>5, <1>6, Replaced
<1>8. /\ SameRows(u, v) /\ v.reserved = u.reserved /\ v.available = u.available
      /\ v.debt = u.debt /\ v.topup = u.topup /\ v.spend = s
  BY <1>4, <1>5, SMT DEF Wallets, SameRows
<1>9. PurchaseWritten(v, n, o, "COMMITTED")
  BY <1>5, <1>7, PurchaseReplaced
<1>10. /\ n \in Wallets /\ n.effect = m.effect /\ n.posted = m.posted /\ n.hold = m.hold
       /\ Written(n.purchase, m.purchase, o, "COMMITTED")
  BY <1>4, <1>8, <1>9 DEF PurchaseWritten, SameRows
<1>11. /\ n.available = m.available /\ n.reserved = m.reserved - q /\ n.debt = m.debt
       /\ n.topup = m.topup /\ n.spend = m.spend + q
  BY <1>4, <1>5, <1>8, <1>9 DEF PurchaseWritten, SameBalances
<1>12. Set(n) = Set(m) - q + 0
  <2>1. Set(n) = Set(m) - SetFor(m.purchase[o], PriceMinor[o]) + SetFor("COMMITTED", PriceMinor[o])
    BY <1>2, <1>10, PriceMoves
  <2> QED
    BY <1>1, <1>3, <2>1, SetForIs
<1>13. /\ n.reserved = Set(n) /\ n.debt <= m.debt
       /\ n.available + n.reserved + n.spend - n.debt
            = m.available + m.reserved + m.spend - m.debt
  BY <1>2, <1>11, <1>12, SMT
<1>14. WalletInv(n)
  BY <1>2, <1>10, <1>11, <1>13, Moved
<1> QED
  BY <1>1, <1>5, <1>14 DEF Commit, WithPurchase

LEMMA ReleaseKeeps ==
  ASSUME NEW m, WalletInv(m), NEW o \in Orders, CanRelease(m, o)
  PROVE  WalletInv(Release(m, o))
<1>1. PICK q, v, n : /\ q = PriceMinor[o] /\ v = Added(Unreserved(m, q), q)
                     /\ n = WithPurchase(v, o, "RELEASED")
  OBVIOUS
<1>2. /\ m \in Wallets /\ m.reserved = Set(m) /\ m.reserved \in Nat /\ q \in Nat /\ q \in Amounts
  BY <1>1, InvGives, Inputs, SMT DEF Amounts
<1>3. m.purchase[o] = "RESERVED" /\ m.reserved >= q /\ AddFits(m, q)
  BY <1>1 DEF CanRelease
<1>4. Freed(m, v, q)
  BY <1>1, <1>2, <1>3, FreedIs
<1>5. PurchaseWritten(v, n, o, "RELEASED")
  BY <1>1, <1>4, PurchaseReplaced DEF Freed
<1>6. /\ n \in Wallets /\ n.effect = m.effect /\ n.posted = m.posted /\ n.hold = m.hold
      /\ Written(n.purchase, m.purchase, o, "RELEASED")
  BY <1>4, <1>5 DEF PurchaseWritten, Freed, SameRows
<1>7. /\ n.topup = m.topup /\ n.reserved = m.reserved - q /\ n.debt <= m.debt
      /\ (n.debt = 0 \/ n.available = 0)
      /\ n.available + n.reserved + n.spend - n.debt = m.available + m.reserved + m.spend - m.debt
  BY <1>4, <1>5 DEF PurchaseWritten, Freed, SameBalances
<1>8. Set(n) = Set(m) - q + 0
  <2>1. Set(n) = Set(m) - SetFor(m.purchase[o], PriceMinor[o]) + SetFor("RELEASED", PriceMinor[o])
    BY <1>2, <1>6, PriceMoves
  <2> QED
    BY <1>1, <1>3, <2>1, SetForIs
<1>9. n.reserved = Set(n)
  BY <1>2, <1>7, <1>8, SMT
<1>10. WalletInv(n)
  BY <1>6, <1>7, <1>9, Moved
<1> QED
  BY <1>1, <1>10 DEF Release, WithPurchase

\* The credit of a posting, a replayed one included.
LEMMA CreditKeeps ==
  ASSUME NEW m, WalletInv(m), NEW p \in Payments,
         p \in m.posted \/ (AddFits(m, TopUpMinor[p]) /\ m.topup <= MaxInt - TopUpMinor[p])
  PROVE  WalletInv(Credit(m, p)) /\ p \in Credit(m, p).posted
<1>1. CASE p \in m.posted
  BY <1>1 DEF Credit
<1>2. CASE p \notin m.posted
  <2>1. PICK t, u, s, n : /\ t = TopUpMinor[p] /\ u = Added(m, t) /\ s = u.topup + t
                          /\ n = [u EXCEPT !.topup = s, !.posted = @ \cup {p}]
    OBVIOUS
  <2>2. /\ m \in Wallets /\ m.available \in Nat /\ m.reserved \in Nat /\ m.topup \in Nat
        /\ m.debt \in Nat /\ m.spend \in Nat /\ TakenBack(m) \in Nat /\ MaxInt \in Nat
    BY Numbers DEF WalletInv
  <2>3. t \in Nat /\ t \in Amounts /\ AddFits(m, t) /\ m.topup <= MaxInt - t
    BY <1>2, <2>1, Inputs, SMT DEF Amounts
  <2>4. /\ u \in Wallets /\ SameRows(m, u) /\ u.debt = m.debt - Lesser(m.debt, t)
        /\ u.available = m.available + t - Lesser(m.debt, t)
        /\ u.reserved = m.reserved /\ u.topup = m.topup /\ u.spend = m.spend
    BY <2>1, <2>2, <2>3, AddedIs
  <2>5. s \in Amounts /\ s = m.topup + t
    BY <2>1, <2>2, <2>3, <2>4, SMT DEF Amounts
  <2>6. PICK v : v = [u EXCEPT !.topup = s]
    OBVIOUS
  <2>7. v \in Wallets
    BY <2>4, <2>5, <2>6, Replaced
  <2>8. n = [v EXCEPT !.posted = @ \cup {p}]
    BY <2>1, <2>6
  <2>9. n \in Wallets
    BY <2>7, <2>8, SMT DEF Wallets
  <2>10. /\ v.topup = s /\ v.debt = u.debt /\ v.available = u.available /\ v.reserved = u.reserved
         /\ v.spend = u.spend /\ SameRows(u, v)
    BY <2>4, <2>6, SMT DEF Wallets, SameRows
  <2>11. SameBalances(v, n)
    BY <2>7, <2>8, SMT DEF Wallets, SameBalances
  <2>12. /\ n.effect = v.effect /\ n.hold = v.hold /\ n.purchase = v.purchase
         /\ n.posted = v.posted \cup {p}
    BY <2>7, <2>8, SMT DEF Wallets
  <2>13. /\ n.effect = m.effect /\ n.hold = m.hold /\ n.purchase = m.purchase
         /\ n.posted = m.posted \cup {p}
    BY <2>4, <2>10, <2>12 DEF SameRows
  <2>14. /\ n.debt = m.debt - Lesser(m.debt, t) /\ n.available = m.available + t - Lesser(m.debt, t)
         /\ n.reserved = m.reserved /\ n.topup = m.topup + t /\ n.spend = m.spend
    BY <2>4, <2>5, <2>10, <2>11 DEF SameBalances
  <2>15. /\ TakenBack(n) = TakenBack(m) /\ (\A x : TakenFrom(n, x) = TakenFrom(m, x))
         /\ Set(n) = Set(m)
    BY <2>13, SameSums
  <2>16. RowsFit(n)
    BY <2>13, <2>15 DEF WalletInv, RowsFit
  <2>17. /\ m.debt = 0 \/ m.available = 0
         /\ m.topup = SumOf(Paid(m.posted), Payments) /\ m.reserved = Set(m)
         /\ m.topup - TakenBack(m) = m.available + m.reserved + m.spend - m.debt
         /\ m.debt <= TakenBack(m)
    BY DEF WalletInv, BalancesFit
  <2>18. n.topup = SumOf(Paid(n.posted), Payments)
    <3>1. SumOf(Paid(m.posted \cup {p}), Payments) = SumOf(Paid(m.posted), Payments) + TopUpMinor[p]
      BY <1>2, <2>2, PaidMoves
    <3>2. n.topup = m.topup + t /\ m.topup = SumOf(Paid(m.posted), Payments) /\ t = TopUpMinor[p]
      BY <2>1, <2>14, <2>17
    <3>3. n.posted = m.posted \cup {p}
      BY <2>13
    <3> QED
      BY <3>1, <3>2, <3>3
  <2>19. /\ n.debt = 0 \/ n.available = 0
         /\ (m.topup + t) - TakenBack(m) = n.available + m.reserved + m.spend - n.debt
         /\ n.debt <= TakenBack(m)
    <3>1. CASE m.debt < t
      <4>1. n.debt = m.debt - m.debt /\ n.available = m.available + t - m.debt
        BY <2>14, <3>1 DEF Lesser
      <4> QED
        BY <2>2, <2>3, <2>17, <4>1, SMT
    <3>2. CASE ~(m.debt < t)
      <4>1. n.debt = m.debt - t /\ n.available = m.available + t - t /\ m.debt >= t
        BY <2>2, <2>3, <2>14, <3>2, SMT DEF Lesser
      <4>2. n.available = m.available /\ (n.debt = 0 \/ n.available = 0) /\ n.debt <= TakenBack(m)
        BY <2>2, <2>3, <2>17, <4>1, SMT
      <4>3. (m.topup + t) - TakenBack(m) = m.available + m.reserved + m.spend - (m.debt - t)
        BY <2>2, <2>3, <2>17, SMT
      <4> QED
        BY <4>1, <4>2, <4>3
    <3> QED
      BY <3>1, <3>2
  <2>20. BalancesFit(n)
    <3>1. n.reserved = Set(n) /\ n.debt <= TakenBack(n)
      BY <2>14, <2>15, <2>17, <2>19
    <3>2. n.topup - TakenBack(n) = n.available + n.reserved + n.spend - n.debt
      <4>1. /\ n.topup = m.topup + t /\ n.reserved = m.reserved /\ n.spend = m.spend
            /\ TakenBack(n) = TakenBack(m)
        BY <2>14, <2>15
      <4>2. (m.topup + t) - TakenBack(m) = n.available + m.reserved + m.spend - n.debt
        BY <2>19
      <4> QED
        BY <4>1, <4>2
    <3> QED
      BY <2>18, <2>19, <3>1, <3>2 DEF BalancesFit
  <2>21. n = Credit(m, p)
    BY <1>2, <2>1 DEF Credit
  <2> QED
    BY <2>9, <2>13, <2>16, <2>20, <2>21 DEF WalletInv
<1> QED
  BY <1>1, <1>2

-----------------------------------------------------------------------------
(* The reversals known when a payment is posted *)

\* A set of numbers has a least one.
LEMMA LeastNumber ==
  ASSUME NEW Bad \in SUBSET Nat, Bad # {}
  PROVE  \E k \in Bad : \A j \in Bad : k <= j
<1>1. IsWellFoundedOn(OpToRel(<, Nat), Nat)
  BY NatLessThanWellFounded
<1>2. \E k \in Bad : \A j \in Bad : ~(<<j, k>> \in OpToRel(<, Nat))
  BY <1>1, WFMin
<1>3. \E k \in Bad : \A j \in Bad : ~(j < k)
  BY <1>2 DEF OpToRel
<1> QED
  BY <1>3, SMT

\* g lists the wallets after each of the first k reversals.
AreStages(m, known, g, k) ==
  g = [i \in 0..k |-> IF i = 0 THEN m ELSE ReverseKnown(g[i - 1], known[i])]

LEMMA StagesDef ==
  ASSUME NEW m, NEW known
  PROVE  Stages(m, known) = CHOOSE g : AreStages(m, known, g, Len(known))
BY DEF Stages, AreStages

LEMMA StagesExist ==
  ASSUME NEW m, NEW known, NEW n \in Nat
  PROVE  \E g : AreStages(m, known, g, n)
<1> DEFINE Bad == {k \in Nat : ~ \E g : AreStages(m, known, g, k)}
<1> SUFFICES ASSUME Bad # {} PROVE FALSE
  OBVIOUS
<1>1. Bad \in SUBSET Nat
  OBVIOUS
<1> HIDE DEF Bad
<1>2. PICK k \in Bad : \A j \in Bad : k <= j
  BY <1>1, LeastNumber
<1>3. k \in Nat /\ ~ \E g : AreStages(m, known, g, k)
  BY DEF Bad
<1>4. CASE k = 0
  <2> DEFINE g == [i \in 0..k |-> m]
  <2>1. \A i \in 0..k : i = 0
    BY <1>4, SMT
  <2>2. AreStages(m, known, g, k)
    BY <2>1 DEF AreStages
  <2> QED
    BY <1>3, <2>2
<1>5. CASE k # 0
  <2>1. k - 1 \in Nat /\ ~(k <= k - 1)
    BY <1>3, <1>5, SMT
  <2>2. k - 1 \notin Bad
    BY <1>2, <2>1
  <2>3. PICK h : AreStages(m, known, h, k - 1)
    BY <2>1, <2>2 DEF Bad
  <2>4. \A i \in 0..(k - 1) : h[i] = IF i = 0 THEN m ELSE ReverseKnown(h[i - 1], known[i])
    <3> DEFINE e == [i \in 0..(k - 1) |-> IF i = 0 THEN m ELSE ReverseKnown(h[i - 1], known[i])]
    <3>1. h = e
      BY <2>3 DEF AreStages
    <3>2. \A i \in 0..(k - 1) : e[i] = IF i = 0 THEN m ELSE ReverseKnown(h[i - 1], known[i])
      OBVIOUS
    <3> HIDE DEF e
    <3> QED
      BY <3>1, <3>2
  <2> DEFINE g == [i \in 0..k |-> IF i = k THEN ReverseKnown(h[k - 1], known[k]) ELSE h[i]]
  <2>5. \A i \in 0..k : g[i] = IF i = k THEN ReverseKnown(h[k - 1], known[k]) ELSE h[i]
    OBVIOUS
  <2>6. /\ 0 \in 0..k /\ 0 # k /\ k - 1 \in 0..k /\ k - 1 # k
        /\ \A i \in 0..k : /\ i # 0 => i - 1 \in 0..k /\ i - 1 # k
                           /\ i # k => i \in 0..(k - 1)
    BY <1>3, <1>5, SMT
  <2> HIDE DEF g
  <2>7. \A i \in 0..k : i # 0 => g[i - 1] = h[i - 1]
    BY <2>5, <2>6
  <2>8. \A i \in 0..k : g[i] = IF i = 0 THEN m ELSE ReverseKnown(g[i - 1], known[i])
    <3> TAKE i \in 0..k
    <3>1. CASE i = k
      BY <1>5, <2>5, <2>7, <3>1
    <3>2. CASE i # k
      BY <2>4, <2>5, <2>6, <2>7, <3>2
    <3> QED
      BY <3>1, <3>2
  <2>9. g = [i \in 0..k |-> g[i]]
    BY SMT DEF g
  <2>10. AreStages(m, known, g, k)
    BY <2>8, <2>9 DEF AreStages
  <2> QED
    BY <1>3, <2>10
<1> QED
  BY <1>4, <1>5

\* The first stage is the wallet, and each reversal leads to the next.
LEMMA StagesStep ==
  ASSUME NEW m, NEW known, Len(known) \in Nat
  PROVE  /\ Stages(m, known)[0] = m
         /\ \A i \in 1..Len(known) :
              Stages(m, known)[i] = ReverseKnown(Stages(m, known)[i - 1], known[i])
<1> DEFINE g == Stages(m, known)
           e == [i \in 0..Len(known) |-> IF i = 0 THEN m ELSE ReverseKnown(g[i - 1], known[i])]
<1>1. AreStages(m, known, g, Len(known))
  BY StagesExist, StagesDef
<1>2. g = e
  BY <1>1 DEF AreStages
<1>3. 0 \in 0..Len(known) /\ \A i \in 1..Len(known) : i \in 0..Len(known) /\ i # 0
  BY SMT
<1>4. \A i \in 0..Len(known) : e[i] = IF i = 0 THEN m ELSE ReverseKnown(g[i - 1], known[i])
  OBVIOUS
<1> HIDE DEF g, e
<1>5. \A i \in 0..Len(known) : g[i] = IF i = 0 THEN m ELSE ReverseKnown(g[i - 1], known[i])
  BY <1>2, <1>4
<1>6. g[0] = m /\ \A i \in 1..Len(known) : g[i] = ReverseKnown(g[i - 1], known[i])
  BY <1>3, <1>5
<1> QED
  BY <1>6 DEF g

\* The wallet is sound after each of them.
LEMMA StagesKeep ==
  ASSUME NEW m, WalletInv(m), NEW known, Len(known) \in Nat,
         \A i \in 1..Len(known) : known[i] \in Reversals, CanReverseAll(m, known)
  PROVE  \A i \in 0..Len(known) : WalletInv(Stages(m, known)[i])
<1>0. /\ Stages(m, known)[0] = m
      /\ \A i \in 1..Len(known) : Stages(m, known)[i] = ReverseKnown(Stages(m, known)[i - 1], known[i])
  BY StagesStep, SMT
<1> DEFINE after == Stages(m, known)
           Bad == {i \in 0..Len(known) : ~WalletInv(after[i])}
<1>1. after[0] = m /\ \A i \in 1..Len(known) : after[i] = ReverseKnown(after[i - 1], known[i])
  BY <1>0
<1>2. \A i \in 1..Len(known) : Replayed(after[i - 1], known[i]) \/ CanReverse(after[i - 1], known[i])
  BY DEF CanReverseAll
<1> SUFFICES ASSUME Bad # {} PROVE FALSE
  OBVIOUS
<1> HIDE DEF after
<1>3. Bad \in SUBSET Nat
  BY SMT
<1> HIDE DEF Bad
<1>4. PICK k \in Bad : \A j \in Bad : k <= j
  BY <1>3, LeastNumber
<1>5. k \in 0..Len(known) /\ ~WalletInv(after[k])
  BY DEF Bad
<1>6. k # 0
  BY <1>1, <1>5
<1>7. k \in 1..Len(known) /\ k - 1 \in 0..Len(known) /\ ~(k <= k - 1)
  BY <1>5, <1>6, SMT
<1>8. WalletInv(after[k - 1])
  BY <1>4, <1>7 DEF Bad
<1>9. CASE Replayed(after[k - 1], known[k])
  BY <1>1, <1>5, <1>7, <1>8, <1>9 DEF ReverseKnown
<1>10. CASE ~Replayed(after[k - 1], known[k])
  <2>1. CanReverse(after[k - 1], known[k]) /\ after[k] = TakeBack(after[k - 1], known[k])
    BY <1>1, <1>2, <1>7, <1>10 DEF ReverseKnown
  <2>2. WalletInv(TakeBack(after[k - 1], known[k]))
    BY <1>7, <1>8, <2>1, TakeBackKeeps
  <2> QED
    BY <1>5, <2>1, <2>2
<1> QED
  BY <1>9, <1>10

\* A posting keeps the wallet sound, with whatever reversals it takes along.
LEMMA PostKeeps ==
  ASSUME NEW m, WalletInv(m), NEW p \in Payments, NEW known \in Known(p), CanPost(m, p, known)
  PROVE  WalletInv(Post(m, p, known))
<1>1. PICK S \in SUBSET Reversals : known \in [1..Cardinality(S) -> S]
  BY DEF Known, Orderings, Injection, IsInjective
<1>2. Cardinality(S) \in Nat
  BY FiniteTables, FS_Subset, FS_CardinalityType
<1>3. Len(known) = Cardinality(S)
  BY <1>1, <1>2, SMT
<1>4. \A i \in 1..Len(known) : known[i] \in Reversals
  BY <1>1, <1>3
<1>5. Len(known) \in 0..Len(known) /\ Len(known) \in Nat
  BY <1>2, <1>3, SMT
<1>6. WalletInv(Credit(m, p)) /\ CanReverseAll(Credit(m, p), known)
  BY CreditKeeps DEF CanPost
<1>7. WalletInv(Stages(Credit(m, p), known)[Len(known)])
  BY <1>4, <1>5, <1>6, StagesKeep
<1> QED
  BY <1>7 DEF Post, ReverseAll

-----------------------------------------------------------------------------
(* Every behaviour of the owner *)

LEMMA InvInit ==
  ASSUME MoneyInit
  PROVE  WalletInv(money)
<1>1. money \in Wallets
  BY Inputs, SMT DEF MoneyInit, Wallets, Amounts
<1>2. /\ money.available = 0 /\ money.reserved = 0 /\ money.debt = 0 /\ money.topup = 0
      /\ money.spend = 0 /\ money.posted = {}
      /\ money.effect = [r \in Reversals |-> NoReceipt] /\ money.hold = [r \in Reversals |-> "none"]
      /\ money.purchase = [o \in Orders |-> "none"]
  BY SMT DEF MoneyInit
<1>3. /\ \A r \in Reversals : money.effect[r] = NoReceipt /\ money.hold[r] = "none"
      /\ \A o \in Orders : money.purchase[o] = "none"
  BY <1>2
<1>4. /\ \A r \in Reversals : Back(money.effect)[r] = 0 /\ Holds(money.hold)[r] = 0
      /\ \A p : \A r \in Reversals : BackFrom(money.effect, p)[r] = 0
      /\ \A o \in Orders : Prices(money.purchase)[o] = 0
      /\ \A p \in Payments : Paid(money.posted)[p] = 0
  BY <1>2, <1>3 DEF Back, Holds, BackFrom, Prices, Paid, SetFor
<1>5. /\ TakenBack(money) = 0 /\ SumOf(Holds(money.hold), Reversals) = 0
      /\ \A p : TakenFrom(money, p) = 0
      /\ SumOf(Prices(money.purchase), Orders) = 0 /\ SumOf(Paid(money.posted), Payments) = 0
  BY <1>4, FiniteTables, SumZero DEF TakenBack, TakenFrom
<1>6. Set(money) = 0
  BY <1>5, SMT DEF Set
<1>7. BalancesFit(money)
  BY <1>2, <1>5, <1>6, SMT DEF BalancesFit
<1>8. RowsFit(money)
  <2>1. \A p \in Payments : 0 <= TopUpMinor[p]
    BY Inputs, SMT
  <2> QED
    BY <1>3, <1>5, <2>1 DEF RowsFit
<1> QED
  BY <1>1, <1>7, <1>8 DEF WalletInv

LEMMA InvStep ==
  ASSUME WalletInv(money), [MoneyNext]_money
  PROVE  WalletInv(money')
<1>1. ASSUME NEW p \in Payments, NEW known \in Known(p), AcceptAndPostProviderTopUp(p, known)
      PROVE  WalletInv(money')
  BY <1>1, PostKeeps DEF AcceptAndPostProviderTopUp
<1>2. ASSUME NEW r \in Reversals, AcceptProviderTopUpReversal(r) PROVE WalletInv(money')
  BY <1>2, TakeBackKeeps DEF AcceptProviderTopUpReversal
<1>3. ASSUME NEW r \in Reversals, PrepareTopUpRefund(r) PROVE WalletInv(money')
  BY <1>3, PrepareKeeps DEF PrepareTopUpRefund
<1>4. ASSUME NEW r \in Reversals, AdmitTopUpRefund(r) PROVE WalletInv(money')
  BY <1>4, AdmitKeeps DEF AdmitTopUpRefund
<1>5. ASSUME NEW r \in Reversals, NEW t \in BOOLEAN, ReleaseTopUpRefundHold(r, t)
      PROVE  WalletInv(money')
  BY <1>5, ReleaseHoldKeeps DEF ReleaseTopUpRefundHold
<1>6. ASSUME NEW o \in Orders, ReserveCommercialPurchase(o) PROVE WalletInv(money')
  BY <1>6, ReserveKeeps DEF ReserveCommercialPurchase
<1>7. ASSUME NEW o \in Orders, CommitCommercialPurchase(o) PROVE WalletInv(money')
  BY <1>7, CommitKeeps DEF CommitCommercialPurchase
<1>8. ASSUME NEW o \in Orders, ReleaseCommercialPurchase(o) PROVE WalletInv(money')
  BY <1>8, ReleaseKeeps DEF ReleaseCommercialPurchase
<1>9. CASE UNCHANGED money
  BY <1>9
<1> QED
  BY <1>1, <1>2, <1>3, <1>4, <1>5, <1>6, <1>7, <1>8, <1>9 DEF MoneyNext

-----------------------------------------------------------------------------
(* No more is taken back than was paid in *)

\* Receipts are only written for posted payments, none beyond its amount.
PaymentsFit(m) ==
  /\ \A p \in Payments : TakenFrom(m, p) <= TopUpMinor[p]
  /\ \A r \in Reversals : m.effect[r] # NoReceipt => Against[r] \in m.posted

\* Grouped by payment, what was taken back stays within what was paid.
LEMMA GroupedByPayment ==
  ASSUME NEW m \in Wallets, PaymentsFit(m)
  PROVE  TakenBack(m) <= SumOf(Paid(m.posted), Payments)
<1> DEFINE f == Back(m.effect)
           b == Paid(m.posted)
           Rows(P) == {r \in Reversals : Against[r] \in P}
           Bad == {P \in SUBSET Payments : ~(SumOf(f, Rows(P)) <= SumOf(b, P))}
<1>1. (\A r \in Reversals : f[r] \in Nat) /\ (\A p \in Payments : b[p] \in Nat)
  BY ColumnsTyped
<1>i. (\A k \in Nat : k \in Int) /\ 0 <= 0
  BY SMT
<1>2. \A p \in Payments : SumOf(f, Rows({p})) <= b[p]
  <2> SUFFICES ASSUME NEW p \in Payments PROVE SumOf(f, Rows({p})) <= b[p]
    OBVIOUS
  <2> DEFINE T == Rows({p})
             g == BackFrom(m.effect, p)
  <2>1. T \in SUBSET Reversals /\ (\A r \in T : f[r] = g[r]) /\ (\A r \in Reversals \ T : g[r] = 0)
    BY DEF Back, BackFrom
  <2>2. \A r \in Reversals : g[r] \in Int
    BY <1>i, ColumnsTyped
  <2>3. p \notin m.posted => \A r \in Reversals : g[r] = 0
    BY DEF PaymentsFit, BackFrom
  <2>4. SumOf(g, Reversals) <= TopUpMinor[p]
    BY DEF PaymentsFit, TakenFrom
  <2>5. b[p] = IF p \in m.posted THEN TopUpMinor[p] ELSE 0
    BY DEF Paid
  <2> HIDE DEF T, g, f, b
  <2>6. SumOf(f, T) = SumOf(g, Reversals)
    BY <2>1, <2>2, FiniteTables, SumSelect, SMT
  <2>7. p \notin m.posted => SumOf(g, Reversals) = 0
    BY <2>3, FiniteTables, SumZero
  <2>8. SumOf(g, Reversals) <= b[p]
    BY <1>i, <2>4, <2>5, <2>7
  <2> QED
    BY <2>6, <2>8 DEF T
<1> HIDE DEF f, b
<1>3. Bad = {}
  <2> SUFFICES ASSUME Bad # {} PROVE FALSE
    OBVIOUS
  <2>1. Bad \in SUBSET SUBSET Payments
    OBVIOUS
  <2> HIDE DEF Bad
  <2>2. PICK P \in Bad : \A Q \in Bad : Q \subseteq P => Q = P
    BY <2>1, FiniteTables, MinimalSet, SMT
  <2>3. P \in SUBSET Payments /\ ~(SumOf(f, Rows(P)) <= SumOf(b, P))
    BY DEF Bad
  <2>4. P # {}
    <3>1. Rows({}) = {}
      OBVIOUS
    <3>2. SumOf(f, {}) = 0 /\ SumOf(b, {}) = 0
      BY SumEmpty
    <3> QED
      BY <1>i, <2>3, <3>1, <3>2
  <2>5. PICK p \in P : TRUE
    BY <2>4
  <2> DEFINE Q == P \ {p}
  <2>6. Q \in SUBSET Payments /\ Q \subseteq P /\ Q # P /\ p \in Payments /\ p \notin Q
    BY <2>3
  <2>7. SumOf(f, Rows(Q)) <= SumOf(b, Q)
    BY <2>2, <2>6 DEF Bad
  <2>8. /\ Rows(P) \in SUBSET Reversals /\ Rows(Q) \in SUBSET Rows(P)
        /\ Rows(P) \ Rows(Q) = Rows({p})
    BY <2>3
  <2> HIDE DEF Rows, Q
  <2>9. IsFiniteSet(Rows(P)) /\ IsFiniteSet(P) /\ IsFiniteSet(Q) /\ IsFiniteSet(Rows(Q))
        /\ IsFiniteSet(Rows({p}))
    <3>1. Rows(Q) \in SUBSET Reversals /\ Rows({p}) \in SUBSET Reversals
      BY <2>8
    <3> QED
      BY <2>3, <2>6, <2>8, <3>1, FiniteTables, FS_Subset
  <2>10. SumOf(f, Rows(P)) = SumOf(f, Rows(Q)) + SumOf(f, Rows({p}))
    <3>1. \A r \in Rows(P) : f[r] \in Int
      BY <1>1, <1>i, <2>8
    <3>2. SumOf(f, Rows(P)) = SumOf(f, Rows(Q)) + SumOf(f, Rows(P) \ Rows(Q))
      BY <2>8, <2>9, <3>1, SumSplit, SMT
    <3> QED
      BY <2>8, <3>2
  <2>11. SumOf(b, P) = b[p] + SumOf(b, Q)
    <3>1. \A x \in P : b[x] \in Int
      BY <1>1, <1>i, <2>3
    <3> QED
      BY <2>9, <3>1, SumRemove, SMT DEF Q
  <2>12. /\ SumOf(f, Rows(Q)) \in Nat /\ SumOf(f, Rows({p})) \in Nat
         /\ SumOf(b, Q) \in Nat /\ b[p] \in Nat
    <3>1. (\A r \in Rows(Q) : f[r] \in Nat) /\ (\A r \in Rows({p}) : f[r] \in Nat)
          /\ \A x \in Q : b[x] \in Nat
      BY <1>1, <2>6, <2>8
    <3> QED
      BY <1>1, <2>6, <2>9, <3>1, SumNat
  <2>13. SumOf(f, Rows({p})) <= b[p]
    BY <1>2, <2>6
  <2> QED
    BY <2>3, <2>7, <2>10, <2>11, <2>12, <2>13, SMT
<1>4. Payments \notin Bad /\ Rows(Payments) = Reversals
  BY <1>3, Inputs
<1>5. SumOf(f, Reversals) <= SumOf(b, Payments)
  BY <1>4
<1> QED
  BY <1>5 DEF f, b, TakenBack

\* What is spendable, set aside or spent never exceeds what was paid in.
LEMMA WithinTopUps ==
  ASSUME NEW m, WalletInv(m)
  PROVE  m.available + m.reserved + m.spend <= m.topup
<1>1. /\ m.available \in Nat /\ m.reserved \in Nat /\ m.debt \in Nat
      /\ m.topup \in Nat /\ m.spend \in Nat /\ TakenBack(m) \in Nat
  BY Numbers
<1>2. /\ m.topup - TakenBack(m) = m.available + m.reserved + m.spend - m.debt
      /\ m.debt <= TakenBack(m)
  BY DEF WalletInv, BalancesFit
<1> QED
  BY <1>1, <1>2, SMT

\* Whatever is set aside can be given back.
LEMMA CreditFits ==
  ASSUME NEW m, WalletInv(m), NEW q \in Nat, q <= m.reserved
  PROVE  AddFits(m, q)
<1>1. /\ m.available \in Nat /\ m.reserved \in Nat /\ m.debt \in Nat
      /\ m.topup \in Nat /\ m.spend \in Nat /\ MaxInt \in Nat /\ m.topup <= MaxInt
  BY Numbers
<1>2. m.available + m.reserved + m.spend <= m.topup
  BY WithinTopUps
<1>3. m.available + q <= MaxInt
  BY <1>1, <1>2, SMT
<1>4. CASE m.debt < q
  <2>1. m.available <= MaxInt - (q - m.debt)
    BY <1>1, <1>3, <1>4, SMT
  <2> QED
    BY <1>4, <2>1 DEF AddFits, Lesser
<1>5. CASE ~(m.debt < q)
  <2>1. m.available <= MaxInt - (q - q)
    BY <1>1, <1>3, SMT
  <2> QED
    BY <1>5, <2>1 DEF AddFits, Lesser
<1> QED
  BY <1>4, <1>5

\* The rows that are open are part of what is set aside.
LEMMA OpenIsSetAside ==
  ASSUME NEW m, WalletInv(m)
  PROVE  /\ \A r \in Reversals : m.hold[r] = "RESERVED" => ReversalMinor[r] <= m.reserved
         /\ \A o \in Orders : m.purchase[o] = "RESERVED" => PriceMinor[o] <= m.reserved
<1>1. m \in Wallets /\ m.reserved = Set(m)
  BY InvGives
<1>2. SumOf(Holds(m.hold), Reversals) \in Nat /\ SumOf(Prices(m.purchase), Orders) \in Nat
  BY <1>1, SumsTyped
<1>3. ASSUME NEW r \in Reversals, m.hold[r] = "RESERVED" PROVE ReversalMinor[r] <= m.reserved
  <2>1. \A x \in Reversals : Holds(m.hold)[x] \in Nat
    BY <1>1, ColumnsTyped
  <2>2. Holds(m.hold)[r] <= SumOf(Holds(m.hold), Reversals)
    BY <2>1, FiniteTables, SumElement
  <2>3. Holds(m.hold)[r] = ReversalMinor[r]
    BY <1>3 DEF Holds, SetFor
  <2> QED
    BY <1>1, <1>2, <2>2, <2>3, Inputs, SMT DEF Set
<1>4. ASSUME NEW o \in Orders, m.purchase[o] = "RESERVED" PROVE PriceMinor[o] <= m.reserved
  <2>1. \A x \in Orders : Prices(m.purchase)[x] \in Nat
    BY <1>1, ColumnsTyped
  <2>2. Prices(m.purchase)[o] <= SumOf(Prices(m.purchase), Orders)
    BY <2>1, FiniteTables, SumElement
  <2>3. Prices(m.purchase)[o] = PriceMinor[o]
    BY <1>4 DEF Prices, SetFor
  <2> QED
    BY <1>1, <1>2, <2>2, <2>3, Inputs, SMT DEF Set
<1> QED
  BY <1>3, <1>4

\* The debt of one more reversal still fits the column.
LEMMA DebtFits ==
  ASSUME NEW m, WalletInv(m), NEW r \in Reversals, m.effect[r] = NoReceipt, Against[r] \in m.posted
  PROVE  TakeFits(m, PrincipalEffect(m, r))
<1>1. PICK d, n : d = PrincipalEffect(m, r) /\ n = WithEffect(m, r, d)
  OBVIOUS
<1>2. m \in Wallets /\ RowsFit(m)
  BY DEF WalletInv
<1>3. d \in Amounts /\ TakenFrom(m, Against[r]) + d <= TopUpMinor[Against[r]]
  BY <1>1, EffectFits
<1>4. EffectWritten(m, n, r, d)
  BY <1>1, <1>2, <1>3, EffectReplaced
<1>5. /\ TakenBack(n) = TakenBack(m) + d
      /\ TakenFrom(n, Against[r]) = TakenFrom(m, Against[r]) + d
      /\ \A p : p # Against[r] => TakenFrom(n, p) = TakenFrom(m, p)
  BY <1>2, <1>3, <1>4, BackMoves DEF EffectWritten
<1>6. PaymentsFit(n)
  <2>1. \A p \in Payments : TakenFrom(n, p) <= TopUpMinor[p]
    BY <1>2, <1>3, <1>5 DEF RowsFit
  <2>2. \A s \in Reversals \ {r} : n.effect[s] = m.effect[s]
    <3>1. m.effect \in [Reversals -> Amounts \cup {NoReceipt}]
      BY <1>2, SMT DEF Wallets
    <3> QED
      BY <1>4, <3>1 DEF EffectWritten, Written
  <2>3. n.posted = m.posted
    BY <1>4 DEF EffectWritten
  <2> QED
    BY <1>2, <2>1, <2>2, <2>3 DEF PaymentsFit, RowsFit
<1>7. TakenBack(n) <= SumOf(Paid(n.posted), Payments)
  BY <1>4, <1>6, GroupedByPayment DEF EffectWritten
<1>8. m.topup = SumOf(Paid(n.posted), Payments)
  BY <1>4 DEF WalletInv, BalancesFit, EffectWritten
<1>9. /\ m.available \in Nat /\ m.debt \in Nat /\ m.topup \in Nat /\ MaxInt \in Nat
      /\ m.topup <= MaxInt /\ TakenBack(m) \in Nat
  BY Numbers
<1>10. d \in Nat /\ m.debt <= TakenBack(m)
  BY <1>3, <1>9, SMT DEF Amounts, WalletInv, BalancesFit
<1>11. m.debt + d <= MaxInt
  BY <1>5, <1>7, <1>8, <1>9, <1>10, SMT
<1>12. CASE m.available < d
  <2>1. m.debt <= MaxInt - (d - m.available)
    BY <1>9, <1>10, <1>11, <1>12, SMT
  <2> QED
    BY <1>1, <1>12, <2>1 DEF TakeFits, Lesser
<1>13. CASE ~(m.available < d)
  <2>1. m.debt <= MaxInt - (d - d)
    BY <1>9, <1>10, <1>11, SMT
  <2> QED
    BY <1>1, <1>13, <2>1 DEF TakeFits, Lesser
<1> QED
  BY <1>12, <1>13

LEMMA InvSettles ==
  ASSUME WalletInv(money)
  PROVE  WalletSettles
<1>1. money \in Wallets /\ RowsFit(money)
  BY DEF WalletInv
<1>2. /\ money.available \in Nat /\ money.reserved \in Nat /\ money.spend \in Nat
      /\ money.topup \in Nat /\ MaxInt \in Nat /\ money.topup <= MaxInt
  BY Numbers
<1>3. ASSUME NEW o \in Orders, money.purchase[o] = "RESERVED"
      PROVE  CanCommit(money, o) /\ CanRelease(money, o)
  <2>1. PriceMinor[o] \in Nat /\ PriceMinor[o] <= money.reserved
    BY <1>3, Inputs, OpenIsSetAside
  <2>2. AddFits(money, PriceMinor[o])
    BY <2>1, CreditFits
  <2>3. money.available + money.reserved + money.spend <= money.topup
    BY WithinTopUps
  <2>4. money.reserved >= PriceMinor[o] /\ money.spend <= MaxInt - PriceMinor[o]
    BY <1>2, <2>1, <2>3, SMT
  <2> QED
    BY <1>3, <2>2, <2>4 DEF CanCommit, CanRelease
<1>4. ASSUME NEW r \in Reversals, money.hold[r] = "RESERVED" PROVE CanReleaseHold(money, r, TRUE)
  <2>1. ReversalMinor[r] \in Nat /\ ReversalMinor[r] <= money.reserved
    BY <1>4, Inputs, OpenIsSetAside
  <2>2. AddFits(money, ReversalMinor[r])
    BY <2>1, CreditFits
  <2>3. money.reserved >= ReversalMinor[r]
    BY <1>2, <2>1, SMT
  <2> QED
    BY <1>4, <2>2, <2>3 DEF CanReleaseHold
<1>5. ASSUME NEW r \in Reversals, Against[r] \in money.posted, ~Replayed(money, r),
             Provider(money, Against[r]) <= MaxInt - ReversalMinor[r]
      PROVE  CanReverse(money, r)
  <2>1. money.effect[r] = NoReceipt
    BY <1>5 DEF Replayed
  <2>2. money.hold[r] # "CONFIRMED"
    BY <1>1, <2>1 DEF RowsFit
  <2>3. ~Confirms(money, r) => TakeFits(money, PrincipalEffect(money, r))
    BY <1>5, <2>1, DebtFits
  <2>4. Confirms(money, r) => /\ money.reserved >= ReversalMinor[r]
                              /\ AddFits(money, ReversalMinor[r] - PrincipalEffect(money, r))
    <3> HAVE Confirms(money, r)
    <3>1. ReversalMinor[r] \in Nat /\ ReversalMinor[r] <= money.reserved
      BY Inputs, OpenIsSetAside DEF Confirms
    <3>2. PrincipalEffect(money, r) \in Amounts /\ PrincipalEffect(money, r) <= ReversalMinor[r]
      BY EffectFits
    <3>3. /\ ReversalMinor[r] - PrincipalEffect(money, r) \in Nat
          /\ ReversalMinor[r] - PrincipalEffect(money, r) <= money.reserved
          /\ money.reserved >= ReversalMinor[r]
      BY <1>2, <3>1, <3>2, SMT DEF Amounts
    <3> QED
      BY <3>3, CreditFits
  <2> QED
    BY <1>5, <2>2, <2>3, <2>4 DEF CanReverse
<1> QED
  BY <1>3, <1>4, <1>5 DEF WalletSettles

LEMMA InvConserves ==
  ASSUME WalletInv(money)
  PROVE  WalletConserved /\ WalletShape
<1>1. money \in Wallets /\ RowsFit(money) /\ BalancesFit(money)
  BY DEF WalletInv
<1>2. /\ \A p \in Payments : Principal(money, p) = TakenFrom(money, p)
      /\ PrincipalTaken(money) = TakenBack(money)
      /\ HoldsReserved(money) = SumOf(Holds(money.hold), Reversals)
      /\ PriceReserved(money) = SumOf(Prices(money.purchase), Orders)
  BY <1>1, SumsAreColumns
<1>3. WalletConserved
  BY <1>1, <1>2 DEF BalancesFit, Set, WalletConserved
<1>4. WalletShape
  BY <1>1, <1>2 DEF BalancesFit, RowsFit, WalletShape, MoneyTypeOK
<1> QED
  BY <1>3, <1>4

\* The invariant holds in every state of the money owner.
LEMMA WalletInvariant == MoneySpec => []WalletInv(money)
<1>1. MoneyInit => WalletInv(money)
  BY InvInit
<1>2. WalletInv(money) /\ [MoneyNext]_money => WalletInv(money)'
  BY InvStep
<1> QED
  BY <1>1, <1>2, PTL DEF MoneySpec

\* Money is neither made nor lost by any order of postings, reversals, refund
\* holds and purchases, however many payments and orders the organization has.
THEOREM MoneyIsConserved == MoneySpec => []WalletConserved
<1>1. WalletInv(money) => WalletConserved
  BY InvConserves
<1> QED
  BY <1>1, WalletInvariant, PTL

\* OrganizationWalletSnapshot.Validate never refuses a wallet: every balance
\* fits its column, debt and spendable funds exclude each other, and no payment
\* is taken back beyond its amount.
THEOREM WalletStaysValid == MoneySpec => []WalletShape
<1>1. WalletInv(money) => WalletShape
  BY InvConserves
<1> QED
  BY <1>1, WalletInvariant, PTL

\* No settlement is ever refused for want of room: the overflow checks of
\* commit, release, hold release and reversal pass in every reachable state.
THEOREM SettlementsFindRoom == MoneySpec => []WalletSettles
<1>1. WalletInv(money) => WalletSettles
  BY InvSettles
<1> QED
  BY <1>1, WalletInvariant, PTL

-----------------------------------------------------------------------------
(* Refunds: the inductive invariant *)

OpenRows(m) == {r \in Refunds : m.hold[r] \in {"RESERVED", "CONFIRMED"}}

\* The money owner against the provider's refunds at: receipts and consumed
\* holds are the same thing, an admitted hold is only given back for a refund
\* that is dead, and the open holds stay within the payment.
Books(m, at) ==
  /\ WalletInv(m) /\ Payment \in m.posted
  /\ \A r \in Refunds :
       /\ m.effect[r] # NoReceipt <=> m.hold[r] = "CONFIRMED"
       /\ r \in m.admitted => \/ m.hold[r] \in {"RESERVED", "CONFIRMED"}
                              \/ m.hold[r] = "RELEASED" /\ at[r] = "closed"
       /\ m.hold[r] = "CONFIRMED" => at[r] = "refunded"
  /\ SumOf(ReversalMinor, OpenRows(m)) <= TopUpMinor[Payment]

\* Only admitted refunds were asked of the provider, and it only decides on those.
ProviderFits(s, at, box, m) ==
  /\ s \in SUBSET Refunds /\ box \in SUBSET Refunds
  /\ at \in [Refunds -> {"none", "processing", "refunded", "closed"}]
  /\ \A r \in Refunds :
       /\ r \in s => r \in m.admitted
       /\ at[r] # "none" => r \in s
       /\ r \in box => at[r] = "refunded"

Intents ==
  [state : {"none", "PREPARED", "UNKNOWN", "CONFIRMED", "RELEASED"}, dispatched : BOOLEAN,
   lease : Actors \cup {"none"}, lapsed : BOOLEAN]

RowFits(row, hold) == row.state \in {"CONFIRMED", "RELEASED"} => hold = row.state

IntentsFit(rows, m) ==
  /\ rows \in [Refunds -> Intents]
  /\ \A r \in Refunds : RowFits(rows[r], m.hold[r])

\* What an actor relies on, having read it before, still holds when it acts.
Relies(pc, r, m, at) ==
  /\ pc \in {"dispatch", "call", "replay"} => r \in m.admitted
  /\ pc = "accept" => at[r] = "refunded"
  /\ pc = "dead" => at[r] = "closed"
  /\ pc = "confirmed" => m.hold[r] = "CONFIRMED"
  /\ pc \in {"released", "undone"} => m.hold[r] = "RELEASED"

JobFits(job, m, at) == job = Idle \/ (job.refund \in Refunds /\ Relies(job.pc, job.refund, m, at))

Places ==
  {"idle", "prepare", "admit", "undo", "undone", "dispatch", "call", "called", "lease", "receipt",
   "hold", "free", "query", "replay", "replayed", "accept", "dead", "confirmed", "released", "wait"}

Jobs == [pc : Places, refund : Refunds \cup {"none"}]

ActorsFit(jobs, m, at) ==
  /\ jobs \in [Actors -> Jobs]
  /\ \A x \in Actors : JobFits(jobs[x], m, at)

RefundInv ==
  /\ Books(money, provider)
  /\ ProviderFits(sent, provider, inbox, money)
  /\ IntentsFit(intent, money)
  /\ ActorsFit(actor, money, provider)

\* Nothing that was decided is taken back.
Ahead(m, n, at, bt) ==
  /\ \A r \in Refunds :
       /\ r \in m.admitted => r \in n.admitted
       /\ m.hold[r] \in {"CONFIRMED", "RELEASED"} => n.hold[r] = m.hold[r]
       /\ at[r] \in {"refunded", "closed"} => bt[r] = at[r]

LEMMA AheadSame == ASSUME NEW m, NEW at PROVE Ahead(m, m, at, at)
BY DEF Ahead

LEMMA AheadIntents ==
  ASSUME NEW m, NEW n, NEW at, NEW bt, Ahead(m, n, at, bt), NEW rows, IntentsFit(rows, m)
  PROVE  IntentsFit(rows, n)
<1>1. ASSUME NEW r \in Refunds PROVE RowFits(rows[r], n.hold[r])
  <2>1. RowFits(rows[r], m.hold[r])
    BY DEF IntentsFit
  <2> QED
    BY <2>1 DEF RowFits, Ahead
<1> QED
  BY <1>1 DEF IntentsFit

LEMMA AheadActors ==
  ASSUME NEW m, NEW n, NEW at, NEW bt, Ahead(m, n, at, bt), NEW jobs, ActorsFit(jobs, m, at)
  PROVE  ActorsFit(jobs, n, bt)
<1>1. ASSUME NEW pc, NEW r \in Refunds, Relies(pc, r, m, at) PROVE Relies(pc, r, n, bt)
  BY <1>1 DEF Relies, Ahead
<1>2. ASSUME NEW x \in Actors PROVE JobFits(jobs[x], n, bt)
  <2>1. JobFits(jobs[x], m, at)
    BY DEF ActorsFit
  <2> QED
    BY <1>1, <2>1 DEF JobFits
<1> QED
  BY <1>2 DEF ActorsFit

\* One actor moves on.
LEMMA ActorMoves ==
  ASSUME NEW m, NEW at, NEW jobs, ActorsFit(jobs, m, at), NEW x \in Actors,
         NEW job \in Jobs, JobFits(job, m, at)
  PROVE  ActorsFit([jobs EXCEPT ![x] = job], m, at)
<1>1. jobs \in [Actors -> Jobs]
  BY DEF ActorsFit
<1>2. [jobs EXCEPT ![x] = job] \in [Actors -> Jobs]
  BY <1>1
<1>3. \A y \in Actors : [jobs EXCEPT ![x] = job][y] = IF y = x THEN job ELSE jobs[y]
  BY <1>1
<1> QED
  BY <1>2, <1>3 DEF ActorsFit

LEMMA JobsAre ==
  /\ Idle \in Jobs /\ \A m, at : JobFits(Idle, m, at)
  /\ \A r \in Refunds : \A pc \in Places : [pc |-> pc, refund |-> r] \in Jobs
<1>1. "idle" \in Places /\ "none" \in Refunds \cup {"none"}
  BY DEF Places
<1>2. Idle \in Jobs
  BY <1>1, SMT DEF Jobs, Idle
<1>3. \A r \in Refunds : \A pc \in Places : [pc |-> pc, refund |-> r] \in Jobs
  BY SMT DEF Jobs
<1> QED
  BY <1>2, <1>3 DEF JobFits

LEMMA JobIs ==
  ASSUME NEW pc \in Places, NEW r \in Refunds, NEW m, NEW at, Relies(pc, r, m, at)
  PROVE  [pc |-> pc, refund |-> r] \in Jobs /\ JobFits([pc |-> pc, refund |-> r], m, at)
<1>1. PICK job : job = [pc |-> pc, refund |-> r]
  OBVIOUS
<1>2. job.pc = pc /\ job.refund = r
  BY <1>1
<1> QED
  BY <1>1, <1>2, JobsAre DEF JobFits

\* An actor that stands at a step relies on what it read before.
LEMMA AtGives ==
  ASSUME NEW m, NEW at, ActorsFit(actor, m, at), NEW x \in Actors, NEW pc, NEW r,
         At(x, pc, r), pc # "idle"
  PROVE  r \in Refunds /\ Relies(pc, r, m, at)
<1>1. PICK job : job = [pc |-> pc, refund |-> r]
  OBVIOUS
<1>2. job.pc = pc /\ job.refund = r /\ Idle.pc = "idle"
  BY <1>1 DEF Idle
<1>3. JobFits(job, m, at)
  BY <1>1 DEF ActorsFit, At
<1> QED
  BY <1>2, <1>3 DEF JobFits

-----------------------------------------------------------------------------
(* Refunds: the steps of the money owner *)

LEMMA RefundIs ==
  /\ IsFiniteSet(Refunds) /\ Refunds \in SUBSET Reversals
  /\ \A r \in Refunds : r \in Reversals /\ r \notin Chargebacks /\ Against[r] = Payment
  /\ \A r \in Reversals : ReversalMinor[r] \in Nat
  /\ Payment \in Payments
<1>1. Refunds \in SUBSET Reversals
  BY DEF Refunds
<1> QED
  BY <1>1, FiniteTables, FS_Subset, Inputs, RefundAssumption DEF Refunds

\* Holds that are open are part of the holds the budget counts.
LEMMA OpenRowsCounted ==
  ASSUME NEW m, NEW at, Books(m, at)
  PROVE  /\ SumOf(ReversalMinor, OpenRows(m)) \in Nat
         /\ SumOf(ReversalMinor, OpenRows(m)) <= Provider(m, Payment) + Held(m, Payment)
         /\ Provider(m, Payment) \in Nat /\ Held(m, Payment) \in Nat
<1> DEFINE O == OpenRows(m)
           A == Accepted(m, Payment)
           H == HeldAgainst(m, Payment)
           C == O \cap A
<1>1. /\ O \in SUBSET Reversals /\ A \in SUBSET Reversals /\ H \in SUBSET Reversals
      /\ C \in SUBSET A /\ C \in SUBSET O
  BY RefundIs DEF OpenRows, Accepted, HeldAgainst
<1>2. O \ C \in SUBSET H
  BY RefundIs DEF OpenRows, Accepted, HeldAgainst, Books
<1>3. /\ IsFiniteSet(O) /\ IsFiniteSet(A) /\ IsFiniteSet(H)
      /\ (\A r \in O : ReversalMinor[r] \in Nat) /\ (\A r \in A : ReversalMinor[r] \in Nat)
      /\ (\A r \in H : ReversalMinor[r] \in Nat)
  BY <1>1, FiniteTables, FS_Subset, RefundIs
<1>i. \A k \in Nat : k \in Int
  BY SMT
<1> HIDE DEF O, A, H, C
<1>4. SumOf(ReversalMinor, O) = SumOf(ReversalMinor, C) + SumOf(ReversalMinor, O \ C)
  BY <1>1, <1>3, <1>i, SumSplit, SMT
<1>5. SumOf(ReversalMinor, C) \in Nat /\ SumOf(ReversalMinor, C) <= SumOf(ReversalMinor, A)
  BY <1>1, <1>3, SumPart
<1>6. SumOf(ReversalMinor, O \ C) \in Nat /\ SumOf(ReversalMinor, O \ C) <= SumOf(ReversalMinor, H)
  BY <1>2, <1>3, SumPart
<1>7. SumOf(ReversalMinor, A) \in Nat /\ SumOf(ReversalMinor, H) \in Nat
  BY <1>3, SumNat
<1>8. /\ SumOf(ReversalMinor, O) \in Nat
      /\ SumOf(ReversalMinor, O) <= SumOf(ReversalMinor, A) + SumOf(ReversalMinor, H)
  BY <1>4, <1>5, <1>6, <1>7, SMT
<1> QED
  BY <1>7, <1>8 DEF O, A, H, Provider, Held

\* Fewer open holds stay within the payment.
LEMMA FewerOpen ==
  ASSUME NEW m, NEW at, Books(m, at), NEW n, OpenRows(n) \in SUBSET OpenRows(m)
  PROVE  SumOf(ReversalMinor, OpenRows(n)) <= TopUpMinor[Payment]
<1>1. OpenRows(m) \in SUBSET Refunds
  BY DEF OpenRows
<1>2. IsFiniteSet(OpenRows(m)) /\ \A r \in OpenRows(m) : ReversalMinor[r] \in Nat
  BY <1>1, RefundIs, FS_Subset
<1>3. /\ SumOf(ReversalMinor, OpenRows(n)) \in Nat
      /\ SumOf(ReversalMinor, OpenRows(n)) <= SumOf(ReversalMinor, OpenRows(m))
  BY <1>2, SumPart
<1>4. SumOf(ReversalMinor, OpenRows(m)) <= TopUpMinor[Payment] /\ TopUpMinor[Payment] \in Nat
  BY Inputs, RefundIs DEF Books
<1>5. SumOf(ReversalMinor, OpenRows(m)) \in Nat
  BY OpenRowsCounted
<1> QED
  BY <1>3, <1>4, <1>5, SMT

\* The holds of a wallet.
LEMMA HoldTable ==
  ASSUME NEW m \in Wallets
  PROVE  m.hold \in [Reversals -> {"none", "RESERVED", "CONFIRMED", "RELEASED"}]
BY SMT DEF Wallets

LEMMA RefundPrepared ==
  ASSUME NEW m, NEW at, Books(m, at), NEW r \in Refunds, CanPrepare(m, r)
  PROVE  Books(Prepare(m, r), at) /\ Ahead(m, Prepare(m, r), at, at)
<1>1. PICK n : n = Prepare(m, r)
  OBVIOUS
<1>2. WalletInv(m) /\ m \in Wallets /\ r \in Reversals /\ Against[r] = Payment
  BY RefundIs DEF Books, WalletInv
<1>3. WalletInv(n) /\ HoldMoved(m, n, r, "RESERVED")
  BY <1>1, <1>2, PrepareKeeps
<1>4. /\ n.hold[r] = "RESERVED" /\ (\A q \in Reversals : q # r => n.hold[q] = m.hold[q])
      /\ n.effect = m.effect /\ n.posted = m.posted /\ n.admitted = m.admitted
  <2>1. Written(n.hold, m.hold, r, "RESERVED")
    BY <1>3 DEF HoldMoved
  <2>2. m.hold \in [Reversals -> {"none", "RESERVED", "CONFIRMED", "RELEASED"}]
    BY <1>2, HoldTable
  <2>3. n.hold[r] = "RESERVED" /\ \A q \in Reversals : q # r => n.hold[q] = m.hold[q]
    BY <1>2, <2>1, <2>2 DEF Written
  <2> QED
    BY <1>3, <2>3 DEF HoldMoved
<1>5. /\ m.hold[r] = "none" /\ m.effect[r] = NoReceipt
      /\ Provider(m, Payment) + Held(m, Payment) + ReversalMinor[r] <= TopUpMinor[Payment]
  BY <1>2 DEF CanPrepare, Replayed, WithinRefundBudget
<1>6. SumOf(ReversalMinor, OpenRows(n)) <= TopUpMinor[Payment]
  <2>1. OpenRows(n) = OpenRows(m) \cup {r} /\ r \notin OpenRows(m)
    BY <1>4, <1>5, RefundIs DEF OpenRows
  <2>2. OpenRows(m) \in SUBSET Refunds
    BY DEF OpenRows
  <2>i. \A k \in Nat : k \in Int
    BY SMT
  <2>3. IsFiniteSet(OpenRows(m)) /\ \A q \in OpenRows(m) \cup {r} : ReversalMinor[q] \in Int
    BY <2>2, <2>i, RefundIs, FS_Subset
  <2>4. SumOf(ReversalMinor, OpenRows(n)) = SumOf(ReversalMinor, OpenRows(m)) + ReversalMinor[r]
    BY <2>1, <2>3, SumAdd, SMT
  <2>5. /\ SumOf(ReversalMinor, OpenRows(m)) \in Nat
        /\ SumOf(ReversalMinor, OpenRows(m)) <= Provider(m, Payment) + Held(m, Payment)
        /\ Provider(m, Payment) \in Nat /\ Held(m, Payment) \in Nat
    BY OpenRowsCounted
  <2>6. ReversalMinor[r] \in Nat /\ TopUpMinor[Payment] \in Nat
    BY <1>2, RefundIs, Inputs
  <2> QED
    BY <1>5, <2>4, <2>5, <2>6, SMT
<1>7. Books(n, at)
  <2>1. \A q \in Refunds :
          /\ n.effect[q] # NoReceipt <=> n.hold[q] = "CONFIRMED"
          /\ q \in n.admitted => \/ n.hold[q] \in {"RESERVED", "CONFIRMED"}
                                 \/ n.hold[q] = "RELEASED" /\ at[q] = "closed"
          /\ n.hold[q] = "CONFIRMED" => at[q] = "refunded"
    <3> TAKE q \in Refunds
    <3>1. CASE q = r
      BY <1>4, <1>5, <3>1
    <3>2. CASE q # r
      BY <1>4, <3>2, RefundIs DEF Books
    <3> QED
      BY <3>1, <3>2
  <2> QED
    BY <1>3, <1>4, <1>6, <2>1 DEF Books
<1>8. Ahead(m, n, at, at)
  BY <1>4, <1>5, RefundIs DEF Ahead
<1> QED
  BY <1>1, <1>7, <1>8

LEMMA RefundAdmitted ==
  ASSUME NEW m, NEW at, Books(m, at), NEW r \in Refunds, CanAdmit(m, r)
  PROVE  /\ Books(Admit(m, r), at) /\ Ahead(m, Admit(m, r), at, at)
         /\ r \in Admit(m, r).admitted
<1>1. PICK n : n = Admit(m, r)
  OBVIOUS
<1>2. WalletInv(m) /\ r \in Reversals /\ m.hold[r] = "RESERVED"
  BY RefundIs DEF Books, CanAdmit
<1>3. /\ WalletInv(n) /\ n.hold = m.hold /\ n.effect = m.effect
      /\ n.posted = m.posted /\ n.admitted = m.admitted \cup {r}
  BY <1>1, <1>2, AdmitKeeps
<1>4. OpenRows(n) = OpenRows(m)
  BY <1>3 DEF OpenRows
<1>5. Books(n, at)
  BY <1>2, <1>3, <1>4 DEF Books
<1>6. Ahead(m, n, at, at)
  BY <1>3 DEF Ahead
<1> QED
  BY <1>1, <1>3, <1>5, <1>6

LEMMA RefundReleased ==
  ASSUME NEW m, NEW at, Books(m, at), NEW r \in Refunds, NEW t, CanReleaseHold(m, r, t),
         r \in m.admitted => at[r] = "closed"
  PROVE  /\ Books(ReleaseHold(m, r), at) /\ Ahead(m, ReleaseHold(m, r), at, at)
         /\ ReleaseHold(m, r).hold[r] = "RELEASED"
<1>1. PICK n : n = ReleaseHold(m, r)
  OBVIOUS
<1>2. WalletInv(m) /\ m \in Wallets /\ r \in Reversals /\ m.hold[r] = "RESERVED"
  BY RefundIs DEF Books, WalletInv, CanReleaseHold
<1>3. WalletInv(n) /\ HoldMoved(m, n, r, "RELEASED")
  BY <1>1, <1>2, ReleaseHoldKeeps
<1>4. /\ n.hold[r] = "RELEASED" /\ (\A q \in Reversals : q # r => n.hold[q] = m.hold[q])
      /\ n.effect = m.effect /\ n.posted = m.posted /\ n.admitted = m.admitted
  <2>1. Written(n.hold, m.hold, r, "RELEASED")
    BY <1>3 DEF HoldMoved
  <2>2. m.hold \in [Reversals -> {"none", "RESERVED", "CONFIRMED", "RELEASED"}]
    BY <1>2, HoldTable
  <2>3. n.hold[r] = "RELEASED" /\ \A q \in Reversals : q # r => n.hold[q] = m.hold[q]
    BY <1>2, <2>1, <2>2 DEF Written
  <2> QED
    BY <1>3, <2>3 DEF HoldMoved
<1>5. SumOf(ReversalMinor, OpenRows(n)) <= TopUpMinor[Payment]
  <2>1. OpenRows(n) \in SUBSET OpenRows(m)
    BY <1>4, RefundIs DEF OpenRows
  <2> QED
    BY <2>1, FewerOpen
<1>6. Books(n, at)
  <2>1. \A q \in Refunds :
          /\ n.effect[q] # NoReceipt <=> n.hold[q] = "CONFIRMED"
          /\ q \in n.admitted => \/ n.hold[q] \in {"RESERVED", "CONFIRMED"}
                                 \/ n.hold[q] = "RELEASED" /\ at[q] = "closed"
          /\ n.hold[q] = "CONFIRMED" => at[q] = "refunded"
    <3> TAKE q \in Refunds
    <3>1. CASE q = r
      <4>1. n.effect[r] = NoReceipt
        BY <1>2, <1>4 DEF Books
      <4> QED
        BY <1>4, <3>1, <4>1
    <3>2. CASE q # r
      BY <1>4, <3>2, RefundIs DEF Books
    <3> QED
      BY <3>1, <3>2
  <2> QED
    BY <1>3, <1>4, <1>5, <2>1 DEF Books
<1>7. Ahead(m, n, at, at)
  <2> SUFFICES ASSUME NEW q \in Refunds
               PROVE  m.hold[q] \in {"CONFIRMED", "RELEASED"} => n.hold[q] = m.hold[q]
    BY <1>4 DEF Ahead
  <2> QED
    BY <1>2, <1>4, RefundIs
<1> QED
  BY <1>1, <1>4, <1>6, <1>7

\* A refund that the provider made is taken back from its hold.
LEMMA RefundTaken ==
  ASSUME NEW m, NEW at, Books(m, at), NEW r \in Refunds, CanReverse(m, r),
         at[r] = "refunded", r \in m.admitted
  PROVE  /\ Books(TakeBack(m, r), at) /\ Ahead(m, TakeBack(m, r), at, at)
         /\ TakeBack(m, r).hold[r] = "CONFIRMED"
<1>1. PICK n, d : n = TakeBack(m, r) /\ d = PrincipalEffect(m, r)
  OBVIOUS
<1>2. WalletInv(m) /\ m \in Wallets /\ r \in Reversals /\ r \notin Chargebacks
  BY RefundIs DEF Books, WalletInv
<1>3. m.effect[r] = NoReceipt
  BY DEF CanReverse, Replayed
<1>4. m.hold[r] = "RESERVED"
  BY <1>3 DEF Books
<1>5. Confirms(m, r)
  BY <1>2, <1>4 DEF Confirms
<1>6. WalletInv(n)
  BY <1>1, <1>2, TakeBackKeeps
<1>7. TookBack(m, n, r, d, ReversalMinor[r])
  BY <1>1, <1>2, TakeBackIs
<1>8. /\ Written(n.effect, m.effect, r, d) /\ Written(n.hold, m.hold, r, "CONFIRMED")
      /\ n.posted = m.posted /\ n.admitted = m.admitted
  BY <1>5, <1>7 DEF TookBack
<1>9. n.hold[r] = "CONFIRMED" /\ \A q \in Reversals : q # r => n.hold[q] = m.hold[q]
  <2>1. m.hold \in [Reversals -> {"none", "RESERVED", "CONFIRMED", "RELEASED"}]
    BY <1>2, HoldTable
  <2> QED
    BY <1>2, <1>8, <2>1 DEF Written
<1>10. n.effect[r] = d /\ \A q \in Reversals : q # r => n.effect[q] = m.effect[q]
  <2>1. m.effect \in [Reversals -> Amounts \cup {NoReceipt}]
    BY <1>2, SMT DEF Wallets
  <2> QED
    BY <1>2, <1>8, <2>1 DEF Written
<1>11. d # NoReceipt
  <2>1. d \in Amounts
    BY <1>1, <1>2, EffectFits
  <2> QED
    BY <2>1, Inputs, SMT DEF Amounts, NoReceipt
<1>12. SumOf(ReversalMinor, OpenRows(n)) <= TopUpMinor[Payment]
  <2>1. OpenRows(n) \in SUBSET OpenRows(m)
    BY <1>4, <1>9, RefundIs DEF OpenRows
  <2> QED
    BY <2>1, FewerOpen
<1>13. Books(n, at)
  <2>1. \A q \in Refunds :
          /\ n.effect[q] # NoReceipt <=> n.hold[q] = "CONFIRMED"
          /\ q \in n.admitted => \/ n.hold[q] \in {"RESERVED", "CONFIRMED"}
                                 \/ n.hold[q] = "RELEASED" /\ at[q] = "closed"
          /\ n.hold[q] = "CONFIRMED" => at[q] = "refunded"
    <3> TAKE q \in Refunds
    <3>1. CASE q = r
      BY <1>9, <1>10, <1>11, <3>1
    <3>2. CASE q # r
      BY <1>8, <1>9, <1>10, <3>2, RefundIs DEF Books
    <3> QED
      BY <3>1, <3>2
  <2> QED
    BY <1>6, <1>8, <1>12, <2>1 DEF Books
<1>14. Ahead(m, n, at, at)
  <2> SUFFICES ASSUME NEW q \in Refunds
               PROVE  m.hold[q] \in {"CONFIRMED", "RELEASED"} => n.hold[q] = m.hold[q]
    BY <1>8 DEF Ahead
  <2> QED
    BY <1>4, <1>9, RefundIs
<1> QED
  BY <1>1, <1>9, <1>13, <1>14

LEMMA AheadThen ==
  ASSUME NEW m, NEW n, NEW k, NEW at, Ahead(m, n, at, at), Ahead(n, k, at, at)
  PROVE  Ahead(m, k, at, at)
BY DEF Ahead

\* The order worker posts the payment again with refunds that the provider made.
LEMMA RefundsPosted ==
  ASSUME NEW m, NEW at, Books(m, at), NEW box \in SUBSET Refunds, NEW known \in Orderings(box),
         \A r \in box : at[r] = "refunded" /\ r \in m.admitted, CanPost(m, Payment, known)
  PROVE  Books(Post(m, Payment, known), at) /\ Ahead(m, Post(m, Payment, known), at, at)
<1> DEFINE after == Stages(m, known)
           Bad == {i \in 0..Len(known) : ~(Books(after[i], at) /\ Ahead(m, after[i], at, at))}
<1>1. Credit(m, Payment) = m
  BY DEF Credit, Books
<1>2. known \in [1..Cardinality(box) -> box] /\ Cardinality(box) \in Nat
  BY RefundIs, FS_Subset, FS_CardinalityType DEF Orderings, Injection, IsInjective
<1>3. Len(known) = Cardinality(box)
  BY <1>2, SMT
<1>4. Len(known) \in Nat /\ \A i \in 1..Len(known) : known[i] \in box
  BY <1>2, <1>3
<1>5. /\ Stages(m, known)[0] = m
      /\ \A i \in 1..Len(known) : Stages(m, known)[i] = ReverseKnown(Stages(m, known)[i - 1], known[i])
  BY <1>4, StagesStep, SMT
<1>6. \A i \in 1..Len(known) : Replayed(after[i - 1], known[i]) \/ CanReverse(after[i - 1], known[i])
  BY <1>1 DEF CanPost, CanReverseAll
<1> HIDE DEF after
<1>7. Bad = {}
  <2> SUFFICES ASSUME Bad # {} PROVE FALSE
    OBVIOUS
  <2>1. Bad \in SUBSET Nat
    BY <1>4, SMT
  <2> HIDE DEF Bad
  <2>2. PICK k \in Bad : \A j \in Bad : k <= j
    BY <2>1, LeastNumber
  <2>3. k \in 0..Len(known) /\ ~(Books(after[k], at) /\ Ahead(m, after[k], at, at))
    BY DEF Bad
  <2>4. k # 0
    BY <1>5, <2>3, AheadSame DEF after
  <2>5. k \in 1..Len(known) /\ k - 1 \in 0..Len(known) /\ ~(k <= k - 1)
    BY <1>4, <2>3, <2>4, SMT
  <2>6. PICK u, r : u = after[k - 1] /\ r = known[k]
    OBVIOUS
  <2>7. Books(u, at) /\ Ahead(m, u, at, at)
    BY <2>2, <2>5, <2>6 DEF Bad
  <2>8. r \in box /\ r \in Refunds /\ at[r] = "refunded" /\ r \in u.admitted
    BY <1>4, <2>5, <2>6, <2>7 DEF Ahead
  <2>9. after[k] = ReverseKnown(u, r) /\ (Replayed(u, r) \/ CanReverse(u, r))
    BY <1>5, <1>6, <2>5, <2>6 DEF after
  <2>10. CASE Replayed(u, r)
    BY <2>3, <2>7, <2>9, <2>10 DEF ReverseKnown
  <2>11. CASE ~Replayed(u, r)
    <3>1. Books(TakeBack(u, r), at) /\ Ahead(u, TakeBack(u, r), at, at)
      BY <2>7, <2>8, <2>9, <2>11, RefundTaken
    <3>2. after[k] = TakeBack(u, r)
      BY <2>9, <2>11 DEF ReverseKnown
    <3> QED
      BY <2>3, <2>7, <3>1, <3>2, AheadThen
  <2> QED
    BY <2>10, <2>11
<1>8. Len(known) \in 0..Len(known)
  BY <1>4, SMT
<1>9. Books(after[Len(known)], at) /\ Ahead(m, after[Len(known)], at, at)
  BY <1>7, <1>8
<1> QED
  BY <1>1, <1>9 DEF Post, ReverseAll, after

-----------------------------------------------------------------------------
(* Refunds: intents and actors *)

\* An intent with one field written.
LEMMA RowLeased ==
  ASSUME NEW row \in Intents, NEW x \in Actors \cup {"none"}
  PROVE  [row EXCEPT !.lease = x] \in Intents /\ [row EXCEPT !.lease = x].state = row.state
BY SMT DEF Intents

LEMMA RowLapsed ==
  ASSUME NEW row \in Intents, NEW b \in BOOLEAN
  PROVE  [row EXCEPT !.lapsed = b] \in Intents /\ [row EXCEPT !.lapsed = b].state = row.state
BY SMT DEF Intents

LEMMA RowDispatched ==
  ASSUME NEW row \in Intents, NEW b \in BOOLEAN
  PROVE  [row EXCEPT !.dispatched = b] \in Intents
BY SMT DEF Intents

LEMMA RowMoved ==
  ASSUME NEW row \in Intents, NEW state \in {"PREPARED", "UNKNOWN", "CONFIRMED", "RELEASED"}
  PROVE  [row EXCEPT !.state = state] \in Intents /\ [row EXCEPT !.state = state].state = state
BY SMT DEF Intents

LEMMA RowsTyped ==
  ASSUME NEW row \in Intents, NEW x \in Actors \cup {"none"}
  PROVE  /\ [row EXCEPT !.lease = x, !.lapsed = FALSE] \in Intents
         /\ [row EXCEPT !.lease = x, !.lapsed = FALSE].state = row.state
         /\ [row EXCEPT !.dispatched = TRUE, !.state = "UNKNOWN"] \in Intents
         /\ [row EXCEPT !.dispatched = TRUE, !.state = "UNKNOWN"].state = "UNKNOWN"
<1>0. TRUE \in BOOLEAN /\ FALSE \in BOOLEAN
      /\ "UNKNOWN" \in {"PREPARED", "UNKNOWN", "CONFIRMED", "RELEASED"}
  OBVIOUS
<1>1. PICK new, old : new = [row EXCEPT !.lease = x] /\ old = [row EXCEPT !.dispatched = TRUE]
  OBVIOUS
<1>2. new \in Intents /\ new.state = row.state
  BY <1>1, RowLeased
<1>3. [new EXCEPT !.lapsed = FALSE] \in Intents /\ [new EXCEPT !.lapsed = FALSE].state = new.state
  BY <1>0, <1>2, RowLapsed
<1>4. old \in Intents
  BY <1>0, <1>1, RowDispatched
<1>5. [old EXCEPT !.state = "UNKNOWN"] \in Intents /\ [old EXCEPT !.state = "UNKNOWN"].state = "UNKNOWN"
  BY <1>0, <1>4, RowMoved
<1> QED
  BY <1>1, <1>2, <1>3, <1>5

LEMMA RowsUnleased ==
  ASSUME NEW row \in Intents
  PROVE  Unleased(row) \in Intents /\ Unleased(row).state = row.state
<1>1. "none" \in Actors \cup {"none"}
  OBVIOUS
<1> QED
  BY <1>1, RowsTyped DEF Unleased

LEMMA RowsEnd ==
  ASSUME NEW row \in Intents, NEW state \in {"CONFIRMED", "RELEASED"}
  PROVE  /\ [row EXCEPT !.state = state] \in Intents /\ [row EXCEPT !.state = state].state = state
         /\ Unleased([row EXCEPT !.state = state]) \in Intents
         /\ Unleased([row EXCEPT !.state = state]).state = state
<1>1. PICK new : new = [row EXCEPT !.state = state]
  OBVIOUS
<1>2. state \in {"PREPARED", "UNKNOWN", "CONFIRMED", "RELEASED"}
  OBVIOUS
<1>3. new \in Intents /\ new.state = state
  BY <1>1, <1>2, RowMoved
<1>4. Unleased(new) \in Intents /\ Unleased(new).state = new.state
  BY <1>3, RowsUnleased
<1> QED
  BY <1>1, <1>3, <1>4

LEMMA IntentWritten ==
  ASSUME NEW rows, NEW m, IntentsFit(rows, m), NEW r \in Refunds, NEW row \in Intents,
         RowFits(row, m.hold[r])
  PROVE  IntentsFit([rows EXCEPT ![r] = row], m)
<1>1. rows \in [Refunds -> Intents]
  BY DEF IntentsFit
<1>2. [rows EXCEPT ![r] = row] \in [Refunds -> Intents]
  BY <1>1
<1>3. \A q \in Refunds : [rows EXCEPT ![r] = row][q] = IF q = r THEN row ELSE rows[q]
  BY <1>1
<1> QED
  BY <1>2, <1>3 DEF IntentsFit

\* A row whose state is not touched fits the hold it fitted.
LEMMA SameState ==
  ASSUME NEW m, IntentsFit(intent, m), NEW r \in Refunds, NEW row, row.state = intent[r].state
  PROVE  RowFits(row, m.hold[r])
BY DEF IntentsFit, RowFits

LEMMA Went ==
  ASSUME NEW m, NEW at, ActorsFit(actor, m, at), NEW x \in Actors, NEW r \in Refunds,
         NEW pc \in Places, Relies(pc, r, m, at), Goto(x, pc, r)
  PROVE  ActorsFit(actor', m, at)
<1>1. PICK job : job = [pc |-> pc, refund |-> r]
  OBVIOUS
<1>2. job \in Jobs /\ JobFits(job, m, at)
  BY <1>1, JobIs
<1>3. ActorsFit([actor EXCEPT ![x] = job], m, at)
  BY <1>2, ActorMoves
<1>4. actor' = [actor EXCEPT ![x] = job]
  BY <1>1 DEF Goto
<1> QED
  BY <1>3, <1>4

LEMMA Stopped ==
  ASSUME NEW m, NEW at, ActorsFit(actor, m, at), NEW x \in Actors, NEW r, Stop(x, r)
  PROVE  ActorsFit(actor', m, at)
<1>1. ActorsFit([actor EXCEPT ![x] = Idle], m, at)
  BY JobsAre, ActorMoves
<1> QED
  BY <1>1 DEF Stop

LEMMA Saved ==
  ASSUME NEW m, NEW at, IntentsFit(intent, m), ActorsFit(actor, m, at),
         NEW x \in Actors, NEW r \in Refunds, NEW row \in Intents, RowFits(row, m.hold[r]),
         NEW pc \in Places, Relies(pc, r, m, at), SaveOrStop(x, r, row, pc)
  PROVE  IntentsFit(intent', m) /\ ActorsFit(actor', m, at)
<1>1. CASE x \in fresh[r]
  <2>1. PICK job : job = IF pc = "idle" THEN Idle ELSE [pc |-> pc, refund |-> r]
    OBVIOUS
  <2>2. job \in Jobs /\ JobFits(job, m, at)
    BY <2>1, JobIs, JobsAre
  <2>3. ActorsFit([actor EXCEPT ![x] = job], m, at) /\ IntentsFit([intent EXCEPT ![r] = row], m)
    BY <2>2, ActorMoves, IntentWritten
  <2>4. actor' = [actor EXCEPT ![x] = job] /\ intent' = [intent EXCEPT ![r] = row]
    BY <1>1, <2>1 DEF SaveOrStop
  <2> QED
    BY <2>3, <2>4
<1>2. CASE x \notin fresh[r]
  BY <1>2, Stopped DEF SaveOrStop
<1> QED
  BY <1>1, <1>2

\* Most steps of an actor ask for nothing.
LEMMA Carefree ==
  ASSUME NEW pc \in Places \ {"dispatch", "call", "replay", "accept", "dead", "confirmed",
                              "released", "undone"}
  PROVE  pc \in Places /\ \A r, m, at : Relies(pc, r, m, at)
BY DEF Relies

-----------------------------------------------------------------------------
(* Refunds: every behaviour *)

LEMMA RefundInvInit ==
  ASSUME RefundInit
  PROVE  RefundInv
<1>1. PICK posted \in SUBSET Payments :
        LET paid == SumOf(TopUpMinor, posted)
        IN  /\ Payment \in posted /\ paid <= MaxInt
            /\ money = [available |-> paid, reserved |-> 0, debt |-> 0, topup |-> paid, spend |-> 0,
                        posted |-> posted, effect |-> [r \in Reversals |-> NoReceipt],
                        hold |-> [r \in Reversals |-> "none"], admitted |-> {},
                        purchase |-> [o \in Orders |-> "none"]]
  BY DEF RefundInit
<1>2. PICK paid : paid = SumOf(TopUpMinor, posted)
  OBVIOUS
<1>3. paid = SumOf(Paid(posted), Payments)
  <2> DEFINE g == Paid(posted)
  <2>1. (\A p \in posted : TopUpMinor[p] = g[p]) /\ (\A p \in Payments \ posted : g[p] = 0)
    BY DEF Paid
  <2>2. \A p \in Payments : g[p] \in Int
    <3>1. (\A k \in Nat : k \in Int) /\ 0 \in Int
      BY SMT
    <3> QED
      BY <3>1, Inputs DEF Paid
  <2> HIDE DEF g
  <2>3. SumOf(TopUpMinor, posted) = SumOf(g, Payments)
    BY <2>1, <2>2, FiniteTables, SumSelect, SMT
  <2> QED
    BY <1>2, <2>3 DEF g
<1>4. paid \in Amounts /\ paid \in Nat
  <2>1. IsFiniteSet(posted) /\ \A p \in posted : TopUpMinor[p] \in Nat
    BY Inputs, FiniteTables, FS_Subset
  <2>2. paid \in Nat
    BY <1>2, <2>1, SumNat
  <2> QED
    BY <1>1, <1>2, <2>2, Inputs, SMT DEF Amounts
<1>5. money = [available |-> paid, reserved |-> 0, debt |-> 0, topup |-> paid, spend |-> 0,
               posted |-> posted, effect |-> [r \in Reversals |-> NoReceipt],
               hold |-> [r \in Reversals |-> "none"], admitted |-> {},
               purchase |-> [o \in Orders |-> "none"]]
      /\ Payment \in posted
  BY <1>1, <1>2
<1>6. money \in Wallets
  BY <1>4, <1>5, Inputs, SMT DEF Wallets, Amounts
<1>7. /\ money.available = paid /\ money.reserved = 0 /\ money.debt = 0 /\ money.topup = paid
      /\ money.spend = 0 /\ money.posted = posted /\ money.admitted = {}
      /\ money.effect = [r \in Reversals |-> NoReceipt] /\ money.hold = [r \in Reversals |-> "none"]
      /\ money.purchase = [o \in Orders |-> "none"]
  BY <1>5, SMT
<1>8. /\ \A r \in Reversals : money.effect[r] = NoReceipt /\ money.hold[r] = "none"
      /\ \A o \in Orders : money.purchase[o] = "none"
  BY <1>7
<1>9. /\ \A r \in Reversals : Back(money.effect)[r] = 0 /\ Holds(money.hold)[r] = 0
      /\ \A p : \A r \in Reversals : BackFrom(money.effect, p)[r] = 0
      /\ \A o \in Orders : Prices(money.purchase)[o] = 0
  BY <1>8 DEF Back, Holds, BackFrom, Prices, SetFor
<1>10. /\ TakenBack(money) = 0 /\ SumOf(Holds(money.hold), Reversals) = 0
       /\ \A p : TakenFrom(money, p) = 0
       /\ SumOf(Prices(money.purchase), Orders) = 0
  BY <1>9, FiniteTables, SumZero DEF TakenBack, TakenFrom
<1>11. BalancesFit(money)
  <2>1. Set(money) = 0
    BY <1>10, SMT DEF Set
  <2> QED
    BY <1>3, <1>4, <1>7, <1>10, <2>1, SMT DEF BalancesFit
<1>12. RowsFit(money)
  <2>1. \A p \in Payments : 0 <= TopUpMinor[p]
    BY Inputs, SMT
  <2> QED
    BY <1>8, <1>10, <2>1 DEF RowsFit
<1>13. Books(money, provider)
  <2>1. OpenRows(money) = {}
    BY <1>8, RefundIs DEF OpenRows
  <2>2. SumOf(ReversalMinor, OpenRows(money)) = 0 /\ 0 <= TopUpMinor[Payment]
    <3>1. TopUpMinor[Payment] \in Nat
      BY Inputs, RefundIs
    <3>2. 0 <= TopUpMinor[Payment]
      BY <3>1, SMT
    <3> QED
      BY <2>1, <3>2, SumEmpty
  <2> QED
    BY <1>5, <1>6, <1>7, <1>8, <1>11, <1>12, <2>2, RefundIs DEF Books, WalletInv
<1>14. ProviderFits(sent, provider, inbox, money)
  BY DEF RefundInit, ProviderFits
<1>15. IntentsFit(intent, money)
  <2>1. PICK row : row = [state |-> "none", dispatched |-> FALSE, lease |-> "none", lapsed |-> FALSE]
    OBVIOUS
  <2>2. row \in Intents /\ row.state = "none"
    BY <2>1, SMT DEF Intents
  <2>3. intent = [r \in Refunds |-> row]
    BY <2>1 DEF RefundInit
  <2> QED
    BY <2>2, <2>3 DEF IntentsFit, RowFits
<1>16. ActorsFit(actor, money, provider)
  BY JobsAre DEF RefundInit, ActorsFit
<1> QED
  BY <1>13, <1>14, <1>15, <1>16 DEF RefundInv

\* A step that leaves the money and the provider alone.
LEMMA StepElsewhere ==
  ASSUME RefundInv, UNCHANGED <<money, provider>>,
         ProviderFits(sent', provider, inbox', money), IntentsFit(intent', money),
         ActorsFit(actor', money, provider)
  PROVE  RefundInv'
BY DEF RefundInv

\* A step of the money owner, with which only the calling actor may move.
LEMMA StepOfMoney ==
  ASSUME RefundInv, UNCHANGED <<intent, sent, provider, inbox>>,
         Books(money', provider), Ahead(money, money', provider, provider),
         ActorsFit(actor, money', provider) => ActorsFit(actor', money', provider)
  PROVE  RefundInv'
<1>1. ActorsFit(actor, money', provider) /\ IntentsFit(intent, money')
  BY AheadActors, AheadIntents DEF RefundInv
<1>2. ProviderFits(sent, provider, inbox, money')
  BY DEF RefundInv, ProviderFits, Ahead
<1> QED
  BY <1>1, <1>2 DEF RefundInv

\* An actor moves and nothing else does.
LEMMA StepOfActor ==
  ASSUME RefundInv, UNCHANGED <<money, intent, sent, provider, inbox>>,
         ActorsFit(actor', money, provider)
  PROVE  RefundInv'
BY DEF RefundInv

LEMMA ApproveKeeps ==
  ASSUME RefundInv, NEW x \in Actors, NEW r \in Refunds, Approve(x, r)
  PROVE  RefundInv'
<1>1. IntentsFit(intent, money) /\ ActorsFit(actor, money, provider)
      /\ ProviderFits(sent, provider, inbox, money)
  BY DEF RefundInv
<1>2. intent \in [Refunds -> Intents] /\ intent[r] \in Intents
  BY <1>1 DEF IntentsFit
<1>3. PICK state : state = IF intent[r].state = "none" THEN "PREPARED" ELSE intent[r].state
  OBVIOUS
<1>4. state \in {"PREPARED", "UNKNOWN"}
  <2>1. intent[r].state \in {"none", "PREPARED", "UNKNOWN", "CONFIRMED", "RELEASED"}
    BY <1>2, SMT DEF Intents
  <2> QED
    BY <1>3, <2>1 DEF Approve
<1>5. PICK row : row = [intent[r] EXCEPT !.state = state]
  OBVIOUS
<1>6. row \in Intents /\ row.state = state
  <2>1. state \in {"PREPARED", "UNKNOWN", "CONFIRMED", "RELEASED"}
    BY <1>4
  <2>2. PICK old : old = intent[r]
    OBVIOUS
  <2>3. old \in Intents /\ row = [old EXCEPT !.state = state]
    BY <1>2, <1>5, <2>2
  <2> QED
    BY <2>1, <2>3, RowMoved
<1>7. IntentsFit([intent EXCEPT ![r] = row], money)
  <2>1. RowFits(row, money.hold[r])
    BY <1>4, <1>6 DEF RowFits
  <2> QED
    BY <1>1, <1>6, <2>1, IntentWritten
<1>8. intent' = [intent EXCEPT ![r] = row]
  BY <1>2, <1>3, <1>5, SMT DEF Approve
<1>9. PICK pc : pc = IF intent[r].dispatched THEN "lease" ELSE "prepare"
  OBVIOUS
<1>10. pc \in {"lease", "prepare"}
  BY <1>9
<1>11. pc \in Places /\ Relies(pc, r, money, provider)
  BY <1>10, Carefree DEF Places
<1>12. PICK job : job = [pc |-> pc, refund |-> r]
  OBVIOUS
<1>13. job \in Jobs /\ JobFits(job, money, provider)
  BY <1>11, <1>12, JobIs
<1>14. actor' = [actor EXCEPT ![x] = job]
  BY <1>9, <1>12 DEF Approve
<1>15. ActorsFit(actor', money, provider)
  BY <1>1, <1>13, <1>14, ActorMoves
<1>16. UNCHANGED <<money, provider, sent, inbox>>
  BY DEF Approve
<1> QED
  BY <1>1, <1>7, <1>8, <1>15, <1>16, StepElsewhere

LEMMA PrepareHoldKeeps ==
  ASSUME RefundInv, NEW x \in Actors, NEW r \in Refunds, PrepareHold(x, r)
  PROVE  RefundInv'
<1>1. Books(money, provider) /\ UNCHANGED <<intent, sent, provider, inbox>>
  BY DEF RefundInv, PrepareHold
<1>2. "admit" \in Places /\ \A m : Relies("admit", r, m, provider)
  BY Carefree DEF Places
<1>3. Books(money', provider) /\ Ahead(money, money', provider, provider)
  <2>1. CASE UNCHANGED money
    BY <1>1, <2>1, AheadSame
  <2>2. CASE PrepareTopUpRefund(r)
    BY <1>1, <2>2, RefundPrepared DEF PrepareTopUpRefund
  <2> QED
    BY <2>1, <2>2 DEF PrepareHold
<1>4. Goto(x, "admit", r) \/ Stop(x, r)
  BY DEF PrepareHold
<1>5. ASSUME ActorsFit(actor, money', provider) PROVE ActorsFit(actor', money', provider)
  BY <1>2, <1>4, <1>5, Went, Stopped
<1> QED
  BY <1>1, <1>3, <1>5, StepOfMoney

LEMMA AdmitHoldKeeps ==
  ASSUME RefundInv, NEW x \in Actors, NEW r \in Refunds, AdmitHold(x, r) \/ AdmitAnswerLost(x, r)
  PROVE  RefundInv'
<1>1. Books(money, provider) /\ UNCHANGED <<intent, sent, provider, inbox>>
  BY DEF RefundInv, AdmitHold, AdmitAnswerLost
<1>2. "dispatch" \in Places /\ "undo" \in Places /\ \A m : Relies("undo", r, m, provider)
  BY Carefree DEF Places
<1>3. /\ Books(money', provider) /\ Ahead(money, money', provider, provider)
      /\ (Goto(x, "dispatch", r) /\ r \in money'.admitted) \/ Goto(x, "undo", r)
  <2>1. CASE UNCHANGED money /\ ((r \in money.admitted /\ Goto(x, "dispatch", r)) \/ Goto(x, "undo", r))
    BY <1>1, <2>1, AheadSame
  <2>2. CASE AdmitTopUpRefund(r) /\ (Goto(x, "dispatch", r) \/ Goto(x, "undo", r))
    BY <1>1, <2>2, RefundAdmitted DEF AdmitTopUpRefund
  <2> QED
    BY <2>1, <2>2 DEF AdmitHold, AdmitAnswerLost
<1>4. ASSUME ActorsFit(actor, money', provider) PROVE ActorsFit(actor', money', provider)
  <2>1. r \in money'.admitted => Relies("dispatch", r, money', provider)
    BY DEF Relies
  <2> QED
    BY <1>2, <1>3, <1>4, <2>1, Went
<1> QED
  BY <1>1, <1>3, <1>4, StepOfMoney

\* Without a proof that the provider will not refund, only a hold that was never
\* admitted is given back.
LEMMA UndoHoldKeeps ==
  ASSUME RefundInv, NEW x \in Actors, NEW r \in Refunds, UndoHold(x, r) \/ FreeHold(x, r)
  PROVE  RefundInv'
<1>1. Books(money, provider) /\ UNCHANGED <<intent, sent, provider, inbox>>
  BY DEF RefundInv, UndoHold, FreeHold
<1>2. /\ "undone" \in Places /\ "released" \in Places /\ "wait" \in Places
      /\ \A m : Relies("wait", r, m, provider)
  BY Carefree DEF Places
<1>3. /\ Books(money', provider) /\ Ahead(money, money', provider, provider)
      /\ \/ (Goto(x, "undone", r) \/ Goto(x, "released", r)) /\ money'.hold[r] = "RELEASED"
         \/ Stop(x, r) \/ Goto(x, "wait", r)
  <2>1. CASE ~ReleaseTopUpRefundHold(r, LocalProof)
    BY <1>1, <2>1, AheadSame DEF UndoHold, FreeHold
  <2>2. CASE ReleaseTopUpRefundHold(r, LocalProof)
    <3>1. CanReleaseHold(money, r, LocalProof) /\ money' = ReleaseHold(money, r)
      BY <2>2 DEF ReleaseTopUpRefundHold
    <3>2. r \notin money.admitted
      BY <3>1 DEF CanReleaseHold, LocalProof
    <3>3. /\ Books(money', provider) /\ Ahead(money, money', provider, provider)
          /\ money'.hold[r] = "RELEASED"
      BY <1>1, <3>1, <3>2, RefundReleased
    <3>4. Goto(x, "undone", r) \/ Goto(x, "released", r) \/ Stop(x, r) \/ Goto(x, "wait", r)
      BY DEF UndoHold, FreeHold
    <3> QED
      BY <3>3, <3>4
  <2> QED
    BY <2>1, <2>2 DEF UndoHold, FreeHold
<1>4. ASSUME ActorsFit(actor, money', provider) PROVE ActorsFit(actor', money', provider)
  <2>1. money'.hold[r] = "RELEASED" => /\ Relies("undone", r, money', provider)
                                       /\ Relies("released", r, money', provider)
    BY DEF Relies
  <2> QED
    BY <1>2, <1>3, <1>4, <2>1, Went, Stopped
<1> QED
  BY <1>1, <1>3, <1>4, StepOfMoney

LEMMA ReleaseDeadHoldKeeps ==
  ASSUME RefundInv, NEW x \in Actors, NEW r \in Refunds, ReleaseDeadHold(x, r)
  PROVE  RefundInv'
<1>1. /\ Books(money, provider) /\ ActorsFit(actor, money, provider)
      /\ UNCHANGED <<intent, sent, provider, inbox>> /\ At(x, "dead", r) /\ Goto(x, "released", r)
  BY DEF RefundInv, ReleaseDeadHold
<1>2. provider[r] = "closed"
  <2>1. Relies("dead", r, money, provider)
    BY <1>1, AtGives
  <2> QED
    BY <2>1 DEF Relies
<1>3. /\ Books(money', provider) /\ Ahead(money, money', provider, provider)
      /\ money'.hold[r] = "RELEASED"
  <2>1. CASE money.hold[r] = "RELEASED" /\ UNCHANGED money
    BY <1>1, <2>1, AheadSame
  <2>2. CASE ReleaseTopUpRefundHold(r, TRUE)
    <3>1. CanReleaseHold(money, r, TRUE) /\ money' = ReleaseHold(money, r)
      BY <2>2 DEF ReleaseTopUpRefundHold
    <3> QED
      BY <1>1, <1>2, <3>1, RefundReleased
  <2> QED
    BY <2>1, <2>2 DEF ReleaseDeadHold
<1>4. ASSUME ActorsFit(actor, money', provider) PROVE ActorsFit(actor', money', provider)
  <2>1. "released" \in Places /\ Relies("released", r, money', provider)
    BY <1>3 DEF Relies, Places
  <2> QED
    BY <1>1, <1>4, <2>1, Went
<1> QED
  BY <1>1, <1>3, <1>4, StepOfMoney

\* A refund that the provider decided on was admitted.
LEMMA DecidedIsAdmitted ==
  ASSUME RefundInv, NEW r \in Refunds, provider[r] # "none"
  PROVE  r \in money.admitted
BY DEF RefundInv, ProviderFits

LEMMA AcceptRefundKeeps ==
  ASSUME RefundInv, NEW x \in Actors, NEW r \in Refunds, AcceptRefund(x, r)
  PROVE  RefundInv'
<1>1. /\ Books(money, provider) /\ ActorsFit(actor, money, provider)
      /\ UNCHANGED <<intent, sent, provider, inbox>> /\ At(x, "accept", r)
      /\ Goto(x, "confirmed", r) \/ Goto(x, "wait", r)
  BY DEF RefundInv, AcceptRefund
<1>2. provider[r] = "refunded"
  <2>1. Relies("accept", r, money, provider)
    BY <1>1, AtGives
  <2> QED
    BY <2>1 DEF Relies
<1>3. r \in money.admitted
  BY <1>2, DecidedIsAdmitted
<1>4. /\ Books(money', provider) /\ Ahead(money, money', provider, provider)
      /\ money'.hold[r] = "CONFIRMED"
  <2>1. CASE Replayed(money, r) /\ UNCHANGED money
    <3>1. money.hold[r] = "CONFIRMED"
      BY <1>1, <2>1 DEF Books, Replayed
    <3> QED
      BY <1>1, <2>1, <3>1, AheadSame
  <2>2. CASE AcceptProviderTopUpReversal(r)
    BY <1>1, <1>2, <1>3, <2>2, RefundTaken DEF AcceptProviderTopUpReversal
  <2> QED
    BY <2>1, <2>2 DEF AcceptRefund
<1>5. ASSUME ActorsFit(actor, money', provider) PROVE ActorsFit(actor', money', provider)
  <2>1. "confirmed" \in Places /\ Relies("confirmed", r, money', provider)
    BY <1>4 DEF Relies, Places
  <2>2. "wait" \in Places /\ Relies("wait", r, money', provider)
    BY Carefree DEF Places
  <2> QED
    BY <1>1, <1>5, <2>1, <2>2, Went
<1> QED
  BY <1>1, <1>4, <1>5, StepOfMoney

LEMMA ReconcileOrderKeeps ==
  ASSUME RefundInv, ReconcileOrder
  PROVE  RefundInv'
<1>1. Books(money, provider) /\ UNCHANGED <<intent, sent, provider, inbox, actor>>
  BY DEF RefundInv, ReconcileOrder
<1>2. PICK known \in Orderings(inbox) : AcceptAndPostProviderTopUp(Payment, known)
  BY DEF ReconcileOrder
<1>3. inbox \in SUBSET Refunds /\ \A r \in inbox : provider[r] = "refunded" /\ r \in money.admitted
  BY DecidedIsAdmitted DEF RefundInv, ProviderFits
<1>4. CanPost(money, Payment, known) /\ money' = Post(money, Payment, known)
  BY <1>2 DEF AcceptAndPostProviderTopUp
<1>5. Books(money', provider) /\ Ahead(money, money', provider, provider)
  BY <1>1, <1>3, <1>4, RefundsPosted
<1> QED
  BY <1>1, <1>5, StepOfMoney

-----------------------------------------------------------------------------
(* Refunds: the steps on intents *)

\* What the books say, in parts.
LEMMA Parts ==
  ASSUME RefundInv
  PROVE  /\ Books(money, provider) /\ ProviderFits(sent, provider, inbox, money)
         /\ IntentsFit(intent, money) /\ ActorsFit(actor, money, provider)
         /\ \A r \in Refunds : intent[r] \in Intents
BY DEF RefundInv, IntentsFit

\* A row is saved, or the call ends, and the rest stays.
LEMMA StepSaves ==
  ASSUME RefundInv, UNCHANGED <<money, provider>>, ProviderFits(sent', provider, inbox', money),
         NEW x \in Actors, NEW r \in Refunds, NEW row \in Intents, RowFits(row, money.hold[r]),
         NEW pc \in Places, Relies(pc, r, money, provider),
         SaveOrStop(x, r, row, pc) \/ (Stop(x, r) /\ UNCHANGED intent)
  PROVE  RefundInv'
<1>1. IntentsFit(intent, money) /\ ActorsFit(actor, money, provider)
  BY Parts
<1>2. IntentsFit(intent', money) /\ ActorsFit(actor', money, provider)
  <2>1. CASE SaveOrStop(x, r, row, pc)
    BY <1>1, <2>1, Saved
  <2>2. CASE Stop(x, r) /\ UNCHANGED intent
    BY <1>1, <2>2, Stopped
  <2> QED
    BY <2>1, <2>2
<1> QED
  BY <1>2, StepElsewhere

LEMMA MarkDispatchedKeeps ==
  ASSUME RefundInv, NEW x \in Actors, NEW r \in Refunds, MarkDispatched(x, r)
  PROVE  RefundInv'
<1>1. ActorsFit(actor, money, provider) /\ ProviderFits(sent, provider, inbox, money)
  BY Parts
<1>2. r \in money.admitted
  <2>1. Relies("dispatch", r, money, provider)
    BY <1>1, AtGives DEF MarkDispatched
  <2> QED
    BY <2>1 DEF Relies
<1>3. PICK row : row = [state |-> "UNKNOWN", dispatched |-> TRUE, lease |-> x, lapsed |-> FALSE]
  OBVIOUS
<1>4. row \in Intents /\ row.state = "UNKNOWN"
  BY <1>3, SMT DEF Intents
<1>5. RowFits(row, money.hold[r])
  BY <1>4 DEF RowFits
<1>6. "call" \in Places /\ Relies("call", r, money, provider)
  BY <1>2 DEF Relies, Places
<1>7. SaveOrStop(x, r, row, "call") /\ UNCHANGED <<money, sent, provider, inbox>>
  BY <1>3 DEF MarkDispatched
<1> QED
  BY <1>1, <1>4, <1>5, <1>6, <1>7, StepSaves

\* Only an admitted refund is asked of the provider.
LEMMA RefundKeeps ==
  ASSUME RefundInv, NEW x \in Actors, NEW r \in Refunds, Refund(x, r)
  PROVE  RefundInv'
<1>1. /\ ActorsFit(actor, money, provider) /\ ProviderFits(sent, provider, inbox, money)
      /\ IntentsFit(intent, money)
  BY Parts
<1>2. r \in money.admitted
  <2>1. Relies("call", r, money, provider) \/ Relies("replay", r, money, provider)
    BY <1>1, AtGives DEF Refund
  <2> QED
    BY <2>1 DEF Relies
<1>3. sent' = sent \cup {r} /\ UNCHANGED <<money, intent, provider, inbox>>
  BY DEF Refund
<1>4. ProviderFits(sent', provider, inbox', money)
  BY <1>1, <1>2, <1>3 DEF ProviderFits
<1>5. /\ "called" \in Places /\ "replayed" \in Places
      /\ Relies("called", r, money, provider) /\ Relies("replayed", r, money, provider)
  BY Carefree DEF Places
<1>6. ActorsFit(actor', money, provider)
  BY <1>1, <1>5, Went DEF Refund
<1> QED
  BY <1>1, <1>3, <1>4, <1>6, StepElsewhere

\* The inbox only learns of refunds that the provider made.
LEMMA Heard ==
  ASSUME NEW s, NEW at, NEW box, NEW m, ProviderFits(s, at, box, m), NEW r \in Refunds,
         at[r] = "refunded"
  PROVE  ProviderFits(s, at, box \cup {r}, m)
BY DEF ProviderFits

LEMMA CalledKeeps ==
  ASSUME RefundInv, NEW x \in Actors, NEW r \in Refunds, Called(x, r)
  PROVE  RefundInv'
<1>1. /\ ProviderFits(sent, provider, inbox, money) /\ IntentsFit(intent, money)
      /\ intent[r] \in Intents
  BY Parts
<1>2. inbox' = inbox \/ (provider[r] = "refunded" /\ inbox' = inbox \cup {r})
  BY DEF Called
<1>3. UNCHANGED <<money, sent, provider>> /\ SaveOrStop(x, r, Unleased(intent[r]), "lease")
  BY DEF Called
<1>4. ProviderFits(sent', provider, inbox', money)
  <2>1. CASE inbox' = inbox
    BY <1>1, <1>3, <2>1
  <2>2. CASE provider[r] = "refunded" /\ inbox' = inbox \cup {r}
    <3>1. ProviderFits(sent, provider, inbox \cup {r}, money)
      BY <1>1, <2>2, Heard
    <3> QED
      BY <1>3, <2>2, <3>1
  <2> QED
    BY <1>2, <2>1, <2>2
<1>5. PICK row : row = Unleased(intent[r])
  OBVIOUS
<1>6. row \in Intents /\ row.state = intent[r].state
  BY <1>1, <1>5, RowsUnleased
<1>7. RowFits(row, money.hold[r])
  BY <1>1, <1>6, SameState
<1>8. "lease" \in Places /\ Relies("lease", r, money, provider)
  BY Carefree DEF Places
<1> QED
  BY <1>3, <1>4, <1>5, <1>6, <1>7, <1>8, StepSaves

LEMMA TakeLeaseKeeps ==
  ASSUME RefundInv, NEW x \in Actors, NEW r \in Refunds, TakeLease(x, r)
  PROVE  RefundInv'
<1>1. /\ ProviderFits(sent, provider, inbox, money) /\ IntentsFit(intent, money)
      /\ ActorsFit(actor, money, provider) /\ intent[r] \in Intents
  BY Parts
<1>2. UNCHANGED <<money, sent, provider, inbox>>
  BY DEF TakeLease
<1>3. PICK row : row = [intent[r] EXCEPT !.lease = x, !.lapsed = FALSE]
  OBVIOUS
<1>4. row \in Intents /\ row.state = intent[r].state
  <2>1. x \in Actors \cup {"none"}
    OBVIOUS
  <2> QED
    BY <1>1, <1>3, <2>1, RowsTyped
<1>5. RowFits(row, money.hold[r])
  BY <1>1, <1>4, SameState
<1>6. "receipt" \in Places /\ Relies("receipt", r, money, provider)
  BY Carefree DEF Places
<1>7. CASE /\ intent' = [intent EXCEPT ![r].lease = x, ![r].lapsed = FALSE]
           /\ actor' = [actor EXCEPT ![x] = [pc |-> "receipt", refund |-> r]]
  <2>1. intent \in [Refunds -> Intents]
    BY <1>1 DEF IntentsFit
  <2>2. intent' = [intent EXCEPT ![r] = row]
    <3>1. PICK half : half = [intent EXCEPT ![r].lease = x]
      OBVIOUS
    <3>2. half[r] = [intent[r] EXCEPT !.lease = x] /\ half = [intent EXCEPT ![r] = half[r]]
      BY <2>1, <3>1
    <3>3. intent' = [half EXCEPT ![r].lapsed = FALSE]
      BY <1>7, <3>1
    <3>4. row = [half[r] EXCEPT !.lapsed = FALSE]
      BY <1>3, <3>2
    <3>5. intent' = [half EXCEPT ![r] = row]
      BY <3>3, <3>4
    <3> QED
      BY <2>1, <3>2, <3>5
  <2>3. IntentsFit(intent', money)
    BY <1>1, <1>4, <1>5, <2>2, IntentWritten
  <2>4. PICK job : job = [pc |-> "receipt", refund |-> r]
    OBVIOUS
  <2>5. job \in Jobs /\ JobFits(job, money, provider)
    BY <1>6, <2>4, JobIs
  <2>6. ActorsFit(actor', money, provider)
    BY <1>1, <1>7, <2>4, <2>5, ActorMoves
  <2> QED
    BY <1>1, <1>2, <2>3, <2>6, StepElsewhere
<1>8. CASE SaveOrStop(x, r, row, "receipt") \/ (Stop(x, r) /\ UNCHANGED intent)
  BY <1>1, <1>2, <1>4, <1>5, <1>6, <1>8, StepSaves
<1> QED
  BY <1>3, <1>7, <1>8 DEF TakeLease

LEMMA ReadTopUpReversalKeeps ==
  ASSUME RefundInv, NEW x \in Actors, NEW r \in Refunds, ReadTopUpReversal(x, r)
  PROVE  RefundInv'
<1>1. ActorsFit(actor, money, provider) /\ UNCHANGED <<money, intent, sent, provider, inbox>>
  BY Parts DEF ReadTopUpReversal
<1>2. "hold" \in Places /\ "confirmed" \in Places /\ Relies("hold", r, money, provider)
  BY Carefree DEF Places
<1>3. money.hold[r] = "CONFIRMED" => Relies("confirmed", r, money, provider)
  BY DEF Relies
<1>4. \/ Goto(x, "hold", r) \/ Stop(x, r)
      \/ money.hold[r] = "CONFIRMED" /\ Goto(x, "confirmed", r)
  BY DEF ReadTopUpReversal
<1>5. ActorsFit(actor', money, provider)
  BY <1>1, <1>2, <1>3, <1>4, Went, Stopped
<1> QED
  BY <1>1, <1>5, StepOfActor

LEMMA ReadTopUpRefundHoldKeeps ==
  ASSUME RefundInv, NEW x \in Actors, NEW r \in Refunds, ReadTopUpRefundHold(x, r)
  PROVE  RefundInv'
<1>1. /\ ActorsFit(actor, money, provider) /\ UNCHANGED <<money, sent, provider, inbox>>
      /\ ProviderFits(sent, provider, inbox, money) /\ intent[r] \in Intents
  BY Parts DEF ReadTopUpRefundHold
<1>2. /\ "released" \in Places /\ "wait" \in Places /\ "free" \in Places /\ "query" \in Places
      /\ Relies("wait", r, money, provider) /\ Relies("free", r, money, provider)
      /\ Relies("query", r, money, provider)
  BY Carefree DEF Places
<1>3. money.hold[r] = "RELEASED" => Relies("released", r, money, provider)
  BY DEF Relies
<1>4. PICK row : row = [intent[r] EXCEPT !.dispatched = TRUE, !.state = "UNKNOWN"]
  OBVIOUS
<1>5. \/ /\ UNCHANGED intent
         /\ \/ money.hold[r] = "RELEASED" /\ Goto(x, "released", r)
            \/ Goto(x, "wait", r) \/ Goto(x, "free", r) \/ Goto(x, "query", r)
      \/ SaveOrStop(x, r, row, "query")
  BY <1>4 DEF ReadTopUpRefundHold
<1>6. CASE /\ UNCHANGED intent
           /\ \/ money.hold[r] = "RELEASED" /\ Goto(x, "released", r)
              \/ Goto(x, "wait", r) \/ Goto(x, "free", r) \/ Goto(x, "query", r)
  <2>1. ActorsFit(actor', money, provider)
    BY <1>1, <1>2, <1>3, <1>6, Went
  <2> QED
    BY <1>1, <1>6, <2>1, StepOfActor
<1>7. CASE SaveOrStop(x, r, row, "query")
  <2>1. row \in Intents /\ row.state = "UNKNOWN"
    <3>1. x \in Actors \cup {"none"}
      OBVIOUS
    <3> QED
      BY <1>1, <1>4, <3>1, RowsTyped
  <2>2. RowFits(row, money.hold[r])
    BY <2>1 DEF RowFits
  <2> QED
    BY <1>1, <1>2, <1>7, <2>1, <2>2, StepSaves
<1> QED
  BY <1>5, <1>6, <1>7

\* What the provider said once, it goes on saying.
LEMMA AnswerKeeps ==
  ASSUME RefundInv, NEW x \in Actors, NEW r \in Refunds, UNCHANGED <<money, intent, sent, provider>>,
         Answer(x, r) \/ (Goto(x, "wait", r) /\ UNCHANGED inbox)
  PROVE  RefundInv'
<1>1. /\ ActorsFit(actor, money, provider) /\ ProviderFits(sent, provider, inbox, money)
      /\ IntentsFit(intent, money)
  BY Parts
<1>2. /\ "accept" \in Places /\ "dead" \in Places /\ "wait" \in Places
      /\ Relies("wait", r, money, provider)
  BY Carefree DEF Places
<1>3. /\ provider[r] = "refunded" => Relies("accept", r, money, provider)
      /\ provider[r] = "closed" => Relies("dead", r, money, provider)
  BY DEF Relies
<1>4. \/ provider[r] = "refunded" /\ Goto(x, "accept", r)
      \/ provider[r] = "closed" /\ Goto(x, "dead", r)
      \/ Goto(x, "wait", r)
  BY DEF Answer
<1>5. ActorsFit(actor', money, provider)
  BY <1>1, <1>2, <1>3, <1>4, Went
<1>6. inbox' = inbox \/ (provider[r] = "refunded" /\ inbox' = inbox \cup {r})
  BY DEF Answer
<1>7. ProviderFits(sent, provider, inbox', money)
  <2>1. provider[r] = "refunded" => ProviderFits(sent, provider, inbox \cup {r}, money)
    BY <1>1, Heard
  <2> QED
    BY <1>1, <1>6, <2>1
<1> QED
  BY <1>1, <1>5, <1>7, StepElsewhere

LEMMA QueryRefundKeeps ==
  ASSUME RefundInv, NEW x \in Actors, NEW r \in Refunds,
         QueryRefund(x, r) \/ Replied(x, r) \/ AnswerLost(x, r)
  PROVE  RefundInv'
BY AnswerKeeps DEF QueryRefund, Replied, AnswerLost

LEMMA ReplayRefundKeeps ==
  ASSUME RefundInv, NEW x \in Actors, NEW r \in Refunds, ReplayRefund(x, r)
  PROVE  RefundInv'
<1>1. /\ ProviderFits(sent, provider, inbox, money) /\ IntentsFit(intent, money)
      /\ ActorsFit(actor, money, provider) /\ intent[r] \in Intents
  BY Parts
<1>2. UNCHANGED <<money, sent, provider, inbox>>
  BY DEF ReplayRefund
<1>3. CASE r \in money.admitted /\ SaveOrStop(x, r, intent[r], "replay")
  <2>1. "replay" \in Places /\ Relies("replay", r, money, provider)
    BY <1>3 DEF Places, Relies
  <2>2. RowFits(intent[r], money.hold[r])
    BY <1>1, SameState
  <2> QED
    BY <1>1, <1>2, <1>3, <2>1, <2>2, StepSaves
<1>4. CASE Stop(x, r) /\ UNCHANGED intent
  <2>1. ActorsFit(actor', money, provider)
    BY <1>1, <1>4, Stopped
  <2> QED
    BY <1>2, <1>4, <2>1, StepOfActor
<1> QED
  BY <1>3, <1>4 DEF ReplayRefund

\* An intent is finished as the hold that the actor saw finished.
LEMMA SaveOutcomeKeeps ==
  ASSUME RefundInv, NEW x \in Actors, NEW r \in Refunds, SaveOutcome(x, r)
  PROVE  RefundInv'
<1>1. /\ ProviderFits(sent, provider, inbox, money) /\ IntentsFit(intent, money)
      /\ ActorsFit(actor, money, provider) /\ intent[r] \in Intents
  BY Parts
<1>2. UNCHANGED <<money, sent, provider, inbox>>
  BY DEF SaveOutcome
<1>3. "idle" \in Places /\ Relies("idle", r, money, provider)
  BY Carefree DEF Places
<1>4. \E row \in Intents : RowFits(row, money.hold[r]) /\ SaveOrStop(x, r, row, "idle")
  <2>1. CASE /\ At(x, "confirmed", r)
             /\ SaveOrStop(x, r, Unleased([intent[r] EXCEPT !.state = "CONFIRMED"]), "idle")
    <3>1. PICK row : row = Unleased([intent[r] EXCEPT !.state = "CONFIRMED"])
      OBVIOUS
    <3>2. row \in Intents /\ row.state = "CONFIRMED"
      BY <1>1, <3>1, RowsEnd
    <3>3. money.hold[r] = "CONFIRMED"
      <4>1. Relies("confirmed", r, money, provider)
        BY <1>1, <2>1, AtGives
      <4> QED
        BY <4>1 DEF Relies
    <3> QED
      BY <2>1, <3>1, <3>2, <3>3 DEF RowFits
  <2>2. ASSUME NEW row, row \in Intents /\ row.state = "RELEASED",
               At(x, "released", r) \/ At(x, "undone", r), SaveOrStop(x, r, row, "idle")
        PROVE  \E new \in Intents : RowFits(new, money.hold[r]) /\ SaveOrStop(x, r, new, "idle")
    <3>1. Relies("released", r, money, provider) \/ Relies("undone", r, money, provider)
      BY <1>1, <2>2, AtGives
    <3>2. money.hold[r] = "RELEASED"
      BY <3>1 DEF Relies
    <3> QED
      BY <2>2, <3>2 DEF RowFits
  <2>3. CASE /\ At(x, "released", r)
             /\ SaveOrStop(x, r, Unleased([intent[r] EXCEPT !.state = "RELEASED"]), "idle")
    <3>1. PICK row : row = Unleased([intent[r] EXCEPT !.state = "RELEASED"])
      OBVIOUS
    <3>2. row \in Intents /\ row.state = "RELEASED"
      BY <1>1, <3>1, RowsEnd
    <3> QED
      BY <2>2, <2>3, <3>1, <3>2
  <2>4. CASE /\ At(x, "undone", r)
             /\ SaveOrStop(x, r, [intent[r] EXCEPT !.state = "RELEASED"], "idle")
    <3>1. PICK row : row = [intent[r] EXCEPT !.state = "RELEASED"]
      OBVIOUS
    <3>2. row \in Intents /\ row.state = "RELEASED"
      BY <1>1, <3>1, RowsEnd
    <3> QED
      BY <2>2, <2>4, <3>1, <3>2
  <2>5. CASE SaveOrStop(x, r, Unleased(intent[r]), "idle")
    <3>1. PICK row : row = Unleased(intent[r])
      OBVIOUS
    <3>2. row \in Intents /\ row.state = intent[r].state
      BY <1>1, <3>1, RowsUnleased
    <3>3. RowFits(row, money.hold[r])
      BY <1>1, <3>2, SameState
    <3> QED
      BY <2>5, <3>1, <3>2, <3>3
  <2> QED
    BY <2>1, <2>3, <2>4, <2>5 DEF SaveOutcome
<1> QED
  BY <1>1, <1>2, <1>3, <1>4, StepSaves

LEMMA LapseKeeps ==
  ASSUME RefundInv, NEW r \in Refunds, Lapse(r)
  PROVE  RefundInv'
<1>1. /\ ProviderFits(sent, provider, inbox, money) /\ IntentsFit(intent, money)
      /\ ActorsFit(actor, money, provider) /\ intent[r] \in Intents
  BY Parts
<1>2. UNCHANGED <<money, sent, provider, inbox, actor>> /\ intent' = [intent EXCEPT ![r].lapsed = TRUE]
  BY DEF Lapse
<1>3. PICK old, row : old = intent[r] /\ row = [intent[r] EXCEPT !.lapsed = TRUE]
  OBVIOUS
<1>4. row \in Intents /\ row.state = intent[r].state
  <2>1. TRUE \in BOOLEAN
    OBVIOUS
  <2>2. old \in Intents /\ row = [old EXCEPT !.lapsed = TRUE]
    BY <1>1, <1>3
  <2>3. row \in Intents /\ row.state = old.state
    BY <2>1, <2>2, RowLapsed
  <2> QED
    BY <1>3, <2>3
<1>5. intent' = [intent EXCEPT ![r] = row]
  BY <1>2, <1>3
<1>6. IntentsFit(intent', money)
  BY <1>1, <1>4, <1>5, SameState, IntentWritten
<1> QED
  BY <1>1, <1>2, <1>6, StepElsewhere

-----------------------------------------------------------------------------
(* Refunds: the provider, the faults, and the theorems *)

\* The provider receives a request, or decides on one it received.
LEMMA ProviderKeeps ==
  ASSUME RefundInv, NEW r \in Refunds, Arrive(r) \/ Decide(r)
  PROVE  RefundInv'
<1>1. /\ Books(money, provider) /\ ProviderFits(sent, provider, inbox, money)
      /\ IntentsFit(intent, money) /\ ActorsFit(actor, money, provider)
  BY Parts
<1>2. UNCHANGED <<money, intent, sent, inbox, actor>>
  BY DEF Arrive, Decide
<1>3. PICK result \in {"processing", "refunded", "closed"} : provider' = [provider EXCEPT ![r] = result]
  BY DEF Arrive, Decide
<1>4. provider[r] \in {"none", "processing"} /\ r \in sent /\ r \in money.admitted
  BY <1>1 DEF Arrive, Decide, ProviderFits
<1>5. provider \in [Refunds -> {"none", "processing", "refunded", "closed"}]
  BY <1>1 DEF ProviderFits
<1>6. provider'[r] = result /\ \A q \in Refunds : q # r => provider'[q] = provider[q]
  BY <1>3, <1>5
<1>7. provider' \in [Refunds -> {"none", "processing", "refunded", "closed"}]
  BY <1>3, <1>5
<1>8. money.hold[r] = "RESERVED"
  BY <1>1, <1>4 DEF Books
<1>9. Books(money, provider')
  BY <1>1, <1>6, <1>8 DEF Books
<1>10. ProviderFits(sent, provider', inbox, money)
  <2>1. r \notin inbox
    BY <1>1, <1>4 DEF ProviderFits
  <2> QED
    BY <1>1, <1>4, <1>6, <1>7, <2>1 DEF ProviderFits
<1>11. Ahead(money, money, provider, provider')
  BY <1>4, <1>6 DEF Ahead
<1>12. ActorsFit(actor, money, provider')
  BY <1>1, <1>11, AheadActors
<1> QED
  BY <1>1, <1>2, <1>9, <1>10, <1>12 DEF RefundInv

LEMMA NotifyKeeps ==
  ASSUME RefundInv, NEW r \in Refunds, Notify(r)
  PROVE  RefundInv'
<1>1. /\ ProviderFits(sent, provider, inbox, money) /\ IntentsFit(intent, money)
      /\ ActorsFit(actor, money, provider)
  BY Parts
<1>2. /\ UNCHANGED <<money, intent, sent, provider, actor>> /\ inbox' = inbox \cup {r}
      /\ provider[r] = "refunded"
  BY DEF Notify
<1>3. ProviderFits(sent, provider, inbox \cup {r}, money)
  BY <1>1, <1>2, Heard
<1> QED
  BY <1>1, <1>2, <1>3, StepElsewhere

\* Only a request that has not reached the provider is lost.
LEMMA LoseRequestKeeps ==
  ASSUME RefundInv, NEW r \in Refunds, LoseRequest(r)
  PROVE  RefundInv'
<1>1. /\ ProviderFits(sent, provider, inbox, money) /\ IntentsFit(intent, money)
      /\ ActorsFit(actor, money, provider)
  BY Parts
<1>2. /\ UNCHANGED <<money, intent, provider, inbox, actor>> /\ sent' = sent \ {r}
      /\ provider[r] = "none"
  BY DEF LoseRequest
<1>3. ProviderFits(sent', provider, inbox, money)
  BY <1>1, <1>2 DEF ProviderFits
<1> QED
  BY <1>1, <1>2, <1>3, StepElsewhere

LEMMA CrashKeeps ==
  ASSUME RefundInv, NEW x \in Actors, Crash(x)
  PROVE  RefundInv'
<1>1. ActorsFit(actor, money, provider)
  BY Parts
<1>2. Stop(x, actor[x].refund) /\ UNCHANGED <<money, intent, sent, provider, inbox>>
  BY DEF Crash
<1>3. ActorsFit(actor', money, provider)
  BY <1>1, <1>2, Stopped
<1> QED
  BY <1>2, <1>3, StepOfActor

LEMMA ActorStepKeeps ==
  ASSUME RefundInv, NEW x \in Actors, NEW r \in Refunds, ActorStep(x, r)
  PROVE  RefundInv'
<1>1. CASE PrepareHold(x, r) BY <1>1, PrepareHoldKeeps
<1>2. CASE AdmitHold(x, r) \/ AdmitAnswerLost(x, r) BY <1>2, AdmitHoldKeeps
<1>3. CASE UndoHold(x, r) \/ FreeHold(x, r) BY <1>3, UndoHoldKeeps
<1>4. CASE MarkDispatched(x, r) BY <1>4, MarkDispatchedKeeps
<1>5. CASE Refund(x, r) BY <1>5, RefundKeeps
<1>6. CASE Called(x, r) BY <1>6, CalledKeeps
<1>7. CASE TakeLease(x, r) BY <1>7, TakeLeaseKeeps
<1>8. CASE ReadTopUpReversal(x, r) BY <1>8, ReadTopUpReversalKeeps
<1>9. CASE ReadTopUpRefundHold(x, r) BY <1>9, ReadTopUpRefundHoldKeeps
<1>10. CASE QueryRefund(x, r) \/ Replied(x, r) \/ AnswerLost(x, r) BY <1>10, QueryRefundKeeps
<1>11. CASE ReplayRefund(x, r) BY <1>11, ReplayRefundKeeps
<1>12. CASE AcceptRefund(x, r) BY <1>12, AcceptRefundKeeps
<1>13. CASE ReleaseDeadHold(x, r) BY <1>13, ReleaseDeadHoldKeeps
<1>14. CASE SaveOutcome(x, r) BY <1>14, SaveOutcomeKeeps
<1> QED
  BY <1>1, <1>2, <1>3, <1>4, <1>5, <1>6, <1>7, <1>8, <1>9, <1>10, <1>11, <1>12, <1>13, <1>14
  DEF ActorStep

LEMMA RefundInvStep ==
  ASSUME RefundInv, [RefundNext]_refundVars
  PROVE  RefundInv'
<1>1. CASE UNCHANGED refundVars
  BY <1>1 DEF refundVars, RefundInv
<1>2. ASSUME NEW r \in Refunds, Approve(Approver, r) PROVE RefundInv'
  <2>1. Approver \in Actors
    BY DEF Actors
  <2> QED
    BY <1>2, <2>1, ApproveKeeps
<1>3. ASSUME NEW r \in Refunds, Arrive(r) \/ Decide(r) PROVE RefundInv'
  BY <1>3, ProviderKeeps
<1>4. ASSUME NEW r \in Refunds, Notify(r) PROVE RefundInv'
  BY <1>4, NotifyKeeps
<1>5. ASSUME NEW r \in Refunds, LoseRequest(r) PROVE RefundInv'
  BY <1>5, LoseRequestKeeps
<1>6. ASSUME NEW r \in Refunds, Lapse(r) PROVE RefundInv'
  BY <1>6, LapseKeeps
<1>7. ASSUME NEW r \in Refunds, NEW x \in Actors, ActorStep(x, r) PROVE RefundInv'
  BY <1>7, ActorStepKeeps
<1>8. CASE ReconcileOrder
  BY <1>8, ReconcileOrderKeeps
<1>9. ASSUME NEW x \in Actors, Crash(x) PROVE RefundInv'
  BY <1>9, CrashKeeps
<1> QED
  BY <1>1, <1>2, <1>3, <1>4, <1>5, <1>6, <1>7, <1>8, <1>9 DEF RefundNext

\* The inductive invariant of refunds: what each actor read before and relies on
\* now still holds, only admitted holds were asked of the provider, and an admitted
\* hold is given back only for a refund that is dead.
THEOREM RefundInvariant == RefundSpec => []RefundInv
<1>1. RefundInit => RefundInv
  BY RefundInvInit
<1>2. RefundInv /\ [RefundNext]_refundVars => RefundInv'
  BY RefundInvStep
<1> QED
  BY <1>1, <1>2, PTL DEF RefundSpec

LEMMA InvAgrees ==
  ASSUME RefundInv
  PROVE  RefundAgrees
<1> SUFFICES ASSUME NEW r \in Refunds
             PROVE  /\ money.hold[r] = "RELEASED" => /\ provider[r] \in {"none", "closed"}
                                                     /\ r \in sent => provider[r] = "closed"
                    /\ money.hold[r] = "CONFIRMED" => provider[r] = "refunded"
                    /\ intent[r].state \in {"CONFIRMED", "RELEASED"} => money.hold[r] = intent[r].state
  BY DEF RefundAgrees
<1>1. r \in sent => r \in money.admitted
  BY DEF RefundInv, ProviderFits
<1>2. provider[r] # "none" => r \in sent
  BY DEF RefundInv, ProviderFits
<1>3. r \in money.admitted /\ money.hold[r] = "RELEASED" => provider[r] = "closed"
  BY DEF RefundInv, Books
<1>4. money.hold[r] = "CONFIRMED" => provider[r] = "refunded"
  BY DEF RefundInv, Books
<1>5. RowFits(intent[r], money.hold[r])
  BY DEF RefundInv, IntentsFit
<1> QED
  BY <1>1, <1>2, <1>3, <1>4, <1>5 DEF RowFits

LEMMA InvWithinPayment ==
  ASSUME RefundInv
  PROVE  RefundsWithinPayment
<1> DEFINE Live == {r \in sent : provider[r] # "closed"}
<1>1. Live \in SUBSET OpenRows(money)
  <2> SUFFICES ASSUME NEW r \in sent, provider[r] # "closed"
               PROVE  r \in Refunds /\ money.hold[r] \in {"RESERVED", "CONFIRMED"}
    BY DEF OpenRows
  <2>1. r \in Refunds /\ r \in money.admitted
    BY DEF RefundInv, ProviderFits
  <2> QED
    BY <2>1 DEF RefundInv, Books
<1>2. Books(money, provider)
  BY Parts
<1>3. OpenRows(money) \in SUBSET Refunds
  BY DEF OpenRows
<1>4. IsFiniteSet(OpenRows(money)) /\ \A r \in OpenRows(money) : ReversalMinor[r] \in Nat
  BY <1>3, RefundIs, FS_Subset
<1> HIDE DEF Live
<1>5. /\ SumOf(ReversalMinor, Live) \in Nat
      /\ SumOf(ReversalMinor, Live) <= SumOf(ReversalMinor, OpenRows(money))
  BY <1>1, <1>4, SumPart
<1>6. SumOf(ReversalMinor, OpenRows(money)) <= TopUpMinor[Payment] /\ TopUpMinor[Payment] \in Nat
  BY <1>2, Inputs, RefundIs DEF Books
<1>7. SumOf(ReversalMinor, OpenRows(money)) \in Nat
  BY <1>2, OpenRowsCounted
<1>8. SumOf(ReversalMinor, Live) <= TopUpMinor[Payment]
  BY <1>5, <1>6, <1>7, SMT
<1> QED
  BY <1>8 DEF RefundsWithinPayment, Live

\* The wallet, the intents and the provider agree on every outcome of a refund,
\* whatever admissions and requests were lost or late, with any number of recovery
\* processes, refunds and faults.
THEOREM BooksAgree == RefundSpec => []RefundAgrees
<1>1. RefundInv => RefundAgrees
  BY InvAgrees
<1> QED
  BY <1>1, RefundInvariant, PTL

\* The requests sent for a payment never ask for more than was paid.
THEOREM RequestsStayWithin == RefundSpec => []RefundsWithinPayment
<1>1. RefundInv => RefundsWithinPayment
  BY InvWithinPayment
<1> QED
  BY <1>1, RefundInvariant, PTL

\* Refunds leave the wallet as sound as its own operations do: its totals balance,
\* its snapshot validates, and no settlement is refused for want of room.
THEOREM RefundsKeepTheWallet == RefundSpec => [](WalletConserved /\ WalletShape /\ WalletSettles)
<1>1. RefundInv => WalletInv(money)
  BY DEF RefundInv, Books
<1>2. RefundInv => WalletConserved /\ WalletShape /\ WalletSettles
  BY <1>1, InvConserves, InvSettles
<1> QED
  BY <1>2, RefundInvariant, PTL

=============================================================================
