--------------------------- MODULE ResourceCredit ---------------------------
(***************************************************************************)
(* Arithmetic shared by every writer of an organization resource bucket    *)
(* (internal/integration/orgresource): signed 64-bit addition and the       *)
(* single path by which value flows back into a balance, repaying the       *)
(* organization's outstanding debt first.                                   *)
(***************************************************************************)
EXTENDS Integers

CONSTANT MaxInt   \* math.MaxInt64, scaled down so that overflow is reachable

ASSUME MaxIntAssumption == MaxInt \in Nat \ {0}

Quantities == 1..MaxInt

Balances == 0..MaxInt

\* Go's a + b for two non-negative operands: it wraps below zero.
WrappingAdd(a, b) == IF a + b > MaxInt THEN a + b - 2 * (MaxInt + 1) ELSE a + b

\* min(debt.Amount, gross): the part of a credit that repays debt.
DebtRepaid(gross, owed) == IF owed < gross THEN owed ELSE gross

\* What is left of a credit once the debt has taken its part.
NetCredit(gross, owed) == gross - DebtRepaid(gross, owed)

\* Mutant: the gross amount is credited although part of it repaid debt.
CreditedBalanceGross(before, gross, owed) == WrappingAdd(before, gross)

\* applyPositiveCredit: the balance after the credit.
CreditedBalance(before, gross, owed) == WrappingAdd(before, NetCredit(gross, owed))

\* Mutant: the wrap-around check is missing.
CreditFitsUnchecked(before, gross, owed) == TRUE

\* applyPositiveCredit fails, and rolls its transaction back, on wrap-around.
CreditFits(before, gross, owed) == CreditedBalance(before, gross, owed) >= before
=============================================================================
