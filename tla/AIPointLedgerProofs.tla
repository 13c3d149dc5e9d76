------------------------ MODULE AIPointLedgerProofs ------------------------
(***************************************************************************)
(* Proofs about the AI point ledger for every set of members, attempts,    *)
(* grants and limit commands, every tariff and every value of MaxInt: the  *)
(* limits hold, the bucket and the monthly counters are the sums of the    *)
(* attempts they summarise, and every open attempt can be finalized.       *)
(***************************************************************************)
EXTENDS AIPointLedger, RowSumsProofs

\* The leaves are first-order; one that needs arithmetic names the SMT solver.
USE Zenon

-----------------------------------------------------------------------------
(* Credits, for every integer width *)

\* A quantity that may be granted or charged is a balance.
LEMMA QuantitiesAreBalances == \A q \in Quantities : q \in Balances
BY MaxIntAssumption, SMT DEF Quantities, Balances

\* What applyPositiveCredit returns when it does not fail: the net credit and
\* the repaid debt split the gross amount, and wrap-around is always noticed.
LEMMA CreditSplit ==
  ASSUME NEW before \in Balances, NEW gross \in Balances, NEW owed \in Nat
  PROVE  /\ DebtRepaid(gross, owed) \in 0..gross
         /\ DebtRepaid(gross, owed) <= owed
         /\ NetCredit(gross, owed) = gross - DebtRepaid(gross, owed)
         /\ NetCredit(gross, owed) \in 0..gross
         /\ NetCredit(gross, owed) > 0 => DebtRepaid(gross, owed) = owed
         /\ CreditFits(before, gross, owed) =>
              /\ CreditedBalance(before, gross, owed) = before + NetCredit(gross, owed)
              /\ CreditedBalance(before, gross, owed) \in Balances
BY MaxIntAssumption, SMT
   DEF Balances, DebtRepaid, NetCredit, CreditFits, CreditedBalance, WrappingAdd

\* A credit for which the balance has room is never refused, whatever is owed.
LEMMA CreditRoom ==
  ASSUME NEW before \in Balances, NEW gross \in Balances, NEW owed \in Nat,
         before + gross <= MaxInt
  PROVE  CreditFits(before, gross, owed)
BY MaxIntAssumption, SMT
   DEF Balances, DebtRepaid, NetCredit, CreditFits, CreditedBalance, WrappingAdd

-----------------------------------------------------------------------------
(* The tariff *)

\* Multiplication by a rate keeps the order.
LEMMA TimesMonotone ==
  ASSUME NEW a \in Nat, NEW b \in Nat, NEW c \in Nat, a <= b
  PROVE  a * c <= b * c
<1>1. PICK d \in Nat : b = a + d
  <2>1. b - a \in Nat /\ b = a + (b - a)
    BY SMT
  <2>2. QED
    BY <2>1
<1>2. b * c = a * c + d * c /\ d * c >= 0 /\ a * c \in Int
  BY <1>1, SMT
<1>3. QED
  BY <1>2, SMT

\* Division by the scale keeps the order.
LEMMA DivMonotone ==
  ASSUME NEW a \in Nat, NEW b \in Nat, NEW c \in Nat \ {0}, a <= b
  PROVE  a \div c <= b \div c
BY SMT

\* Usage within the token limits of a call costs at least one point and at
\* most the price of the limits: "actual > quantity" in finalize is
\* unreachable and every answered call is charged.
THEOREM TariffBounds ==
  ASSUME NEW maxPrompt \in Nat, NEW maxCompletion \in Nat,
         NEW u \in UsageWithin(maxPrompt, maxCompletion)
  PROVE  Points(u[1], u[2]) \in 1..Points(maxPrompt, maxCompletion)
<1> DEFINE p == u[1] * InputRate
           c == u[2] * OutputRate
           P == maxPrompt * InputRate
           C == maxCompletion * OutputRate
           sum == p + c + (Scale - 1)
           SUM == P + C + (Scale - 1)
<1>1. /\ u[1] \in Nat /\ u[1] <= maxPrompt
      /\ u[2] \in Nat /\ u[2] <= maxCompletion
      /\ u[1] + u[2] > 0
  BY SMT DEF UsageWithin
<1>2. InputRate \in Nat \ {0} /\ OutputRate \in Nat \ {0} /\ Scale \in Nat \ {0}
  BY TariffAssumption
<1>3. p \in Nat /\ c \in Nat /\ P \in Nat /\ C \in Nat
  BY <1>1, <1>2, SMT
<1>4. p <= P /\ c <= C
  BY <1>1, <1>2, TimesMonotone
<1>5. p + c >= 1
  <2>1. CASE u[1] >= 1
    <3>1. 1 * InputRate <= p
      BY <1>1, <1>2, <2>1, TimesMonotone
    <3>2. QED
      BY <1>2, <1>3, <3>1, SMT
  <2>2. CASE u[2] >= 1
    <3>1. 1 * OutputRate <= c
      BY <1>1, <1>2, <2>2, TimesMonotone
    <3>2. QED
      BY <1>2, <1>3, <3>1, SMT
  <2>3. QED
    BY <1>1, <2>1, <2>2, SMT
<1> HIDE DEF p, c, P, C
<1>6. sum \in Nat /\ SUM \in Nat /\ sum <= SUM /\ Scale <= sum
  BY <1>2, <1>3, <1>4, <1>5, SMT
<1> HIDE DEF sum, SUM
<1>7. sum \div Scale <= SUM \div Scale
  BY <1>2, <1>6, DivMonotone
<1>8. Scale \div Scale <= sum \div Scale /\ Scale \div Scale = 1
  BY <1>2, <1>6, DivMonotone, SMT
<1>9. sum \div Scale \in Int /\ SUM \div Scale \in Int
  BY <1>2, <1>6, SMT
<1>10. Points(u[1], u[2]) = sum \div Scale /\ Points(maxPrompt, maxCompletion) = SUM \div Scale
  BY DEF Points, sum, SUM, p, c, P, C
<1>11. QED
  BY <1>7, <1>8, <1>9, <1>10, SMT

-----------------------------------------------------------------------------
(* The steps of the ledger *)

\* The constants have the types the code validates.
LEMMA PointInputs ==
  /\ \A a \in Attempts : Payer[a] \in Members /\ HoldQuantity(a) \in Quantities
  /\ \A s \in Sources : GrantQuantity[s] \in Quantities
  /\ \A cmd \in LimitCommands : /\ cmd.member \in Members /\ cmd.target \in Balances
                                /\ cmd.expectedVersion \in Nat
BY PointAssumption DEF Attempts, HoldQuantity

\* What a finalization may charge for its outcome.
Priced(a, outcome, used) ==
  /\ outcome \in Terminal
  /\ used \in Balances
  /\ outcome = "committed" =>
       IF a \in Models THEN used \in 1..HoldQuantity(a) ELSE used = HoldQuantity(a)

\* A step of either kind of attempt is one of three ledger transactions.
LEMMA AttemptSteps ==
  ASSUME PointNext
  PROVE  \/ AccountStep
         \/ \E a \in Attempts, mo \in Months : Reserve(a, mo)
         \/ \E a \in Attempts : \E outcome, used :
              Priced(a, outcome, used) /\ Finalize(a, outcome, used)
         \/ \E a \in Attempts : CloseReserve(a)
<1>1. ASSUME NEW a \in Models, NEW usage \in Usage(a), CommitModel(a, usage)
      PROVE  Priced(a, "committed", Points(usage[1], usage[2])) /\ a \in Attempts
  <2>1. MaxTokens[a].prompt \in Nat /\ MaxTokens[a].completion \in Nat
    BY PointAssumption
  <2>2. Points(usage[1], usage[2]) \in 1..HoldQuantity(a)
    BY <2>1, TariffBounds DEF Usage, HoldQuantity
  <2>3. HoldQuantity(a) \in Quantities /\ a \in Attempts
    BY PointInputs DEF Attempts
  <2>4. QED
    BY <2>2, <2>3, MaxIntAssumption, SMT DEF Priced, Terminal, Balances, Quantities
<1>2. ASSUME NEW a \in Images, CommitImage(a)
      PROVE  Priced(a, "committed", HoldQuantity(a)) /\ a \in Attempts
  BY PointInputs, PointAssumption, QuantitiesAreBalances DEF Priced, Terminal, Attempts
<1>3. ASSUME NEW a \in Attempts PROVE Priced(a, "released", 0)
  BY MaxIntAssumption, SMT DEF Priced, Terminal, Balances
<1>4. QED
  BY <1>1, <1>2, <1>3 DEF PointNext, CommitModel, CommitImage, Release, Attempts,
     ReserveAIInvocationUsage, ReserveImageGeneration

\* The rows of the initial ledger are typed.
LEMMA PointTypeInit == PointInit => PointTypeOK
BY MaxIntAssumption, PointAssumption, SMT DEF PointInit, PointTypeOK, BucketRows, BucketRow,
   CounterRows, CounterRow, LimitRows, HoldRows, HoldRow, Balances, OpStates, Months

\* Every operation leaves rows that the tables can hold.
LEMMA PointTypeStep == PointTypeOK /\ [PointNext]_pointVars => PointTypeOK'
<1> SUFFICES ASSUME PointTypeOK, [PointNext]_pointVars PROVE PointTypeOK'
  OBVIOUS
<1> USE MaxIntAssumption
<1>1. ASSUME NEW o \in GrantOps, NEW s \in Sources, Grant(o, s) PROVE PointTypeOK'
  <2> DEFINE q == GrantQuantity[s]
  <2>1. q \in Quantities /\ q \in Balances /\ bucket.available \in Balances /\ debt \in Nat
    BY PointInputs, QuantitiesAreBalances DEF PointTypeOK, BucketRows
  <2>2. /\ DebtRepaid(q, debt) \in 0..q
        /\ DebtRepaid(q, debt) <= debt
        /\ CreditedBalance(bucket.available, q, debt) \in Balances
    BY <1>1, <2>1, CreditSplit DEF Grant
  <2>3. bucket' \in BucketRows
    BY <1>1, <2>2 DEF PointTypeOK, Grant, BucketRows, BucketRow
  <2>4. debt' \in Nat /\ granted' \in Nat
    BY <1>1, <2>1, <2>2, SMT DEF PointTypeOK, Grant, Quantities
  <2>5. QED
    BY <1>1, <2>3, <2>4 DEF PointTypeOK, Grant, OpStates
<1>2. ASSUME NEW d \in 1..MaxIncurred, IncurDebt(d) PROVE PointTypeOK'
  BY <1>2, PointAssumption, SMT DEF PointTypeOK, IncurDebt
<1>3. ASSUME NEW t \in LimitOps, NEW cmd \in LimitCommands, SetMonthlyLimit(t, cmd)
      PROVE PointTypeOK'
  <2> DEFINE m == cmd.member
  <2>1. m \in Members /\ cmd.target \in Balances /\ limit[m] \in LimitRows
    BY PointInputs DEF PointTypeOK
  <2>2. [monthly |-> cmd.target, version |-> cmd.expectedVersion + 1] \in LimitRows
    BY <1>3, <2>1, SMT DEF SetMonthlyLimit, LimitRows, Balances
  <2>3. limit' \in [Members -> LimitRows]
    BY <1>3, <2>1, <2>2 DEF SetMonthlyLimit, PointTypeOK
  <2>4. QED
    BY <1>3, <2>3 DEF PointTypeOK, SetMonthlyLimit, OpStates
<1>4. CASE NextMonth
  BY <1>4, PointAssumption, SMT DEF PointTypeOK, NextMonth, Months
<1>5. ASSUME NEW a \in Attempts, NEW mo \in Months, Reserve(a, mo) PROVE PointTypeOK'
  <2> DEFINE q == HoldQuantity(a)
             x == <<Payer[a], mo>>
  <2>1. q \in 1..MaxInt /\ Payer[a] \in Members
    BY PointInputs DEF Quantities
  <2>2. bucket' \in BucketRows
    BY <1>5, <2>1, SMT DEF PointTypeOK, Reserve, BucketRows, BucketRow, Balances
  <2>3. counter[x] \in CounterRows /\ limit[Payer[a]] \in LimitRows
    BY <2>1 DEF PointTypeOK
  <2>4. CounterRow(counter[x].reserved + q, counter[x].consumed) \in CounterRows
    BY <1>5, <2>1, <2>3, SMT DEF Reserve, FitsLimit, CounterRows, CounterRow, LimitRows, Balances
  <2>5. counter' \in [Members \X Months -> CounterRows]
    BY <1>5, <2>4 DEF PointTypeOK, Reserve
  <2>6. hold' \in [Attempts -> HoldRows]
    BY <1>5, SMT DEF PointTypeOK, Reserve, HoldRows, HoldRow, Balances
  <2>7. QED
    BY <1>5, <2>2, <2>5, <2>6 DEF PointTypeOK, Reserve, OpStates
<1>6. ASSUME NEW a \in Attempts, NEW outcome, NEW used, Priced(a, outcome, used),
             Finalize(a, outcome, used)
      PROVE PointTypeOK'
  <2> DEFINE q == HoldQuantity(a)
             x == <<Payer[a], hold[a].month>>
  <2>1. /\ q \in 1..MaxInt /\ Payer[a] \in Members /\ used \in 0..MaxInt /\ used <= q
        /\ hold[a] \in HoldRows
    BY <1>6, PointInputs DEF Quantities, Priced, Balances, Finalize, PointTypeOK
  <2>2. x \in Members \X Months /\ counter[x] \in CounterRows
    BY <2>1 DEF PointTypeOK, HoldRows
  <2>3. q - used \in Balances /\ bucket.available \in Balances /\ debt \in Nat
    BY <2>1, SMT DEF PointTypeOK, BucketRows, Balances
  <2>4. /\ DebtRepaid(q - used, debt) \in 0..(q - used)
        /\ DebtRepaid(q - used, debt) <= debt
        /\ CreditedBalance(bucket.available, q - used, debt) \in Balances
    BY <1>6, <2>3, CreditSplit DEF Finalize
  <2>5. bucket' \in BucketRows
    BY <1>6, <2>1, <2>4, SMT DEF PointTypeOK, Finalize, BucketRows, BucketRow, Balances
  <2>6. CounterRow(counter[x].reserved - q, counter[x].consumed + used) \in CounterRows
    BY <1>6, <2>1, <2>2, SMT DEF Finalize, HoldMonth, CounterRows, CounterRow, Balances
  <2>7. counter' \in [Members \X Months -> CounterRows]
    BY <1>6, <2>2, <2>6 DEF PointTypeOK, Finalize, HoldMonth
  <2>8. HoldRow(outcome, hold[a].month, used) \in HoldRows
    BY <1>6, <2>1 DEF HoldRows, HoldRow, Priced, Terminal
  <2>9. hold' \in [Attempts -> HoldRows]
    BY <1>6, <2>8 DEF PointTypeOK, Finalize
  <2>10. debt' \in Nat
    BY <1>6, <2>1, <2>3, <2>4, SMT DEF Finalize
  <2>11. QED
    BY <1>6, <2>5, <2>7, <2>9, <2>10 DEF PointTypeOK, Finalize, OpStates
<1>7. ASSUME NEW a \in Attempts, CloseReserve(a) PROVE PointTypeOK'
  BY <1>7 DEF PointTypeOK, CloseReserve, OpStates
<1>8. CASE UNCHANGED pointVars
  BY <1>8 DEF PointTypeOK, pointVars
<1> QED
  BY <1>1, <1>2, <1>3, <1>4, <1>5, <1>6, <1>7, <1>8, AttemptSteps DEF AccountStep

\* The rows always have the types of their columns: no balance, counter or
\* hold is ever negative or beyond the integer width.
THEOREM PointTypeCorrect == PointSpec => []PointTypeOK
BY PointTypeInit, PointTypeStep, PTL DEF PointSpec

-----------------------------------------------------------------------------
(* Conservation *)

\* Each transaction moves points between the columns without making any.
LEMMA ConservationStep ==
  PointTypeOK /\ PointConservation /\ [PointNext]_pointVars => PointConservation'
<1> SUFFICES ASSUME PointTypeOK, PointConservation, [PointNext]_pointVars
             PROVE  PointConservation'
  OBVIOUS
<1>0. /\ bucket.available \in Balances /\ bucket.reserved \in Int /\ bucket.consumed \in Int
      /\ bucket.available \in Int /\ debt \in Nat /\ granted \in Int /\ incurred \in Int
  BY SMT DEF PointTypeOK, BucketRows, Balances
<1>1. ASSUME NEW o \in GrantOps, NEW s \in Sources, Grant(o, s) PROVE PointConservation'
  <2> DEFINE q == GrantQuantity[s]
  <2>1. q \in Balances /\ q \in Int
    BY PointInputs, QuantitiesAreBalances, SMT DEF Balances
  <2>2. /\ DebtRepaid(q, debt) \in Int
        /\ CreditedBalance(bucket.available, q, debt) = bucket.available + (q - DebtRepaid(q, debt))
    BY <1>0, <1>1, <2>1, CreditSplit, SMT DEF Grant
  <2>3. QED
    BY <1>0, <1>1, <2>1, <2>2, SMT DEF Grant, BucketRow, PointConservation
<1>2. ASSUME NEW d \in 1..MaxIncurred, IncurDebt(d) PROVE PointConservation'
  BY <1>0, <1>2, SMT DEF IncurDebt, PointConservation
<1>3. ASSUME NEW a \in Attempts, NEW mo \in Months, Reserve(a, mo) PROVE PointConservation'
  <2>1. HoldQuantity(a) \in Int
    BY PointInputs, SMT DEF Quantities
  <2>2. QED
    BY <1>0, <1>3, <2>1, SMT DEF Reserve, BucketRow, PointConservation
<1>4. ASSUME NEW a \in Attempts, NEW outcome, NEW used, Priced(a, outcome, used),
             Finalize(a, outcome, used)
      PROVE PointConservation'
  <2> DEFINE q == HoldQuantity(a)
  <2>1. q \in Int /\ used \in Int /\ q - used \in Balances
    BY <1>4, PointInputs, MaxIntAssumption, SMT DEF Quantities, Balances, Priced, Finalize
  <2>2. /\ DebtRepaid(q - used, debt) \in Int
        /\ CreditedBalance(bucket.available, q - used, debt)
             = bucket.available + ((q - used) - DebtRepaid(q - used, debt))
    BY <1>0, <1>4, <2>1, CreditSplit, SMT DEF Finalize
  <2>3. QED
    BY <1>0, <1>4, <2>1, <2>2, SMT DEF Finalize, BucketRow, PointConservation
<1>5. ASSUME UNCHANGED <<bucket, debt, granted, incurred>> PROVE PointConservation'
  BY <1>5 DEF PointConservation
<1> QED
  BY <1>1, <1>2, <1>3, <1>4, <1>5, AttemptSteps
     DEF AccountStep, SetMonthlyLimit, NextMonth, CloseReserve, pointVars

\* Every point that was granted is available, held, consumed or has repaid
\* debt, after any sequence of operations.
THEOREM PointsConserved == PointSpec => []PointConservation
<1>1. PointInit => PointConservation
  BY SMT DEF PointInit, PointConservation, BucketRow
<1> QED
  BY <1>1, ConservationStep, PointTypeCorrect, PTL DEF PointSpec

-----------------------------------------------------------------------------
(* Monthly limits *)

\* No month is charged before it begins: with it WithinLimit is inductive
\* across NextMonth.
FutureUnused ==
  \A m \in Members, mo \in Months : mo > month =>
    counter[<<m, mo>>].reserved = 0 /\ counter[<<m, mo>>].consumed = 0

\* What a month has consumed and holds.
Charged(m, mo) == counter[<<m, mo>>].consumed + counter[<<m, mo>>].reserved

\* A reservation adds its price to the current month only.
LEMMA ReserveCharges ==
  ASSUME PointTypeOK, NEW a \in Attempts, NEW mo \in Months, Reserve(a, mo),
         NEW m \in Members, NEW n \in Months
  PROVE  /\ mo = month
         /\ <<m, n>> # <<Payer[a], mo>> => counter'[<<m, n>>] = counter[<<m, n>>]
         /\ <<m, n>> = <<Payer[a], mo>> =>
              Charged(m, n)' = Charged(m, n) + HoldQuantity(a)
<1>1. HoldQuantity(a) \in Int /\ Payer[a] \in Members
  BY PointInputs, SMT DEF Quantities
<1>2. counter[<<m, n>>] \in CounterRows
  BY DEF PointTypeOK
<1>3. /\ mo = month
      /\ counter' = [counter EXCEPT ![<<Payer[a], mo>>] =
           CounterRow(counter[<<Payer[a], mo>>].reserved + HoldQuantity(a),
                      counter[<<Payer[a], mo>>].consumed)]
  BY DEF Reserve, CurrentMonth
<1>4. CASE <<m, n>> = <<Payer[a], mo>>
  <2>1. counter'[<<m, n>>] = CounterRow(counter[<<m, n>>].reserved + HoldQuantity(a),
                                        counter[<<m, n>>].consumed)
    BY <1>3, <1>4 DEF PointTypeOK
  <2>2. QED
    BY <1>1, <1>2, <1>3, <1>4, <2>1, SMT DEF Charged, CounterRow, CounterRows, Balances
<1>5. CASE <<m, n>> # <<Payer[a], mo>>
  BY <1>3, <1>5 DEF PointTypeOK
<1> QED
  BY <1>3, <1>4, <1>5

\* A finalization lowers what its month is charged, and touches no other.
LEMMA FinalizeDischarges ==
  ASSUME PointTypeOK, NEW a \in Attempts, NEW outcome, NEW used,
         Priced(a, outcome, used), Finalize(a, outcome, used),
         NEW m \in Members, NEW n \in Months
  PROVE  /\ <<m, n>> # <<Payer[a], hold[a].month>> => counter'[<<m, n>>] = counter[<<m, n>>]
         /\ <<m, n>> = <<Payer[a], hold[a].month>> =>
              /\ counter[<<m, n>>].reserved >= 1
              /\ counter'[<<m, n>>].reserved <= counter[<<m, n>>].reserved
              /\ Charged(m, n)' <= Charged(m, n)
<1>1. /\ HoldQuantity(a) \in 1..MaxInt /\ Payer[a] \in Members
      /\ used \in 0..MaxInt /\ used <= HoldQuantity(a)
  BY PointInputs DEF Quantities, Priced, Balances, Finalize
<1>2. counter[<<m, n>>] \in CounterRows
  BY DEF PointTypeOK
<1> DEFINE x == <<Payer[a], hold[a].month>>
<1>3. /\ counter[x].reserved >= HoldQuantity(a)
      /\ counter' = [counter EXCEPT ![x] =
           CounterRow(counter[x].reserved - HoldQuantity(a), counter[x].consumed + used)]
  BY DEF Finalize, HoldMonth
<1>4. CASE <<m, n>> = x
  <2>1. counter'[<<m, n>>] = CounterRow(counter[<<m, n>>].reserved - HoldQuantity(a),
                                        counter[<<m, n>>].consumed + used)
    BY <1>3, <1>4 DEF PointTypeOK
  <2>2. /\ counter[<<m, n>>].reserved \in Int /\ counter[<<m, n>>].consumed \in Int
        /\ counter[<<m, n>>].reserved >= HoldQuantity(a)
    BY <1>2, <1>3, <1>4, SMT DEF CounterRows, Balances
  <2>3. QED
    BY <1>1, <1>4, <2>1, <2>2, MaxIntAssumption, SMT DEF Charged, CounterRow
<1>5. CASE <<m, n>> # x
  BY <1>3, <1>5 DEF PointTypeOK
<1> QED
  BY <1>4, <1>5

\* A step keeps the current month within its limit and the months to come
\* untouched; the second part is what the turn of the month needs.
LEMMA LimitStep ==
  PointTypeOK /\ WithinLimit /\ FutureUnused /\ [PointNext]_pointVars
    => WithinLimit' /\ FutureUnused'
<1> SUFFICES ASSUME PointTypeOK, WithinLimit, FutureUnused, [PointNext]_pointVars
             PROVE  WithinLimit' /\ FutureUnused'
  OBVIOUS
<1>0. /\ month \in Months /\ month \in Int
      /\ \A m \in Members : limit[m] \in LimitRows
      /\ \A m \in Members, mo \in Months : counter[<<m, mo>>] \in CounterRows
  BY SMT DEF PointTypeOK, Months
<1>1. ASSUME NEW t \in LimitOps, NEW cmd \in LimitCommands, SetMonthlyLimit(t, cmd)
      PROVE  WithinLimit' /\ FutureUnused'
  <2>1. cmd.member \in Members /\ cmd.target \in Balances
    BY PointInputs
  <2>2. FutureUnused'
    BY <1>1 DEF SetMonthlyLimit, FutureUnused
  <2>3. ASSUME NEW m \in Members, limit'[m].version > 0
        PROVE  counter[<<m, month>>].consumed + counter[<<m, month>>].reserved <= limit'[m].monthly
    <3>1. CASE m = cmd.member
      BY <1>0, <1>1, <2>1, <3>1, SMT DEF SetMonthlyLimit, FitsLimit, PointTypeOK, CounterRows, Balances
    <3>2. CASE m # cmd.member
      BY <1>1, <2>3, <3>2 DEF SetMonthlyLimit, PointTypeOK, WithinLimit
    <3>3. QED
      BY <3>1, <3>2
  <2>4. QED
    BY <1>1, <2>2, <2>3 DEF SetMonthlyLimit, WithinLimit
<1>2. CASE NextMonth
  <2>1. month' = month + 1 /\ month' \in Months /\ UNCHANGED <<counter, limit>>
    BY <1>0, <1>2, PointAssumption, SMT DEF NextMonth, Months
  <2>2. \A m \in Members : /\ counter[<<m, month'>>].reserved = 0
                           /\ counter[<<m, month'>>].consumed = 0
                           /\ limit[m].monthly \in Balances
    BY <1>0, <2>1, SMT DEF FutureUnused, LimitRows
  <2>3. WithinLimit'
    BY <2>1, <2>2, SMT DEF WithinLimit, Balances
  <2>4. FutureUnused'
    BY <1>0, <2>1, SMT DEF FutureUnused, Months
  <2>5. QED
    BY <2>3, <2>4
<1>3. ASSUME NEW a \in Attempts, NEW mo \in Months, Reserve(a, mo)
      PROVE  WithinLimit' /\ FutureUnused'
  <2>1. /\ mo = month /\ UNCHANGED <<limit, month>>
        /\ Charged(Payer[a], mo) + HoldQuantity(a) <= limit[Payer[a]].monthly
    BY <1>3 DEF Reserve, CurrentMonth, FitsLimit, Charged
  <2>2. WithinLimit'
    <3> SUFFICES ASSUME NEW m \in Members, limit[m].version > 0
                 PROVE  Charged(m, month)' <= limit[m].monthly
      BY <2>1 DEF WithinLimit, Charged
    <3>1. CASE m = Payer[a]
      BY <1>0, <1>3, <2>1, <3>1, ReserveCharges
    <3>2. CASE m # Payer[a]
      BY <1>0, <1>3, <2>1, <3>2, ReserveCharges DEF WithinLimit, Charged
    <3>3. QED
      BY <3>1, <3>2
  <2>3. FutureUnused'
    <3> SUFFICES ASSUME NEW m \in Members, NEW n \in Months, n > month
                 PROVE  counter'[<<m, n>>] = counter[<<m, n>>]
      BY <2>1 DEF FutureUnused
    <3>1. <<m, n>> # <<Payer[a], mo>>
      BY <1>0, <2>1, SMT
    <3>2. QED
      BY <1>3, <3>1, ReserveCharges
  <2>4. QED
    BY <2>2, <2>3
<1>4. ASSUME NEW a \in Attempts, NEW outcome, NEW used, Priced(a, outcome, used),
             Finalize(a, outcome, used)
      PROVE  WithinLimit' /\ FutureUnused'
  <2>1. UNCHANGED <<limit, month>>
    BY <1>4 DEF Finalize
  <2>2. ASSUME NEW m \in Members, NEW n \in Months
        PROVE  /\ Charged(m, n)' <= Charged(m, n)
               /\ n > month => counter'[<<m, n>>] = counter[<<m, n>>]
    <3>0. /\ <<m, n>> # <<Payer[a], hold[a].month>> => counter'[<<m, n>>] = counter[<<m, n>>]
          /\ <<m, n>> = <<Payer[a], hold[a].month>> =>
               /\ counter[<<m, n>>].reserved >= 1
               /\ counter'[<<m, n>>].reserved <= counter[<<m, n>>].reserved
               /\ Charged(m, n)' <= Charged(m, n)
      BY <1>0, <1>4, FinalizeDischarges
    <3>1. CASE <<m, n>> = <<Payer[a], hold[a].month>>
      <4>1. counter[<<m, n>>].reserved >= 1 /\ Charged(m, n)' <= Charged(m, n)
        BY <3>0, <3>1
      <4>2. n > month => counter[<<m, n>>].reserved = 0
        BY DEF FutureUnused
      <4>3. ~(0 >= 1)
        BY SMT
      <4>4. QED
        BY <4>1, <4>2, <4>3
    <3>2. CASE <<m, n>> # <<Payer[a], hold[a].month>>
      <4>1. counter[<<m, n>>] \in CounterRows /\ counter'[<<m, n>>] = counter[<<m, n>>]
        BY <1>0, <3>0, <3>2
      <4>2. Charged(m, n) \in Int
        BY <4>1, SMT DEF Charged, CounterRows, Balances
      <4>3. Charged(m, n)' = Charged(m, n)
        BY <4>1 DEF Charged
      <4>4. QED
        BY <4>1, <4>2, <4>3, SMT
    <3>3. QED
      BY <3>1, <3>2
  <2>3. PointTypeOK'
    BY PointTypeStep
  <2>4. WithinLimit'
    <3> SUFFICES ASSUME NEW m \in Members, limit[m].version > 0
                 PROVE  Charged(m, month)' <= limit[m].monthly
      BY <2>1 DEF WithinLimit, Charged
    <3>1. Charged(m, month)' <= Charged(m, month) /\ Charged(m, month) <= limit[m].monthly
      BY <1>0, <2>1, <2>2 DEF WithinLimit, Charged
    <3>2. Charged(m, month) \in Int /\ Charged(m, month)' \in Int /\ limit[m].monthly \in Int
      BY <1>0, <2>1, <2>3, SMT DEF PointTypeOK, Charged, CounterRows, LimitRows, Balances
    <3>3. QED
      BY <3>1, <3>2, SMT
  <2>5. FutureUnused'
    BY <2>1, <2>2 DEF FutureUnused
  <2>6. QED
    BY <2>4, <2>5
<1>5. ASSUME UNCHANGED <<limit, counter, month>> PROVE WithinLimit' /\ FutureUnused'
  BY <1>5 DEF WithinLimit, FutureUnused
<1> QED
  BY <1>1, <1>2, <1>3, <1>4, <1>5, AttemptSteps
     DEF AccountStep, Grant, IncurDebt, CloseReserve, pointVars

\* In the current month no member ever consumes and holds more than the limit
\* an administrator has set, whatever the order of operations.
THEOREM LimitHolds == PointSpec => []WithinLimit
<1>1. PointInit => WithinLimit /\ FutureUnused
  BY PointTypeInit, SMT DEF PointInit, WithinLimit, FutureUnused, CounterRow, PointTypeOK
<1> QED
  BY <1>1, LimitStep, PointTypeCorrect, PTL DEF PointSpec

\* A month that is over is only ever settled, never charged.
THEOREM PastMonthsSettle == PointSpec => PastMonthsOnlySettle
<1>1. ASSUME PointTypeOK, [PointNext]_pointVars, NEW m \in Members, NEW mo \in 0..(month - 1)
      PROVE  /\ counter'[<<m, mo>>].reserved <= counter[<<m, mo>>].reserved
             /\ counter'[<<m, mo>>].reserved + counter'[<<m, mo>>].consumed
                  <= counter[<<m, mo>>].reserved + counter[<<m, mo>>].consumed
  <2>0. mo \in Months /\ mo # month /\ PointTypeOK'
    BY <1>1, PointAssumption, PointTypeStep, SMT DEF PointTypeOK, Months
  <2>1. counter[<<m, mo>>] \in CounterRows /\ counter'[<<m, mo>>] \in CounterRows
    BY <1>1, <2>0 DEF PointTypeOK
  <2>2. ASSUME counter'[<<m, mo>>] = counter[<<m, mo>>]
        PROVE  /\ counter'[<<m, mo>>].reserved <= counter[<<m, mo>>].reserved
               /\ counter'[<<m, mo>>].reserved + counter'[<<m, mo>>].consumed
                    <= counter[<<m, mo>>].reserved + counter[<<m, mo>>].consumed
    BY <2>1, <2>2, SMT DEF CounterRows, Balances
  <2>3. ASSUME NEW a \in Attempts, NEW n \in Months, Reserve(a, n)
        PROVE  counter'[<<m, mo>>] = counter[<<m, mo>>]
    BY <1>1, <2>0, <2>3, ReserveCharges
  <2>4. ASSUME NEW a \in Attempts, NEW outcome, NEW used, Priced(a, outcome, used),
               Finalize(a, outcome, used)
        PROVE  /\ counter'[<<m, mo>>].reserved <= counter[<<m, mo>>].reserved
               /\ counter'[<<m, mo>>].reserved + counter'[<<m, mo>>].consumed
                    <= counter[<<m, mo>>].reserved + counter[<<m, mo>>].consumed
    <3>1. CASE <<m, mo>> = <<Payer[a], hold[a].month>>
      BY <1>1, <2>0, <2>1, <2>4, <3>1, FinalizeDischarges, SMT DEF Charged, CounterRows, Balances
    <3>2. CASE <<m, mo>> # <<Payer[a], hold[a].month>>
      BY <1>1, <2>0, <2>2, <2>4, <3>2, FinalizeDischarges
    <3>3. QED
      BY <3>1, <3>2
  <2>5. QED
    BY <1>1, <2>2, <2>3, <2>4, AttemptSteps
       DEF AccountStep, Grant, IncurDebt, SetMonthlyLimit, NextMonth, CloseReserve, pointVars
<1>2. PointTypeOK /\ [PointNext]_pointVars =>
        [\A m \in Members : \A mo \in 0..(month - 1) :
           /\ counter'[<<m, mo>>].reserved <= counter[<<m, mo>>].reserved
           /\ counter'[<<m, mo>>].reserved + counter'[<<m, mo>>].consumed
                <= counter[<<m, mo>>].reserved + counter[<<m, mo>>].consumed]_pointVars
  BY <1>1
<1> QED
  BY <1>2, PointTypeCorrect, PTL DEF PointSpec, PastMonthsOnlySettle

-----------------------------------------------------------------------------
(* Finality *)

\* The operation rows and the reservation row of an attempt change together.
LEMMA AgreeStep ==
  PointTypeOK /\ OperationsAgree /\ FairPrice /\ [PointNext]_pointVars
    => OperationsAgree' /\ FairPrice'
<1> SUFFICES ASSUME PointTypeOK, OperationsAgree, FairPrice, [PointNext]_pointVars
             PROVE  OperationsAgree' /\ FairPrice'
  OBVIOUS
<1>1. ASSUME NEW a \in Attempts, NEW mo \in Months, Reserve(a, mo)
      PROVE  OperationsAgree' /\ FairPrice'
  <2>1. /\ reserveOp[a] = "none" /\ reserveOp' = [reserveOp EXCEPT ![a] = "succeeded"]
        /\ hold' = [hold EXCEPT ![a] = HoldRow("reserved", mo, 0)] /\ finalOp' = finalOp
    BY <1>1 DEF Reserve, Reservable
  <2>2. hold'[a].state = "reserved" /\ reserveOp'[a] = "succeeded"
        /\ \A b \in Attempts \ {a} : hold'[b] = hold[b] /\ reserveOp'[b] = reserveOp[b]
    BY <2>1 DEF PointTypeOK, HoldRow
  <2>3. hold[a].state = "none" /\ finalOp[a] # "succeeded"
    BY <2>1 DEF OperationsAgree, Terminal
  <2>4. OperationsAgree'
    BY <2>1, <2>2, <2>3, SMT DEF OperationsAgree, Terminal
  <2>5. FairPrice'
    BY <2>2 DEF FairPrice
  <2>6. QED
    BY <2>4, <2>5
<1>2. ASSUME NEW a \in Attempts, NEW outcome, NEW used, Priced(a, outcome, used),
             Finalize(a, outcome, used)
      PROVE  OperationsAgree' /\ FairPrice'
  <2>1. /\ reserveOp[a] = "succeeded" /\ reserveOp' = reserveOp
        /\ hold' = [hold EXCEPT ![a] = HoldRow(outcome, hold[a].month, used)]
        /\ finalOp' = [finalOp EXCEPT ![a] = "succeeded"]
    BY <1>2 DEF Finalize, Unfinalized
  <2>2. /\ hold'[a].state = outcome /\ hold'[a].used = used /\ finalOp'[a] = "succeeded"
        /\ \A b \in Attempts \ {a} : hold'[b] = hold[b] /\ finalOp'[b] = finalOp[b]
    BY <2>1 DEF PointTypeOK, HoldRow
  <2>3. OperationsAgree'
    BY <1>2, <2>1, <2>2 DEF OperationsAgree, Terminal, Priced
  <2>4. FairPrice'
    BY <1>2, <2>2 DEF FairPrice, Priced
  <2>5. QED
    BY <2>3, <2>4
<1>3. ASSUME NEW a \in Attempts, CloseReserve(a) PROVE OperationsAgree' /\ FairPrice'
  <2>1. /\ reserveOp[a] = "none" /\ hold' = hold
        /\ reserveOp' = [reserveOp EXCEPT ![a] = "failed"]
        /\ finalOp' = [finalOp EXCEPT ![a] = "succeeded"]
    BY <1>3 DEF CloseReserve
  <2>2. OperationsAgree'
    BY <2>1 DEF OperationsAgree, PointTypeOK, Terminal
  <2>3. FairPrice'
    BY <2>1 DEF FairPrice
  <2>4. QED
    BY <2>2, <2>3
<1>4. ASSUME UNCHANGED <<hold, reserveOp, finalOp>> PROVE OperationsAgree' /\ FairPrice'
  BY <1>4 DEF OperationsAgree, FairPrice
<1> QED
  BY <1>1, <1>2, <1>3, <1>4, AttemptSteps
     DEF AccountStep, Grant, IncurDebt, SetMonthlyLimit, NextMonth, pointVars

\* The initial rows agree: nothing has been reserved or finalized.
LEMMA AgreeInit == PointInit => OperationsAgree /\ FairPrice
BY SMT DEF PointInit, OperationsAgree, FairPrice, HoldRow, Terminal

\* The reserve and finalize operations always tell the truth about the
\* reservation row, which is what a replayed call relies on.
THEOREM OperationsTellTruth == PointSpec => []OperationsAgree
BY AgreeInit, AgreeStep, PointTypeCorrect, PTL DEF PointSpec

\* Every committed call costs between one point and what was held for it.
THEOREM PriceIsFair == PointSpec => []FairPrice
BY AgreeInit, AgreeStep, PointTypeCorrect, PTL DEF PointSpec

\* A closed reserve operation never opens a hold and a finalized hold keeps
\* its outcome, however late or often calls arrive.
THEOREM ClosedIsFinal == PointSpec => ClosedForGood
<1>1. ASSUME PointTypeOK, OperationsAgree, [PointNext]_pointVars,
             NEW a \in Attempts, finalOp[a] = "succeeded"
      PROVE  hold'[a] = hold[a] /\ reserveOp'[a] = reserveOp[a]
  <2>0. reserveOp[a] # "none"
    BY <1>1 DEF OperationsAgree, Terminal
  <2>1. ASSUME NEW b \in Attempts, NEW mo \in Months, Reserve(b, mo)
        PROVE  hold'[a] = hold[a] /\ reserveOp'[a] = reserveOp[a]
    BY <1>1, <2>0, <2>1 DEF Reserve, Reservable, PointTypeOK
  <2>2. ASSUME NEW b \in Attempts, NEW outcome, NEW used, Finalize(b, outcome, used)
        PROVE  hold'[a] = hold[a] /\ reserveOp'[a] = reserveOp[a]
    <3>1. b # a /\ hold' = [hold EXCEPT ![b] = HoldRow(outcome, hold[b].month, used)]
          /\ reserveOp' = reserveOp
      BY <1>1, <2>2 DEF Finalize, Unfinalized
    <3>2. QED
      BY <1>1, <3>1 DEF PointTypeOK
  <2>3. ASSUME NEW b \in Attempts, CloseReserve(b)
        PROVE  hold'[a] = hold[a] /\ reserveOp'[a] = reserveOp[a]
    BY <1>1, <2>0, <2>3 DEF CloseReserve, PointTypeOK
  <2>4. QED
    BY <1>1, <2>1, <2>2, <2>3, AttemptSteps
       DEF AccountStep, Grant, IncurDebt, SetMonthlyLimit, NextMonth, pointVars
<1>2. PointTypeOK /\ OperationsAgree /\ [PointNext]_pointVars =>
        [\A a \in Attempts : finalOp[a] = "succeeded" =>
           hold'[a] = hold[a] /\ reserveOp'[a] = reserveOp[a]]_pointVars
  BY <1>1
<1> QED
  BY <1>2, PointTypeCorrect, OperationsTellTruth, PTL DEF PointSpec, ClosedForGood

-----------------------------------------------------------------------------
(* Bucket and monthly counters are the sums of the attempts they summarise *)

\* What the row of an attempt contributes to the points that are held, and to
\* those that its payer holds and has used in a month.
HeldBy(a, row) == IF row.state = "reserved" THEN HoldQuantity(a) ELSE 0

HeldFor(a, row, m, mo) == IF Payer[a] = m /\ row.month = mo THEN HeldBy(a, row) ELSE 0

UsedFor(a, row, m, mo) == IF Payer[a] = m /\ row.month = mo THEN row.used ELSE 0

\* The same as columns over all attempts.
HeldColumn == [a \in Attempts |-> HeldBy(a, hold[a])]

UsedColumn == [a \in Attempts |-> hold[a].used]

MonthHeld(m, mo) == [a \in Attempts |-> HeldFor(a, hold[a], m, mo)]

MonthUsed(m, mo) == [a \in Attempts |-> UsedFor(a, hold[a], m, mo)]

\* PointsBacked in terms of columns over a set that never changes.
ColumnsBacked ==
  /\ bucket.reserved = SumOf(HeldColumn, Attempts)
  /\ bucket.consumed = SumOf(UsedColumn, Attempts)
  /\ \A m \in Members, mo \in Months :
       /\ counter[<<m, mo>>].reserved = SumOf(MonthHeld(m, mo), Attempts)
       /\ counter[<<m, mo>>].consumed = SumOf(MonthUsed(m, mo), Attempts)

\* Only a committed attempt has used points.
OpenUnused == \A a \in Attempts : hold[a].state \in {"none", "reserved"} => hold[a].used = 0

\* The entries of the columns are amounts.
ColumnsTyped ==
  /\ \A a \in Attempts : HeldColumn[a] \in Nat /\ UsedColumn[a] \in Nat
  /\ \A a \in Attempts : \A m, mo : MonthHeld(m, mo)[a] \in Nat /\ MonthUsed(m, mo)[a] \in Nat

\* Rows of the right types make columns of amounts.
LEMMA ColumnTypes == PointTypeOK => IsFiniteSet(Attempts) /\ ColumnsTyped
<1> SUFFICES ASSUME PointTypeOK PROVE IsFiniteSet(Attempts) /\ ColumnsTyped
  OBVIOUS
<1>1. IsFiniteSet(Attempts)
  BY PointAssumption, FS_Union DEF Attempts
<1>2. \A a \in Attempts : HoldQuantity(a) \in Nat /\ hold[a].used \in Nat
  BY PointInputs, MaxIntAssumption, SMT DEF Quantities, PointTypeOK, HoldRows, Balances
<1> QED
  BY <1>1, <1>2 DEF ColumnsTyped, HeldBy, HeldFor, UsedFor, HeldColumn, UsedColumn, MonthHeld,
     MonthUsed

\* Leaving attempts out of a sum and counting them as zero is the same.
LEMMA BackedByColumns ==
  ASSUME PointTypeOK
  PROVE  PointsBacked <=> PointConservation /\ ColumnsBacked
<1> DEFINE price == [a \in Attempts |-> HoldQuantity(a)]
           Selected(m, mo) == {a \in Attempts : Payer[a] = m /\ hold[a].month = mo}
<1>1. PointsHeld(Open) = SumOf(HeldColumn, Attempts)
  <2>1. /\ Open \in SUBSET Attempts /\ \A x \in Open : price[x] = HeldColumn[x]
        /\ \A x \in Attempts \ Open : HeldColumn[x] = 0
    BY DEF Open, HeldColumn, HeldBy
  <2> HIDE DEF price
  <2>2. \A x \in Attempts : HeldColumn[x] \in Int
    BY ColumnTypes, SMT DEF ColumnsTyped
  <2>3. SumOf(price, Open) = SumOf(HeldColumn, Attempts)
    BY <2>1, <2>2, ColumnTypes, SumSelect, SMT
  <2>4. QED
    BY <2>3 DEF PointsHeld, price
<1>2. ASSUME NEW m \in Members, NEW mo \in Months
      PROVE  /\ PointsHeld(Selected(m, mo) \cap Open) = SumOf(MonthHeld(m, mo), Attempts)
             /\ PointsUsed(Selected(m, mo)) = SumOf(MonthUsed(m, mo), Attempts)
  <2> DEFINE S == Selected(m, mo)
             T == S \cap Open
             h == MonthHeld(m, mo)
             u == MonthUsed(m, mo)
  <2>1. /\ T \in SUBSET Attempts /\ \A x \in T : price[x] = h[x]
        /\ \A x \in Attempts \ T : h[x] = 0
    BY DEF Open, MonthHeld, HeldFor, HeldBy
  <2>2. /\ S \in SUBSET Attempts /\ \A x \in S : UsedColumn[x] = u[x]
        /\ \A x \in Attempts \ S : u[x] = 0
    BY DEF UsedColumn, MonthUsed, UsedFor
  <2>3. IsFiniteSet(Attempts) /\ \A x \in Attempts : h[x] \in Int /\ u[x] \in Int
    BY ColumnTypes, SMT DEF ColumnsTyped
  <2>4. PointsHeld(T) = SumOf(price, T) /\ PointsUsed(S) = SumOf(UsedColumn, S)
    BY DEF PointsHeld, PointsUsed, UsedColumn
  <2> HIDE DEF price, S, T, h, u
  <2>5. SumOf(price, T) = SumOf(h, Attempts)
    BY <2>1, <2>3, SumSelect, SMT
  <2>6. SumOf(UsedColumn, S) = SumOf(u, Attempts)
    BY <2>2, <2>3, SumSelect, SMT
  <2>7. PointsHeld(T) = SumOf(h, Attempts) /\ PointsUsed(S) = SumOf(u, Attempts)
    BY <2>4, <2>5, <2>6
  <2>8. QED
    BY <2>7 DEF S, T, h, u
<1>3. \A m \in Members, mo \in Months :
        counter[<<m, mo>>] = CounterRow(counter[<<m, mo>>].reserved, counter[<<m, mo>>].consumed)
  BY DEF PointTypeOK, CounterRows, CounterRow
<1>4. PointsUsed(Attempts) = SumOf(UsedColumn, Attempts)
  BY DEF PointsUsed, UsedColumn
<1>5. PointsBacked <=>
        /\ PointConservation
        /\ bucket.reserved = PointsHeld(Open) /\ bucket.consumed = PointsUsed(Attempts)
        /\ \A m \in Members, mo \in Months :
             counter[<<m, mo>>] = CounterRow(PointsHeld(Selected(m, mo) \cap Open),
                                             PointsUsed(Selected(m, mo)))
  BY DEF PointsBacked
<1> HIDE DEF Selected
<1>6. \A y, z : CounterRow(y, z).reserved = y /\ CounterRow(y, z).consumed = z
  BY DEF CounterRow
<1>7. ASSUME NEW m \in Members, NEW mo \in Months
      PROVE  counter[<<m, mo>>] = CounterRow(PointsHeld(Selected(m, mo) \cap Open),
                                             PointsUsed(Selected(m, mo)))
             <=> /\ counter[<<m, mo>>].reserved = SumOf(MonthHeld(m, mo), Attempts)
                 /\ counter[<<m, mo>>].consumed = SumOf(MonthUsed(m, mo), Attempts)
  <2> DEFINE held == PointsHeld(Selected(m, mo) \cap Open)
             used == PointsUsed(Selected(m, mo))
             x == counter[<<m, mo>>]
  <2>1. held = SumOf(MonthHeld(m, mo), Attempts) /\ used = SumOf(MonthUsed(m, mo), Attempts)
    BY <1>2
  <2>2. x = CounterRow(x.reserved, x.consumed)
    BY <1>3
  <2> HIDE DEF held, used, x
  <2>3. x = CounterRow(held, used) <=> x.reserved = held /\ x.consumed = used
    <3>1. ASSUME x = CounterRow(held, used) PROVE x.reserved = held /\ x.consumed = used
      BY <1>6, <3>1
    <3>2. ASSUME x.reserved = held, x.consumed = used PROVE x = CounterRow(held, used)
      BY <2>2, <3>2
    <3> QED
      BY <3>1, <3>2
  <2>4. QED
    BY <2>1, <2>3 DEF held, used, x
<1> QED
  BY <1>1, <1>4, <1>5, <1>7 DEF ColumnsBacked

\* The step writes the reservation row of attempt a and no other.
RowMoves(a, row) == hold' = [hold EXCEPT ![a] = row]

\* A step that writes one row moves every sum by what that row contributes.
LEMMA RowMove ==
  ASSUME PointTypeOK, PointTypeOK', NEW a \in Attempts, NEW row, RowMoves(a, row)
  PROVE  /\ SumOf(HeldColumn, Attempts)'
              = SumOf(HeldColumn, Attempts) - HeldBy(a, hold[a]) + HeldBy(a, row)
         /\ SumOf(UsedColumn, Attempts)' = SumOf(UsedColumn, Attempts) - hold[a].used + row.used
         /\ \A m \in Members, mo \in Months :
              /\ SumOf(MonthHeld(m, mo), Attempts)'
                   = SumOf(MonthHeld(m, mo), Attempts) - HeldFor(a, hold[a], m, mo)
                       + HeldFor(a, row, m, mo)
              /\ SumOf(MonthUsed(m, mo), Attempts)'
                   = SumOf(MonthUsed(m, mo), Attempts) - UsedFor(a, hold[a], m, mo)
                       + UsedFor(a, row, m, mo)
<1>1. hold'[a] = row /\ \A b \in Attempts \ {a} : hold'[b] = hold[b]
  BY DEF PointTypeOK, RowMoves
<1>t. IsFiniteSet(Attempts) /\ ColumnsTyped /\ ColumnsTyped'
  BY ColumnTypes, PTL
<1>2. /\ IsFiniteSet(Attempts)
      /\ \A b \in Attempts : /\ HeldColumn[b] \in Int /\ HeldColumn'[b] \in Int
                             /\ UsedColumn[b] \in Int /\ UsedColumn'[b] \in Int
  BY <1>t, SMT DEF ColumnsTyped
<1>3. \A b \in Attempts : \A m, mo :
        /\ MonthHeld(m, mo)[b] \in Int /\ MonthHeld(m, mo)'[b] \in Int
        /\ MonthUsed(m, mo)[b] \in Int /\ MonthUsed(m, mo)'[b] \in Int
  BY <1>t, SMT DEF ColumnsTyped
<1>4. SumOf(HeldColumn, Attempts)'
        = SumOf(HeldColumn, Attempts) - HeldBy(a, hold[a]) + HeldBy(a, row)
  <2> DEFINE f == HeldColumn
             g == HeldColumn'
  <2>1. /\ f[a] = HeldBy(a, hold[a]) /\ g[a] = HeldBy(a, row)
        /\ \A x \in Attempts \ {a} : f[x] = g[x]
    BY <1>1 DEF HeldColumn
  <2>2. \A x \in Attempts : f[x] \in Int /\ g[x] \in Int
    BY <1>2
  <2>3. SumOf(HeldColumn, Attempts)' = SumOf(g, Attempts)
    OBVIOUS
  <2> HIDE DEF f, g
  <2>4. SumOf(g, Attempts) = SumOf(f, Attempts) - f[a] + g[a]
    BY <1>2, <2>1, <2>2, SumUpdate, SMT
  <2>5. QED
    BY <2>1, <2>3, <2>4 DEF f
<1>5. SumOf(UsedColumn, Attempts)' = SumOf(UsedColumn, Attempts) - hold[a].used + row.used
  <2> DEFINE f == UsedColumn
             g == UsedColumn'
  <2>1. /\ f[a] = hold[a].used /\ g[a] = row.used
        /\ \A x \in Attempts \ {a} : f[x] = g[x]
    BY <1>1 DEF UsedColumn
  <2>2. \A x \in Attempts : f[x] \in Int /\ g[x] \in Int
    BY <1>2
  <2>3. SumOf(UsedColumn, Attempts)' = SumOf(g, Attempts)
    OBVIOUS
  <2> HIDE DEF f, g
  <2>4. SumOf(g, Attempts) = SumOf(f, Attempts) - f[a] + g[a]
    BY <1>2, <2>1, <2>2, SumUpdate, SMT
  <2>5. QED
    BY <2>1, <2>3, <2>4 DEF f
<1>6. ASSUME NEW m \in Members, NEW mo \in Months
      PROVE  SumOf(MonthHeld(m, mo), Attempts)'
               = SumOf(MonthHeld(m, mo), Attempts) - HeldFor(a, hold[a], m, mo)
                   + HeldFor(a, row, m, mo)
  <2> DEFINE f == MonthHeld(m, mo)
             g == MonthHeld(m, mo)'
  <2>1. /\ f[a] = HeldFor(a, hold[a], m, mo) /\ g[a] = HeldFor(a, row, m, mo)
        /\ \A x \in Attempts \ {a} : f[x] = g[x]
    BY <1>1 DEF MonthHeld
  <2>2. \A x \in Attempts : f[x] \in Int /\ g[x] \in Int
    BY <1>3
  <2>3. SumOf(MonthHeld(m, mo), Attempts)' = SumOf(g, Attempts)
    OBVIOUS
  <2> HIDE DEF f, g
  <2>4. SumOf(g, Attempts) = SumOf(f, Attempts) - f[a] + g[a]
    BY <1>2, <2>1, <2>2, SumUpdate, SMT
  <2>5. QED
    BY <2>1, <2>3, <2>4 DEF f
<1>7. ASSUME NEW m \in Members, NEW mo \in Months
      PROVE  SumOf(MonthUsed(m, mo), Attempts)'
               = SumOf(MonthUsed(m, mo), Attempts) - UsedFor(a, hold[a], m, mo)
                   + UsedFor(a, row, m, mo)
  <2> DEFINE f == MonthUsed(m, mo)
             g == MonthUsed(m, mo)'
  <2>1. /\ f[a] = UsedFor(a, hold[a], m, mo) /\ g[a] = UsedFor(a, row, m, mo)
        /\ \A x \in Attempts \ {a} : f[x] = g[x]
    BY <1>1 DEF MonthUsed
  <2>2. \A x \in Attempts : f[x] \in Int /\ g[x] \in Int
    BY <1>3
  <2>3. SumOf(MonthUsed(m, mo), Attempts)' = SumOf(g, Attempts)
    OBVIOUS
  <2> HIDE DEF f, g
  <2>4. SumOf(g, Attempts) = SumOf(f, Attempts) - f[a] + g[a]
    BY <1>2, <2>1, <2>2, SumUpdate, SMT
  <2>5. QED
    BY <2>1, <2>3, <2>4 DEF f
<1> QED
  BY <1>4, <1>5, <1>6, <1>7

\* The step moves the counter of x by what it holds and what it uses.
CounterMoves(x, held, used) ==
  counter' = [counter EXCEPT ![x] = CounterRow(counter[x].reserved + held, counter[x].consumed + used)]

\* A transaction that moves bucket, counter and reservation row of one attempt
\* by the same amounts keeps the books.
LEMMA AttemptBooks ==
  ASSUME PointTypeOK, PointTypeOK', ColumnsBacked, NEW a \in Attempts, NEW row, RowMoves(a, row),
         NEW mo \in Months, NEW held \in Int, NEW used \in Int,
         row.month = mo, hold[a].month = mo \/ (HeldBy(a, hold[a]) = 0 /\ hold[a].used = 0),
         HeldBy(a, row) = HeldBy(a, hold[a]) + held, row.used = hold[a].used + used,
         bucket'.reserved = bucket.reserved + held, bucket'.consumed = bucket.consumed + used,
         CounterMoves(<<Payer[a], mo>>, held, used)
  PROVE  ColumnsBacked'
<1>0. IsFiniteSet(Attempts) /\ ColumnsTyped
  BY ColumnTypes
<1>1. /\ SumOf(HeldColumn, Attempts) \in Int /\ SumOf(UsedColumn, Attempts) \in Int
      /\ \A m, n : SumOf(MonthHeld(m, n), Attempts) \in Int /\ SumOf(MonthUsed(m, n), Attempts) \in Int
  BY <1>0, SumInt, SMT DEF ColumnsTyped
<1>2. HeldBy(a, hold[a]) \in Int /\ hold[a].used \in Int /\ Payer[a] \in Members
  BY <1>0, PointInputs, SMT DEF ColumnsTyped, HeldColumn, UsedColumn
<1>3. /\ bucket'.reserved = SumOf(HeldColumn, Attempts)'
      /\ bucket'.consumed = SumOf(UsedColumn, Attempts)'
  <2>1. /\ SumOf(HeldColumn, Attempts)'
             = SumOf(HeldColumn, Attempts) - HeldBy(a, hold[a]) + HeldBy(a, row)
        /\ SumOf(UsedColumn, Attempts)' = SumOf(UsedColumn, Attempts) - hold[a].used + row.used
    BY RowMove
  <2>2. bucket.reserved = SumOf(HeldColumn, Attempts) /\ bucket.consumed = SumOf(UsedColumn, Attempts)
    BY DEF ColumnsBacked
  <2>3. QED
    BY <1>1, <1>2, <2>1, <2>2, SMTT(30)
<1>4. ASSUME NEW m \in Members, NEW n \in Months
      PROVE  /\ counter'[<<m, n>>].reserved = SumOf(MonthHeld(m, n), Attempts)'
             /\ counter'[<<m, n>>].consumed = SumOf(MonthUsed(m, n), Attempts)'
  <2>1. /\ SumOf(MonthHeld(m, n), Attempts)'
             = SumOf(MonthHeld(m, n), Attempts) - HeldFor(a, hold[a], m, n) + HeldFor(a, row, m, n)
        /\ SumOf(MonthUsed(m, n), Attempts)'
             = SumOf(MonthUsed(m, n), Attempts) - UsedFor(a, hold[a], m, n) + UsedFor(a, row, m, n)
    BY RowMove
  <2>2. /\ counter[<<m, n>>].reserved = SumOf(MonthHeld(m, n), Attempts)
        /\ counter[<<m, n>>].consumed = SumOf(MonthUsed(m, n), Attempts)
    BY DEF ColumnsBacked
  <2>3. CASE m = Payer[a] /\ n = mo
    <3>1. counter'[<<m, n>>] = CounterRow(counter[<<m, n>>].reserved + held,
                                          counter[<<m, n>>].consumed + used)
      BY <2>3 DEF PointTypeOK, CounterMoves
    <3>2. /\ counter'[<<m, n>>].reserved = counter[<<m, n>>].reserved + held
          /\ counter'[<<m, n>>].consumed = counter[<<m, n>>].consumed + used
      <4>1. \A y, z : CounterRow(y, z).reserved = y /\ CounterRow(y, z).consumed = z
        BY DEF CounterRow
      <4>2. PICK y, z : /\ y = counter[<<m, n>>].reserved + held
                        /\ z = counter[<<m, n>>].consumed + used
        OBVIOUS
      <4>3. counter'[<<m, n>>] = CounterRow(y, z)
        BY <3>1, <4>2
      <4>4. counter'[<<m, n>>].reserved = y /\ counter'[<<m, n>>].consumed = z
        <5>1. PICK c : c = counter'[<<m, n>>]
          OBVIOUS
        <5>2. c = CounterRow(y, z) /\ CounterRow(y, z).reserved = y /\ CounterRow(y, z).consumed = z
          BY <4>1, <4>3, <5>1
        <5>3. c.reserved = y /\ c.consumed = z
          BY <5>2
        <5> QED
          BY <5>1, <5>3
      <4> QED
        BY <4>2, <4>4
    <3>3. /\ HeldFor(a, row, m, n) = HeldFor(a, hold[a], m, n) + held
          /\ UsedFor(a, row, m, n) = UsedFor(a, hold[a], m, n) + used
          /\ HeldFor(a, hold[a], m, n) \in Int /\ UsedFor(a, hold[a], m, n) \in Int
      BY <1>2, <2>3 DEF HeldFor, UsedFor
    <3>4. QED
      BY <1>1, <2>1, <2>2, <3>2, <3>3, SMTT(30)
  <2>4. CASE ~(m = Payer[a] /\ n = mo)
    <3>1. counter'[<<m, n>>] = counter[<<m, n>>]
      BY <2>4 DEF PointTypeOK, CounterMoves
    <3>2. /\ HeldFor(a, row, m, n) = 0 /\ HeldFor(a, hold[a], m, n) = 0
          /\ UsedFor(a, row, m, n) = 0 /\ UsedFor(a, hold[a], m, n) = 0
      BY <2>4 DEF HeldFor, UsedFor
    <3>3. QED
      BY <1>1, <2>1, <2>2, <3>1, <3>2, SMTT(30)
  <2>5. QED
    BY <2>3, <2>4
<1> QED
  BY <1>3, <1>4 DEF ColumnsBacked

\* Every transaction keeps bucket and counters backed by the reservation rows.
LEMMA ColumnsStep ==
  PointTypeOK /\ PointTypeOK' /\ OperationsAgree /\ OpenUnused /\ ColumnsBacked
    /\ [PointNext]_pointVars => ColumnsBacked' /\ OpenUnused'
<1> SUFFICES ASSUME PointTypeOK, PointTypeOK', OperationsAgree, OpenUnused, ColumnsBacked,
                    [PointNext]_pointVars
             PROVE  ColumnsBacked' /\ OpenUnused'
  OBVIOUS
<1>0. /\ bucket.reserved \in Int /\ bucket.consumed \in Int
      /\ \A x \in Members \X Months : counter[x].reserved \in Int /\ counter[x].consumed \in Int
  BY SMT DEF PointTypeOK, BucketRows, CounterRows, Balances
<1>1. ASSUME UNCHANGED <<hold, counter>>, bucket'.reserved = bucket.reserved,
             bucket'.consumed = bucket.consumed
      PROVE  ColumnsBacked' /\ OpenUnused'
  BY <1>1 DEF ColumnsBacked, OpenUnused, HeldColumn, UsedColumn, MonthHeld, MonthUsed
<1>2. ASSUME NEW a \in Attempts, NEW mo \in Months, Reserve(a, mo)
      PROVE  ColumnsBacked' /\ OpenUnused'
  <2> DEFINE q == HoldQuantity(a)
             row == HoldRow("reserved", mo, 0)
             x == <<Payer[a], mo>>
  <2>1. hold[a].state = "none" /\ hold[a].used = 0
    BY <1>2 DEF Reserve, Reservable, OperationsAgree, OpenUnused
  <2>2. q \in Int /\ x \in Members \X Months
    BY PointInputs, SMT DEF Quantities
  <2>3. /\ row.month = mo /\ row.used = 0 /\ row.used = hold[a].used + 0
        /\ HeldBy(a, hold[a]) = 0 /\ HeldBy(a, row) = q
    BY <2>1, SMT DEF HoldRow, HeldBy
  <2>4. RowMoves(a, row)
    BY <1>2 DEF Reserve, RowMoves
  <2>5. bucket'.reserved = bucket.reserved + q /\ bucket'.consumed = bucket.consumed + 0
    BY <1>0, <1>2, SMTT(30) DEF Reserve, BucketRow
  <2>6. CounterMoves(x, q, 0)
    <3>1. counter[x].consumed + 0 = counter[x].consumed
      BY <1>0, <2>2, SMT
    <3>2. QED
      BY <1>2, <3>1 DEF Reserve, CounterMoves
  <2>7. OpenUnused'
    BY <2>3, <2>4 DEF OpenUnused, RowMoves, PointTypeOK
  <2> HIDE DEF q, row
  <2>8. HeldBy(a, row) = HeldBy(a, hold[a]) + q
    BY <2>2, <2>3, SMT
  <2>9. ColumnsBacked'
    BY <2>1, <2>2, <2>3, <2>4, <2>5, <2>6, <2>8, AttemptBooks, SMT
  <2>10. QED
    BY <2>7, <2>9
<1>3. ASSUME NEW a \in Attempts, NEW outcome, NEW used, Priced(a, outcome, used),
             Finalize(a, outcome, used)
      PROVE  ColumnsBacked' /\ OpenUnused'
  <2> DEFINE q == HoldQuantity(a)
             mo == hold[a].month
             row == HoldRow(outcome, mo, used)
             x == <<Payer[a], mo>>
  <2>1. hold[a].state = "reserved" /\ hold[a].used = 0 /\ outcome \in Terminal /\ mo \in Months
    BY <1>3 DEF Finalize, Unfinalized, OpenUnused, Priced, PointTypeOK, HoldRows
  <2>2. q \in Int /\ -q \in Int /\ used \in Int /\ x \in Members \X Months
    BY <1>3, <2>1, PointInputs, MaxIntAssumption, SMT DEF Quantities, Priced, Balances
  <2>3. /\ row.month = mo /\ row.used = used /\ row.state = outcome
        /\ HeldBy(a, hold[a]) = q /\ HeldBy(a, row) = 0
    BY <2>1 DEF HoldRow, HeldBy, Terminal
  <2>4. RowMoves(a, row)
    BY <1>3 DEF Finalize, RowMoves
  <2>5. bucket'.reserved = bucket.reserved + (-q) /\ bucket'.consumed = bucket.consumed + used
    BY <1>0, <1>3, <2>2 DEF Finalize, BucketRow
  <2>6. CounterMoves(x, -q, used)
    <3>1. counter[x].reserved - q = counter[x].reserved + (-q)
      BY <1>0, <2>2
    <3>2. QED
      BY <1>3, <3>1 DEF Finalize, CounterMoves, HoldMonth
  <2>7. OpenUnused'
    BY <2>1, <2>3, <2>4 DEF OpenUnused, RowMoves, PointTypeOK, Terminal
  <2> HIDE DEF q, row
  <2>8. HeldBy(a, row) = HeldBy(a, hold[a]) + (-q) /\ row.used = hold[a].used + used
    BY <2>1, <2>2, <2>3, SMT
  <2>9. ColumnsBacked'
    BY <2>1, <2>2, <2>3, <2>4, <2>5, <2>6, <2>8, AttemptBooks
  <2>10. QED
    BY <2>7, <2>9
<1>4. ASSUME NEW o \in GrantOps, NEW s \in Sources, Grant(o, s)
      PROVE  ColumnsBacked' /\ OpenUnused'
  BY <1>1, <1>4 DEF Grant, BucketRow
<1>5. ASSUME UNCHANGED <<hold, counter, bucket>> PROVE ColumnsBacked' /\ OpenUnused'
  BY <1>1, <1>5
<1> QED
  BY <1>2, <1>3, <1>4, <1>5, AttemptSteps
     DEF AccountStep, IncurDebt, SetMonthlyLimit, NextMonth, CloseReserve, pointVars

\* Bucket and monthly counters always agree with the reservation rows.
THEOREM PointBooksBalance == PointSpec => []PointsBacked
<1>1. PointInit => ColumnsBacked /\ OpenUnused
  <2> SUFFICES ASSUME PointInit PROVE ColumnsBacked /\ OpenUnused
    OBVIOUS
  <2>1. \A a \in Attempts : hold[a].state = "none" /\ hold[a].used = 0
    BY DEF PointInit, HoldRow
  <2>2. /\ \A a \in Attempts : HeldColumn[a] = 0 /\ UsedColumn[a] = 0
        /\ \A m, mo : \A a \in Attempts : MonthHeld(m, mo)[a] = 0 /\ MonthUsed(m, mo)[a] = 0
    BY <2>1 DEF HeldColumn, UsedColumn, MonthHeld, MonthUsed, HeldBy, HeldFor, UsedFor
  <2>3. IsFiniteSet(Attempts)
    BY PointTypeInit, ColumnTypes
  <2>4. /\ SumOf(HeldColumn, Attempts) = 0 /\ SumOf(UsedColumn, Attempts) = 0
        /\ \A m, mo : SumOf(MonthHeld(m, mo), Attempts) = 0 /\ SumOf(MonthUsed(m, mo), Attempts) = 0
    BY <2>2, <2>3, SumZero
  <2>5. ColumnsBacked
    BY <2>4 DEF PointInit, ColumnsBacked, BucketRow, CounterRow
  <2>6. QED
    BY <2>1, <2>5 DEF OpenUnused
<1>2. PointTypeOK /\ PointConservation /\ ColumnsBacked => PointsBacked
  BY BackedByColumns
<1> QED
  BY <1>1, <1>2, ColumnsStep, PointTypeCorrect, OperationsTellTruth, PointsConserved, PTL DEF PointSpec

\* Debt is only ever repaid, so none is owed that was not recorded.
DebtRecorded == debt <= incurred

\* Grants and finalizations repay debt; only the record of a new one raises it.
LEMMA DebtStep == PointTypeOK /\ DebtRecorded /\ [PointNext]_pointVars => DebtRecorded'
<1> SUFFICES ASSUME PointTypeOK, DebtRecorded, [PointNext]_pointVars PROVE DebtRecorded'
  OBVIOUS
<1>0. debt \in Nat /\ incurred \in Nat
  BY DEF PointTypeOK
<1>1. ASSUME UNCHANGED <<debt, incurred>> PROVE DebtRecorded'
  BY <1>1 DEF DebtRecorded
<1>2. ASSUME NEW q \in Nat, debt' = debt - DebtRepaid(q, debt), incurred' = incurred
      PROVE  DebtRecorded'
  BY <1>0, <1>2, SMT DEF DebtRecorded, DebtRepaid
<1>3. ASSUME NEW d \in 1..MaxIncurred, IncurDebt(d) PROVE DebtRecorded'
  BY <1>0, <1>3, PointAssumption, SMT DEF DebtRecorded, IncurDebt
<1>4. ASSUME NEW o \in GrantOps, NEW s \in Sources, Grant(o, s) PROVE DebtRecorded'
  BY <1>2, <1>4, PointInputs, SMTT(30) DEF Grant, Quantities
<1>5. ASSUME NEW a \in Attempts, NEW outcome, NEW used, Priced(a, outcome, used),
             Finalize(a, outcome, used)
      PROVE  DebtRecorded'
  <2>1. HoldQuantity(a) - used \in Nat
    <3>1. used <= HoldQuantity(a) /\ used \in Balances /\ HoldQuantity(a) \in Balances
      BY <1>5, PointInputs, QuantitiesAreBalances DEF Finalize, Priced
    <3> QED
      BY <3>1, MaxIntAssumption, SMT DEF Balances
  <2>2. QED
    BY <1>2, <1>5, <2>1 DEF Finalize
<1> QED
  BY <1>1, <1>3, <1>4, <1>5, AttemptSteps
     DEF AccountStep, Reserve, SetMonthlyLimit, NextMonth, CloseReserve, pointVars

\* Books that balance leave room to finalize an open hold with any outcome.
LEMMA BooksFinalize == PointTypeOK /\ ColumnsBacked /\ PointConservation /\ DebtRecorded => Finalizable
<1> SUFFICES ASSUME PointTypeOK, ColumnsBacked, PointConservation, DebtRecorded,
                    NEW a \in Open, granted <= MaxInt
             PROVE  LET x == counter[<<Payer[a], hold[a].month>>]
                        q == HoldQuantity(a)
                    IN  /\ x.reserved >= q /\ bucket.reserved >= q
                        /\ x.consumed <= MaxInt - q /\ bucket.consumed <= MaxInt - q
                        /\ CreditFits(bucket.available, q, debt)
                        /\ a \in Models => \A u \in Usage(a) : Points(u[1], u[2]) <= q
  BY DEF Finalizable
<1> DEFINE m == Payer[a]
           mo == hold[a].month
           x == counter[<<m, mo>>]
           q == HoldQuantity(a)
<1>1. a \in Attempts /\ hold[a].state = "reserved"
  BY DEF Open
<1>2. /\ m \in Members /\ mo \in Months /\ q \in Balances /\ q \in Nat
      /\ bucket.available \in Balances /\ bucket.available \in Nat
      /\ bucket.reserved \in Nat /\ bucket.consumed \in Nat
      /\ debt \in Nat /\ incurred \in Nat /\ granted \in Nat
  <2>1. /\ bucket \in BucketRows /\ hold[a] \in HoldRows
        /\ debt \in Nat /\ incurred \in Nat /\ granted \in Nat
    BY <1>1 DEF PointTypeOK
  <2>2. \A k \in Balances : k \in Nat
    BY MaxIntAssumption, SMT DEF Balances
  <2>3. /\ bucket.available \in Balances /\ bucket.reserved \in Balances
        /\ bucket.consumed \in Balances
    BY <2>1 DEF BucketRows
  <2>4. m \in Members /\ q \in Balances /\ mo \in Months
    BY <1>1, <2>1, PointInputs, QuantitiesAreBalances DEF HoldRows
  <2> QED
    BY <2>1, <2>2, <2>3, <2>4
<1>3. IsFiniteSet(Attempts) /\ ColumnsTyped
  BY ColumnTypes
<1>4. HeldColumn[a] = q /\ MonthHeld(m, mo)[a] = q
  BY <1>1 DEF HeldColumn, MonthHeld, HeldFor, HeldBy
<1>5. q <= SumOf(HeldColumn, Attempts)
  BY <1>1, <1>3, <1>4, SumElement DEF ColumnsTyped
<1>6. q <= SumOf(MonthHeld(m, mo), Attempts)
  <2> DEFINE f == MonthHeld(m, mo)
  <2>1. f[a] = q /\ \A b \in Attempts : f[b] \in Nat
    BY <1>3, <1>4 DEF ColumnsTyped
  <2> HIDE DEF f, q
  <2>2. q <= SumOf(f, Attempts)
    BY <1>1, <1>3, <2>1, SumElement
  <2>3. QED
    BY <2>2 DEF f
<1>7. SumOf(MonthUsed(m, mo), Attempts) <= SumOf(UsedColumn, Attempts)
  <2> DEFINE T == {b \in Attempts : Payer[b] = m /\ hold[b].month = mo}
             f == MonthUsed(m, mo)
  <2>1. /\ T \in SUBSET Attempts /\ \A b \in T : UsedColumn[b] = f[b]
        /\ \A b \in Attempts \ T : f[b] = 0
    BY DEF UsedColumn, MonthUsed, UsedFor
  <2>2. \A b \in Attempts : f[b] \in Int /\ UsedColumn[b] \in Nat
    BY <1>3, SMTT(30) DEF ColumnsTyped
  <2> HIDE DEF T, f
  <2>3. SumOf(UsedColumn, T) = SumOf(f, Attempts)
    BY <1>3, <2>1, <2>2, SumSelect, SMT
  <2>4. SumOf(UsedColumn, T) <= SumOf(UsedColumn, Attempts)
    BY <1>3, <2>1, <2>2, SumPart
  <2>5. QED
    BY <2>3, <2>4 DEF f
<1>8. /\ bucket.reserved = SumOf(HeldColumn, Attempts) /\ bucket.consumed = SumOf(UsedColumn, Attempts)
      /\ x.reserved = SumOf(MonthHeld(m, mo), Attempts) /\ x.consumed = SumOf(MonthUsed(m, mo), Attempts)
  BY <1>2 DEF ColumnsBacked
<1>9. x.reserved \in Nat /\ x.consumed \in Nat
  BY <1>2, MaxIntAssumption, SMT DEF PointTypeOK, CounterRows, Balances
<1> HIDE DEF x, q, m, mo
<1>10. bucket.available + bucket.reserved + bucket.consumed <= MaxInt
  BY <1>2, MaxIntAssumption, SMT DEF PointConservation, DebtRecorded
<1>11. bucket.reserved >= q /\ x.reserved >= q /\ x.consumed <= bucket.consumed
  BY <1>5, <1>6, <1>7, <1>8
<1>12. /\ bucket.available + q <= MaxInt /\ bucket.consumed <= MaxInt - q
       /\ x.consumed <= MaxInt - q
  BY <1>2, <1>9, <1>10, <1>11, MaxIntAssumption, SMT
<1>13. CreditFits(bucket.available, q, debt)
  BY <1>2, <1>12, CreditRoom
<1>14. ASSUME a \in Models PROVE \A u \in Usage(a) : Points(u[1], u[2]) <= q
  <2>1. MaxTokens[a].prompt \in Nat /\ MaxTokens[a].completion \in Nat
    BY <1>14, PointAssumption
  <2>2. QED
    BY <1>14, <2>1, TariffBounds, SMT DEF Usage, HoldQuantity, q
<1> QED
  BY <1>11, <1>12, <1>13, <1>14 DEF x, q, m, mo

\* An open hold can always be finalized, with any usage within its limits,
\* while int64 holds all that was granted.
THEOREM AlwaysFinalizable == PointSpec => []Finalizable
<1>1. PointInit => DebtRecorded
  BY SMT DEF PointInit, DebtRecorded
<1>2. PointTypeOK /\ PointsBacked => ColumnsBacked
  BY BackedByColumns
<1> QED
  BY <1>1, <1>2, DebtStep, BooksFinalize, PointTypeCorrect, PointBooksBalance, PointsConserved, PTL
     DEF PointSpec

=============================================================================
