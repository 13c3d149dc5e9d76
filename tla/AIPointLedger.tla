--------------------------- MODULE AIPointLedger ---------------------------
(***************************************************************************)
(* The AI point bucket of one organization: grants credit it, an            *)
(* administrator sets each member's monthly limit, and every model call and *)
(* every image generation holds its maximal price before it is sent to the  *)
(* provider and is finalized from what its owner recorded                    *)
(* (GormMemberLimitRepository, GormModelInvocationRepository and             *)
(* GormImageGenerationRepository).                                           *)
(*                                                                          *)
(* Every operation is one SERIALIZABLE transaction and one action; a call    *)
(* that is refused, replayed or in conflict rolls back and is a stuttering   *)
(* step.  Callers are unconstrained: any call may arrive at any time, any    *)
(* number of times.  What the facts they carry can really say is the matter  *)
(* of ModelInvocation and ImageGeneration.                                   *)
(***************************************************************************)
EXTENDS ResourceCredit, ModelPointTariff, RowSums

CONSTANTS
  Members,        \* members of the organization
  Models,         \* identities of model calls
  Images,         \* identities of image generations
  Payer,          \* the member each of them is charged to
  MaxTokens,      \* the token limits of each model call
  ImagePoints,    \* the price of each image generation
  GrantOps,       \* operation ids of grants
  Sources,        \* source identities: paid order items and the trial
  GrantQuantity,  \* points granted by each source
  LimitOps,       \* operation ids of limit changes
  LimitCommands,  \* limit changes an administrator may send
  MaxMonth,       \* bound on the months that pass
  MaxIncurred     \* bound on the debt that is ever recorded

Attempts == Models \cup Images

Months == 0..MaxMonth

ASSUME PointAssumption ==
  /\ Models \cap Images = {}
  /\ IsFiniteSet(Models) /\ IsFiniteSet(Images)
  /\ Payer \in [Attempts -> Members]
  /\ MaxTokens \in [Models -> [prompt: Nat \ {0}, completion: Nat \ {0}]]
  /\ \A a \in Models : Points(MaxTokens[a].prompt, MaxTokens[a].completion) \in Quantities
  /\ ImagePoints \in [Images -> Quantities]
  /\ GrantQuantity \in [Sources -> Quantities]
  /\ LimitCommands \subseteq [member: Members, target: Balances, expectedVersion: Nat]
  /\ MaxMonth \in Nat /\ MaxIncurred \in Nat

VARIABLES
  bucket,       \* the locked bucket row
  debt,         \* the amount of the debt row
  limit,        \* each member's limit row; version 0 when there is none
  counter,      \* each member's usage row of each month
  hold,         \* each attempt's reservation row
  reserveOp,    \* the state of each attempt's reserve operation
  finalOp,      \* the state of each attempt's finalize operation
  grantOp,      \* the state of each grant operation
  sourceClaim,  \* the sources that have been claimed
  limitOp,      \* the state of each limit operation
  month,        \* the current UTC month
  granted,      \* history: the points ever granted
  incurred      \* history: the debt ever recorded

pointVars == <<bucket, debt, limit, counter, hold, reserveOp, finalOp, grantOp,
               sourceClaim, limitOp, month, granted, incurred>>

BucketRows == [available: Balances, reserved: Balances, consumed: Balances]

CounterRows == [reserved: Balances, consumed: Balances]

LimitRows == [monthly: Balances, version: Balances]

HoldRows == [state: {"none", "reserved", "committed", "released"},
             month: Months, used: Balances]

OpStates == {"none", "succeeded", "failed"}

Terminal == {"committed", "released"}

\* A tuple of rows that the tables can hold, and nothing else.
PointTypeOK ==
  /\ bucket \in BucketRows
  /\ debt \in Nat
  /\ limit \in [Members -> LimitRows]
  /\ counter \in [Members \X Months -> CounterRows]
  /\ hold \in [Attempts -> HoldRows]
  /\ reserveOp \in [Attempts -> OpStates]
  /\ finalOp \in [Attempts -> OpStates]
  /\ grantOp \in [GrantOps -> OpStates]
  /\ sourceClaim \in SUBSET Sources
  /\ limitOp \in [LimitOps -> OpStates]
  /\ month \in Months
  /\ granted \in Nat
  /\ incurred \in Nat

\* The bucket columns as saveImageBucket and updateConsumerBucket write them.
BucketRow(available, reserved, consumed) ==
  [available |-> available, reserved |-> reserved, consumed |-> consumed]

CounterRow(reserved, consumed) == [reserved |-> reserved, consumed |-> consumed]

HoldRow(state, mo, used) == [state |-> state, month |-> mo, used |-> used]

PointInit ==
  /\ bucket = BucketRow(0, 0, 0)
  /\ debt = 0
  /\ limit = [m \in Members |-> [monthly |-> 0, version |-> 0]]
  /\ counter = [x \in Members \X Months |-> CounterRow(0, 0)]
  /\ hold = [a \in Attempts |-> HoldRow("none", 0, 0)]
  /\ reserveOp = [a \in Attempts |-> "none"]
  /\ finalOp = [a \in Attempts |-> "none"]
  /\ grantOp = [o \in GrantOps |-> "none"]
  /\ sourceClaim = {}
  /\ limitOp = [t \in LimitOps |-> "none"]
  /\ month = 0
  /\ granted = 0
  /\ incurred = 0

-----------------------------------------------------------------------------
(* Grants, debt and limits *)

\* ExecuteTrialAIGrant and ExecutePurchasedResourceGrant: a known operation or
\* a claimed source mints nothing.
Grant(o, s) ==
  LET q == GrantQuantity[s] IN
  /\ grantOp[o] = "none" /\ s \notin sourceClaim
  /\ CreditFits(bucket.available, q, debt)
  /\ bucket' = BucketRow(CreditedBalance(bucket.available, q, debt),
                         bucket.reserved, bucket.consumed)
  /\ debt' = debt - DebtRepaid(q, debt)
  /\ grantOp' = [grantOp EXCEPT ![o] = "succeeded"]
  /\ sourceClaim' = sourceClaim \cup {s}
  /\ granted' = granted + q
  /\ UNCHANGED <<limit, counter, hold, reserveOp, finalOp, limitOp, month, incurred>>

\* External: nothing under src/ records a debt.
IncurDebt(d) ==
  /\ incurred + d <= MaxIncurred
  /\ debt' = debt + d
  /\ incurred' = incurred + d
  /\ UNCHANGED <<bucket, limit, counter, hold, reserveOp, finalOp, grantOp,
                 sourceClaim, limitOp, month, granted>>

\* A new UTC month begins (AIPointMonthStart of the clock).
NextMonth ==
  /\ month < MaxMonth
  /\ month' = month + 1
  /\ UNCHANGED <<bucket, debt, limit, counter, hold, reserveOp, finalOp, grantOp,
                 sourceClaim, limitOp, granted, incurred>>

\* Mutant: open holds are not counted.
FitsLimitUnheld(count, monthly, q) == count.consumed + q <= monthly

\* What a month has consumed and holds, and q more, fit under the limit.
FitsLimit(count, monthly, q) == count.consumed + count.reserved + q <= monthly

\* SetMonthlyLimit: at the version the administrator read, and never below
\* what the current month has consumed and holds.
SetMonthlyLimit(t, cmd) ==
  LET m == cmd.member IN
  /\ limitOp[t] = "none"
  /\ limit[m].version = cmd.expectedVersion
  /\ limit[m].version # MaxInt
  /\ FitsLimit(counter[<<m, month>>], cmd.target, 0)
  /\ limit' = [limit EXCEPT ![m] =
       [monthly |-> cmd.target, version |-> cmd.expectedVersion + 1]]
  /\ limitOp' = [limitOp EXCEPT ![t] = "succeeded"]
  /\ UNCHANGED <<bucket, debt, counter, hold, reserveOp, finalOp, grantOp,
                 sourceClaim, month, granted, incurred>>

-----------------------------------------------------------------------------
(* Reservation *)

\* The price that is held for an attempt.
HoldQuantity(a) ==
  IF a \in Models THEN Points(MaxTokens[a].prompt, MaxTokens[a].completion)
  ELSE ImagePoints[a]

\* Mutant: an operation that finalize has closed is not recognised.
ReservableUnfenced(a) == hold[a].state = "none"

\* lockFixedResourceOperation returns a fresh reserve operation.
Reservable(a) == reserveOp[a] = "none"

\* The month of the intent is still the current one.
CurrentMonth(mo) == mo = month

\* The part that ReserveAIInvocationUsage and ReserveImageGeneration share,
\* for an intent of month mo.
Reserve(a, mo) ==
  LET m == Payer[a]
      q == HoldQuantity(a) IN
  /\ Reservable(a)
  /\ CurrentMonth(mo)
  /\ limit[m].version > 0
  /\ FitsLimit(counter[<<m, mo>>], limit[m].monthly, q)
  /\ bucket.available >= q
  /\ bucket.reserved <= MaxInt - q
  /\ hold' = [hold EXCEPT ![a] = HoldRow("reserved", mo, 0)]
  /\ counter' = [counter EXCEPT ![<<m, mo>>] =
       CounterRow(counter[<<m, mo>>].reserved + q, counter[<<m, mo>>].consumed)]
  /\ bucket' = BucketRow(bucket.available - q, bucket.reserved + q, bucket.consumed)
  /\ reserveOp' = [reserveOp EXCEPT ![a] = "succeeded"]
  /\ UNCHANGED <<debt, limit, finalOp, grantOp, sourceClaim, limitOp, month,
                 granted, incurred>>

\* The fact says that the call was claimed in month mo and not yet answered.
ReserveAIInvocationUsage(a, mo) == a \in Models /\ Reserve(a, mo)

\* The fact is prepared; its intent froze month and limit version.
ReserveImageGeneration(a, mo, version) ==
  /\ a \in Images
  /\ limit[Payer[a]].version = version
  /\ Reserve(a, mo)

-----------------------------------------------------------------------------
(* Finalization *)

\* Mutant: the month of the clock is settled, not the month of the hold.
HoldMonthNow(a) == month

\* The counter that was charged when the attempt was reserved.
HoldMonth(a) == hold[a].month

\* A fresh finalize operation meets an open reservation.
Unfinalized(a) ==
  finalOp[a] = "none" /\ reserveOp[a] = "succeeded" /\ hold[a].state = "reserved"

\* What both finalizers do with an open reservation: used points are consumed
\* and the rest is credited back, debt first.
Finalize(a, outcome, used) ==
  LET m == Payer[a]
      q == HoldQuantity(a)
      x == <<m, HoldMonth(a)>> IN
  /\ Unfinalized(a)
  /\ used <= q
  /\ counter[x].reserved >= q /\ bucket.reserved >= q
  /\ counter[x].consumed <= MaxInt - used /\ bucket.consumed <= MaxInt - used
  /\ CreditFits(bucket.available, q - used, debt)
  /\ counter' = [counter EXCEPT ![x] =
       CounterRow(counter[x].reserved - q, counter[x].consumed + used)]
  /\ bucket' = BucketRow(CreditedBalance(bucket.available, q - used, debt),
                         bucket.reserved - q, bucket.consumed + used)
  /\ debt' = debt - DebtRepaid(q - used, debt)
  /\ hold' = [hold EXCEPT ![a] = HoldRow(outcome, hold[a].month, used)]
  /\ finalOp' = [finalOp EXCEPT ![a] = "succeeded"]
  /\ UNCHANGED <<limit, reserveOp, grantOp, sourceClaim, limitOp, month, granted, incurred>>

\* The attempt has certainly no effect and nothing was ever reserved: its
\* reserve operation is closed so that a late call cannot open a hold.
CloseReserve(a) ==
  /\ finalOp[a] = "none"
  /\ reserveOp[a] = "none"
  /\ reserveOp' = [reserveOp EXCEPT ![a] = "failed"]
  /\ finalOp' = [finalOp EXCEPT ![a] = "succeeded"]
  /\ UNCHANGED <<bucket, debt, limit, counter, hold, grantOp, sourceClaim, limitOp,
                 month, granted, incurred>>

\* GormModelInvocationRepository.finalize with the usage of the native fact.
CommitModel(a, usage) ==
  /\ a \in Models
  /\ Finalize(a, "committed", Points(usage[1], usage[2]))

\* FinalizeImageGeneration of a fact that is provider_succeeded.
CommitImage(a) == a \in Images /\ Finalize(a, "committed", HoldQuantity(a))

\* Either finalizer with a proof that the provider did nothing.
Release(a) == Finalize(a, "released", 0) \/ CloseReserve(a)

-----------------------------------------------------------------------------
Usage(a) == UsageWithin(MaxTokens[a].prompt, MaxTokens[a].completion)

AccountStep ==
  \/ \E o \in GrantOps, s \in Sources : Grant(o, s)
  \/ \E d \in 1..MaxIncurred : IncurDebt(d)
  \/ \E t \in LimitOps, cmd \in LimitCommands : SetMonthlyLimit(t, cmd)
  \/ NextMonth

PointNext ==
  \/ AccountStep
  \/ \E a \in Models, mo \in Months : ReserveAIInvocationUsage(a, mo)
  \/ \E a \in Images, mo \in Months, version \in Quantities :
       ReserveImageGeneration(a, mo, version)
  \/ \E a \in Models : \E usage \in Usage(a) : CommitModel(a, usage)
  \/ \E a \in Images : CommitImage(a)
  \/ \E a \in Attempts : Release(a)

PointSpec == PointInit /\ [][PointNext]_pointVars

-----------------------------------------------------------------------------
(* Properties *)

PointsHeld(S) == SumOf([a \in Attempts |-> HoldQuantity(a)], S)

PointsUsed(S) == SumOf([a \in Attempts |-> hold[a].used], S)

Open == {a \in Attempts : hold[a].state = "reserved"}

\* Points are neither made nor lost: what was granted is available, held or
\* consumed, or has repaid debt.
PointConservation ==
  bucket.available + bucket.reserved + bucket.consumed + (incurred - debt) = granted

\* The current month never consumes and holds more than the member's limit,
\* however limit changes, reservations of both kinds, finalizations and the
\* turn of the month interleave.
WithinLimit ==
  \A m \in Members : limit[m].version > 0 =>
    counter[<<m, month>>].consumed + counter[<<m, month>>].reserved <= limit[m].monthly

\* Points are conserved, and bucket and every month of every member hold and
\* have consumed exactly what the reservations of that month say, so the
\* inconsistency errors of both finalizers are unreachable, also across the
\* turn of a month and where a balance would wrap in int64.
PointsBacked ==
  /\ PointConservation
  /\ bucket.reserved = PointsHeld(Open)
  /\ bucket.consumed = PointsUsed(Attempts)
  /\ \A m \in Members, mo \in Months :
       LET S == {a \in Attempts : Payer[a] = m /\ hold[a].month = mo} IN
       counter[<<m, mo>>] = CounterRow(PointsHeld(S \cap Open), PointsUsed(S))

\* The operation rows agree with the reservation row, and a closed reserve
\* operation has none: nothing but a finalize can follow an open hold.
OperationsAgree ==
  \A a \in Attempts :
    /\ reserveOp[a] = "succeeded" <=> hold[a].state # "none"
    /\ finalOp[a] = "succeeded" <=> (hold[a].state \in Terminal \/ reserveOp[a] = "failed")

\* A model call that used tokens costs at least one point and never more than
\* was held for it; an image costs its price or nothing.
FairPrice ==
  \A a \in Attempts : hold[a].state = "committed" =>
    IF a \in Models THEN hold[a].used \in 1..HoldQuantity(a)
    ELSE hold[a].used = HoldQuantity(a)

\* An open hold can be released, and committed with any usage within its token
\* limits, as long as int64 holds all that was granted.
Finalizable ==
  \A a \in Open : granted <= MaxInt =>
    LET x == counter[<<Payer[a], hold[a].month>>]
        q == HoldQuantity(a) IN
    /\ x.reserved >= q /\ bucket.reserved >= q
    /\ x.consumed <= MaxInt - q /\ bucket.consumed <= MaxInt - q
    /\ CreditFits(bucket.available, q, debt)
    /\ a \in Models => \A u \in Usage(a) : Points(u[1], u[2]) <= q

\* A reserve operation that a finalizer closed never opens a hold, however
\* late its call arrives, and a finalized hold keeps outcome and usage.
ClosedForGood ==
  [][\A a \in Attempts :
       finalOp[a] = "succeeded" => hold'[a] = hold[a] /\ reserveOp'[a] = reserveOp[a]]_pointVars

\* A month that is over takes no new charge: a finalization of an old hold
\* only lowers what it holds and never touches another month.
PastMonthsOnlySettle ==
  [][\A m \in Members : \A mo \in 0..(month - 1) :
       /\ counter'[<<m, mo>>].reserved <= counter[<<m, mo>>].reserved
       /\ counter'[<<m, mo>>].reserved + counter'[<<m, mo>>].consumed
            <= counter[<<m, mo>>].reserved + counter[<<m, mo>>].consumed]_pointVars

=============================================================================
