-------------------------- MODULE PaidEffectProofs --------------------------
(***************************************************************************)
(* Text model calls and image generations, the two paid effects on the     *)
(* point ledger, take no step that the ledger does not allow, are billed   *)
(* once, settled as their rows say, and keep the contract of a paid effect *)
(* (PaidEffect): for every set of calls and images, every tariff, limit    *)
(* and batch limit, any number of months, of overlapping attempts, lost    *)
(* answers and dead processes.                                             *)
(***************************************************************************)
EXTENDS ModelInvocation, ImageGeneration, AIPointLedgerProofs

\* The leaves are first-order; one that needs arithmetic names the SMT solver.
USE Zenon

-----------------------------------------------------------------------------
(* Text model calls: the inductive invariant *)

Stages == {"idle", "reserve", "send", "await", "refuse", "settle"}

CallRows == [outcome: {"none", "dispatched", "failed", "observed"},
          month: Months, usage: Nat \X Nat]

\* One row, one request, one wire and one provider per call.
CallTyped ==
  /\ call \in [Models -> CallRows]
  /\ stage \in [Models -> Stages]
  /\ sends \in [Models -> Nat]
  /\ answer \in [Models -> Nat \X Nat]

\* A request moves forward only while its row is dispatched, and the row tells
\* the truth: nothing was sent if it says failed, and it repeats the answer of
\* the provider if it says observed.
CallOrdered(a) ==
  /\ call[a].outcome = "none" => stage[a] = "idle" /\ sends[a] = 0
  /\ stage[a] \in {"reserve", "send", "refuse"} => call[a].outcome = "dispatched" /\ sends[a] = 0
  /\ stage[a] = "await" => call[a].outcome = "dispatched"
  /\ sends[a] <= 1
  /\ answer[a] # NoUsage => sends[a] = 1 /\ answer[a] \in Usage(a)
  /\ call[a].outcome = "failed" => sends[a] = 0
  /\ call[a].outcome = "observed" => answer[a] # NoUsage /\ call[a].usage = answer[a]

\* The ledger follows the row: a call is on the wire only with a reservation,
\* and the reservation is closed only by the outcome that the row records.
CallFollowed(a) ==
  /\ stage[a] = "send" \/ sends[a] > 0 => reserveOp[a] = "succeeded"
  /\ hold[a].state = "committed" =>
       call[a].outcome = "observed" /\ hold[a].used = Points(answer[a][1], answer[a][2])
  /\ hold[a].state = "released" \/ reserveOp[a] = "failed" => call[a].outcome = "failed"

\* The inductive invariant behind all that follows.
CallInv == CallTyped /\ \A a \in Models : CallOrdered(a) /\ CallFollowed(a)

\* A call whose rows a step leaves alone.
SameCall(a) ==
  /\ call'[a] = call[a] /\ stage'[a] = stage[a] /\ sends'[a] = sends[a] /\ answer'[a] = answer[a]
  /\ hold'[a] = hold[a] /\ reserveOp'[a] = reserveOp[a]

LEMMA SameCallKeeps ==
  ASSUME NEW a \in Models, CallOrdered(a), CallFollowed(a), SameCall(a)
  PROVE  CallOrdered(a)' /\ CallFollowed(a)'
BY DEF CallOrdered, CallFollowed, SameCall, Usage, UsageWithin

\* What a finalize step can be: the ledger settles the call as its row says,
\* or nothing happens.
LEMMA FinalizeCases ==
  ASSUME PointTypeOK, CallInv, NEW a \in Models, FinalizeOnce(a)
  PROVE  \/ call[a].outcome = "failed" /\ Release(a)
         \/ call[a].outcome = "observed" /\ answer[a] \in Usage(a) /\ CommitModel(a, answer[a])
         \/ UNCHANGED pointVars
BY DEF FinalizeOnce, TerminalFact, CallInv, CallOrdered

\* What a step does to the rows of the ledger is an operation of the ledger.
LEMMA InvocationSteps ==
  PointTypeOK /\ CallInv /\ [InvocationNext]_invocationVars => [PointNext]_pointVars
<1> SUFFICES ASSUME PointTypeOK, CallInv, [InvocationNext]_invocationVars
             PROVE  [PointNext]_pointVars
  OBVIOUS
<1>1. ASSUME NEW a \in Models,
             ClaimInvocation(a) \/ GenerateText(a) \/ Provide(a) \/ RecordInvocation(a) \/ Abandon(a)
      PROVE  UNCHANGED pointVars
  BY <1>1 DEF ClaimInvocation, GenerateText, Provide, RecordInvocation, Abandon
<1>2. ASSUME NEW a \in Models, ReserveCall(a) PROVE [PointNext]_pointVars
  <2>1. call[a].month \in Months
    BY DEF CallInv, CallTyped, CallRows
  <2>2. QED
    BY <1>2, <2>1 DEF ReserveCall, ReserveOnce, PointNext
<1>3. ASSUME NEW a \in Models, FinalizeOnce(a) PROVE [PointNext]_pointVars
  BY <1>3, FinalizeCases DEF PointNext, Attempts
<1>4. ASSUME NEW a \in Models, SettleCall(a) PROVE [PointNext]_pointVars
  BY <1>3, <1>4 DEF SettleCall
<1>5. CASE RecoverNext
  BY <1>3, <1>5 DEF RecoverNext
<1>6. CASE Tick \/ RecoverDue \/ RecoverFails \/ UNCHANGED invocationVars
  BY <1>6 DEF Tick, RecoverDue, RecoverFails, invocationVars
<1>7. CASE AccountStep
  BY <1>7 DEF PointNext
<1>8. CASE ImageCall
  BY <1>8 DEF ImageCall, PointNext, Attempts
<1> QED
  BY <1>1, <1>2, <1>4, <1>5, <1>6, <1>7, <1>8 DEF InvocationNext

-----------------------------------------------------------------------------
(* The inductive invariant *)

\* The ledger touches the rows of the attempt it works on, and of no other.
LEMMA CallTouches ==
  ASSUME PointTypeOK, NEW a \in Attempts,
         \/ \E mo : Reserve(a, mo)
         \/ \E outcome, used : Finalize(a, outcome, used)
         \/ CloseReserve(a)
  PROVE  \A b \in Models \ {a} : hold'[b] = hold[b] /\ reserveOp'[b] = reserveOp[b]
BY DEF PointTypeOK, Reserve, Finalize, CloseReserve, Attempts

\* Accounts and images are other rows than those of the calls.
LEMMA OtherRows ==
  ASSUME PointTypeOK, AccountStep \/ ImageCall
  PROVE  \A b \in Models : hold'[b] = hold[b] /\ reserveOp'[b] = reserveOp[b]
<1>1. CASE AccountStep
  BY <1>1 DEF AccountStep, Grant, IncurDebt, SetMonthlyLimit, NextMonth
<1>2. CASE ImageCall
  <2>1. PICK a \in Images \cap demand :
          \/ \E mo \in Months, version \in Quantities : ReserveImageGeneration(a, mo, version)
          \/ CommitImage(a)
          \/ Release(a)
    BY <1>2 DEF ImageCall
  <2>2. a \in Attempts /\ a \notin Models
    BY PointAssumption DEF Attempts
  <2>3. \/ \E mo : Reserve(a, mo)
        \/ \E outcome, used : Finalize(a, outcome, used)
        \/ CloseReserve(a)
    BY <2>1 DEF ReserveImageGeneration, CommitImage, Release
  <2>4. QED
    BY <2>2, <2>3, CallTouches
<1> QED
  BY <1>1, <1>2

\* A step of one call that leaves the rows of the others alone.
LEMMA OneCall ==
  ASSUME CallInv, CallTyped', NEW a \in Models,
         \A b \in Models \ {a} : SameCall(b),
         CallOrdered(a)', CallFollowed(a)'
  PROVE  CallInv'
BY SameCallKeeps DEF CallInv

\* The request of a call moves and the ledger rests.
LEMMA RequestStep ==
  ASSUME PointTypeOK, CallInv, NEW a \in Models,
         \/ ClaimInvocation(a) \/ GenerateText(a) \/ Provide(a)
         \/ RecordInvocation(a) \/ Abandon(a)
  PROVE  CallInv'
<1>0. /\ CallTyped /\ CallOrdered(a) /\ CallFollowed(a)
      /\ call[a] \in CallRows /\ stage[a] \in Stages /\ sends[a] \in Nat /\ answer[a] \in Nat \X Nat
  BY DEF CallInv, CallTyped
<1>1. CASE ClaimInvocation(a)
  <2>1. Fact("dispatched", month, NoUsage) \in CallRows
    BY DEF Fact, CallRows, NoUsage, PointTypeOK
  <2>2. CallTyped' /\ \A b \in Models \ {a} : SameCall(b)
    BY <1>0, <1>1, <2>1 DEF ClaimInvocation, Goto, pointVars, CallTyped, SameCall, Stages
  <2>3. CallOrdered(a)' /\ CallFollowed(a)'
    BY <1>0, <1>1 DEF ClaimInvocation, Unclaimed, Goto, pointVars, CallTyped, CallOrdered,
       CallFollowed, Fact, Usage
  <2>4. QED
    BY <2>2, <2>3, OneCall
<1>2. CASE GenerateText(a)
  <2>2. CallTyped' /\ \A b \in Models \ {a} : SameCall(b)
    BY <1>0, <1>2, SMT DEF GenerateText, Goto, pointVars, CallTyped, SameCall, Stages
  <2>3. CallOrdered(a)' /\ CallFollowed(a)'
    BY <1>0, <1>2, SMT DEF GenerateText, Goto, pointVars, CallTyped, CallOrdered, CallFollowed, Usage
  <2>4. QED
    BY <2>2, <2>3, OneCall
<1>3. CASE Provide(a)
  <2>1. PICK u \in Usage(a) : answer' = [answer EXCEPT ![a] = u]
    BY <1>3 DEF Provide
  <2>2. u \in Nat \X Nat /\ u # NoUsage
    BY PointAssumption, SMT DEF Usage, UsageWithin, NoUsage
  <2>3. CallTyped' /\ \A b \in Models \ {a} : SameCall(b)
    BY <1>0, <1>3, <2>1, <2>2 DEF Provide, pointVars, CallTyped, SameCall
  <2>4. /\ answer'[a] = u /\ sends[a] = 1 /\ answer[a] = NoUsage
        /\ UNCHANGED <<call, stage, sends, hold, reserveOp>>
    BY <1>0, <1>3, <2>1, SMT DEF Provide, pointVars, CallTyped, CallOrdered
  <2>5. CallOrdered(a)' /\ CallFollowed(a)'
    BY <1>0, <2>2, <2>4 DEF CallOrdered, CallFollowed, Usage
  <2>6. QED
    BY <2>3, <2>5, OneCall
<1>4. CASE RecordInvocation(a)
  <2>1. PICK f \in Verdict(a) : call' = [call EXCEPT ![a] = f]
    BY <1>4 DEF RecordInvocation
  <2>2. /\ f \in CallRows /\ f.outcome \in {"failed", "observed"}
        /\ f.outcome = "failed" => stage[a] = "refuse"
        /\ f.outcome = "observed" => answer[a] # NoUsage /\ f.usage = answer[a]
    BY <1>0, <2>1, SMT DEF Verdict, Fact, CallRows, NoUsage
  <2>3. CallTyped' /\ \A b \in Models \ {a} : SameCall(b)
    BY <1>0, <1>4, <2>1, <2>2 DEF RecordInvocation, Goto, pointVars, CallTyped, SameCall, Stages
  <2>4. /\ call'[a] = f /\ call[a].outcome = "dispatched" /\ stage'[a] \in {"settle", "idle"}
        /\ UNCHANGED <<sends, answer, hold, reserveOp>>
    BY <1>0, <1>4, <2>1 DEF RecordInvocation, Goto, pointVars, CallTyped
  <2>5. CallOrdered(a)' /\ CallFollowed(a)'
    BY <1>0, <2>2, <2>4 DEF CallOrdered, CallFollowed, Usage
  <2>6. QED
    BY <2>3, <2>5, OneCall
<1>5. CASE Abandon(a)
  <2>2. CallTyped' /\ \A b \in Models \ {a} : SameCall(b)
    BY <1>0, <1>5 DEF Abandon, Goto, pointVars, CallTyped, SameCall, Stages
  <2>3. CallOrdered(a)' /\ CallFollowed(a)'
    BY <1>0, <1>5 DEF Abandon, Goto, pointVars, CallTyped, CallOrdered, CallFollowed, Usage
  <2>4. QED
    BY <2>2, <2>3, OneCall
<1> QED
  BY <1>1, <1>2, <1>3, <1>4, <1>5

\* The ledger holds the price of a call, or the request gives up.
LEMMA ReserveCallStep ==
  ASSUME PointTypeOK, CallInv, NEW a \in Models, ReserveCall(a)
  PROVE  CallInv'
<1>0. /\ CallTyped /\ CallOrdered(a) /\ CallFollowed(a) /\ a \in Attempts
      /\ UNCHANGED <<call, sends, answer>> /\ stage[a] = "reserve"
  BY DEF CallInv, ReserveCall, Attempts
<1>1. PICK pc \in {"send", "refuse"} : stage' = [stage EXCEPT ![a] = pc]
  BY DEF ReserveCall, Goto
<1>2. CallTyped' /\ stage'[a] = pc /\ \A b \in Models \ {a} : stage'[b] = stage[b]
  BY <1>0, <1>1 DEF CallTyped, Stages
<1>3. \/ UNCHANGED pointVars /\ (pc = "send" => reserveOp[a] = "succeeded")
      \/ Reserve(a, call[a].month)
  BY <1>0, <1>1 DEF ReserveCall, ReserveOnce, ReserveAIInvocationUsage, Goto, CallTyped
<1>4. \A b \in Models \ {a} : SameCall(b)
  BY <1>0, <1>2, <1>3, CallTouches DEF SameCall, pointVars
<1>5. /\ hold'[a] = hold[a] \/ hold'[a].state = "reserved"
      /\ reserveOp'[a] = reserveOp[a] \/ reserveOp'[a] = "succeeded"
      /\ pc = "send" => reserveOp'[a] = "succeeded"
  <2>1. ASSUME NEW mo, Reserve(a, mo)
        PROVE  hold'[a] = HoldRow("reserved", mo, 0) /\ reserveOp'[a] = "succeeded"
    BY <1>0, <2>1 DEF Reserve, PointTypeOK
  <2>2. HoldRow("reserved", call[a].month, 0).state = "reserved"
    BY DEF HoldRow
  <2>3. CASE UNCHANGED pointVars /\ (pc = "send" => reserveOp[a] = "succeeded")
    BY <2>3 DEF pointVars
  <2>4. CASE Reserve(a, call[a].month)
    BY <2>1, <2>2, <2>4
  <2>5. QED
    BY <1>3, <2>3, <2>4
<1>6. CallOrdered(a)' /\ CallFollowed(a)'
  BY <1>0, <1>1, <1>2, <1>5 DEF CallOrdered, CallFollowed, Usage
<1> QED
  BY <1>2, <1>4, <1>6, OneCall

\* The ledger settles a call as its row says.
LEMMA FinalizeCallStep ==
  ASSUME PointTypeOK, CallInv, NEW a \in Models, FinalizeOnce(a),
         UNCHANGED <<call, sends, answer>>,
         stage' = stage \/ stage' = [stage EXCEPT ![a] = "idle"]
  PROVE  CallInv'
<1>0. CallTyped /\ CallOrdered(a) /\ CallFollowed(a) /\ a \in Attempts /\ TerminalFact(a)
  BY DEF CallInv, FinalizeOnce, Attempts
<1>1. CallTyped' /\ stage'[a] \in {stage[a], "idle"} /\ \A b \in Models \ {a} : stage'[b] = stage[b]
  BY <1>0 DEF CallTyped, Stages
<1>2. \/ UNCHANGED pointVars
      \/ call[a].outcome = "failed" /\ (Finalize(a, "released", 0) \/ CloseReserve(a))
      \/ /\ call[a].outcome = "observed"
         /\ Finalize(a, "committed", Points(answer[a][1], answer[a][2]))
  BY FinalizeCases DEF Release, CommitModel
<1>3. \A b \in Models \ {a} : SameCall(b)
  BY <1>0, <1>1, <1>2, CallTouches DEF SameCall, pointVars
<1>4. \/ hold'[a] = hold[a] /\ reserveOp'[a] = reserveOp[a]
      \/ /\ call[a].outcome = "failed"
         /\ hold'[a].state = "released" \/ hold'[a] = hold[a]
         /\ reserveOp'[a] = "failed" \/ reserveOp'[a] = reserveOp[a]
      \/ /\ call[a].outcome = "observed" /\ reserveOp'[a] = reserveOp[a]
         /\ hold'[a] = HoldRow("committed", hold[a].month, Points(answer[a][1], answer[a][2]))
  <2>1. ASSUME NEW outcome, NEW used, Finalize(a, outcome, used)
        PROVE  hold'[a] = HoldRow(outcome, hold[a].month, used) /\ reserveOp'[a] = reserveOp[a]
    BY <1>0, <2>1 DEF Finalize, PointTypeOK
  <2>2. ASSUME CloseReserve(a) PROVE hold'[a] = hold[a] /\ reserveOp'[a] = "failed"
    BY <1>0, <2>2 DEF CloseReserve, PointTypeOK
  <2>3. CASE UNCHANGED pointVars
    BY <2>3 DEF pointVars
  <2>4. CASE call[a].outcome = "failed" /\ (Finalize(a, "released", 0) \/ CloseReserve(a))
    <3>1. CASE Finalize(a, "released", 0)
      <4>1. hold'[a] = HoldRow("released", hold[a].month, 0) /\ reserveOp'[a] = reserveOp[a]
        BY <2>1, <3>1
      <4>2. QED
        BY <2>4, <4>1, SMT DEF HoldRow
    <3>2. CASE CloseReserve(a)
      BY <2>2, <2>4, <3>2
    <3>3. QED
      BY <2>4, <3>1, <3>2
  <2>5. QED
    BY <1>2, <2>1, <2>3, <2>4
<1>5. CallOrdered(a)'
  BY <1>0, <1>1 DEF CallOrdered, TerminalFact, Usage
<1>6. sends[a] > 0 => call[a].outcome # "failed"
  BY <1>0, SMT DEF CallOrdered, CallTyped
<1>7. stage[a] # "send"
  BY <1>0 DEF CallOrdered, TerminalFact
<1>8. CallFollowed(a)'
  BY <1>0, <1>1, <1>4, <1>6, <1>7, SMT DEF CallFollowed, HoldRow
<1> QED
  BY <1>1, <1>3, <1>5, <1>8, OneCall

\* Every step keeps the invariant.
LEMMA CallStep == PointTypeOK /\ CallInv /\ [InvocationNext]_invocationVars => CallInv'
<1> SUFFICES ASSUME PointTypeOK, CallInv, [InvocationNext]_invocationVars PROVE CallInv'
  OBVIOUS
<1>1. ASSUME UNCHANGED callVars,
             \A b \in Models : hold'[b] = hold[b] /\ reserveOp'[b] = reserveOp[b]
      PROVE  CallInv'
  <2>1. CallTyped' /\ \A b \in Models : SameCall(b)
    BY <1>1 DEF callVars, CallInv, CallTyped, SameCall
  <2>2. QED
    BY <2>1, SameCallKeeps DEF CallInv
<1>2. ASSUME NEW a \in Models, SettleCall(a) PROVE CallInv'
  BY <1>2, FinalizeCallStep DEF SettleCall, Goto
<1>3. CASE RecoverNext
  <2>1. CASE UNCHANGED pointVars
    BY <1>1, <1>3, <2>1 DEF RecoverNext, pointVars
  <2>2. ASSUME NEW a \in Models, FinalizeOnce(a) PROVE CallInv'
    BY <1>3, <2>2, FinalizeCallStep DEF RecoverNext, callVars
  <2>3. QED
    BY <1>3, <2>1, <2>2 DEF RecoverNext
<1>4. CASE Tick \/ RecoverDue \/ RecoverFails \/ UNCHANGED invocationVars
  BY <1>1, <1>4 DEF Tick, RecoverDue, RecoverFails, invocationVars, pointVars
<1>5. CASE (AccountStep \/ ImageCall) /\ UNCHANGED <<callVars, queue, claimed, faults>>
  BY <1>1, <1>5, OtherRows
<1> QED
  BY <1>2, <1>3, <1>4, <1>5, RequestStep, ReserveCallStep DEF InvocationNext

\* The first state.
LEMMA CallInit == InvocationInit => CallInv
<1> SUFFICES ASSUME InvocationInit PROVE CallInv
  OBVIOUS
<1>1. CallTyped
  BY PointAssumption, SMT DEF InvocationInit, CallTyped, Fact, CallRows, NoUsage, Stages, Months
<1>2. ASSUME NEW a \in Models PROVE CallOrdered(a) /\ CallFollowed(a)
  BY SMT DEF InvocationInit, PointInit, Attempts, CallOrdered, CallFollowed, Fact, HoldRow
<1> QED
  BY <1>1, <1>2 DEF CallInv

\* The invariant, together with the types of the ledger it depends on.
LEMMA CallsInvariant == InvocationSpec => [](PointTypeOK /\ CallInv)
<1>1. InvocationInit => PointTypeOK /\ CallInv
  BY CallInit, PointTypeInit DEF InvocationInit
<1>2. PointTypeOK /\ CallInv /\ [InvocationNext]_invocationVars => PointTypeOK' /\ CallInv'
  BY CallStep, InvocationSteps, PointTypeStep
<1> QED
  BY <1>1, <1>2, PTL DEF InvocationSpec

\* A call that dies, is repeated or loses an answer, and the recovery of its
\* settlement, add no behaviour to the ledger: holds are opened in a month
\* that the calendar has, and commits stay within the limits of the call.
THEOREM InvocationIsLedger == InvocationSpec => PointSpec
<1>1. InvocationInit => PointInit
  BY DEF InvocationInit
<1> QED
  BY <1>1, CallsInvariant, InvocationSteps, PTL DEF InvocationSpec, PointSpec

\* So the accounts of the ledger are right in every state of the calls.
THEOREM InvocationKeepsBooks == InvocationSpec => [](WithinLimit /\ PointsBacked /\ Finalizable)
BY InvocationIsLedger, LimitHolds, PointBooksBalance, AlwaysFinalizable, PTL

\* A call is handed to the network at most once and costs what the tokens of
\* that one answer cost, however often it is requested again.
THEOREM CallsBilledOnce == InvocationSpec => []BilledOnce
<1>1. CallInv => BilledOnce
  BY DEF CallInv, CallOrdered, CallFollowed, BilledOnce
<1> QED
  BY <1>1, CallsInvariant, PTL

-----------------------------------------------------------------------------
(* The contract of a paid effect *)

CallCharges == [a \in Models |-> CallCharge(a)]

CallEffects == [a \in Models |-> answer[a] # NoUsage]

\* A call whose charge and effect a step leaves alone.
SameCallPrice(a) == CallCharge(a)' = CallCharge(a) /\ answer'[a] = answer[a]

LEMMA SameCallPriceIf ==
  ASSUME NEW a, hold'[a] = hold[a], reserveOp'[a] = reserveOp[a], answer'[a] = answer[a]
  PROVE  SameCallPrice(a)
BY SMT DEF SameCallPrice, CallCharge

\* Where no call changes, the contract sees nothing.
LEMMA NoCallPaid ==
  ASSUME \A b \in Models : SameCallPrice(b)
  PROVE  UNCHANGED PaidCall!paidVars
BY DEF SameCallPrice, PaidCall!paidVars

\* The settlement of a call is a charge, a refund or nothing.
LEMMA FinalizePaid ==
  ASSUME PointTypeOK, OperationsAgree, CallInv, NEW a \in Models, FinalizeOnce(a), UNCHANGED answer
  PROVE  [PaidCall!PaidNext]_(PaidCall!paidVars)
<1>0. a \in Attempts /\ CallOrdered(a) /\ CallFollowed(a)
  BY DEF CallInv, Attempts
<1>1. CASE UNCHANGED pointVars
  BY <1>1, SameCallPriceIf, NoCallPaid DEF pointVars
<1>2. ASSUME \A b \in Models \ {a} : SameCallPrice(b), UNCHANGED answer
      PROVE  /\ CallCharges' = [CallCharges EXCEPT ![a] = CallCharge(a)']
             /\ CallEffects' = CallEffects
  BY <1>2 DEF SameCallPrice, CallCharges, CallEffects
<1>3. CASE call[a].outcome = "failed" /\ (Finalize(a, "released", 0) \/ CloseReserve(a))
  <2>1. \A b \in Models \ {a} : SameCallPrice(b)
    BY <1>0, <1>3, CallTouches, SameCallPriceIf
  <2>2. CallCharge(a) \in {"none", "held"} /\ CallCharge(a)' = "refunded"
    <3>1. ASSUME Finalize(a, "released", 0)
          PROVE  /\ reserveOp[a] = "succeeded" /\ hold[a].state = "reserved"
                 /\ reserveOp'[a] = "succeeded" /\ hold'[a].state = "released"
      BY <1>0, <3>1 DEF Finalize, Unfinalized, PointTypeOK, HoldRow
    <3>2. ASSUME CloseReserve(a)
          PROVE  reserveOp[a] = "none" /\ hold[a].state = "none" /\ reserveOp'[a] = "failed"
      BY <1>0, <3>2 DEF CloseReserve, PointTypeOK, OperationsAgree
    <3>3. QED
      BY <1>3, <3>1, <3>2 DEF CallCharge
  <2>3. answer[a] = NoUsage
    BY <1>0, <1>3, SMT DEF CallOrdered
  <2>4. PaidCall!Refund(a)
    BY <1>2, <2>1, <2>2, <2>3 DEF PaidCall!Refund, CallCharges, CallEffects
  <2>5. QED
    BY <2>4 DEF PaidCall!PaidNext
<1>4. CASE call[a].outcome = "observed" /\ CommitModel(a, answer[a])
  <2>1. \A b \in Models \ {a} : SameCallPrice(b)
    BY <1>0, <1>4, CallTouches, SameCallPriceIf DEF CommitModel
  <2>2. CallCharge(a) = "held" /\ CallCharge(a)' = "charged"
    BY <1>0, <1>4 DEF CommitModel, CallCharge, Finalize, Unfinalized, PointTypeOK, HoldRow
  <2>3. answer[a] # NoUsage
    BY <1>0, <1>4 DEF CallOrdered
  <2>4. PaidCall!Charge(a)
    BY <1>2, <2>1, <2>2, <2>3 DEF PaidCall!Charge, CallCharges, CallEffects
  <2>5. QED
    BY <2>4 DEF PaidCall!PaidNext
<1> QED
  BY <1>1, <1>3, <1>4, FinalizeCases DEF Release

\* Every step is a step of the contract, or none that it can see.
LEMMA CallPaidSteps ==
  PointTypeOK /\ OperationsAgree /\ CallInv /\ [InvocationNext]_invocationVars
    => [PaidCall!PaidNext]_(PaidCall!paidVars)
<1> SUFFICES ASSUME PointTypeOK, OperationsAgree, CallInv, [InvocationNext]_invocationVars
             PROVE  [PaidCall!PaidNext]_(PaidCall!paidVars)
  OBVIOUS
<1>1. ASSUME UNCHANGED answer,
             \A b \in Models : hold'[b] = hold[b] /\ reserveOp'[b] = reserveOp[b]
      PROVE  UNCHANGED PaidCall!paidVars
  BY <1>1, SameCallPriceIf, NoCallPaid
<1>2. ASSUME NEW a \in Models,
             ClaimInvocation(a) \/ GenerateText(a) \/ RecordInvocation(a) \/ Abandon(a)
      PROVE  UNCHANGED PaidCall!paidVars
  BY <1>1, <1>2 DEF ClaimInvocation, GenerateText, RecordInvocation, Abandon, pointVars
<1>3. ASSUME NEW a \in Models, Provide(a) PROVE PaidCall!PaidNext
  <2>0. a \in Attempts /\ CallTyped /\ CallOrdered(a) /\ CallFollowed(a) /\ UNCHANGED pointVars
    BY <1>3 DEF CallInv, Provide, Attempts
  <2>1. PICK u \in Usage(a) : answer' = [answer EXCEPT ![a] = u]
    BY <1>3 DEF Provide
  <2>2. u # NoUsage
    BY PointAssumption, SMT DEF Usage, UsageWithin, NoUsage
  <2>3. sends[a] > 0 /\ sends[a] # 0 /\ answer[a] = NoUsage
    BY <1>3, <2>0, SMT DEF Provide, CallTyped
  <2>r. hold[a].state \in {"none", "reserved", "committed", "released"}
    BY <2>0 DEF PointTypeOK, HoldRows
  <2>4. reserveOp[a] = "succeeded" /\ hold[a].state = "reserved"
    <3>1. reserveOp[a] = "succeeded" /\ hold[a].state # "none"
      BY <2>0, <2>3 DEF CallFollowed, OperationsAgree
    <3>2. call[a].outcome \notin {"observed", "failed"}
      BY <2>0, <2>3 DEF CallOrdered
    <3>3. QED
      BY <2>0, <2>r, <3>1, <3>2 DEF CallFollowed
  <2>5. CallCharge(a) = "held"
    BY <2>4 DEF CallCharge
  <2>6. CallCharges' = CallCharges
    BY <2>0, SMT DEF CallCharges, CallCharge, pointVars
  <2>7. CallEffects' = [CallEffects EXCEPT ![a] = TRUE]
    BY <2>0, <2>1, <2>2 DEF CallEffects, CallTyped
  <2>8. PaidCall!Happen(a)
    BY <2>5, <2>6, <2>7 DEF PaidCall!Happen, CallCharges, CallEffects
  <2>9. QED
    BY <2>8 DEF PaidCall!PaidNext
<1>4. ASSUME NEW a \in Models, ReserveCall(a) PROVE [PaidCall!PaidNext]_(PaidCall!paidVars)
  <2>1. CASE UNCHANGED pointVars
    BY <1>1, <1>4, <2>1 DEF ReserveCall, pointVars
  <2>2. ASSUME NEW mo, Reserve(a, mo) PROVE PaidCall!PaidNext
    <3>0. a \in Attempts /\ UNCHANGED answer
      BY <1>4 DEF ReserveCall, Attempts
    <3>1. \A b \in Models \ {a} : SameCallPrice(b)
      BY <2>2, <3>0, CallTouches, SameCallPriceIf
    <3>2. CallCharge(a) = "none" /\ CallCharge(a)' = "held"
      BY <2>2, <3>0 DEF CallCharge, Reserve, Reservable, PointTypeOK, HoldRow, OperationsAgree
    <3>3. CallCharges' = [CallCharges EXCEPT ![a] = "held"] /\ CallEffects' = CallEffects
      BY <3>0, <3>1, <3>2 DEF SameCallPrice, CallCharges, CallEffects
    <3>4. PaidCall!Hold(a)
      BY <3>2, <3>3 DEF PaidCall!Hold, CallCharges, CallEffects
    <3>5. QED
      BY <3>4 DEF PaidCall!PaidNext
  <2>3. QED
    BY <1>4, <2>1, <2>2 DEF ReserveCall, ReserveOnce, ReserveAIInvocationUsage
<1>5. ASSUME NEW a \in Models, SettleCall(a) PROVE [PaidCall!PaidNext]_(PaidCall!paidVars)
  BY <1>5, FinalizePaid DEF SettleCall
<1>6. CASE RecoverNext
  <2>1. CASE UNCHANGED pointVars
    BY <1>1, <1>6, <2>1 DEF RecoverNext, callVars, pointVars
  <2>2. ASSUME NEW a \in Models, FinalizeOnce(a) PROVE [PaidCall!PaidNext]_(PaidCall!paidVars)
    BY <1>6, <2>2, FinalizePaid DEF RecoverNext, callVars
  <2>3. QED
    BY <1>6, <2>1, <2>2 DEF RecoverNext
<1>7. CASE Tick \/ RecoverDue \/ RecoverFails \/ UNCHANGED invocationVars
  BY <1>1, <1>7 DEF Tick, RecoverDue, RecoverFails, invocationVars, callVars, pointVars
<1>8. CASE (AccountStep \/ ImageCall) /\ UNCHANGED <<callVars, queue, claimed, faults>>
  BY <1>1, <1>8, OtherRows DEF callVars
<1> QED
  BY <1>2, <1>3, <1>4, <1>5, <1>6, <1>7, <1>8 DEF InvocationNext

\* The price of a call is held before the provider can do the work, it is
\* charged only for work that was done and refunded only for work that never
\* will be: the executor, its row, the ledger and the recovery pass together
\* implement PaidEffect.
THEOREM CallKeepsContract == InvocationSpec => CallContract
<1>1. InvocationInit => PaidCall!PaidInit
  <2> SUFFICES ASSUME InvocationInit PROVE PaidCall!PaidInit
    OBVIOUS
  <2>1. \A a \in Models : CallCharge(a) = "none" /\ answer[a] = NoUsage
    BY DEF InvocationInit, PointInit, CallCharge, HoldRow, Attempts
  <2>2. QED
    BY <2>1 DEF PaidCall!PaidInit
<1> QED
  BY <1>1, CallPaidSteps, CallsInvariant, InvocationIsLedger, OperationsTellTruth, PTL
     DEF InvocationSpec, CallContract, PaidCall!PaidSpec

-----------------------------------------------------------------------------
(* Image generations: the inductive invariant *)

\* The request was sent, or may be.
Dispatched == {"dispatch_started", "unknown", "provider_succeeded"}

Final == {"provider_succeeded", "no_generation"}

\* What the fact f of an image says of the provider.
FactTrue(a, f) ==
  /\ posts[a] \in {0, 1}
  /\ posts[a] = 0 <=> provider[a] = "idle"
  /\ f.state \in {"none", "prepared"} => posts[a] = 0
  /\ f.state = "provider_succeeded" => provider[a] = "generated"
  /\ f.state = "no_generation" => provider[a] \in {"idle", "rejected"}

\* What it says of the reservation, and the reservation of it.
FactPaid(a, f) ==
  /\ f.state \in Dispatched => f.bound
  /\ f.bound => reserveOp[a] = "succeeded"
  /\ hold[a].state = "committed" => f.state = "provider_succeeded"
  /\ hold[a].state = "released" \/ reserveOp[a] = "failed" => f.state = "no_generation"
  /\ f.settlement # "none" => f.settlement = Receipt(a) /\ MatchesSettlement(f, Receipt(a))

\* The steps at which the request of the attempt is on its way or answered.
Sent == {"await", "observe", "read_after", "reject", "mark_unknown"}

\* What an attempt knows of its image whatever others write to the fact.
Claims(j) ==
  /\ j.refused => provider[j.image] = "rejected"
  /\ j.at \in Sent \/ j.caller = "observe" => posts[j.image] = 1
  /\ j.at = "observe" => provider[j.image] = "generated"
  /\ j.at = "reject" => j.refused
  /\ j.at = "bind" => reserveOp[j.image] = "succeeded"

\* What it knows of the fact, although others write to it.
Knows(j) ==
  /\ Claims(j)
  /\ j.at = "post" => posts[j.image] = 0 /\ fact[j.image].state \in {"dispatch_started", "unknown"}
  /\ j.at = "finalize" => j.seen.state \in Final /\ fact[j.image].state = j.seen.state

\* Only one attempt is about to send the request of an image.
OneSender ==
  \A w, v \in Workers :
    At(w, "post") /\ At(v, "post") /\ job[w].image = job[v].image => w = v

ImageInv ==
  /\ \A a \in Images : FactTrue(a, fact[a]) /\ FactPaid(a, fact[a])
  /\ \A w \in Workers : Knows(job[w])
  /\ OneSender

-----------------------------------------------------------------------------
(* Attempts and facts as rows *)

LEMMA Zeros == 0 \in Balances /\ 0 \in Months /\ NoIntent \in Intents /\ NoFact \in Facts
<1>1. 0 \in Balances /\ 0 \in Months
  BY MaxIntAssumption, PointAssumption, SMT DEF Balances, Months
<1>2. NoIntent \in Intents
  BY <1>1 DEF NoIntent, Intents
<1> QED
  BY <1>1, <1>2 DEF NoFact, Facts, FactStates, Settlements

\* An attempt that has not begun, or is over.
LEMMA IdleIs ==
  ASSUME NEW a \in Images
  PROVE  /\ Idle(a) \in Jobs /\ Idle(a).at = "idle" /\ Idle(a).image = a
         /\ Idle(a).caller = "none" /\ Idle(a).refused = FALSE
BY Zeros DEF Idle, Jobs, Steps, Callers

\* An attempt that goes on keeps all but its step; one that returns, nothing.
LEMMA ToIs ==
  ASSUME NEW w, job[w] \in Jobs, NEW step \in Steps
  PROVE  /\ To(w, step) \in Jobs /\ To(w, step).at = step /\ To(w, step).image = job[w].image
         /\ To(w, step).caller \in {job[w].caller, "none"}
         /\ To(w, step).refused => job[w].refused
         /\ step # "idle" => /\ To(w, step).refused = job[w].refused
                             /\ To(w, step).caller = job[w].caller
                             /\ To(w, step).seen = job[w].seen
                             /\ To(w, step).intent = job[w].intent
<1>1. job[w].image \in Images
  BY DEF Jobs
<1>2. CASE step = "idle"
  BY <1>1, <1>2, IdleIs DEF To
<1>3. CASE step # "idle"
  BY <1>3 DEF To, Jobs
<1> QED
  BY <1>2, <1>3

LEMMA CallingIs ==
  ASSUME NEW w, job[w] \in Jobs, NEW caller \in Callers
  PROVE  /\ Calling(w, caller) \in Jobs /\ Calling(w, caller).at = "finalize_read"
         /\ Calling(w, caller).image = job[w].image /\ Calling(w, caller).caller = caller
         /\ Calling(w, caller).refused = job[w].refused
BY DEF Calling, Jobs, Steps

LEMMA StateIs ==
  ASSUME NEW f \in Facts, NEW state \in FactStates
  PROVE  /\ SetState(f, state) \in Facts /\ SetState(f, state).state = state
         /\ SetState(f, state).bound = f.bound /\ SetState(f, state).settlement = f.settlement
         /\ SetState(f, state).intent = f.intent
BY DEF SetState, Facts
-----------------------------------------------------------------------------
(* What an attempt may become without a word from the fact *)

\* Steps that presuppose nothing.
Plain == Steps \ (Sent \cup {"post", "bind", "finalize"})

\* An attempt of w that knows what its step presupposes.
Safe(w, j) ==
  /\ j \in Jobs /\ j.image = job[w].image
  /\ j.at \notin {"post", "finalize"}
  /\ Claims(j)

LEMMA ToPlain ==
  ASSUME ImageTypeOK, ImageInv, NEW w \in Workers, NEW step \in Plain
  PROVE  Safe(w, To(w, step))
<1>1. job[w] \in Jobs /\ Claims(job[w]) /\ step \in Steps
  BY DEF ImageTypeOK, ImageInv, Knows, Plain
<1>2. PICK j : j = To(w, step)
  OBVIOUS
<1>3. /\ j \in Jobs /\ j.at = step /\ j.image = job[w].image
      /\ j.caller \in {job[w].caller, "none"} /\ (j.refused => job[w].refused)
  BY <1>1, <1>2, ToIs
<1>4. step \notin Sent \cup {"post", "bind", "finalize"}
  BY DEF Plain
<1>5. Claims(j)
  BY <1>1, <1>3, <1>4 DEF Claims, Sent
<1> QED
  BY <1>2, <1>3, <1>4, <1>5 DEF Safe

\* After the request was sent, the attempt knows that it was.
LEMMA ToSent ==
  ASSUME ImageTypeOK, ImageInv, NEW w \in Workers, job[w].at \in Sent \/ job[w].caller = "observe",
         NEW step \in {"read_after", "mark_unknown"}
  PROVE  Safe(w, To(w, step))
<1>1. job[w] \in Jobs /\ Claims(job[w]) /\ step \in Steps /\ step # "idle"
  BY DEF ImageTypeOK, ImageInv, Knows, Steps
<1>2. PICK j : j = To(w, step)
  OBVIOUS
<1>3. /\ j \in Jobs /\ j.at = step /\ j.image = job[w].image
      /\ j.caller = job[w].caller /\ j.refused = job[w].refused
  BY <1>1, <1>2, ToIs
<1>4. Claims(j)
  BY <1>1, <1>3 DEF Claims
<1> QED
  BY <1>2, <1>3, <1>4 DEF Safe

LEMMA CallingSafe ==
  ASSUME ImageTypeOK, ImageInv, NEW w \in Workers, NEW caller \in Callers,
         caller = "observe" => At(w, "observe")
  PROVE  Safe(w, Calling(w, caller))
<1>1. job[w] \in Jobs /\ Claims(job[w])
  BY DEF ImageTypeOK, ImageInv, Knows
<1>2. PICK j : j = Calling(w, caller)
  OBVIOUS
<1>3. /\ j \in Jobs /\ j.at = "finalize_read" /\ j.image = job[w].image
      /\ j.caller = caller /\ j.refused = job[w].refused
  BY <1>1, <1>2, CallingIs
<1>4. Claims(j)
  BY <1>1, <1>3 DEF Claims, Sent, At
<1> QED
  BY <1>2, <1>3, <1>4 DEF Safe

LEMMA ReconciledSafe ==
  ASSUME ImageTypeOK, ImageInv, NEW w \in Workers, NEW f
  PROVE  Safe(w, Reconciled(w, f))
<1>1. {"close_stale", "mark_stale", "claim", "idle"} \subseteq Plain /\ "reconcile" \in Callers
  BY DEF Plain, Steps, Sent, Callers
<1>2. Reconciled(w, f) \in {To(w, "close_stale"), To(w, "mark_stale"), To(w, "claim"), To(w, "idle"),
                            Calling(w, "reconcile")}
  BY DEF Reconciled
<1> QED
  BY <1>1, <1>2, ToPlain, CallingSafe

LEMMA FailedSafe ==
  ASSUME ImageTypeOK, ImageInv, NEW w \in Workers
  PROVE  Safe(w, Failed(w))
<1>1. {"idle", "unknown"} \subseteq Plain
  BY DEF Plain, Steps, Sent
<1>2. CASE job[w].caller = "observe"
  BY <1>2, ToSent DEF Failed
<1>3. CASE job[w].caller # "observe"
  <2>1. Failed(w) \in {To(w, "idle"), To(w, "unknown")}
    BY <1>3 DEF Failed
  <2>2. QED
    BY <1>1, <2>1, ToPlain
<1> QED
  BY <1>2, <1>3

LEMMA ReturnsSafe ==
  ASSUME ImageTypeOK, ImageInv, NEW w \in Workers, NEW j \in Returns(w)
  PROVE  Safe(w, j)
<1>1. {"idle", "claim", "stage", "unknown", "not_dispatched"} \subseteq Plain
  BY DEF Plain, Steps, Sent
<1>2. CASE job[w].caller = "observe"
  BY <1>2, ToSent DEF Returns
<1>3. CASE job[w].caller # "observe"
  <2>1. j \in {To(w, "idle"), To(w, "claim"), To(w, "stage"), To(w, "unknown"),
               To(w, "not_dispatched")}
    BY <1>3 DEF Returns
  <2>2. QED
    BY <1>1, <2>1, ToPlain
<1> QED
  BY <1>2, <1>3

-----------------------------------------------------------------------------
(* What keeps the invariant *)

\* An image that a step leaves alone.
SameImage(b) ==
  /\ fact'[b] = fact[b] /\ provider'[b] = provider[b] /\ posts'[b] = posts[b]
  /\ hold'[b] = hold[b] /\ reserveOp'[b] = reserveOp[b]

LEMMA SameImageKeeps ==
  ASSUME NEW b, SameImage(b)
  PROVE  /\ FactTrue(b, fact[b]) => FactTrue(b, fact[b])'
         /\ FactPaid(b, fact[b]) => FactPaid(b, fact[b])'
         /\ \A j : j.image = b /\ Knows(j) => Knows(j)'
<1>1. Receipt(b)' = Receipt(b)
  BY DEF SameImage, Receipt
<1>2. FactTrue(b, fact[b]) => FactTrue(b, fact[b])'
  BY DEF SameImage, FactTrue
<1>3. FactPaid(b, fact[b]) => FactPaid(b, fact[b])'
  BY <1>1 DEF SameImage, FactPaid, MatchesSettlement
<1>4. ASSUME NEW j, j.image = b, Knows(j) PROVE Knows(j)'
  <2>1. Claims(j)'
    BY <1>4 DEF SameImage, Knows, Claims
  <2> QED
    BY <1>4, <2>1 DEF SameImage, Knows
<1> QED
  BY <1>2, <1>3, <1>4
\* One attempt moves on and one image changes.
LEMMA StepKeeps ==
  ASSUME ImageTypeOK, ImageInv, NEW w \in Workers, NEW j \in Jobs, Become(w, j), NEW a \in Images,
         \A b \in Images \ {a} : SameImage(b),
         FactTrue(a, fact[a])', FactPaid(a, fact[a])',
         Knows(j)',
         \A v \in Workers \ {w} : job[v].image = a => Knows(job[v])',
         j.at = "post" => \A v \in Workers \ {w} : ~(At(v, "post") /\ job[v].image = j.image)
  PROVE  ImageInv'
<1>1. job'[w] = j /\ \A v \in Workers \ {w} : job'[v] = job[v]
  BY DEF ImageTypeOK, Become
<1>2. \A b \in Images : (FactTrue(b, fact[b]) /\ FactPaid(b, fact[b]))'
  BY SameImageKeeps DEF ImageInv
<1>3. ASSUME NEW v \in Workers PROVE Knows(job[v])'
  <2>1. CASE v = w
    BY <1>1, <2>1
  <2>2. CASE v # w /\ job[v].image = a
    BY <2>2
  <2>3. CASE v # w /\ job[v].image # a
    <3>1. PICK i : i = job[v]
      OBVIOUS
    <3>2. i.image \in Images \ {a} /\ Knows(i) /\ job'[v] = i
      BY <1>1, <2>3, <3>1 DEF ImageTypeOK, ImageInv, Jobs
    <3>3. Knows(i)'
      BY <3>2, SameImageKeeps
    <3>4. QED
      BY <3>2, <3>3
  <2>4. QED
    BY <2>1, <2>2, <2>3
<1>4. OneSender'
  BY <1>1 DEF ImageInv, OneSender, At
<1> QED
  BY <1>2, <1>3, <1>4 DEF ImageInv

\* An attempt moves on and nothing else changes.
LEMMA Moves ==
  ASSUME ImageTypeOK, ImageInv, NEW w \in Workers, NEW j \in Jobs, Become(w, j), Knows(j),
         j.at # "post", \A a \in Images : SameImage(a)
  PROVE  ImageInv'
<1>1. \A v \in Workers \ {w} : job'[v] = job[v]
  BY DEF ImageTypeOK, Become
<1>2. PICK a : a = j.image /\ a \in Images
  BY DEF Jobs
<1>3. FactTrue(a, fact[a])' /\ FactPaid(a, fact[a])' /\ Knows(j)'
  BY <1>2, SameImageKeeps DEF ImageInv
<1>4. ASSUME NEW v \in Workers \ {w}, job[v].image = a PROVE Knows(job[v])'
  <2>1. PICK i : i = job[v]
    OBVIOUS
  <2>2. Knows(i) /\ i.image = a /\ job'[v] = i
    BY <1>1, <1>4, <2>1 DEF ImageInv
  <2>3. Knows(i)'
    BY <1>2, <2>2, SameImageKeeps
  <2>4. QED
    BY <2>2, <2>3
<1> QED
  BY <1>2, <1>3, <1>4, StepKeeps

\* The same for a step of an attempt that asks nothing of the fact.
LEMMA SafeMoves ==
  ASSUME ImageTypeOK, ImageInv, NEW w \in Workers, NEW j, Safe(w, j), Become(w, j),
         UNCHANGED <<fact, provider, posts, pointVars>>
  PROVE  ImageInv'
<1>1. j \in Jobs /\ Knows(j) /\ j.at # "post"
  BY DEF Safe, Knows
<1>2. \A a \in Images : SameImage(a)
  BY DEF SameImage, pointVars
<1> QED
  BY <1>1, <1>2, Moves

\* A new fact that nobody who relies on the old one has to mind.
Follows(a, f) ==
  /\ FactTrue(a, f) /\ FactPaid(a, f)
  /\ fact[a].state \in Final => f.state = fact[a].state
  /\ fact[a].state \in {"dispatch_started", "unknown"} /\ posts[a] = 0 =>
       f.state \in {"dispatch_started", "unknown"}

LEMMA Writes ==
  ASSUME ImageTypeOK, ImageInv, NEW w \in Workers, NEW f \in Facts, NEW j \in Jobs,
         Become(w, j), j.image = job[w].image, Claims(j), j.at # "finalize",
         fact' = [fact EXCEPT ![job[w].image] = f], Follows(job[w].image, f),
         UNCHANGED <<provider, posts, pointVars>>,
         j.at = "post" => /\ posts[job[w].image] = 0 /\ fact[job[w].image].state = "prepared"
                          /\ f.state \in {"dispatch_started", "unknown"}
  PROVE  ImageInv'
<1>1. \A v \in Workers \ {w} : job'[v] = job[v]
  BY DEF ImageTypeOK, Become
<1>2. PICK a : a = job[w].image /\ a \in Images
  BY DEF ImageTypeOK, Jobs
<1>3. fact'[a] = f /\ \A b \in Images \ {a} : fact'[b] = fact[b]
  BY <1>2 DEF ImageTypeOK
<1>4. \A b \in Images \ {a} : SameImage(b)
  BY <1>3 DEF SameImage, pointVars
<1>5. Receipt(a)' = Receipt(a)
  BY DEF Receipt, pointVars
<1>6. FactTrue(a, fact[a])' /\ FactPaid(a, fact[a])'
  <2>1. FactTrue(a, fact[a])'
    BY <1>2, <1>3 DEF Follows, FactTrue, pointVars
  <2>2. FactPaid(a, fact[a])'
    BY <1>2, <1>3, <1>5 DEF Follows, FactPaid, MatchesSettlement, pointVars
  <2>3. QED
    BY <2>1, <2>2
<1>7. Knows(j)'
  BY <1>2, <1>3 DEF Knows, Claims, pointVars
<1>8. ASSUME NEW v \in Workers \ {w}, job[v].image = a PROVE Knows(job[v])'
  <2>1. PICK i : i = job[v]
    OBVIOUS
  <2>2. Knows(i) /\ i.image = a /\ job'[v] = i
    BY <1>1, <1>8, <2>1 DEF ImageInv
  <2>3. Knows(i)'
    <3>1. Claims(i)'
      BY <2>2 DEF Knows, Claims, pointVars
    <3>2. i.at = "post" => posts'[a] = 0 /\ fact'[a].state \in {"dispatch_started", "unknown"}
      BY <1>2, <1>3, <2>2 DEF Knows, Follows
    <3>3. i.at = "finalize" => i.seen.state \in Final /\ fact'[a].state = i.seen.state
      BY <1>2, <1>3, <2>2 DEF Knows, Follows
    <3>4. QED
      BY <2>2, <3>1, <3>2, <3>3 DEF Knows
  <2>4. QED
    BY <2>2, <2>3
<1>9. j.at = "post" => \A v \in Workers \ {w} : ~(At(v, "post") /\ job[v].image = j.image)
  BY <1>2 DEF ImageInv, Knows, At
<1> QED
  BY <1>2, <1>4, <1>6, <1>7, <1>8, <1>9, StepKeeps

\* A transaction on the fact: it commits and the attempt goes on as j, its
\* answer is lost and it goes on as k, or it fails.
Transaction(w, f, j, k) ==
  \/ /\ f \in Facts /\ Follows(job[w].image, f)
     /\ fact' = [fact EXCEPT ![job[w].image] = f]
     /\ j.at = "post" => /\ posts[job[w].image] = 0 /\ fact[job[w].image].state = "prepared"
                         /\ f.state = "dispatch_started"
     /\ Become(w, j) \/ Become(w, k)
  \/ UNCHANGED fact /\ Become(w, k)

LEMMA TransactionKeeps ==
  ASSUME ImageTypeOK, ImageInv, NEW w \in Workers, NEW f, NEW j, NEW k, Transaction(w, f, j, k),
         UNCHANGED <<phase, provider, posts, pointVars>>, evidence' \in SUBSET Images,
         j \in Jobs, j.image = job[w].image, Claims(j), j.at # "finalize", Safe(w, k)
  PROVE  ImageTypeOK' /\ ImageInv'
<1>1. /\ k \in Jobs /\ k.image = job[w].image /\ Claims(k) /\ k.at # "finalize" /\ k.at # "post"
      /\ job[w].image \in Images
  BY DEF Safe, ImageTypeOK, Jobs
<1>2. ASSUME fact' \in [Images -> Facts], job' \in [Workers -> Jobs] PROVE ImageTypeOK'
  BY <1>2 DEF ImageTypeOK
<1>3. ASSUME f \in Facts, Follows(job[w].image, f), fact' = [fact EXCEPT ![job[w].image] = f]
      PROVE  fact' \in [Images -> Facts]
  BY <1>1, <1>3 DEF ImageTypeOK
<1>4. ASSUME NEW i \in Jobs, Become(w, i) PROVE job' \in [Workers -> Jobs]
  BY <1>4 DEF ImageTypeOK, Become
<1>5. CASE /\ f \in Facts /\ Follows(job[w].image, f)
           /\ fact' = [fact EXCEPT ![job[w].image] = f]
           /\ j.at = "post" => /\ posts[job[w].image] = 0 /\ fact[job[w].image].state = "prepared"
                               /\ f.state = "dispatch_started"
           /\ Become(w, j)
  BY <1>2, <1>3, <1>4, <1>5, Writes
<1>6. CASE /\ f \in Facts /\ Follows(job[w].image, f)
           /\ fact' = [fact EXCEPT ![job[w].image] = f]
           /\ Become(w, k)
  BY <1>1, <1>2, <1>3, <1>4, <1>6, Writes
<1>7. CASE UNCHANGED fact /\ Become(w, k)
  <2>1. ImageInv'
    BY <1>7, SafeMoves
  <2>2. QED
    BY <1>1, <1>2, <1>4, <1>7, <2>1 DEF ImageTypeOK
<1> QED
  BY <1>5, <1>6, <1>7 DEF Transaction

\* Where both outcomes ask nothing of the fact.
LEMMA SafeTransaction ==
  ASSUME ImageTypeOK, ImageInv, NEW w \in Workers, NEW f, NEW j, NEW k,
         \/ /\ f \in Facts /\ Follows(job[w].image, f)
            /\ fact' = [fact EXCEPT ![job[w].image] = f]
            /\ Become(w, j) \/ Become(w, k)
         \/ UNCHANGED fact /\ Become(w, k),
         UNCHANGED <<phase, provider, posts, pointVars>>, evidence' \in SUBSET Images,
         Safe(w, j), Safe(w, k)
  PROVE  ImageTypeOK' /\ ImageInv'
<1>1. j \in Jobs /\ j.image = job[w].image /\ Claims(j) /\ j.at # "finalize" /\ j.at # "post"
  BY DEF Safe
<1>2. Transaction(w, f, j, k)
  BY <1>1 DEF Transaction
<1> QED
  BY <1>1, <1>2, TransactionKeeps

-----------------------------------------------------------------------------
(* Steps that do not write to the fact *)

\* The intent and the fact that an attempt reads are only carried along.
LEMMA CarryingSafe ==
  ASSUME ImageTypeOK, ImageInv, NEW w \in Workers, NEW j, Safe(w, j)
  PROVE  /\ \A intent \in Intents : Safe(w, [j EXCEPT !.intent = intent])
         /\ \A f \in Facts : Safe(w, [j EXCEPT !.seen = f])
         /\ provider[job[w].image] = "rejected" => Safe(w, [j EXCEPT !.refused = TRUE])
<1>1. ASSUME NEW i \in Jobs, i.at = j.at, i.image = j.image, i.caller = j.caller,
             i.refused = j.refused \/ (i.refused /\ provider[job[w].image] = "rejected")
      PROVE  Safe(w, i)
  BY <1>1 DEF Safe, Claims
<1>2. j \in Jobs
  BY DEF Safe
<1>3. ASSUME NEW intent \in Intents PROVE Safe(w, [j EXCEPT !.intent = intent])
  <2>1. PICK i : i = [j EXCEPT !.intent = intent]
    OBVIOUS
  <2>2. i \in Jobs /\ i.at = j.at /\ i.image = j.image /\ i.caller = j.caller /\ i.refused = j.refused
    BY <1>2, <2>1, SMT DEF Jobs
  <2>3. QED
    BY <1>1, <2>1, <2>2
<1>4. ASSUME NEW f \in Facts PROVE Safe(w, [j EXCEPT !.seen = f])
  <2>1. PICK i : i = [j EXCEPT !.seen = f]
    OBVIOUS
  <2>2. i \in Jobs /\ i.at = j.at /\ i.image = j.image /\ i.caller = j.caller /\ i.refused = j.refused
    BY <1>2, <2>1, SMT DEF Jobs
  <2>3. QED
    BY <1>1, <2>1, <2>2
<1>5. ASSUME provider[job[w].image] = "rejected" PROVE Safe(w, [j EXCEPT !.refused = TRUE])
  <2>1. PICK i : i = [j EXCEPT !.refused = TRUE]
    OBVIOUS
  <2>2. i \in Jobs /\ i.at = j.at /\ i.image = j.image /\ i.caller = j.caller /\ i.refused
    BY <1>2, <2>1 DEF Jobs
  <2>3. QED
    BY <1>1, <1>5, <2>1, <2>2
<1> QED
  BY <1>3, <1>4, <1>5

\* The limit version and the month fit into an intent.
LEMMA FrozenIs ==
  ASSUME PointTypeOK, NEW a \in Images
  PROVE  Frozen(a) \in Intents
<1>1. limit[Payer[a]].version \in Balances /\ month \in Months
  BY PointInputs DEF PointTypeOK, LimitRows, Attempts
<1> QED
  BY <1>1 DEF Frozen, Intents

\* Waiting for the provider, and what follows.
LEMMA AnswerSafe ==
  ASSUME ImageTypeOK, ImageInv, NEW w \in Workers, Await(w) \/ ReadAfter(w)
  PROVE  \E j : Safe(w, j) /\ Become(w, j)
<1>0. /\ job[w] \in Jobs /\ Claims(job[w]) /\ "unknown" \in Plain /\ "charged" \in Callers
      /\ "observe" \in Steps /\ "reject" \in Steps
  BY DEF ImageTypeOK, ImageInv, Knows, Plain, Steps, Sent, Callers
<1>1. CASE Await(w)
  <2>0. job[w].at \in Sent
    BY <1>1 DEF Await, At, Sent
  <2>1. CASE Go(w, "read_after")
    BY <2>0, <2>1, ToSent DEF Go
  <2>2. CASE provider[job[w].image] = "generated" /\ Go(w, "observe")
    <3>1. PICK j : j = To(w, "observe")
      OBVIOUS
    <3>2. /\ j \in Jobs /\ j.at = "observe" /\ j.image = job[w].image
          /\ j.caller = job[w].caller /\ j.refused = job[w].refused
      BY <1>0, <3>1, ToIs
    <3>3. Safe(w, j)
      BY <1>0, <2>0, <2>2, <3>2 DEF Safe, Claims
    <3>4. QED
      BY <2>2, <3>1, <3>3 DEF Go
  <2>3. CASE /\ provider[job[w].image] = "rejected"
             /\ Become(w, [To(w, "read_after") EXCEPT !.refused = TRUE])
    BY <2>0, <2>3, ToSent, CarryingSafe
  <2>4. QED
    BY <1>1, <2>1, <2>2, <2>3 DEF Await
<1>2. CASE ReadAfter(w)
  <2>0. job[w].at \in Sent
    BY <1>2 DEF ReadAfter, At, Sent
  <2>1. CASE Go(w, "unknown") \/ Become(w, Calling(w, "charged"))
    BY <1>0, <2>1, ToPlain, CallingSafe DEF Go
  <2>2. CASE Become(w, To(w, "mark_unknown"))
    BY <2>0, <2>2, ToSent
  <2>3. CASE job[w].refused /\ Become(w, To(w, "reject"))
    <3>1. PICK j : j = To(w, "reject")
      OBVIOUS
    <3>2. /\ j \in Jobs /\ j.at = "reject" /\ j.image = job[w].image
          /\ j.caller = job[w].caller /\ j.refused = job[w].refused
      BY <1>0, <3>1, ToIs
    <3>3. Safe(w, j)
      BY <1>0, <2>0, <2>3, <3>2 DEF Safe, Claims
    <3>4. QED
      BY <2>3, <3>1, <3>3
  <2>4. QED
    BY <1>2, <2>1, <2>2, <2>3 DEF ReadAfter
<1> QED
  BY <1>1, <1>2

\* Reads, the provider claim and what becomes of it.
LEMMA QuietSafe ==
  ASSUME PointTypeOK, ImageTypeOK, ImageInv, NEW w \in Workers,
         \/ ReadStale(w) \/ ReserveSlotProvider(w) \/ NotAcquired(w) \/ RecordOutcome(w)
         \/ ReadExisting(w) \/ ReadMemberLimit(w) \/ ReadReservable(w) \/ Crash(w)
  PROVE  \E j : Safe(w, j) /\ Become(w, j)
<1>0. /\ {"generate", "idle", "limit", "not_dispatched", "unknown", "prepare", "reserve",
          "close"} \subseteq Plain
      /\ job[w].image \in Images /\ fact[job[w].image] \in Facts
  BY DEF Plain, Steps, Sent, ImageTypeOK, Jobs
<1>1. CASE ReadStale(w)
  BY <1>1, ReconciledSafe DEF ReadStale
<1>2. CASE ReserveSlotProvider(w) \/ NotAcquired(w) \/ RecordOutcome(w) \/ ReadExisting(w) \/ Crash(w)
  <2>1. \E step \in {"generate", "idle", "limit", "not_dispatched", "unknown"} : Go(w, step)
    BY <1>2 DEF ReserveSlotProvider, NotAcquired, RecordOutcome, ReadExisting, Crash
  <2>2. QED
    BY <1>0, <2>1, ToPlain DEF Go
<1>3. CASE ReadMemberLimit(w)
  <2>1. Frozen(job[w].image) \in Intents
    BY <1>0, FrozenIs
  <2>2. QED
    BY <1>0, <1>3, <2>1, ToPlain, CarryingSafe DEF ReadMemberLimit, Go
<1>4. CASE ReadReservable(w)
  BY <1>0, <1>4, ToPlain, CarryingSafe DEF ReadReservable, Go
<1> QED
  BY <1>1, <1>2, <1>3, <1>4

LEMMA QuietStep ==
  ASSUME PointTypeOK, ImageTypeOK, ImageInv, NEW w \in Workers,
         \/ ReadStale(w) \/ ReserveSlotProvider(w) \/ NotAcquired(w) \/ RecordOutcome(w)
         \/ ReadExisting(w) \/ ReadMemberLimit(w) \/ ReadReservable(w) \/ Crash(w)
         \/ Await(w) \/ ReadAfter(w)
  PROVE  ImageTypeOK' /\ ImageInv'
<1>1. PICK j : Safe(w, j) /\ Become(w, j)
  BY QuietSafe, AnswerSafe
<1>2. UNCHANGED <<fact, evidence, provider, posts, pointVars>>
  BY DEF ReadStale, ReserveSlotProvider, NotAcquired, RecordOutcome, ReadExisting, ReadMemberLimit,
     ReadReservable, Crash, Await, ReadAfter
<1>3. phase' \in [Images -> Phases]
  <2>1. \/ phase' = phase
        \/ \E p \in Phases : phase' = [phase EXCEPT ![job[w].image] = p]
    <3>1. CASE ReserveSlotProvider(w) \/ NotAcquired(w)
      BY <3>1 DEF ReserveSlotProvider, NotAcquired, Phases
    <3>2. CASE RecordOutcome(w)
      BY <3>2 DEF RecordOutcome, At, Phases
    <3>3. QED
      BY <3>1, <3>2 DEF ReadStale, ReadExisting, ReadMemberLimit, ReadReservable, Crash, Await,
         ReadAfter
  <2>2. QED
    BY <2>1 DEF ImageTypeOK
<1>4. ImageInv'
  BY <1>1, <1>2, SafeMoves
<1> QED
  BY <1>1, <1>2, <1>3, <1>4 DEF ImageTypeOK, Become, Safe

\* Temporal starts an attempt, which knows nothing.
LEMMA StartStep ==
  ASSUME ImageTypeOK, ImageInv, NEW w \in Workers, NEW a \in Images, Start(w, a)
  PROVE  ImageTypeOK' /\ ImageInv'
<1>1. PICK i : i = Idle(a)
  OBVIOUS
<1>2. PICK j : j = [i EXCEPT !.at = "read"]
  OBVIOUS
<1>3. i \in Jobs /\ i.caller = "none" /\ i.refused = FALSE
  BY <1>1, IdleIs
<1>4. j \in Jobs /\ j.at = "read" /\ j.caller = "none" /\ j.refused = FALSE
  BY <1>2, <1>3 DEF Jobs, Steps
<1>5. Knows(j)
  BY <1>4 DEF Knows, Claims, Sent
<1>6. Become(w, j) /\ UNCHANGED <<fact, evidence, phase, provider, posts, pointVars>>
  BY <1>1, <1>2 DEF Start
<1>7. \A b \in Images : SameImage(b)
  BY <1>6 DEF SameImage, pointVars
<1>8. ImageInv'
  BY <1>4, <1>5, <1>6, <1>7, Moves
<1> QED
  BY <1>4, <1>6, <1>8 DEF ImageTypeOK, Become

\* FinalizeImageGeneration has read a terminal fact, which stays as it is.
LEMMA TerminalStep ==
  ASSUME ImageTypeOK, ImageInv, NEW w \in Workers, ReadTerminal(w)
  PROVE  ImageTypeOK' /\ ImageInv'
<1>0. UNCHANGED <<fact, evidence, phase, provider, posts, pointVars>>
  BY DEF ReadTerminal
<1>1. CASE Become(w, Failed(w))
  <2>1. PICK j : Safe(w, j) /\ Become(w, j)
    BY <1>1, FailedSafe
  <2>2. ImageInv'
    BY <1>0, <2>1, SafeMoves
  <2>3. QED
    BY <1>0, <2>1, <2>2 DEF ImageTypeOK, Become, Safe
<1>2. CASE /\ fact[job[w].image].state \in {"provider_succeeded", "no_generation"}
           /\ Become(w, [To(w, "finalize") EXCEPT !.seen = fact[job[w].image]])
  <2>1. PICK i : i = To(w, "finalize")
    OBVIOUS
  <2>2. PICK f : f = fact[job[w].image]
    OBVIOUS
  <2>3. PICK j : j = [i EXCEPT !.seen = f]
    OBVIOUS
  <2>4. job[w] \in Jobs /\ Claims(job[w]) /\ f \in Facts /\ "finalize" \in Steps
    BY <2>2 DEF ImageTypeOK, ImageInv, Knows, Jobs, Steps
  <2>5. /\ i \in Jobs /\ i.at = "finalize" /\ i.image = job[w].image
        /\ i.caller = job[w].caller /\ i.refused = job[w].refused
    BY <2>1, <2>4, ToIs
  <2>6. /\ j \in Jobs /\ j.at = "finalize" /\ j.image = job[w].image
        /\ j.caller = job[w].caller /\ j.refused = job[w].refused /\ j.seen = f
    BY <2>3, <2>4, <2>5, SMT DEF Jobs
  <2>7. Knows(j)
    <3>1. Claims(j)
      BY <2>4, <2>6 DEF Claims, Sent
    <3>2. QED
      BY <1>2, <2>2, <2>6, <3>1 DEF Knows, Final
  <2>8. Become(w, j)
    BY <1>2, <2>1, <2>2, <2>3
  <2>9. ImageInv'
    <3>1. \A b \in Images : SameImage(b)
      BY <1>0 DEF SameImage, pointVars
    <3>2. QED
      BY <2>6, <2>7, <2>8, <3>1, Moves
  <2>10. QED
    BY <1>0, <2>6, <2>8, <2>9 DEF ImageTypeOK, Become
<1> QED
  BY <1>1, <1>2 DEF ReadTerminal

-----------------------------------------------------------------------------
(* Transactions on the fact *)

\* A row that differs from the fact of an image in its state only.
LEMMA StateFollows ==
  ASSUME ImageTypeOK, ImageInv, NEW a \in Images, NEW f, NEW state \in FactStates, NEW g,
         f = fact[a], g = SetState(f, state),
         \/ f.state = state
         \/ f.state = "prepared" /\ state = "no_generation"
         \/ f.state = "prepared" /\ f.bound /\ state = "dispatch_started"
         \/ f.state = "dispatch_started" /\ state = "unknown"
         \/ f.state \in {"dispatch_started", "unknown"} /\ state = "provider_succeeded"
              /\ provider[a] = "generated"
         \/ f.state \in {"dispatch_started", "unknown"} /\ state = "no_generation"
              /\ provider[a] = "rejected"
  PROVE  g \in Facts /\ Follows(a, g)
<1>1. /\ g \in Facts /\ g.state = state /\ g.bound = f.bound /\ g.settlement = f.settlement
      /\ FactTrue(a, f) /\ FactPaid(a, f)
  BY StateIs DEF ImageTypeOK, ImageInv
<1>2. FactTrue(a, g)
  BY <1>1 DEF FactTrue
<1>3. FactPaid(a, g)
  <2>1. CASE f.state = state
    BY <1>1, <2>1 DEF FactPaid, MatchesSettlement
  <2>2. CASE f.state \in {"prepared", "dispatch_started", "unknown"}
    <3>1. f.settlement = "none" /\ hold[a].state \notin {"committed", "released"}
            /\ reserveOp[a] # "failed"
      BY <1>1, <2>2 DEF FactPaid, MatchesSettlement
    <3>2. g.state \in Dispatched => g.bound
      BY <1>1 DEF FactPaid, Dispatched
    <3>3. QED
      BY <1>1, <3>1, <3>2 DEF FactPaid
  <2>3. QED
    BY <2>1, <2>2
<1>4. provider[a] \in {"generated", "rejected"} => posts[a] # 0
  BY <1>1 DEF FactTrue
<1>5. /\ f.state \in Final => g.state = f.state
      /\ f.state \in {"dispatch_started", "unknown"} /\ posts[a] = 0 =>
           g.state \in {"dispatch_started", "unknown"}
  BY <1>1, <1>4 DEF Final
<1> QED
  BY <1>1, <1>2, <1>3, <1>5 DEF Follows

LEMMA SameFollows ==
  ASSUME ImageTypeOK, ImageInv, NEW a \in Images
  PROVE  fact[a] \in Facts /\ Follows(a, fact[a])
BY DEF ImageTypeOK, ImageInv, Follows

\* The rows that the transactions write.
LEMMA RowsFollow ==
  ASSUME ImageTypeOK, ImageInv, NEW a \in Images
  PROVE  LET f == fact[a] IN
         /\ Closable(f) => LET g == SetState(f, "no_generation") IN g \in Facts /\ Follows(a, g)
         /\ Unknowable(f) => MarkUnknown(f) \in Facts /\ Follows(a, MarkUnknown(f))
         /\ Succeedable(f) /\ provider[a] = "generated" =>
              LET g == SetState(f, "provider_succeeded") IN g \in Facts /\ Follows(a, g)
         /\ Rejectable(a) /\ provider[a] = "rejected" =>
              LET g == SetState(f, "no_generation") IN g \in Facts /\ Follows(a, g)
         /\ Dispatchable(f) =>
              LET g == SetState(f, "dispatch_started") IN g \in Facts /\ Follows(a, g)
<1>0. PICK f : f = fact[a]
  OBVIOUS
<1>1. {"no_generation", "unknown", "provider_succeeded", "dispatch_started"} \subseteq FactStates
  BY DEF FactStates
<1>2. Closable(f) => SetState(f, "no_generation") \in Facts /\ Follows(a, SetState(f, "no_generation"))
  BY <1>0, <1>1, StateFollows DEF Closable
<1>3. Unknowable(f) => MarkUnknown(f) \in Facts /\ Follows(a, MarkUnknown(f))
  <2>1. CASE f.state = "provider_succeeded"
    BY <1>0, <2>1, SameFollows DEF MarkUnknown
  <2>2. CASE f.state \in {"dispatch_started", "unknown"}
    BY <1>0, <1>1, <2>2, StateFollows DEF MarkUnknown
  <2>3. QED
    BY <2>1, <2>2 DEF Unknowable
<1>4. Succeedable(f) /\ provider[a] = "generated" =>
        SetState(f, "provider_succeeded") \in Facts /\ Follows(a, SetState(f, "provider_succeeded"))
  BY <1>0, <1>1, StateFollows DEF Succeedable
<1>5. Rejectable(a) /\ provider[a] = "rejected" =>
        SetState(f, "no_generation") \in Facts /\ Follows(a, SetState(f, "no_generation"))
  BY <1>0, <1>1, StateFollows DEF Rejectable
<1>6. Dispatchable(f) =>
        SetState(f, "dispatch_started") \in Facts /\ Follows(a, SetState(f, "dispatch_started"))
  BY <1>0, <1>1, StateFollows DEF Dispatchable
<1> QED
  BY <1>0, <1>2, <1>3, <1>4, <1>5, <1>6

\* A new intent, a bound reservation and a bound settlement.
LEMMA ColumnsFollow ==
  ASSUME ImageTypeOK, ImageInv, NEW a \in Images, NEW f, f = fact[a]
  PROVE  /\ f.state = "none" => \A intent \in Intents :
              LET g == [NoFact EXCEPT !.state = "prepared", !.intent = intent] IN
              g \in Facts /\ Follows(a, g)
         /\ Bindable(f) /\ reserveOp[a] = "succeeded" =>
              LET g == [f EXCEPT !.bound = TRUE] IN g \in Facts /\ Follows(a, g)
         /\ MatchesSettlement(f, Receipt(a)) =>
              LET g == [f EXCEPT !.settlement = Receipt(a)] IN g \in Facts /\ Follows(a, g)
<1>0. f \in Facts /\ FactTrue(a, f) /\ FactPaid(a, f)
  BY DEF ImageTypeOK, ImageInv
<1>1. ASSUME f.state = "none", NEW intent \in Intents, NEW g,
             g = [NoFact EXCEPT !.state = "prepared", !.intent = intent]
      PROVE  g \in Facts /\ Follows(a, g)
  <2>1. g \in Facts /\ g.state = "prepared" /\ g.bound = FALSE /\ g.settlement = "none"
    BY <1>1, Zeros DEF NoFact, Facts, FactStates
  <2>2. QED
    BY <1>0, <1>1, <2>1 DEF Follows, FactTrue, FactPaid, Dispatched, Final
<1>2. ASSUME Bindable(f), reserveOp[a] = "succeeded", NEW g, g = [f EXCEPT !.bound = TRUE]
      PROVE  g \in Facts /\ Follows(a, g)
  <2>1. g \in Facts /\ g.state = f.state /\ g.bound = TRUE /\ g.settlement = f.settlement
    BY <1>0, <1>2 DEF Facts
  <2>2. FactTrue(a, g)
    BY <1>0, <2>1 DEF FactTrue
  <2>3. f.settlement # "none" => f.bound = TRUE
    BY <1>0, <1>2 DEF FactPaid, MatchesSettlement, Bindable, Facts
  <2>4. FactPaid(a, g)
    BY <1>0, <1>2, <2>1, <2>3 DEF FactPaid, MatchesSettlement
  <2>5. QED
    BY <2>1, <2>2, <2>4 DEF Follows
<1>3. ASSUME MatchesSettlement(f, Receipt(a)), NEW g, g = [f EXCEPT !.settlement = Receipt(a)]
      PROVE  g \in Facts /\ Follows(a, g)
  <2>1. Receipt(a) \in Settlements
    BY <1>3 DEF MatchesSettlement, Settlements
  <2>2. g \in Facts /\ g.state = f.state /\ g.bound = f.bound /\ g.settlement = Receipt(a)
    BY <1>0, <1>3, <2>1 DEF Facts
  <2>3. FactTrue(a, g)
    BY <1>0, <2>2 DEF FactTrue
  <2>4. FactPaid(a, g)
    BY <1>0, <1>3, <2>2 DEF FactPaid, MatchesSettlement
  <2>5. QED
    BY <2>2, <2>3, <2>4 DEF Follows
<1> QED
  BY <1>1, <1>2, <1>3

\* closeBeforeDispatch, and what the reconciliation makes of a fact that
\* another attempt left behind.
LEMMA CloseStep ==
  ASSUME ImageTypeOK, ImageInv, NEW w \in Workers,
         CloseStale(w) \/ MarkStale(w) \/ CloseBeforeDispatch(w) \/ MarkGenerationUnknown(w)
  PROVE  ImageTypeOK' /\ ImageInv'
<1>0. /\ job[w].image \in Images /\ "closed" \in Callers /\ "idle" \in Plain /\ "unknown" \in Plain
      /\ evidence \in SUBSET Images
  BY DEF ImageTypeOK, Jobs, Callers, Plain, Steps, Sent
<1>1. CASE CloseStale(w)
  BY <1>0, <1>1, RowsFollow, ReconciledSafe, ToPlain, SafeTransaction DEF CloseStale, Mutate
<1>2. CASE MarkStale(w)
  BY <1>0, <1>2, RowsFollow, ReconciledSafe, ToPlain, SafeTransaction DEF MarkStale, Mutate
<1>3. CASE CloseBeforeDispatch(w)
  BY <1>0, <1>3, RowsFollow, CallingSafe, ToPlain, SafeTransaction DEF CloseBeforeDispatch, Mutate
<1>4. CASE MarkGenerationUnknown(w)
  BY <1>0, <1>4, RowsFollow, ToPlain, SafeTransaction DEF MarkGenerationUnknown, Mutate
<1> QED
  BY <1>1, <1>2, <1>3, <1>4

\* The intent of a generation, and its reservation.
LEMMA PrepareStep ==
  ASSUME ImageTypeOK, ImageInv, NEW w \in Workers,
         PrepareGenerationIntent(w) \/ BindGenerationReservation(w)
  PROVE  ImageTypeOK' /\ ImageInv'
<1>0. /\ job[w].image \in Images /\ job[w].intent \in Intents /\ Claims(job[w])
      /\ "reserve_read" \in Plain /\ "begin" \in Plain /\ "close" \in Plain /\ "unknown" \in Plain
      /\ evidence \in SUBSET Images
  BY DEF ImageTypeOK, ImageInv, Knows, Jobs, Plain, Steps, Sent
<1>1. CASE PrepareGenerationIntent(w)
  <2>0. Safe(w, To(w, "reserve_read")) /\ Safe(w, To(w, "unknown"))
    BY <1>0, ToPlain
  <2>1. CASE fact[job[w].image].state = "none"
    <3>1. PICK g : g = [NoFact EXCEPT !.state = "prepared", !.intent = job[w].intent]
      OBVIOUS
    <3>2. g \in Facts /\ Follows(job[w].image, g)
      BY <1>0, <2>1, <3>1, ColumnsFollow
    <3>3. QED
      BY <1>0, <1>1, <2>0, <2>1, <3>1, <3>2, SafeTransaction DEF PrepareGenerationIntent, Mutate
  <2>2. CASE fact[job[w].image].state # "none"
    <3>1. fact[job[w].image] \in Facts /\ Follows(job[w].image, fact[job[w].image])
      BY <1>0, SameFollows
    <3>2. QED
      BY <1>0, <1>1, <2>0, <2>2, <3>1, SafeTransaction DEF PrepareGenerationIntent, Mutate
  <2>3. QED
    BY <2>1, <2>2
<1>2. CASE BindGenerationReservation(w)
  <2>1. PICK f, g : f = fact[job[w].image] /\ g = [f EXCEPT !.bound = TRUE]
    OBVIOUS
  <2>2. Bindable(f) => g \in Facts /\ Follows(job[w].image, g)
    <3>1. reserveOp[job[w].image] = "succeeded"
      BY <1>0, <1>2 DEF BindGenerationReservation, At, Claims
    <3>2. QED
      BY <1>0, <2>1, <3>1, ColumnsFollow
  <2>3. Safe(w, To(w, "begin")) /\ Safe(w, To(w, "close"))
    BY <1>0, ToPlain
  <2>4. QED
    BY <1>0, <1>2, <2>1, <2>2, <2>3, SafeTransaction DEF BindGenerationReservation, Mutate
<1> QED
  BY <1>1, <1>2

\* BeginDispatch is won once, and only the winner goes on to send.
LEMMA BeginStep ==
  ASSUME ImageTypeOK, ImageInv, NEW w \in Workers, BeginGenerationDispatch(w)
  PROVE  ImageTypeOK' /\ ImageInv'
<1>0. /\ job[w].image \in Images /\ Claims(job[w]) /\ job[w] \in Jobs
      /\ "close" \in Plain /\ "unknown" \in Plain /\ "post" \in Steps
      /\ UNCHANGED <<evidence, phase, provider, posts, pointVars>> /\ evidence \in SUBSET Images
  BY DEF ImageTypeOK, ImageInv, Knows, Jobs, Plain, Steps, Sent, BeginGenerationDispatch
<1>1. CASE Go(w, "close") /\ UNCHANGED fact
  BY <1>0, <1>1, ToPlain, SafeTransaction DEF Go
<1>2. CASE Mutate(w, Dispatchable(fact[job[w].image]),
                  SetState(fact[job[w].image], "dispatch_started"), To(w, "post"), To(w, "unknown"))
  <2>1. PICK f, g : f = fact[job[w].image] /\ g = SetState(f, "dispatch_started")
    OBVIOUS
  <2>2. PICK j : j = To(w, "post")
    OBVIOUS
  <2>3. /\ j \in Jobs /\ j.at = "post" /\ j.image = job[w].image
        /\ j.caller = job[w].caller /\ j.refused = job[w].refused
    BY <1>0, <2>2, ToIs
  <2>4. Claims(j)
    BY <1>0, <2>3 DEF Claims, Sent
  <2>5. Dispatchable(f) => /\ g \in Facts /\ Follows(job[w].image, g)
                           /\ posts[job[w].image] = 0 /\ f.state = "prepared"
                           /\ g.state = "dispatch_started"
    <3>1. f \in Facts /\ "dispatch_started" \in FactStates
      BY <1>0, <2>1 DEF ImageTypeOK, FactStates
    <3>2. g.state = "dispatch_started"
      BY <2>1, <3>1, StateIs
    <3>3. Dispatchable(f) => g \in Facts /\ Follows(job[w].image, g)
      BY <1>0, <2>1, RowsFollow
    <3>4. Dispatchable(f) => posts[job[w].image] = 0 /\ f.state = "prepared"
      BY <1>0, <2>1 DEF Dispatchable, ImageInv, FactTrue
    <3>5. QED
      BY <3>2, <3>3, <3>4
  <2>6. Safe(w, To(w, "unknown"))
    BY <1>0, ToPlain
  <2>7. Transaction(w, g, j, To(w, "unknown"))
    BY <1>2, <2>1, <2>2, <2>5 DEF Transaction, Mutate
  <2>8. QED
    BY <1>0, <2>3, <2>4, <2>6, <2>7, TransactionKeeps
<1> QED
  BY <1>1, <1>2 DEF BeginGenerationDispatch

\* What the attempt that sent the request writes about the answer.
LEMMA AnswerStep ==
  ASSUME ImageTypeOK, ImageInv, NEW w \in Workers,
         RecordGenerationSuccess(w) \/ RecordGenerationRejection(w)
  PROVE  ImageTypeOK' /\ ImageInv'
<1>0. /\ job[w].image \in Images /\ Claims(job[w]) /\ evidence \in SUBSET Images
      /\ "observe" \in Callers /\ "rejected" \in Callers /\ "unknown" \in Plain
  BY DEF ImageTypeOK, ImageInv, Knows, Jobs, Callers, Plain, Steps, Sent
<1>1. CASE RecordGenerationSuccess(w)
  <2>1. PICK f, g : f = fact[job[w].image] /\ g = SetState(f, "provider_succeeded")
    OBVIOUS
  <2>2. At(w, "observe") /\ job[w].at \in Sent /\ provider[job[w].image] = "generated"
    BY <1>0, <1>1 DEF RecordGenerationSuccess, At, Claims, Sent
  <2>3. Succeedable(f) => g \in Facts /\ Follows(job[w].image, g)
    BY <1>0, <2>1, <2>2, RowsFollow
  <2>4. Safe(w, Calling(w, "observe")) /\ Safe(w, To(w, "read_after"))
    BY <1>0, <2>2, CallingSafe, ToSent
  <2>5. QED
    BY <1>0, <1>1, <2>1, <2>3, <2>4, SafeTransaction DEF RecordGenerationSuccess, Mutate
<1>2. CASE RecordGenerationRejection(w)
  <2>1. PICK f, g : f = fact[job[w].image] /\ g = SetState(f, "no_generation")
    OBVIOUS
  <2>2. provider[job[w].image] = "rejected"
    BY <1>0, <1>2 DEF RecordGenerationRejection, At, Claims
  <2>3. Rejectable(job[w].image) => g \in Facts /\ Follows(job[w].image, g)
    BY <1>0, <2>1, <2>2, RowsFollow
  <2>4. Safe(w, Calling(w, "rejected")) /\ Safe(w, To(w, "unknown"))
    BY <1>0, CallingSafe, ToPlain
  <2>5. evidence' \in SUBSET Images
    BY <1>0, <1>2 DEF RecordGenerationRejection
  <2>6. QED
    BY <1>2, <2>1, <2>3, <2>4, <2>5, SafeTransaction DEF RecordGenerationRejection, Mutate
<1> QED
  BY <1>1, <1>2

\* The receipt of the ledger goes into the fact.
LEMMA BindSettlementStep ==
  ASSUME ImageTypeOK, ImageInv, NEW w \in Workers, BindGenerationSettlement(w)
  PROVE  ImageTypeOK' /\ ImageInv'
<1>0. job[w].image \in Images /\ evidence \in SUBSET Images
  BY DEF ImageTypeOK, Jobs
<1>1. PICK f, r, g : /\ f = fact[job[w].image] /\ r = Receipt(job[w].image)
                     /\ g = [f EXCEPT !.settlement = r]
  OBVIOUS
<1>2. PICK j \in Returns(w) :
        Mutate(w, MatchesSettlement(f, r) /\ f.settlement \in {"none", r}, g, j, Failed(w))
  BY <1>1 DEF BindGenerationSettlement
<1>3. MatchesSettlement(f, r) => g \in Facts /\ Follows(job[w].image, g)
  BY <1>0, <1>1, ColumnsFollow
<1>4. Safe(w, j) /\ Safe(w, Failed(w))
  BY ReturnsSafe, FailedSafe
<1>5. UNCHANGED <<evidence, phase, provider, posts, pointVars>>
  BY DEF BindGenerationSettlement
<1> QED
  BY <1>0, <1>2, <1>3, <1>4, <1>5, SafeTransaction DEF Mutate

-----------------------------------------------------------------------------
(* The provider *)

\* The one attempt that won the dispatch sends the request.
LEMMA PostStep ==
  ASSUME ImageTypeOK, ImageInv, NEW w \in Workers, Post(w)
  PROVE  ImageTypeOK' /\ ImageInv'
<1>1. PICK a : a = job[w].image /\ a \in Images
  BY DEF ImageTypeOK, Jobs
<1>2. /\ Claims(job[w]) /\ posts[a] = 0 /\ fact[a].state \in {"dispatch_started", "unknown"}
      /\ FactTrue(a, fact[a]) /\ FactPaid(a, fact[a]) /\ job[w] \in Jobs /\ At(w, "post")
      /\ "await" \in Steps
  BY <1>1 DEF ImageTypeOK, ImageInv, Knows, Post, At, Steps
<1>3. provider[a] = "idle"
  BY <1>2 DEF FactTrue
<1>4. /\ posts' = [posts EXCEPT ![a] = 1] /\ provider' = [provider EXCEPT ![a] = "sent"]
      /\ UNCHANGED <<fact, evidence, phase, pointVars>>
  BY <1>1, <1>2, <1>3, SMT DEF Post, ImageTypeOK
<1>5. PICK j : j = To(w, "await")
  OBVIOUS
<1>6. /\ j \in Jobs /\ j.at = "await" /\ j.image = a /\ j.caller = job[w].caller
      /\ j.refused = job[w].refused /\ Become(w, j)
  BY <1>1, <1>2, <1>5, ToIs DEF Post, Go
<1>7. /\ posts'[a] = 1 /\ provider'[a] = "sent" /\ 1 \in Nat /\ 1 # 0
      /\ \A b \in Images \ {a} : posts'[b] = posts[b] /\ provider'[b] = provider[b]
  BY <1>1, <1>4, SMT DEF ImageTypeOK
<1>8. ImageTypeOK'
  BY <1>1, <1>4, <1>6, <1>7 DEF ImageTypeOK, Become
<1>9. \A b \in Images \ {a} : SameImage(b)
  BY <1>4, <1>7 DEF SameImage, pointVars
<1>10. FactTrue(a, fact[a])' /\ FactPaid(a, fact[a])'
  <2>1. FactTrue(a, fact[a])'
    BY <1>2, <1>4, <1>7 DEF FactTrue
  <2>2. Receipt(a)' = Receipt(a)
    BY <1>4 DEF Receipt, pointVars
  <2>3. FactPaid(a, fact[a])'
    BY <1>2, <1>4, <2>2 DEF FactPaid, MatchesSettlement, pointVars
  <2>4. QED
    BY <2>1, <2>3
<1>11. Knows(j)'
  BY <1>1, <1>2, <1>3, <1>6, <1>7 DEF Knows, Claims
<1>12. ASSUME NEW v \in Workers \ {w}, job[v].image = a PROVE Knows(job[v])'
  <2>1. PICK i : i = job[v]
    OBVIOUS
  <2>2. Knows(i) /\ i.image = a /\ job'[v] = i /\ i.at # "post"
    BY <1>1, <1>2, <1>6, <1>12, <2>1 DEF ImageInv, OneSender, At, ImageTypeOK, Become
  <2>3. Knows(i)'
    BY <1>2, <1>3, <1>4, <1>7, <2>2 DEF Knows, Claims, pointVars
  <2>4. QED
    BY <2>2, <2>3
<1>13. ImageInv'
  BY <1>1, <1>6, <1>9, <1>10, <1>11, <1>12, StepKeeps
<1> QED
  BY <1>8, <1>13

\* The provider answers; whoever knows an answer knows that it is not awaited.
LEMMA ProviderKeeps ==
  ASSUME ImageTypeOK, ImageInv, NEW a \in Images, ProviderStep(a)
  PROVE  ImageTypeOK' /\ ImageInv'
<1>1. PICK reply \in {"generated", "rejected"} : provider' = [provider EXCEPT ![a] = reply]
  BY DEF ProviderStep
<1>2. provider[a] = "sent" /\ UNCHANGED <<fact, evidence, phase, job, posts, pointVars>>
  BY DEF ProviderStep
<1>3. provider'[a] = reply /\ \A b \in Images \ {a} : provider'[b] = provider[b]
  BY <1>1 DEF ImageTypeOK
<1>4. ImageTypeOK'
  BY <1>1, <1>2 DEF ImageTypeOK
<1>5. \A b \in Images \ {a} : SameImage(b)
  BY <1>2, <1>3 DEF SameImage, pointVars
<1>6. FactTrue(a, fact[a])' /\ FactPaid(a, fact[a])'
  <2>1. FactTrue(a, fact[a]) /\ FactPaid(a, fact[a])
    BY DEF ImageInv
  <2>2. FactTrue(a, fact[a])'
    BY <1>2, <1>3, <2>1 DEF FactTrue
  <2>3. Receipt(a)' = Receipt(a)
    BY <1>2 DEF Receipt, pointVars
  <2>4. FactPaid(a, fact[a])'
    BY <1>2, <2>1, <2>3 DEF FactPaid, MatchesSettlement, pointVars
  <2>5. QED
    BY <2>2, <2>4
<1>7. ASSUME NEW w \in Workers PROVE Knows(job[w])'
  <2>1. PICK i : i = job[w]
    OBVIOUS
  <2>2. Knows(i) /\ i.image \in Images /\ job'[w] = i
    BY <1>2, <2>1 DEF ImageInv, ImageTypeOK, Jobs
  <2>3. CASE i.image = a
    <3>1. ~i.refused /\ i.at # "observe"
      BY <1>2, <2>2, <2>3 DEF Knows, Claims
    <3>2. Knows(i)'
      BY <1>2, <2>2, <2>3, <3>1 DEF Knows, Claims, pointVars
    <3>3. QED
      BY <2>2, <3>2
  <2>4. CASE i.image # a
    <3>1. Knows(i)'
      BY <1>5, <2>2, <2>4, SameImageKeeps
    <3>2. QED
      BY <2>2, <3>1
  <2>5. QED
    BY <2>3, <2>4
<1>8. OneSender'
  BY <1>2 DEF ImageInv, OneSender, At
<1>9. \A b \in Images : (FactTrue(b, fact[b]) /\ FactPaid(b, fact[b]))'
  BY <1>5, <1>6, SameImageKeeps DEF ImageInv
<1> QED
  BY <1>4, <1>7, <1>8, <1>9 DEF ImageInv

-----------------------------------------------------------------------------
(* The ledger *)

\* The ledger touches the rows of the image it works on, and of no other.
LEMMA LedgerTouches ==
  ASSUME PointTypeOK, NEW a \in Images,
         \/ \E mo : Reserve(a, mo)
         \/ \E outcome, used : Finalize(a, outcome, used)
         \/ CloseReserve(a)
  PROVE  \A b \in Images \ {a} : hold'[b] = hold[b] /\ reserveOp'[b] = reserveOp[b]
BY DEF PointTypeOK, Reserve, Finalize, CloseReserve, Attempts

\* What an operation of the ledger makes of the rows of its image.
LEMMA LedgerRows ==
  ASSUME PointTypeOK, OperationsAgree, NEW a \in Images
  PROVE  /\ \A mo : Reserve(a, mo) =>
              /\ reserveOp[a] = "none" /\ hold[a].state = "none"
              /\ reserveOp'[a] = "succeeded" /\ hold'[a].state = "reserved"
         /\ \A outcome, used : Finalize(a, outcome, used) =>
              /\ reserveOp[a] = "succeeded" /\ hold[a].state = "reserved"
              /\ reserveOp'[a] = "succeeded" /\ hold'[a].state = outcome
         /\ CloseReserve(a) =>
              /\ reserveOp[a] = "none" /\ hold[a].state = "none"
              /\ reserveOp'[a] = "failed" /\ hold'[a].state = "none"
<1>0. a \in Attempts
  BY DEF Attempts
<1>1. \A row, state, mo, used : row = HoldRow(state, mo, used) => row.state = state
  BY SMT DEF HoldRow
<1>2. ASSUME NEW mo, Reserve(a, mo)
      PROVE  /\ reserveOp[a] = "none" /\ hold[a].state = "none"
             /\ reserveOp'[a] = "succeeded" /\ hold'[a].state = "reserved"
  <2>1. reserveOp'[a] = "succeeded" /\ hold'[a] = HoldRow("reserved", mo, 0) /\ reserveOp[a] = "none"
    BY <1>0, <1>2 DEF Reserve, Reservable, PointTypeOK
  <2>2. hold'[a].state = "reserved"
    BY <1>1, <2>1
  <2>3. QED
    BY <1>0, <2>1, <2>2 DEF OperationsAgree
<1>3. ASSUME NEW outcome, NEW used, Finalize(a, outcome, used)
      PROVE  /\ reserveOp[a] = "succeeded" /\ hold[a].state = "reserved"
             /\ reserveOp'[a] = "succeeded" /\ hold'[a].state = outcome
  <2>1. /\ reserveOp[a] = "succeeded" /\ hold[a].state = "reserved" /\ reserveOp' = reserveOp
        /\ hold'[a] = HoldRow(outcome, hold[a].month, used)
    BY <1>0, <1>3 DEF Finalize, Unfinalized, PointTypeOK
  <2>2. hold'[a].state = outcome
    BY <1>1, <2>1
  <2>3. QED
    BY <2>1, <2>2
<1>4. ASSUME CloseReserve(a)
      PROVE  /\ reserveOp[a] = "none" /\ hold[a].state = "none"
             /\ reserveOp'[a] = "failed" /\ hold'[a].state = "none"
  BY <1>0, <1>4 DEF CloseReserve, OperationsAgree, PointTypeOK
<1> QED
  BY <1>2, <1>3, <1>4

\* The ledger works for an attempt, which goes on.
LEMMA LedgerKeeps ==
  ASSUME ImageTypeOK, ImageInv, NEW w \in Workers, NEW j \in Jobs, NEW a \in Images,
         a = job[w].image, Become(w, j), j.image = a, j.at \notin {"post", "finalize"}, Claims(j)',
         UNCHANGED <<fact, evidence, phase, provider, posts>>,
         \A b \in Images \ {a} : hold'[b] = hold[b] /\ reserveOp'[b] = reserveOp[b],
         reserveOp[a] = "succeeded" => reserveOp'[a] = "succeeded",
         FactPaid(a, fact[a])'
  PROVE  ImageTypeOK' /\ ImageInv'
<1>1. ImageTypeOK'
  BY DEF ImageTypeOK, Become
<1>2. \A b \in Images \ {a} : SameImage(b)
  BY DEF SameImage
<1>3. FactTrue(a, fact[a])'
  BY DEF ImageInv, FactTrue
<1>4. Knows(j)'
  BY DEF Knows
<1>5. ASSUME NEW v \in Workers \ {w}, job[v].image = a PROVE Knows(job[v])'
  <2>1. PICK i : i = job[v]
    OBVIOUS
  <2>2. Knows(i) /\ i.image = a /\ job'[v] = i
    BY <1>5, <2>1 DEF ImageInv, ImageTypeOK, Become
  <2>3. Knows(i)'
    BY <2>2 DEF Knows, Claims
  <2>4. QED
    BY <2>2, <2>3
<1>6. ImageInv'
  BY <1>2, <1>3, <1>4, <1>5, StepKeeps
<1> QED
  BY <1>1, <1>6

\* The reservation is opened, repeated or refused.
LEMMA ReserveStep ==
  ASSUME PointTypeOK, OperationsAgree, ImageTypeOK, ImageInv, NEW w \in Workers, ReservePoints(w)
  PROVE  ImageTypeOK' /\ ImageInv'
<1>0. /\ UNCHANGED <<fact, evidence, phase, provider, posts>> /\ job[w] \in Jobs /\ Claims(job[w])
      /\ "close" \in Plain /\ "bind" \in Steps
  BY DEF ReservePoints, ImageTypeOK, ImageInv, Knows, Plain, Steps, Sent
<1>1. PICK a : a = job[w].image /\ a \in Images
  BY DEF ImageTypeOK, Jobs
<1>2. FactPaid(a, fact[a])
  BY <1>1 DEF ImageInv
<1>3. ASSUME NEW step \in {"close", "bind"}, Go(w, step),
             \A b \in Images \ {a} : hold'[b] = hold[b] /\ reserveOp'[b] = reserveOp[b],
             reserveOp'[a] = "succeeded", FactPaid(a, fact[a])'
      PROVE  ImageTypeOK' /\ ImageInv'
  <2>1. PICK j : j = To(w, step)
    OBVIOUS
  <2>2. step \in Steps /\ step # "idle" /\ step \notin Sent \cup {"post", "finalize"}
    BY DEF Steps, Sent
  <2>3. /\ j \in Jobs /\ j.at = step /\ j.image = a /\ j.caller = job[w].caller
        /\ j.refused = job[w].refused /\ Become(w, j)
    <3>1. /\ j \in Jobs /\ j.at = step /\ j.image = job[w].image /\ j.caller = job[w].caller
          /\ j.refused = job[w].refused
      BY <1>0, <2>1, <2>2, ToIs
    <3>2. QED
      BY <1>1, <1>3, <2>1, <3>1 DEF Go
  <2>4. Claims(j)'
    BY <1>0, <1>1, <1>3, <2>2, <2>3 DEF Claims, Sent
  <2>5. QED
    BY <1>0, <1>1, <1>3, <2>2, <2>3, <2>4, LedgerKeeps
<1>4. CASE Go(w, "close") /\ UNCHANGED pointVars
  <2>1. Safe(w, To(w, "close"))
    BY <1>0, ToPlain
  <2>2. evidence' \in SUBSET Images
    BY <1>0 DEF ImageTypeOK
  <2>3. QED
    BY <1>0, <1>4, <2>1, <2>2, SafeTransaction DEF Go
<1>5. CASE Go(w, "bind") /\ reserveOp[a] = "succeeded" /\ UNCHANGED pointVars
  <2>1. Receipt(a)' = Receipt(a)
    BY <1>5 DEF Receipt, pointVars
  <2>2. FactPaid(a, fact[a])'
    BY <1>0, <1>2, <1>5, <2>1 DEF FactPaid, MatchesSettlement, pointVars
  <2>3. QED
    BY <1>3, <1>5, <2>2 DEF pointVars
<1>6. ASSUME NEW mo, Reserve(a, mo), Go(w, "close") \/ Go(w, "bind")
      PROVE  ImageTypeOK' /\ ImageInv'
  <2>1. /\ reserveOp[a] = "none" /\ hold[a].state = "none"
        /\ reserveOp'[a] = "succeeded" /\ hold'[a].state = "reserved"
    BY <1>1, <1>6, LedgerRows
  <2>2. ~fact[a].bound /\ fact[a].settlement = "none"
    BY <1>2, <2>1 DEF FactPaid, Receipt, MatchesSettlement
  <2>3. FactPaid(a, fact[a])'
    BY <1>0, <1>2, <2>1, <2>2 DEF FactPaid
  <2>4. \A b \in Images \ {a} : hold'[b] = hold[b] /\ reserveOp'[b] = reserveOp[b]
    BY <1>1, <1>6, LedgerTouches
  <2>5. QED
    BY <1>3, <1>6, <2>1, <2>3, <2>4
<1> QED
  BY <1>1, <1>4, <1>5, <1>6 DEF ReservePoints, ReserveImageGeneration

\* The fact that a finalization read is still the fact, so the ledger settles
\* an image as its fact says.
LEMMA FinalizeStep ==
  ASSUME PointTypeOK, OperationsAgree, ImageTypeOK, ImageInv, NEW w \in Workers, FinalizePoints(w)
  PROVE  ImageTypeOK' /\ ImageInv'
<1>0. /\ UNCHANGED <<fact, evidence, phase, provider, posts>> /\ Knows(job[w])
      /\ "bind_settlement" \in Plain /\ evidence' \in SUBSET Images
  BY DEF FinalizePoints, ImageTypeOK, ImageInv, Plain, Steps, Sent
<1>1. PICK a : a = job[w].image /\ a \in Images
  BY DEF ImageTypeOK, Jobs
<1>2. FactPaid(a, fact[a]) /\ job[w].seen.state = fact[a].state
  BY <1>0, <1>1 DEF ImageInv, Knows, FinalizePoints, At
<1>3. Safe(w, To(w, "bind_settlement")) /\ Safe(w, Failed(w))
  BY <1>0, ToPlain, FailedSafe
<1>4. PICK j : Become(w, j) /\ Safe(w, j)
  BY <1>3 DEF FinalizePoints, Go
<1>5. CASE UNCHANGED pointVars
  BY <1>0, <1>4, <1>5, SafeTransaction
<1>6. ASSUME \A b \in Images \ {a} : hold'[b] = hold[b] /\ reserveOp'[b] = reserveOp[b],
             reserveOp[a] = "succeeded" => reserveOp'[a] = "succeeded", FactPaid(a, fact[a])'
      PROVE  ImageTypeOK' /\ ImageInv'
  <2>1. j \in Jobs /\ j.image = a /\ j.at \notin {"post", "finalize"} /\ Claims(j)
    BY <1>1, <1>4 DEF Safe
  <2>2. Claims(j)'
    BY <1>0, <1>6, <2>1 DEF Claims
  <2>3. QED
    BY <1>0, <1>1, <1>4, <1>6, <2>1, <2>2, LedgerKeeps
<1>7. ASSUME NEW outcome, NEW used, Finalize(a, outcome, used),
             \/ fact[a].state = "provider_succeeded" /\ outcome = "committed"
             \/ fact[a].state = "no_generation" /\ outcome = "released"
      PROVE  ImageTypeOK' /\ ImageInv'
  <2>1. /\ reserveOp[a] = "succeeded" /\ hold[a].state = "reserved"
        /\ reserveOp'[a] = "succeeded" /\ hold'[a].state = outcome
    BY <1>1, <1>7, LedgerRows
  <2>2. fact[a].settlement = "none"
    BY <1>2, <2>1 DEF FactPaid, Receipt, MatchesSettlement
  <2>3. FactPaid(a, fact[a])'
    BY <1>0, <1>2, <1>7, <2>1, <2>2 DEF FactPaid
  <2>4. \A b \in Images \ {a} : hold'[b] = hold[b] /\ reserveOp'[b] = reserveOp[b]
    BY <1>1, <1>7, LedgerTouches
  <2>5. QED
    BY <1>6, <2>1, <2>3, <2>4
<1>8. ASSUME CloseReserve(a), fact[a].state = "no_generation" PROVE ImageTypeOK' /\ ImageInv'
  <2>1. /\ reserveOp[a] = "none" /\ hold[a].state = "none"
        /\ reserveOp'[a] = "failed" /\ hold'[a].state = "none"
    BY <1>1, <1>8, LedgerRows
  <2>2. fact[a].settlement = "none" /\ ~fact[a].bound
    BY <1>2, <2>1 DEF FactPaid, Receipt, MatchesSettlement
  <2>3. FactPaid(a, fact[a])'
    BY <1>0, <1>2, <1>8, <2>1, <2>2 DEF FactPaid
  <2>4. \A b \in Images \ {a} : hold'[b] = hold[b] /\ reserveOp'[b] = reserveOp[b]
    BY <1>1, <1>8, LedgerTouches
  <2>5. QED
    BY <1>6, <2>1, <2>3, <2>4
<1> QED
  BY <1>1, <1>2, <1>5, <1>7, <1>8 DEF FinalizePoints, CommitImage, Release

-----------------------------------------------------------------------------
(* The inductive step *)

\* What a step does to the rows of the ledger is an operation of the ledger:
\* an intent has a month of the calendar and a version that a limit can have.
LEMMA ImageSteps ==
  PointTypeOK /\ ImageTypeOK /\ [ImageNext]_<<imageVars, pointVars>> => [PointNext]_pointVars
<1> SUFFICES ASSUME PointTypeOK, ImageTypeOK, ImageNext PROVE [PointNext]_pointVars
  OBVIOUS
<1>1. ASSUME NEW w \in Workers, ReservePoints(w) PROVE [PointNext]_pointVars
  <2>1. CASE UNCHANGED pointVars
    BY <2>1
  <2>2. CASE ReserveImageGeneration(job[w].image, job[w].seen.intent.month,
                                    job[w].seen.intent.version)
    <3>1. PICK a, mo, version : /\ a = job[w].image /\ mo = job[w].seen.intent.month
                                /\ version = job[w].seen.intent.version
      OBVIOUS
    <3>2. a \in Images /\ mo \in Months /\ version \in Balances
      BY <3>1 DEF ImageTypeOK, Jobs, Facts, Intents
    <3>3. ReserveImageGeneration(a, mo, version)
      BY <2>2, <3>1
    <3>4. version > 0
      BY <3>3 DEF ReserveImageGeneration, Reserve
    <3>5. version \in Quantities
      BY <3>2, <3>4, MaxIntAssumption, SMT DEF Balances, Quantities
    <3>6. QED
      BY <3>2, <3>3, <3>5 DEF PointNext
  <2>3. QED
    BY <1>1, <2>1, <2>2 DEF ReservePoints
<1>2. ASSUME NEW w \in Workers, FinalizePoints(w) PROVE [PointNext]_pointVars
  <2>1. job[w].image \in Images /\ job[w].image \in Attempts
    BY DEF ImageTypeOK, Jobs, Attempts
  <2>2. QED
    BY <1>2, <2>1 DEF FinalizePoints, PointNext
<1>3. ASSUME NEW w \in Workers, Attempt(w), ~ReservePoints(w), ~FinalizePoints(w)
      PROVE  UNCHANGED pointVars
  BY <1>3 DEF Attempt, Start, ReadStale, CloseStale, MarkStale, ReserveSlotProvider, NotAcquired,
     RecordOutcome, ReadExisting, ReadMemberLimit, PrepareGenerationIntent, ReadReservable,
     BindGenerationReservation, BeginGenerationDispatch, Post, Await, RecordGenerationSuccess,
     ReadAfter, RecordGenerationRejection, MarkGenerationUnknown, CloseBeforeDispatch, ReadTerminal,
     BindGenerationSettlement, Crash
<1>4. ASSUME NEW a \in Images, ProviderStep(a) PROVE UNCHANGED pointVars
  BY <1>4 DEF ProviderStep
<1>5. CASE AccountStep
  BY <1>5 DEF PointNext
<1> QED
  BY <1>1, <1>2, <1>3, <1>4, <1>5 DEF ImageNext

\* Every step keeps the invariant.
LEMMA ImageStep ==
  PointTypeOK /\ OperationsAgree /\ ImageTypeOK /\ ImageInv /\ [ImageNext]_<<imageVars, pointVars>>
    => ImageTypeOK' /\ ImageInv'
<1> SUFFICES ASSUME PointTypeOK, OperationsAgree, ImageTypeOK, ImageInv,
                    [ImageNext]_<<imageVars, pointVars>>
             PROVE  ImageTypeOK' /\ ImageInv'
  OBVIOUS
<1>1. ASSUME NEW w \in Workers, Attempt(w) PROVE ImageTypeOK' /\ ImageInv'
  BY <1>1, StartStep, QuietStep, TerminalStep, CloseStep, PrepareStep, BeginStep, AnswerStep,
     BindSettlementStep, PostStep, ReserveStep, FinalizeStep DEF Attempt
<1>2. ASSUME UNCHANGED imageVars, UNCHANGED <<hold, reserveOp>> PROVE ImageTypeOK' /\ ImageInv'
  <2>1. ImageTypeOK'
    BY <1>2 DEF imageVars, ImageTypeOK
  <2>2. \A b \in Images : SameImage(b)
    BY <1>2 DEF imageVars, SameImage
  <2>3. ASSUME NEW w \in Workers PROVE Knows(job[w])'
    <3>1. PICK i : i = job[w]
      OBVIOUS
    <3>2. Knows(i) /\ i.image \in Images /\ job'[w] = i
      BY <1>2, <3>1 DEF ImageInv, ImageTypeOK, Jobs, imageVars
    <3>3. Knows(i)'
      BY <2>2, <3>2, SameImageKeeps
    <3>4. QED
      BY <3>2, <3>3
  <2>4. OneSender'
    BY <1>2 DEF imageVars, ImageInv, OneSender, At
  <2>5. \A b \in Images : (FactTrue(b, fact[b]) /\ FactPaid(b, fact[b]))'
    BY <2>2, SameImageKeeps DEF ImageInv
  <2>6. QED
    BY <2>1, <2>3, <2>4, <2>5 DEF ImageInv
<1>3. CASE AccountStep /\ UNCHANGED imageVars
  BY <1>2, <1>3 DEF AccountStep, Grant, IncurDebt, SetMonthlyLimit, NextMonth
<1>4. CASE UNCHANGED <<imageVars, pointVars>>
  BY <1>2, <1>4 DEF pointVars
<1> QED
  BY <1>1, <1>3, <1>4, ProviderKeeps DEF ImageNext

\* The first state.
LEMMA ImageFirst == ImageInit => ImageTypeOK /\ ImageInv
<1> SUFFICES ASSUME ImageInit PROVE ImageTypeOK /\ ImageInv
  OBVIOUS
<1>1. ASSUME NEW w \in Workers
      PROVE  /\ job[w] \in Jobs /\ job[w].at = "idle" /\ job[w].caller = "none"
             /\ job[w].refused = FALSE
  <2>1. PICK a \in Images : job[w] = Idle(a)
    BY DEF ImageInit
  <2>2. /\ Idle(a) \in Jobs /\ Idle(a).at = "idle" /\ Idle(a).caller = "none"
        /\ Idle(a).refused = FALSE
    BY IdleIs
  <2> QED
    BY <2>1, <2>2
<1>2. ImageTypeOK
  <2>1. job \in [Workers -> Jobs]
    BY <1>1 DEF ImageInit
  <2>2. 0 \in Nat
    BY SMT
  <2>3. QED
    BY <2>1, <2>2, Zeros DEF ImageInit, ImageTypeOK, Phases
<1>3. ASSUME NEW a \in Images PROVE FactTrue(a, fact[a]) /\ FactPaid(a, fact[a])
  <2>1. /\ posts[a] = 0 /\ provider[a] = "idle" /\ fact[a] = NoFact /\ reserveOp[a] = "none"
        /\ hold[a].state = "none"
    BY <1>3 DEF ImageInit, PointInit, Attempts, HoldRow
  <2>2. fact[a].state = "none" /\ fact[a].bound = FALSE /\ fact[a].settlement = "none"
    <3>1. NoFact.state = "none" /\ NoFact.bound = FALSE /\ NoFact.settlement = "none"
      BY DEF NoFact
    <3>2. QED
      BY <2>1, <3>1
  <2>3. QED
    BY <2>1, <2>2 DEF FactTrue, FactPaid, Dispatched
<1>4. \A w \in Workers : Knows(job[w])
  BY <1>1 DEF Knows, Claims, Sent
<1>5. OneSender
  BY <1>1 DEF OneSender, At
<1> QED
  BY <1>2, <1>3, <1>4, <1>5 DEF ImageInv

\* The invariant, together with what it needs of the ledger.
LEMMA ImagesInvariant ==
  ImageSpec => [](PointTypeOK /\ OperationsAgree /\ FairPrice /\ ImageTypeOK /\ ImageInv)
<1>1. ImageInit => PointTypeOK /\ OperationsAgree /\ FairPrice /\ ImageTypeOK /\ ImageInv
  BY ImageFirst, PointTypeInit, AgreeInit DEF ImageInit
<1>2. PointTypeOK /\ OperationsAgree /\ FairPrice /\ ImageTypeOK /\ ImageInv
        /\ [ImageNext]_<<imageVars, pointVars>>
      => PointTypeOK' /\ OperationsAgree' /\ FairPrice' /\ ImageTypeOK' /\ ImageInv'
  BY ImageStep, ImageSteps, PointTypeStep, AgreeStep
<1> QED
  BY <1>1, <1>2, PTL DEF ImageSpec

\* Every attempt carries one image and is at one step of the code.
THEOREM ImagesTyped == ImageSpec => []ImageTypeOK
BY ImagesInvariant, PTL

\* Attempts that overlap, die or lose answers add no behaviour to the ledger:
\* an image is reserved in the month and at the limit version that its intent
\* froze, and committed at its price.
THEOREM ImagesAreLedger == ImageSpec => PointSpec
<1>1. ImageInit => PointInit
  BY DEF ImageInit
<1> QED
  BY <1>1, ImagesInvariant, ImageSteps, PTL DEF ImageSpec, PointSpec

\* So the accounts of the ledger are right in every state of the images.
THEOREM ImagesKeepBooks == ImageSpec => [](WithinLimit /\ PointsBacked /\ Finalizable)
BY ImagesAreLedger, LimitHolds, PointBooksBalance, AlwaysFinalizable, PTL

\* However many attempts Temporal runs, retries or loses, and whichever answer
\* of a transaction gets lost, a generation is requested at most once: only a
\* confirmed win of BeginDispatch sends, and it is won at most once.
THEOREM ImagesPostedOnce == ImageSpec => []OnePost
<1>1. ImageInv => OnePost
  <2> SUFFICES ASSUME ImageInv, NEW a \in Images PROVE posts[a] <= 1
    BY DEF OnePost
  <2>1. posts[a] = 0 \/ posts[a] = 1
    BY DEF ImageInv, FactTrue
  <2>2. QED
    BY <2>1, SMT
<1> QED
  BY <1>1, ImagesInvariant, PTL

\* Whatever the ledger settled can be bound to the fact: the conflict errors of
\* BindGenerationSettlement are unreachable for the receipt of a settlement.
THEOREM SettlementsFit == ImageSpec => []SettlementFits
<1>1. PointTypeOK /\ OperationsAgree /\ ImageInv => SettlementFits
  <2> SUFFICES ASSUME PointTypeOK, OperationsAgree, ImageInv, NEW a \in Images,
                      finalOp[a] = "succeeded"
               PROVE  /\ MatchesSettlement(fact[a], Receipt(a))
                      /\ fact[a].settlement \in {"none", Receipt(a)}
    BY DEF SettlementFits
  <2>1. a \in Attempts /\ FactPaid(a, fact[a])
    BY DEF ImageInv, Attempts
  <2>2. fact[a].settlement \in {"none", Receipt(a)}
    BY <2>1 DEF FactPaid
  <2>3. CASE reserveOp[a] = "failed"
    BY <2>1, <2>2, <2>3 DEF FactPaid, Receipt, MatchesSettlement
  <2>4. CASE reserveOp[a] # "failed"
    <3>1. hold[a].state \in Terminal /\ Receipt(a) = hold[a].state
      BY <2>1, <2>4 DEF OperationsAgree, Receipt
    <3>2. QED
      BY <2>1, <2>2, <3>1 DEF FactPaid, Terminal, MatchesSettlement
  <2>5. QED
    BY <2>3, <2>4
<1> QED
  BY <1>1, ImagesInvariant, PTL

\* A fact that carries its settlement leaves no hold behind, also if the
\* reserve transaction of a stale attempt arrives afterwards.
THEOREM NoHoldIsOrphaned == ImageSpec => []NoOrphanHold
<1>1. OperationsAgree /\ ImageInv => NoOrphanHold
  <2> SUFFICES ASSUME OperationsAgree, ImageInv, NEW a \in Images, fact[a].settlement # "none",
                      a \in Open
               PROVE  FALSE
    BY DEF NoOrphanHold
  <2>1. a \in Attempts /\ FactPaid(a, fact[a]) /\ hold[a].state = "reserved"
    BY DEF ImageInv, Attempts, Open
  <2>2. reserveOp[a] = "succeeded"
    BY <2>1 DEF OperationsAgree
  <2>3. QED
    BY <2>1, <2>2 DEF FactPaid, Receipt, MatchesSettlement
<1> QED
  BY <1>1, ImagesInvariant, PTL

-----------------------------------------------------------------------------
(* The contract of a paid effect *)

Charges == [a \in Images |-> ChargeOf(a)]

Effects == [a \in Images |-> provider[a] = "generated"]

\* An image whose charge and effect a step leaves alone.
SamePrice(a) == ChargeOf(a)' = ChargeOf(a) /\ provider'[a] = provider[a]

LEMMA SamePriceIf ==
  ASSUME NEW a, hold'[a] = hold[a], reserveOp'[a] = reserveOp[a], provider'[a] = provider[a]
  PROVE  SamePrice(a)
BY SMT DEF SamePrice, ChargeOf

\* Where no image changes, the contract sees nothing.
LEMMA NothingPaid ==
  ASSUME \A b \in Images : SamePrice(b)
  PROVE  UNCHANGED Paid!paidVars
BY DEF SamePrice, Paid!paidVars

\* The ledger opens, charges or refunds the price of one image.
LEMMA LedgerPaid ==
  ASSUME PointTypeOK, OperationsAgree, NEW a \in Images, UNCHANGED provider,
         \/ \E mo : Reserve(a, mo)
         \/ \E used : Finalize(a, "committed", used) /\ provider[a] = "generated"
         \/ \E used : Finalize(a, "released", used) /\ provider[a] # "generated"
         \/ CloseReserve(a) /\ provider[a] # "generated"
  PROVE  Paid!PaidNext
<1>1. \A b \in Images \ {a} : SamePrice(b)
  BY LedgerTouches, SamePriceIf
<1>2. Charges' = [Charges EXCEPT ![a] = ChargeOf(a)'] /\ Effects' = Effects
  BY <1>1 DEF SamePrice, Charges, Effects
<1>3. ASSUME NEW mo, Reserve(a, mo) PROVE Paid!Hold(a)
  <2>1. ChargeOf(a) = "none" /\ ChargeOf(a)' = "held"
    BY <1>3, LedgerRows DEF ChargeOf
  <2>2. QED
    BY <1>2, <2>1 DEF Paid!Hold, Charges, Effects
<1>4. ASSUME NEW used, Finalize(a, "committed", used), provider[a] = "generated"
      PROVE  Paid!Charge(a)
  <2>1. ChargeOf(a) = "held" /\ ChargeOf(a)' = "charged"
    <3>1. /\ reserveOp[a] = "succeeded" /\ hold[a].state = "reserved"
          /\ reserveOp'[a] = "succeeded" /\ hold'[a].state = "committed"
      BY <1>4, LedgerRows
    <3>2. QED
      BY <3>1 DEF ChargeOf
  <2>2. QED
    BY <1>2, <1>4, <2>1 DEF Paid!Charge, Charges, Effects
<1>5. ASSUME (\E used : Finalize(a, "released", used)) \/ CloseReserve(a), provider[a] # "generated"
      PROVE  Paid!Refund(a)
  <2>1. ChargeOf(a) \in {"none", "held"} /\ ChargeOf(a)' = "refunded"
    <3>1. CASE \E used : Finalize(a, "released", used)
      <4>1. /\ reserveOp[a] = "succeeded" /\ hold[a].state = "reserved"
            /\ reserveOp'[a] = "succeeded" /\ hold'[a].state = "released"
        BY <3>1, LedgerRows
      <4>2. QED
        BY <4>1 DEF ChargeOf
    <3>2. CASE CloseReserve(a)
      <4>1. reserveOp[a] = "none" /\ hold[a].state = "none" /\ reserveOp'[a] = "failed"
        BY <3>2, LedgerRows
      <4>2. QED
        BY <4>1 DEF ChargeOf
    <3>3. QED
      BY <1>5, <3>1, <3>2
  <2>2. QED
    BY <1>2, <1>5, <2>1 DEF Paid!Refund, Charges, Effects
<1> QED
  BY <1>3, <1>4, <1>5 DEF Paid!PaidNext

\* A request that is on its way has its price held.
LEMMA SentIsHeld ==
  ASSUME PointTypeOK, OperationsAgree, ImageTypeOK, ImageInv, NEW a \in Images, provider[a] = "sent"
  PROVE  ChargeOf(a) = "held"
<1>1. FactTrue(a, fact[a]) /\ FactPaid(a, fact[a]) /\ a \in Attempts /\ fact[a].state \in FactStates
  BY DEF ImageInv, Attempts, ImageTypeOK, Facts
<1>2. fact[a].state \in {"dispatch_started", "unknown"}
  BY <1>1 DEF FactTrue, FactStates
<1>3. reserveOp[a] = "succeeded" /\ hold[a].state \notin {"none", "committed", "released"}
  BY <1>1, <1>2 DEF FactPaid, Dispatched, OperationsAgree
<1>4. hold[a].state \in {"none", "reserved", "committed", "released"}
  BY <1>1 DEF PointTypeOK, HoldRows
<1> QED
  BY <1>3, <1>4 DEF ChargeOf

\* Every step is a step of the contract, or none that it can see.
LEMMA PaidSteps ==
  PointTypeOK /\ OperationsAgree /\ ImageTypeOK /\ ImageInv /\ [ImageNext]_<<imageVars, pointVars>>
    => [Paid!PaidNext]_(Paid!paidVars)
<1> SUFFICES ASSUME PointTypeOK, OperationsAgree, ImageTypeOK, ImageInv,
                    [ImageNext]_<<imageVars, pointVars>>
             PROVE  [Paid!PaidNext]_(Paid!paidVars)
  OBVIOUS
<1>1. ASSUME UNCHANGED <<provider, hold, reserveOp>> PROVE UNCHANGED Paid!paidVars
  BY <1>1, SamePriceIf, NothingPaid
<1>2. ASSUME NEW w \in Workers, ReservePoints(w) PROVE [Paid!PaidNext]_(Paid!paidVars)
  <2>1. job[w].image \in Images /\ UNCHANGED provider
    BY <1>2 DEF ImageTypeOK, Jobs, ReservePoints
  <2>2. UNCHANGED pointVars \/ \E mo : Reserve(job[w].image, mo)
    BY <1>2 DEF ReservePoints, ReserveImageGeneration
  <2>3. QED
    BY <1>1, <2>1, <2>2, LedgerPaid DEF pointVars
<1>3. ASSUME NEW w \in Workers, FinalizePoints(w) PROVE [Paid!PaidNext]_(Paid!paidVars)
  <2>1. PICK a : a = job[w].image /\ a \in Images
    BY DEF ImageTypeOK, Jobs
  <2>2. UNCHANGED provider /\ FactTrue(a, fact[a]) /\ job[w].seen.state = fact[a].state
    BY <1>3, <2>1 DEF FinalizePoints, ImageInv, Knows, At
  <2>3. \/ UNCHANGED pointVars
        \/ fact[a].state = "provider_succeeded" /\ Finalize(a, "committed", HoldQuantity(a))
        \/ fact[a].state = "no_generation" /\ (Finalize(a, "released", 0) \/ CloseReserve(a))
    BY <1>3, <2>1, <2>2 DEF FinalizePoints, CommitImage, Release
  <2>4. /\ fact[a].state = "provider_succeeded" => provider[a] = "generated"
        /\ fact[a].state = "no_generation" => provider[a] # "generated"
    BY <2>2 DEF FactTrue
  <2>5. QED
    BY <1>1, <2>1, <2>2, <2>3, <2>4, LedgerPaid DEF pointVars
<1>4. ASSUME NEW a \in Images, ProviderStep(a) PROVE [Paid!PaidNext]_(Paid!paidVars)
  <2>1. PICK reply \in {"generated", "rejected"} : provider' = [provider EXCEPT ![a] = reply]
    BY <1>4 DEF ProviderStep
  <2>2. provider[a] = "sent" /\ UNCHANGED pointVars
    BY <1>4 DEF ProviderStep
  <2>3. Charges' = Charges /\ Charges[a] = "held"
    <3>1. Charges' = Charges
      BY <2>2, SMT DEF Charges, ChargeOf, pointVars
    <3>2. QED
      BY <2>2, <3>1, SentIsHeld DEF Charges
  <2>4. CASE reply = "generated"
    <3>1. Effects' = [Effects EXCEPT ![a] = TRUE]
      BY <2>1, <2>4 DEF Effects, ImageTypeOK
    <3>2. Paid!Happen(a)
      BY <2>3, <3>1 DEF Paid!Happen, Charges, Effects
    <3>3. QED
      BY <3>2 DEF Paid!PaidNext
  <2>5. CASE reply = "rejected"
    <3>1. Effects' = Effects
      BY <2>1, <2>2, <2>5 DEF Effects, ImageTypeOK
    <3>2. QED
      BY <2>3, <3>1 DEF Paid!paidVars, Charges, Effects
  <2>6. QED
    BY <2>4, <2>5
<1>5. ASSUME NEW w \in Workers, Post(w) PROVE UNCHANGED Paid!paidVars
  <2>1. PICK a : a = job[w].image /\ a \in Images
    BY DEF ImageTypeOK, Jobs
  <2>2. /\ provider' = [provider EXCEPT ![a] = IF provider[a] = "idle" THEN "sent" ELSE provider[a]]
        /\ UNCHANGED pointVars
    BY <1>5, <2>1 DEF Post
  <2>3. \A b \in Images : provider'[b] = "generated" <=> provider[b] = "generated"
    BY <2>2 DEF ImageTypeOK
  <2>4. Effects' = Effects
    BY <2>3 DEF Effects
  <2>5. Charges' = Charges
    BY <2>2, SMT DEF Charges, ChargeOf, pointVars
  <2>6. QED
    BY <2>4, <2>5 DEF Paid!paidVars, Charges, Effects
<1>6. ASSUME NEW w \in Workers, Attempt(w), ~ReservePoints(w), ~FinalizePoints(w), ~Post(w)
      PROVE  UNCHANGED Paid!paidVars
  <2>1. UNCHANGED <<provider, pointVars>>
    BY <1>6 DEF Attempt, Start, ReadStale, CloseStale, MarkStale, ReserveSlotProvider, NotAcquired,
       RecordOutcome, ReadExisting, ReadMemberLimit, PrepareGenerationIntent, ReadReservable,
       BindGenerationReservation, BeginGenerationDispatch, Await, RecordGenerationSuccess,
       ReadAfter, RecordGenerationRejection, MarkGenerationUnknown, CloseBeforeDispatch,
       ReadTerminal, BindGenerationSettlement, Crash
  <2>2. QED
    BY <1>1, <2>1 DEF pointVars
<1>7. CASE AccountStep /\ UNCHANGED imageVars
  BY <1>1, <1>7 DEF AccountStep, Grant, IncurDebt, SetMonthlyLimit, NextMonth, imageVars
<1>8. CASE UNCHANGED <<imageVars, pointVars>>
  BY <1>1, <1>8 DEF imageVars, pointVars
<1> QED
  BY <1>2, <1>3, <1>4, <1>5, <1>6, <1>7, <1>8 DEF ImageNext

\* A provider that generates, also after every attempt has given up, finds the
\* price held; an image is charged only if it was generated and refunded only
\* if it never will be: the attempts, their fact and the ledger together
\* implement PaidEffect.
THEOREM ImagesKeepContract == ImageSpec => PaidContract
<1>1. ImageInit => Paid!PaidInit
  <2> SUFFICES ASSUME ImageInit PROVE Paid!PaidInit
    OBVIOUS
  <2>1. \A a \in Images : ChargeOf(a) = "none" /\ provider[a] = "idle"
    BY DEF ImageInit, PointInit, ChargeOf, HoldRow, Attempts
  <2>2. QED
    BY <2>1 DEF Paid!PaidInit
<1> QED
  BY <1>1, PaidSteps, ImagesInvariant, PTL DEF ImageSpec, PaidContract, Paid!PaidSpec

=============================================================================
