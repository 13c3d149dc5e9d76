-------------------------- MODULE ModelInvocation --------------------------
(***************************************************************************)
(* A text model call from its claim to its settlement: the executor that     *)
(* carries it out (einomodel.Executor.GenerateWithGate), the invocation row   *)
(* in the database of the AI capability (GormInvocationRecorder), the         *)
(* provider, and the recovery pass of the point ledger                        *)
(* (GormModelInvocationRepository.RecoverDue), over AIPointLedger.  Image      *)
(* generations share bucket and limits and may be called in any way.           *)
(*                                                                          *)
(* Every transaction and the call of the provider is a step; the answer of a  *)
(* transaction may be lost, and a request may stop anywhere.  A request that  *)
(* does not acquire the claim changes nothing, so a call has one job: the     *)
(* request that holds its claim.  A terminal row never changes, so that       *)
(* reading it and finalizing from it is one step.                             *)
(***************************************************************************)
EXTENDS AIPointLedger, Sequences

CONSTANTS
  BatchLimit,  \* reservations per recovery pass (50 in the code)
  MaxFaults,   \* bound on failures of the recovery pass
  Demands      \* the sets of attempts that are asked for together

ASSUME InvocationAssumption ==
  BatchLimit \in Nat \ {0} /\ MaxFaults \in Nat /\ Demands \subseteq SUBSET Attempts

VARIABLES
  call,      \* ai_invocations
  stage,     \* where the request that holds the claim stands
  sends,     \* requests handed to the network
  answer,    \* the tokens the provider has used, once it is done
  schedule,  \* open model reservations ordered by next_check_at
  due,       \* how many of them, from the front, have next_check_at <= now
  demand,    \* the attempts that are asked for in this behaviour
  claimed,   \* reservations the recovery pass has still to look at
  faults

queue == <<schedule, due>>

callVars == <<demand, call, stage, sends, answer>>

invocationVars == <<callVars, queue, claimed, faults, pointVars>>

NoUsage == <<0, 0>>

Fact(outcome, mo, usage) == [outcome |-> outcome, month |-> mo, usage |-> usage]

InvocationInit ==
  /\ PointInit
  /\ demand \in Demands
  /\ call = [a \in Models |-> Fact("none", 0, NoUsage)]
  /\ stage = [a \in Models |-> "idle"]
  /\ sends = [a \in Models |-> 0]
  /\ answer = [a \in Models |-> NoUsage]
  /\ schedule = <<>> /\ due = 0 /\ claimed = <<>>
  /\ faults = 0

Goto(a, pc) == stage' = [stage EXCEPT ![a] = pc]

-----------------------------------------------------------------------------
(* Executor.GenerateWithGate, and the provider *)

\* Mutant: a row that is still dispatched grants another attempt.
UnclaimedOrOpen(a) == call[a].outcome \in {"none", "dispatched"}

\* The insert of ClaimInvocation finds no row of this invocation.
Unclaimed(a) == call[a].outcome = "none"

\* Admitted and with a fresh StartedAt; an unconfirmed claim ends the request.
ClaimInvocation(a) ==
  /\ a \in demand /\ stage[a] = "idle" /\ Unclaimed(a)
  /\ call' = [call EXCEPT ![a] = Fact("dispatched", month, NoUsage)]
  /\ \E pc \in {"reserve", "idle"} : Goto(a, pc)
  /\ UNCHANGED <<demand, sends, answer, queue, claimed, faults, pointVars>>

\* The new reservation is due at once; a repeated call finds it.
ReserveOnce(a) ==
  IF reserveOp[a] = "succeeded" THEN UNCHANGED <<pointVars, queue>>
  ELSE /\ ReserveAIInvocationUsage(a, call[a].month)
       /\ schedule' = SubSeq(schedule, 1, due) \o <<a>> \o SubSeq(schedule, due + 1, Len(schedule))
       /\ due' = due + 1

ReserveCall(a) ==
  /\ stage[a] = "reserve"
  /\ \/ ReserveOnce(a) /\ \E pc \in {"send", "refuse"} : Goto(a, pc)
     \/ UNCHANGED <<pointVars, queue>> /\ Goto(a, "refuse")
  /\ UNCHANGED <<demand, call, sends, answer, claimed, faults>>

\* Admission and the final gate of the guarded client, then one RoundTrip.
GenerateText(a) ==
  /\ stage[a] = "send"
  /\ \/ sends' = [sends EXCEPT ![a] = @ + 1] /\ Goto(a, "await")
     \/ UNCHANGED sends /\ Goto(a, "refuse")
  /\ UNCHANGED <<demand, call, answer, queue, claimed, faults, pointVars>>

\* External: the provider does the work, perhaps after its client has gone.
\* Usage beyond the limits is not told apart from no answer.
Provide(a) ==
  /\ sends[a] > 0 /\ answer[a] = NoUsage
  /\ \E u \in Usage(a) : answer' = [answer EXCEPT ![a] = u]
  /\ UNCHANGED <<demand, call, stage, sends, queue, claimed, faults, pointVars>>

\* Mutant: a call without an answer counts as not dispatched.
VerdictOfSilence(a) ==
  IF stage[a] = "await" /\ answer[a] # NoUsage THEN {Fact("observed", call[a].month, answer[a])}
  ELSE IF stage[a] \in {"refuse", "await"} THEN {Fact("failed", call[a].month, NoUsage)} ELSE {}

\* What the executor may record: usage that was observed (of an output that is
\* valid or not), or that nothing was handed to the network.
Verdict(a) ==
  IF stage[a] = "await" /\ answer[a] # NoUsage THEN {Fact("observed", call[a].month, answer[a])}
  ELSE IF stage[a] = "refuse" THEN {Fact("failed", call[a].month, NoUsage)} ELSE {}

\* The row is updated where it is still dispatched.
RecordInvocation(a) ==
  /\ call[a].outcome = "dispatched"
  /\ \E f \in Verdict(a) : call' = [call EXCEPT ![a] = f]
  /\ \E pc \in {"settle", "idle"} : Goto(a, pc)
  /\ UNCHANGED <<demand, sends, answer, queue, claimed, faults, pointVars>>

\* The process dies, its deadline passes, or answer or usage are unusable:
\* nothing more is recorded.
Abandon(a) ==
  /\ stage[a] # "idle"
  /\ Goto(a, "idle")
  /\ UNCHANGED <<demand, call, sends, answer, queue, claimed, faults, pointVars>>

-----------------------------------------------------------------------------
(* Settlement *)

\* modelPointTerminal
TerminalFact(a) == call[a].outcome \in {"failed", "observed"}

\* GormModelInvocationRepository.finalize of a terminal row; a settled
\* reservation has no check time any more.
FinalizeOnce(a) ==
  /\ TerminalFact(a)
  /\ IF finalOp[a] = "succeeded" THEN UNCHANGED <<pointVars, queue>>
     ELSE /\ IF call[a].outcome = "failed" THEN Release(a) ELSE CommitModel(a, call[a].usage)
          /\ schedule' = SelectSeq(schedule, LAMBDA x : x # a)
          /\ due' = due - Cardinality({i \in 1..due : schedule[i] = a})

\* SettleAIInvocationUsage and ReleaseAIInvocationUsage after the row is written.
SettleCall(a) ==
  /\ stage[a] = "settle"
  /\ FinalizeOnce(a)
  /\ Goto(a, "idle")
  /\ UNCHANGED <<demand, call, sends, answer, claimed, faults>>

\* A row's check time passes.
Tick ==
  /\ due < Len(schedule)
  /\ due' = due + 1
  /\ UNCHANGED <<callVars, schedule, claimed, faults, pointVars>>

\* Mutant: the claimed rows keep their check time.
ReplanInPlace(batch) == {schedule}

\* The claimed rows move to now + 30s, behind every other row; created_at
\* orders them among each other, which is left open.
Replan(batch) ==
  {SubSeq(schedule, Len(batch) + 1, Len(schedule)) \o rows :
     rows \in Bijection(1..Len(batch), Range(batch))}

RecoverDue ==
  LET batch == SubSeq(schedule, 1, IF due < BatchLimit THEN due ELSE BatchLimit) IN
  /\ claimed = <<>> /\ due > 0
  /\ schedule' \in Replan(batch)
  /\ due' = due - Len(batch)
  /\ claimed' = batch
  /\ UNCHANGED <<callVars, faults, pointVars>>

\* The rest of the hold does not fit the bucket any more (applyPositiveCredit).
Overflows(a) ==
  LET used == IF call[a].outcome = "failed" THEN 0 ELSE Points(call[a].usage[1], call[a].usage[2])
  IN  a \in Open /\ ~CreditFits(bucket.available, HoldQuantity(a) - used, debt)

\* The pass goes on after a row that is not terminal or cannot be finalized.
RecoverNext ==
  /\ claimed # <<>>
  /\ \E a \in Models :
       /\ a = Head(claimed)
       /\ IF TerminalFact(a) /\ ~Overflows(a) THEN FinalizeOnce(a) ELSE UNCHANGED <<pointVars, queue>>
  /\ claimed' = Tail(claimed)
  /\ UNCHANGED <<callVars, faults>>

\* A read or a transaction fails, or the server restarts.
RecoverFails ==
  /\ claimed # <<>> /\ faults < MaxFaults
  /\ claimed' \in {Tail(claimed), <<>>}
  /\ faults' = faults + 1
  /\ UNCHANGED <<callVars, queue, pointVars>>

-----------------------------------------------------------------------------
ImageCall ==
  \E a \in Images \cap demand :
    \/ \E mo \in Months, version \in Quantities : ReserveImageGeneration(a, mo, version)
    \/ CommitImage(a)
    \/ Release(a)

InvocationNext ==
  \/ \E a \in Models :
       \/ ClaimInvocation(a) \/ ReserveCall(a) \/ GenerateText(a) \/ Provide(a)
       \/ RecordInvocation(a) \/ SettleCall(a) \/ Abandon(a)
  \/ Tick \/ RecoverDue \/ RecoverNext \/ RecoverFails
  \/ (AccountStep \/ ImageCall) /\ UNCHANGED <<callVars, queue, claimed, faults>>

\* startCommercialRecoveryLoop runs a pass every 30 seconds.
InvocationSpec ==
  /\ InvocationInit /\ [][InvocationNext]_invocationVars
  /\ WF_invocationVars(Tick) /\ WF_invocationVars(RecoverDue) /\ WF_invocationVars(RecoverNext)

-----------------------------------------------------------------------------
(* Properties *)

\* The price of a call as the ledger rows tell it.
CallCharge(a) ==
  IF reserveOp[a] = "failed" THEN "refunded"
  ELSE CASE hold[a].state = "none" -> "none"
         [] hold[a].state = "reserved" -> "held"
         [] hold[a].state = "committed" -> "charged"
         [] hold[a].state = "released" -> "refunded"

PaidCall == INSTANCE PaidEffect WITH
  Effects <- Models,
  charge <- [a \in Models |-> CallCharge(a)],
  effect <- [a \in Models |-> answer[a] # NoUsage]

\* A provider that answers, also after the request is gone, finds the price of
\* the call held; a call is charged only if the provider did the work and
\* refunded only if it never will, whichever answer of a transaction was lost.
CallContract == PaidCall!PaidSpec

\* A call is handed to the network at most once, however often it is requested
\* again, and costs what the tokens of that one answer cost.
BilledOnce ==
  \A a \in Models :
    /\ sends[a] <= 1
    /\ hold[a].state = "committed" => hold[a].used = Points(answer[a][1], answer[a][2])

\* A call whose outcome is recorded does not keep its hold: the recovery loop
\* settles it although requests die and calls without an outcome fill its
\* batches, as long as int64 holds all that was granted.
RecordedIsSettled ==
  \A a \in Models : TerminalFact(a) /\ a \in Open ~> a \notin Open \/ granted > MaxInt
=============================================================================
