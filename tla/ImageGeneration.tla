--------------------------- MODULE ImageGeneration ---------------------------
(***************************************************************************)
(* Image generations as the image agent carries them out: activity attempts *)
(* that Temporal starts, retries while an older one may still be running,   *)
(* and kills; the effect row with its provider phase; the durable           *)
(* generation fact; the provider; and the AI point ledger, whose actions are *)
(* the ones of AIPointLedger.                                                *)
(*                                                                          *)
(* Every step is one transaction, one read or one call.  A transaction may   *)
(* fail, and it may commit and its answer be lost; the error then takes the  *)
(* path the code gives it.  Between a read and the transaction that uses it  *)
(* every other attempt may run.  StorageCapacity has the bytes a generation   *)
(* reserves, SlotEffect what follows a staged artifact.                      *)
(***************************************************************************)
EXTENDS AIPointLedger

CONSTANT Workers  \* activity attempts that may run at the same time

VARIABLES
  fact,      \* the generation fact of each effect row
  evidence,  \* the images with a no_generation event
  phase,     \* the provider phase of each effect row
  job,       \* what each activity attempt is doing
  provider,  \* what the provider did with the request
  posts      \* history: requests sent to the provider

imageVars == <<fact, evidence, phase, job, provider, posts>>

FactStates == {"none", "prepared", "dispatch_started", "unknown", "no_generation",
               "provider_succeeded"}

Settlements == {"none", "committed", "released", "no_reservation"}

Intents == [version: Balances, month: Months]

Facts == [state: FactStates, intent: Intents, bound: BOOLEAN, settlement: Settlements]

Steps == {"idle", "read", "close_stale", "mark_stale", "claim", "generate", "limit",
          "prepare", "reserve_read", "reserve", "bind", "begin", "post", "await",
          "observe", "read_after", "reject", "mark_unknown", "close", "finalize_read",
          "finalize", "bind_settlement", "not_dispatched", "unknown", "stage"}

\* Who called finalize.
Callers == {"none", "reconcile", "observe", "charged", "closed", "rejected"}

NoIntent == [version |-> 0, month |-> 0]

NoFact == [state |-> "none", intent |-> NoIntent, bound |-> FALSE, settlement |-> "none"]

Jobs == [at: Steps, image: Images, caller: Callers, intent: Intents,
         seen: Facts, refused: BOOLEAN]

Phases == {"none", "provider_claimed", "provider_not_dispatched", "provider_unknown",
           "staged"}

\* Every attempt carries one image and is at one step of the code.
ImageTypeOK ==
  /\ fact \in [Images -> Facts]
  /\ evidence \in SUBSET Images
  /\ phase \in [Images -> Phases]
  /\ job \in [Workers -> Jobs]
  /\ provider \in [Images -> {"idle", "sent", "generated", "rejected"}]
  /\ posts \in [Images -> Nat]

Idle(a) == [at |-> "idle", image |-> a, caller |-> "none", intent |-> NoIntent,
            seen |-> NoFact, refused |-> FALSE]

ImageInit ==
  /\ PointInit
  /\ fact = [a \in Images |-> NoFact]
  /\ evidence = {}
  /\ phase = [a \in Images |-> "none"]
  /\ job \in [Workers -> {Idle(a) : a \in Images}]
  /\ provider = [a \in Images |-> "idle"]
  /\ posts = [a \in Images |-> 0]

-----------------------------------------------------------------------------
(* The fact and its transitions *)

SetState(f, state) == [f EXCEPT !.state = state]

\* BindReservation; the one receipt of the reserve operation is always the same.
Bindable(f) == f.bound \/ f.state = "prepared"

\* BeginDispatch returns won.
Dispatchable(f) == f.state = "prepared" /\ f.bound

\* Mutant: a dispatched request is closed as if it had never been sent.
ClosableDispatched(f) ==
  f.state \in {"prepared", "no_generation", "dispatch_started", "unknown"}

\* RecordNoGeneration
Closable(f) == f.state \in {"prepared", "no_generation"}

\* MarkUnknown
Unknowable(f) == f.state \in {"dispatch_started", "unknown", "provider_succeeded"}

\* Mutant: a late reconciliation forgets a recorded success.
MarkUnknownAlways(f) == SetState(f, "unknown")

MarkUnknown(f) == IF f.state = "provider_succeeded" THEN f ELSE SetState(f, "unknown")

\* RecordSuccess
Succeedable(f) == f.state \in {"dispatch_started", "unknown", "provider_succeeded"}

\* RecordRejection with the evidence event that its transaction requires.
Rejectable(a) ==
  \/ fact[a].state \in {"dispatch_started", "unknown"}
  \/ fact[a].state = "no_generation" /\ a \in evidence

\* matchesSettlement; a reserve may have committed and not been bound.
MatchesSettlement(f, settlement) ==
  \/ f.state = "provider_succeeded" /\ settlement = "committed"
  \/ f.state = "no_generation" /\ settlement = "released"
  \/ f.state = "no_generation" /\ ~f.bound /\ settlement = "no_reservation"

-----------------------------------------------------------------------------
(* Steps of an attempt *)

At(w, step) == job[w].at = step

\* An attempt that returns forgets everything.
To(w, step) ==
  IF step = "idle" THEN Idle(job[w].image) ELSE [job[w] EXCEPT !.at = step]

Calling(w, caller) == [job[w] EXCEPT !.at = "finalize_read", !.caller = caller]

Become(w, j) == job' = [job EXCEPT ![w] = j]

Go(w, step) == Become(w, To(w, step))

\* mutateGenerationFact: one transaction under the run and effect row locks.
\* It commits if the transition allows it and the answer arrives or is lost;
\* or it fails.
Mutate(w, allowed, next, then, failed) ==
  \/ /\ allowed
     /\ fact' = [fact EXCEPT ![job[w].image] = next]
     /\ Become(w, then) \/ Become(w, failed)
  \/ UNCHANGED fact /\ Become(w, failed)

(* ReconcileExistingGeneration, at the start of every attempt *)

\* Temporal starts or retries the activity.
Start(w, a) ==
  /\ At(w, "idle")
  /\ Become(w, [Idle(a) EXCEPT !.at = "read"])
  /\ UNCHANGED <<fact, evidence, phase, provider, posts, pointVars>>

\* Where a fact that was read or written sends the reconciliation: an unknown
\* fact stays as it is, a terminal one is settled, and only an attempt whose
\* image is not closed goes on to claim the provider.
Reconciled(w, f) ==
  CASE f.state = "prepared" -> To(w, "close_stale")
    [] f.state = "dispatch_started" -> To(w, "mark_stale")
    [] f.state \in {"none", "unknown"} -> To(w, "claim")
    [] OTHER -> IF f.settlement = "none" THEN Calling(w, "reconcile")
                ELSE To(w, IF f.state = "no_generation" THEN "idle" ELSE "claim")

ReadStale(w) ==
  /\ At(w, "read")
  /\ Become(w, Reconciled(w, fact[job[w].image]))
  /\ UNCHANGED <<fact, evidence, phase, provider, posts, pointVars>>

CloseStale(w) ==
  LET f == fact[job[w].image]
      next == SetState(f, "no_generation") IN
  /\ At(w, "close_stale")
  /\ Mutate(w, Closable(f), next, Reconciled(w, next), To(w, "idle"))
  /\ UNCHANGED <<evidence, phase, provider, posts, pointVars>>

MarkStale(w) ==
  LET f == fact[job[w].image]
      next == MarkUnknown(f) IN
  /\ At(w, "mark_stale")
  /\ Mutate(w, Unknowable(f), next, Reconciled(w, next), To(w, "idle"))
  /\ UNCHANGED <<evidence, phase, provider, posts, pointVars>>

(* The provider claim of ExecuteSlotV3 *)

\* effectpolicy.ReserveProvider acquires.
Claimable(a) == phase[a] \in {"none", "provider_not_dispatched"}

ReserveSlotProvider(w) ==
  LET a == job[w].image IN
  /\ At(w, "claim") /\ Claimable(a)
  /\ phase' = [phase EXCEPT ![a] = "provider_claimed"]
  /\ Go(w, "generate") \/ Go(w, "idle")
  /\ UNCHANGED <<fact, evidence, provider, posts, pointVars>>

\* The claim is another attempt's: recover what it left behind, or block.
NotAcquired(w) ==
  LET a == job[w].image IN
  /\ At(w, "claim") /\ ~Claimable(a)
  /\ \/ UNCHANGED phase
     \/ /\ phase[a] = "provider_claimed"
        /\ phase' = [phase EXCEPT ![a] = "provider_unknown"]
     \/ /\ phase[a] \in {"provider_claimed", "provider_unknown"}
        /\ fact[a].state = "provider_succeeded"
        /\ phase' = [phase EXCEPT ![a] = "staged"]
  /\ Go(w, "idle")
  /\ UNCHANGED <<fact, evidence, provider, posts, pointVars>>

\* What ExecuteSlotV3 records when GenerateQuotedSlot returns.
RecordOutcome(w) ==
  LET a == job[w].image
      outcome == CASE At(w, "not_dispatched") -> "provider_not_dispatched"
                   [] At(w, "unknown") -> "provider_unknown"
                   [] At(w, "stage") -> "staged" IN
  /\ job[w].at \in {"not_dispatched", "unknown", "stage"}
  /\ \/ /\ phase[a] = "provider_claimed"
        /\ phase' = [phase EXCEPT ![a] = outcome]
     \/ UNCHANGED phase
  /\ Go(w, "idle")
  /\ UNCHANGED <<fact, evidence, provider, posts, pointVars>>

(* GenerateQuotedSlot *)

\* A fact that exists never grants a new request; the caller may have lost its
\* authorization, and the read may fail.
ReadExisting(w) ==
  /\ At(w, "generate")
  /\ \/ fact[job[w].image].state = "none" /\ Go(w, "limit")
     \/ Go(w, "not_dispatched")
     \/ Go(w, "unknown")
  /\ UNCHANGED <<fact, evidence, phase, provider, posts, pointVars>>

\* The limit version and the month that the intent freezes.
Frozen(a) == [version |-> limit[Payer[a]].version, month |-> month]

ReadMemberLimit(w) ==
  LET intent == Frozen(job[w].image) IN
  /\ At(w, "limit")
  /\ \/ intent.version > 0 /\ Become(w, [To(w, "prepare") EXCEPT !.intent = intent])
     \/ Go(w, "not_dispatched")
  /\ UNCHANGED <<fact, evidence, phase, provider, posts, pointVars>>

\* A new fact needs the claimed phase, an existing one the same fingerprint.
PrepareGenerationIntent(w) ==
  LET a == job[w].image
      new == [NoFact EXCEPT !.state = "prepared", !.intent = job[w].intent] IN
  /\ At(w, "prepare")
  /\ \/ /\ fact[a].state = "none"
        /\ Mutate(w, phase[a] = "provider_claimed", new, To(w, "reserve_read"),
                  To(w, "unknown"))
     \/ /\ fact[a].state # "none"
        /\ Mutate(w, fact[a].intent = job[w].intent, fact[a], To(w, "reserve_read"),
                  To(w, "unknown"))
  /\ UNCHANGED <<evidence, phase, provider, posts, pointVars>>

\* ReserveImageGeneration reads the fact before its transaction.
ReadReservable(w) ==
  /\ At(w, "reserve_read")
  /\ \/ Become(w, [To(w, "reserve") EXCEPT !.seen = fact[job[w].image]])
     \/ Go(w, "close")
  /\ UNCHANGED <<fact, evidence, phase, provider, posts, pointVars>>

\* The transaction opens the hold, returns the receipt of an earlier call, or
\* is refused by the limit, the month, the balance or a closed operation.
ReservePoints(w) ==
  LET a == job[w].image
      f == job[w].seen IN
  /\ At(w, "reserve")
  /\ \/ /\ f.state = "prepared"
        /\ ReserveImageGeneration(a, f.intent.month, f.intent.version)
        /\ Go(w, "bind") \/ Go(w, "close")
     \/ /\ reserveOp[a] = "succeeded" /\ Bindable(f)
        /\ Go(w, "bind")
        /\ UNCHANGED pointVars
     \/ Go(w, "close") /\ UNCHANGED pointVars
  /\ UNCHANGED <<fact, evidence, phase, provider, posts>>

BindGenerationReservation(w) ==
  LET f == fact[job[w].image] IN
  /\ At(w, "bind")
  /\ Mutate(w, Bindable(f), [f EXCEPT !.bound = TRUE], To(w, "begin"), To(w, "close"))
  /\ UNCHANGED <<evidence, phase, provider, posts, pointVars>>

\* The last checks may still close the intent.  After them there is neither a
\* retry nor a read back: without a confirmed win there is no request.
BeginGenerationDispatch(w) ==
  LET f == fact[job[w].image] IN
  /\ At(w, "begin")
  /\ \/ Go(w, "close") /\ UNCHANGED fact
     \/ Mutate(w, Dispatchable(f), SetState(f, "dispatch_started"), To(w, "post"),
               To(w, "unknown"))
  /\ UNCHANGED <<evidence, phase, provider, posts, pointVars>>

Post(w) ==
  LET a == job[w].image IN
  /\ At(w, "post")
  /\ posts' = [posts EXCEPT ![a] = @ + 1]
  /\ provider' = [provider EXCEPT ![a] = IF @ = "idle" THEN "sent" ELSE @]
  /\ Go(w, "await")
  /\ UNCHANGED <<fact, evidence, phase, pointVars>>

\* External: the provider works on a request also when nobody waits for it.
ProviderStep(a) ==
  /\ provider[a] = "sent"
  /\ \E answer \in {"generated", "rejected"} :
       provider' = [provider EXCEPT ![a] = answer]
  /\ UNCHANGED <<fact, evidence, phase, job, posts, pointVars>>

\* Mutant: a request that timed out is sent again.
AwaitRetried(w) ==
  /\ At(w, "await")
  /\ Go(w, "post") \/ Go(w, "read_after")
  /\ UNCHANGED <<fact, evidence, phase, provider, posts, pointVars>>

\* The answer is observed, is a proof of rejection, or does not arrive.
Await(w) ==
  LET a == job[w].image IN
  /\ At(w, "await")
  /\ \/ provider[a] = "generated" /\ Go(w, "observe")
     \/ /\ provider[a] = "rejected"
        /\ Become(w, [To(w, "read_after") EXCEPT !.refused = TRUE])
     \/ Go(w, "read_after")
  /\ UNCHANGED <<fact, evidence, phase, provider, posts, pointVars>>

\* The success observer runs inside the provider call.
RecordGenerationSuccess(w) ==
  LET f == fact[job[w].image] IN
  /\ At(w, "observe")
  /\ Mutate(w, Succeedable(f), SetState(f, "provider_succeeded"),
            Calling(w, "observe"), To(w, "read_after"))
  /\ UNCHANGED <<evidence, phase, provider, posts, pointVars>>

ReadAfter(w) ==
  /\ At(w, "read_after")
  /\ \/ Become(w, CASE fact[job[w].image].state = "provider_succeeded" -> Calling(w, "charged")
                    [] job[w].refused -> To(w, "reject")
                    [] OTHER -> To(w, "mark_unknown"))
     \/ Go(w, "unknown")
  /\ UNCHANGED <<fact, evidence, phase, provider, posts, pointVars>>

\* The fact and its evidence event commit together.
RecordGenerationRejection(w) ==
  LET a == job[w].image IN
  /\ At(w, "reject")
  /\ Mutate(w, Rejectable(a), SetState(fact[a], "no_generation"),
            Calling(w, "rejected"), To(w, "unknown"))
  /\ evidence' = IF fact' = fact THEN evidence ELSE evidence \cup {a}
  /\ UNCHANGED <<phase, provider, posts, pointVars>>

MarkGenerationUnknown(w) ==
  LET f == fact[job[w].image] IN
  /\ At(w, "mark_unknown")
  /\ Mutate(w, Unknowable(f), MarkUnknown(f), To(w, "unknown"), To(w, "unknown"))
  /\ UNCHANGED <<evidence, phase, provider, posts, pointVars>>

\* closeBeforeDispatch
CloseBeforeDispatch(w) ==
  LET f == fact[job[w].image] IN
  /\ At(w, "close")
  /\ Mutate(w, Closable(f), SetState(f, "no_generation"), Calling(w, "closed"),
            To(w, "unknown"))
  /\ UNCHANGED <<evidence, phase, provider, posts, pointVars>>

(* finalize: settle in the ledger, then bind the settlement to the fact *)

\* Where an error of finalize leads its caller.
Failed(w) ==
  To(w, CASE job[w].caller = "reconcile" -> "idle"
          [] job[w].caller = "observe" -> "read_after"
          [] OTHER -> "unknown")

\* Where finalize returns to; a charged output may still be lost or invalid.
Returns(w) ==
  LET f == fact[job[w].image] IN
  CASE job[w].caller = "reconcile" ->
         {To(w, IF f.state = "no_generation" THEN "idle" ELSE "claim")}
    [] job[w].caller = "observe" -> {To(w, "read_after")}
    [] job[w].caller = "charged" -> {To(w, "stage"), To(w, "unknown")}
    [] OTHER -> {To(w, "not_dispatched")}

\* FinalizeImageGeneration reads the fact before its transaction.
ReadTerminal(w) ==
  LET f == fact[job[w].image] IN
  /\ At(w, "finalize_read")
  /\ \/ /\ f.state \in {"provider_succeeded", "no_generation"}
        /\ Become(w, [To(w, "finalize") EXCEPT !.seen = f])
     \/ Become(w, Failed(w))
  /\ UNCHANGED <<fact, evidence, phase, provider, posts, pointVars>>

\* The receipt of the finalize operation, which is never rewritten.
Receipt(a) == IF reserveOp[a] = "failed" THEN "no_reservation" ELSE hold[a].state

FinalizePoints(w) ==
  LET a == job[w].image
      f == job[w].seen IN
  /\ At(w, "finalize")
  /\ \/ /\ \/ f.state = "provider_succeeded" /\ f.bound /\ CommitImage(a)
           \/ f.state = "no_generation" /\ Release(a)
        /\ Go(w, "bind_settlement") \/ Become(w, Failed(w))
     \/ /\ finalOp[a] = "succeeded"
        /\ f.state = "provider_succeeded" <=> hold[a].state = "committed"
        /\ Go(w, "bind_settlement")
        /\ UNCHANGED pointVars
     \/ Become(w, Failed(w)) /\ UNCHANGED pointVars
  /\ UNCHANGED <<fact, evidence, phase, provider, posts>>

BindGenerationSettlement(w) ==
  LET a == job[w].image
      f == fact[a]
      r == Receipt(a) IN
  /\ At(w, "bind_settlement")
  /\ \E then \in Returns(w) :
       Mutate(w, MatchesSettlement(f, r) /\ f.settlement \in {"none", r},
              [f EXCEPT !.settlement = r], then, Failed(w))
  /\ UNCHANGED <<evidence, phase, provider, posts, pointVars>>

\* The worker dies, or an error ends the activity.
Crash(w) ==
  /\ ~At(w, "idle")
  /\ Go(w, "idle")
  /\ UNCHANGED <<fact, evidence, phase, provider, posts, pointVars>>

-----------------------------------------------------------------------------
Attempt(w) ==
  \/ \E a \in Images : Start(w, a)
  \/ ReadStale(w) \/ CloseStale(w) \/ MarkStale(w)
  \/ ReserveSlotProvider(w) \/ NotAcquired(w) \/ RecordOutcome(w)
  \/ ReadExisting(w) \/ ReadMemberLimit(w) \/ PrepareGenerationIntent(w)
  \/ ReadReservable(w) \/ ReservePoints(w) \/ BindGenerationReservation(w)
  \/ BeginGenerationDispatch(w) \/ Post(w) \/ Await(w)
  \/ RecordGenerationSuccess(w) \/ ReadAfter(w) \/ RecordGenerationRejection(w)
  \/ MarkGenerationUnknown(w) \/ CloseBeforeDispatch(w)
  \/ ReadTerminal(w) \/ FinalizePoints(w) \/ BindGenerationSettlement(w)
  \/ Crash(w)

ImageNext ==
  \/ \E w \in Workers : Attempt(w)
  \/ \E a \in Images : ProviderStep(a)
  \/ AccountStep /\ UNCHANGED imageVars

ImageSpec == ImageInit /\ [][ImageNext]_<<imageVars, pointVars>>

-----------------------------------------------------------------------------
(* Properties *)

\* However many attempts Temporal runs, retries or loses, and whichever answer
\* of a transaction gets lost, a generation is requested at most once.
OnePost == \A a \in Images : posts[a] <= 1

\* The price of an image as the ledger rows tell it.
ChargeOf(a) ==
  IF reserveOp[a] = "failed" THEN "refunded"
  ELSE CASE hold[a].state = "none" -> "none"
         [] hold[a].state = "reserved" -> "held"
         [] hold[a].state = "committed" -> "charged"
         [] hold[a].state = "released" -> "refunded"

Paid == INSTANCE PaidEffect WITH
  Effects <- Images,
  charge <- [a \in Images |-> ChargeOf(a)],
  effect <- [a \in Images |-> provider[a] = "generated"]

\* A provider that generates, also after every attempt has given up, finds the
\* price held; an image is charged only if it was generated and refunded only
\* if it never will be.
PaidContract == Paid!PaidSpec

\* Whatever the ledger settled can be bound to the fact, so the conflict errors
\* of BindGenerationSettlement are unreachable for the receipt of a settlement.
SettlementFits ==
  \A a \in Images : finalOp[a] = "succeeded" =>
    MatchesSettlement(fact[a], Receipt(a)) /\ fact[a].settlement \in {"none", Receipt(a)}

\* A fact that carries its settlement leaves no hold behind, also if the
\* reserve transaction of a stale attempt arrives afterwards.
NoOrphanHold ==
  \A a \in Images : fact[a].settlement # "none" => a \notin Open

=============================================================================
