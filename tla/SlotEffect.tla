------------------------------ MODULE SlotEffect ------------------------------
(***************************************************************************)
(* The external effect of an image slot, from the claim of the provider to  *)
(* the published result: the effect row and its phases, the usage budget of  *)
(* the run, the object store, and the activity attempts ExecuteSlotV3,       *)
(* RecoverEffectV3 and PersistRecoveryBlockedEffectV3, which may overlap,    *)
(* die at any step and lose the answer of any transaction.                   *)
(*                                                                          *)
(* Every transaction, store call and provider call is a step of its own.     *)
(* A quote is a number and an output one of a few contents.  Staged reviews  *)
(* (ReviewStagedSlotV3), corrupt rows and runs without budget authorization  *)
(* are left out; the bytes that objects occupy are in StorageCapacity.       *)
(***************************************************************************)
EXTENDS RowSums

CONSTANTS
  Attempts,      \* activity attempts; each one is a publication owner of its own
  Slots,         \* slots that a run may have
  Outputs,       \* contents that a provider or a download may return
  Quote,         \* the maximum usage of each slot
  Limit,         \* the usage limit of the run
  Plans,         \* the runs to consider: scope, slots, and a bound on attempts
  None           \* no content, no owner

ASSUME QuoteAssumption ==
  IsFiniteSet(Slots) /\ Quote \in [Slots -> Nat \ {0}] /\ Limit \in Nat

\* Organization scope: generation facts, and no reviewer.
ASSUME PlanAssumption ==
  Plans \subseteq [organization: BOOLEAN, slots: SUBSET Slots, attempts: Nat]

ASSUME NoneAssumption == None \notin Outputs \cup Attempts

VARIABLES
  plan,     \* the run at hand
  row,      \* the effect row of each slot
  books,    \* reserved and committed usage of the run
  bundle,   \* the immutable recovery bundle of each slot
  staged,   \* contents in the staging area
  final,    \* contents under the published prefix
  proved,   \* slots whose generation fact records a success
  job,      \* what each attempt is doing
  outputs,  \* history: how often the provider generated for a slot
  stopped,  \* history: slots that were ever blocked for recovery
  held      \* history: slots whose output the review did not let through

store == <<bundle, staged, final>>

history == <<outputs, stopped, held>>

slotVars == <<plan, row, books, store, proved, job, history>>

Recoverable == {"provider_claimed", "provider_unknown", "staging_unknown"}

BlockedPhases == {"provider_unknown", "staging_unknown", "publication_unknown",
                  "review_required", "review_transport_required", "recovery_blocked"}

StagedPhases == {"artifact_staged", "publication_claimed", "publication_unknown",
                 "publication_complete"}

Phases == {"none", "provider_claimed", "provider_not_dispatched", "staging_prepared"}
          \cup StagedPhases \cup BlockedPhases

Budgets == {"none", "reserved", "released", "unknown", "committed"}

Kinds == {"execute", "recover", "redrive", "persist"}

Verdicts == {"passed", "review_required", "review_transport_required"}

Steps == {"new", "read", "read_fact", "recover_bundle", "fetch", "preserve_fetched",
          "restage", "reserve", "generate", "answer", "settle", "mark_unknown",
          "not_dispatched", "preserve", "recover_claimed", "prepare", "reread_prepare",
          "stage", "commit_staged", "reread_staged", "claim", "reread_claim", "renew",
          "copy", "renew_after", "complete", "block_provider", "block_staging",
          "block_review", "block_publication", "block_recovery", "restore", "missing",
          "done"}

Content == Outputs \cup {None}

Rows == [phase: Phases, from: Phases, budget: Budgets, manifest: Content,
         final: Content, owner: Attempts \cup {None}, fence: Nat, live: BOOLEAN,
         published: Content]

Jobs == [at: Steps, slot: Slots, kind: Kinds, quoted: BOOLEAN, seen: Phases,
         verdict: Verdicts, bytes: Content, manifest: Content, fence: Nat]

\* Rows, books, objects and attempts keep their types.
SlotTypeOK ==
  /\ plan \in Plans
  /\ row \in [Slots -> Rows]
  /\ books \in [reserved: Nat, committed: Nat]
  /\ bundle \in [Slots -> Content]
  /\ staged \in [Slots -> SUBSET Outputs]
  /\ final \in [Slots -> SUBSET Outputs]
  /\ proved \in SUBSET Slots
  /\ job \in [Attempts -> Jobs]

NoRow == [phase |-> "none", from |-> "none", budget |-> "none", manifest |-> None,
          final |-> None, owner |-> None, fence |-> 0, live |-> FALSE,
          published |-> None]

Job(step, s, kind) ==
  [at |-> step, slot |-> s, kind |-> kind, quoted |-> TRUE, seen |-> "none",
   verdict |-> "passed", bytes |-> None, manifest |-> None, fence |-> 0]

SlotInit ==
  /\ plan \in Plans
  /\ row = [s \in Slots |-> NoRow]
  /\ books = [reserved |-> 0, committed |-> 0]
  /\ bundle = [s \in Slots |-> None]
  /\ staged = [s \in Slots |-> {}]
  /\ final = [s \in Slots |-> {}]
  /\ proved = {}
  /\ job = [a \in Attempts |-> Job("new", CHOOSE s \in Slots : TRUE, "execute")]
  /\ outputs = [s \in Slots |-> 0]
  /\ stopped = {}
  /\ held = {}

-----------------------------------------------------------------------------
(* Decisions of package effectpolicy *)

\* Mutant: usage that other slots hold is not counted.
AllowsCommitted(s) == books.committed + Quote[s] <= Limit

\* BudgetPolicy.Allows
Allows(s) == books.committed + books.reserved + Quote[s] <= Limit

\* Mutant: a retry takes over a claim whose holder may still be generating.
AcquirableClaimed(r) ==
  \/ r.phase \in {"none", "provider_not_dispatched", "provider_claimed"}
  \/ r.budget = "released"

\* ReserveProvider acquires the provider; a released budget is taken again in
\* whatever phase the row is.
Acquirable(r) ==
  r.phase \in {"none", "provider_not_dispatched"} \/ r.budget = "released"

Acquired(r) ==
  [r EXCEPT !.phase = IF r.phase \in {"none", "provider_not_dispatched"}
                      THEN "provider_claimed" ELSE r.phase,
            !.budget = "reserved"]

\* canBlock with the checks of Block before it.
CanBlock(r, phase) ==
  CASE phase = "provider_unknown" -> r.phase = "provider_claimed"
    [] phase = "staging_unknown" -> r.phase = "staging_prepared"
    [] phase = "publication_unknown" -> r.phase = "publication_claimed"
    [] phase \in {"review_required", "review_transport_required"} ->
         r.phase \in {"provider_claimed", "staging_prepared"}
    [] phase = "recovery_blocked" ->
         r.phase \notin {"none", "publication_complete", "review_required",
                         "review_transport_required", "recovery_blocked"}

\* Mutant: a slot that was still at its dispatch may be driven again.
RedrivableDispatch(phase) ==
  phase \in {"staging_prepared", "artifact_staged", "publication_claimed",
             "provider_unknown", "staging_unknown", "publication_unknown",
             "provider_claimed", "provider_not_dispatched"}

\* isRedrivableRecoveryPhase
Redrivable(phase) ==
  phase \in {"staging_prepared", "artifact_staged", "publication_claimed",
             "provider_unknown", "staging_unknown", "publication_unknown"}

\* Mutant: a lease is extended or used whoever holds it by now.
HoldsAny(a, r) == r.phase = "publication_claimed"

\* The row's publication claim is the one that attempt a was granted.
Holds(a, r) ==
  r.phase = "publication_claimed" /\ r.owner = a /\ r.fence = job[a].fence

NextFence(r) == IF r.phase = "artifact_staged" THEN 1 ELSE r.fence + 1

-----------------------------------------------------------------------------
(* Steps of an attempt *)

At(a, step) == job[a].at = step

Slot(a) == job[a].slot

Row(a) == row[job[a].slot]

To(a, step) ==
  IF step = "done" THEN Job("done", Slot(a), "execute") ELSE [job[a] EXCEPT !.at = step]

Become(a, j) == job' = [job EXCEPT ![a] = j]

Go(a, step) == Become(a, To(a, step))

\* One transaction under the run and effect row locks.  It commits, and the
\* answer arrives or is lost; or it fails.
Transact(a, allowed, next, nextBooks, then, failed) ==
  \/ /\ allowed
     /\ row' = [row EXCEPT ![Slot(a)] = next]
     /\ books' = nextBooks
     /\ Become(a, then) \/ Become(a, failed)
  \/ UNCHANGED <<row, books>> /\ Become(a, failed)

\* Where ExecuteSlotV3 goes on with a row of this phase after line 310.
StepOf(phase) ==
  CASE phase = "staging_prepared" -> "stage"
    [] phase \in {"artifact_staged", "publication_claimed"} -> "claim"
    [] OTHER -> "done"

Continue(a, r) ==
  IF StepOf(r.phase) = "done" THEN To(a, "done")
  ELSE [job[a] EXCEPT !.at = StepOf(r.phase), !.manifest = r.manifest]

\* RecoverEffectV3 after the row is known: decided rows are reported, a slot
\* that was not dispatched is blocked, anything else is executed.
AfterRecovery(a, r) ==
  CASE \/ r.phase = "provider_not_dispatched"
       \/ r.phase = "provider_claimed" /\ r.budget = "released" -> To(a, "block_recovery")
    [] r.phase \in BlockedPhases \cup {"publication_complete"} -> To(a, "done")
    [] OTHER -> [Job("read", Slot(a), "execute") EXCEPT !.quoted = r.budget # "none"]

\* The dispatch decision that ExecuteSlotV3 takes on the row it read.
DispatchPossible(r) ==
  \/ r.phase \in {"none", "provider_not_dispatched"}
  \/ r.phase = "provider_claimed" /\ r.budget = "released"

\* Without a recorded success the attempt goes on with the row it read.
NoOutput(a) ==
  CASE job[a].kind = "execute" -> [To(a, "reserve") EXCEPT !.quoted = FALSE]
    [] job[a].seen = "provider_claimed" ->
         AfterRecovery(a, [NoRow EXCEPT !.phase = "provider_claimed",
                                        !.budget = IF job[a].quoted THEN "reserved"
                                                   ELSE "none"])
    [] OTHER -> To(a, "done")

\* Both activities read the generation fact for a row in one of these phases.
FactOr(a, r, otherwise) ==
  IF plan.organization /\ r.phase \in Recoverable
  THEN [To(a, "read_fact") EXCEPT !.seen = r.phase, !.manifest = r.manifest,
                                  !.quoted = r.budget # "none"]
  ELSE otherwise

\* Temporal starts an attempt of one of the activities.
Start(a, s, kind) ==
  /\ At(a, "new")
  /\ s \in plan.slots
  /\ Cardinality({b \in Attempts : ~At(b, "new")}) < plan.attempts
  /\ Become(a, Job("read", s, kind))
  /\ UNCHANGED <<row, books, store, proved, history>>

\* The worker dies, or a call fails in a way that ends the attempt.
Stop(a) ==
  /\ job[a].at \notin {"new", "done"}
  /\ Go(a, "done")
  /\ UNCHANGED <<row, books, store, proved, history>>

\* ExecuteSlotV3 reads the row and derives whether a dispatch is possible.
ReadExecute(a) ==
  /\ At(a, "read") /\ job[a].kind = "execute"
  /\ Become(a, IF Row(a).phase # "none" /\ job[a].quoted # (Row(a).budget # "none")
               THEN To(a, "done")
               ELSE FactOr(a, Row(a), [To(a, "reserve") EXCEPT
                                         !.quoted = @ /\ DispatchPossible(Row(a))]))
  /\ UNCHANGED <<row, books, store, proved, history>>

\* RecoverEffectV3 reads the row; a redrive carries the action of an owner.
ReadRecover(a) ==
  /\ At(a, "read") /\ job[a].kind \in {"recover", "redrive"}
  /\ Become(a, CASE Row(a).phase = "none" -> To(a, "missing")
                 [] Row(a).phase = "recovery_blocked" /\ job[a].kind = "redrive" ->
                      To(a, "restore")
                 [] OTHER -> FactOr(a, Row(a), AfterRecovery(a, Row(a))))
  /\ UNCHANGED <<row, books, store, proved, history>>

\* PersistRecoveryBlockedEffectV3, after the recovery attempts are used up.
ReadPersist(a) ==
  /\ At(a, "read") /\ job[a].kind = "persist"
  /\ Go(a, CASE Row(a).phase = "none" -> "missing"
             [] Row(a).phase \in BlockedPhases \cup {"publication_complete"} -> "done"
             [] OTHER -> "block_recovery")
  /\ UNCHANGED <<row, books, store, proved, history>>

(* recoverSucceededGenerationOutput *)

ReadFact(a) ==
  /\ At(a, "read_fact")
  /\ Become(a, IF Slot(a) \in proved THEN To(a, "recover_bundle") ELSE NoOutput(a))
  /\ UNCHANGED <<row, books, store, proved, history>>

\* RecoverSlotArtifacts finds the bundle, and it is the expected one.
Found(a) ==
  bundle[Slot(a)] # None /\ job[a].manifest \in {None, bundle[Slot(a)]}

RecoverBundle(a) ==
  /\ At(a, "recover_bundle")
  /\ Become(a, CASE Found(a) -> [To(a, "restage") EXCEPT !.bytes = bundle[Slot(a)]]
                 [] bundle[Slot(a)] = None -> To(a, "fetch")
                 [] OTHER -> To(a, "done"))
  /\ UNCHANGED <<row, books, store, proved, history>>

\* The result is downloaded again, or what comes back is not an image.
Fetch(a) ==
  /\ At(a, "fetch")
  /\ \/ \E b \in Outputs :
          Become(a, [To(a, "preserve_fetched") EXCEPT !.bytes = b])
     \/ Become(a, NoOutput(a))
  /\ UNCHANGED <<row, books, store, proved, history>>

\* Mutant: a bundle that exists already is overwritten.
PreservedLast(s, b) == b

\* ensureImmutableObject: the first bundle of a slot stays.
Preserved(s, b) == IF bundle[s] = None THEN b ELSE bundle[s]

\* Concurrent downloads converge on the first bundle.
PreserveFetched(a) ==
  /\ At(a, "preserve_fetched")
  /\ bundle' = [bundle EXCEPT ![Slot(a)] = Preserved(Slot(a), job[a].bytes)]
  /\ Become(a, IF job[a].manifest \in {None, bundle'[Slot(a)]}
               THEN [To(a, "restage") EXCEPT !.bytes = bundle'[Slot(a)]]
               ELSE To(a, "done"))
  /\ UNCHANGED <<row, books, staged, final, proved, history>>

\* A recorded success commits the whole quote, unknown budgets included.
Charged(r, s) ==
  IF r.budget \in {"reserved", "unknown"}
  THEN [reserved |-> books.reserved - Quote[s], committed |-> books.committed + Quote[s]]
  ELSE books

\* Mutant: a recovered manifest counts as staged.
RestagedAsStaged == "artifact_staged"

\* The recovered row starts over at staging.
RestagedPhase == "staging_prepared"

\* RecoverGenerationStaging
Restage(a) ==
  LET r == Row(a)
      prepared == [r EXCEPT !.phase = RestagedPhase, !.manifest = job[a].bytes,
                            !.budget = IF @ = "none" THEN @ ELSE "committed"]
      again == r.phase \notin Recoverable
      next == IF again THEN r ELSE prepared
  IN /\ At(a, "restage")
     /\ Transact(a,
          /\ Slot(a) \in proved
          /\ r.manifest \in {None, job[a].bytes}
          /\ IF again THEN r.manifest # None /\ r.phase \notin BlockedPhases
             ELSE r.budget # "released",
          next,
          IF again THEN books ELSE Charged(r, Slot(a)),
          IF job[a].kind = "execute"
          THEN [To(a, "reserve") EXCEPT !.quoted = FALSE, !.bytes = None]
          ELSE AfterRecovery(a, next),
          To(a, "done"))
     /\ UNCHANGED <<store, proved, history>>

(* The provider *)

\* ReserveSlotProviderV3 where the provider is acquired.
Reserve(a) ==
  LET r == Row(a)
  IN /\ At(a, "reserve") /\ Acquirable(r) /\ Allows(Slot(a))
     /\ Transact(a, TRUE, Acquired(r),
          [books EXCEPT !.reserved = @ + Quote[Slot(a)]],
          IF Acquired(r).phase = "provider_claimed"
          THEN [To(a, "generate") EXCEPT !.manifest = None]
          ELSE To(a, "done"),
          To(a, "done"))
     /\ UNCHANGED <<store, proved, history>>

\* ReserveSlotProviderV3 where it is not: the attempt goes on with the row, and
\* looks for the bundle of a claim that it does not own.
ReserveAgain(a) ==
  LET r == Row(a)
      conflict == job[a].quoted /\ r.budget = "none"
  IN /\ At(a, "reserve") /\ ~Acquirable(r)
     /\ Become(a, CASE conflict -> To(a, "done")
                    [] r.phase = "provider_claimed" ->
                         [To(a, "recover_claimed") EXCEPT !.manifest = None]
                    [] OTHER -> Continue(a, r))
     /\ UNCHANGED <<row, books, store, proved, history>>

\* The provider generates.  Under organization scope only a quoted call reaches
\* it, and nothing is reviewed.
Generate(a) ==
  /\ At(a, "generate")
  /\ job[a].quoted \/ ~plan.organization
  /\ \E b \in Outputs, v \in (IF plan.organization THEN {"passed"} ELSE Verdicts) :
       /\ Become(a, [To(a, "answer") EXCEPT !.bytes = b, !.verdict = v])
       /\ held' = IF v = "passed" THEN held ELSE held \cup {Slot(a)}
  /\ outputs' = [outputs EXCEPT ![Slot(a)] = @ + 1]
  /\ UNCHANGED <<row, books, store, proved, stopped>>

\* RecordGenerationSuccess, which PrepareProvider's observer calls inside the
\* call, under organization scope.
Prove(a) ==
  /\ At(a, "answer") /\ plan.organization
  /\ proved' = proved \cup {Slot(a)}
  /\ UNCHANGED <<row, books, store, job, history>>

Answer(a) ==
  /\ At(a, "answer")
  /\ plan.organization => Slot(a) \in proved
  /\ Go(a, IF job[a].quoted THEN "settle" ELSE "preserve")
  /\ UNCHANGED <<row, books, store, proved, history>>

\* Mutant: a call of unknown outcome counts as one that was not sent.
NotSent(a) == "not_dispatched"

\* What follows a call of unknown outcome.
UnknownOutcome(a) == IF job[a].quoted THEN "mark_unknown" ELSE "block_provider"

\* The call fails: after a dispatch its outcome is unknown; before it the
\* provider says so, or does not.
GenerateFails(a) ==
  /\ \/ At(a, "answer") /\ Go(a, UnknownOutcome(a))
     \/ At(a, "generate") /\ (Go(a, UnknownOutcome(a)) \/ Go(a, "not_dispatched"))
  /\ UNCHANGED <<row, books, store, proved, history>>

\* SettleSlotProviderV3; a success that another attempt recovered meanwhile may
\* carry the same receipt.
Settle(a) ==
  LET r == Row(a)
  IN /\ At(a, "settle")
     /\ \E used \in 0..Quote[Slot(a)] :
          Transact(a, r.budget \in {"reserved", "committed"},
            [r EXCEPT !.budget = "committed"],
            IF r.budget = "committed" THEN books
            ELSE [reserved |-> books.reserved - Quote[Slot(a)],
                  committed |-> books.committed + used],
            To(a, "preserve"), To(a, "mark_unknown"))
     /\ UNCHANGED <<store, proved, history>>

\* MarkSlotProviderBudgetUnknownV3 keeps the reservation.
MarkUnknown(a) ==
  /\ At(a, "mark_unknown")
  /\ Transact(a, Row(a).budget \in {"reserved", "unknown"},
       [Row(a) EXCEPT !.budget = "unknown"], books, To(a, "block_provider"), To(a, "done"))
  /\ UNCHANGED <<store, proved, history>>

\* RecordSlotProviderNotDispatchedV3
NotDispatched(a) ==
  /\ At(a, "not_dispatched")
  /\ Transact(a, Row(a).phase = "provider_claimed" /\ Row(a).budget = "reserved",
       [Row(a) EXCEPT !.phase = "provider_not_dispatched", !.budget = "released"],
       [books EXCEPT !.reserved = @ - Quote[Slot(a)]],
       To(a, "done"), To(a, "done"))
  /\ UNCHANGED <<store, proved, history>>

(* Staging *)

\* preserveSlotRecoveryBundle: a failure after the write looks like one before it.
Preserve(a) ==
  LET failed == IF job[a].verdict = "passed" THEN "block_provider" ELSE "block_staging"
  IN /\ At(a, "preserve")
     /\ \/ /\ bundle' = [bundle EXCEPT ![Slot(a)] = Preserved(Slot(a), job[a].bytes)]
           /\ \/ bundle'[Slot(a)] = job[a].bytes /\ Go(a, "prepare")
              \/ Go(a, failed)
        \/ UNCHANGED bundle /\ Go(a, failed)
     /\ UNCHANGED <<row, books, staged, final, proved, history>>

\* RecoverSlotArtifacts for a claim of another attempt.
RecoverClaimed(a) ==
  /\ At(a, "recover_claimed")
  /\ Become(a, IF Found(a) THEN [To(a, "prepare") EXCEPT !.bytes = bundle[Slot(a)]]
               ELSE To(a, "block_provider"))
  /\ UNCHANGED <<row, books, store, proved, history>>

\* PrepareSlotStagingV3.  An output that review held back is blocked in a
\* transaction of its own.
Prepare(a) ==
  LET r == Row(a)
      next == [r EXCEPT !.phase = "staging_prepared", !.manifest = job[a].bytes]
      passed == job[a].verdict = "passed"
  IN /\ At(a, "prepare")
     /\ Transact(a,
          r.phase = "provider_claimed" \/ r = next,
          next, books,
          IF passed THEN Continue(a, next) ELSE To(a, "block_review"),
          To(a, IF passed THEN "reread_prepare" ELSE "done"))
     /\ UNCHANGED <<store, proved, history>>

\* EnsureStaged with the attempt's own bytes, or with the bundle.
Stage(a) ==
  LET b == IF job[a].bytes # None THEN job[a].bytes ELSE bundle[Slot(a)]
  IN /\ At(a, "stage")
     /\ \/ /\ job[a].bytes # None \/ Found(a)
           /\ staged' = [staged EXCEPT ![Slot(a)] = @ \cup {b}]
           /\ Go(a, "commit_staged")
        \/ UNCHANGED staged /\ Go(a, "block_staging")
     /\ UNCHANGED <<row, books, bundle, final, proved, history>>

\* CommitSlotStagedV3
CommitStaged(a) ==
  LET r == Row(a)
      next == [r EXCEPT !.phase = "artifact_staged"]
  IN /\ At(a, "commit_staged")
     /\ Transact(a,
          /\ r.manifest = job[a].manifest
          /\ r.phase \in {"staging_prepared", "artifact_staged"},
          next, books, Continue(a, next), To(a, "reread_staged"))
     /\ UNCHANGED <<store, proved, history>>

\* After an error of either transaction the row decides.
Reread(a) ==
  /\ \/ At(a, "reread_prepare") /\ Row(a).phase # "provider_claimed"
     \/ At(a, "reread_staged") /\ Row(a).phase # "staging_prepared"
  /\ Become(a, Continue(a, Row(a)))
  /\ UNCHANGED <<row, books, store, proved, history>>

(* Publication *)

\* ClaimPublication acquires a staged artifact or an expired lease.
Claimable(r, m) ==
  \/ r.phase = "artifact_staged"
  \/ r.phase = "publication_claimed" /\ r.final = m /\ ~r.live

\* ClaimSlotPublicationV3; without the lease the attempt ends.
Claim(a) ==
  LET r == Row(a)
      next == [r EXCEPT !.phase = "publication_claimed", !.owner = a,
                        !.fence = NextFence(r), !.live = TRUE, !.final = job[a].manifest]
  IN /\ At(a, "claim") /\ Claimable(r, job[a].manifest)
     /\ Transact(a, TRUE, next, books,
          [To(a, "renew") EXCEPT !.fence = next.fence], To(a, "reread_claim"))
     /\ UNCHANGED <<store, proved, history>>

\* The answer was lost, and the row shows the attempt's own claim.
RereadClaim(a) ==
  /\ At(a, "reread_claim")
  /\ Row(a).phase = "publication_claimed" /\ Row(a).owner = a
  /\ Row(a).final = job[a].manifest
  /\ Become(a, [To(a, "renew") EXCEPT !.fence = Row(a).fence])
  /\ UNCHANGED <<row, books, store, proved, history>>

\* RenewSlotPublicationV3, before the copy (twice in a row) and after it.
Renew(a) ==
  /\ Holds(a, Row(a)) /\ Row(a).live
  /\ \/ At(a, "renew") /\ Go(a, "copy")
     \/ At(a, "renew_after") /\ Go(a, "complete")
  /\ UNCHANGED <<row, books, store, proved, history>>

\* FinalizeWithProgress copies the staged object, or finds it unavailable.
Copy(a) ==
  /\ At(a, "copy")
  /\ \/ /\ job[a].manifest \in staged[Slot(a)]
        /\ final' = [final EXCEPT ![Slot(a)] = @ \cup {job[a].manifest}]
        /\ Go(a, "renew_after")
     \/ UNCHANGED final /\ Go(a, "block_publication")
  /\ UNCHANGED <<row, books, bundle, staged, proved, history>>

\* CompleteSlotPublicationV3 does not look at the lease, only at the fence.
Complete(a) ==
  /\ At(a, "complete")
  /\ Transact(a, Holds(a, Row(a)) /\ Row(a).final = job[a].manifest,
       [Row(a) EXCEPT !.phase = "publication_complete", !.published = job[a].manifest],
       books, To(a, "done"), To(a, "done"))
  /\ UNCHANGED <<store, proved, history>>

\* The lease runs out by the clock of the database.
LeaseExpires(s) ==
  /\ row[s].live /\ row[s].phase \in {"publication_claimed", "recovery_blocked"}
  /\ row' = [row EXCEPT ![s].live = FALSE]
  /\ UNCHANGED <<books, store, proved, job, history>>

(* Blocking and recovery *)

\* BlockSlotEffectV3 at the end of an attempt; a block of the publication must
\* still hold the lease's fence, and a recovery block remembers the phase.
Block(a, step, phase) ==
  LET r == Row(a)
      next == [r EXCEPT !.phase = phase,
                        !.from = IF phase = "recovery_blocked" THEN r.phase ELSE @]
  IN /\ At(a, step)
     /\ Transact(a,
          CanBlock(r, phase) /\ (phase = "publication_unknown" => Holds(a, r)),
          next, books, To(a, "done"), To(a, "done"))
     /\ stopped' = IF phase = "recovery_blocked" /\ row' # row
                   THEN stopped \cup {Slot(a)} ELSE stopped
     /\ UNCHANGED <<store, proved, outputs, held>>

Blocks(a) ==
  \/ Block(a, "block_provider", "provider_unknown")
  \/ Block(a, "block_staging", "staging_unknown")
  \/ job[a].verdict # "passed" /\ Block(a, "block_review", job[a].verdict)
  \/ Block(a, "block_publication", "publication_unknown")
  \/ Block(a, "block_recovery", "recovery_blocked")

\* RestoreRecoveryBlockedEffectV3
Restore(a) ==
  LET r == Row(a)
      next == [r EXCEPT !.phase = r.from, !.from = "none"]
  IN /\ At(a, "restore")
     /\ Transact(a, r.phase = "recovery_blocked" /\ Redrivable(r.from), next, books,
          FactOr(a, next, AfterRecovery(a, next)), To(a, "done"))
     /\ UNCHANGED <<store, proved, history>>

\* persistMissingEffectRecoveryBlockedV3 claims the row without a quote, so that
\* it can be blocked.
Missing(a) ==
  LET r == Row(a)
  IN /\ At(a, "missing")
     /\ Transact(a, r.budget = "none",
          IF r.phase = "none" THEN [r EXCEPT !.phase = "provider_claimed"] ELSE r, books,
          To(a, IF r.phase = "recovery_blocked" THEN "done" ELSE "block_recovery"),
          To(a, "done"))
     /\ UNCHANGED <<store, proved, history>>

Step(a) ==
  \/ Stop(a) \/ ReadExecute(a) \/ ReadRecover(a) \/ ReadPersist(a)
  \/ ReadFact(a) \/ RecoverBundle(a) \/ Fetch(a) \/ PreserveFetched(a) \/ Restage(a)
  \/ Reserve(a) \/ ReserveAgain(a) \/ Generate(a) \/ Prove(a) \/ Answer(a)
  \/ GenerateFails(a) \/ Settle(a) \/ MarkUnknown(a) \/ NotDispatched(a)
  \/ Preserve(a) \/ RecoverClaimed(a) \/ Prepare(a) \/ Stage(a) \/ CommitStaged(a)
  \/ Reread(a) \/ Claim(a) \/ RereadClaim(a) \/ Renew(a) \/ Copy(a) \/ Complete(a)
  \/ Blocks(a) \/ Restore(a) \/ Missing(a)

SlotNext ==
  /\ \/ \E a \in Attempts : Step(a)
     \/ \E a \in Attempts, s \in Slots, kind \in Kinds : Start(a, s, kind)
     \/ \E s \in Slots : LeaseExpires(s)
  /\ UNCHANGED plan

SlotSpec == SlotInit /\ [][SlotNext]_slotVars

-----------------------------------------------------------------------------
(* Properties *)

\* The run's reserved usage is the sum of the quotes of the slots that hold one,
\* outcome unknown or not, and with the committed usage it stays within the
\* limit, whatever attempts reserve, settle and release at the same time.
BudgetBacked ==
  /\ books.reserved = SumOf(Quote, {s \in Slots : row[s].budget \in {"reserved", "unknown"}})
  /\ books.reserved + books.committed <= Limit

\* The provider generates at most once for a slot, over all retries, recoveries
\* and redrives: a claim is only taken again after a proof that nothing was sent.
OneGeneration == \A s \in Slots : outputs[s] <= 1

\* Usage that may have been incurred is never given back: from the moment the
\* provider generated, the slot's quote stays reserved, unknown or committed.
GeneratedIsHeld ==
  \A s \in Slots : outputs[s] > 0 => row[s].budget \in {"reserved", "unknown", "committed"}

\* Every attempt works on the same bytes: whatever is in the row's manifests, in
\* the staging area, under the published prefix or in the published result is
\* the slot's one recovery bundle.
OneContent ==
  \A s \in Slots :
    {row[s].manifest, row[s].final, row[s].published} \cup staged[s] \cup final[s]
      \subseteq {None, bundle[s]}

\* A row never runs ahead of the object store: a prepared manifest has its
\* bundle, a staged one (blocked for recovery or not) its staged object, and a
\* completed publication its published object.
EvidenceStored ==
  \A s \in Slots :
    LET r == row[s]
        reached == IF r.phase = "recovery_blocked" THEN r.from ELSE r.phase
    IN /\ reached = "staging_prepared" => r.manifest = bundle[s] /\ bundle[s] # None
       /\ reached \in StagedPhases => r.manifest \in staged[s]
       /\ reached = "publication_complete" => r.published \in final[s]

\* An attempt whose publication lease was taken over changes nothing any more.
StaleHolderIsHarmless ==
  [][\A a \in Attempts :
       job[a].fence # 0 /\ job[a].fence # Row(a).fence /\ job'[a] # job[a]
         => row' = row]_slotVars

\* A slot that was once blocked for recovery never reaches the provider again:
\* the phases that a redrive may restore leave out the dispatch phases.
StoppedIsNotDispatched ==
  [][\A a \in Attempts :
       ~At(a, "generate") /\ job'[a].at = "generate" => Slot(a) \notin stopped]_slotVars

\* The claim of internal/imageagent/review_outcome.go:8, "image review decision
\* requires intervention": an output that the review did not let through is not
\* published (nothing in this model reviews a slot a second time).
ReviewedBeforePublished ==
  \A s \in Slots : row[s].phase = "publication_complete" => s \notin held

=============================================================================
