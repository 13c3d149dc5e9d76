--------------------------- MODULE ChargeRecovery ---------------------------
(***************************************************************************)
(* Settlement of consumer charges across two databases                      *)
(* (ConsumerChargeService over GormConsumerChargeRepository).  The owner of *)
(* a charge keeps its intent and, later, an immutable proof in its own      *)
(* database; the ledger opens a reservation for the intent and settles it   *)
(* from the proof.  Recovery loops claim reservations whose check time has  *)
(* come, a batch at a time, and callers reconcile their own charge at once. *)
(* Reading the proof and settling are two steps, and any process may stop   *)
(* or time out between them.                                                *)
(*                                                                          *)
(* The owner is abstract here: it admits an intent, proves one outcome of a *)
(* charge that is reserved, or rejects it without one.  StoreService is an  *)
(* owner that implements these steps.                                       *)
(***************************************************************************)
EXTENDS ConsumerLedger, Sequences

CONSTANTS
  Loops,       \* recovery loops, one per running application
  Callers,     \* requests that reconcile a charge themselves
  BatchLimit,  \* reservations claimed per pass (25 in the code)
  MaxFaults    \* bound on crashes, timeouts and failed reads

ASSUME RecoveryAssumption == BatchLimit \in Nat \ {0} /\ MaxFaults \in Nat

Processes == Loops \cup Callers

VARIABLES
  proof,     \* what the owner's row says of each charge
  schedule,  \* open reservations ordered by next_check_at
  due,       \* how many of them, from the front, have next_check_at <= now
  created,   \* reservations in the order of created_at
  claimed,   \* identities each process still has to reconcile
  reading,   \* the terminal proof a process has read for the first of them
  faults     \* faults so far

recoveryVars == <<schedule, due, created, claimed, reading, faults>>

vars == <<ledgerVars, proof, recoveryVars>>

Proven == {"succeeded", "failed"}

OwnerStates == {"none", "unknown", "rejected"} \cup Proven

\* Rows and process memory that the program can hold.
RecoveryTypeOK ==
  /\ proof \in [Charges -> OwnerStates]
  /\ schedule \in Seq(Charges) /\ created \in Seq(Charges)
  /\ due \in 0..Len(schedule)
  /\ claimed \in [Processes -> Seq(Charges)]
  /\ reading \in [Processes -> Proven \cup {"none"}]
  /\ faults \in 0..MaxFaults

RecoveryInit ==
  /\ proof = [c \in Charges |-> "none"]
  /\ schedule = <<>>
  /\ due = 0
  /\ created = <<>>
  /\ claimed = [p \in Processes |-> <<>>]
  /\ reading = [p \in Processes |-> "none"]
  /\ faults = 0

-----------------------------------------------------------------------------
(* The owner of a charge, in its own database *)

OwnerMoves(c, state) ==
  /\ proof' = [proof EXCEPT ![c] = state]
  /\ UNCHANGED <<ledgerVars, recoveryVars>>

\* The owner persists the immutable intent before anything is reserved.
Admit(c) == proof[c] = "none" /\ OwnerMoves(c, "unknown")

\* The owner settles on one outcome of a charge whose reservation it has bound.
Prove(c) ==
  /\ proof[c] = "unknown"
  /\ reservation[c] # "none"
  /\ \E outcome \in Proven : OwnerMoves(c, outcome)

\* The owner gives up without a reservation; the ledger reads this as UNKNOWN.
Reject(c) == proof[c] = "unknown" /\ OwnerMoves(c, "rejected")

-----------------------------------------------------------------------------
(* The ledger *)

\* ConsumerChargeService.Reserve: the owner's intent is read first.  The new
\* row is due at once: it follows the rows that are due and precedes the rest.
ReserveCharge(c) ==
  /\ proof[c] # "none"
  /\ Reserve(c)
  /\ schedule' = SubSeq(schedule, 1, due) \o <<c>> \o SubSeq(schedule, due + 1, Len(schedule))
  /\ due' = due + 1
  /\ created' = Append(created, c)
  /\ UNCHANGED <<proof, claimed, reading, faults>>

OtherLedgerStep ==
  /\ \/ \E o \in GrantOps, s \in Sources : PurchasedGrant(o, s)
     \/ \E d \in 1..MaxIncurred : IncurDebt(d)
     \/ \E t \in TransferOps, cmd \in TransferCommands :
          Allocate(t, cmd) \/ Reclaim(t, cmd)
  /\ UNCHANGED <<proof, recoveryVars>>

\* A row's check time passes.
Tick ==
  /\ due < Len(schedule)
  /\ due' = due + 1
  /\ UNCHANGED <<ledgerVars, proof, schedule, created, claimed, reading, faults>>

\* Mutant: the claimed rows keep their check time.
ReplanKeepsTime(batch) == schedule

\* ClaimDue moves the claimed rows to now + 30s, behind every other row; rows
\* of one batch are ordered by created_at again.
Replan(batch) ==
  SubSeq(schedule, Len(batch) + 1, Len(schedule))
    \o SelectSeq(created, LAMBDA c : c \in Range(batch))

\* GormConsumerChargeRepository.ClaimDue.
ClaimDue(p) ==
  LET batch == SubSeq(schedule, 1, IF due < BatchLimit THEN due ELSE BatchLimit) IN
  /\ claimed[p] = <<>>
  /\ due > 0
  /\ schedule' = Replan(batch)
  /\ due' = due - Len(batch)
  /\ claimed' = [claimed EXCEPT ![p] = batch]
  /\ UNCHANGED <<ledgerVars, proof, created, reading, faults>>

\* A caller reconciles the charge it works on.
CallReconcile(p, c) ==
  /\ claimed[p] = <<>>
  /\ reservation[c] # "none"
  /\ claimed' = [claimed EXCEPT ![p] = <<c>>]
  /\ UNCHANGED <<ledgerVars, proof, schedule, due, created, reading, faults>>

\* The claim a process works on is finished, for better or worse.
Done(p) ==
  /\ claimed' = [claimed EXCEPT ![p] = Tail(@)]
  /\ reading' = [reading EXCEPT ![p] = "none"]

\* Mutant: an owner that cannot tell is taken for a failure.
ProofOfMissingIsFailed(state) == IF state = "succeeded" THEN state ELSE "failed"

\* ReadChargeProof as Reconcile understands it: only a terminal proof counts.
ProofOf(state) == IF state \in Proven THEN state ELSE "none"

\* Reconcile reads the receipt and, when it is still open, the owner's proof.
ReadProof(p) ==
  /\ claimed[p] # <<>>
  /\ reading[p] = "none"
  /\ LET c == Head(claimed[p])
         found == ProofOf(proof[c]) IN
     IF reservation[c] \in Terminal \/ found = "none"
       THEN Done(p)
       ELSE reading' = [reading EXCEPT ![p] = found] /\ UNCHANGED claimed
  /\ UNCHANGED <<ledgerVars, proof, schedule, due, created, faults>>

\* Reconcile settles with the proof it has read; another process may have
\* settled the row meanwhile, and then Settle only reads it back.
SettleClaim(p) ==
  /\ reading[p] # "none"
  /\ \E c \in Charges :
       /\ c = Head(claimed[p])
       /\ \/ /\ \/ reading[p] = "succeeded" /\ SettleCommitted(c)
                \/ reading[p] = "failed" /\ SettleReleased(c)
             /\ schedule' = SelectSeq(schedule, LAMBDA x : x # c)
             /\ due' = IF \E i \in 1..due : schedule[i] = c THEN due - 1 ELSE due
          \/ /\ reservation[c] \in Terminal
             /\ UNCHANGED <<ledgerVars, schedule, due>>
  /\ Done(p)
  /\ UNCHANGED <<proof, created, faults>>

\* A proof read or a settlement fails or times out; the row keeps its new
\* check time and the pass goes on with the next one.
Fail(p) ==
  /\ claimed[p] # <<>>
  /\ faults < MaxFaults
  /\ faults' = faults + 1
  /\ Done(p)
  /\ UNCHANGED <<ledgerVars, proof, schedule, due, created>>

\* The process stops; what it had claimed is forgotten.
Crash(p) ==
  /\ claimed[p] # <<>>
  /\ faults < MaxFaults
  /\ faults' = faults + 1
  /\ claimed' = [claimed EXCEPT ![p] = <<>>]
  /\ reading' = [reading EXCEPT ![p] = "none"]
  /\ UNCHANGED <<ledgerVars, proof, schedule, due, created>>

-----------------------------------------------------------------------------
OwnerStep == \E c \in Charges : Admit(c) \/ Prove(c) \/ Reject(c)

RecoveryStep ==
  \/ \E c \in Charges : ReserveCharge(c)
  \/ OtherLedgerStep
  \/ Tick
  \/ \E p \in Loops : ClaimDue(p)
  \/ \E p \in Callers, c \in Charges : CallReconcile(p, c)
  \/ \E p \in Processes : ReadProof(p) \/ SettleClaim(p) \/ Fail(p) \/ Crash(p)

Init == LedgerInit /\ RecoveryInit

Next == OwnerStep \/ RecoveryStep

\* startCommercialRecoveryLoop runs a pass at startup and every 30 seconds for
\* as long as the application runs, and a pass works through its batch.
Fairness ==
  /\ WF_vars(Tick)
  /\ \A p \in Loops : WF_vars(ClaimDue(p))
  /\ \A p \in Processes : WF_vars(ReadProof(p)) /\ WF_vars(SettleClaim(p))

Spec == Init /\ [][Next]_vars

FairSpec == Spec /\ Fairness

-----------------------------------------------------------------------------
(* Properties *)

\* No charge is settled against its owner: consumption follows a proof of
\* success, a refund follows a proof that the effect will never happen.  An
\* owner that is silent, unreadable or undecided never causes either
\* (Reconcile, "release on elapsed time").
SettledAsProved ==
  \A c \in Charges :
    /\ reservation[c] = "committed" => proof[c] = "succeeded"
    /\ reservation[c] = "released" => proof[c] = "failed"

\* A charge that its owner has proved is settled in the end, although
\* processes crash, reads time out, and reservations that stay UNKNOWN for
\* ever fill whole batches (the comment on ClaimDue).
ProvedIsSettled ==
  \A c \in Charges : proof[c] \in Proven ~> reservation[c] \in Terminal

=============================================================================
