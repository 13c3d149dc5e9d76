---------------------------- MODULE StoreService ----------------------------
(***************************************************************************)
(* Activation and renewal of one store's service                            *)
(* (ServiceLifecycleExecutor over MemberScopedStoreRepository), paid with   *)
(* store renewal periods of the resource ledger.  The store database holds  *)
(* the store row, the member assignments and one operation row per charge;  *)
(* the ledger is a second database, reached through ChargeRecovery, whose   *)
(* owner contract this module implements.                                   *)
(*                                                                          *)
(* Every transaction is one action.  A request walks through them one by    *)
(* one and may stop after any (Abandon): crash, timeout, lost reply and     *)
(* every early return without effect.  Several requests may carry the same  *)
(* operation.  Roles come from an external identity service, which may give *)
(* another answer to every check.                                           *)
(***************************************************************************)
EXTENDS ConsumerLedger, Sequences

CONSTANTS
  Loops, Callers, BatchLimit, MaxFaults,  \* as in ChargeRecovery
  Refs,        \* connection references of the store
  Promotable,  \* members the identity service may call administrators
  MaxVersion   \* bound on the store's version

ServiceCommands == {"activate", "renew", "reactivate"}

ASSUME StoreAssumption ==
  /\ BatchLimit \in Nat \ {0} /\ MaxFaults \in Nat
  /\ Promotable \subseteq Members
  /\ MaxVersion \in Nat \ {0}

VARIABLES
  row,       \* workbench_store_service_operations, per charge
  store,     \* the store row, with the periods added to its dates so far
  assigned,  \* members with an active assignment to the store
  call,      \* what each request is about to do, and for which charge
  schedule, due, created, claimed, reading, faults  \* of ChargeRecovery

storeVars == <<row, store, assigned, call>>

chargeVars == <<ledgerVars, schedule, due, created, claimed, reading, faults>>

vars == <<storeVars, chargeVars>>

Rows == [state: {"none", "admitted", "bound", "succeeded", "failed_fenced"},
         bound: BOOLEAN, version: 0..MaxVersion, ref: Refs, command: ServiceCommands]

Stores == [version: 1..MaxVersion, ref: Refs, periods: Nat,
           record: {"active", "disabled", "deleting", "deleted"},
           service: {"none", "pending_activation", "active", "expired"}]

Decided == {"succeeded", "failed_fenced"}

Observations == {"none", "connected", "disconnected"}

Idle == [at |-> "idle"]

Calls == [at: {"admit", "resume", "reserve", "quota", "bind", "forbidden", "connect",
               "changed", "apply", "settle"}, charge: Charges, seen: Observations]

\* ServiceChargeOwner.ReadChargeProof: a decided row proves something only
\* when it names the reservation.
OwnerProof ==
  [c \in Charges |->
     CASE row[c].state = "none" -> "none"
       [] row[c].state \in {"admitted", "bound"} -> "unknown"
       [] row[c].state = "succeeded" /\ row[c].bound -> "succeeded"
       [] row[c].state = "failed_fenced" /\ row[c].bound -> "failed"
       [] OTHER -> "rejected"]

Charge == INSTANCE ChargeRecovery WITH proof <- OwnerProof

\* Rows and request memory that the program can hold.
StoreTypeOK ==
  /\ row \in [Charges -> Rows]
  /\ store \in Stores
  /\ assigned \subseteq Members
  /\ call \in [Callers -> Calls \cup {Idle}]

StoreInit ==
  /\ row = [c \in Charges |-> [state |-> "none", bound |-> FALSE, version |-> 0,
                               ref |-> CHOOSE r \in Refs : TRUE, command |-> "activate"]]
  /\ \E r \in Refs, service \in {"pending_activation", "active"} :
       store = [version |-> 1, ref |-> r, periods |-> 0, record |-> "active",
                service |-> service]
  /\ assigned = Members
  /\ call = [p \in Callers |-> Idle]

Init == LedgerInit /\ StoreInit /\ Charge!RecoveryInit

-----------------------------------------------------------------------------
(* The store row and its assignments *)

\* The columns of the store row that a write sets.
Written(version, ref, record, service, periods) ==
  [version |-> version, ref |-> ref, record |-> record, service |-> service,
   periods |-> periods]

StoreOnly == store.version < MaxVersion /\ UNCHANGED <<row, call, chargeVars>>

\* GormStoreRepository.Save after EditBasic (the status stays), TransitionTo
\* (active to disabled and back) or BeginDelete.
SaveRecord(status) ==
  /\ store.record \in {"active", "disabled"}
  /\ StoreOnly
  /\ store' = Written(store.version + 1, store.ref, status,
                      IF status = "deleting" THEN "none" ELSE store.service, store.periods)
  /\ UNCHANGED assigned

\* MemberScopedStoreRepository.SoftDelete, which revokes every assignment.
SoftDelete ==
  /\ store.record = "deleting"
  /\ StoreOnly
  /\ store' = Written(store.version + 1, store.ref, "deleted", "none", store.periods)
  /\ assigned' = {}

\* updateConnectionRef: the store is connected anew or disconnected.
Reconnect(ref) ==
  /\ store.record \in {"active", "disabled"}
  /\ StoreOnly
  /\ store' = Written(store.version + 1, ref, store.record, store.service, store.periods)
  /\ UNCHANGED assigned

\* Time passes the expiry date of the running period.
Expire ==
  /\ store.service = "active"
  /\ store' = Written(store.version, store.ref, store.record, "expired", store.periods)
  /\ UNCHANGED <<row, assigned, call, chargeVars>>

\* SetMemberGrant: an administrator grants or revokes an assignment.
SetMemberGrant(m) ==
  /\ store.record # "deleted"
  /\ assigned' = IF m \in assigned THEN assigned \ {m} ELSE assigned \cup {m}
  /\ UNCHANGED <<row, store, call, chargeVars>>

-----------------------------------------------------------------------------
(* A request: ReplayServiceLifecycle or ExecuteServiceLifecycle, then resume *)

At(p, where) == call[p].at = where

\* The charge of a request that is under way.
Of(p) == call[p].charge

Goes(p, where, seen) ==
  call' = [call EXCEPT ![p] = [at |-> where, charge |-> Of(p), seen |-> seen]]

Returns(p) == call' = [call EXCEPT ![p] = Idle]

Enterprise(c) == Intent[c].funding = "enterprise_unallocated"

\* What AuthorizeStoreMember may answer for the member of the intent.
Roles(c) ==
  {"none", "member"} \cup
    (IF Intent[c].member \in Promotable THEN {"administrator"} ELSE {})

\* Mutant: a revoked assignment is not looked at again.
AllowedUnassigned(c, role) == role # "none"

\* authorize and requireMemberGrant, under the lock of a store that exists.
Allowed(c, role) ==
  /\ store.record # "deleted"
  /\ role = "administrator" \/ (role = "member" /\ Intent[c].member \in assigned)

\* Only an administrator spends what the enterprise has not allocated.
MayFund(c, role) == Enterprise(c) => role = "administrator"

\* serviceChargeTarget accepts the command in the store's effective state.
Target(command, seen) ==
  /\ store.record = "active"
  /\ CASE command = "activate" -> store.service = "pending_activation" /\ seen = "connected"
       [] command = "renew" -> store.service = "active"
       [] command = "reactivate" -> store.service = "expired"

\* The request reaches the executor with an operation that may be known.
Begin(p, c) ==
  /\ At(p, "idle")
  /\ claimed[p] = <<>>
  /\ \E role \in Roles(c) : Allowed(c, role)
  /\ call' = [call EXCEPT ![p] =
       [at |-> IF row[c].state = "none" THEN "admit" ELSE "resume", charge |-> c,
        seen |-> "none"]]
  /\ UNCHANGED <<row, store, assigned, chargeVars>>

\* AdmitServiceCharge freezes command, store version, connection and funding,
\* or finds the operation a concurrent request has admitted.
AdmitServiceCharge(p) ==
  LET c == Of(p) IN
  /\ At(p, "admit")
  /\ \E role \in Roles(c), command \in ServiceCommands :
       /\ Allowed(c, role)
       /\ MayFund(c, role) \/ row[c].state = "succeeded"
       /\ \/ /\ row[c].state = "none"
             /\ Target(command, "connected")
             /\ role = "administrator" => Enterprise(c)
             /\ row' = [row EXCEPT ![c] = [state |-> "admitted", bound |-> FALSE,
                                           version |-> store.version, ref |-> store.ref,
                                           command |-> command]]
          \/ row[c].state # "none" /\ UNCHANGED row
  /\ Goes(p, "resume", "none")
  /\ UNCHANGED <<store, assigned, chargeVars>>

\* resume reads the operation row once, and checks access to go on.
Resume(p) ==
  LET c == Of(p) IN
  /\ At(p, "resume")
  /\ CASE row[c].state \notin Decided ->
              /\ \E role \in Roles(c) : Allowed(c, role) /\ MayFund(c, role)
              /\ Goes(p, "reserve", "none")
       [] row[c].state \in Decided /\ row[c].bound -> Goes(p, "settle", "none")
       [] OTHER -> Returns(p)
  /\ UNCHANGED <<row, store, assigned, chargeVars>>

\* The ledger refuses for want of balance or because of debt.
Insufficient(c) ==
  LET q == Intent[c].quantity IN
  /\ Unreserved(c)
  /\ \/ ~NoDebt
     \/ Enterprise(c) /\ bucket.available < q
     \/ ~Enterprise(c) /\ position[Intent[c].member].free < q

\* charges.Reserve opens the reservation or reads the open one back.
ReserveServiceCharge(p) ==
  LET c == Of(p) IN
  /\ At(p, "reserve")
  /\ UNCHANGED <<row, store, assigned>>
  /\ \/ Charge!ReserveCharge(c) /\ Goes(p, "bind", "none")
     \/ reservation[c] = "reserved" /\ Goes(p, "bind", "none") /\ UNCHANGED chargeVars
     \/ Insufficient(c) /\ Goes(p, "quota", "none") /\ UNCHANGED chargeVars

\* Mutant: the update is not limited to admitted and bound rows.
CompleteUnguarded(c, state, bound) ==
  row' = [row EXCEPT ![c] = [@ EXCEPT !.state = state, !.bound = bound]]

\* completeServiceCharge only ever decides an undecided row.
Complete(c, state, bound) ==
  row' = IF row[c].state \in Decided THEN row
         ELSE [row EXCEPT ![c] = [@ EXCEPT !.state = state, !.bound = bound]]

\* FenceServiceCharge without a reservation, after QUOTA_INSUFFICIENT.
FenceQuota(p) ==
  LET c == Of(p) IN
  /\ At(p, "quota")
  /\ Complete(c, "failed_fenced", row[c].bound)
  /\ Returns(p)
  /\ UNCHANGED <<store, assigned, chargeVars>>

AfterBind(p) == Goes(p, IF row[Of(p)].command = "activate" THEN "connect" ELSE "apply", "none")

\* BindServiceCharge: the row takes the reservation, has it already, or the
\* member is denied access and the request goes on to fence the charge.
BindServiceCharge(p) ==
  LET c == Of(p) IN
  /\ At(p, "bind")
  /\ \/ /\ ~row[c].bound /\ row[c].state = "admitted"
        /\ \E role \in Roles(c) : Allowed(c, role)
        /\ row' = [row EXCEPT ![c] = [@ EXCEPT !.state = "bound", !.bound = TRUE]]
        /\ AfterBind(p)
     \/ row[c].bound /\ AfterBind(p) /\ UNCHANGED row
     \/ Goes(p, "forbidden", "none") /\ UNCHANGED row
  /\ UNCHANGED <<store, assigned, chargeVars>>

\* FenceServiceCharge with the reservation: NOT_ALLOWED or CONNECTION_CHANGED.
FenceReserved(p) ==
  /\ At(p, "forbidden") \/ At(p, "changed")
  /\ Complete(Of(p), "failed_fenced", TRUE)
  /\ IF row[Of(p)].state \in Decided /\ ~row[Of(p)].bound
       THEN Returns(p) ELSE Goes(p, "settle", "none")
  /\ UNCHANGED <<store, assigned, chargeVars>>

\* Activation asks the platform for the connection it was admitted with.
ObserveConnection(p) ==
  /\ At(p, "connect")
  /\ IF store.ref # row[Of(p)].ref
       THEN Goes(p, "changed", "none")
       ELSE \E seen \in {"connected", "disconnected"} : Goes(p, "apply", seen)
  /\ UNCHANGED <<row, store, assigned, chargeVars>>

\* Mutant: a command is applied to whatever version the store has by now.
AsAdmittedAnyVersion(c) == store.ref = row[c].ref

\* Version and connection are still those of the intent.
AsAdmitted(c) == store.version = row[c].version /\ store.ref = row[c].ref

\* ApplyServiceCharge: the effect and its proof in one transaction, or the
\* proof that there will be none.
ApplyServiceCharge(p) ==
  LET c == Of(p) IN
  /\ At(p, "apply")
  /\ row[c].bound
  /\ \E role \in Roles(c) :
       LET applies == /\ row[c].state = "bound"
                      /\ Allowed(c, role) /\ MayFund(c, role)
                      /\ AsAdmitted(c)
                      /\ Target(row[c].command, call[p].seen) IN
       /\ applies => store.version < MaxVersion
       /\ Complete(c, IF applies THEN "succeeded" ELSE "failed_fenced", TRUE)
       /\ store' = IF applies
                     THEN Written(store.version + 1, store.ref, "active", "active",
                                  store.periods + Intent[c].quantity)
                     ELSE store
  /\ Goes(p, "settle", "none")
  /\ UNCHANGED <<assigned, chargeVars>>

\* settle hands the charge to Reconcile.
SettleServiceCharge(p) ==
  /\ At(p, "settle")
  /\ UNCHANGED <<row, store, assigned>>
  /\ Charge!CallReconcile(p, Of(p))
  /\ Returns(p)

\* The request ends early: error, timeout, crash or cancelled context.
Abandon(p) ==
  /\ ~At(p, "idle")
  /\ Returns(p)
  /\ UNCHANGED <<row, store, assigned, chargeVars>>

-----------------------------------------------------------------------------
RequestStep(p) ==
  \/ \E c \in Charges : Begin(p, c)
  \/ AdmitServiceCharge(p) \/ Resume(p) \/ ReserveServiceCharge(p)
  \/ FenceQuota(p) \/ BindServiceCharge(p) \/ FenceReserved(p)
  \/ ObserveConnection(p) \/ ApplyServiceCharge(p) \/ SettleServiceCharge(p)
  \/ Abandon(p)

StoreStep ==
  \/ \E status \in {"active", "disabled", "deleting"} : SaveRecord(status)
  \/ SoftDelete
  \/ \E ref \in Refs : Reconnect(ref)
  \/ Expire
  \/ \E m \in Members : SetMemberGrant(m)

\* Grants, transfers, debt and the recovery loops go on meanwhile.
LedgerStep ==
  /\ UNCHANGED storeVars
  /\ \/ Charge!OtherLedgerStep
     \/ Charge!Tick
     \/ \E p \in Loops : Charge!ClaimDue(p)
     \/ \E p \in Loops \cup Callers :
          Charge!ReadProof(p) \/ Charge!SettleClaim(p) \/ Charge!Fail(p) \/ Charge!Crash(p)

Next == (\E p \in Callers : RequestStep(p)) \/ StoreStep \/ LedgerStep

Spec == Init /\ [][Next]_vars

-----------------------------------------------------------------------------
(* Properties *)

\* Every period the service dates moved by is paid: it is consumed in the
\* ledger or still held for it, and a released charge moved nothing.  Of the
\* commands that were admitted at one version of the store at most one moved
\* its dates, however many requests carried them to ApplyServiceCharge.
PeriodsPaid ==
  /\ store.periods = QuantityOf({c \in Charges : row[c].state = "succeeded"})
  /\ \A c, d \in Charges :
       (row[c].state = "succeeded" /\ row[d].state = "succeeded" /\ c # d)
         => row[c].version # row[d].version
  /\ \A c \in Charges :
       /\ row[c].state = "succeeded" => reservation[c] \in {"reserved", "committed"}
       /\ reservation[c] = "committed" => row[c].state = "succeeded"

\* A service never starts or is extended for a plain member whose assignment
\* is revoked, however long ago the charge was admitted and bound
\* (requireMemberGrant under the store lock of ApplyServiceCharge).
RevokedNeverServed ==
  [][\A c \in Charges :
       (row'[c].state = "succeeded" /\ row[c].state # "succeeded")
         => Intent[c].member \in assigned \cup Promotable]_vars

\* The store service keeps the contract that ConsumerChargeService expects of
\* an owner: one proof, never withdrawn, and only for a reserved charge.
OwnerContract == Charge!Spec

=============================================================================
