------------------------- MODULE StoreServiceProofs -------------------------
(***************************************************************************)
(* The store service keeps the contract that charge recovery expects of an *)
(* owner, every period it adds is paid for, and nobody whose assignment is *)
(* revoked is served: for every set of charges, members, connections and   *)
(* recovery loops, any number of concurrent and abandoned requests, and    *)
(* any bound on the store's version.                                       *)
(***************************************************************************)
EXTENDS StoreService, RowSumsProofs

\* The leaves are first-order; one that needs arithmetic names the SMT solver.
USE Zenon

-----------------------------------------------------------------------------
(* The inductive invariant *)

\* A row that names the reservation has one, and a service only moves with it.
RowFits(c) ==
  /\ row[c].bound => reservation[c] # "none"
  /\ row[c].state \in {"bound", "succeeded"} => row[c].bound
  /\ row[c].state = "none" => ~row[c].bound

\* What a request has learned of its charge c where it stands.
Learned(at, c) ==
  /\ at # "admit" => row[c].state # "none"
  /\ at \in {"bind", "forbidden"} => reservation[c] # "none"
  /\ at \in {"connect", "changed", "apply"} => row[c].bound

CallFits(p) == call[p] = Idle \/ Learned(call[p].at, call[p].charge)

\* The dates of the store moved by exactly the periods of succeeded charges.
PeriodsFit == store.periods = QuantityOf({c \in Charges : row[c].state = "succeeded"})

\* The inductive invariant: a request acts on what it learned some
\* transactions ago, so what it learned has to hold for good.
StoreInv ==
  /\ StoreTypeOK
  /\ reservation \in [Charges -> ReservationStates]
  /\ \A c \in Charges : RowFits(c)
  /\ \A p \in Callers : CallFits(p)
  /\ PeriodsFit

-----------------------------------------------------------------------------
(* What the steps of the ledger do to reservations *)

\* Reservations are opened and settled, never forgotten.
ReservationsStay ==
  /\ reservation' \in [Charges -> ReservationStates]
  /\ \A c \in Charges : reservation[c] # "none" => reservation'[c] # "none"

LEMMA ReservationSet ==
  ASSUME reservation \in [Charges -> ReservationStates], NEW c \in Charges,
         NEW to \in ReservationStates \ {"none"},
         reservation' = [reservation EXCEPT ![c] = to]
  PROVE  ReservationsStay
BY DEF ReservationsStay

LEMMA ReservationSame ==
  ASSUME reservation \in [Charges -> ReservationStates], UNCHANGED reservation
  PROVE  ReservationsStay
BY DEF ReservationsStay

\* Every step of the ledger and its recovery keeps the reservations.
LEMMA LedgerReservations ==
  ASSUME reservation \in [Charges -> ReservationStates], LedgerStep
  PROVE  ReservationsStay
<1>1. CASE Charge!OtherLedgerStep
  BY <1>1, ReservationSame
     DEF Charge!OtherLedgerStep, Charge!PurchasedGrant, Charge!IncurDebt, Charge!Allocate,
         Charge!Reclaim, Charge!TransferFence
<1>2. CASE Charge!Tick
  BY <1>2, ReservationSame DEF Charge!Tick, Charge!ledgerVars
<1>3. ASSUME NEW p \in Loops, Charge!ClaimDue(p) PROVE ReservationsStay
  BY <1>3, ReservationSame DEF Charge!ClaimDue, Charge!ledgerVars
<1>4. ASSUME NEW p, Charge!ReadProof(p) \/ Charge!Fail(p) \/ Charge!Crash(p)
      PROVE  ReservationsStay
  BY <1>4, ReservationSame DEF Charge!ReadProof, Charge!Fail, Charge!Crash, Charge!ledgerVars
<1>5. ASSUME NEW p, Charge!SettleClaim(p) PROVE ReservationsStay
  <2>1. CASE UNCHANGED reservation
    BY <2>1, ReservationSame
  <2>2. ASSUME NEW c \in Charges, NEW to \in {"committed", "released"},
               reservation' = [reservation EXCEPT ![c] = to]
        PROVE  ReservationsStay
    BY <2>2, ReservationSet DEF ReservationStates
  <2> QED
    BY <1>5, <2>1, <2>2
       DEF Charge!SettleClaim, Charge!SettleCommitted, Charge!SettleReleased, Charge!SettleRow,
           Charge!ledgerVars
<1> QED
  BY <1>1, <1>2, <1>3, <1>4, <1>5 DEF LedgerStep

LEMMA ReserveReservations ==
  ASSUME reservation \in [Charges -> ReservationStates], NEW c \in Charges, Charge!ReserveCharge(c)
  PROVE  ReservationsStay /\ reservation'[c] = "reserved"
<1>1. reservation' = [reservation EXCEPT ![c] = "reserved"]
  BY DEF Charge!ReserveCharge, Charge!Reserve, Charge!ReserveMember, Charge!ReserveEnterprise,
     Charge!ReserveRow
<1>2. "reserved" \in ReservationStates \ {"none"}
  BY DEF ReservationStates
<1> QED
  BY <1>1, <1>2, ReservationSet

-----------------------------------------------------------------------------
(* Rows and requests only move forward *)

RowsForward ==
  \A c \in Charges :
    /\ row[c].state # "none" => row'[c].state # "none"
    /\ row[c].bound => row'[c].bound

\* What a request has learned stays true.
LEMMA LearnedStays ==
  ASSUME NEW c \in Charges, NEW at, Learned(at, c), RowsForward, ReservationsStay
  PROVE  Learned(at, c)'
BY DEF Learned, RowsForward, ReservationsStay

\* Where each request stands, and for which charge.
LEMMA CallIs ==
  ASSUME StoreTypeOK, NEW p \in Callers, call[p] # Idle
  PROVE  /\ call[p].charge \in Charges /\ call[p].seen \in Observations
         /\ call[p].at # "idle"
BY SMT DEF StoreTypeOK, Calls

RequestsFit == call \in [Callers -> Calls \cup {Idle}] /\ \A p \in Callers : CallFits(p)

\* Requests that stand still keep what they know.
LEMMA RequestsSame ==
  ASSUME StoreInv, RowsForward, ReservationsStay, UNCHANGED call
  PROVE  RequestsFit'
<1>1. ASSUME NEW p \in Callers PROVE CallFits(p)'
  <2>1. CASE call[p] = Idle
    BY <2>1 DEF CallFits, Idle
  <2>2. CASE call[p] # Idle
    <3>1. call[p].charge \in Charges /\ Learned(call[p].at, call[p].charge)
      BY <2>2, CallIs DEF StoreInv, CallFits
    <3> QED
      BY <3>1, LearnedStays DEF CallFits
  <2> QED
    BY <2>1, <2>2
<1> QED
  BY <1>1 DEF RequestsFit, StoreInv, StoreTypeOK, Idle, Calls, Observations

\* One request moves on with what it knows, the others stand still.
LEMMA RequestMoves ==
  ASSUME StoreInv, RowsForward, ReservationsStay, NEW p \in Callers, NEW k \in Calls \cup {Idle},
         k = Idle \/ Learned(k.at, k.charge)', call' = [call EXCEPT ![p] = k]
  PROVE  RequestsFit'
<1>0. call \in [Callers -> Calls \cup {Idle}]
  BY DEF StoreInv, StoreTypeOK
<1>1. call' \in [Callers -> Calls \cup {Idle}]
  BY <1>0
<1>2. CallFits(p)'
  <2>1. call'[p] = k
    BY <1>0
  <2> QED
    BY <2>1 DEF CallFits, Idle
<1>3. ASSUME NEW q \in Callers \ {p} PROVE CallFits(q)'
  <2>0. call'[q] = call[q]
    BY <1>0, <1>3
  <2>1. CASE call[q] = Idle
    BY <2>0, <2>1 DEF CallFits, Idle
  <2>2. CASE call[q] # Idle
    <3>1. call[q].charge \in Charges /\ Learned(call[q].at, call[q].charge)
      BY <2>2, CallIs DEF StoreInv, CallFits
    <3> QED
      BY <2>0, <3>1, LearnedStays DEF CallFits
  <2> QED
    BY <2>1, <2>2
<1> QED
  BY <1>1, <1>2, <1>3 DEF RequestsFit, Idle, Calls, Observations

\* The two ways a request moves: it returns, or goes on with its charge.
LEMMA ReturnsFit ==
  ASSUME StoreInv, RowsForward, ReservationsStay, NEW p \in Callers, Returns(p)
  PROVE  RequestsFit'
BY RequestMoves DEF Returns

Places == {"admit", "resume", "reserve", "quota", "bind", "forbidden", "connect", "changed",
           "apply", "settle"}

LEMMA GoesFit ==
  ASSUME StoreInv, RowsForward, ReservationsStay, NEW p \in Callers, NEW c \in Charges, c = Of(p),
         NEW at \in Places, NEW seen \in Observations, Goes(p, at, seen), Learned(at, c)'
  PROVE  RequestsFit'
<1>1. PICK k : k = [at |-> at, charge |-> c, seen |-> seen]
  OBVIOUS
<1>2. k.at = at /\ k.charge = c /\ k \in Calls
  BY <1>1, SMT DEF Calls, Places
<1>3. call' = [call EXCEPT ![p] = k]
  BY <1>1 DEF Goes
<1> QED
  BY <1>2, <1>3, RequestMoves

-----------------------------------------------------------------------------
(* Rows *)

RowsFit == row \in [Charges -> Rows] /\ \A c \in Charges : RowFits(c)

LEMMA RowsSame ==
  ASSUME StoreInv, ReservationsStay, UNCHANGED row
  PROVE  RowsForward /\ RowsFit'
<1>1. RowsForward
  BY DEF RowsForward
<1>2. ASSUME NEW d \in Charges PROVE RowFits(d)'
  BY DEF StoreInv, RowFits, ReservationsStay
<1> QED
  BY <1>1, <1>2 DEF RowsFit, StoreInv, StoreTypeOK, Rows, ServiceCommands

\* What an update of the columns state and bound makes of a row.
Later(q, state, bound) == [q EXCEPT !.state = state, !.bound = bound]

RowStates == {"none", "admitted", "bound", "succeeded", "failed_fenced"}

LEMMA LaterIs ==
  ASSUME NEW q \in Rows, NEW bound \in BOOLEAN, NEW state \in RowStates
  PROVE  /\ Later(q, state, bound) \in Rows
         /\ Later(q, state, bound).state = state
         /\ Later(q, state, bound).bound = bound
<1>0. PICK r : r = [q EXCEPT !.state = state, !.bound = bound]
  OBVIOUS
<1>1. q.version \in 0..MaxVersion /\ q.ref \in Refs /\ q.command \in ServiceCommands
  BY DEF Rows
<1>2. r = [state |-> state, bound |-> bound, version |-> q.version, ref |-> q.ref,
           command |-> q.command]
  BY <1>0 DEF Rows
<1>3. r \in Rows /\ r.state = state /\ r.bound = bound
  BY <1>1, <1>2 DEF Rows, RowStates
<1> QED
  BY <1>0, <1>3 DEF Later

\* One row is written: r is a later state of it, and fits.
LEMMA RowSet ==
  ASSUME StoreInv, ReservationsStay, NEW c \in Charges, NEW r \in Rows,
         row' = [row EXCEPT ![c] = r],
         row[c].state # "none" => r.state # "none",
         row[c].bound => r.bound,
         r.bound => reservation'[c] # "none",
         r.state \in {"bound", "succeeded"} => r.bound,
         r.state = "none" => ~r.bound
  PROVE  RowsForward /\ RowsFit'
<1>0. row \in [Charges -> Rows]
  BY DEF StoreInv, StoreTypeOK
<1>1. row' \in [Charges -> Rows]
  BY <1>0
<1>2. row'[c] = r /\ \A d \in Charges \ {c} : row'[d] = row[d]
  BY <1>0
<1>3. RowsForward
  BY <1>2 DEF RowsForward
<1>4. RowFits(c)'
  BY <1>2 DEF RowFits
<1>5. ASSUME NEW d \in Charges \ {c} PROVE RowFits(d)'
  BY <1>2, <1>5 DEF StoreInv, RowFits, ReservationsStay
<1> QED
  BY <1>1, <1>3, <1>4, <1>5 DEF RowsFit, Rows, ServiceCommands

-----------------------------------------------------------------------------
(* Periods *)

Succeeded == {c \in Charges : row[c].state = "succeeded"}

LEMMA PeriodsSame ==
  ASSUME StoreInv, store'.periods = store.periods,
         \A c \in Charges : row'[c].state = "succeeded" <=> row[c].state = "succeeded"
  PROVE  PeriodsFit'
<1>1. Succeeded' = Succeeded
  BY DEF Succeeded
<1> QED
  BY <1>1 DEF StoreInv, PeriodsFit, Succeeded, QuantityOf

\* A charge that succeeds adds its periods to the sum and to the dates.
LEMMA PeriodsAdded ==
  ASSUME StoreInv, NEW c \in Charges, row[c].state # "succeeded", row'[c].state = "succeeded",
         \A d \in Charges \ {c} : row'[d] = row[d],
         store'.periods = store.periods + Intent[c].quantity
  PROVE  PeriodsFit'
<1> DEFINE f == [d \in Charges |-> Intent[d].quantity]
<1>1. \A d \in Charges : f[d] \in Int
  BY LedgerAssumption, MaxIntAssumption, SMT DEF Intents, Quantities
<1>2. IsFiniteSet(Succeeded) /\ Succeeded \subseteq Charges /\ c \notin Succeeded
  BY LedgerAssumption, FS_Subset DEF Succeeded
<1>3. Succeeded' = Succeeded \cup {c}
  BY DEF Succeeded
<1>4. f[c] = Intent[c].quantity
  OBVIOUS
<1>5. SumOf(f, Succeeded \cup {c}) = SumOf(f, Succeeded) + f[c]
  <2>1. \A d \in Succeeded \cup {c} : f[d] \in Int
    BY <1>1, <1>2
  <2> HIDE DEF f
  <2> QED
    BY <1>2, <2>1, SumAdd
<1>6. store.periods = SumOf(f, Succeeded)
  BY DEF StoreInv, PeriodsFit, QuantityOf, Succeeded
<1>7. PeriodsFit' <=> store'.periods = SumOf(f, Succeeded')
  BY DEF PeriodsFit, QuantityOf, Succeeded
<1> HIDE DEF f
<1> QED
  BY <1>3, <1>4, <1>5, <1>6, <1>7

-----------------------------------------------------------------------------
(* Every step keeps the invariant *)

LEMMA Together ==
  ASSUME RowsFit', RequestsFit', PeriodsFit', ReservationsStay,
         store' \in Stores, assigned' \subseteq Members
  PROVE  StoreInv'
<1>1. StoreTypeOK'
  BY DEF StoreTypeOK, RowsFit, RequestsFit, Rows, Stores, Calls, Idle, Observations, ServiceCommands
<1> QED
  BY <1>1 DEF StoreInv, RowsFit, RequestsFit, ReservationsStay, ReservationStates

LEMMA StoreTyped == ASSUME StoreInv PROVE store \in Stores /\ assigned \subseteq Members
BY DEF StoreInv, StoreTypeOK

\* A step of the ledger leaves the store database alone.
LEMMA LedgerKeeps ==
  ASSUME StoreInv, UNCHANGED storeVars, ReservationsStay
  PROVE  StoreInv'
<1>1. UNCHANGED <<row, store, assigned, call>>
  BY DEF storeVars
<1>2. RowsForward /\ RowsFit'
  BY <1>1, RowsSame
<1>3. RequestsFit'
  BY <1>1, <1>2, RequestsSame
<1>4. PeriodsFit'
  BY <1>1, PeriodsSame
<1> QED
  BY <1>1, <1>2, <1>3, <1>4, StoreTyped, Together

\* A write to the store row or the assignments.
LEMMA WriteKeeps ==
  ASSUME StoreInv, UNCHANGED <<row, call, chargeVars>>, store' \in Stores,
         store'.periods = store.periods, assigned' \subseteq Members
  PROVE  StoreInv'
<1>1. UNCHANGED <<row, call, reservation>>
  BY DEF chargeVars, ledgerVars
<1>2. ReservationsStay
  BY <1>1, ReservationSame DEF StoreInv
<1>3. RowsForward /\ RowsFit'
  BY <1>1, <1>2, RowsSame
<1>4. RequestsFit'
  BY <1>1, <1>2, <1>3, RequestsSame
<1>5. PeriodsFit'
  BY <1>1, PeriodsSame
<1> QED
  BY <1>2, <1>3, <1>4, <1>5, Together

\* The columns of the store row.
LEMMA StoreIs ==
  ASSUME StoreInv
  PROVE  /\ store.version \in 1..MaxVersion /\ store.ref \in Refs /\ store.periods \in Nat
         /\ store.record \in {"active", "disabled", "deleting", "deleted"}
         /\ store.service \in {"none", "pending_activation", "active", "expired"}
         /\ store.version < MaxVersion => store.version + 1 \in 1..MaxVersion
<1>1. /\ store.version \in 1..MaxVersion /\ store.ref \in Refs /\ store.periods \in Nat
      /\ store.record \in {"active", "disabled", "deleting", "deleted"}
      /\ store.service \in {"none", "pending_activation", "active", "expired"}
  BY StoreTyped DEF Stores
<1>2. store.version < MaxVersion => store.version + 1 \in 1..MaxVersion
  BY <1>1, StoreAssumption, SMT
<1> QED
  BY <1>1, <1>2

LEMMA StoreStepKeeps == ASSUME StoreInv, StoreStep PROVE StoreInv'
<1>0. assigned \subseteq Members
  BY StoreTyped
<1>1. ASSUME NEW status \in {"active", "disabled", "deleting"}, SaveRecord(status) PROVE StoreInv'
  <2>1. PICK service \in {"none", "pending_activation", "active", "expired"} :
          store' = Written(store.version + 1, store.ref, status, service, store.periods)
    BY <1>1, StoreIs DEF SaveRecord
  <2>2. store' \in Stores /\ store'.periods = store.periods
    BY <1>1, <2>1, StoreIs, SMT DEF SaveRecord, StoreOnly, Written, Stores
  <2> QED
    BY <1>0, <1>1, <2>2, WriteKeeps DEF SaveRecord, StoreOnly
<1>2. ASSUME SoftDelete PROVE StoreInv'
  <2>1. store' \in Stores /\ store'.periods = store.periods
    BY <1>2, StoreIs, SMT DEF SoftDelete, StoreOnly, Written, Stores
  <2> QED
    BY <1>2, <2>1, WriteKeeps DEF SoftDelete, StoreOnly
<1>3. ASSUME NEW ref \in Refs, Reconnect(ref) PROVE StoreInv'
  <2>1. store' \in Stores /\ store'.periods = store.periods
    BY <1>3, StoreIs, SMT DEF Reconnect, StoreOnly, Written, Stores
  <2> QED
    BY <1>0, <1>3, <2>1, WriteKeeps DEF Reconnect, StoreOnly
<1>4. ASSUME Expire PROVE StoreInv'
  <2>1. store' \in Stores /\ store'.periods = store.periods
    BY <1>4, StoreIs, SMT DEF Expire, Written, Stores
  <2> QED
    BY <1>0, <1>4, <2>1, WriteKeeps DEF Expire
<1>5. ASSUME NEW m \in Members, SetMemberGrant(m) PROVE StoreInv'
  <2>1. assigned' \subseteq Members
    BY <1>0, <1>5 DEF SetMemberGrant
  <2> QED
    BY <1>5, <2>1, StoreTyped, WriteKeeps DEF SetMemberGrant
<1> QED
  BY <1>1, <1>2, <1>3, <1>4, <1>5 DEF StoreStep

\* A request that only moves on.
LEMMA QuietKeeps ==
  ASSUME StoreInv, UNCHANGED <<row, store, assigned>>, ReservationsStay, RequestsFit'
  PROVE  StoreInv'
<1>1. RowsForward /\ RowsFit'
  BY RowsSame
<1>2. PeriodsFit'
  BY PeriodsSame
<1> QED
  BY <1>1, <1>2, StoreTyped, Together

LEMMA ChargeSame ==
  ASSUME StoreInv, UNCHANGED chargeVars
  PROVE  ReservationsStay /\ UNCHANGED reservation
BY ReservationSame DEF StoreInv, chargeVars, ledgerVars

\* A request under way has learned what its place says.
LEMMA UnderWay ==
  ASSUME StoreInv, NEW p \in Callers, NEW at, at # "idle", At(p, at)
  PROVE  Of(p) \in Charges /\ Learned(at, Of(p)) /\ call[p].seen \in Observations
<1>1. call[p] # Idle
  BY SMT DEF At, Idle
<1> QED
  BY <1>1, CallIs DEF StoreInv, CallFits, At, Of

LEMMA BeginKeeps ==
  ASSUME StoreInv, NEW p \in Callers, NEW c \in Charges, Begin(p, c)
  PROVE  StoreInv'
<1>0. UNCHANGED <<row, store, assigned, chargeVars>>
  BY DEF Begin
<1>1. RowsForward /\ ReservationsStay
  BY <1>0, RowsSame, ChargeSame
<1>2. PICK k : k = [at |-> IF row[c].state = "none" THEN "admit" ELSE "resume", charge |-> c,
                    seen |-> "none"]
  OBVIOUS
<1>3. k \in Calls /\ k.charge = c /\ k.at = IF row[c].state = "none" THEN "admit" ELSE "resume"
  BY <1>2, SMT DEF Calls, Observations
<1>4. Learned(k.at, k.charge)'
  BY <1>0, <1>3 DEF Learned
<1>5. call' = [call EXCEPT ![p] = k]
  BY <1>2 DEF Begin
<1>6. RequestsFit'
  BY <1>1, <1>3, <1>4, <1>5, RequestMoves
<1> QED
  BY <1>0, <1>1, <1>6, QuietKeeps

LEMMA ResumeKeeps == ASSUME StoreInv, NEW p \in Callers, Resume(p) PROVE StoreInv'
<1>0. UNCHANGED <<row, store, assigned, chargeVars>> /\ At(p, "resume")
  BY DEF Resume
<1>1. RowsForward /\ ReservationsStay
  BY <1>0, RowsSame, ChargeSame
<1>2. PICK c \in Charges : c = Of(p) /\ Learned("resume", c)
  BY <1>0, UnderWay
<1>3. Learned("reserve", c)' /\ Learned("settle", c)'
  BY <1>0, <1>2 DEF Learned
<1>4. "none" \in Observations /\ "reserve" \in Places /\ "settle" \in Places
  BY DEF Observations, Places
<1>5. Goes(p, "reserve", "none") \/ Goes(p, "settle", "none") \/ Returns(p)
  BY DEF Resume
<1>6. RequestsFit'
  BY <1>1, <1>2, <1>3, <1>4, <1>5, GoesFit, ReturnsFit
<1> QED
  BY <1>0, <1>1, <1>6, QuietKeeps

LEMMA ReserveKeeps == ASSUME StoreInv, NEW p \in Callers, ReserveServiceCharge(p) PROVE StoreInv'
<1>0. UNCHANGED <<row, store, assigned>> /\ At(p, "reserve")
  BY DEF ReserveServiceCharge
<1>1. PICK c \in Charges : c = Of(p) /\ Learned("reserve", c)
  BY <1>0, UnderWay
<1>2. "none" \in Observations /\ "bind" \in Places /\ "quota" \in Places
  BY DEF Observations, Places
<1>3. CASE Charge!ReserveCharge(c) /\ Goes(p, "bind", "none")
  <2>1. ReservationsStay /\ reservation'[c] = "reserved"
    BY <1>3, ReserveReservations DEF StoreInv
  <2>2. RowsForward /\ Learned("bind", c)'
    BY <1>0, <1>1, <2>1, RowsSame DEF Learned
  <2>3. RequestsFit'
    BY <1>1, <1>2, <1>3, <2>1, <2>2, GoesFit
  <2> QED
    BY <1>0, <2>1, <2>3, QuietKeeps
<1>4. CASE UNCHANGED chargeVars /\ (\/ reservation[c] = "reserved" /\ Goes(p, "bind", "none")
                                    \/ Goes(p, "quota", "none"))
  <2>1. RowsForward /\ ReservationsStay /\ UNCHANGED reservation
    BY <1>0, <1>4, RowsSame, ChargeSame
  <2>2. Learned("quota", c)' /\ (reservation[c] = "reserved" => Learned("bind", c)')
    BY <1>0, <1>1, <2>1 DEF Learned
  <2>3. RequestsFit'
    BY <1>1, <1>2, <1>4, <2>1, <2>2, GoesFit
  <2> QED
    BY <1>0, <2>1, <2>3, QuietKeeps
<1> QED
  BY <1>1, <1>3, <1>4 DEF ReserveServiceCharge

LEMMA ObserveKeeps == ASSUME StoreInv, NEW p \in Callers, ObserveConnection(p) PROVE StoreInv'
<1>0. UNCHANGED <<row, store, assigned, chargeVars>> /\ At(p, "connect")
  BY DEF ObserveConnection
<1>1. RowsForward /\ ReservationsStay
  BY <1>0, RowsSame, ChargeSame
<1>2. PICK c \in Charges : c = Of(p) /\ Learned("connect", c)
  BY <1>0, UnderWay
<1>3. Learned("changed", c)' /\ Learned("apply", c)'
  BY <1>0, <1>2 DEF Learned
<1>4. \A seen \in {"connected", "disconnected", "none"} : seen \in Observations
  BY DEF Observations
<1>5. "changed" \in Places /\ "apply" \in Places
  BY DEF Places
<1>6. \/ Goes(p, "changed", "none")
      \/ \E seen \in {"connected", "disconnected"} : Goes(p, "apply", seen)
  BY DEF ObserveConnection
<1>7. RequestsFit'
  BY <1>1, <1>2, <1>3, <1>4, <1>5, <1>6, GoesFit
<1> QED
  BY <1>0, <1>1, <1>7, QuietKeeps

\* A request that ends, or hands its charge to Reconcile.
LEMMA EndKeeps ==
  ASSUME StoreInv, NEW p \in Callers, SettleServiceCharge(p) \/ Abandon(p)
  PROVE  StoreInv'
<1>0. UNCHANGED <<row, store, assigned, reservation>> /\ Returns(p)
  BY DEF SettleServiceCharge, Abandon, Charge!CallReconcile, Charge!ledgerVars, chargeVars,
     ledgerVars
<1>1. ReservationsStay
  BY <1>0, ReservationSame DEF StoreInv
<1>2. RowsForward
  BY <1>0, <1>1, RowsSame
<1> QED
  BY <1>0, <1>1, <1>2, ReturnsFit, QuietKeeps

LEMMA AdmitKeeps == ASSUME StoreInv, NEW p \in Callers, AdmitServiceCharge(p) PROVE StoreInv'
<1>0. UNCHANGED <<store, assigned, chargeVars>> /\ At(p, "admit") /\ Goes(p, "resume", "none")
  BY DEF AdmitServiceCharge
<1>1. ReservationsStay
  BY <1>0, ChargeSame
<1>2. PICK c \in Charges : c = Of(p)
  BY <1>0, UnderWay
<1>3. "none" \in Observations /\ "resume" \in Places
  BY DEF Observations, Places
<1>4. CASE row[c].state # "none" /\ UNCHANGED row
  <2>1. RowsForward /\ Learned("resume", c)'
    BY <1>1, <1>4, RowsSame DEF Learned
  <2>2. RequestsFit'
    BY <1>0, <1>1, <1>2, <1>3, <2>1, GoesFit
  <2> QED
    BY <1>0, <1>1, <1>4, <2>2, QuietKeeps
<1>5. ASSUME row[c].state = "none", NEW command \in ServiceCommands,
             row' = [row EXCEPT ![c] = [state |-> "admitted", bound |-> FALSE,
                                        version |-> store.version, ref |-> store.ref,
                                        command |-> command]]
      PROVE  StoreInv'
  <2>1. PICK r : r = [state |-> "admitted", bound |-> FALSE, version |-> store.version,
                      ref |-> store.ref, command |-> command]
    OBVIOUS
  <2>2. r \in Rows /\ r.state = "admitted" /\ r.bound = FALSE
    <3>1. store.version \in 0..MaxVersion /\ store.ref \in Refs
      BY StoreIs, StoreAssumption, SMT
    <3> QED
      BY <2>1, <3>1, SMT DEF Rows
  <2>3. row \in [Charges -> Rows] /\ row' = [row EXCEPT ![c] = r] /\ ~row[c].bound
    BY <1>5, <2>1 DEF StoreInv, StoreTypeOK, RowFits
  <2>4. RowsForward /\ RowsFit'
    BY <1>1, <1>5, <2>2, <2>3, RowSet
  <2>5. row'[c] = r /\ \A d \in Charges \ {c} : row'[d] = row[d]
    BY <2>3
  <2>6. Learned("resume", c)'
    BY <2>2, <2>5 DEF Learned
  <2>7. RequestsFit'
    BY <1>0, <1>1, <1>2, <1>3, <2>4, <2>6, GoesFit
  <2>8. PeriodsFit'
    BY <1>0, <1>5, <2>2, <2>5, PeriodsSame
  <2> QED
    BY <1>0, <1>1, <2>4, <2>7, <2>8, StoreTyped, Together
<1> QED
  BY <1>2, <1>4, <1>5 DEF AdmitServiceCharge

LEMMA BindKeeps == ASSUME StoreInv, NEW p \in Callers, BindServiceCharge(p) PROVE StoreInv'
<1>0. UNCHANGED <<store, assigned, chargeVars>> /\ At(p, "bind")
  BY DEF BindServiceCharge
<1>1. ReservationsStay /\ UNCHANGED reservation
  BY <1>0, ChargeSame
<1>2. PICK c \in Charges : c = Of(p) /\ Learned("bind", c)
  BY <1>0, UnderWay
<1>3. /\ "none" \in Observations
      /\ "connect" \in Places /\ "apply" \in Places /\ "forbidden" \in Places
  BY DEF Observations, Places
<1>4. ASSUME RowsForward, row'[c].bound, AfterBind(p) PROVE RequestsFit'
  <2>1. row'[c].state # "none"
    BY <1>2, <1>4 DEF Learned, RowsForward
  <2>2. Learned("connect", c)' /\ Learned("apply", c)'
    BY <1>4, <2>1 DEF Learned
  <2>3. Goes(p, "connect", "none") \/ Goes(p, "apply", "none")
    BY <1>4 DEF AfterBind
  <2> QED
    BY <1>1, <1>2, <1>3, <1>4, <2>2, <2>3, GoesFit
<1>5. CASE /\ ~row[c].bound /\ row[c].state = "admitted" /\ AfterBind(p)
           /\ row' = [row EXCEPT ![c] = [@ EXCEPT !.state = "bound", !.bound = TRUE]]
  <2>1. PICK r : r = Later(row[c], "bound", TRUE)
    OBVIOUS
  <2>2. row \in [Charges -> Rows] /\ row' = [row EXCEPT ![c] = r]
    BY <1>5, <2>1 DEF StoreInv, StoreTypeOK, Later
  <2>3. r \in Rows /\ r.state = "bound" /\ r.bound = TRUE
    <3>1. row[c] \in Rows /\ "bound" \in RowStates
      BY <2>2 DEF RowStates
    <3> QED
      BY <2>1, <3>1, LaterIs
  <2>4. RowsForward /\ RowsFit'
    BY <1>1, <1>2, <2>2, <2>3, RowSet DEF Learned
  <2>5. row'[c] = r /\ \A d \in Charges \ {c} : row'[d] = row[d]
    BY <2>2
  <2>6. PeriodsFit'
    BY <1>0, <1>5, <2>3, <2>5, PeriodsSame
  <2> QED
    BY <1>0, <1>1, <1>4, <1>5, <2>3, <2>4, <2>5, <2>6, StoreTyped, Together
<1>6. CASE row[c].bound /\ AfterBind(p) /\ UNCHANGED row
  BY <1>0, <1>1, <1>4, <1>6, RowsSame, QuietKeeps
<1>7. CASE Goes(p, "forbidden", "none") /\ UNCHANGED row
  <2>1. RowsForward /\ Learned("forbidden", c)'
    BY <1>1, <1>2, <1>7, RowsSame DEF Learned
  <2>2. RequestsFit'
    BY <1>1, <1>2, <1>3, <1>7, <2>1, GoesFit
  <2> QED
    BY <1>0, <1>1, <1>7, <2>2, QuietKeeps
<1> QED
  BY <1>2, <1>5, <1>6, <1>7 DEF BindServiceCharge

\* What completeServiceCharge does to the row of an admitted charge.
LEMMA CompleteRow ==
  ASSUME StoreInv, ReservationsStay, NEW c \in Charges, row[c].state # "none",
         NEW state \in Decided, NEW bound \in BOOLEAN, Complete(c, state, bound),
         row[c].bound => bound, bound => reservation[c] # "none", state = "succeeded" => bound
  PROVE  /\ RowsForward /\ RowsFit'
         /\ \A d \in Charges \ {c} : row'[d] = row[d]
         /\ row[c].state \in Decided => row'[c] = row[c]
         /\ row[c].state \notin Decided =>
              row' = [row EXCEPT ![c] = Later(row[c], state, bound)]
                /\ row'[c].state = state /\ row'[c].bound = bound
<1>0. row \in [Charges -> Rows]
  BY DEF StoreInv, StoreTypeOK
<1>1. CASE row[c].state \in Decided
  BY <1>1, RowsSame DEF Complete
<1>2. CASE row[c].state \notin Decided
  <2>1. PICK r : r = Later(row[c], state, bound)
    OBVIOUS
  <2>2. row' = [row EXCEPT ![c] = r]
    BY <1>0, <1>2, <2>1 DEF Complete, Later
  <2>3. r \in Rows /\ r.state = state /\ r.bound = bound
    <3>1. row[c] \in Rows /\ state \in RowStates
      BY <1>0 DEF RowStates, Decided
    <3> QED
      BY <2>1, <3>1, LaterIs, SMT
  <2>4. state # "none" /\ state # "bound"
    BY DEF Decided
  <2>5. RowsForward /\ RowsFit'
    BY <2>2, <2>3, <2>4, RowSet DEF ReservationsStay
  <2>6. row'[c] = r /\ \A d \in Charges \ {c} : row'[d] = row[d]
    BY <1>0, <2>2
  <2> QED
    BY <1>2, <2>1, <2>2, <2>3, <2>5, <2>6
<1> QED
  BY <1>1, <1>2

LEMMA FenceQuotaKeeps == ASSUME StoreInv, NEW p \in Callers, FenceQuota(p) PROVE StoreInv'
<1>0. UNCHANGED <<store, assigned, chargeVars>> /\ At(p, "quota") /\ Returns(p)
  BY DEF FenceQuota
<1>1. ReservationsStay
  BY <1>0, ChargeSame
<1>2. PICK c \in Charges : c = Of(p) /\ row[c].state # "none"
  <2>1. Of(p) \in Charges /\ Learned("quota", Of(p))
    BY <1>0, UnderWay
  <2> QED
    BY <2>1 DEF Learned
<1>3. row[c].bound \in BOOLEAN /\ RowFits(c) /\ "failed_fenced" \in Decided
  BY DEF StoreInv, StoreTypeOK, Rows, Decided
<1>4. Complete(c, "failed_fenced", row[c].bound)
  BY <1>2 DEF FenceQuota
<1>5. /\ RowsForward /\ RowsFit'
      /\ \A d \in Charges \ {c} : row'[d] = row[d]
      /\ row[c].state \in Decided => row'[c] = row[c]
      /\ row[c].state \notin Decided => row'[c].state = "failed_fenced"
  <2>1. row[c].bound => reservation[c] # "none"
    BY <1>3 DEF RowFits
  <2>2. CASE row[c].bound = TRUE
    BY <1>1, <1>2, <1>3, <1>4, <2>1, <2>2, CompleteRow
  <2>3. CASE row[c].bound = FALSE
    <3>1. Complete(c, "failed_fenced", FALSE) /\ FALSE \in BOOLEAN /\ "failed_fenced" # "succeeded"
      BY <1>4, <2>3
    <3> QED
      BY <1>1, <1>2, <1>3, <2>3, <3>1, CompleteRow
  <2> QED
    BY <1>3, <2>2, <2>3
<1>6. PeriodsFit'
  BY <1>0, <1>5, PeriodsSame DEF Decided
<1> QED
  BY <1>0, <1>1, <1>5, <1>6, ReturnsFit, StoreTyped, Together

LEMMA FenceReservedKeeps == ASSUME StoreInv, NEW p \in Callers, FenceReserved(p) PROVE StoreInv'
<1>0. UNCHANGED <<store, assigned, chargeVars>> /\ (At(p, "forbidden") \/ At(p, "changed"))
  BY DEF FenceReserved
<1>1. ReservationsStay
  BY <1>0, ChargeSame
<1>2. PICK c \in Charges : c = Of(p) /\ row[c].state # "none" /\ reservation[c] # "none"
  <2>1. Of(p) \in Charges /\ (Learned("forbidden", Of(p)) \/ Learned("changed", Of(p)))
    BY <1>0, UnderWay
  <2>2. RowFits(Of(p))
    BY <2>1 DEF StoreInv
  <2> QED
    BY <2>1, <2>2 DEF Learned, RowFits
<1>3. TRUE \in BOOLEAN /\ "failed_fenced" \in Decided /\ Complete(c, "failed_fenced", TRUE)
  BY <1>2 DEF Decided, FenceReserved
<1>4. /\ RowsForward /\ RowsFit'
      /\ \A d \in Charges \ {c} : row'[d] = row[d]
      /\ row[c].state \in Decided => row'[c] = row[c]
      /\ row[c].state \notin Decided => row'[c].state = "failed_fenced"
  BY <1>1, <1>2, <1>3, CompleteRow
<1>5. PeriodsFit'
  BY <1>0, <1>4, PeriodsSame DEF Decided
<1>6. Learned("settle", c)'
  BY <1>2, <1>4 DEF Learned, RowsForward
<1>7. "none" \in Observations /\ "settle" \in Places
  BY DEF Observations, Places
<1>8. RequestsFit'
  BY <1>1, <1>2, <1>4, <1>6, <1>7, ReturnsFit, GoesFit DEF FenceReserved
<1> QED
  BY <1>0, <1>1, <1>4, <1>5, <1>8, StoreTyped, Together

\* Whether ApplyServiceCharge moves the dates of the store.
Applies(p, c, role) ==
  /\ row[c].state = "bound"
  /\ Allowed(c, role) /\ MayFund(c, role)
  /\ AsAdmitted(c)
  /\ Target(row[c].command, call[p].seen)

\* ApplyServiceCharge either applies or fences the charge.
LEMMA ApplyCases ==
  ASSUME StoreInv, NEW p \in Callers, ApplyServiceCharge(p), NEW c, c = Of(p)
  PROVE  \/ /\ \E role \in Roles(c) : Applies(p, c, role)
            /\ store.version < MaxVersion
            /\ Complete(c, "succeeded", TRUE)
            /\ store' = Written(store.version + 1, store.ref, "active", "active",
                                store.periods + Intent[c].quantity)
         \/ Complete(c, "failed_fenced", TRUE) /\ UNCHANGED store
<1>1. PICK role \in Roles(c) :
        /\ Applies(p, c, role) => store.version < MaxVersion
        /\ Complete(c, IF Applies(p, c, role) THEN "succeeded" ELSE "failed_fenced", TRUE)
        /\ store' = IF Applies(p, c, role)
                      THEN Written(store.version + 1, store.ref, "active", "active",
                                   store.periods + Intent[c].quantity)
                      ELSE store
  BY DEF ApplyServiceCharge, Applies
<1>2. CASE Applies(p, c, role)
  BY <1>1, <1>2
<1>3. CASE ~Applies(p, c, role)
  BY <1>1, <1>3
<1> QED
  BY <1>2, <1>3

LEMMA ApplyKeeps == ASSUME StoreInv, NEW p \in Callers, ApplyServiceCharge(p) PROVE StoreInv'
<1>0. /\ UNCHANGED <<assigned, chargeVars>> /\ At(p, "apply") /\ Goes(p, "settle", "none")
  BY DEF ApplyServiceCharge
<1>1. ReservationsStay
  BY <1>0, ChargeSame
<1>2. PICK c \in Charges : c = Of(p) /\ Learned("apply", c)
  BY <1>0, UnderWay
<1>3. row[c].state # "none" /\ row[c].bound /\ reservation[c] # "none"
  BY <1>2 DEF Learned, StoreInv, RowFits
<1>4. /\ TRUE \in BOOLEAN /\ "failed_fenced" \in Decided /\ "succeeded" \in Decided
      /\ "none" \in Observations /\ "settle" \in Places
  BY DEF Decided, Observations, Places
<1>5. ASSUME RowsForward PROVE RequestsFit'
  <2>1. Learned("settle", c)'
    BY <1>3, <1>5 DEF Learned, RowsForward
  <2> QED
    BY <1>0, <1>1, <1>2, <1>4, <1>5, <2>1, GoesFit
<1>6. CASE Complete(c, "failed_fenced", TRUE) /\ UNCHANGED store
  <2>1. /\ RowsForward /\ RowsFit'
        /\ \A d \in Charges \ {c} : row'[d] = row[d]
        /\ row[c].state \in Decided => row'[c] = row[c]
        /\ row[c].state \notin Decided => row'[c].state = "failed_fenced"
    BY <1>1, <1>3, <1>4, <1>6, CompleteRow
  <2>2. PeriodsFit'
    BY <1>6, <2>1, PeriodsSame DEF Decided
  <2> QED
    BY <1>0, <1>1, <1>5, <1>6, <2>1, <2>2, StoreTyped, Together
<1>7. CASE /\ \E role \in Roles(c) : Applies(p, c, role)
           /\ store.version < MaxVersion
           /\ Complete(c, "succeeded", TRUE)
           /\ store' = Written(store.version + 1, store.ref, "active", "active",
                               store.periods + Intent[c].quantity)
  <2>1. row[c].state = "bound" /\ "bound" \notin Decided
    BY <1>7 DEF Applies, Decided
  <2>2. /\ RowsForward /\ RowsFit'
        /\ \A d \in Charges \ {c} : row'[d] = row[d]
        /\ row'[c].state = "succeeded"
    BY <1>1, <1>3, <1>4, <1>7, <2>1, CompleteRow
  <2>3. Intent[c].quantity \in Nat
    BY LedgerAssumption, MaxIntAssumption, SMT DEF Intents, Quantities
  <2>4. store' \in Stores /\ store'.periods = store.periods + Intent[c].quantity
    BY <1>7, <2>3, StoreIs, SMT DEF Written, Stores
  <2>5. PeriodsFit'
    BY <2>1, <2>2, <2>4, PeriodsAdded
  <2> QED
    BY <1>0, <1>1, <1>5, <2>2, <2>4, <2>5, StoreTyped, Together
<1> QED
  BY <1>2, <1>6, <1>7, ApplyCases

LEMMA StoreInvStep == StoreInv /\ [Next]_vars => StoreInv'
<1> SUFFICES ASSUME StoreInv, [Next]_vars PROVE StoreInv'
  OBVIOUS
<1>1. ASSUME NEW p \in Callers, RequestStep(p) PROVE StoreInv'
  BY <1>1, BeginKeeps, AdmitKeeps, ResumeKeeps, ReserveKeeps, FenceQuotaKeeps, BindKeeps,
     FenceReservedKeeps, ObserveKeeps, ApplyKeeps, EndKeeps DEF RequestStep
<1>2. CASE StoreStep
  BY <1>2, StoreStepKeeps
<1>3. CASE LedgerStep
  BY <1>3, LedgerReservations, LedgerKeeps DEF LedgerStep, StoreInv
<1>4. CASE UNCHANGED vars
  BY <1>4, LedgerKeeps, ChargeSame DEF vars
<1> QED
  BY <1>1, <1>2, <1>3, <1>4 DEF Next

LEMMA StoreInvInit == Init => StoreInv
<1> SUFFICES ASSUME Init PROVE StoreInv
  OBVIOUS
<1>1. PICK r \in Refs, service \in {"pending_activation", "active"} :
        store = [version |-> 1, ref |-> r, periods |-> 0, record |-> "active", service |-> service]
  BY DEF Init, StoreInit
<1>2. store \in Stores /\ store.periods = 0
  BY <1>1, StoreAssumption, SMT DEF Stores
<1>3. PICK q : q = [state |-> "none", bound |-> FALSE, version |-> 0,
                    ref |-> CHOOSE s \in Refs : TRUE, command |-> "activate"]
  OBVIOUS
<1>4. q \in Rows /\ q.state = "none" /\ q.bound = FALSE
  <2>1. (CHOOSE s \in Refs : TRUE) \in Refs /\ "activate" \in ServiceCommands
    BY <1>1 DEF ServiceCommands
  <2>2. 0 \in 0..MaxVersion
    BY StoreAssumption, SMT
  <2> QED
    BY <1>3, <2>1, <2>2 DEF Rows
<1>5. row = [c \in Charges |-> q]
  BY <1>3 DEF Init, StoreInit
<1>6. /\ call = [p \in Callers |-> Idle] /\ assigned = Members
      /\ reservation = [c \in Charges |-> "none"]
  BY DEF Init, StoreInit, LedgerInit
<1>7. StoreTypeOK /\ reservation \in [Charges -> ReservationStates]
  BY <1>2, <1>4, <1>5, <1>6 DEF StoreTypeOK, ReservationStates
<1>8. ASSUME NEW c \in Charges PROVE RowFits(c)
  BY <1>4, <1>5 DEF RowFits
<1>9. ASSUME NEW p \in Callers PROVE CallFits(p)
  BY <1>6 DEF CallFits
<1>10. PeriodsFit
  <2>1. {c \in Charges : row[c].state = "succeeded"} = {}
    BY <1>4, <1>5
  <2> QED
    BY <1>2, <2>1, SumEmpty DEF PeriodsFit, QuantityOf
<1> QED
  BY <1>7, <1>8, <1>9, <1>10 DEF StoreInv

\* Rows, requests and dates of the store fit together in every reachable state,
\* however many requests carry one operation and wherever they stop: a request
\* that reaches ApplyServiceCharge has a bound row, and a bound row a reservation.
THEOREM StoreInvariant == Spec => []StoreInv
BY StoreInvInit, StoreInvStep, PTL DEF Spec

-----------------------------------------------------------------------------
(* Only the entitled are served *)

\* A charge only succeeds in ApplyServiceCharge, under the access check there.
LEMMA ServedStep ==
  ASSUME StoreInv, [Next]_vars, NEW c \in Charges,
         row'[c].state = "succeeded", row[c].state # "succeeded"
  PROVE  Intent[c].member \in assigned \cup Promotable
<1>0. row \in [Charges -> Rows]
  BY DEF StoreInv, StoreTypeOK
<1>1. ~UNCHANGED row
  OBVIOUS
<1>2. PICK p \in Callers : RequestStep(p)
  BY <1>1 DEF Next, StoreStep, SaveRecord, SoftDelete, Reconnect, StoreOnly, Expire, SetMemberGrant,
     LedgerStep, storeVars, vars
<1>3. PICK a : a = Of(p)
  OBVIOUS
<1>4. ASSUME NEW state, state # "succeeded", NEW bound, Complete(a, state, bound) PROVE FALSE
  <2>1. PICK r : r = [row[a] EXCEPT !.state = state, !.bound = bound]
    OBVIOUS
  <2>2. row' = [row EXCEPT ![a] = r] /\ (a \in Charges => r.state = state)
    BY <1>0, <1>1, <1>4, <2>1 DEF Complete, Rows
  <2>3. c # a => row'[c] = row[c]
    BY <1>0, <2>2
  <2>4. c = a => row'[c] = r
    BY <1>0, <2>2
  <2> QED
    BY <1>4, <2>2, <2>3, <2>4
<1>5. CASE AdmitServiceCharge(p) \/ BindServiceCharge(p)
  <2>1. PICK r : row' = [row EXCEPT ![a] = r] /\ (a \in Charges => r.state # "succeeded")
    BY <1>0, <1>1, <1>3, <1>5 DEF AdmitServiceCharge, BindServiceCharge, Rows
  <2> QED
    BY <1>0, <2>1
<1>6. CASE FenceQuota(p) \/ FenceReserved(p)
  BY <1>3, <1>4, <1>6 DEF FenceQuota, FenceReserved
<1>7. CASE ApplyServiceCharge(p)
  <2>1. PICK role \in Roles(a) : Applies(p, a, role) /\ Complete(a, "succeeded", TRUE)
    BY <1>3, <1>4, <1>7, ApplyCases
  <2>2. c = a
    BY <1>0, <2>1 DEF Complete
  <2> QED
    BY <2>1, <2>2 DEF Applies, Allowed, Roles
<1> QED
  BY <1>1, <1>2, <1>5, <1>6, <1>7
     DEF RequestStep, Begin, Resume, ReserveServiceCharge, ObserveConnection, SettleServiceCharge,
         Abandon

\* No service starts or is extended for a plain member whose assignment is
\* revoked, however long ago the charge was admitted, reserved and bound and
\* whatever the identity service answered before.
THEOREM RevokedStayUnserved == Spec => RevokedNeverServed
<1>1. StoreInv /\ [Next]_vars =>
        [\A c \in Charges : (row'[c].state = "succeeded" /\ row[c].state # "succeeded")
                              => Intent[c].member \in assigned \cup Promotable]_vars
  BY ServedStep
<1> QED
  BY <1>1, StoreInvariant, PTL DEF Spec, RevokedNeverServed

-----------------------------------------------------------------------------
(* One command per version of the store *)

\* A command that moved the dates used up the version it was admitted at.
ServedOnce ==
  \A c \in Charges : row[c].state = "succeeded" =>
    /\ row[c].version < store.version
    /\ \A d \in Charges \ {c} : row[d].state = "succeeded" => row[d].version # row[c].version

\* No charge succeeds that had not, and the version does not go back.
NoneServed ==
  /\ store'.version >= store.version
  /\ \A c \in Charges : row'[c].state = "succeeded" =>
       row[c].state = "succeeded" /\ row'[c].version = row[c].version

\* One charge succeeds at the version it was admitted at, which then advances.
OneServed ==
  \E a \in Charges :
    /\ row[a].version = store.version /\ store'.version = store.version + 1
    /\ row'[a].version = row[a].version
    /\ \A d \in Charges \ {a} : row'[d] = row[d]

LEMMA RowsUntouched ==
  ASSUME StoreInv, UNCHANGED row, UNCHANGED store
  PROVE  NoneServed
<1>1. store.version \in Int
  BY StoreIs, SMT
<1>2. store.version >= store.version
  BY <1>1, SMT
<1> QED
  BY <1>2 DEF NoneServed

\* A write of the store row that no charge makes.
LEMMA WriteServesNone ==
  ASSUME StoreInv, StoreStep
  PROVE  NoneServed
<1>1. store.version \in Int /\ store.version + 1 >= store.version /\ store.version >= store.version
  BY StoreIs, SMT
<1>2. UNCHANGED row
  BY DEF StoreStep, SaveRecord, SoftDelete, Reconnect, StoreOnly, Expire, SetMemberGrant
<1>3. store'.version = store.version + 1 \/ store'.version = store.version
  <2>1. ASSUME NEW v, NEW r, NEW q, NEW t, NEW n, store' = Written(v, r, q, t, n)
        PROVE  store'.version = v
    BY <2>1 DEF Written
  <2> QED
    BY <2>1 DEF StoreStep, SaveRecord, SoftDelete, Reconnect, Expire, SetMemberGrant
<1> QED
  BY <1>1, <1>2, <1>3 DEF NoneServed

\* One row is written and is not a success.
LEMMA OtherServesNone ==
  ASSUME StoreInv, NEW a \in Charges, NEW r, row' = [row EXCEPT ![a] = r], r.state # "succeeded",
         UNCHANGED store
  PROVE  NoneServed
<1>1. row \in [Charges -> Rows]
  BY DEF StoreInv, StoreTypeOK
<1>2. row'[a] = r /\ \A d \in Charges \ {a} : row'[d] = row[d]
  BY <1>1
<1>3. store.version >= store.version
  BY StoreIs, SMT
<1> QED
  BY <1>2, <1>3 DEF NoneServed

LEMMA CompleteServes ==
  ASSUME StoreInv, NEW a \in Charges, NEW state, NEW bound, Complete(a, state, bound)
  PROVE  \/ UNCHANGED row
         \/ \E r : /\ row' = [row EXCEPT ![a] = r]
                   /\ r.state = state /\ r.version = row[a].version
<1>1. row \in [Charges -> Rows]
  BY DEF StoreInv, StoreTypeOK
<1>2. PICK r : r = [row[a] EXCEPT !.state = state, !.bound = bound]
  OBVIOUS
<1>3. r.state = state /\ r.version = row[a].version
  BY <1>1, <1>2 DEF Rows
<1> QED
  BY <1>2, <1>3 DEF Complete

LEMMA RequestServes ==
  ASSUME StoreInv, NEW p \in Callers, RequestStep(p)
  PROVE  NoneServed \/ OneServed
<1>0. row \in [Charges -> Rows]
  BY DEF StoreInv, StoreTypeOK
<1>1. CASE UNCHANGED <<row, store>>
  BY <1>1, RowsUntouched
<1>2. ASSUME NEW at, at # "idle", At(p, at) PROVE Of(p) \in Charges
  BY <1>2, UnderWay
<1>3. CASE AdmitServiceCharge(p)
  <2>1. PICK a \in Charges : a = Of(p)
    BY <1>2, <1>3 DEF AdmitServiceCharge
  <2>2. UNCHANGED store
    BY <1>3 DEF AdmitServiceCharge
  <2>3. CASE ~UNCHANGED row
    <3>1. PICK r : row' = [row EXCEPT ![a] = r] /\ r.state # "succeeded"
      BY <1>3, <2>1, <2>3 DEF AdmitServiceCharge
    <3> QED
      BY <2>2, <3>1, OtherServesNone
  <2> QED
    BY <1>1, <2>2, <2>3
<1>4. CASE BindServiceCharge(p)
  <2>1. PICK a \in Charges : a = Of(p)
    BY <1>2, <1>4 DEF BindServiceCharge
  <2>2. UNCHANGED store
    BY <1>4 DEF BindServiceCharge
  <2>3. CASE ~UNCHANGED row
    <3>1. PICK r : r = [row[a] EXCEPT !.state = "bound", !.bound = TRUE]
      OBVIOUS
    <3>2. row' = [row EXCEPT ![a] = r]
      BY <1>4, <2>1, <2>3, <3>1 DEF BindServiceCharge
    <3>3. r.state # "succeeded"
      BY <1>0, <3>1 DEF Rows
    <3> QED
      BY <2>2, <3>2, <3>3, OtherServesNone
  <2> QED
    BY <1>1, <2>2, <2>3
<1>5. ASSUME NEW a \in Charges, NEW bound, Complete(a, "failed_fenced", bound), UNCHANGED store
      PROVE  NoneServed
  <2>1. CASE UNCHANGED row
    BY <1>5, <2>1, RowsUntouched
  <2>2. ASSUME NEW r, row' = [row EXCEPT ![a] = r], r.state = "failed_fenced" PROVE NoneServed
    BY <1>5, <2>2, OtherServesNone
  <2> QED
    BY <1>5, <2>1, <2>2, CompleteServes
<1>6. CASE FenceQuota(p) \/ FenceReserved(p)
  <2>1. Of(p) \in Charges
    BY <1>2, <1>6 DEF FenceQuota, FenceReserved
  <2> QED
    BY <1>5, <1>6, <2>1 DEF FenceQuota, FenceReserved
<1>7. CASE ApplyServiceCharge(p)
  <2>1. PICK a \in Charges : a = Of(p)
    BY <1>2, <1>7 DEF ApplyServiceCharge
  <2>2. CASE Complete(a, "failed_fenced", TRUE) /\ UNCHANGED store
    BY <1>5, <2>2
  <2>3. CASE /\ \E role \in Roles(a) : Applies(p, a, role)
             /\ Complete(a, "succeeded", TRUE)
             /\ store' = Written(store.version + 1, store.ref, "active", "active",
                                 store.periods + Intent[a].quantity)
    <3>1. row[a].version = store.version /\ row[a].state \notin Decided
      BY <2>3 DEF Applies, AsAdmitted, Decided
    <3>2. store'.version = store.version + 1
      BY <2>3 DEF Written
    <3>3. PICK r : r = [row[a] EXCEPT !.state = "succeeded", !.bound = TRUE]
      OBVIOUS
    <3>4. row' = [row EXCEPT ![a] = r] /\ r.version = row[a].version
      BY <1>0, <2>3, <3>1, <3>3 DEF Complete, Rows
    <3>5. row'[a] = r /\ \A d \in Charges \ {a} : row'[d] = row[d]
      BY <1>0, <3>4
    <3> QED
      BY <3>1, <3>2, <3>4, <3>5 DEF OneServed
  <2> QED
    BY <1>7, <2>1, <2>2, <2>3, ApplyCases
<1> QED
  BY <1>1, <1>3, <1>4, <1>6, <1>7
     DEF RequestStep, Begin, Resume, ReserveServiceCharge, ObserveConnection, SettleServiceCharge,
         Abandon

LEMMA ServedOnceStep == StoreInv /\ ServedOnce /\ [Next]_vars => ServedOnce'
<1> SUFFICES ASSUME StoreInv, ServedOnce, [Next]_vars PROVE ServedOnce'
  OBVIOUS
<1>0. store.version \in Int /\ \A c \in Charges : row[c].version \in Int
  BY StoreIs, SMT DEF StoreInv, StoreTypeOK, Rows
<1>1. NoneServed \/ OneServed
  BY RequestServes, WriteServesNone, RowsUntouched DEF Next, LedgerStep, storeVars, vars
<1>2. store'.version \in Int
  BY StoreInvStep, StoreIs, SMT DEF StoreInv, StoreTypeOK, Stores
<1>3. CASE NoneServed
  <2> SUFFICES ASSUME NEW c \in Charges, row'[c].state = "succeeded"
               PROVE  /\ row'[c].version < store'.version
                      /\ \A d \in Charges \ {c} :
                           row'[d].state = "succeeded" => row'[d].version # row'[c].version
    BY DEF ServedOnce
  <2>1. row[c].state = "succeeded" /\ row'[c].version = row[c].version
    BY <1>3 DEF NoneServed
  <2>2. row[c].version < store.version /\ store'.version >= store.version
    BY <1>3, <2>1 DEF NoneServed, ServedOnce
  <2>3. row'[c].version < store'.version
    BY <1>0, <1>2, <2>1, <2>2, SMT
  <2> QED
    BY <1>3, <2>1, <2>3 DEF NoneServed, ServedOnce
<1>4. CASE OneServed
  <2>1. PICK a \in Charges :
          /\ row[a].version = store.version /\ store'.version = store.version + 1
          /\ row'[a].version = row[a].version
          /\ \A d \in Charges \ {a} : row'[d] = row[d]
    BY <1>4 DEF OneServed
  <2>2. row'[a].version < store'.version
    BY <1>0, <2>1, SMT
  <2>3. ASSUME NEW d \in Charges \ {a}, row'[d].state = "succeeded"
        PROVE  row'[d].version < store'.version /\ row'[d].version # row'[a].version
    <3>1. row'[d].version = row[d].version /\ row[d].version < store.version
      BY <2>1, <2>3 DEF ServedOnce
    <3> QED
      BY <1>0, <2>1, <3>1, SMT
  <2>4. ASSUME NEW c \in Charges \ {a}, NEW d \in Charges \ {a}, c # d,
               row'[c].state = "succeeded", row'[d].state = "succeeded"
        PROVE  row'[d].version # row'[c].version
    BY <2>1, <2>4 DEF ServedOnce
  <2> QED
    BY <2>2, <2>3, <2>4 DEF ServedOnce
<1> QED
  BY <1>1, <1>3, <1>4

\* A command that moved the service dates used up the version of the store it
\* was admitted at: of two commands that read one version at most one is ever
\* applied, whatever requests carry them to ApplyServiceCharge and in whatever
\* order.
THEOREM OncePerVersion == Spec => []ServedOnce
<1>1. Init => ServedOnce
  <2> SUFFICES ASSUME Init PROVE \A c \in Charges : row[c].state = "none"
    BY DEF ServedOnce
  <2>1. PICK q : /\ q = [state |-> "none", bound |-> FALSE, version |-> 0,
                        ref |-> CHOOSE r \in Refs : TRUE, command |-> "activate"]
                 /\ row = [c \in Charges |-> q]
    BY DEF Init, StoreInit
  <2>2. q.state = "none"
    BY <2>1
  <2> QED
    BY <2>1, <2>2
<1> QED
  BY <1>1, ServedOnceStep, StoreInvariant, PTL DEF Spec

-----------------------------------------------------------------------------
(* The owner's contract *)

\* ReadChargeProof of one row.
RowProof(r) ==
  CASE r.state = "none" -> "none"
    [] r.state \in {"admitted", "bound"} -> "unknown"
    [] r.state = "succeeded" /\ r.bound -> "succeeded"
    [] r.state = "failed_fenced" /\ r.bound -> "failed"
    [] OTHER -> "rejected"

LEMMA ProofsAre ==
  /\ OwnerProof = [c \in Charges |-> RowProof(row[c])]
  /\ OwnerProof' = [c \in Charges |-> RowProof(row'[c])]
BY DEF OwnerProof, RowProof

LEMMA RowProofIs ==
  ASSUME NEW r
  PROVE  /\ r.state = "none" => RowProof(r) = "none"
         /\ r.state \in {"admitted", "bound"} => RowProof(r) = "unknown"
         /\ r.state = "succeeded" /\ r.bound => RowProof(r) = "succeeded"
         /\ r.state = "failed_fenced" /\ r.bound => RowProof(r) = "failed"
         /\ r.state = "failed_fenced" /\ ~r.bound => RowProof(r) = "rejected"
BY DEF RowProof

\* One written row is one moved proof.
LEMMA ProofMoves ==
  ASSUME NEW c \in Charges, NEW r, row \in [Charges -> Rows], row' = [row EXCEPT ![c] = r]
  PROVE  OwnerProof' = [OwnerProof EXCEPT ![c] = RowProof(r)]
<1>1. \A d \in Charges : row'[d] = IF d = c THEN r ELSE row[d]
  OBVIOUS
<1> QED
  BY <1>1, ProofsAre

LEMMA ProofSame == ASSUME UNCHANGED row PROVE UNCHANGED OwnerProof
BY ProofsAre

LEMMA ChargeVarsAre ==
  /\ UNCHANGED chargeVars => UNCHANGED <<Charge!ledgerVars, Charge!recoveryVars>>
  /\ UNCHANGED <<row, chargeVars>> => UNCHANGED Charge!vars
BY ProofSame DEF chargeVars, ledgerVars, Charge!ledgerVars, Charge!recoveryVars, Charge!vars

\* A completed row is a proof, a rejection or no step of the owner.
LEMMA CompleteProves ==
  ASSUME StoreInv, NEW c \in Charges, NEW state \in Decided, NEW bound \in BOOLEAN,
         Complete(c, state, bound), UNCHANGED chargeVars, row[c].state # "none",
         row[c].bound => bound, bound => reservation[c] # "none", state = "succeeded" => bound
  PROVE  [Charge!Next]_(Charge!vars)
<1>0. row \in [Charges -> Rows] /\ row[c].state \in RowStates /\ ReservationsStay
  BY ChargeSame DEF StoreInv, StoreTypeOK, Rows, RowStates
<1>1. CASE row[c].state \in Decided
  BY <1>1, ChargeVarsAre DEF Complete
<1>2. CASE row[c].state \notin Decided
  <2>1. PICK r : r = Later(row[c], state, bound)
    OBVIOUS
  <2>2. row' = [row EXCEPT ![c] = r] /\ r.state = state /\ r.bound = bound
    <3>1. row' = [row EXCEPT ![c] = Later(row[c], state, bound)] /\ row'[c].state = state
            /\ row'[c].bound = bound
      BY <1>0, <1>2, CompleteRow
    <3>2. row'[c] = r
      BY <1>0, <2>1, <3>1
    <3> QED
      BY <2>1, <3>1, <3>2
  <2>3. row[c].state \in {"admitted", "bound"}
    BY <1>0, <1>2 DEF RowStates, Decided
  <2>4. OwnerProof[c] = "unknown"
    BY <2>3, ProofsAre, RowProofIs
  <2>5. Charge!OwnerMoves(c, RowProof(r))
    BY <1>0, <2>2, ProofMoves, ChargeVarsAre DEF Charge!OwnerMoves
  <2>6. CASE bound = TRUE
    <3>1. RowProof(r) \in {"succeeded", "failed"} /\ reservation[c] # "none"
      BY <2>2, <2>6, RowProofIs DEF Decided
    <3>2. Charge!Prove(c)
      BY <2>4, <2>5, <3>1 DEF Charge!Prove, Charge!Proven
    <3> QED
      BY <3>2 DEF Charge!Next, Charge!OwnerStep
  <2>7. CASE bound = FALSE
    <3>1. state = "failed_fenced"
      BY <2>7 DEF Decided
    <3>2. RowProof(r) = "rejected"
      BY <2>2, <2>7, <3>1, RowProofIs
    <3>3. Charge!Reject(c)
      BY <2>4, <2>5, <3>2 DEF Charge!Reject
    <3> QED
      BY <3>3 DEF Charge!Next, Charge!OwnerStep
  <2> QED
    BY <2>6, <2>7
<1> QED
  BY <1>1, <1>2

\* A row that is admitted or bound moves the owner to "unknown" or not at all.
LEMMA AdmitContract ==
  ASSUME StoreInv, NEW p \in Callers, AdmitServiceCharge(p)
  PROVE  [Charge!Next]_(Charge!vars)
<1>0. row \in [Charges -> Rows] /\ UNCHANGED chargeVars /\ At(p, "admit")
  BY DEF AdmitServiceCharge, StoreInv, StoreTypeOK
<1>1. PICK c \in Charges : c = Of(p)
  BY <1>0, UnderWay
<1>2. CASE UNCHANGED row
  BY <1>0, <1>2, ChargeVarsAre
<1>3. ASSUME row[c].state = "none", NEW r, r.state = "admitted", row' = [row EXCEPT ![c] = r]
      PROVE  Charge!Next
  <2>1. OwnerProof[c] = "none"
    BY <1>3, ProofsAre, RowProofIs
  <2>2. RowProof(r) = "unknown"
    BY <1>3, RowProofIs
  <2>3. Charge!Admit(c)
    BY <1>0, <1>3, <2>1, <2>2, ProofMoves, ChargeVarsAre DEF Charge!Admit, Charge!OwnerMoves
  <2> QED
    BY <2>3 DEF Charge!Next, Charge!OwnerStep
<1> QED
  BY <1>1, <1>2, <1>3 DEF AdmitServiceCharge

LEMMA BindContract ==
  ASSUME StoreInv, NEW p \in Callers, BindServiceCharge(p)
  PROVE  UNCHANGED Charge!vars
<1>0. row \in [Charges -> Rows] /\ UNCHANGED chargeVars /\ At(p, "bind")
  BY DEF BindServiceCharge, StoreInv, StoreTypeOK
<1>1. PICK c \in Charges : c = Of(p)
  BY <1>0, UnderWay
<1>2. CASE UNCHANGED row
  BY <1>0, <1>2, ChargeVarsAre
<1>3. CASE /\ row[c].state = "admitted"
           /\ row' = [row EXCEPT ![c] = [@ EXCEPT !.state = "bound", !.bound = TRUE]]
  <2>1. PICK r : r = [row[c] EXCEPT !.state = "bound", !.bound = TRUE]
    OBVIOUS
  <2>2. row' = [row EXCEPT ![c] = r] /\ r.state = "bound"
    BY <1>0, <1>3, <2>1 DEF Rows
  <2>3. RowProof(r) = "unknown" /\ OwnerProof[c] = "unknown"
    BY <1>3, <2>2, ProofsAre, RowProofIs
  <2>4. OwnerProof' = [OwnerProof EXCEPT ![c] = "unknown"]
    BY <1>0, <2>2, <2>3, ProofMoves
  <2>5. OwnerProof' = OwnerProof
    BY <2>3, <2>4, ProofsAre
  <2> QED
    BY <1>0, <2>5, ChargeVarsAre DEF Charge!vars
<1> QED
  BY <1>1, <1>2, <1>3 DEF BindServiceCharge

\* Fencing and applying complete the row.
LEMMA CompleteContract ==
  ASSUME StoreInv, NEW p \in Callers, FenceQuota(p) \/ FenceReserved(p) \/ ApplyServiceCharge(p)
  PROVE  [Charge!Next]_(Charge!vars)
<1>0. /\ UNCHANGED chargeVars
      /\ "failed_fenced" \in Decided /\ "succeeded" \in Decided /\ "failed_fenced" # "succeeded"
  BY DEF FenceQuota, FenceReserved, ApplyServiceCharge, Decided
<1>1. PICK at \in {"quota", "forbidden", "changed", "apply"} : At(p, at)
  BY DEF FenceQuota, FenceReserved, ApplyServiceCharge
<1>2. PICK c \in Charges : c = Of(p) /\ Learned(at, c)
  BY <1>1, UnderWay
<1>3. row[c].state # "none" /\ RowFits(c) /\ row[c].bound \in BOOLEAN
  BY <1>1, <1>2 DEF Learned, StoreInv, StoreTypeOK, Rows
<1>4. ASSUME NEW state \in Decided, Complete(c, state, TRUE), reservation[c] # "none"
      PROVE  [Charge!Next]_(Charge!vars)
  BY <1>0, <1>3, <1>4, CompleteProves
<1>5. CASE FenceQuota(p)
  <2>1. Complete(c, "failed_fenced", row[c].bound)
    BY <1>2, <1>5 DEF FenceQuota
  <2>2. CASE row[c].bound = TRUE
    BY <1>0, <1>3, <1>4, <2>1, <2>2 DEF RowFits
  <2>3. CASE row[c].bound = FALSE
    <3>1. Complete(c, "failed_fenced", FALSE) /\ FALSE \in BOOLEAN
      BY <2>1, <2>3
    <3> QED
      BY <1>0, <1>3, <2>3, <3>1, CompleteProves
  <2> QED
    BY <1>3, <2>2, <2>3
<1>6. CASE FenceReserved(p)
  <2>1. Complete(c, "failed_fenced", TRUE) /\ (At(p, "forbidden") \/ At(p, "changed"))
    BY <1>2, <1>6 DEF FenceReserved
  <2>2. Learned("forbidden", c) \/ Learned("changed", c)
    BY <1>2, <2>1, UnderWay
  <2>3. reservation[c] # "none"
    BY <1>3, <2>2 DEF Learned, RowFits
  <2> QED
    BY <1>0, <1>4, <2>1, <2>3
<1>7. CASE ApplyServiceCharge(p)
  <2>1. \E state \in Decided : Complete(c, state, TRUE)
    BY <1>0, <1>2, <1>7, ApplyCases
  <2>2. row[c].bound
    BY <1>2, <1>7 DEF ApplyServiceCharge
  <2> QED
    BY <1>3, <1>4, <2>1, <2>2 DEF RowFits
<1> QED
  BY <1>5, <1>6, <1>7

\* Every step of the store service is a step of the contract or invisible to it.
LEMMA ContractStep == StoreInv /\ [Next]_vars => [Charge!Next]_(Charge!vars)
<1> SUFFICES ASSUME StoreInv, [Next]_vars PROVE [Charge!Next]_(Charge!vars)
  OBVIOUS
<1>1. CASE UNCHANGED <<row, chargeVars>>
  BY <1>1, ChargeVarsAre
<1>2. ASSUME NEW p \in Callers, RequestStep(p) PROVE [Charge!Next]_(Charge!vars)
  <2>1. CASE ReserveServiceCharge(p)
    <3>1. Of(p) \in Charges
      BY <2>1, UnderWay DEF ReserveServiceCharge
    <3> QED
      BY <1>1, <2>1, <3>1 DEF ReserveServiceCharge, Charge!Next, Charge!RecoveryStep
  <2>2. CASE SettleServiceCharge(p)
    <3>1. Of(p) \in Charges
      BY <2>2, UnderWay DEF SettleServiceCharge
    <3> QED
      BY <2>2, <3>1 DEF SettleServiceCharge, Charge!Next, Charge!RecoveryStep
  <2>3. CASE \/ \E c \in Charges : Begin(p, c)
             \/ Resume(p) \/ ObserveConnection(p) \/ Abandon(p)
    BY <1>1, <2>3 DEF Begin, Resume, ObserveConnection, Abandon
  <2> QED
    BY <1>2, <2>1, <2>2, <2>3, AdmitContract, BindContract, CompleteContract DEF RequestStep
<1>3. CASE StoreStep
  BY <1>1, <1>3 DEF StoreStep, SaveRecord, SoftDelete, Reconnect, StoreOnly, Expire, SetMemberGrant
<1>4. CASE LedgerStep
  BY <1>4 DEF LedgerStep, Charge!Next, Charge!RecoveryStep, Charge!Processes
<1>5. CASE UNCHANGED vars
  BY <1>1, <1>5 DEF vars, storeVars
<1> QED
  BY <1>2, <1>3, <1>4, <1>5 DEF Next

\* The store service is an owner as ConsumerChargeService expects it: it admits
\* before anything is reserved, proves one outcome, never withdraws it, and
\* proves only what is reserved.
THEOREM OwnerKeepsContract == Spec => OwnerContract
<1>1. Init => Charge!Init
  BY DEF Init, Charge!Init, LedgerInit, Charge!LedgerInit, Columns, Charge!Columns
<1> QED
  BY <1>1, ContractStep, StoreInvariant, PTL DEF Spec, OwnerContract, Charge!Spec

-----------------------------------------------------------------------------
(* What recovery proves of every owner *)

Recovery == INSTANCE ConsumerChargeProofs WITH proof <- OwnerProof

\* Both instances of the recovery are the same specification.
LEMMA SameRecovery ==
  /\ Charge!Init => Recovery!Init
  /\ [Charge!Next]_(Charge!vars) => [Recovery!Next]_(Recovery!vars)
BY DEF Charge!ledgerVars, Recovery!ledgerVars, Charge!recoveryVars, Recovery!recoveryVars,
   Charge!vars, Recovery!vars, Charge!Processes, Recovery!Processes, Charge!Proven, Recovery!Proven,
   Charge!OwnerMoves, Recovery!OwnerMoves, Charge!Admit, Recovery!Admit, Charge!Prove,
   Recovery!Prove, Charge!Reject, Recovery!Reject, Charge!OwnerStep, Recovery!OwnerStep,
   Charge!ReserveCharge, Recovery!ReserveCharge, Charge!OtherLedgerStep, Recovery!OtherLedgerStep,
   Charge!Tick, Recovery!Tick, Charge!Replan, Recovery!Replan, Charge!ClaimDue, Recovery!ClaimDue,
   Charge!CallReconcile, Recovery!CallReconcile, Charge!Done, Recovery!Done, Charge!ProofOf,
   Recovery!ProofOf, Charge!ReadProof, Recovery!ReadProof, Charge!SettleClaim, Recovery!SettleClaim,
   Charge!Fail, Recovery!Fail, Charge!Crash, Recovery!Crash, Charge!RecoveryStep,
   Recovery!RecoveryStep, Charge!Next, Recovery!Next, Charge!Init, Recovery!Init, Charge!LedgerInit,
   Recovery!LedgerInit, Charge!RecoveryInit, Recovery!RecoveryInit, Charge!Columns,
   Recovery!Columns, Charge!Moved, Recovery!Moved, Charge!Unclaimed, Recovery!Unclaimed, Charge!PurchasedGrant,
   Recovery!PurchasedGrant, Charge!IncurDebt, Recovery!IncurDebt, Charge!NoDebt, Recovery!NoDebt,
   Charge!TransferFence, Recovery!TransferFence, Charge!Allocate, Recovery!Allocate,
   Charge!Reclaim, Recovery!Reclaim, Charge!MemberFunded, Recovery!MemberFunded,
   Charge!Unreserved, Recovery!Unreserved, Charge!ReserveRow, Recovery!ReserveRow,
   Charge!ReserveMember, Recovery!ReserveMember, Charge!ReserveEnterprise,
   Recovery!ReserveEnterprise, Charge!Reserve, Recovery!Reserve, Charge!Unsettled,
   Recovery!Unsettled, Charge!SettleRow, Recovery!SettleRow, Charge!SettleCommitted,
   Recovery!SettleCommitted, Charge!MemberRefund, Recovery!MemberRefund, Charge!SettleReleased,
   Recovery!SettleReleased, Charge!Settle, Recovery!Settle, Charge!Terminal, Recovery!Terminal,
   Charge!CreditFits, Recovery!CreditFits, Charge!CreditedBalance, Recovery!CreditedBalance,
   Charge!DebtRepaid, Recovery!DebtRepaid, Charge!NetCredit, Recovery!NetCredit, Charge!Range,
   Recovery!Range, Charge!WrappingAdd, Recovery!WrappingAdd, Charge!SettledAsProved,
   Recovery!SettledAsProved

LEMMA OwnerIsRecovery == Spec => Recovery!Spec
BY OwnerKeepsContract, SameRecovery, PTL DEF OwnerContract, Charge!Spec, Recovery!Spec

LEMMA RecoveryAssumed ==
  /\ BatchLimit \in Nat \ {0} /\ MaxFaults \in Nat /\ MaxInt \in Nat \ {0}
  /\ Intent \in [Charges -> Recovery!Intents]
  /\ GrantQuantity \in [Sources -> Recovery!Quantities]
  /\ TransferCommands \subseteq Recovery!Commands
  /\ Recovery!IsFiniteSet(Members) /\ Recovery!IsFiniteSet(Charges) /\ Recovery!IsFiniteSet(Sources)
  /\ MaxIncurred \in Nat
BY LedgerAssumption, MaxIntAssumption, StoreAssumption
   DEF Intents, Recovery!Intents, Fundings, Recovery!Fundings, Quantities, Recovery!Quantities,
       Commands, Recovery!Commands, IsFiniteSet, Recovery!IsFiniteSet

\* Every period the service dates moved by is paid: consumed in the ledger or
\* still held for it, a released charge moved nothing, and no two commands
\* moved the dates from one version of the store.
THEOREM PeriodsArePaid == Spec => []PeriodsPaid
<1>1. StoreInv /\ ServedOnce /\ Recovery!SettledAsProved => PeriodsPaid
  <2> SUFFICES ASSUME StoreInv, ServedOnce, Recovery!SettledAsProved PROVE PeriodsPaid
    OBVIOUS
  <2>1. store.periods = QuantityOf({c \in Charges : row[c].state = "succeeded"})
    BY DEF StoreInv, PeriodsFit
  <2>2. ASSUME NEW c \in Charges
        PROVE  /\ row[c].state = "succeeded" => reservation[c] \in {"reserved", "committed"}
               /\ reservation[c] = "committed" => row[c].state = "succeeded"
    <3>1. /\ RowFits(c) /\ reservation[c] \in ReservationStates /\ row[c].state \in RowStates
          /\ reservation[c] = "committed" => OwnerProof[c] = "succeeded"
          /\ reservation[c] = "released" => OwnerProof[c] = "failed"
      BY DEF StoreInv, StoreTypeOK, Rows, RowStates, Recovery!SettledAsProved
    <3>2. OwnerProof[c] = RowProof(row[c])
      BY ProofsAre
    <3>3. row[c].state = "succeeded" => reservation[c] # "none" /\ OwnerProof[c] = "succeeded"
      BY <3>1, <3>2, RowProofIs DEF RowFits
    <3>4. OwnerProof[c] = "succeeded" => row[c].state = "succeeded"
      BY <3>1, <3>2, RowProofIs DEF RowStates
    <3> QED
      BY <3>1, <3>3, <3>4 DEF ReservationStates
  <2>3. \A c, d \in Charges :
          (row[c].state = "succeeded" /\ row[d].state = "succeeded" /\ c # d)
            => row[c].version # row[d].version
    BY DEF ServedOnce
  <2> QED
    BY <2>1, <2>2, <2>3 DEF PeriodsPaid
<1>2. Recovery!Spec => []Recovery!SettledAsProved
  BY RecoveryAssumed, Recovery!SettlesAsProved
<1> QED
  BY <1>1, <1>2, StoreInvariant, OncePerVersion, OwnerIsRecovery, PTL

\* The accounts of the ledger are right in every state that the store service
\* reaches: value is conserved, each source is minted once, the books are
\* backed and every open charge can still be settled.
THEOREM ServiceKeepsBooks ==
  Spec => [](Conservation /\ MintedOnce /\ BooksBacked /\ Settleable)
<1>1. Recovery!Spec => [](Recovery!Conservation /\ Recovery!MintedOnce /\ Recovery!BooksBacked
                            /\ Recovery!Settleable)
  BY RecoveryAssumed, Recovery!RecoveryKeepsBooks
<1>2. \A f, S : SumOf(f, S) = Recovery!SumOf(f, S)
  BY DEF SumOf, SumFunctionOnSet, FoldFunctionOnSet, MapThenFoldSet,
     Recovery!SumOf, Recovery!SumFunctionOnSet, Recovery!FoldFunctionOnSet, Recovery!MapThenFoldSet
<1>3. Recovery!Conservation => Conservation
  BY DEF Conservation, Recovery!Conservation, Free, Recovery!Free
<1>4. Recovery!MintedOnce => MintedOnce
  BY <1>2 DEF MintedOnce, Recovery!MintedOnce
<1>5. Recovery!BooksBacked => BooksBacked
  BY <1>2 DEF BooksBacked, Recovery!BooksBacked, HoldsBacked, Recovery!HoldsBacked, PositionsBacked,
     Recovery!PositionsBacked, ConsumptionBacked, Recovery!ConsumptionBacked, QuantityIn,
     Recovery!QuantityIn, QuantityOf, Recovery!QuantityOf, FundedBy, Recovery!FundedBy,
     MemberFunded, Recovery!MemberFunded
<1>6. Recovery!Settleable => Settleable
  BY DEF Settleable, Recovery!Settleable, CreditFits, Recovery!CreditFits, CreditedBalance,
     Recovery!CreditedBalance, WrappingAdd, Recovery!WrappingAdd, NetCredit, Recovery!NetCredit,
     DebtRepaid, Recovery!DebtRepaid, MemberFunded, Recovery!MemberFunded
<1> QED
  BY <1>1, <1>3, <1>4, <1>5, <1>6, OwnerIsRecovery, PTL

=============================================================================
