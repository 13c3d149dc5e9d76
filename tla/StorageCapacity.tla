--------------------------- MODULE StorageCapacity ---------------------------
(***************************************************************************)
(* The storage capacity of one enterprise: its account, its purchased lots,  *)
(* the write reservations, and three kinds of writers that use them against  *)
(* a bucket that keeps no transaction with the database: attachments         *)
(* (FileService.Upload), source media (SourceMedia.Upload) and generated     *)
(* images (GenerationExecution, its recovery and the durable artifact store). *)
(*                                                                          *)
(* Every transaction, and every call of the bucket, is a step.  A caller may *)
(* stop after any step and a PUT may land after its caller gave up.  A write *)
(* has one object, with the size its owner found; identities and payloads    *)
(* are those of the write.  A step on a generation fact reads and changes it  *)
(* at once, and the points are one step: ImageGeneration opens both.         *)
(***************************************************************************)
EXTENDS RowSums

CONSTANTS
  Attachments,  \* writes of FileService
  Media,        \* writes of SourceMedia
  Generations,  \* writes of the image agent
  Callers,      \* requests and activities that run at the same time
  MaxBytes,     \* the bound each write reserves
  Size,         \* the size of the object of each write
  BaseBytes,    \* the capacity every enterprise has
  Lots,         \* purchased lots
  LotBytes      \* the bytes of each lot

Writes == Attachments \cup Media \cup Generations

ASSUME CapacityAssumption ==
  /\ IsFiniteSet(Writes) /\ IsFiniteSet(Lots)
  /\ Attachments \cap Media = {} /\ (Attachments \cup Media) \cap Generations = {}
  /\ BaseBytes \in Nat /\ LotBytes \in [Lots -> Nat]
  /\ MaxBytes \in [Writes -> Nat] /\ Size \in [Writes -> Nat]
  /\ \A w \in Attachments \cup Media : MaxBytes[w] = Size[w]

VARIABLES
  account,  \* storage_capacity_accounts: occupied and reserved bytes
  row,      \* storage_capacity_reservations, each with the binding of its object
  lot,      \* storage_capacity_lots
  file,     \* the file row of each attachment
  fact,     \* the generation fact of each image
  flight,   \* writes whose PUT or COPY is under way
  bucket,   \* writes whose object exists
  job       \* what each caller is doing

capacityVars == <<account, row, lot, file, fact, flight, bucket, job>>

NoWrite == [state |-> "NONE", remaining |-> 0, binding |-> "none", receipt |-> "none"]

NoFact == [state |-> "none", settled |-> FALSE]

Idle == [at |-> "idle", write |-> "none", publishes |-> FALSE]

\* Nothing is stored or reserved, and lots are prepared by their orders.
CapacityInit ==
  /\ account = [occupied |-> 0, reserved |-> 0]
  /\ row = [w \in Writes |-> NoWrite]
  /\ lot = [l \in Lots |-> "prepared"]
  /\ file = [w \in Attachments |-> "none"]
  /\ fact = [w \in Generations |-> NoFact]
  /\ flight = {} /\ bucket = {}
  /\ job = [c \in Callers |-> Idle]

-----------------------------------------------------------------------------
(* The capacity owner: what each call answers, and what it changes *)

\* Mutant: a lot counts for good once it was activated.
QuotaForGood == BaseBytes + SumOf(LotBytes, {l \in Lots : lot[l] # "prepared"})

Quota == BaseBytes + SumOf(LotBytes, {l \in Lots : lot[l] = "active"})

Fits(w) == account.occupied + account.reserved + MaxBytes[w] <= Quota

Reserves(w) ==
  \/ row[w].state = "NONE" /\ Fits(w)
  \/ row[w].state \in {"RESERVED", "DISPATCHED", "CLOSED"}

ReserveWrite(w) ==
  IF row[w].state = "NONE"
  THEN /\ row' = [row EXCEPT ![w].state = "RESERVED", ![w].remaining = MaxBytes[w]]
       /\ account' = [account EXCEPT !.reserved = @ + MaxBytes[w]]
  ELSE UNCHANGED <<row, account>>

Binds(w) ==
  \/ row[w].binding # "none" /\ row[w].state # "ABORTED"
  \/ row[w].state \in {"RESERVED", "DISPATCHED"} /\ Size[w] <= MaxBytes[w]

BindObjects(w) ==
  /\ row' = [row EXCEPT ![w].binding = IF @ = "none" THEN "bound" ELSE @]
  /\ UNCHANGED account

Claims(w) == row[w].state \in {"RESERVED", "DISPATCHED", "CLOSED"}

ClaimDispatch(w) ==
  /\ row' = [row EXCEPT ![w].state = IF @ = "RESERVED" THEN "DISPATCHED" ELSE @]
  /\ UNCHANGED account

\* Free what a write still holds, and end it.
Free(w, state, receipt) ==
  /\ account' = [account EXCEPT !.reserved = @ - row[w].remaining]
  /\ row' = [row EXCEPT ![w].state = state, ![w].remaining = 0, ![w].receipt = receipt]

\* Mutant: a dispatched write is aborted as if nothing had been sent.
AbortsDispatched(w) == row[w].state \in {"RESERVED", "DISPATCHED"}

Aborts(w) == row[w].state = "RESERVED"

Confirms(w) == row[w].state = "DISPATCHED" /\ row[w].remaining >= Size[w]

ConfirmStored(w) ==
  IF row[w].binding = "confirmed"
  THEN UNCHANGED <<row, account>>
  ELSE /\ account' = [occupied |-> account.occupied + Size[w],
                      reserved |-> account.reserved - Size[w]]
       /\ row' = [row EXCEPT ![w].remaining = @ - Size[w], ![w].binding = "confirmed"]

Closes(w) == row[w].state = "DISPATCHED" /\ row[w].binding # "bound"

\* The commercial order activates a lot after its payment; time ends it.
ActivateLotInTransaction(l) ==
  /\ lot[l] = "prepared"
  /\ lot' = [lot EXCEPT ![l] = "active"]
  /\ UNCHANGED <<account, row, file, fact, flight, bucket, job>>

ExpireLot(l) ==
  /\ lot[l] = "active"
  /\ lot' = [lot EXCEPT ![l] = "expired"]
  /\ UNCHANGED <<account, row, file, fact, flight, bucket, job>>

-----------------------------------------------------------------------------
(* Steps of a caller *)

At(c, step) == job[c].at = step

\* The caller goes to another step, or returns.
Go(c, step) ==
  job' = [job EXCEPT ![c] = IF step = "idle" THEN Idle ELSE [@ EXCEPT !.at = step]]

Begin(c, w, step, publishes) ==
  /\ At(c, "idle")
  /\ job' = [job EXCEPT ![c] = [at |-> step, write |-> w, publishes |-> publishes]]

owner == <<account, row>>

others == <<lot, file, fact, flight, bucket>>

\* A call of the owner that is refused, or whose answer is lost.
Answer(c, granted, call, next, failed) ==
  /\ \/ granted /\ call /\ (Go(c, next) \/ Go(c, failed))
     \/ ~granted /\ UNCHANGED owner /\ Go(c, failed)
  /\ UNCHANGED others

\* FileService.Upload and SourceMedia.Upload, also when a client sends it again.
Upload(c, w) ==
  /\ w \in Attachments \cup Media
  /\ Begin(c, w, "reserve", FALSE)
  /\ UNCHANGED <<owner, others>>

\* An upload reserves its own bytes (Meter.Admit for media), a generation the
\* largest result, before the points.
Reserve(c) ==
  LET w == job[c].write IN
  /\ At(c, "reserve")
  /\ IF w \in Generations
     THEN Answer(c, Reserves(w), ReserveWrite(w), "admit", "close")
     ELSE Answer(c, Reserves(w), ReserveWrite(w), "bind", "idle")

\* The object's key: before the upload, or by FinalizeWithProgress.
Bind(c) ==
  LET w == job[c].write
      next == IF w \in Attachments THEN "intent"
              ELSE IF w \in Media THEN "claim" ELSE "inspect"
  IN At(c, "bind") /\ Answer(c, Binds(w), BindObjects(w), next, "idle")

\* CreateFileIntent and what Upload makes of its answer.  Whether the parent
\* may be used is decided anew in every transaction.
CreateFileIntent(c) ==
  LET w == job[c].write IN
  /\ At(c, "intent")
  /\ \/ /\ file' = [file EXCEPT ![w] = IF @ = "none" THEN "PENDING" ELSE @]
        /\ Go(c, IF file[w] = "CONFIRMED" THEN "idle" ELSE "claim")
     \/ /\ Go(c, IF file[w] = "none" THEN "abort" ELSE "idle")
        /\ UNCHANGED file
  /\ UNCHANGED <<owner, lot, fact, flight, bucket>>

\* ClaimDispatch, before the object is written or the provider is called.
Claim(c) ==
  LET w == job[c].write IN
  /\ At(c, "claim")
  /\ CASE w \in Generations -> Answer(c, Claims(w), ClaimDispatch(w), "dispatch", "close")
       [] w \in Attachments -> Answer(c, Claims(w), ClaimDispatch(w), "inspect", "idle")
       [] w \in Media -> Answer(c, Claims(w), ClaimDispatch(w), "put", "idle")

\* An attachment and a published copy are looked up first, media is not.
Inspect(c) ==
  /\ At(c, "inspect")
  /\ Go(c, IF job[c].write \in bucket THEN "confirm" ELSE "put")
  /\ UNCHANGED <<owner, others>>

\* PutImmutable or copyImmutable.  An object that exists is not written again.
Put(c) ==
  LET w == job[c].write IN
  /\ At(c, "put")
  /\ flight' = IF w \in bucket THEN flight ELSE flight \cup {w}
  /\ Go(c, "verify")
  /\ UNCHANGED <<owner, lot, file, fact, bucket>>

\* The object is read back; without it the upload is left unknown.
Verify(c) ==
  /\ At(c, "verify")
  /\ Go(c, IF job[c].write \in bucket THEN "confirm" ELSE "idle")
  /\ UNCHANGED <<owner, others>>

\* ConfirmStored, and what each kind of write goes on with.
Confirm(c) ==
  LET w == job[c].write
      next == IF w \in Attachments THEN "confirm_file"
              ELSE IF w \in Media THEN "idle" ELSE "close_write"
  IN /\ At(c, "confirm")
     /\ Answer(c, row[w].binding = "confirmed" \/ Confirms(w), ConfirmStored(w), next, "idle")

ConfirmFile(c) ==
  /\ At(c, "confirm_file")
  /\ file' = [file EXCEPT ![job[c].write] = "CONFIRMED"]
  /\ Go(c, "idle")
  /\ UNCHANGED <<owner, lot, fact, flight, bucket>>

AbortUnstarted(c) ==
  LET w == job[c].write IN
  /\ At(c, "abort")
  /\ Answer(c, Aborts(w), Free(w, "ABORTED", "none"), "idle", "idle")

-----------------------------------------------------------------------------
(* A generated image *)

Record(w, state) == fact' = [fact EXCEPT ![w].state = state]

factStep == <<owner, lot, file, flight, bucket>>

\* GenerateQuotedSlot goes on only if the attempt has no fact yet.
Generate(c, w) ==
  /\ w \in Generations /\ fact[w].state = "none"
  /\ Begin(c, w, "reserve", FALSE)
  /\ Record(w, "prepared")
  /\ UNCHANGED factStep

\* The points, the authorization and the provider are checked.
Admit(c) ==
  /\ At(c, "admit")
  /\ Go(c, "claim") \/ Go(c, "close")
  /\ UNCHANGED <<owner, others>>

\* closeBeforeDispatch, up to finalize.
CloseBeforeDispatch(c) ==
  LET w == job[c].write IN
  /\ At(c, "close")
  /\ \/ /\ fact[w].state \in {"prepared", "no_generation"}
        /\ Record(w, "no_generation") /\ Go(c, "settle")
     \/ /\ fact[w].state \notin {"prepared", "no_generation"}
        /\ Go(c, "idle") /\ UNCHANGED fact
  /\ UNCHANGED factStep

BeginGenerationDispatch(c) ==
  LET w == job[c].write IN
  /\ At(c, "dispatch")
  /\ \/ /\ fact[w].state = "prepared"
        /\ Record(w, "dispatch_started") /\ Go(c, "answer")
     \/ /\ fact[w].state # "prepared"
        /\ Go(c, "idle") /\ UNCHANGED fact
  /\ UNCHANGED factStep

\* The provider's success, with or without a usable result, its proved
\* rejection, or nothing certain.
Dispatched(c) ==
  LET w == job[c].write IN
  /\ At(c, "answer")
  /\ fact[w].state \in {"dispatch_started", "unknown"}
  /\ \/ \E state \in {"provider_succeeded", "invalid_result", "no_generation"} :
          Record(w, state) /\ Go(c, "settle")
     \/ Record(w, "unknown") /\ Go(c, "idle")
  /\ UNCHANGED factStep

\* ReconcileExistingGeneration, up to the settlement.
Reconcile(c, w) ==
  /\ w \in Generations /\ fact[w].state # "none"
  /\ Begin(c, w, "settle", FALSE)
  /\ fact' = [fact EXCEPT ![w].state =
                CASE @ = "prepared" -> "no_generation"
                  [] @ = "dispatch_started" -> "unknown"
                  [] OTHER -> @]
  /\ UNCHANGED factStep

Terminal == {"no_generation", "provider_succeeded", "invalid_result"}

\* FinalizeImageGeneration and BindGenerationSettlement.
Settle(c) ==
  LET w == job[c].write IN
  /\ At(c, "settle")
  /\ \/ /\ fact[w].state \in Terminal
        /\ fact' = [fact EXCEPT ![w].settled = TRUE] /\ Go(c, "find")
     \/ Go(c, "idle") /\ UNCHANGED fact
  /\ UNCHANGED factStep

\* closeGenerationCapacity: the facts that leave nothing to store.
Frees(w) == fact[w].state \in {"no_generation", "invalid_result"}

\* closeGenerationCapacity decides on the row it finds.
FindWrite(c) ==
  LET w == job[c].write IN
  /\ At(c, "find")
  /\ Go(c, IF ~Frees(w) \/ row[w].state = "NONE" THEN "idle"
           ELSE IF fact[w].state = "no_generation" /\ row[w].state = "RESERVED"
                THEN "abort" ELSE "close_write")
  /\ UNCHANGED <<owner, others>>

\* The proof CloseWrite is given: the manifest, or the fact.
Receipt(c) == IF job[c].publishes THEN "manifest" ELSE fact[job[c].write].state

CloseWrite(c) ==
  LET w == job[c].write IN
  /\ At(c, "close_write")
  /\ Answer(c, Closes(w), Free(w, "CLOSED", Receipt(c)), "idle", "idle")

\* FinalizeWithProgress: a settled, usable result whose write was dispatched.
Publish(c, w) ==
  /\ w \in Generations
  /\ fact[w] = [state |-> "provider_succeeded", settled |-> TRUE]
  /\ row[w].state \in {"DISPATCHED", "CLOSED"}
  /\ Begin(c, w, "bind", TRUE)
  /\ UNCHANGED <<owner, others>>

-----------------------------------------------------------------------------
(* The surroundings *)

\* A caller stops: it crashed, it timed out, or its next call failed.
Stop(c) ==
  /\ ~At(c, "idle")
  /\ Go(c, "idle")
  /\ UNCHANGED <<owner, others>>

\* A PUT takes effect, whether or not anyone still waits for it, or never does.
Land(w) ==
  /\ w \in flight
  /\ flight' = flight \ {w}
  /\ bucket' = bucket \cup {w} \/ UNCHANGED bucket
  /\ UNCHANGED <<owner, lot, file, fact, job>>

CapacityNext ==
  \/ \E l \in Lots : ActivateLotInTransaction(l) \/ ExpireLot(l)
  \/ \E w \in Writes : Land(w)
  \/ \E c \in Callers :
       \/ \E w \in Writes : Upload(c, w) \/ Generate(c, w) \/ Reconcile(c, w) \/ Publish(c, w)
       \/ Reserve(c) \/ Bind(c) \/ CreateFileIntent(c) \/ Claim(c) \/ Inspect(c)
       \/ Put(c) \/ Verify(c) \/ Confirm(c) \/ ConfirmFile(c) \/ AbortUnstarted(c)
       \/ Admit(c) \/ CloseBeforeDispatch(c) \/ BeginGenerationDispatch(c)
       \/ Dispatched(c) \/ Settle(c) \/ FindWrite(c) \/ CloseWrite(c)
       \/ Stop(c)

CapacitySpec == CapacityInit /\ [][CapacityNext]_capacityVars

-----------------------------------------------------------------------------
(* Properties *)

Used == account.occupied + account.reserved

\* The account agrees with the rows, whatever was retried, aborted, closed or
\* confirmed twice: reserved bytes are what open writes still hold, occupied
\* bytes are what was confirmed, and both together never exceed the capacity
\* that was ever the enterprise's.  (locked, saveAccount and the five calls
\* that change the account)
CapacityBooks ==
  /\ account.reserved = SumOf([w \in Writes |-> row[w].remaining], Writes)
  /\ account.occupied = SumOf(Size, {w \in Writes : row[w].binding = "confirmed"})
  /\ Used <= BaseBytes + SumOf(LotBytes, {l \in Lots : lot[l] # "prepared"})

\* Whatever makes the use grow still fits the lots that are active by then.
AdmitsWithinQuota ==
  Used' > Used => Used' <= BaseBytes + SumOf(LotBytes, {l \in Lots : lot'[l] = "active"})

\* The books are right at every moment, and the use never grows beyond the
\* base quota and the lots active then: a lot that expired leaves its bytes
\* to the writes that have them and takes no new one.  (quota in
\* ReserveWrite, and the calls that confirm, abort and close)
CapacityKept == []CapacityBooks /\ [][AdmitsWithinQuota]_capacityVars

\* No byte is stored for free: an object that exists, or whose PUT may still
\* land, is either counted as occupied or has its bytes reserved by a
\* dispatched write.  In particular neither a late abort nor the close of a
\* generation ever releases it.  (AbortUnstarted, CloseWrite,
\* closeGenerationCapacity, FileService.Upload, FinalizeWithProgress)
StoredIsCovered ==
  \A w \in bucket \cup flight :
    \/ row[w].binding = "confirmed"
    \/ row[w].binding = "bound" /\ row[w].state = "DISPATCHED" /\ row[w].remaining >= Size[w]
=============================================================================
