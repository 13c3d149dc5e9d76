------------------------ MODULE StorageCapacityProofs ------------------------
(***************************************************************************)
(* The storage account agrees with its reservations, stays within what the  *)
(* enterprise was given, and covers every object of the bucket: for every   *)
(* set of writes, lots and callers and all sizes.                           *)
(***************************************************************************)
EXTENDS StorageCapacity, RowSumsProofs

\* The leaves are first-order; one that needs arithmetic names the SMT solver.
USE Zenon

RowStates == {"NONE", "RESERVED", "DISPATCHED", "CLOSED", "ABORTED"}

RowIs(r, s, left, b) == r = [state |-> s, remaining |-> left, binding |-> b, receipt |-> r.receipt]

\* The tables of the capacity owner.
OwnerTyped ==
  /\ account = [occupied |-> account.occupied, reserved |-> account.reserved]
  /\ account.occupied \in Int /\ account.reserved \in Int
  /\ row = [w \in Writes |-> row[w]]
  /\ \A w \in Writes :
       /\ RowIs(row[w], row[w].state, row[w].remaining, row[w].binding)
       /\ row[w].state \in RowStates /\ row[w].remaining \in Nat
       /\ row[w].binding \in {"none", "bound", "confirmed"}
  /\ lot = [l \in Lots |-> lot[l]]

\* What a row may say: a write that is open holds its whole bound until its
\* object is confirmed, and no write is closed over an object that is bound.
RowFits(w) ==
  /\ row[w].state = "NONE" => row[w].remaining = 0 /\ row[w].binding = "none"
  /\ row[w].state = "RESERVED" => row[w].remaining = MaxBytes[w] /\ row[w].binding # "confirmed"
  /\ row[w].state = "DISPATCHED" =>
       row[w].remaining = IF row[w].binding = "confirmed" THEN MaxBytes[w] - Size[w] ELSE MaxBytes[w]
  /\ row[w].state = "CLOSED" => row[w].binding # "bound"
  /\ row[w].binding # "none" => Size[w] <= MaxBytes[w]

\* The object of a write may exist.
Covered(w) ==
  \/ row[w].binding = "confirmed"
  \/ row[w].binding = "bound" /\ row[w].state = "DISPATCHED"

\* The write was dispatched, which no later call takes back.
Past(w) == row[w].state \in {"DISPATCHED", "CLOSED"}

JobTyped ==
  /\ job = [c \in Callers |-> job[c]]
  /\ \A c \in Callers :
       job[c] = [at |-> job[c].at, write |-> job[c].write, publishes |-> job[c].publishes]

\* What a caller at this step has been told of its write, and relies on.
Knows(step, w) ==
  /\ w \in Writes
  /\ step = "admit" => w \in Generations
  /\ step = "intent" => w \notin Generations
  /\ step = "bind" /\ w \in Generations => Past(w)
  /\ step \in {"intent", "claim"} /\ w \notin Generations => row[w].binding # "none"
  /\ step \in {"inspect", "put"} => Covered(w)

JobKnows(c) == job[c].at # "idle" => Knows(job[c].at, job[c].write)

\* The inductive invariant.
CapacityInv ==
  /\ OwnerTyped /\ JobTyped
  /\ \A w \in Writes : RowFits(w)
  /\ \A c \in Callers : JobKnows(c)
  /\ bucket \cup flight \subseteq Writes
  /\ \A w \in bucket \cup flight : Covered(w)
  /\ CapacityBooks

-----------------------------------------------------------------------------
(* The capacity owner *)

\* The calls that may change the row of a write, each with its condition.
OwnerStep(w) ==
  \/ Reserves(w) /\ ReserveWrite(w)
  \/ Binds(w) /\ BindObjects(w)
  \/ Claims(w) /\ ClaimDispatch(w)
  \/ Aborts(w) /\ Free(w, "ABORTED", "none")
  \/ (row[w].binding = "confirmed" \/ Confirms(w)) /\ ConfirmStored(w)
  \/ \E receipt : Closes(w) /\ Free(w, "CLOSED", receipt)
  \/ UNCHANGED owner

\* A table of rows, and one in which only the row of w differs.
Table(t) == t = [v \in Writes |-> t[v]]

Apart(t, u, w) == Table(u) /\ \A v \in Writes \ {w} : u[v] = t[v]

Columns(r, s, left, b, p) == r = [state |-> s, remaining |-> left, binding |-> b, receipt |-> p]

\* An update of one column.
LEMMA Column ==
  ASSUME NEW t, Table(t), NEW w \in Writes, NEW x,
         NEW s, NEW left, NEW b, NEW p, Columns(t[w], s, left, b, p)
  PROVE  /\ Apart(t, [t EXCEPT ![w].state = x], w)
         /\ Columns([t EXCEPT ![w].state = x][w], x, left, b, p)
         /\ Apart(t, [t EXCEPT ![w].remaining = x], w)
         /\ Columns([t EXCEPT ![w].remaining = x][w], s, x, b, p)
         /\ Apart(t, [t EXCEPT ![w].binding = x], w)
         /\ Columns([t EXCEPT ![w].binding = x][w], s, left, x, p)
         /\ Apart(t, [t EXCEPT ![w].receipt = x], w)
         /\ Columns([t EXCEPT ![w].receipt = x][w], s, left, b, x)
<1>1. Apart(t, [t EXCEPT ![w].state = x], w) /\ Columns([t EXCEPT ![w].state = x][w], x, left, b, p)
  BY SMT DEF Table, Apart, Columns
<1>2. Apart(t, [t EXCEPT ![w].remaining = x], w) /\ Columns([t EXCEPT ![w].remaining = x][w], s, x, b, p)
  BY SMT DEF Table, Apart, Columns
<1>3. Apart(t, [t EXCEPT ![w].binding = x], w) /\ Columns([t EXCEPT ![w].binding = x][w], s, left, x, p)
  BY SMT DEF Table, Apart, Columns
<1>4. Apart(t, [t EXCEPT ![w].receipt = x], w) /\ Columns([t EXCEPT ![w].receipt = x][w], s, left, b, x)
  BY SMT DEF Table, Apart, Columns
<1> QED
  BY <1>1, <1>2, <1>3, <1>4

\* Updates of several columns at once.
LEMMA TwoColumns ==
  ASSUME Table(row), NEW w \in Writes, NEW x, NEW y,
         NEW s, NEW left, NEW b, NEW p, Columns(row[w], s, left, b, p)
  PROVE  /\ row' = [row EXCEPT ![w].state = x, ![w].remaining = y] =>
              Apart(row, row', w) /\ Columns(row'[w], x, y, b, p)
         /\ row' = [row EXCEPT ![w].remaining = x, ![w].binding = y] =>
              Apart(row, row', w) /\ Columns(row'[w], s, x, y, p)
<1>1. ASSUME row' = [row EXCEPT ![w].state = x, ![w].remaining = y]
      PROVE  Apart(row, row', w) /\ Columns(row'[w], x, y, b, p)
  <2> DEFINE one == [row EXCEPT ![w].state = x]
             two == [one EXCEPT ![w].remaining = y]
  <2>1. row' = two
    BY <1>1
  <2>2. Apart(row, one, w) /\ Columns(one[w], x, left, b, p)
    BY Column
  <2>3. Table(one)
    BY <2>2 DEF Apart
  <2> HIDE DEF one
  <2>4. Apart(one, two, w) /\ Columns(two[w], x, y, b, p)
    BY <2>2, <2>3, Column
  <2>5. QED
    BY <2>1, <2>2, <2>4 DEF Apart
<1>2. ASSUME row' = [row EXCEPT ![w].remaining = x, ![w].binding = y]
      PROVE  Apart(row, row', w) /\ Columns(row'[w], s, x, y, p)
  <2> DEFINE one == [row EXCEPT ![w].remaining = x]
             two == [one EXCEPT ![w].binding = y]
  <2>1. row' = two
    BY <1>2
  <2>2. Apart(row, one, w) /\ Columns(one[w], s, x, b, p)
    BY Column
  <2>3. Table(one)
    BY <2>2 DEF Apart
  <2> HIDE DEF one
  <2>4. Apart(one, two, w) /\ Columns(two[w], s, x, y, p)
    BY <2>2, <2>3, Column
  <2>5. QED
    BY <2>1, <2>2, <2>4 DEF Apart
<1> QED
  BY <1>1, <1>2

LEMMA ThreeColumns ==
  ASSUME Table(row), NEW w \in Writes, NEW x, NEW y, NEW z,
         NEW s, NEW left, NEW b, NEW p, Columns(row[w], s, left, b, p),
         row' = [row EXCEPT ![w].state = x, ![w].remaining = y, ![w].receipt = z]
  PROVE  Apart(row, row', w) /\ Columns(row'[w], x, y, b, z)
<1> DEFINE one == [row EXCEPT ![w].state = x]
           two == [one EXCEPT ![w].remaining = y]
           three == [two EXCEPT ![w].receipt = z]
<1>1. row' = three
  OBVIOUS
<1>2. Apart(row, one, w) /\ Columns(one[w], x, left, b, p)
  BY Column
<1>3. Table(one)
  BY <1>2 DEF Apart
<1> HIDE DEF one
<1>4. Apart(one, two, w) /\ Columns(two[w], x, y, b, p)
  BY <1>2, <1>3, Column
<1>5. Table(two)
  BY <1>4 DEF Apart
<1> HIDE DEF two
<1>6. Apart(two, three, w) /\ Columns(three[w], x, y, b, z)
  BY <1>4, <1>5, Column
<1> QED
  BY <1>1, <1>2, <1>4, <1>6 DEF Apart

\* One row gets new columns and the account follows.
RowMoves(w, s, left, b) ==
  /\ row' = [v \in Writes |-> row'[v]]
  /\ \A v \in Writes \ {w} : row'[v] = row[v]
  /\ RowIs(row'[w], s, left, b)
  /\ account' = [occupied |-> account.occupied +
                   (IF b = "confirmed" /\ row[w].binding # "confirmed" THEN Size[w] ELSE 0),
                 reserved |-> account.reserved + left - row[w].remaining]

LEMMA Moved ==
  ASSUME NEW w, NEW s, NEW left, NEW b, NEW p, Apart(row, row', w), Columns(row'[w], s, left, b, p)
  PROVE  /\ /\ ~(b = "confirmed" /\ row[w].binding # "confirmed")
            /\ account' = [occupied |-> account.occupied + 0,
                           reserved |-> account.reserved + left - row[w].remaining]
            => RowMoves(w, s, left, b)
         /\ /\ b = "confirmed" /\ row[w].binding # "confirmed"
            /\ account' = [occupied |-> account.occupied + Size[w],
                           reserved |-> account.reserved + left - row[w].remaining]
            => RowMoves(w, s, left, b)
<1>1. RowIs(row'[w], s, left, b)
  BY SMT DEF Columns, RowIs
<1> QED
  BY <1>1 DEF RowMoves, Apart, Table

\* Which columns a call may write.
RowMay(w, s, left, b) ==
  \/ s = row[w].state /\ left = row[w].remaining /\ b = row[w].binding
  \/ /\ row[w].state = "NONE" /\ Fits(w)
     /\ s = "RESERVED" /\ left = MaxBytes[w] /\ b = row[w].binding
  \/ /\ row[w].state \in {"RESERVED", "DISPATCHED"} /\ Size[w] <= MaxBytes[w]
     /\ row[w].binding = "none"
     /\ s = row[w].state /\ left = row[w].remaining /\ b = "bound"
  \/ /\ row[w].state = "RESERVED"
     /\ s = "DISPATCHED" /\ left = row[w].remaining /\ b = row[w].binding
  \/ /\ row[w].state = "RESERVED"
     /\ s = "ABORTED" /\ left = 0 /\ b = row[w].binding
  \/ /\ row[w].state = "DISPATCHED" /\ row[w].binding # "confirmed" /\ row[w].remaining >= Size[w]
     /\ s = "DISPATCHED" /\ left = row[w].remaining - Size[w] /\ b = "confirmed"
  \/ /\ row[w].state = "DISPATCHED" /\ row[w].binding # "bound"
     /\ s = "CLOSED" /\ left = 0 /\ b = row[w].binding

\* Every call of the owner is one of these moves.
LEMMA OwnerMoves ==
  ASSUME OwnerTyped, NEW w \in Writes, RowFits(w), OwnerStep(w)
  PROVE  \E s, left, b : RowMoves(w, s, left, b) /\ RowMay(w, s, left, b)
<1>0. /\ MaxBytes[w] \in Nat /\ Size[w] \in Nat /\ row[w].remaining \in Nat
      /\ account.occupied \in Int /\ account.reserved \in Int
      /\ row = [v \in Writes |-> row[v]]
      /\ RowIs(row[w], row[w].state, row[w].remaining, row[w].binding)
      /\ account = [occupied |-> account.occupied, reserved |-> account.reserved]
      /\ Table(row) /\ Columns(row[w], row[w].state, row[w].remaining, row[w].binding, row[w].receipt)
  BY CapacityAssumption DEF OwnerTyped, Table, Columns, RowIs
<1>1. ASSUME UNCHANGED owner
      PROVE  RowMoves(w, row[w].state, row[w].remaining, row[w].binding)
  BY <1>0, <1>1, SMT DEF owner, RowMoves, RowIs
<1>2. CASE UNCHANGED owner
  BY <1>1, <1>2 DEF RowMay
<1>3. CASE Reserves(w) /\ ReserveWrite(w)
  <2>1. CASE row[w].state = "NONE"
    <3>1. RowMoves(w, "RESERVED", MaxBytes[w], row[w].binding)
      <4>1. Apart(row, row', w) /\ Columns(row'[w], "RESERVED", MaxBytes[w], row[w].binding, row[w].receipt)
        BY <1>0, <1>3, <2>1, TwoColumns DEF ReserveWrite
      <4>2. /\ account' = [account EXCEPT !.reserved = @ + MaxBytes[w]]
            /\ row[w].remaining = 0 /\ row[w].binding # "confirmed"
        BY <1>3, <2>1 DEF ReserveWrite, RowFits
      <4>3. account' = [occupied |-> account.occupied + 0,
                        reserved |-> account.reserved + MaxBytes[w] - row[w].remaining]
        BY <1>0, <4>2, SMT
      <4>4. QED
        BY <4>1, <4>2, <4>3, Moved
    <3>2. QED
      BY <1>3, <2>1, <3>1 DEF Reserves, RowMay
  <2>2. QED
    BY <1>2, <1>3, <2>1 DEF ReserveWrite, owner
<1>4. CASE Binds(w) /\ BindObjects(w)
  <2>1. CASE row[w].binding = "none"
    <3>1. RowMoves(w, row[w].state, row[w].remaining, "bound")
      BY <1>0, <1>4, <2>1, SMT DEF BindObjects, RowMoves, RowIs
    <3>2. QED
      BY <1>4, <2>1, <3>1 DEF Binds, RowMay
  <2>2. CASE row[w].binding # "none"
    <3>1. RowMoves(w, row[w].state, row[w].remaining, row[w].binding)
      BY <1>0, <1>4, <2>2, SMT DEF BindObjects, RowMoves, RowIs
    <3>2. QED
      BY <3>1 DEF RowMay
  <2>3. QED
    BY <2>1, <2>2
<1>5. CASE Claims(w) /\ ClaimDispatch(w)
  <2>1. CASE row[w].state = "RESERVED"
    <3>1. RowMoves(w, "DISPATCHED", row[w].remaining, row[w].binding)
      BY <1>0, <1>5, <2>1, SMT DEF ClaimDispatch, RowMoves, RowIs
    <3>2. QED
      BY <2>1, <3>1 DEF RowMay
  <2>2. CASE row[w].state # "RESERVED"
    <3>1. RowMoves(w, row[w].state, row[w].remaining, row[w].binding)
      BY <1>0, <1>5, <2>2, SMT DEF ClaimDispatch, RowMoves, RowIs
    <3>2. QED
      BY <3>1 DEF RowMay
  <2>3. QED
    BY <2>1, <2>2
<1>6. ASSUME NEW s, NEW receipt, Free(w, s, receipt)
      PROVE  RowMoves(w, s, 0, row[w].binding)
  <2>1. Apart(row, row', w) /\ Columns(row'[w], s, 0, row[w].binding, receipt)
    BY <1>0, <1>6, ThreeColumns DEF Free
  <2>2. account' = [occupied |-> account.occupied + 0,
                    reserved |-> account.reserved + 0 - row[w].remaining]
    BY <1>0, <1>6, SMT DEF Free
  <2>3. QED
    BY <2>1, <2>2, Moved
<1>7. CASE Aborts(w) /\ Free(w, "ABORTED", "none")
  BY <1>6, <1>7 DEF Aborts, RowMay
<1>8. CASE (row[w].binding = "confirmed" \/ Confirms(w)) /\ ConfirmStored(w)
  <2>1. CASE row[w].binding = "confirmed"
    BY <1>2, <1>8, <2>1 DEF ConfirmStored, owner
  <2>2. CASE row[w].binding # "confirmed"
    <3>1. RowMoves(w, row[w].state, row[w].remaining - Size[w], "confirmed")
      <4>1. /\ row' = [row EXCEPT ![w].remaining = row[w].remaining - Size[w], ![w].binding = "confirmed"]
            /\ account' = [occupied |-> account.occupied + Size[w], reserved |-> account.reserved - Size[w]]
        BY <1>8, <2>2 DEF ConfirmStored
      <4>2. Apart(row, row', w) /\ Columns(row'[w], row[w].state, row[w].remaining - Size[w], "confirmed", row[w].receipt)
        BY <1>0, <4>1, TwoColumns
      <4>3. account' = [occupied |-> account.occupied + Size[w],
                        reserved |-> account.reserved + (row[w].remaining - Size[w]) - row[w].remaining]
        BY <1>0, <4>1, SMT
      <4>4. QED
        BY <2>2, <4>2, <4>3, Moved
    <3>2. QED
      BY <1>8, <2>2, <3>1 DEF Confirms, RowMay
  <2>3. QED
    BY <2>1, <2>2
<1>9. CASE \E receipt : Closes(w) /\ Free(w, "CLOSED", receipt)
  BY <1>6, <1>9 DEF Closes, RowMay
<1> QED
  BY <1>2, <1>3, <1>4, <1>5, <1>7, <1>8, <1>9 DEF OwnerStep

\* The columns of a row after a move.
LEMMA MovedRow ==
  ASSUME NEW w, NEW s, NEW left, NEW b, RowMoves(w, s, left, b)
  PROVE  row'[w].state = s /\ row'[w].remaining = left /\ row'[w].binding = b
BY SMT DEF RowMoves, RowIs

\* A move writes a row that is allowed, and takes nothing back that a caller
\* may rely on.
LEMMA MayFits ==
  ASSUME OwnerTyped, NEW w \in Writes, RowFits(w),
         NEW s, NEW left, NEW b, RowMoves(w, s, left, b), RowMay(w, s, left, b)
  PROVE  /\ s \in RowStates /\ left \in Nat /\ b \in {"none", "bound", "confirmed"}
         /\ RowFits(w)'
         /\ Covered(w) => Covered(w)'
         /\ Past(w) => Past(w)'
         /\ row[w].binding # "none" => row'[w].binding # "none"
<1>1. /\ MaxBytes[w] \in Nat /\ Size[w] \in Nat /\ row[w].remaining \in Nat
      /\ row[w].state \in RowStates /\ row[w].binding \in {"none", "bound", "confirmed"}
  BY CapacityAssumption DEF OwnerTyped
<1>2. row'[w].state = s /\ row'[w].remaining = left /\ row'[w].binding = b
  BY MovedRow
<1>3. s \in RowStates /\ left \in Nat /\ b \in {"none", "bound", "confirmed"}
  BY <1>1, SMT DEF RowMay, RowStates
<1>4. RowFits(w)'
  BY <1>1, <1>2, SMT DEF RowMay, RowFits, RowStates
<1>5. Covered(w) => Covered(w)'
  BY <1>2, SMT DEF RowMay, Covered
<1>6. (Past(w) => Past(w)') /\ (row[w].binding # "none" => row'[w].binding # "none")
  BY <1>2, SMT DEF RowMay, Past
<1> QED
  BY <1>3, <1>4, <1>5, <1>6

LEMMA OwnerKeeps ==
  ASSUME OwnerTyped, \A v \in Writes : RowFits(v), UNCHANGED lot, NEW w \in Writes,
         NEW s, NEW left, NEW b, RowMoves(w, s, left, b), RowMay(w, s, left, b)
  PROVE  /\ OwnerTyped'
         /\ \A v \in Writes :
              /\ RowFits(v)'
              /\ Covered(v) => Covered(v)'
              /\ Past(v) => Past(v)'
              /\ row[v].binding # "none" => row'[v].binding # "none"
<1>1. /\ s \in RowStates /\ left \in Nat /\ b \in {"none", "bound", "confirmed"}
      /\ RowFits(w)' /\ (Covered(w) => Covered(w)') /\ (Past(w) => Past(w)')
      /\ row[w].binding # "none" => row'[w].binding # "none"
  BY MayFits
<1>2. ASSUME NEW v \in Writes \ {w}
      PROVE  /\ row'[v] = row[v]
             /\ RowFits(v)' /\ (Covered(v) => Covered(v)') /\ (Past(v) => Past(v)')
  BY <1>2 DEF RowMoves, RowFits, Covered, Past
<1>3. OwnerTyped'
  <2>1. /\ account' = [occupied |-> account'.occupied, reserved |-> account'.reserved]
        /\ account'.occupied \in Int /\ account'.reserved \in Int
    BY <1>1, CapacityAssumption, SMT DEF RowMoves, OwnerTyped
  <2>2. row' = [v \in Writes |-> row'[v]]
    BY DEF RowMoves
  <2>3. lot' = [l \in Lots |-> lot'[l]]
    BY DEF OwnerTyped
  <2>4. ASSUME NEW v \in Writes
        PROVE  /\ RowIs(row'[v], row'[v].state, row'[v].remaining, row'[v].binding)
               /\ row'[v].state \in RowStates /\ row'[v].remaining \in Nat
               /\ row'[v].binding \in {"none", "bound", "confirmed"}
    <3>1. CASE v = w
      <4>1. row'[w].state = s /\ row'[w].remaining = left /\ row'[w].binding = b
        BY MovedRow
      <4>2. QED
        BY <1>1, <3>1, <4>1 DEF RowMoves
    <3>2. CASE v # w
      BY <1>2, <3>2 DEF OwnerTyped
    <3>3. QED
      BY <3>1, <3>2
  <2>5. QED
    BY <2>1, <2>2, <2>3, <2>4 DEF OwnerTyped, RowIs
<1> QED
  BY <1>1, <1>2, <1>3

\* The books balance after every move.
LEMMA BooksKeep ==
  ASSUME OwnerTyped, OwnerTyped', CapacityBooks, UNCHANGED lot, NEW w \in Writes, RowFits(w),
         NEW s, NEW left, NEW b, RowMoves(w, s, left, b), RowMay(w, s, left, b)
  PROVE  CapacityBooks'
<1> DEFINE held == [v \in Writes |-> row[v].remaining]
           later == [v \in Writes |-> row'[v].remaining]
           done == {v \in Writes : row[v].binding = "confirmed"}
           given == BaseBytes + SumOf(LotBytes, {l \in Lots : lot[l] # "prepared"})
<1>0. /\ row'[w].state = s /\ row'[w].remaining = left /\ row'[w].binding = b
      /\ IsFiniteSet(Writes) /\ IsFiniteSet(Lots)
      /\ \A v \in Writes \ {w} : row'[v] = row[v]
  <2>1. IsFiniteSet(Writes) /\ IsFiniteSet(Lots)
    BY CapacityAssumption
  <2>2. \A v \in Writes \ {w} : row'[v] = row[v]
    BY DEF RowMoves
  <2>3. QED
    BY <2>1, <2>2, MovedRow
<1>1. account'.reserved = SumOf(later, Writes) /\ later = held'
  <2>1. \A v \in Writes : held[v] \in Int /\ later[v] \in Int
    BY SMT DEF OwnerTyped
  <2>2. \A v \in Writes \ {w} : held[v] = later[v]
    BY DEF RowMoves
  <2>3. held[w] = row[w].remaining /\ later[w] = left
    BY <1>0
  <2> HIDE DEF held, later
  <2>4. SumOf(later, Writes) = SumOf(held, Writes) - held[w] + later[w]
    BY <1>0, <2>1, <2>2, SumUpdate, SMT
  <2>5. account'.reserved = account.reserved + left - row[w].remaining
    BY SMT DEF RowMoves
  <2>6. account.reserved = SumOf(held, Writes)
    BY DEF CapacityBooks, held
  <2>7. account.reserved \in Int
    BY DEF OwnerTyped
  <2>8. QED
    BY <2>1, <2>3, <2>4, <2>5, <2>6, <2>7, SMT DEF held, later
<1>2. account'.occupied = SumOf(Size, done')
  <2>1. account.occupied = SumOf(Size, done)
    BY DEF CapacityBooks
  <2>2. CASE b = "confirmed" /\ row[w].binding # "confirmed"
    <3>1. done' = done \cup {w} /\ w \notin done
      BY <1>0, <2>2, SMT
    <3>2. IsFiniteSet(done) /\ \A v \in done \cup {w} : Size[v] \in Int
      BY CapacityAssumption, FS_Subset, SMT
    <3>3. SumOf(Size, done \cup {w}) = SumOf(Size, done) + Size[w]
      BY <3>1, <3>2, SumAdd
    <3>4. account'.occupied = account.occupied + Size[w]
      BY <2>2, SMT DEF RowMoves
    <3>5. QED
      BY <2>1, <3>1, <3>3, <3>4
  <2>3. CASE ~(b = "confirmed" /\ row[w].binding # "confirmed")
    <3>1. row[w].binding = "confirmed" => b = "confirmed"
      BY SMT DEF RowMay
    <3>2. done' = done
      BY <1>0, <2>3, <3>1 DEF RowMoves
    <3>3. account'.occupied = account.occupied
      BY <2>3, SMT DEF RowMoves, OwnerTyped
    <3>4. QED
      BY <2>1, <3>2, <3>3
  <2>4. QED
    BY <2>2, <2>3
<1>3. account'.occupied + account'.reserved <= given
  <2>1. /\ account.occupied + account.reserved <= given
        /\ account.occupied \in Int /\ account.reserved \in Int
        /\ row[w].remaining \in Nat /\ Size[w] \in Nat /\ MaxBytes[w] \in Nat
    BY CapacityAssumption DEF CapacityBooks, Used, OwnerTyped
  <2>2. /\ account'.occupied = account.occupied +
             (IF b = "confirmed" /\ row[w].binding # "confirmed" THEN Size[w] ELSE 0)
        /\ account'.reserved = account.reserved + left - row[w].remaining
    BY SMT DEF RowMoves
  <2>3. given \in Int /\ Quota \in Int /\ Quota <= given
    <3> DEFINE owned == {l \in Lots : lot[l] # "prepared"}
               active == {l \in Lots : lot[l] = "active"}
    <3>1. active \in SUBSET owned /\ IsFiniteSet(owned) /\ \A l \in owned : LotBytes[l] \in Nat
      BY CapacityAssumption, FS_Subset
    <3>2. SumOf(LotBytes, active) \in Nat /\ SumOf(LotBytes, active) <= SumOf(LotBytes, owned)
      BY <3>1, SumPart
    <3>3. SumOf(LotBytes, owned) \in Nat
      BY <3>1, SumNat
    <3>4. QED
      BY <3>2, <3>3, CapacityAssumption, SMT DEF Quota
  <2> HIDE DEF given
  <2>4. row[w].state = "NONE" => row[w].remaining = 0 /\ row[w].binding = "none"
    BY DEF RowFits
  <2>5. QED
    BY <2>1, <2>2, <2>3, <2>4, SMT DEF RowMay, Fits
<1> QED
  BY <1>1, <1>2, <1>3 DEF CapacityBooks, Used

\* One call of the owner, as the callers see it.
LEMMA OwnerResult ==
  ASSUME CapacityInv, UNCHANGED lot, NEW w \in Writes, OwnerStep(w)
  PROVE  /\ OwnerTyped' /\ CapacityBooks'
         /\ \A v \in Writes :
              /\ RowFits(v)'
              /\ Covered(v) => Covered(v)'
              /\ Past(v) => Past(v)'
              /\ row[v].binding # "none" => row'[v].binding # "none"
<1>1. OwnerTyped /\ CapacityBooks /\ \A v \in Writes : RowFits(v)
  BY DEF CapacityInv
<1>2. PICK s, left, b : RowMoves(w, s, left, b) /\ RowMay(w, s, left, b)
  BY <1>1, OwnerMoves
<1>3. /\ OwnerTyped'
      /\ \A v \in Writes :
           /\ RowFits(v)'
           /\ Covered(v) => Covered(v)'
           /\ Past(v) => Past(v)'
           /\ row[v].binding # "none" => row'[v].binding # "none"
  BY <1>1, <1>2, OwnerKeeps
<1>4. CapacityBooks'
  BY <1>1, <1>2, <1>3, BooksKeep
<1> QED
  BY <1>3, <1>4

-----------------------------------------------------------------------------
(* The callers *)

LEMMA GoJob ==
  ASSUME JobTyped, NEW c \in Callers, NEW step, Go(c, step)
  PROVE  /\ JobTyped' /\ \A d \in Callers \ {c} : job'[d] = job[d]
         /\ job'[c].at = step
         /\ step # "idle" => job'[c].write = job[c].write
<1>1. CASE step = "idle"
  <2>1. job' = [job EXCEPT ![c] = [at |-> "idle", write |-> "none", publishes |-> FALSE]]
    BY <1>1 DEF Go, Idle
  <2>2. \A d \in Callers : job'[d] = IF d = c THEN Idle ELSE job[d]
    BY <2>1 DEF JobTyped, Idle
  <2>3. job' = [d \in Callers |-> job'[d]]
    BY <2>1 DEF JobTyped
  <2>4. Idle = [at |-> Idle.at, write |-> Idle.write, publishes |-> Idle.publishes] /\ Idle.at = "idle"
    BY SMT DEF Idle
  <2>5. QED
    BY <1>1, <2>2, <2>3, <2>4 DEF JobTyped
<1>2. CASE step # "idle"
  <2>1. job' = [job EXCEPT ![c].at = step]
    BY <1>2 DEF Go
  <2>2. QED
    BY <2>1, SMT DEF JobTyped
<1> QED
  BY <1>1, <1>2

LEMMA BeginJob ==
  ASSUME JobTyped, NEW c \in Callers, NEW w, NEW step, NEW publishes, Begin(c, w, step, publishes)
  PROVE  /\ JobTyped' /\ \A d \in Callers \ {c} : job'[d] = job[d]
         /\ job'[c].at = step /\ job'[c].write = w
BY SMT DEF JobTyped, Begin

\* What a step of one caller may touch.
CallerStep(c, w) ==
  /\ OwnerStep(w) /\ UNCHANGED <<lot, bucket>>
  /\ UNCHANGED flight \/ (Covered(w) /\ flight' = flight \cup {w})
  /\ JobTyped' /\ \A d \in Callers \ {c} : job'[d] = job[d]

\* The others still know what they knew.
LEMMA StepKeeps ==
  ASSUME CapacityInv, NEW c \in Callers, NEW w \in Writes, CallerStep(c, w), JobKnows(c)'
  PROVE  CapacityInv'
<1>1. /\ OwnerTyped' /\ CapacityBooks'
      /\ \A v \in Writes :
           /\ RowFits(v)'
           /\ Covered(v) => Covered(v)'
           /\ Past(v) => Past(v)'
           /\ row[v].binding # "none" => row'[v].binding # "none"
  BY OwnerResult DEF CallerStep
<1>2. ASSUME NEW d \in Callers \ {c}
      PROVE  JobKnows(d)'
  <2>1. JobKnows(d) /\ job'[d] = job[d]
    BY DEF CapacityInv, CallerStep
  <2>2. QED
    BY <1>1, <2>1 DEF JobKnows, Knows
<1>3. bucket' \cup flight' \subseteq Writes /\ \A v \in bucket' \cup flight' : Covered(v)'
  <2>1. bucket \cup flight \subseteq Writes /\ \A v \in bucket \cup flight : Covered(v)
    BY DEF CapacityInv
  <2>2. bucket' = bucket /\ (flight' = flight \/ (Covered(w) /\ flight' = flight \cup {w}))
    BY DEF CallerStep
  <2>3. QED
    BY <1>1, <2>1, <2>2
<1>4. JobTyped'
  BY DEF CallerStep
<1> QED
  BY <1>1, <1>2, <1>3, <1>4 DEF CapacityInv

\* The steps at which a caller relies on something.
Relying == {"admit", "intent", "bind", "claim", "inspect", "put"}

LEMMA KnowsNothing ==
  ASSUME NEW w \in Writes, NEW step, step \notin Relying
  PROVE  Knows(step, w) /\ Knows(step, w)'
BY DEF Knows, Relying

\* A caller goes to a step with what this step relies on.
LEMMA GoOn ==
  ASSUME CapacityInv, NEW c \in Callers, NEW w \in Writes, w = job[c].write, NEW step, Go(c, step),
         step = "idle" \/ Knows(step, w)',
         OwnerStep(w), UNCHANGED lot, UNCHANGED bucket,
         UNCHANGED flight \/ (Covered(w) /\ flight' = flight \cup {w})
  PROVE  CapacityInv'
<1>1. JobTyped
  BY DEF CapacityInv
<1>2. /\ JobTyped' /\ \A d \in Callers \ {c} : job'[d] = job[d]
      /\ job'[c].at = step
      /\ step # "idle" => job'[c].write = w
  BY <1>1, GoJob
<1>3. CallerStep(c, w)
  BY <1>2 DEF CallerStep
<1>4. JobKnows(c)'
  BY <1>2 DEF JobKnows
<1> QED
  BY <1>3, <1>4, StepKeeps

LEMMA BeginOn ==
  ASSUME CapacityInv, NEW c \in Callers, NEW w \in Writes, NEW step, NEW publishes,
         Begin(c, w, step, publishes), Knows(step, w)',
         UNCHANGED owner, UNCHANGED lot, UNCHANGED bucket, UNCHANGED flight
  PROVE  CapacityInv'
<1>1. JobTyped
  BY DEF CapacityInv
<1>2. /\ JobTyped' /\ \A d \in Callers \ {c} : job'[d] = job[d]
      /\ job'[c].at = step /\ job'[c].write = w
  BY <1>1, BeginJob
<1>3. CallerStep(c, w)
  <2>1. OwnerStep(w)
    BY DEF OwnerStep
  <2>2. QED
    BY <1>2, <2>1 DEF CallerStep
<1>4. JobKnows(c)'
  BY <1>2 DEF JobKnows
<1> QED
  BY <1>3, <1>4, StepKeeps

\* A caller that is under way has a write.
LEMMA HasWrite ==
  ASSUME CapacityInv, NEW c \in Callers, NEW step, step # "idle", At(c, step)
  PROVE  \E w \in Writes : w = job[c].write /\ Knows(step, w)
BY DEF CapacityInv, JobKnows, Knows, At

\* It goes to a step that relies on nothing.
LEMMA GoLight ==
  ASSUME CapacityInv, NEW c \in Callers, ~At(c, "idle"), NEW step, step \notin Relying, Go(c, step),
         OwnerStep(job[c].write), UNCHANGED lot, UNCHANGED bucket, UNCHANGED flight
  PROVE  CapacityInv'
<1>1. job[c].write \in Writes
  BY DEF CapacityInv, JobKnows, Knows, At
<1>2. PICK v \in Writes : v = job[c].write
  BY <1>1
<1>3. Knows(step, v)'
  BY KnowsNothing
<1> QED
  BY <1>2, <1>3, GoOn

-----------------------------------------------------------------------------
(* The steps *)

LEMMA ReserveKeeps ==
  ASSUME CapacityInv, NEW c \in Callers, Reserve(c)
  PROVE  CapacityInv'
<1>1. PICK w \in Writes : w = job[c].write
  BY HasWrite DEF Reserve
<1>2. UNCHANGED lot /\ UNCHANGED bucket /\ UNCHANGED flight
  BY DEF Reserve, Answer, others
<1>3. OwnerStep(w)
  BY <1>1 DEF Reserve, Answer, OwnerStep
<1>4. Knows("close", w)'
  BY KnowsNothing DEF Relying
<1>5. CASE w \in Generations
  <2>1. Knows("admit", w)'
    BY <1>5 DEF Knows
  <2>2. Go(c, "admit") \/ Go(c, "close")
    BY <1>1, <1>5 DEF Reserve, Answer
  <2>3. QED
    BY <1>1, <1>2, <1>3, <1>4, <2>1, <2>2, GoOn
<1>6. CASE w \notin Generations
  <2>1. Knows("bind", w)'
    BY <1>6 DEF Knows
  <2>2. Go(c, "bind") \/ Go(c, "idle")
    BY <1>1, <1>6 DEF Reserve, Answer
  <2>3. QED
    BY <1>1, <1>2, <1>3, <2>1, <2>2, GoOn
<1> QED
  BY <1>5, <1>6

LEMMA BindKeeps ==
  ASSUME CapacityInv, NEW c \in Callers, Bind(c)
  PROVE  CapacityInv'
<1>1. PICK w \in Writes : w = job[c].write /\ Knows("bind", w)
  BY HasWrite DEF Bind
<1>2. UNCHANGED lot /\ UNCHANGED bucket /\ UNCHANGED flight
  BY DEF Bind, Answer, others
<1>3. OwnerStep(w)
  BY <1>1 DEF Bind, Answer, OwnerStep
<1>4. OwnerTyped /\ OwnerTyped' /\ RowFits(w)' /\ (Past(w) => Past(w)')
  BY <1>2, <1>3, OwnerResult DEF CapacityInv
<1>5. CASE Go(c, "idle")
  BY <1>1, <1>2, <1>3, <1>5, GoOn
<1>6. CASE ~Go(c, "idle")
  <2>1. /\ BindObjects(w)
        /\ Go(c, IF w \in Attachments THEN "intent" ELSE IF w \in Media THEN "claim" ELSE "inspect")
    BY <1>1, <1>6 DEF Bind, Answer
  <2>2. row'[w].binding # "none"
    <3>1. Table(row) /\ Columns(row[w], row[w].state, row[w].remaining, row[w].binding, row[w].receipt)
      BY <1>4 DEF OwnerTyped, Table, Columns, RowIs
    <3>2. PICK b : b = IF row[w].binding = "none" THEN "bound" ELSE row[w].binding
      OBVIOUS
    <3>3. row' = [row EXCEPT ![w].binding = b]
      BY <2>1, <3>2 DEF BindObjects
    <3>4. Columns(row'[w], row[w].state, row[w].remaining, b, row[w].receipt)
      BY <3>1, <3>3, Column
    <3>5. QED
      BY <3>2, <3>4, SMT DEF Columns
  <2>3. w \in Attachments \/ w \in Media => w \notin Generations
    BY CapacityAssumption
  <2>4. CASE w \in Attachments
    <3>1. Knows("intent", w)'
      BY <2>2, <2>3, <2>4 DEF Knows
    <3>2. QED
      BY <1>1, <1>2, <1>3, <2>1, <2>4, <3>1, GoOn
  <2>5. CASE w \notin Attachments /\ w \in Media
    <3>1. Knows("claim", w)'
      BY <2>2 DEF Knows
    <3>2. QED
      BY <1>1, <1>2, <1>3, <2>1, <2>5, <3>1, GoOn
  <2>6. CASE w \notin Attachments /\ w \notin Media
    <3>1. w \in Generations
      BY <2>6 DEF Writes
    <3>2. Past(w)'
      BY <1>1, <1>4, <3>1 DEF Knows
    <3>3. Covered(w)'
      BY <1>4, <2>2, <3>2, SMT DEF OwnerTyped, RowFits, Past, Covered
    <3>4. Knows("inspect", w)'
      BY <3>3 DEF Knows
    <3>5. QED
      BY <1>1, <1>2, <1>3, <2>1, <2>6, <3>4, GoOn
  <2>7. QED
    BY <2>4, <2>5, <2>6
<1> QED
  BY <1>5, <1>6

LEMMA ClaimKeeps ==
  ASSUME CapacityInv, NEW c \in Callers, Claim(c)
  PROVE  CapacityInv'
<1>1. PICK w \in Writes : w = job[c].write /\ Knows("claim", w)
  BY HasWrite DEF Claim
<1>2. \/ /\ w \in Generations /\ Answer(c, Claims(w), ClaimDispatch(w), "dispatch", "close")
      \/ /\ w \in Attachments /\ Answer(c, Claims(w), ClaimDispatch(w), "inspect", "idle")
      \/ /\ w \in Media /\ Answer(c, Claims(w), ClaimDispatch(w), "put", "idle")
  BY <1>1 DEF Claim, Writes
<1>3. UNCHANGED lot /\ UNCHANGED bucket /\ UNCHANGED flight
  BY <1>2 DEF Answer, others
<1>4. OwnerStep(w)
  BY <1>2 DEF Answer, OwnerStep
<1>5. OwnerTyped /\ OwnerTyped' /\ RowFits(w)' /\ (row[w].binding # "none" => row'[w].binding # "none")
  BY <1>3, <1>4, OwnerResult DEF CapacityInv
<1>6. CASE Go(c, "idle")
  BY <1>1, <1>3, <1>4, <1>6, GoOn
<1>7. CASE w \in Generations
  <2>1. Knows("dispatch", w)' /\ Knows("close", w)'
    BY KnowsNothing DEF Relying
  <2>2. Go(c, "dispatch") \/ Go(c, "close")
    BY <1>2, <1>7, CapacityAssumption DEF Answer
  <2>3. QED
    BY <1>1, <1>3, <1>4, <2>1, <2>2, GoOn
<1>8. CASE ~Go(c, "idle") /\ w \notin Generations
  <2>1. Claims(w) /\ ClaimDispatch(w) /\ (Go(c, "inspect") \/ Go(c, "put"))
    BY <1>2, <1>8 DEF Answer
  <2>2. Past(w)'
    <3>1. Table(row) /\ Columns(row[w], row[w].state, row[w].remaining, row[w].binding, row[w].receipt)
      BY <1>5 DEF OwnerTyped, Table, Columns, RowIs
    <3>2. PICK s : s = IF row[w].state = "RESERVED" THEN "DISPATCHED" ELSE row[w].state
      OBVIOUS
    <3>3. row' = [row EXCEPT ![w].state = s]
      BY <2>1, <3>2 DEF ClaimDispatch
    <3>4. Columns(row'[w], s, row[w].remaining, row[w].binding, row[w].receipt)
      BY <3>1, <3>3, Column
    <3>5. QED
      BY <2>1, <3>2, <3>4, SMT DEF Columns, Claims, Past
  <2>3. row'[w].binding # "none"
    BY <1>1, <1>5, <1>8 DEF Knows
  <2>4. Covered(w)'
    BY <1>5, <2>2, <2>3, SMT DEF OwnerTyped, RowFits, Past, Covered
  <2>5. Knows("inspect", w)' /\ Knows("put", w)'
    BY <2>4 DEF Knows
  <2>6. QED
    BY <1>1, <1>3, <1>4, <2>1, <2>5, GoOn
<1> QED
  BY <1>6, <1>7, <1>8

\* Steps of a caller that tell it nothing new: they leave the owner alone or
\* make one of its calls, and go to a step that relies on nothing.
LEMMA LightKeeps ==
  ASSUME CapacityInv, NEW c \in Callers,
         \/ Verify(c) \/ Confirm(c) \/ ConfirmFile(c) \/ AbortUnstarted(c)
         \/ CloseBeforeDispatch(c) \/ BeginGenerationDispatch(c) \/ Dispatched(c)
         \/ Settle(c) \/ FindWrite(c) \/ CloseWrite(c) \/ Stop(c)
  PROVE  CapacityInv'
<1> DEFINE w == job[c].write
<1>0. ASSUME UNCHANGED owner PROVE OwnerStep(w)
  BY <1>0 DEF OwnerStep
<1> HIDE DEF w
<1> DEFINE Light == /\ ~At(c, "idle") /\ OwnerStep(w)
                    /\ UNCHANGED lot /\ UNCHANGED bucket /\ UNCHANGED flight
                    /\ \E step : step \notin Relying /\ Go(c, step)
<1>1. ASSUME Verify(c) PROVE Light
  <2>1. Go(c, "confirm") \/ Go(c, "idle")
    BY <1>1 DEF Verify
  <2>2. QED
    BY <1>0, <1>1, <2>1 DEF Verify, others, At, Relying
<1>2. ASSUME Confirm(c) PROVE Light
  <2>1. OwnerStep(w)
    BY <1>0, <1>2 DEF Confirm, Answer, OwnerStep, w
  <2>2. Go(c, "confirm_file") \/ Go(c, "close_write") \/ Go(c, "idle")
    BY <1>2 DEF Confirm, Answer
  <2>3. QED
    BY <1>2, <2>1, <2>2 DEF Confirm, Answer, others, At, Relying
<1>3. ASSUME ConfirmFile(c) PROVE Light
  BY <1>0, <1>3 DEF ConfirmFile, At, Relying
<1>4. ASSUME AbortUnstarted(c) PROVE Light
  <2>1. OwnerStep(w)
    BY <1>0, <1>4 DEF AbortUnstarted, Answer, OwnerStep, w
  <2>2. QED
    BY <1>4, <2>1 DEF AbortUnstarted, Answer, others, At, Relying
<1>5. ASSUME CloseBeforeDispatch(c) PROVE Light
  BY <1>0, <1>5 DEF CloseBeforeDispatch, factStep, owner, At, Relying
<1>6. ASSUME BeginGenerationDispatch(c) PROVE Light
  BY <1>0, <1>6 DEF BeginGenerationDispatch, factStep, owner, At, Relying
<1>7. ASSUME Dispatched(c) PROVE Light
  BY <1>0, <1>7 DEF Dispatched, factStep, owner, At, Relying
<1>8. ASSUME Settle(c) PROVE Light
  BY <1>0, <1>8 DEF Settle, factStep, owner, At, Relying
<1>9. ASSUME FindWrite(c) PROVE Light
  <2>1. Go(c, "idle") \/ Go(c, "abort") \/ Go(c, "close_write")
    BY <1>9 DEF FindWrite
  <2>2. QED
    BY <1>0, <1>9, <2>1 DEF FindWrite, others, At, Relying
<1>10. ASSUME CloseWrite(c) PROVE Light
  <2>1. OwnerStep(w)
    BY <1>0, <1>10 DEF CloseWrite, Answer, OwnerStep, w
  <2>2. QED
    BY <1>10, <2>1 DEF CloseWrite, Answer, others, At, Relying
<1>11. ASSUME Stop(c) PROVE Light
  BY <1>0, <1>11 DEF Stop, others, Relying
<1> QED
  <2>1. Light
    BY <1>1, <1>2, <1>3, <1>4, <1>5, <1>6, <1>7, <1>8, <1>9, <1>10, <1>11
  <2>2. QED
    BY <2>1, GoLight DEF w

\* Steps that begin the work on a write.
LEMMA BeginKeeps ==
  ASSUME CapacityInv, NEW c \in Callers, NEW w \in Writes,
         Upload(c, w) \/ Generate(c, w) \/ Reconcile(c, w) \/ Publish(c, w)
  PROVE  CapacityInv'
<1>1. Knows("reserve", w)' /\ Knows("settle", w)'
  BY KnowsNothing DEF Relying
<1>2. CASE Upload(c, w)
  BY <1>1, <1>2, BeginOn DEF Upload, others
<1>3. CASE Generate(c, w)
  BY <1>1, <1>3, BeginOn DEF Generate, factStep
<1>4. CASE Reconcile(c, w)
  BY <1>1, <1>4, BeginOn DEF Reconcile, factStep
<1>5. CASE Publish(c, w)
  <2>1. Past(w)'
    BY <1>5 DEF Publish, Past, owner
  <2>2. Knows("bind", w)'
    BY <2>1 DEF Knows
  <2>3. QED
    BY <1>5, <2>2, BeginOn DEF Publish, others
<1> QED
  BY <1>2, <1>3, <1>4, <1>5

LEMMA CreateFileIntentKeeps ==
  ASSUME CapacityInv, NEW c \in Callers, CreateFileIntent(c)
  PROVE  CapacityInv'
<1>1. PICK w \in Writes : w = job[c].write /\ Knows("intent", w)
  BY HasWrite DEF CreateFileIntent
<1>2. UNCHANGED owner /\ UNCHANGED lot /\ UNCHANGED bucket /\ UNCHANGED flight
  BY DEF CreateFileIntent
<1>3. OwnerStep(w)
  BY <1>2 DEF OwnerStep
<1>4. Knows("claim", w)' /\ Knows("abort", w)'
  BY <1>1, <1>2 DEF Knows, owner
<1>5. Go(c, "claim") \/ Go(c, "abort") \/ Go(c, "idle")
  BY DEF CreateFileIntent
<1> QED
  BY <1>1, <1>2, <1>3, <1>4, <1>5, GoOn

LEMMA InspectKeeps ==
  ASSUME CapacityInv, NEW c \in Callers, Inspect(c)
  PROVE  CapacityInv'
<1>1. PICK w \in Writes : w = job[c].write /\ Knows("inspect", w)
  BY HasWrite DEF Inspect
<1>2. UNCHANGED owner /\ UNCHANGED lot /\ UNCHANGED bucket /\ UNCHANGED flight
  BY DEF Inspect, others
<1>3. OwnerStep(w)
  BY <1>2 DEF OwnerStep
<1>4. Knows("confirm", w)' /\ Knows("put", w)'
  BY <1>1, <1>2 DEF Knows, Covered, owner
<1>5. Go(c, "confirm") \/ Go(c, "put")
  BY DEF Inspect
<1> QED
  BY <1>1, <1>2, <1>3, <1>4, <1>5, GoOn

LEMMA PutKeeps ==
  ASSUME CapacityInv, NEW c \in Callers, Put(c)
  PROVE  CapacityInv'
<1>1. PICK w \in Writes : w = job[c].write /\ Knows("put", w)
  BY HasWrite DEF Put
<1>2. UNCHANGED owner /\ UNCHANGED lot /\ UNCHANGED bucket
  BY DEF Put
<1>3. OwnerStep(w)
  BY <1>2 DEF OwnerStep
<1>4. Covered(w) /\ (UNCHANGED flight \/ flight' = flight \cup {w})
  BY <1>1 DEF Put, Knows
<1>5. Knows("verify", w)'
  BY KnowsNothing DEF Relying
<1> QED
  BY <1>1, <1>2, <1>3, <1>4, <1>5, GoOn DEF Put

LEMMA AdmitKeeps ==
  ASSUME CapacityInv, NEW c \in Callers, Admit(c)
  PROVE  CapacityInv'
<1>1. PICK w \in Writes : w = job[c].write /\ Knows("admit", w)
  BY HasWrite DEF Admit
<1>2. UNCHANGED owner /\ UNCHANGED lot /\ UNCHANGED bucket /\ UNCHANGED flight
  BY DEF Admit, others
<1>3. OwnerStep(w)
  BY <1>2 DEF OwnerStep
<1>4. Knows("claim", w)' /\ Knows("close", w)'
  BY <1>1 DEF Knows
<1> QED
  BY <1>1, <1>2, <1>3, <1>4, GoOn DEF Admit

\* Neither an activated lot nor one that ends takes back what was given.
LEMMA LotKeeps ==
  ASSUME CapacityInv, NEW l \in Lots, ActivateLotInTransaction(l) \/ ExpireLot(l)
  PROVE  CapacityInv'
<1> DEFINE owned == {k \in Lots : lot[k] # "prepared"}
           given == SumOf(LotBytes, owned)
           later == {k \in Lots : lot'[k] # "prepared"}
<1>1. UNCHANGED <<account, row, flight, bucket, job>>
  BY DEF ActivateLotInTransaction, ExpireLot
<1>2. lot = [k \in Lots |-> lot[k]]
  BY DEF CapacityInv, OwnerTyped
<1>3. lot' = [k \in Lots |-> lot'[k]] /\ lot'[l] # "prepared" /\ \A k \in Lots \ {l} : lot'[k] = lot[k]
  BY <1>2, SMT DEF ActivateLotInTransaction, ExpireLot
<1>4. OwnerTyped'
  BY <1>1, <1>3 DEF CapacityInv, OwnerTyped, RowIs
<1>5. CapacityBooks'
  <2>1. owned \in SUBSET later /\ IsFiniteSet(later) /\ \A k \in later : LotBytes[k] \in Nat
    BY <1>3, CapacityAssumption, FS_Subset
  <2>2. IsFiniteSet(owned) /\ \A k \in owned : LotBytes[k] \in Nat
    BY CapacityAssumption, FS_Subset
  <2>3. given \in Nat /\ SumOf(LotBytes, later) \in Nat
    BY <2>1, <2>2, SumNat
  <2>4. given <= SumOf(LotBytes, later)
    BY <2>1, SumPart
  <2>5. /\ account.occupied + account.reserved <= BaseBytes + given
        /\ account.occupied \in Int /\ account.reserved \in Int /\ BaseBytes \in Nat
    BY CapacityAssumption DEF CapacityInv, CapacityBooks, Used, OwnerTyped
  <2> HIDE DEF given, later
  <2>6. account.occupied + account.reserved <= BaseBytes + SumOf(LotBytes, later)
    BY <2>3, <2>4, <2>5, SMT
  <2>7. QED
    BY <1>1, <2>6 DEF CapacityInv, CapacityBooks, Used, later
<1>6. /\ JobTyped' /\ \A w \in Writes : RowFits(w)'
      /\ \A c \in Callers : JobKnows(c)'
      /\ bucket' \cup flight' \subseteq Writes /\ \A w \in bucket' \cup flight' : Covered(w)'
  BY <1>1 DEF CapacityInv, JobTyped, RowFits, JobKnows, Knows, Covered, Past
<1> QED
  BY <1>4, <1>5, <1>6 DEF CapacityInv

LEMMA LandKeeps ==
  ASSUME CapacityInv, NEW w \in Writes, Land(w)
  PROVE  CapacityInv'
<1>1. UNCHANGED <<account, row, lot, job>> /\ bucket' \cup flight' \subseteq bucket \cup flight
  BY DEF Land, owner
<1>2. OwnerTyped' /\ CapacityBooks' /\ JobTyped'
  BY <1>1 DEF CapacityInv, OwnerTyped, RowIs, CapacityBooks, Used, JobTyped
<1>3. (\A v \in Writes : RowFits(v)') /\ \A c \in Callers : JobKnows(c)'
  BY <1>1 DEF CapacityInv, RowFits, JobKnows, Knows, Covered, Past
<1>4. bucket' \cup flight' \subseteq Writes /\ \A v \in bucket' \cup flight' : Covered(v)'
  BY <1>1 DEF CapacityInv, Covered
<1> QED
  BY <1>2, <1>3, <1>4 DEF CapacityInv

-----------------------------------------------------------------------------
(* The theorems *)

LEMMA CapacityStarts ==
  ASSUME CapacityInit
  PROVE  CapacityInv
<1>1. /\ account = [occupied |-> 0, reserved |-> 0] /\ row = [w \in Writes |-> NoWrite]
      /\ lot = [l \in Lots |-> "prepared"] /\ job = [c \in Callers |-> Idle]
      /\ flight = {} /\ bucket = {}
  BY DEF CapacityInit
<1>2. OwnerTyped /\ \A w \in Writes : RowFits(w)
  BY <1>1, SMT DEF OwnerTyped, NoWrite, RowIs, RowStates, RowFits
<1>3. JobTyped /\ \A c \in Callers : JobKnows(c)
  BY <1>1, SMT DEF JobTyped, JobKnows, Idle
<1>4. CapacityBooks
  <2>1. IsFiniteSet(Writes) /\ BaseBytes \in Nat
    BY CapacityAssumption
  <2>2. SumOf([w \in Writes |-> row[w].remaining], Writes) = 0
    <3>1. \A w \in Writes : row[w].remaining = 0
      BY <1>1, SMT DEF NoWrite
    <3>2. QED
      BY <2>1, <3>1, SumZero
  <2>3. {w \in Writes : row[w].binding = "confirmed"} = {}
    BY <1>1, SMT DEF NoWrite
  <2>4. {l \in Lots : lot[l] # "prepared"} = {}
    BY <1>1, SMT
  <2>5. account.occupied = 0 /\ account.reserved = 0
    BY <1>1, SMT
  <2>6. account.occupied + account.reserved <= BaseBytes + 0
    BY <2>1, <2>5, SMT
  <2>7. QED
    BY <2>2, <2>3, <2>4, <2>5, <2>6, SumEmpty DEF CapacityBooks, Used
<1> QED
  BY <1>1, <1>2, <1>3, <1>4 DEF CapacityInv

LEMMA CapacityKeeps ==
  ASSUME CapacityInv, [CapacityNext]_capacityVars
  PROVE  CapacityInv'
<1>1. CASE UNCHANGED capacityVars
  BY <1>1 DEF capacityVars, CapacityInv, OwnerTyped, RowIs, JobTyped, RowFits, JobKnows, Knows,
              Covered, Past, CapacityBooks, Used
<1>2. CASE \E l \in Lots : ActivateLotInTransaction(l) \/ ExpireLot(l)
  BY <1>2, LotKeeps
<1>3. CASE \E w \in Writes : Land(w)
  BY <1>3, LandKeeps
<1>4. ASSUME NEW c \in Callers,
             \E w \in Writes : Upload(c, w) \/ Generate(c, w) \/ Reconcile(c, w) \/ Publish(c, w)
      PROVE  CapacityInv'
  BY <1>4, BeginKeeps
<1>5. ASSUME NEW c \in Callers,
             \/ Reserve(c) \/ Bind(c) \/ CreateFileIntent(c) \/ Claim(c)
             \/ Inspect(c) \/ Put(c) \/ Admit(c)
      PROVE  CapacityInv'
  BY <1>5, ReserveKeeps, BindKeeps, CreateFileIntentKeeps, ClaimKeeps, InspectKeeps, PutKeeps, AdmitKeeps
<1> QED
  BY <1>1, <1>2, <1>3, <1>4, <1>5, LightKeeps DEF CapacityNext

-----------------------------------------------------------------------------
(* What makes the use grow *)

\* Of all moves of a row only an admission adds to the use, and it fits.
LEMMA MoveFits ==
  ASSUME OwnerTyped, UNCHANGED lot, NEW w \in Writes, RowFits(w),
         NEW s, NEW left, NEW b, RowMoves(w, s, left, b), RowMay(w, s, left, b)
  PROVE  AdmitsWithinQuota
<1> DEFINE active == SumOf(LotBytes, {l \in Lots : lot[l] = "active"})
<1>1. /\ account.occupied \in Int /\ account.reserved \in Int /\ BaseBytes \in Nat
      /\ row[w].remaining \in Nat /\ Size[w] \in Nat /\ MaxBytes[w] \in Nat
  BY CapacityAssumption DEF OwnerTyped
<1>2. /\ account'.occupied = account.occupied +
           (IF b = "confirmed" /\ row[w].binding # "confirmed" THEN Size[w] ELSE 0)
      /\ account'.reserved = account.reserved + left - row[w].remaining
  BY SMT DEF RowMoves
<1>3. active \in Nat /\ Quota = BaseBytes + active
  <2>1. /\ IsFiniteSet({l \in Lots : lot[l] = "active"})
        /\ \A l \in {k \in Lots : lot[k] = "active"} : LotBytes[l] \in Nat
    BY CapacityAssumption, FS_Subset
  <2>2. QED
    BY <2>1, SumNat DEF Quota
<1>4. SumOf(LotBytes, {l \in Lots : lot'[l] = "active"}) = active
  OBVIOUS
<1> HIDE DEF active
<1>5. row[w].state = "NONE" => row[w].remaining = 0 /\ row[w].binding = "none"
  BY DEF RowFits
<1>6. Used' > Used => Used' <= BaseBytes + active
  BY <1>1, <1>2, <1>3, <1>5, SMT DEF RowMay, Fits, Used
<1> QED
  BY <1>4, <1>6 DEF AdmitsWithinQuota

\* A step leaves the account alone or is one call of its owner.
LEMMA AccountSteps ==
  ASSUME CapacityInv, CapacityNext
  PROVE  UNCHANGED account \/ (UNCHANGED lot /\ \E w \in Writes : OwnerStep(w))
<1>1. CASE \E l \in Lots : ActivateLotInTransaction(l) \/ ExpireLot(l)
  BY <1>1 DEF ActivateLotInTransaction, ExpireLot
<1>2. CASE \E w \in Writes : Land(w)
  BY <1>2 DEF Land, owner
<1>3. ASSUME NEW c \in Callers, NEW w \in Writes,
             Upload(c, w) \/ Generate(c, w) \/ Reconcile(c, w) \/ Publish(c, w)
      PROVE  UNCHANGED account
  BY <1>3 DEF Upload, Generate, Reconcile, Publish, factStep, owner
<1>4. ASSUME NEW c \in Callers,
             \/ CreateFileIntent(c) \/ Inspect(c) \/ Put(c) \/ Verify(c) \/ ConfirmFile(c)
             \/ Admit(c) \/ CloseBeforeDispatch(c) \/ BeginGenerationDispatch(c)
             \/ Dispatched(c) \/ Settle(c) \/ FindWrite(c) \/ Stop(c)
      PROVE  UNCHANGED account
  BY <1>4 DEF CreateFileIntent, Inspect, Put, Verify, ConfirmFile, Admit, CloseBeforeDispatch,
              BeginGenerationDispatch, Dispatched, Settle, FindWrite, Stop, factStep, owner
<1>5. ASSUME NEW c \in Callers,
             \/ Reserve(c) \/ Bind(c) \/ Claim(c) \/ Confirm(c)
             \/ AbortUnstarted(c) \/ CloseWrite(c)
      PROVE  UNCHANGED lot /\ \E w \in Writes : OwnerStep(w)
  <2>1. PICK w \in Writes : w = job[c].write
    BY <1>5, HasWrite DEF Reserve, Bind, Claim, Confirm, AbortUnstarted, CloseWrite
  <2>2. CASE Reserve(c)
    BY <2>1, <2>2 DEF Reserve, Answer, OwnerStep, others
  <2>3. CASE Bind(c)
    BY <2>1, <2>3 DEF Bind, Answer, OwnerStep, others
  <2>4. CASE Claim(c)
    <3>1. \E next, failed : Answer(c, Claims(w), ClaimDispatch(w), next, failed)
      BY <2>1, <2>4 DEF Claim, Writes
    <3>2. QED
      BY <3>1 DEF Answer, OwnerStep, others
  <2>5. CASE Confirm(c)
    BY <2>1, <2>5 DEF Confirm, Answer, OwnerStep, others
  <2>6. CASE AbortUnstarted(c)
    BY <2>1, <2>6 DEF AbortUnstarted, Answer, OwnerStep, others
  <2>7. CASE CloseWrite(c)
    BY <2>1, <2>7 DEF CloseWrite, Answer, OwnerStep, others
  <2>8. QED
    BY <1>5, <2>2, <2>3, <2>4, <2>5, <2>6, <2>7
<1> QED
  BY <1>1, <1>2, <1>3, <1>4, <1>5 DEF CapacityNext

LEMMA AdmissionFits ==
  ASSUME CapacityInv, [CapacityNext]_capacityVars
  PROVE  AdmitsWithinQuota
<1>1. CASE UNCHANGED account
  <2>1. account.occupied \in Int /\ account.reserved \in Int
    BY DEF CapacityInv, OwnerTyped
  <2>2. ~(Used' > Used)
    BY <1>1, <2>1, SMT DEF Used
  <2>3. QED
    BY <2>2 DEF AdmitsWithinQuota
<1>2. CASE UNCHANGED lot /\ \E w \in Writes : OwnerStep(w)
  <2>1. OwnerTyped /\ \A v \in Writes : RowFits(v)
    BY DEF CapacityInv
  <2>2. PICK w \in Writes : OwnerStep(w)
    BY <1>2
  <2>3. PICK s, left, b : RowMoves(w, s, left, b) /\ RowMay(w, s, left, b)
    BY <2>1, <2>2, OwnerMoves
  <2>4. QED
    BY <1>2, <2>1, <2>3, MoveFits
<1> QED
  BY <1>1, <1>2, AccountSteps DEF capacityVars

\* The account of an enterprise agrees with its reservations, stays within
\* the capacity that was ever its own and grows only within what is active at
\* that moment, for every number of writes, lots and callers, however their
\* transactions interleave and wherever they stop.
THEOREM CapacityBalances == CapacitySpec => CapacityKept
<1>1. CapacityInit => CapacityInv
  BY CapacityStarts
<1>2. CapacityInv /\ [CapacityNext]_capacityVars => CapacityInv'
  BY CapacityKeeps
<1>3. CapacityInv => CapacityBooks
  BY DEF CapacityInv
<1>4. CapacityInv /\ [CapacityNext]_capacityVars => [AdmitsWithinQuota]_capacityVars
  BY AdmissionFits
<1> QED
  BY <1>1, <1>2, <1>3, <1>4, PTL DEF CapacitySpec, CapacityKept

\* Every object that exists or may still appear is paid for: its bytes are
\* occupied, or reserved by a dispatched write that nothing can release.
THEOREM StoredStaysCovered == CapacitySpec => []StoredIsCovered
<1>1. CapacityInit => CapacityInv
  BY CapacityStarts
<1>2. CapacityInv /\ [CapacityNext]_capacityVars => CapacityInv'
  BY CapacityKeeps
<1>3. CapacityInv => StoredIsCovered
  <2> SUFFICES ASSUME CapacityInv, NEW w \in bucket \cup flight
               PROVE  \/ row[w].binding = "confirmed"
                      \/ /\ row[w].binding = "bound" /\ row[w].state = "DISPATCHED"
                         /\ row[w].remaining >= Size[w]
    BY DEF StoredIsCovered
  <2>1. w \in Writes /\ Covered(w)
    BY DEF CapacityInv
  <2>2. RowFits(w) /\ MaxBytes[w] \in Nat /\ Size[w] \in Nat
    BY <2>1, CapacityAssumption DEF CapacityInv
  <2>3. QED
    BY <2>1, <2>2, SMT DEF Covered, RowFits
<1> QED
  BY <1>1, <1>2, <1>3, PTL DEF CapacitySpec

=============================================================================
