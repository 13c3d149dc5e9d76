--------------------------- MODULE MCStoreService ---------------------------
\* One store, a plain member, and two charges that may meet at one version.
EXTENDS StoreService, TLC

CONSTANT m1

MCIntent ==
  [c \in Charges |-> [member |-> m1, quantity |-> 1, funding |-> "member_allocated"]]

MCGrantQuantity == [s \in Sources |-> 2]

MCTransferCommands ==
  {[member |-> m1, action |-> "allocate", quantity |-> 2, expectedVersion |-> 0]}

\* Charges some request has come with.
Known == {c \in Charges : row[c].state # "none" \/ \E p \in Callers : call[p] # Idle /\ Of(p) = c}

Requests == {p \in Callers : call[p] # Idle}

Settling == {p \in Callers \cup Loops : claimed[p] # <<>>}

\* Writes of the store row that no charge made.
Edits == store.version - 1 - Cardinality({c \in Charges : row[c].state = "succeeded"})

\* What is explored: everything for one charge; for two, both requests at once
\* or one process that settles, with nobody else writing the store or its
\* assignments.
MCBound ==
  \/ Cardinality(Known) <= 1
  \/ /\ Edits = 0 /\ assigned = Members
     /\ Cardinality(Requests) + 2 * Cardinality(Settling) <= 2

\* Two requests are alike, and two charges are.
MCSymmetry == Permutations(Callers) \cup Permutations(Charges)

=============================================================================
