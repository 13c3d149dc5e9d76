-------------------------- MODULE MCChargeRecovery --------------------------
(* A charge of two periods funded by a member and one of a single period       *)
(* funded by the enterprise balance, two paid sources claimed through two      *)
(* operation ids, and transfers in both directions decided at fresh and at     *)
(* stale versions.                                                             *)
EXTENDS ChargeRecovery

MCIntent ==
  [c \in Charges |->
     IF c = "c1" THEN [member |-> "m1", funding |-> "member_allocated", quantity |-> 2]
     ELSE [member |-> "m2", funding |-> "enterprise_unallocated", quantity |-> 1]]

MCGrantQuantity == [s \in Sources |-> IF s = "s1" THEN 3 ELSE 2]

MCTransferCommands ==
  {[member |-> "m1", action |-> "allocate", quantity |-> 2, expectedVersion |-> 0],
   [member |-> "m1", action |-> "reclaim", quantity |-> 1, expectedVersion |-> 1],
   [member |-> "m1", action |-> "reclaim", quantity |-> 2, expectedVersion |-> 3]}

=============================================================================
