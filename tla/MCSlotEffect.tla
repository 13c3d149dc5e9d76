---------------------------- MODULE MCSlotEffect ----------------------------
(* Quotes and limit of the run, and the symmetry of attempts and contents.    *)
EXTENDS SlotEffect, TLC

MCQuoteOne == [s \in Slots |-> 1]

\* Three attempts at one slot of an organization's run, and two attempts at the
\* two slots of a personal run, which share the usage limit.
MCPlans == {[organization |-> TRUE, slots |-> {"m1"}, attempts |-> 3],
            [organization |-> FALSE, slots |-> {"m1", "m2"}, attempts |-> 2]}

MCPersonal == {[organization |-> FALSE, slots |-> {"m1"}, attempts |-> 2]}

MCSymmetry == Permutations(Attempts) \cup Permutations(Outputs)

=============================================================================
