----------------------------- MODULE PaidEffect -----------------------------
(***************************************************************************)
(* What the platform promises of an external effect that costs points: the  *)
(* price is held before the effect may happen, it is charged only for an    *)
(* effect that happened, and it is given back only when the effect has not  *)
(* happened and never will.  The ledgers, the fact rows and the attempts    *)
(* that carry an effect out implement this.                                  *)
(***************************************************************************)
CONSTANT Effects  \* identities of external effects

VARIABLES
  charge,  \* what became of the price of each effect
  effect   \* whether the provider has done the work

paidVars == <<charge, effect>>

PaidInit ==
  /\ charge = [a \in Effects |-> "none"]
  /\ effect = [a \in Effects |-> FALSE]

Hold(a) ==
  /\ charge[a] = "none"
  /\ charge' = [charge EXCEPT ![a] = "held"]
  /\ UNCHANGED effect

Happen(a) ==
  /\ charge[a] = "held"
  /\ effect' = [effect EXCEPT ![a] = TRUE]
  /\ UNCHANGED charge

Charge(a) ==
  /\ charge[a] = "held" /\ effect[a]
  /\ charge' = [charge EXCEPT ![a] = "charged"]
  /\ UNCHANGED effect

\* With or without a hold; nothing may happen from here on.
Refund(a) ==
  /\ charge[a] \in {"none", "held"} /\ ~effect[a]
  /\ charge' = [charge EXCEPT ![a] = "refunded"]
  /\ UNCHANGED effect

PaidNext == \E a \in Effects : Hold(a) \/ Happen(a) \/ Charge(a) \/ Refund(a)

PaidSpec == PaidInit /\ [][PaidNext]_paidVars

=============================================================================
