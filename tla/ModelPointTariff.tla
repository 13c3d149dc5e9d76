-------------------------- MODULE ModelPointTariff --------------------------
(***************************************************************************)
(* The retail price of a model call in AI points                            *)
(* (internal/aicapability/model_point_pricing.go).  The same formula prices *)
(* the token limits a call is reserved for and the tokens it really used.   *)
(***************************************************************************)
EXTENDS Integers

CONSTANTS
  InputRate, OutputRate,  \* points per Scale prompt and completion tokens
  Scale                   \* one million in the code

ASSUME TariffAssumption ==
  /\ InputRate \in Nat \ {0}
  /\ OutputRate \in Nat \ {0}
  /\ Scale \in Nat \ {0}

\* ModelPointTariff.Points: the sum rounded up to whole points.
Points(prompt, completion) ==
  (prompt * InputRate + completion * OutputRate + (Scale - 1)) \div Scale

\* Usage that modelPointTerminal accepts for a call with these token limits.
UsageWithin(maxPrompt, maxCompletion) ==
  {u \in (0..maxPrompt) \X (0..maxCompletion) : u[1] + u[2] > 0}

=============================================================================
