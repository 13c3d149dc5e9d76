------------------------- MODULE MCModelInvocation -------------------------
(* Two model calls and an image of one member, over the turn of a month; a    *)
(* limit is set once, to one of two values, before or between the calls, and  *)
(* the grants together exceed int64.                                          *)
EXTENDS ModelInvocation

MCPayer == [a \in {"g1", "g2", "g3"} |-> "ann"]

MCMaxTokens == [a \in {"g1", "g2"} |-> [prompt |-> 1, completion |-> 1]]

MCImagePoints == [a \in {"g3"} |-> 1]

MCGrantQuantity == [s \in {"s1", "s2"} |-> IF s = "s1" THEN 5 ELSE 1]

MCLimitCommands ==
  {[member |-> "ann", target |-> 4, expectedVersion |-> 0],
   [member |-> "ann", target |-> 3, expectedVersion |-> 0]}

MCDemands == {{"g1", "g2"}, {"g1", "g3"}}
=============================================================================
