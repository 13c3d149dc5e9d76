------------------------- MODULE MCImageGeneration -------------------------
(* One image and two attempts that may overlap; a limit that is changed once, *)
(* two months, and a balance for one image that arrives at any time.          *)
EXTENDS ImageGeneration, TLC

MCPayer == ("g1" :> "ann")

MCMaxTokens == [g \in {} |-> [prompt |-> 1, completion |-> 1]]

MCImagePoints == ("g1" :> 1)

MCGrantQuantity == ("s1" :> 1)

MCLimitCommands ==
  {[member |-> "ann", target |-> 1, expectedVersion |-> 0],
   [member |-> "ann", target |-> 2, expectedVersion |-> 1]}

=============================================================================
