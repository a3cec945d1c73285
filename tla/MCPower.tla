-------------------------------- MODULE MCPower --------------------------------
(* Instances of PowerController for TLC. *)
EXTENDS PowerController, TLC

Symmetry == Permutations(Services)

==============================================================================
