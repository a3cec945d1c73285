------------------------------- MODULE MCCanteen -------------------------------
(* Instances of CanteenSystem and its requirements for TLC. *)
EXTENDS CanteenInvariant, TLC

Symmetry ==
  Permutations(Slots) \cup Permutations(ProviderOrders) \cup Permutations(Tokens)

==============================================================================
