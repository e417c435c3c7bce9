------------------------ MODULE MCSubscriptionStore ------------------------
(* SubscriptionStore for TLC: channels and removal calls are interchangeable. *)
EXTENDS SubscriptionStore, TLC

Symmetry == Permutations(Channel) \cup Permutations(Remover)
=============================================================================
