---------------------------- MODULE MCKeyDelivery ----------------------------
(* Small instances of KeyDelivery for TLC. *)
EXTENDS KeyDelivery, TLC

Symmetry == Permutations(Viewers)
=============================================================================
