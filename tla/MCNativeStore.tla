---------------------------- MODULE MCNativeStore ----------------------------
(* Small instances of NativeStore for TLC. *)
EXTENDS NativeStore, TLC

\* The object kinds that matter to group boundaries, and one kind only.
BoundaryShapes == {[kind |-> "Media", random_access |-> TRUE],
                   [kind |-> "Cursor", random_access |-> FALSE]}
KeyframeShapes == {[kind |-> "Media", random_access |-> TRUE]}

\* Epochs and keys are only compared, never ordered.
Symmetry == Permutations(Epochs) \cup Permutations(KeyIds)
=============================================================================
