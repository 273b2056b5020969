--------------------------- MODULE MCRelayService ---------------------------
(* Small instances of RelayService for TLC. *)
EXTENDS RelayService, TLC

\* The object kinds: a keyframe may open a group, a cursor batch may not.
BoundaryShapes == {[kind |-> "Media", random_access |-> TRUE],
                   [kind |-> "Cursor", random_access |-> FALSE]}
KeyframeShapes == {[kind |-> "Media", random_access |-> TRUE]}

\* The subscription starts.
LiveStart == {[at |-> "Live", value |-> 0]}
EveryStart == {[at |-> "Live", value |-> 0],
               [at |-> "OldestRetained", value |-> 0],
               [at |-> "Sequence", value |-> 1]}

TailStarts == {[at |-> "Live", value |-> 0], [at |-> "Sequence", value |-> 1]}

Symmetry == Permutations(Epochs)
SessionSymmetry == Symmetry \cup Permutations(Sessions)
=============================================================================
