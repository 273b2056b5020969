-------------------------- MODULE MCViewerSession --------------------------
(* Small instances of ViewerSession for TLC: the lists the file may hold. *)
EXTENDS ViewerSession

Fresh == [genuine |-> TRUE, from |-> 0, until |-> 1, revokes |-> FALSE]
Revoking == [genuine |-> TRUE, from |-> 0, until |-> 2, revokes |-> TRUE]
Forged == [genuine |-> FALSE, from |-> 0, until |-> 2, revokes |-> TRUE]
Overlong == [genuine |-> TRUE, from |-> 0, until |-> 3, revokes |-> TRUE]

SignedLists == {Fresh, Revoking, Forged, Overlong}
=============================================================================
