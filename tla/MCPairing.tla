------------------------------ MODULE MCPairing ------------------------------
(* Small instances of Pairing for TLC: two viewers behind one address. *)
EXTENDS Pairing, TLC

CONSTANTS v1, v2

MCViewerOf == 1 :> v1 @@ 2 :> v2

MCSourceOf == 1 :> "address" @@ 2 :> "address"
=============================================================================
