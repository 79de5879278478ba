--------------------------- MODULE MCCommerceGate ---------------------------
(* Instances of CommerceGate for TLC: one execution slot, two processes, the *)
(* first with two calls at a time.                                           *)
EXTENDS CommerceGate, TLC

CONSTANTS x1, p1, p2, c1, c2, c3

MCProcessOf == c1 :> p1 @@ c2 :> p1 @@ c3 :> p2
MCSymmetry == Permutations({c1, c2})
=============================================================================
