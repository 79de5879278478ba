--------------------------- MODULE MCSoftwareWork ---------------------------
(* SoftwareWork for TLC: two processes, the second with one handler. *)
EXTENDS SoftwareWork, TLC

CONSTANTS p1, p2, h1, h2, h3

MCProcessOf == (h1 :> p1) @@ (h2 :> p1) @@ (h3 :> p2)
=============================================================================
