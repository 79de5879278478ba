-------------------------- MODULE MCPrivateIngress --------------------------
(* PrivateIngress for TLC: two challenge bodies, two uploads and two         *)
(* deletions compete for the first handoff; all uploads carry one content.   *)
EXTENDS PrivateIngress, TLC

CONSTANTS h1, h2, t1, t2, u1, u2, u3, d1, d2, d3

MCTerms == h1 :> {t1, t2} @@ h2 :> {t1}
MCHandoffOf == u1 :> h1 @@ u2 :> h1 @@ u3 :> h2 @@ d1 :> h1 @@ d2 :> h1 @@ d3 :> h2
MCContentOf == u1 :> "c1" @@ u2 :> "c1" @@ u3 :> "c1"
=============================================================================
