-------------------------- MODULE MCSoftwareUpdate --------------------------
(* Instances of SoftwareUpdate for TLC: releases 1, 2, 3 of which 1 and 2    *)
(* have the same security revision and 3 a higher one.                       *)
EXTENDS SoftwareUpdate

MCRevision == [r \in Releases |-> IF r < 3 THEN 1 ELSE 2]
=============================================================================
