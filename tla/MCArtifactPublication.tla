----------------------- MODULE MCArtifactPublication -----------------------
(* ArtifactPublication for TLC: two workers with a call each.  The outcomes  *)
(* of both executions have the same bytes, which is the hard case for store  *)
(* and locator; their artifacts differ in their media type.                  *)
EXTENDS ArtifactPublication, TLC

CONSTANTS x1, x2, w1, w2, c1, c2

MCWorkerOf == c1 :> w1 @@ c2 :> w2
Descriptor(n, m) == [digest |-> n, media |-> m]
MCReportOf == x1 :> Descriptor(1, "report") @@ x2 :> Descriptor(1, "report")
MCArtifactOf == x1 :> Descriptor(2, "tar") @@ x2 :> Descriptor(2, "zip")
=============================================================================
