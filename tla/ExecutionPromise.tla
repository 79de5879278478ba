-------------------------- MODULE ExecutionPromise --------------------------
(***************************************************************************)
(* What the software-work runner promises to the adapters above it: the     *)
(* work of an execution ID is handed to the executor at most once, and an   *)
(* answer for that ID is the outcome of that one run, given only to the     *)
(* request it was run for.                                                  *)
(***************************************************************************)
EXTENDS Naturals

CONSTANTS IDs,     \* execution IDs
          Prints,  \* request fingerprints
          NoPrint

VARIABLES runs,    \* runs[id]: how often the work of id was started
          ranFor,  \* ranFor[id]: the fingerprint of the request it was started for
          answers  \* outcomes returned to callers

vars == <<runs, ranFor, answers>>

Init ==
  /\ runs = [id \in IDs |-> 0]
  /\ ranFor = [id \in IDs |-> NoPrint]
  /\ answers = {}

Start(id, p) ==
  /\ runs[id] = 0
  /\ runs' = [runs EXCEPT ![id] = 1]
  /\ ranFor' = [ranFor EXCEPT ![id] = p]
  /\ UNCHANGED answers

Answer(id, p, via) ==
  /\ runs[id] = 1
  /\ ranFor[id] = p
  /\ answers' = answers \cup {[id |-> id, print |-> p, out |-> 1, via |-> via]}
  /\ UNCHANGED <<runs, ranFor>>

Next ==
  \E id \in IDs, p \in Prints :
    \/ Start(id, p)
    \/ \E via \in {"owner", "replay"} : Answer(id, p, via)

Spec == Init /\ [][Next]_vars
=============================================================================
