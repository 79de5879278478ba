---------------------------- MODULE SandboxProofs ----------------------------
(***************************************************************************)
(* The safety properties of the execution stack, for any calls, digests and *)
(* devices and any bounds: capacity, clean success, exclusive leases and a  *)
(* Close that has drained what it closes.                                   *)
(***************************************************************************)
EXTENDS Sandbox, FiniteSetTheorems, TLAPS

\* The time limits, in seconds, of the leaves that name no prover.
USE SMTT(30), ZenonT(20)

-----------------------------------------------------------------------------
(* The inductive invariant. *)

\* The places of a run inside the engine, and those where its container may exist.
Inside == {"absent", "created", "running", "cleaning"}
Attending == {"created", "running", "cleaning"}

Types ==
  /\ process \in {"down", "open"} \cup Closing /\ maxActive \in ActiveLimits
  /\ pc \in [Calls -> Places]
  /\ route \in [Calls -> {"supervised", "gpu", "ready"}]
  /\ digest \in [Calls -> Digests \cup {NoDigest}]
  /\ devices \in [Calls -> SUBSET Devices]
  /\ done \in [Calls -> BOOLEAN] /\ ok \in [Calls -> BOOLEAN]
  /\ container \in [Digests -> {"absent", "created", "running", "stopped"}]
  /\ attached \in [Digests -> SUBSET Devices]
  /\ workspace \subseteq Digests /\ unclean \subseteq Digests /\ silent \subseteq Digests
  /\ faults \in 0..MaxFaults
  /\ slots \in Nat
  /\ leased \in [Devices -> Digests \cup {NoDigest}]

\* Which call may be where; only a run that ended well is good, and a process that is
\* down has no calls.
Placed ==
  \A c \in Calls :
    /\ pc[c] = "idle" => digest[c] = NoDigest
    /\ pc[c] # "idle" => process # "down" /\ (route[c] = "ready" <=> digest[c] = NoDigest)
    /\ pc[c] = "probing" => route[c] = "ready"
    /\ pc[c] \in Inside => route[c] # "ready"
    /\ pc[c] = "freeing" => route[c] = "supervised"
    /\ ok[c] => pc[c] \in {"cleaning", "leaving", "freeing"}

\* The slots are those of the calls that came through the supervisor.
Slots ==
  /\ IsFiniteSet(InSupervisor)
  /\ slots = Cardinality(InSupervisor)
  /\ slots <= MaxSupervised

\* Backend.active has the digests of the runs inside, one run for each.
Active ==
  /\ IsFiniteSet(active) /\ Cardinality(active) <= maxActive
  /\ \A c \in Calls : pc[c] \in Inside => digest[c] \in active
  /\ \A d \in active : \E c \in Calls : pc[c] \in Inside /\ digest[c] = d
  /\ \A c1, c2 \in Calls :
       pc[c1] \in Inside /\ pc[c2] \in Inside /\ digest[c1] = digest[c2] => c1 = c2

\* A device is leased to the digest of the one call that holds it.
Leasing ==
  /\ \A c \in Calls : devices[c] # {} => route[c] = "gpu" /\ pc[c] \notin {"idle", "entering"}
  /\ \A c \in Calls : \A g \in devices[c] : leased[g] = digest[c]
  /\ \A g \in Devices : leased[g] # NoDigest => \E c \in Calls : g \in devices[c]
  /\ \A c1, c2 \in Calls : \A g \in devices[c1] \cap devices[c2] : c1 = c2

\* While the process lives, a task of a digest whose cleanup was not reported as failed
\* belongs to the run of that digest, and so does anything else that exists for it, but
\* for what a failed preparation left; the container of a run has the run's devices.
Attended ==
  /\ process # "down" => \A d \in Digests :
       /\ container[d] \in {"running", "stopped"} =>
            d \in unclean \/ \E c \in Calls : pc[c] \in Attending /\ digest[c] = d
       /\ container[d] # "absent" \/ d \in workspace =>
            d \in unclean \cup silent \/ \E c \in Calls : pc[c] \in Attending /\ digest[c] = d
  /\ \A c \in Calls : pc[c] \in Attending => attached[digest[c]] = devices[c]

\* The engine is closed when nobody is inside, and so is the supervisor.
Drained ==
  /\ process \in {"engineClosed", "closed"} => InBackend = {}
  /\ process = "closed" => InSupervisor = {}

SandboxInv ==
  /\ Types /\ Placed /\ Slots /\ Active /\ Leasing /\ Attended /\ Drained
  /\ LeasesExclusive

-----------------------------------------------------------------------------
(* What a step does to the calls. *)

Others(c) ==
  \A o \in Calls \ {c} :
    /\ pc'[o] = pc[o] /\ route'[o] = route[o] /\ digest'[o] = digest[o]
    /\ devices'[o] = devices[o] /\ ok'[o] = ok[o]

Same(c) == route'[c] = route[c] /\ digest'[c] = digest[c] /\ devices'[c] = devices[c]

\* No call moves.
Still ==
  /\ UNCHANGED <<pc, route, digest, devices, ok, slots, leased, active>>
  /\ process' = "down" => process = "down"
  /\ maxActive' = maxActive \/ (process = "down" /\ maxActive' \in ActiveLimits)

Enters(c) ==
  /\ pc[c] = "idle" /\ pc'[c] = "entering"
  /\ route'[c] = "ready" <=> digest'[c] = NoDigest
  /\ devices'[c] = devices[c] /\ ok'[c] = ok[c]
  /\ process # "down" /\ UNCHANGED <<process, maxActive, slots, leased, active>>

Admitted(c) ==
  /\ pc[c] = "entering" /\ pc'[c] = "door" /\ Same(c) /\ ok'[c] = ok[c]
  /\ route[c] = "supervised" /\ process = "open"
  /\ slots < MaxSupervised /\ slots' = slots + 1
  /\ UNCHANGED <<process, maxActive, leased, active>>

Acquires(c, g) ==
  /\ pc[c] = "entering" /\ pc'[c] = "door" /\ ok'[c] = ok[c]
  /\ route[c] = "gpu" /\ route'[c] = route[c] /\ digest'[c] = digest[c]
  /\ devices'[c] = {g} /\ leased[g] = NoDigest
  /\ leased' = [leased EXCEPT ![g] = digest[c]]
  /\ UNCHANGED <<process, maxActive, slots, active>>

\* A call goes on, at the same layers.
Passes(c) ==
  /\ Same(c) /\ UNCHANGED <<process, maxActive, slots, leased, active>>
  /\ \/ pc[c] = "entering" /\ pc'[c] = "door" /\ route[c] = "ready"
     \/ pc[c] = "door" /\ pc'[c] = "probing" /\ route[c] = "ready" /\ BackendOpen
     \/ pc[c] \in {"door", "probing"} /\ pc'[c] = "leaving"
     \/ pc[c] = "absent" /\ pc'[c] = "created"
     \/ pc[c] = "created" /\ pc'[c] \in {"running", "cleaning"}
     \/ pc[c] = "running" /\ pc'[c] = "cleaning"
     \/ pc[c] = "leaving" /\ pc'[c] = "freeing" /\ route[c] = "supervised"
  /\ ok'[c] = ok[c] \/ pc'[c] = "cleaning"

Obtains(c) ==
  /\ pc[c] = "door" /\ pc'[c] = "absent" /\ Same(c) /\ ok'[c] = ok[c]
  /\ route[c] # "ready" /\ BackendOpen
  /\ Cardinality(active) < maxActive /\ digest[c] \notin active
  /\ active' = active \cup {digest[c]}
  /\ UNCHANGED <<process, maxActive, slots, leased>>

Leaves(c) ==
  /\ pc[c] \in {"absent", "cleaning"} /\ pc'[c] = "leaving" /\ Same(c)
  /\ ok'[c] \in {ok[c], FALSE}
  /\ ok'[c] /\ pc[c] = "cleaning" => container'[digest[c]] = "absent" /\ digest[c] \notin workspace'
  /\ active' = active \ {digest[c]}
  /\ UNCHANGED <<process, maxActive, slots, leased>>

Returns(c) ==
  /\ pc'[c] = "idle" /\ digest'[c] = NoDigest /\ devices'[c] = {} /\ ok'[c] = FALSE
  /\ UNCHANGED <<process, maxActive, active>>
  /\ \/ pc[c] = "entering" /\ UNCHANGED <<slots, leased>>
     \/ pc[c] = "leaving" /\ route[c] = "ready" /\ UNCHANGED <<slots, leased>>
     \/ pc[c] = "freeing" /\ slots' = slots - 1 /\ UNCHANGED leased
     \/ /\ pc[c] = "leaving" /\ route[c] = "gpu" /\ UNCHANGED slots
        /\ leased' = [g \in Devices |->
                        IF g \in devices[c] /\ leased[g] = digest[c] THEN NoDigest ELSE leased[g]]

CallMoves(c) ==
  \/ Enters(c) \/ Admitted(c) \/ (\E g \in Devices : Acquires(c, g))
  \/ Passes(c) \/ Obtains(c) \/ Leaves(c) \/ Returns(c)

\* A run fails in its preparation and leaves something.
Undone(c) == PrepareLeaves(c) \/ CreateLeaves(c) \/ CreateCancelled(c)

\* A call's step changes only the call, in one of these ways.
LEMMA StepMoves ==
  ASSUME Types, Placed, NEW c \in Calls, Step(c)
  PROVE  Others(c) /\ CallMoves(c)
  <1> USE DEF Others, daemon, layers, runtime, reports
  <1>0. /\ pc \in [Calls -> Places] /\ route \in [Calls -> {"supervised", "gpu", "ready"}]
        /\ digest \in [Calls -> Digests \cup {NoDigest}] /\ devices \in [Calls -> SUBSET Devices]
        /\ ok \in [Calls -> BOOLEAN]
        /\ pc[c] = "cleaning" => digest[c] \in Digests
        /\ container \in [Digests -> {"absent", "created", "running", "stopped"}]
    BY Zenon DEF Types, Placed, Inside
  <1>1. SupervisorAdmits(c) => Others(c) /\ Admitted(c)
    BY <1>0, Zenon DEF SupervisorAdmits, Admitted, Goto, Same, SupervisorPermits, SupervisorOpen
  <1>2. SupervisorProbes(c) => Others(c) /\ Passes(c)
    BY <1>0, Zenon DEF SupervisorProbes, Passes, Goto, Same
  <1>3. EntryRefused(c) => Others(c) /\ Returns(c)
    BY <1>0 DEF EntryRefused, Returns, Goto, Return
  <1>4. BackendAdmits(c) => Others(c) /\ Obtains(c)
    BY <1>0, Zenon DEF BackendAdmits, Obtains, Goto, Same, BackendPermits
  <1>5. BackendProbes(c) => Others(c) /\ Passes(c)
    BY <1>0, Zenon DEF BackendProbes, Passes, Goto, Same
  <1>6. BackendRefuses(c) => Others(c) /\ Passes(c)
    BY <1>0, Zenon DEF BackendRefuses, Passes, Goto, Same
  <1>7. RunFails(c) => Others(c) /\ Leaves(c)
    BY <1>0, Zenon DEF RunFails, Leaves, Goto, LeaveBackend, Same
  <1>8. Undone(c) => Others(c) /\ Leaves(c)
    BY <1>0, Zenon DEF Undone, PrepareLeaves, CreateLeaves, CreateCancelled, Leaves, Goto, LeaveBackend, Same
  <1>9. NewContainer(c) => Others(c) /\ Passes(c)
    BY <1>0, Zenon DEF NewContainer, Passes, Goto, Same
  <1>10. StartTask(c) => Others(c) /\ Passes(c)
    BY <1>0, Zenon DEF StartTask, Passes, Goto, Same
  <1>11. StartFails(c) => Others(c) /\ Passes(c)
    BY <1>0, Zenon DEF StartFails, Passes, Goto, Same
  <1>12. RunEnds(c) => Others(c) /\ Passes(c)
    BY <1>0, Zenon DEF RunEnds, Passes, Goto, Same
  <1>13. Cleanup(c) => Others(c) /\ Leaves(c)
    BY <1>0, Zenon DEF Cleanup, Leaves, Goto, LeaveBackend, Same
  <1>14. CleanupFails(c) => Others(c) /\ Leaves(c)
    BY <1>0, Zenon DEF CleanupFails, Leaves, Goto, LeaveBackend, Same
  <1>15. ProbeEnds(c) => Others(c) /\ Passes(c)
    BY <1>0, Zenon DEF ProbeEnds, Passes, Goto, Same
  <1>16. SupervisorForgets(c) => Others(c) /\ Passes(c)
    BY <1>0, Zenon DEF SupervisorForgets, Passes, Goto, Same
  <1>17. SupervisorFrees(c) => Others(c) /\ Returns(c)
    BY <1>0, Zenon DEF SupervisorFrees, Returns, Goto, Return
  <1>18. ClientReleases(c) => Others(c) /\ Returns(c)
    BY <1>0, Zenon DEF ClientReleases, Returns, Goto, Return
  <1>19. ProbeReturns(c) => Others(c) /\ Returns(c)
    BY <1>0 DEF ProbeReturns, Returns, Goto, Return
  <1>20. ASSUME NEW g \in Devices, ClientAcquires(c, g)
        PROVE  Others(c) /\ Acquires(c, g)
    BY <1>0, <1>20, Zenon DEF ClientAcquires, Acquires, Goto
  <1> QED
    BY <1>1, <1>2, <1>3, <1>4, <1>5, <1>6, <1>7, <1>8, <1>9, <1>10, <1>11, <1>12, <1>13, <1>14, <1>15, <1>16, <1>17, <1>18, <1>19, <1>20, Zenon DEF Step, Undone, CallMoves

\* So does Enter; nothing else but the end of the process moves a call.
LEMMA NextMoves ==
  ASSUME Types, Placed, [Next]_vars
  PROVE  Still \/ Gone \/ \E c \in Calls : Others(c) /\ CallMoves(c)
  <1>1. CASE Open \/ CloseSupervisor \/ Close \/ OperatorCleans \/ UNCHANGED vars
    BY <1>1, Zenon DEF Open, CloseSupervisor, Close, CloseBackend, CloseEngine, CloseReturn, OperatorCleans,
                vars, daemon, layers, Still
  <1>2. CASE Exit \/ Crash
    BY <1>2, Zenon DEF Exit, Crash
  <1>3. ASSUME NEW c \in Calls, Step(c)
        PROVE  Others(c) /\ CallMoves(c)
    BY <1>3, StepMoves, Zenon
  <1>4. ASSUME NEW c \in Calls, Cancel(c)
        PROVE  Still
    BY <1>4, Zenon DEF Cancel, daemon, layers, Still
  <1>5. ASSUME NEW c \in Calls, NEW r \in {"supervised", "gpu", "ready"},
               NEW d \in Digests \cup {NoDigest}, Enter(c, r, d)
        PROVE  Others(c) /\ Enters(c)
    BY <1>5, Zenon DEF Types, Enter, Goto, daemon, layers, Others, Enters
  <1>6. ASSUME NEW d \in Digests, TaskExits(d)
        PROVE  Still
    BY <1>6, Zenon DEF TaskExits, daemon, layers, Still
  <1> QED
    BY <1>1, <1>2, <1>3, <1>4, <1>5, <1>6, Zenon DEF Next, CallMoves

-----------------------------------------------------------------------------
(* The layers. *)

\* A call that frees a slot has one.
LEMMA SlotTaken ==
  ASSUME Types, Placed, Slots, NEW c \in Calls, pc[c] = "freeing"
  PROVE  slots >= 1
  <1>1. c \in InSupervisor
    BY Zenon DEF Placed, InSupervisor
  <1>2. Cardinality(InSupervisor) \in Nat /\ Cardinality(InSupervisor) # 0
    BY <1>1, FS_CardinalityType, FS_EmptySet, Zenon DEF Slots
  <1> QED
    BY <1>2 DEF Slots

LEMMA PlacedStep ==
  ASSUME Types, Placed, [Next]_vars
  PROVE  Placed'
  <1>1. CASE Still
    BY <1>1, Zenon DEF Still, Placed
  <1>2. CASE Gone
    BY <1>2, Zenon DEF Gone, Placed, Inside
  <1>3. ASSUME NEW c \in Calls, Others(c), CallMoves(c)
        PROVE  Placed'
    <2>1. process' = process
      BY <1>3, Zenon DEF CallMoves, Enters, Admitted, Acquires, Passes, Obtains, Leaves, Returns
    <2>2. ASSUME NEW o \in Calls, o # c
          PROVE  /\ pc'[o] = pc[o] /\ route'[o] = route[o] /\ digest'[o] = digest[o] /\ ok'[o] = ok[o]
      BY <1>3, <2>2, Zenon DEF Others
    <2>3. /\ pc'[c] = "idle" => digest'[c] = NoDigest
          /\ pc'[c] # "idle" => process # "down" /\ (route'[c] = "ready" <=> digest'[c] = NoDigest)
          /\ pc'[c] = "probing" => route'[c] = "ready"
          /\ pc'[c] \in Inside => route'[c] # "ready"
          /\ pc'[c] = "freeing" => route'[c] = "supervised"
          /\ ok'[c] => pc'[c] \in {"cleaning", "leaving", "freeing"}
      <3>1. CASE Enters(c)
        BY <3>1, Zenon DEF Enters, Placed, Inside
      <3>2. CASE Admitted(c) \/ \E g \in Devices : Acquires(c, g)
        BY <3>2, Zenon DEF Admitted, Acquires, Same, Placed, Inside
      <3>3. CASE Passes(c)
        BY <3>3, Zenon DEF Passes, Same, Placed, Inside
      <3>4. CASE Obtains(c)
        BY <3>4, Zenon DEF Obtains, Same, Placed, Inside
      <3>5. CASE Leaves(c)
        BY <3>5, Zenon DEF Leaves, Same, Placed, Inside
      <3>6. CASE Returns(c)
        BY <3>6, Zenon DEF Returns, Inside
      <3> QED
        BY <1>3, <3>1, <3>2, <3>3, <3>4, <3>5, <3>6, Zenon DEF CallMoves
    <2> QED
      BY <2>1, <2>2, <2>3 DEF Placed
  <1> QED
    BY <1>1, <1>2, <1>3, NextMoves, Zenon

\* How the calls inside the supervisor change.
LEMMA SupervisorStep ==
  ASSUME Types, Placed, NEW c \in Calls, Others(c), CallMoves(c)
  PROVE  \/ Admitted(c) /\ c \notin InSupervisor /\ InSupervisor' = InSupervisor \cup {c}
         \/ /\ pc[c] = "freeing" /\ slots' = slots - 1
            /\ c \in InSupervisor /\ InSupervisor' = InSupervisor \ {c}
         \/ slots' = slots /\ InSupervisor' = InSupervisor
  <1> DEFINE In(place, r) == place \notin {"idle", "entering"} /\ r = "supervised"
  <1>1. \A o \in Calls : o \in InSupervisor <=> In(pc[o], route[o])
    BY Zenon DEF InSupervisor
  <1>2. \A o \in Calls : o \in InSupervisor' <=> In(pc'[o], route'[o])
    BY Zenon DEF InSupervisor
  <1>3. InSupervisor \subseteq Calls /\ InSupervisor' \subseteq Calls
    BY Zenon DEF InSupervisor
  <1>4. \A o \in Calls \ {c} : o \in InSupervisor' <=> o \in InSupervisor
    BY <1>1, <1>2, Zenon DEF Others
  <1>5. CASE Admitted(c)
    <2>1. c \notin InSupervisor /\ c \in InSupervisor'
      BY <1>1, <1>2, <1>5, Zenon DEF Admitted, Same
    <2> QED
      BY <1>3, <1>4, <1>5, <2>1, Zenon
  <1>6. CASE Returns(c) /\ pc[c] = "freeing"
    <2>1. c \in InSupervisor /\ c \notin InSupervisor' /\ slots' = slots - 1
      BY <1>1, <1>2, <1>6, Zenon DEF Returns, Placed
    <2> QED
      BY <1>3, <1>4, <1>6, <2>1, Zenon
  <1>7. ASSUME slots' = slots, In(pc[c], route[c]) <=> In(pc'[c], route'[c])
        PROVE  InSupervisor' = InSupervisor
    BY <1>1, <1>2, <1>3, <1>4, <1>7, Zenon
  <1>8. Enters(c) => slots' = slots /\ (In(pc[c], route[c]) <=> In(pc'[c], route'[c]))
    BY Zenon DEF Enters
  <1>9. ASSUME NEW g \in Devices, Acquires(c, g)
        PROVE  slots' = slots /\ (In(pc[c], route[c]) <=> In(pc'[c], route'[c]))
    BY <1>9, Zenon DEF Acquires
  <1>10. Passes(c) => slots' = slots /\ (In(pc[c], route[c]) <=> In(pc'[c], route'[c]))
    BY Zenon DEF Passes, Same
  <1>11. Obtains(c) \/ Leaves(c) => slots' = slots /\ (In(pc[c], route[c]) <=> In(pc'[c], route'[c]))
    BY Zenon DEF Obtains, Leaves, Same
  <1>12. Returns(c) /\ pc[c] # "freeing" => slots' = slots /\ (In(pc[c], route[c]) <=> In(pc'[c], route'[c]))
    BY Zenon DEF Returns
  <1> HIDE DEF In
  <1> QED
    BY <1>5, <1>6, <1>7, <1>8, <1>9, <1>10, <1>11, <1>12, Zenon DEF CallMoves

LEMMA SlotsStep ==
  ASSUME Types, Placed, Slots, [Next]_vars
  PROVE  Slots'
  <1>1. CASE Still
    BY <1>1, Zenon DEF Still, Slots, InSupervisor
  <1>2. CASE Gone
    <2>1. InSupervisor' = {} /\ slots' = 0
      BY <1>2, Zenon DEF Gone, InSupervisor
    <2> QED
      BY <2>1, FS_EmptySet, BoundsAssumption DEF Slots
  <1>3. ASSUME NEW c \in Calls, Others(c), CallMoves(c)
        PROVE  Slots'
    <2>1. IsFiniteSet(InSupervisor) /\ Cardinality(InSupervisor) \in Nat
      BY FS_CardinalityType, Zenon DEF Slots
    <2>2. CASE Admitted(c) /\ c \notin InSupervisor /\ InSupervisor' = InSupervisor \cup {c}
      <3>1. IsFiniteSet(InSupervisor') /\ Cardinality(InSupervisor') = Cardinality(InSupervisor) + 1
        BY <2>1, <2>2, FS_AddElement, Zenon
      <3>2. slots < MaxSupervised /\ slots' = slots + 1
        BY <2>2, Zenon DEF Admitted
      <3> QED
        BY <2>1, <3>1, <3>2, BoundsAssumption DEF Slots
    <2>3. CASE slots' = slots - 1 /\ c \in InSupervisor /\ InSupervisor' = InSupervisor \ {c}
      <3>1. IsFiniteSet(InSupervisor') /\ Cardinality(InSupervisor') = Cardinality(InSupervisor) - 1
        BY <2>1, <2>3, FS_RemoveElement, Zenon
      <3> QED
        BY <2>1, <2>3, <3>1, BoundsAssumption DEF Slots
    <2>4. CASE slots' = slots /\ InSupervisor' = InSupervisor
      BY <2>4, Zenon DEF Slots
    <2> QED
      BY <1>3, <2>2, <2>3, <2>4, SupervisorStep, Zenon
  <1> QED
    BY <1>1, <1>2, <1>3, NextMoves, Zenon

\* Backend.active follows the runs: one enters under its mutex, one leaves, or the runs
\* inside stay the same.
LEMMA InsideStep ==
  ASSUME Types, Placed, NEW c \in Calls, Others(c), CallMoves(c)
  PROVE  \/ Obtains(c)
         \/ Leaves(c)
         \/ active' = active /\ (pc'[c] \in Inside <=> pc[c] \in Inside) /\ (pc[c] \in Inside => digest'[c] = digest[c])
  <1>1. Enters(c) \/ Admitted(c) =>
          active' = active /\ pc'[c] \notin Inside /\ pc[c] \notin Inside
    BY Zenon DEF Enters, Admitted, Inside
  <1>2. ASSUME NEW g \in Devices, Acquires(c, g)
        PROVE  active' = active /\ pc'[c] \notin Inside /\ pc[c] \notin Inside
    BY <1>2, Zenon DEF Acquires, Inside
  <1>3. Passes(c) => active' = active /\ (pc'[c] \in Inside <=> pc[c] \in Inside) /\ digest'[c] = digest[c]
    BY Zenon DEF Passes, Same, Inside
  <1>4. Returns(c) => active' = active /\ pc'[c] \notin Inside /\ pc[c] \notin Inside
    BY Zenon DEF Returns, Inside
  <1> QED
    BY <1>1, <1>2, <1>3, <1>4, Zenon DEF CallMoves

LEMMA ActiveStep ==
  ASSUME Types, Placed, Active, [Next]_vars
  PROVE  Active'
  <1>1. CASE Still
    <2>1. CASE maxActive' = maxActive
      BY <1>1, <2>1, Zenon DEF Still, Active
    <2>2. CASE process = "down" /\ maxActive' \in ActiveLimits
      <3>1. \A c \in Calls : pc[c] \notin Inside
        BY <2>2, Zenon DEF Placed, Inside
      <3>2. active' = {} /\ \A c \in Calls : pc'[c] \notin Inside
        BY <1>1, <3>1, Zenon DEF Still, Active
      <3>3. Cardinality(active') = 0 /\ IsFiniteSet(active') /\ maxActive' \in Nat
        BY <2>2, <3>2, FS_EmptySet, BoundsAssumption, Zenon
      <3>4. Cardinality(active') <= maxActive'
        BY <3>3
      <3> QED
        BY <3>2, <3>3, <3>4, Zenon DEF Active
    <2> QED
      BY <1>1, <2>1, <2>2, Zenon DEF Still
  <1>2. CASE Gone
    <2>1. active' = {} /\ \A c \in Calls : pc'[c] \notin Inside
      BY <1>2, Zenon DEF Gone, Inside
    <2>2. maxActive' \in Nat
      BY <1>2, BoundsAssumption, Zenon DEF Gone, Types
    <2> QED
      BY <2>1, <2>2, FS_EmptySet DEF Active
  <1>3. ASSUME NEW c \in Calls, Others(c), CallMoves(c)
        PROVE  Active'
    <2>0. \A o \in Calls \ {c} : pc'[o] = pc[o] /\ digest'[o] = digest[o]
      BY <1>3, Zenon DEF Others
    <2>1. IsFiniteSet(active) /\ Cardinality(active) \in Nat /\ maxActive \in Nat
      BY FS_CardinalityType, BoundsAssumption, Zenon DEF Active, Types
    <2>9. maxActive' = maxActive
      BY <1>3, Zenon DEF CallMoves, Enters, Admitted, Acquires, Passes, Obtains, Leaves, Returns
    <2>2. CASE Obtains(c)
      <3>1. /\ active' = active \cup {digest[c]} /\ digest[c] \notin active /\ digest'[c] = digest[c]
            /\ pc[c] \notin Inside /\ pc'[c] \in Inside /\ Cardinality(active) < maxActive
        BY <2>2, Zenon DEF Obtains, Same, Inside
      <3>2. IsFiniteSet(active') /\ Cardinality(active') = Cardinality(active) + 1
        BY <2>1, <3>1, FS_AddElement, Zenon
      <3>3. Cardinality(active') <= maxActive'
        BY <2>1, <2>9, <3>1, <3>2
      <3> QED
        BY <2>0, <3>1, <3>2, <3>3 DEF Active
    <2>3. CASE Leaves(c)
      <3>1. /\ active' = active \ {digest[c]} /\ pc[c] \in Inside /\ pc'[c] \notin Inside
        BY <2>3, Zenon DEF Leaves, Inside
      <3>2. IsFiniteSet(active') /\ Cardinality(active') <= Cardinality(active)
        BY <2>1, <3>1, FS_Subset, Zenon
      <3>3. Cardinality(active') <= maxActive'
        BY <2>1, <2>9, <3>2, FS_CardinalityType DEF Active
      <3> QED
        BY <2>0, <3>1, <3>2, <3>3 DEF Active
    <2>4. CASE /\ active' = active /\ (pc'[c] \in Inside <=> pc[c] \in Inside)
               /\ (pc[c] \in Inside => digest'[c] = digest[c])
      <3>1. \A o \in Calls : /\ pc'[o] \in Inside <=> pc[o] \in Inside
                             /\ pc[o] \in Inside => digest'[o] = digest[o]
        BY <2>0, <2>4, Zenon
      <3> QED
        BY <2>4, <2>9, <3>1 DEF Active
    <2> QED
      BY <1>3, <2>2, <2>3, <2>4, InsideStep, Zenon
  <1> QED
    BY <1>1, <1>2, <1>3, NextMoves, Zenon

\* A device changes hands only when it is free, and goes back when its holder returns.
LEMMA LeasingStep ==
  ASSUME Types, Placed, Leasing, [Next]_vars
  PROVE  Leasing'
  <1>0. /\ leased \in [Devices -> Digests \cup {NoDigest}] /\ devices \in [Calls -> SUBSET Devices]
        /\ digest \in [Calls -> Digests \cup {NoDigest}]
    BY Zenon DEF Types
  <1>1. CASE Still
    BY <1>1, Zenon DEF Still, Leasing
  <1>2. CASE Gone
    BY <1>2, Zenon DEF Gone, Leasing
  <1>3. ASSUME NEW c \in Calls, Others(c), CallMoves(c)
        PROVE  Leasing'
    <2>0. \A o \in Calls \ {c} : /\ pc'[o] = pc[o] /\ route'[o] = route[o] /\ digest'[o] = digest[o]
                                 /\ devices'[o] = devices[o]
      BY <1>3, Zenon DEF Others
    <2>1. ASSUME NEW g \in Devices, Acquires(c, g)
          PROVE  Leasing'
      <3>1. /\ leased[g] = NoDigest /\ leased'[g] = digest[c] /\ devices'[c] = {g} /\ devices[c] = {}
            /\ \A h \in Devices \ {g} : leased'[h] = leased[h]
            /\ route'[c] = "gpu" /\ pc'[c] = "door" /\ digest'[c] = digest[c]
        BY <1>0, <2>1, Zenon DEF Acquires, Leasing
      <3>2. \A o \in Calls \ {c} : g \notin devices[o]
        <4>1. \A o \in Calls : devices[o] # {} => digest[o] # NoDigest
          BY Zenon DEF Leasing, Placed
        <4> QED
          BY <3>1, <4>1 DEF Leasing
      <3> QED
        BY <1>0, <2>0, <3>1, <3>2 DEF Leasing
    <2>2. ASSUME leased' = leased, devices'[c] = devices[c],
                 devices[c] # {} => /\ route'[c] = route[c] /\ digest'[c] = digest[c]
                                    /\ pc'[c] \notin {"idle", "entering"}
          PROVE  Leasing'
      <3>1. \A o \in Calls : /\ devices'[o] = devices[o]
                             /\ devices[o] # {} => /\ route'[o] = route[o] /\ digest'[o] = digest[o]
                                                   /\ pc'[o] \notin {"idle", "entering"}
        BY <2>0, <2>2, Zenon DEF Leasing
      <3> QED
        BY <2>2, <3>1 DEF Leasing
    <2>3. CASE Enters(c) \/ Admitted(c)
      BY <2>2, <2>3, Zenon DEF Enters, Admitted, Same, Leasing
    <2>4. CASE Passes(c)
      BY <2>2, <2>4, Zenon DEF Passes, Same, Leasing
    <2>5. CASE Obtains(c) \/ Leaves(c)
      BY <2>2, <2>5, Zenon DEF Obtains, Leaves, Same
    <2>6. CASE Returns(c) /\ leased' = leased
      <3>1. devices[c] = {} \/ (pc[c] = "leaving" /\ route[c] = "gpu")
        BY <2>6, Zenon DEF Returns, Leasing, Placed
      <3>2. CASE devices[c] = {}
        BY <2>2, <2>6, <3>2, Zenon DEF Returns
      <3>3. CASE pc[c] = "leaving" /\ route[c] = "gpu" /\ devices[c] # {}
        <4>1. PICK g \in devices[c] : TRUE
          BY <3>3, Zenon
        <4>2. leased[g] = digest[c] /\ digest[c] # NoDigest /\ g \in Devices
          BY <1>0, <3>3, <4>1, Zenon DEF Leasing, Placed
        <4>3. leased'[g] = NoDigest
          BY <2>6, <3>3, <4>1, <4>2, Zenon DEF Returns
        <4> QED
          BY <2>6, <4>2, <4>3, Zenon
      <3> QED
        BY <3>1, <3>2, <3>3, Zenon
    <2>7. CASE Returns(c) /\ leased' # leased
      <3>1. /\ devices'[c] = {}
            /\ \A g \in Devices : leased'[g] = IF g \in devices[c] /\ leased[g] = digest[c] THEN NoDigest ELSE leased[g]
        BY <2>7, Zenon DEF Returns
      <3>2. \A g \in Devices : leased'[g] = IF g \in devices[c] THEN NoDigest ELSE leased[g]
        BY <3>1, Zenon DEF Leasing
      <3>3. \A o \in Calls \ {c} : \A g \in devices[o] : g \in Devices /\ g \notin devices[c]
        BY <1>0, Zenon DEF Leasing
      <3> QED
        BY <1>0, <2>0, <3>1, <3>2, <3>3 DEF Leasing
    <2> QED
      BY <1>3, <2>1, <2>3, <2>4, <2>5, <2>6, <2>7, Zenon DEF CallMoves
  <1> QED
    BY <1>1, <1>2, <1>3, NextMoves, Zenon

\* The engine is closed only when it is empty, and nobody enters it then.
LEMMA DrainedStep ==
  ASSUME Types, Placed, Drained, [Next]_vars
  PROVE  Drained'
  <1>1. ASSUME NEW c \in Calls, Others(c), CallMoves(c)
        PROVE  Drained'
    <2>1. process' = process
      BY <1>1, Zenon DEF CallMoves, Enters, Admitted, Acquires, Passes, Obtains, Leaves, Returns
    <2>2. InBackend' \subseteq InBackend \/ BackendOpen
      <3>1. pc'[c] \in Engine => pc[c] \in Engine \/ BackendOpen
        BY <1>1, Zenon DEF CallMoves, Enters, Admitted, Acquires, Passes, Obtains, Leaves, Returns, Engine
      <3> QED
        BY <1>1, <3>1, Zenon DEF InBackend, Others
    <2>3. InSupervisor' \subseteq InSupervisor \/ process = "open"
      BY <1>1, SupervisorStep, Zenon DEF Admitted
    <2> QED
      BY <2>1, <2>2, <2>3, Zenon DEF Drained, BackendOpen
  <1>2. CASE Gone
    BY <1>2, Zenon DEF Gone, Drained
  <1>3. ASSUME Still, process' = process \/ process' \in {"open", "supervisorClosed", "backendClosed"}
        PROVE  Drained'
    BY <1>3, Zenon DEF Still, Drained, InBackend, InSupervisor
  <1>4. CASE CloseEngine
    BY <1>4, Zenon DEF CloseEngine, Drained, InBackend
  <1>5. CASE CloseReturn
    BY <1>5 DEF CloseReturn, Drained, InBackend, InSupervisor
  <1>6. Still => \/ process' = process \/ process' \in {"open", "supervisorClosed", "backendClosed"}
                 \/ CloseEngine \/ CloseReturn
    <2>1. Open \/ CloseSupervisor \/ CloseBackend => process' \in {"open", "supervisorClosed", "backendClosed"}
      BY Zenon DEF Open, CloseSupervisor, CloseBackend
    <2>2. OperatorCleans \/ UNCHANGED vars => process' = process
      BY Zenon DEF OperatorCleans, vars, daemon
    <2>3. Gone => process' = "down"
      BY Zenon DEF Gone
    <2>4. \A c \in Calls : Cancel(c) => process' = process
      BY Zenon DEF Cancel, daemon
    <2>5. \A d \in Digests : TaskExits(d) => process' = process
      BY Zenon DEF TaskExits, daemon
    <2>6. \A c \in Calls, r \in {"supervised", "gpu", "ready"}, d \in Digests \cup {NoDigest} :
            Enter(c, r, d) => process' = process
      BY Zenon DEF Enter, daemon
    <2>7. \A c \in Calls : CallMoves(c) => process' = process
      BY ZenonT(60) DEF CallMoves, Enters, Admitted, Acquires, Passes, Obtains, Leaves, Returns
    <2>8. \A c \in Calls : Step(c) => CallMoves(c)
      BY StepMoves, Zenon
    <2>9. Still /\ process' = "down" => process = "down"
      BY Zenon DEF Still
    <2> QED
      BY <2>1, <2>2, <2>3, <2>4, <2>5, <2>6, <2>7, <2>8, <2>9, Zenon DEF Next, Close, Exit, Crash
  <1> QED
    BY <1>1, <1>2, <1>3, <1>4, <1>5, <1>6, NextMoves, Zenon

-----------------------------------------------------------------------------
(* Containers and workspaces. *)

\* A step that touches neither them nor the calls that attend them.
Quiet ==
  /\ UNCHANGED <<container, attached, workspace, unclean, silent>>
  /\ process' = "down" <=> process = "down"
  /\ \A o \in Calls :
       /\ pc'[o] \in Attending <=> pc[o] \in Attending
       /\ pc[o] \in Attending => digest'[o] = digest[o] /\ devices'[o] = devices[o]

LEMMA RuntimeStep ==
  ASSUME Types, Placed, [Next]_vars
  PROVE  \/ Quiet \/ Open \/ OperatorCleans \/ Gone
         \/ \E d \in Digests : TaskExits(d)
         \/ \E c \in Calls : NewContainer(c) \/ StartTask(c) \/ Undone(c) \/ Cleanup(c) \/ CleanupFails(c)
  <1> USE DEF daemon, layers, runtime, reports, Attending, Quiet
  <1>0. /\ pc \in [Calls -> Places] /\ digest \in [Calls -> Digests \cup {NoDigest}]
        /\ devices \in [Calls -> SUBSET Devices]
    BY Zenon DEF Types
  <1>1. CASE CloseSupervisor \/ Close \/ UNCHANGED vars
    BY <1>1, Zenon DEF CloseSupervisor, Close, CloseBackend, CloseEngine, CloseReturn, vars
  <1>2. Exit \/ Crash => Gone
    BY Zenon DEF Exit, Crash
  <1>3. ASSUME NEW c \in Calls, Cancel(c)
        PROVE  Quiet
    BY <1>3, Zenon DEF Cancel
  <1>4. ASSUME NEW c \in Calls, NEW r \in {"supervised", "gpu", "ready"},
               NEW d \in Digests \cup {NoDigest}, Enter(c, r, d)
        PROVE  Quiet
    BY <1>0, <1>4, Zenon DEF Enter, Goto
  <1>5. ASSUME NEW c \in Calls, NEW g \in Devices, ClientAcquires(c, g)
        PROVE  Quiet
    BY <1>0, <1>5, Zenon DEF ClientAcquires, Goto
  <1>6. ASSUME NEW c \in Calls, SupervisorAdmits(c)
        PROVE  Quiet
    BY <1>0, <1>6, Zenon DEF SupervisorAdmits, Goto
  <1>7. ASSUME NEW c \in Calls, SupervisorProbes(c)
        PROVE  Quiet
    BY <1>0, <1>7, Zenon DEF SupervisorProbes, Goto
  <1>8. ASSUME NEW c \in Calls, EntryRefused(c)
        PROVE  Quiet
    BY <1>0, <1>8, Zenon DEF EntryRefused, Goto, Return
  <1>9. ASSUME NEW c \in Calls, BackendAdmits(c)
        PROVE  Quiet
    BY <1>0, <1>9, Zenon DEF BackendAdmits, Goto
  <1>10. ASSUME NEW c \in Calls, BackendProbes(c)
        PROVE  Quiet
    BY <1>0, <1>10, Zenon DEF BackendProbes, Goto
  <1>11. ASSUME NEW c \in Calls, BackendRefuses(c)
        PROVE  Quiet
    BY <1>0, <1>11, Zenon DEF BackendRefuses, Goto
  <1>12. ASSUME NEW c \in Calls, RunFails(c)
        PROVE  Quiet
    BY <1>0, <1>12, Zenon DEF RunFails, Goto, LeaveBackend
  <1>13. ASSUME NEW c \in Calls, StartFails(c)
        PROVE  Quiet
    BY <1>0, <1>13, Zenon DEF StartFails, Goto
  <1>14. ASSUME NEW c \in Calls, RunEnds(c)
        PROVE  Quiet
    BY <1>0, <1>14, Zenon DEF RunEnds, Goto
  <1>15. ASSUME NEW c \in Calls, ProbeEnds(c)
        PROVE  Quiet
    BY <1>0, <1>15, Zenon DEF ProbeEnds, Goto
  <1>16. ASSUME NEW c \in Calls, SupervisorForgets(c)
        PROVE  Quiet
    BY <1>0, <1>16, Zenon DEF SupervisorForgets, Goto
  <1>17. ASSUME NEW c \in Calls, SupervisorFrees(c)
        PROVE  Quiet
    BY <1>0, <1>17, Zenon DEF SupervisorFrees, Goto, Return
  <1>18. ASSUME NEW c \in Calls, ClientReleases(c)
        PROVE  Quiet
    BY <1>0, <1>18, Zenon DEF ClientReleases, Goto, Return
  <1>19. ASSUME NEW c \in Calls, ProbeReturns(c)
        PROVE  Quiet
    BY <1>0, <1>19, Zenon DEF ProbeReturns, Goto, Return
  <1> HIDE DEF Quiet
  <1> QED
    BY <1>1, <1>2, <1>3, <1>4, <1>5, <1>6, <1>7, <1>8, <1>9, <1>10, <1>11, <1>12, <1>13, <1>14, <1>15, <1>16, <1>17, <1>18, <1>19, Zenon
       DEF Next, Step, Undone

\* What a call attends is a digest, and no other run inside has it.
LEMMA Attends ==
  ASSUME Types, Placed, Active, NEW c \in Calls, pc[c] \in Inside
  PROVE  /\ digest[c] \in Digests /\ process # "down"
         /\ \A o \in Calls : pc[o] \in Attending /\ digest[o] = digest[c] => o = c
  BY DEF Types, Placed, Active, Inside, Attending

LEMMA AttendedStep ==
  ASSUME Types, Placed, Active, Attended, [Next]_vars
  PROVE  Attended'
  <1>0. /\ pc \in [Calls -> Places] /\ digest \in [Calls -> Digests \cup {NoDigest}]
        /\ container \in [Digests -> {"absent", "created", "running", "stopped"}]
        /\ attached \in [Digests -> SUBSET Devices] /\ workspace \subseteq Digests
    BY Zenon DEF Types
  <1>1. CASE Quiet
    BY <1>1, Zenon DEF Quiet, Attended
  <1>2. CASE Open
    BY <1>2, Zenon DEF Open, Attended, WorkspaceRootEmpty, RuntimeEmpty, runtime
  <1>3. CASE OperatorCleans
    <2>1. \A c \in Calls : pc[c] = "idle" /\ pc'[c] = pc[c]
      BY <1>3, Zenon DEF OperatorCleans, Placed
    <2> QED
      BY <1>3, <2>1, Zenon DEF OperatorCleans, Attended, Attending
  <1>4. CASE Gone
    BY <1>4, Zenon DEF Gone, Attended, Attending
  <1>5. ASSUME NEW d \in Digests, TaskExits(d)
        PROVE  Attended'
    BY <1>0, <1>5, Zenon DEF TaskExits, daemon, reports, Attended
  <1>6. ASSUME NEW c \in Calls, NewContainer(c)
        PROVE  Attended'
    <2>1. /\ digest[c] \in Digests /\ process # "down"
          /\ \A o \in Calls : pc[o] \in Attending /\ digest[o] = digest[c] => o = c
      BY <1>6, Attends, Zenon DEF NewContainer, Inside
    <2>2. /\ pc'[c] = "created" /\ \A o \in Calls \ {c} : pc'[o] = pc[o]
          /\ UNCHANGED <<digest, devices, unclean, silent, process>>
          /\ attached'[digest[c]] = devices[c]
          /\ workspace' = workspace \cup {digest[c]}
          /\ \A d \in Digests \ {digest[c]} : container'[d] = container[d] /\ attached'[d] = attached[d]
      BY <1>0, <1>6, <2>1, Zenon DEF NewContainer, Injected, Goto, daemon, reports
    <2>3. \A o \in Calls \ {c} : pc[o] \in Attending => digest[o] \in Digests \ {digest[c]}
      BY <1>0, <2>1, Zenon DEF Placed, Attending, Inside
    <2> QED
      BY <2>1, <2>2, <2>3 DEF Attended, Attending
  <1>7. ASSUME NEW c \in Calls, StartTask(c)
        PROVE  Attended'
    <2>1. digest[c] \in Digests /\ process # "down"
      BY <1>7, Attends, Zenon DEF StartTask, Inside
    <2>2. /\ pc[c] = "created" /\ pc'[c] = "running" /\ \A o \in Calls \ {c} : pc'[o] = pc[o]
          /\ UNCHANGED <<digest, devices, unclean, silent, process, attached, workspace>>
          /\ \A d \in Digests \ {digest[c]} : container'[d] = container[d]
      BY <1>0, <1>7, <2>1, Zenon DEF StartTask, Goto, daemon, reports
    <2> QED
      BY <2>1, <2>2 DEF Attended, Attending
  <1>8. ASSUME NEW c \in Calls, Undone(c) \/ Cleanup(c) \/ CleanupFails(c)
        PROVE  Attended'
    <2>1. /\ digest[c] \in Digests /\ process # "down"
          /\ \A o \in Calls : pc[o] \in Attending /\ digest[o] = digest[c] => o = c
      BY <1>8, Attends, Zenon DEF Undone, PrepareLeaves, CreateLeaves, CreateCancelled, Cleanup, CleanupFails, Inside
    <2>2. /\ pc'[c] = "leaving" /\ \A o \in Calls \ {c} : pc'[o] = pc[o]
          /\ UNCHANGED <<digest, devices, process>>
      BY <1>0, <1>8, Zenon DEF Undone, PrepareLeaves, CreateLeaves, CreateCancelled, Cleanup, CleanupFails, LeaveBackend, Goto, daemon
    <2>3. /\ unclean \subseteq unclean' /\ silent \subseteq silent'
          /\ \A d \in Digests \ {digest[c]} : /\ container'[d] = container[d] /\ attached'[d] = attached[d]
                                              /\ d \in workspace' <=> d \in workspace
          /\ \/ digest[c] \in unclean'
             \/ digest[c] \in silent' /\ container'[digest[c]] \notin {"running", "stopped"}
             \/ container'[digest[c]] = "absent" /\ digest[c] \notin workspace'
      <3>1. CASE Undone(c)
        <4>1. CASE PrepareLeaves(c)
          BY <1>0, <2>1, <4>1, Zenon DEF PrepareLeaves, IdentityAbsent
        <4>2. CASE CreateLeaves(c)
          BY <1>0, <2>1, <4>2, Zenon DEF CreateLeaves
        <4>3. CASE CreateCancelled(c)
          BY <1>0, <2>1, <4>3, Zenon DEF CreateCancelled, Injected
        <4> QED
          BY <3>1, <4>1, <4>2, <4>3, Zenon DEF Undone
      <3>2. CASE Cleanup(c)
        BY <1>0, <2>1, <3>2, Zenon DEF Cleanup, reports
      <3>3. CASE CleanupFails(c)
        BY <1>0, <2>1, <3>3 DEF CleanupFails
      <3> QED
        BY <1>8, <3>1, <3>2, <3>3, Zenon
    <2>4. \A o \in Calls \ {c} : pc[o] \in Attending => digest[o] \in Digests \ {digest[c]}
      BY <1>0, <2>1, Zenon DEF Placed, Attending, Inside
    <2> QED
      BY <2>1, <2>2, <2>3, <2>4 DEF Attended, Attending
  <1> QED
    BY <1>1, <1>2, <1>3, <1>4, <1>5, <1>6, <1>7, <1>8, RuntimeStep, Zenon

\* Only the start of a task can make two workloads share a device; then both are
\* attended, by calls that hold it.
LEMMA LeasesStep ==
  ASSUME Types, Placed, Active, Leasing, Attended, LeasesExclusive, [Next]_vars
  PROVE  LeasesExclusive'
  <1>0. /\ digest \in [Calls -> Digests \cup {NoDigest}]
        /\ container \in [Digests -> {"absent", "created", "running", "stopped"}]
        /\ attached \in [Digests -> SUBSET Devices]
    BY Zenon DEF Types
  <1>1. ASSUME unclean \subseteq unclean',
               \A d \in Digests : container'[d] = "running" =>
                 container[d] = "running" /\ attached'[d] \subseteq attached[d]
        PROVE  LeasesExclusive'
    BY <1>1, Zenon DEF LeasesExclusive, DeviceShared
  <1>2. CASE Quiet \/ Open \/ Gone
    BY <1>1, <1>2, Zenon DEF Quiet, Open, Gone, runtime, reports
  <1>3. CASE OperatorCleans
    BY <1>3, Zenon DEF OperatorCleans, LeasesExclusive, DeviceShared
  <1>4. ASSUME NEW d \in Digests, TaskExits(d)
        PROVE  LeasesExclusive'
    BY <1>0, <1>1, <1>4, Zenon DEF TaskExits, reports
  <1>5. ASSUME NEW c \in Calls, NewContainer(c) \/ Undone(c) \/ Cleanup(c) \/ CleanupFails(c)
        PROVE  LeasesExclusive'
    <2>1. digest[c] \in Digests
      BY <1>5, Attends, Zenon DEF NewContainer, Undone, PrepareLeaves, CreateLeaves, CreateCancelled, Cleanup, CleanupFails, Inside
    <2>2. CASE NewContainer(c)
      BY <1>0, <1>1, <2>1, <2>2, Zenon DEF NewContainer, Injected, reports
    <2>3. CASE Undone(c)
      BY <1>0, <1>1, <2>1, <2>3, Zenon DEF Undone, PrepareLeaves, CreateLeaves, CreateCancelled, Injected
    <2>4. CASE Cleanup(c)
      BY <1>0, <1>1, <2>1, <2>4, Zenon DEF Cleanup, reports
    <2>5. CASE CleanupFails(c)
      BY <1>0, <1>1, <2>1, <2>5, Zenon DEF CleanupFails
    <2> QED
      BY <1>5, <2>2, <2>3, <2>4, <2>5, Zenon
  <1>6. ASSUME NEW c \in Calls, StartTask(c)
        PROVE  LeasesExclusive'
    <2>1. /\ digest[c] \in Digests /\ process # "down" /\ pc[c] \in Attending
      BY <1>6, Attends, Zenon DEF StartTask, Inside, Attending
    <2>2. /\ UNCHANGED <<attached, unclean>>
          /\ \A d \in Digests \ {digest[c]} : container'[d] = container[d]
      BY <1>0, <1>6, <2>1, Zenon DEF StartTask, reports
    <2>3. ASSUME NEW d \in Digests \ {digest[c]}, container[d] = "running", d \notin unclean
          PROVE  attached[d] \cap attached[digest[c]] = {}
      <3>1. PICK o \in Calls : pc[o] \in Attending /\ digest[o] = d
        BY <2>1, <2>3, Zenon DEF Attended
      <3>2. attached[d] = devices[o] /\ attached[digest[c]] = devices[c] /\ o # c
        BY <2>1, <2>3, <3>1, Zenon DEF Attended
      <3> QED
        BY <3>2, Zenon DEF Leasing
    <2> QED
      BY <2>1, <2>2, <2>3, Zenon DEF LeasesExclusive, DeviceShared
  <1> QED
    BY <1>2, <1>3, <1>4, <1>5, <1>6, RuntimeStep, Zenon

-----------------------------------------------------------------------------
(* Types. *)

\* A call goes to a place, and returns without leaving anything of itself.
LEMMA CallTypes ==
  ASSUME Types, NEW c \in Calls
  PROVE  /\ \A place \in Places : Goto(c, place) => pc' \in [Calls -> Places]
         /\ Return(c) => /\ pc' \in [Calls -> Places]
                         /\ route' \in [Calls -> {"supervised", "gpu", "ready"}]
                         /\ digest' \in [Calls -> Digests \cup {NoDigest}]
                         /\ devices' \in [Calls -> SUBSET Devices]
                         /\ done' \in [Calls -> BOOLEAN] /\ ok' \in [Calls -> BOOLEAN]
  BY ZenonT(60) DEF Types, Goto, Return, Places

LEMMA TypesStep ==
  ASSUME Types, Placed, Slots, [Next]_vars
  PROVE  Types'
  <1> USE DEF daemon, layers, runtime, reports
  <1>0. {"idle", "entering", "door", "leaving", "freeing", "absent", "created", "running", "cleaning",
         "probing"} = Places
    BY Zenon DEF Places, Engine
  <1>1. CASE Open \/ CloseSupervisor \/ CloseEngine \/ CloseReturn \/ UNCHANGED vars
    BY <1>1, Zenon DEF Open, CloseSupervisor, CloseEngine, CloseReturn, vars, Types, Closing
  <1>2. CASE CloseBackend
    <2>1. done' \in [Calls -> BOOLEAN]
      BY <1>2, Zenon DEF CloseBackend, Types
    <2> QED
      BY <1>2, <2>1, Zenon DEF CloseBackend, Types, Closing
  <1>3. CASE OperatorCleans
    BY <1>3, Zenon DEF OperatorCleans, Types
  <1>4. CASE Exit \/ Crash
    <2>1. Gone /\ faults' \in 0..MaxFaults
      BY <1>4, BoundsAssumption DEF Exit, Crash, Types
    <2> QED
      BY <1>0, <2>1, Zenon DEF Gone, Types
  <1>5. ASSUME NEW c \in Calls, Cancel(c)
        PROVE  Types'
    BY <1>5, Zenon DEF Cancel, Types
  <1>6. ASSUME NEW c \in Calls, NEW r \in {"supervised", "gpu", "ready"},
               NEW d \in Digests \cup {NoDigest}, Enter(c, r, d)
        PROVE  Types'
    BY <1>0, <1>6, CallTypes, Zenon DEF Enter, Types
  <1>7. ASSUME NEW d \in Digests, TaskExits(d)
        PROVE  Types'
    BY <1>7, Zenon DEF TaskExits, Types
  <1>8. ASSUME NEW c \in Calls, NEW g \in Devices, ClientAcquires(c, g)
        PROVE  Types'
    BY <1>0, <1>8, CallTypes, Zenon DEF ClientAcquires, Types
  <1>9. ASSUME NEW c \in Calls, SupervisorAdmits(c)
        PROVE  Types'
    BY <1>0, <1>9, CallTypes DEF SupervisorAdmits, Types
  <1>10. ASSUME NEW c \in Calls, SupervisorProbes(c)
        PROVE  Types'
    BY <1>0, <1>10, CallTypes, Zenon DEF SupervisorProbes, Types
  <1>11. ASSUME NEW c \in Calls, EntryRefused(c)
        PROVE  Types'
    BY <1>0, <1>11, CallTypes, Zenon DEF EntryRefused, Types
  <1>12. ASSUME NEW c \in Calls, BackendAdmits(c)
        PROVE  Types'
    BY <1>0, <1>12, CallTypes, Zenon DEF BackendAdmits, Types
  <1>13. ASSUME NEW c \in Calls, BackendProbes(c)
        PROVE  Types'
    BY <1>0, <1>13, CallTypes, Zenon DEF BackendProbes, Types
  <1>14. ASSUME NEW c \in Calls, BackendRefuses(c)
        PROVE  Types'
    BY <1>0, <1>14, CallTypes, Zenon DEF BackendRefuses, Types
  <1>15. ASSUME NEW c \in Calls, RunFails(c)
        PROVE  Types'
    BY <1>0, <1>15, CallTypes, Zenon DEF RunFails, LeaveBackend, Types
  <1>16. ASSUME NEW c \in Calls, Undone(c)
        PROVE  Types'
    <2>1. digest[c] \in Digests /\ devices[c] \in SUBSET Devices
      BY <1>16, Zenon DEF Undone, PrepareLeaves, CreateLeaves, CreateCancelled, Placed, Inside, Types
    <2>2. faults' \in 0..MaxFaults
      BY <1>16, BoundsAssumption DEF Undone, PrepareLeaves, CreateLeaves, CreateCancelled, Types
    <2>3. CASE PrepareLeaves(c)
      BY <1>0, <2>1, <2>2, <2>3, CallTypes, Zenon DEF PrepareLeaves, LeaveBackend, Types
    <2>4. CASE CreateLeaves(c)
      BY <1>0, <2>1, <2>2, <2>4, CallTypes, Zenon DEF CreateLeaves, LeaveBackend, Types
    <2>5. CASE CreateCancelled(c)
      BY <1>0, <2>1, <2>2, <2>5, CallTypes, Zenon DEF CreateCancelled, Injected, LeaveBackend, Types
    <2> QED
      BY <1>16, <2>3, <2>4, <2>5, Zenon DEF Undone
  <1>17. ASSUME NEW c \in Calls, NewContainer(c)
        PROVE  Types'
    BY <1>0, <1>17, CallTypes, Zenon DEF NewContainer, Placed, Inside, Injected, Types
  <1>18. ASSUME NEW c \in Calls, StartTask(c)
        PROVE  Types'
    BY <1>0, <1>18, CallTypes, Zenon DEF StartTask, Placed, Inside, Types
  <1>19. ASSUME NEW c \in Calls, StartFails(c)
        PROVE  Types'
    BY <1>0, <1>19, CallTypes, Zenon DEF StartFails, Types
  <1>20. ASSUME NEW c \in Calls, RunEnds(c)
        PROVE  Types'
    BY <1>0, <1>20, CallTypes, Zenon DEF RunEnds, Types
  <1>21. ASSUME NEW c \in Calls, Cleanup(c)
        PROVE  Types'
    BY <1>0, <1>21, CallTypes, Zenon DEF Cleanup, LeaveBackend, Placed, Inside, Types
  <1>22. ASSUME NEW c \in Calls, CleanupFails(c)
        PROVE  Types'
    BY <1>0, <1>22, CallTypes, BoundsAssumption DEF CleanupFails, LeaveBackend, Placed, Inside, Types
  <1>23. ASSUME NEW c \in Calls, ProbeEnds(c)
        PROVE  Types'
    BY <1>0, <1>23, CallTypes, Zenon DEF ProbeEnds, Types
  <1>24. ASSUME NEW c \in Calls, SupervisorForgets(c)
        PROVE  Types'
    BY <1>0, <1>24, CallTypes, Zenon DEF SupervisorForgets, Types
  <1>25. ASSUME NEW c \in Calls, SupervisorFrees(c)
        PROVE  Types'
    BY <1>0, <1>25, CallTypes, SlotTaken DEF SupervisorFrees, Types
  <1>26. ASSUME NEW c \in Calls, ClientReleases(c)
        PROVE  Types'
    BY <1>0, <1>26, CallTypes, Zenon DEF ClientReleases, Types
  <1>27. ASSUME NEW c \in Calls, ProbeReturns(c)
        PROVE  Types'
    BY <1>0, <1>27, CallTypes, Zenon DEF ProbeReturns, Types
  <1> QED
    BY <1>1, <1>2, <1>3, <1>4, <1>5, <1>6, <1>7, <1>8, <1>9, <1>10, <1>11, <1>12, <1>13, <1>14, <1>15, <1>16, <1>17, <1>18,
       <1>19, <1>20, <1>21, <1>22, <1>23, <1>24, <1>25, <1>26, <1>27, Zenon DEF Next, Step, Undone, Close

-----------------------------------------------------------------------------
(* Theorems. *)

LEMMA SandboxInit == Init => SandboxInv
  <1> SUFFICES ASSUME Init PROVE SandboxInv
    BY Zenon
  <1>1. Types
    BY BoundsAssumption DEF Init, Types, Places
  <1>2. Placed /\ Leasing /\ LeasesExclusive
    BY Zenon DEF Init, Placed, Leasing, LeasesExclusive, DeviceShared, Inside
  <1>3. Attended /\ Drained
    BY Zenon DEF Init, Attended, Attending, Drained
  <1>4. InSupervisor = {} /\ active = {} /\ slots = 0 /\ \A c \in Calls : pc[c] \notin Inside
    BY Zenon DEF Init, InSupervisor, Inside
  <1>5. Slots /\ Active
    BY <1>1, <1>4, FS_EmptySet, BoundsAssumption DEF Slots, Active, Types
  <1> QED
    BY <1>1, <1>2, <1>3, <1>5, Zenon DEF SandboxInv

\* The calls and the books of the three layers agree, whatever is started, refused,
\* cancelled, cleaned up or crashed; no task exists that no call attends but what a
\* failed cleanup or a dead process left, and nothing else but that and what a failed
\* preparation left.
THEOREM SandboxInvariant == Spec => []SandboxInv
  <1>1. SandboxInv /\ [Next]_vars => SandboxInv'
    BY TypesStep, PlacedStep, SlotsStep, ActiveStep, LeasingStep, AttendedStep, DrainedStep, LeasesStep, Zenon
       DEF SandboxInv
  <1> QED
    BY <1>1, SandboxInit, PTL DEF Spec

\* The runs of the backend are the calls inside the engine that are no probes.
LEMMA RunsMeans ==
  ASSUME Types, Placed
  PROVE  InBackend \ Probes = {c \in Calls : pc[c] \in Inside}
  BY Zenon DEF Types, Placed, InBackend, Probes, Engine, Inside

\* The digests that the backend has in its books are those of the runs inside it.
LEMMA ActiveMeans ==
  ASSUME Types, Placed, Active
  PROVE  active = {digest[c] : c \in InBackend \ Probes}
  <1>1. InBackend \ Probes = {c \in Calls : pc[c] \in Inside}
    BY RunsMeans, Zenon
  <1>2. ASSUME NEW d \in active
        PROVE  \E c \in InBackend \ Probes : d = digest[c]
    <2>1. PICK c \in Calls : pc[c] \in Inside /\ digest[c] = d
      BY <1>2, Zenon DEF Active
    <2>2. c \in InBackend \ Probes
      BY <1>1, <2>1, Zenon
    <2> QED
      BY <2>1, <2>2, Zenon
  <1>3. ASSUME NEW c \in InBackend \ Probes
        PROVE  digest[c] \in active
    <2>1. c \in Calls /\ pc[c] \in Inside
      BY <1>1, <1>3, Zenon
    <2> QED
      BY <2>1, Zenon DEF Active
  <1> QED
    BY <1>2, <1>3, Zenon

\* Every variable has its type, and the sets and slots that supervisor, backend and
\* leases keep are those of the calls inside them (RunIsolated of each layer).
THEOREM BooksBalance == Spec => []TypeOK
  <1>1. SandboxInv => TypeOK
    <2> SUFFICES ASSUME SandboxInv PROVE TypeOK
      BY Zenon
    <2>1. Types /\ Placed /\ Slots /\ Active /\ Leasing
      BY Zenon DEF SandboxInv
    <2>2. active = {digest[c] : c \in InBackend \ Probes}
      BY <2>1, ActiveMeans, Zenon
    <2>3. ASSUME NEW g \in Devices
          PROVE  leased[g] # NoDigest <=> \E c \in Calls : g \in devices[c] /\ digest[c] = leased[g]
      <3>1. \A c \in Calls : g \in devices[c] => digest[c] = leased[g] /\ digest[c] # NoDigest
        BY <2>1, Zenon DEF Leasing, Placed
      <3> QED
        BY <2>1, <3>1, Zenon DEF Leasing
    <2> QED
      BY <2>1, <2>2, <2>3, Zenon DEF TypeOK, Types, Slots
  <1> QED
    BY <1>1, SandboxInvariant, PTL

\* The engine never has more than Config.MaxActive runs, nor more than MaxSupervised of the
\* supervisor, and never two of one digest, and no slot or digest stays taken without
\* its call (Backend.runIsolated, SupervisedBackend).
THEOREM CapacityIsHeld == Spec => []CapacityHeld
  <1>1. SandboxInv => CapacityHeld
    <2> SUFFICES ASSUME SandboxInv PROVE CapacityHeld
      BY Zenon
    <2> DEFINE runs == {c \in Calls : pc[c] \in Inside}
               supervisedRuns == {c \in runs : route[c] = "supervised"}
    <2>1. Types /\ Placed /\ Slots /\ Active
      BY Zenon DEF SandboxInv
    <2>2. InBackend \ Probes = runs
      BY <2>1, RunsMeans, Zenon
    <2>3. Cardinality(runs) <= maxActive
      <3> DEFINE f == [c \in runs |-> digest[c]]
      <3>1. f \in Injection(runs, active)
        BY <2>1, Zenon DEF Active, Injection, IsInjective
      <3>2. IsFiniteSet(runs) /\ Cardinality(runs) <= Cardinality(active)
        <4> HIDE DEF f
        <4> QED
          BY <2>1, <3>1, FS_Injection, Zenon DEF Active
      <3> HIDE DEF runs
      <3> QED
        BY <2>1, <3>2, FS_CardinalityType, BoundsAssumption DEF Active, Types
    <2>4. Cardinality(supervisedRuns) <= MaxSupervised
      <3>1. supervisedRuns \in SUBSET InSupervisor
        BY Zenon DEF InSupervisor, Inside
      <3> HIDE DEF supervisedRuns
      <3>2. IsFiniteSet(supervisedRuns) /\ Cardinality(supervisedRuns) <= Cardinality(InSupervisor)
        BY <2>1, <3>1, FS_Subset, Zenon DEF Slots
      <3>3. MaxSupervised \in Nat /\ Cardinality(InSupervisor) <= MaxSupervised
        BY <2>1, BoundsAssumption, Zenon DEF Slots
      <3>4. Cardinality(supervisedRuns) \in Nat /\ Cardinality(InSupervisor) \in Nat
        BY <2>1, <3>2, FS_CardinalityType, Zenon DEF Slots
      <3> QED
        BY <3>2, <3>3, <3>4
    <2>5. \A c1, c2 \in runs : digest[c1] = digest[c2] => c1 = c2
      BY <2>1, Zenon DEF Active
    <2>6. slots = Cardinality(InSupervisor) /\ active = {digest[c] : c \in InBackend \ Probes}
      BY <2>1, ActiveMeans, Zenon DEF Slots
    <2> QED
      BY <2>2, <2>3, <2>4, <2>5, <2>6, Zenon DEF CapacityHeld
  <1> QED
    BY <1>1, SandboxInvariant, PTL

\* Two workloads that are alive share a GPU only after the cleanup of one was reported
\* as failed (Client.acquire and release, CheckResidue).
THEOREM LeasesAreExclusive == Spec => []LeasesExclusive
  <1>1. SandboxInv => LeasesExclusive
    BY Zenon DEF SandboxInv
  <1> QED
    BY <1>1, SandboxInvariant, PTL

\* The engine is closed when nobody uses it, and Close returns when no task is left but
\* where a failed cleanup was reported, and nothing else but that and what a failed
\* preparation left (SupervisedBackend.Close, Backend.Close, sdkEngine.Run).
THEOREM CloseDrains == Spec => []DrainedOnClose
  <1>1. SandboxInv => DrainedOnClose
    <2> SUFFICES ASSUME SandboxInv PROVE DrainedOnClose
      BY Zenon
    <2>1. Attended /\ Drained
      BY Zenon DEF SandboxInv
    <2>2. InBackend = {} => \A c \in Calls : pc[c] \notin Attending
      BY Zenon DEF InBackend, Engine, Attending
    <2> QED
      BY <2>1, <2>2, Zenon DEF Attended, Drained, DrainedOnClose
  <1> QED
    BY <1>1, SandboxInvariant, PTL

\* No run reports success and leaves a container, snapshot or workspace (sdkEngine.Run).
THEOREM SuccessIsClean == Spec => SuccessClean
  <1>1. SandboxInv /\ [Next]_vars =>
          \A c \in Calls : pc[c] \in Engine /\ pc'[c] = "leaving" /\ ok'[c]
            => container'[digest[c]] = "absent" /\ digest[c] \notin workspace'
    <2> SUFFICES ASSUME SandboxInv, [Next]_vars, NEW c \in Calls,
                        pc[c] \in Engine, pc'[c] = "leaving", ok'[c]
                 PROVE  container'[digest[c]] = "absent" /\ digest[c] \notin workspace'
      BY Zenon
    <2>1. Types /\ Placed
      BY Zenon DEF SandboxInv
    <2>2. ~Still /\ ~Gone
      BY Zenon DEF Still, Gone, Engine
    <2>3. PICK o \in Calls : Others(o) /\ CallMoves(o)
      BY <2>1, <2>2, NextMoves, Zenon
    <2>4. o = c
      BY <2>3, Zenon DEF Others, Engine
    <2>5. ok[c] => pc[c] \notin {"absent", "probing"}
      BY <2>1, Zenon DEF Placed
    <2>6. ~(Enters(c) \/ Admitted(c) \/ (\E g \in Devices : Acquires(c, g)) \/ Obtains(c) \/ Returns(c))
      BY Zenon DEF Enters, Admitted, Acquires, Obtains, Returns
    <2>7. ~Passes(c)
      BY <2>5, Zenon DEF Passes, Engine
    <2>8. Leaves(c)
      BY <2>3, <2>4, <2>6, <2>7, Zenon DEF CallMoves
    <2>9. pc[c] = "cleaning"
      BY <2>5, <2>8, Zenon DEF Leaves
    <2> QED
      BY <2>8, <2>9, Zenon DEF Leaves
  <1> QED
    BY <1>1, SandboxInvariant, PTL DEF Spec, SuccessClean

=============================================================================
