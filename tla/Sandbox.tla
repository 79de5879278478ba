------------------------------ MODULE Sandbox ------------------------------
(***************************************************************************)
(* The isolated execution stack: executor.SupervisedBackend and             *)
(* gpuisolation.Client, each in front of one containerdbackend.Backend,     *)
(* and the SDK engine under it.                                             *)
(*                                                                         *)
(* A call is one RunIsolated (or one CheckReady) made through the           *)
(* supervisor, or one RunIsolated through the GPU leases, which adds device *)
(* aliases.  Closing the supervisor closes the backend and waits for both.  *)
(* containerd is external: its containers outlive the process.              *)
(***************************************************************************)
EXTENDS Naturals, FiniteSets

CONSTANTS Calls,
          Digests,      \* execution digests: the only identity of runtime objects
          Devices,      \* operator-named GPU aliases
          NoDigest,
          MaxSupervised,  \* slots of the SupervisedBackend
          ActiveLimits,   \* the values of Config.MaxActive a Backend is opened with
          Faults,       \* what may happen, of "crash", "cleanup" (containerd or the
                        \* workspace cannot be cleaned up in time) and "record"
                        \* (containerd records the container of a cancelled call)
          MaxFaults     \* bound: how often they happen

ASSUME NoDigestAssumption == NoDigest \notin Digests
ASSUME BoundsAssumption == /\ {MaxSupervised} \cup ActiveLimits \subseteq Nat \ {0}
                           /\ MaxFaults \in Nat

VARIABLES
  process,     \* "down", "open", and the places of Close (see Closing)
  maxActive,   \* Config.MaxActive of the Backend that is or was last open
  pc,          \* pc[c]: where call c is
  route,       \* route[c]: "supervised", "gpu" or "ready"
  digest,      \* digest[c]: what it runs
  devices,     \* devices[c]: the aliases it holds
  done,        \* done[c]: the context of its run is cancelled or past its deadline
  ok,          \* ok[c]: the run ended well so far
  supervised,  \* SupervisedBackend.active
  slots,       \* how many of the supervisor's slots are taken
  leased,      \* Client.leased: the digest that holds a device, or NoDigest
  active,      \* Backend.active
  container,   \* container[d]: "absent", "created" (or only its snapshot), "running", "stopped"
  attached,    \* attached[d]: the devices of d's container
  workspace,   \* digests whose workspace directory exists
  unclean,     \* digests whose cleanup a call reported as failed
  silent,      \* ghost: digests of which a failed preparation left something that no
               \* error reports
  faults

vars == <<process, maxActive, pc, route, digest, devices, done, ok, supervised, slots, leased, active,
          container, attached, workspace, unclean, silent, faults>>
daemon == <<process, maxActive>>
layers == <<supervised, slots, leased, active>>
runtime == <<container, attached, workspace>>
reports == <<unclean, silent>>

-----------------------------------------------------------------------------
(* Data *)

\* Places of a call, in order: admitted to the backend's door, inside the engine
\* (before the container, with it, with its task), and on the way out.
Engine == {"absent", "created", "running", "cleaning", "probing"}
Places == {"idle", "entering", "door", "leaving", "freeing"} \cup Engine

\* Places of Close: isClosed of the supervisor is set; closed of the backend is set
\* and its runs are cancelled; the engine and the directory lock are closed; Close has
\* returned.
Closing == {"supervisorClosed", "backendClosed", "engineClosed", "closed"}

SupervisorOpen == process = "open"
BackendOpen == process \in {"open", "supervisorClosed"}

\* The calls that Backend.runs and Backend.probes count, and those that the
\* supervisor's wait group counts.
InBackend == {c \in Calls : pc[c] \in Engine}
InSupervisor == {c \in Calls : pc[c] \notin {"idle", "entering"} /\ route[c] = "supervised"}
Probes == {c \in Calls : pc[c] \notin {"idle", "entering"} /\ route[c] = "ready"}

Init ==
  /\ process = "down" /\ maxActive \in ActiveLimits
  /\ pc = [c \in Calls |-> "idle"]
  /\ route = [c \in Calls |-> "supervised"]
  /\ digest = [c \in Calls |-> NoDigest]
  /\ devices = [c \in Calls |-> {}]
  /\ done = [c \in Calls |-> FALSE] /\ ok = [c \in Calls |-> FALSE]
  /\ supervised = {} /\ slots = 0 /\ active = {}
  /\ leased = [g \in Devices |-> NoDigest]
  /\ container = [d \in Digests |-> "absent"]
  /\ attached = [d \in Digests |-> {}]
  /\ workspace = {} /\ unclean = {} /\ silent = {}
  /\ faults = 0

Goto(c, place) == pc' = [pc EXCEPT ![c] = place]

-----------------------------------------------------------------------------
(* The process *)

\* What Open looks for: a managed container, task or snapshot (CheckResidue), and an
\* entry of the workspace root (validateFIFODir).
RuntimeEmpty == \A d \in Digests : container[d] = "absent"
WorkspaceRootEmpty == workspace = {}

\* Mutant: Open does not look for residue.
OpenDirty ==
  /\ process = "down"
  /\ process' = "open" /\ maxActive' \in ActiveLimits
  /\ UNCHANGED <<pc, route, digest, devices, done, ok, layers, runtime, reports, faults>>

\* Open, with the directory lock, finds no residue; the configuration may have changed.
Open ==
  /\ process = "down"
  /\ WorkspaceRootEmpty /\ RuntimeEmpty
  /\ process' = "open" /\ maxActive' \in ActiveLimits
  /\ UNCHANGED <<pc, route, digest, devices, done, ok, layers, runtime, reports, faults>>

\* SupervisedBackend.Close: no more calls,
CloseSupervisor ==
  /\ process = "open"
  /\ process' = "supervisorClosed"
  /\ UNCHANGED <<maxActive, pc, route, digest, devices, done, ok, layers, runtime, reports, faults>>

\* Mutant: the active runs are waited for but not cancelled.
CloseBackendWaits ==
  /\ process = "supervisorClosed"
  /\ Probes = {}
  /\ process' = "backendClosed"
  /\ UNCHANGED <<maxActive, pc, route, digest, devices, done, ok, layers, runtime, reports, faults>>

\* then, once its probes are done, Backend.Close: no more runs, and the ones that are
\* active are cancelled,
CloseBackend ==
  /\ process = "supervisorClosed"
  /\ Probes = {}
  /\ process' = "backendClosed"
  /\ done' = [c \in Calls |-> done[c] \/ (c \in InBackend /\ digest[c] \in active)]
  /\ UNCHANGED <<maxActive, pc, route, digest, devices, ok, layers, runtime, reports, faults>>

\* Mutant: the runs are cancelled but not waited for.
CloseEngineEarly ==
  /\ process = "backendClosed"
  /\ process' = "engineClosed"
  /\ UNCHANGED <<maxActive, pc, route, digest, devices, done, ok, layers, runtime, reports, faults>>

\* the engine and the lock go when the runs are gone,
CloseEngine ==
  /\ process = "backendClosed"
  /\ InBackend = {}
  /\ process' = "engineClosed"
  /\ UNCHANGED <<maxActive, pc, route, digest, devices, done, ok, layers, runtime, reports, faults>>

\* and Close returns when the supervisor's calls have.
CloseReturn ==
  /\ process = "engineClosed"
  /\ InSupervisor = {}
  /\ process' = "closed"
  /\ UNCHANGED <<maxActive, pc, route, digest, devices, done, ok, layers, runtime, reports, faults>>

\* The process ends, after Close or without it.
Gone ==
  /\ process' = "down"
  /\ pc' = [c \in Calls |-> "idle"]
  /\ digest' = [c \in Calls |-> NoDigest]
  /\ devices' = [c \in Calls |-> {}]
  /\ done' = [c \in Calls |-> FALSE] /\ ok' = [c \in Calls |-> FALSE]
  /\ supervised' = {} /\ slots' = 0 /\ active' = {}
  /\ leased' = [g \in Devices |-> NoDigest]
  /\ route' = [c \in Calls |-> "supervised"]
  /\ UNCHANGED <<maxActive, runtime, reports>>

Exit == process = "closed" /\ Gone /\ UNCHANGED faults

Crash ==
  /\ "crash" \in Faults /\ faults < MaxFaults
  /\ process # "down"
  /\ Gone
  /\ faults' = faults + 1

\* An operator removes what a dead process left in containerd.
OperatorCleans ==
  /\ process = "down"
  /\ ~(WorkspaceRootEmpty /\ RuntimeEmpty)
  /\ container' = [d \in Digests |-> "absent"]
  /\ attached' = [d \in Digests |-> {}]
  /\ workspace' = {} /\ unclean' = {} /\ silent' = {}
  /\ UNCHANGED <<daemon, pc, route, digest, devices, done, ok, layers, faults>>

-----------------------------------------------------------------------------
(* Into the stack *)

\* A caller, with a context of its own.
Enter(c, r, d) ==
  /\ pc[c] = "idle" /\ process # "down"
  /\ r = "ready" <=> d = NoDigest
  /\ route' = [route EXCEPT ![c] = r]
  /\ digest' = [digest EXCEPT ![c] = d]
  /\ Goto(c, "entering")
  /\ UNCHANGED <<daemon, devices, done, ok, layers, runtime, reports, faults>>

\* The context is cancelled by the caller or its deadline passes, while it can still
\* make a difference.
Cancel(c) ==
  /\ pc[c] \in {"entering", "door", "absent", "created", "running"} /\ ~done[c]
  /\ done' = [done EXCEPT ![c] = TRUE]
  /\ UNCHANGED <<daemon, pc, route, digest, devices, ok, layers, runtime, reports, faults>>

Return(c) ==
  /\ Goto(c, "idle")
  /\ route' = [route EXCEPT ![c] = "supervised"]
  /\ done' = [done EXCEPT ![c] = FALSE]
  /\ ok' = [ok EXCEPT ![c] = FALSE]
  /\ digest' = [digest EXCEPT ![c] = NoDigest]
  /\ devices' = [devices EXCEPT ![c] = {}]

\* SupervisedBackend.RunIsolated, under its mutex.
SupervisorPermits(c) ==
  /\ ~done[c] /\ SupervisorOpen
  /\ digest[c] \notin supervised
  /\ slots < MaxSupervised

SupervisorAdmits(c) ==
  /\ pc[c] = "entering" /\ route[c] = "supervised"
  /\ SupervisorPermits(c)
  /\ supervised' = supervised \cup {digest[c]}
  /\ slots' = slots + 1
  /\ Goto(c, "door")
  /\ UNCHANGED <<daemon, route, digest, devices, done, ok, leased, active, runtime, reports, faults>>

\* SupervisedBackend.CheckReady.
SupervisorProbes(c) ==
  /\ pc[c] = "entering" /\ route[c] = "ready"
  /\ ~done[c] /\ SupervisorOpen
  /\ Goto(c, "door")
  /\ UNCHANGED <<daemon, route, digest, devices, done, ok, layers, runtime, reports, faults>>

\* Client.acquire: one device for a digest that holds none; the aliases are sorted and
\* the first free one is taken, which one does not matter here.
Leases(c) ==
  /\ ~done[c]
  /\ \A g \in Devices : leased[g] # digest[c]

ClientAcquires(c, g) ==
  /\ pc[c] = "entering" /\ route[c] = "gpu"
  /\ Leases(c)
  /\ leased[g] = NoDigest
  /\ leased' = [leased EXCEPT ![g] = digest[c]]
  /\ devices' = [devices EXCEPT ![c] = {g}]
  /\ Goto(c, "door")
  /\ UNCHANGED <<daemon, route, digest, done, ok, supervised, slots, active, runtime, reports, faults>>

\* The supervisor or the leases turn the call away.
EntryRefused(c) ==
  /\ pc[c] = "entering"
  /\ \/ route[c] = "supervised" /\ ~SupervisorPermits(c)
     \/ route[c] = "ready" /\ (done[c] \/ ~SupervisorOpen)
     \/ route[c] = "gpu" /\ ~(Leases(c) /\ \E g \in Devices : leased[g] = NoDigest)
  /\ Return(c)
  /\ UNCHANGED <<daemon, layers, runtime, reports, faults>>

\* Mutant: the backend does not bound its runs.
BackendUnbounded(c) ==
  /\ ~done[c] /\ BackendOpen
  /\ digest[c] \notin active

\* Backend.runIsolated, under its mutex.
BackendPermits(c) ==
  /\ ~done[c] /\ BackendOpen
  /\ Cardinality(active) < maxActive
  /\ digest[c] \notin active

BackendAdmits(c) ==
  /\ pc[c] = "door" /\ route[c] # "ready"
  /\ BackendPermits(c)
  /\ active' = active \cup {digest[c]}
  /\ Goto(c, "absent")
  /\ UNCHANGED <<daemon, route, digest, devices, done, ok, supervised, slots, leased, runtime, reports, faults>>

\* Backend.CheckReady.
BackendProbes(c) ==
  /\ pc[c] = "door" /\ route[c] = "ready"
  /\ ~done[c] /\ BackendOpen
  /\ Goto(c, "probing")
  /\ UNCHANGED <<daemon, route, digest, devices, done, ok, layers, runtime, reports, faults>>

BackendRefuses(c) ==
  /\ pc[c] = "door"
  /\ IF route[c] = "ready" THEN done[c] \/ ~BackendOpen ELSE ~BackendPermits(c)
  /\ Goto(c, "leaving")
  /\ UNCHANGED <<daemon, route, digest, devices, done, ok, layers, runtime, reports, faults>>

-----------------------------------------------------------------------------
(* sdkEngine.Run *)

\* The run leaves the engine: Backend.runIsolated forgets it.
LeaveBackend(c) ==
  /\ active' = active \ {digest[c]}
  /\ Goto(c, "leaving")
  /\ UNCHANGED <<supervised, slots, leased>>

\* The run fails before anything of it exists (the image is not there or not unpacked,
\* an object has the identity), or what its preparation made is removed again.
RunFails(c) ==
  /\ pc[c] = "absent"
  /\ LeaveBackend(c)
  /\ UNCHANGED <<daemon, route, digest, devices, done, ok, runtime, reports, faults>>

\* ensureIdentityAbsent; the workspace is made with an exclusive Mkdir.
IdentityAbsent(c) == container[digest[c]] = "absent" /\ digest[c] \notin workspace

\* prepareWorkspace fails on the archive, and so does the removal of the directory, the
\* error of which is dropped.
PrepareLeaves(c) ==
  /\ pc[c] = "absent"
  /\ "cleanup" \in Faults /\ faults < MaxFaults
  /\ faults' = faults + 1
  /\ IdentityAbsent(c)
  /\ workspace' = workspace \cup {digest[c]}
  /\ silent' = silent \cup {digest[c]}
  /\ LeaveBackend(c)
  /\ UNCHANGED <<daemon, route, digest, devices, done, ok, container, attached, unclean>>

\* NewContainer fails, and so does removeFailedSnapshot (the snapshot has the identity of
\* the container) or the removal of the workspace; the error says so.
CreateLeaves(c) ==
  /\ pc[c] = "absent"
  /\ "cleanup" \in Faults /\ faults < MaxFaults
  /\ faults' = faults + 1
  /\ IdentityAbsent(c)
  /\ \/ workspace' = workspace \cup {digest[c]} /\ UNCHANGED container
     \/ container' = [container EXCEPT ![digest[c]] = "created"] /\ UNCHANGED workspace
  /\ unclean' = unclean \cup {digest[c]}
  /\ LeaveBackend(c)
  /\ UNCHANGED <<daemon, route, digest, devices, done, ok, attached, silent>>

\* cdiInjector.specOpt: the container gets the devices the call holds.
Injected(c) == [attached EXCEPT ![digest[c]] = devices[c]]

\* NewContainer is cancelled after containerd recorded the container and before it
\* answered: the snapshot and the workspace are removed, the record is not.
CreateCancelled(c) ==
  /\ pc[c] = "absent" /\ done[c]
  /\ "record" \in Faults /\ faults < MaxFaults
  /\ faults' = faults + 1
  /\ IdentityAbsent(c)
  /\ container' = [container EXCEPT ![digest[c]] = "created"]
  /\ attached' = Injected(c)
  /\ silent' = silent \cup {digest[c]}
  /\ LeaveBackend(c)
  /\ UNCHANGED <<daemon, route, digest, devices, done, ok, workspace, unclean>>

\* prepareWorkspace and NewContainer, where ensureIdentityAbsent found nothing.
NewContainer(c) ==
  /\ pc[c] = "absent"
  /\ IdentityAbsent(c)
  /\ container' = [container EXCEPT ![digest[c]] = "created"]
  /\ attached' = Injected(c)
  /\ workspace' = workspace \cup {digest[c]}
  /\ Goto(c, "created")
  /\ UNCHANGED <<daemon, route, digest, devices, done, ok, layers, reports, faults>>

\* NewTask and Start,
StartTask(c) ==
  /\ pc[c] = "created" /\ ~done[c]
  /\ container' = [container EXCEPT ![digest[c]] = "running"]
  /\ Goto(c, "running")
  /\ UNCHANGED <<daemon, route, digest, devices, done, ok, layers, attached, workspace, reports, faults>>

\* which may fail.
StartFails(c) ==
  /\ pc[c] = "created"
  /\ Goto(c, "cleaning")
  /\ UNCHANGED <<daemon, route, digest, devices, done, ok, layers, runtime, reports, faults>>

\* The workload ends by itself.
TaskExits(d) ==
  /\ container[d] = "running"
  /\ container' = [container EXCEPT ![d] = "stopped"]
  /\ UNCHANGED <<daemon, pc, route, digest, devices, done, ok, layers, attached, workspace, reports, faults>>

\* The select: the exit status arrives, and is good if the output and the metrics are,
\* or the context is done.
RunEnds(c) ==
  /\ pc[c] = "running"
  /\ \/ container[digest[c]] = "stopped" /\ \E good \in BOOLEAN : ok' = [ok EXCEPT ![c] = good]
     \/ done[c] /\ UNCHANGED ok
  /\ Goto(c, "cleaning")
  /\ UNCHANGED <<daemon, route, digest, devices, done, layers, runtime, reports, faults>>

\* cleanup kills and deletes the task, deletes the container and its snapshot; the
\* workspace is removed.
Cleanup(c) ==
  /\ pc[c] = "cleaning"
  /\ container' = [container EXCEPT ![digest[c]] = "absent"]
  /\ attached' = [attached EXCEPT ![digest[c]] = {}]
  /\ workspace' = workspace \ {digest[c]}
  /\ LeaveBackend(c)
  /\ UNCHANGED <<daemon, route, digest, devices, done, ok, reports, faults>>

\* Mutant: the error of the cleanup is dropped.
CleanupFailsQuietly(c) ==
  /\ pc[c] = "cleaning"
  /\ "cleanup" \in Faults /\ faults < MaxFaults
  /\ faults' = faults + 1
  /\ UNCHANGED <<runtime, ok>>
  /\ unclean' = unclean \cup {digest[c]}
  /\ LeaveBackend(c)
  /\ UNCHANGED <<daemon, route, digest, devices, done, silent>>

\* One of them does not succeed within its timeout, and the result is an error.
CleanupFails(c) ==
  /\ pc[c] = "cleaning"
  /\ "cleanup" \in Faults /\ faults < MaxFaults
  /\ faults' = faults + 1
  /\ \E left \in {container[digest[c]], "absent"} :
       /\ container' = [container EXCEPT ![digest[c]] = left]
       /\ attached' = [attached EXCEPT ![digest[c]] = IF left = "absent" THEN {} ELSE @]
       /\ workspace' = IF left = "absent" THEN workspace ELSE workspace \ {digest[c]}
  /\ ok' = [ok EXCEPT ![c] = FALSE]
  /\ unclean' = unclean \cup {digest[c]}
  /\ LeaveBackend(c)
  /\ UNCHANGED <<daemon, route, digest, devices, done, silent>>

\* The probe gets its answer.
ProbeEnds(c) ==
  /\ pc[c] = "probing"
  /\ Goto(c, "leaving")
  /\ UNCHANGED <<daemon, route, digest, devices, done, ok, layers, runtime, reports, faults>>

-----------------------------------------------------------------------------
(* Out of the stack *)

\* The deferred function of SupervisedBackend.RunIsolated: the digest, then the slot
\* and the wait group.
SupervisorForgets(c) ==
  /\ pc[c] = "leaving" /\ route[c] = "supervised"
  /\ supervised' = supervised \ {digest[c]}
  /\ Goto(c, "freeing")
  /\ UNCHANGED <<daemon, route, digest, devices, done, ok, slots, leased, active, runtime, reports, faults>>

SupervisorFrees(c) ==
  /\ pc[c] = "freeing"
  /\ slots' = slots - 1
  /\ Return(c)
  /\ UNCHANGED <<daemon, supervised, leased, active, runtime, reports, faults>>

\* Client.release.
ClientReleases(c) ==
  /\ pc[c] = "leaving" /\ route[c] = "gpu"
  /\ leased' = [g \in Devices |->
                  IF g \in devices[c] /\ leased[g] = digest[c] THEN NoDigest ELSE leased[g]]
  /\ Return(c)
  /\ UNCHANGED <<daemon, supervised, slots, active, runtime, reports, faults>>

ProbeReturns(c) ==
  /\ pc[c] = "leaving" /\ route[c] = "ready"
  /\ Return(c)
  /\ UNCHANGED <<daemon, layers, runtime, reports, faults>>

-----------------------------------------------------------------------------

\* A step of a call that its goroutine takes as soon as it is scheduled.
Step(c) ==
  \/ SupervisorAdmits(c) \/ SupervisorProbes(c) \/ (\E g \in Devices : ClientAcquires(c, g))
  \/ EntryRefused(c) \/ BackendAdmits(c) \/ BackendProbes(c) \/ BackendRefuses(c)
  \/ RunFails(c) \/ PrepareLeaves(c) \/ CreateLeaves(c) \/ CreateCancelled(c) \/ NewContainer(c)
  \/ StartTask(c) \/ StartFails(c) \/ RunEnds(c) \/ Cleanup(c) \/ CleanupFails(c) \/ ProbeEnds(c)
  \/ SupervisorForgets(c) \/ SupervisorFrees(c) \/ ClientReleases(c) \/ ProbeReturns(c)

Close == CloseBackend \/ CloseEngine \/ CloseReturn

Next ==
  \/ Open \/ CloseSupervisor \/ Close \/ Exit \/ Crash \/ OperatorCleans
  \/ \E c \in Calls :
       \/ Step(c) \/ Cancel(c)
       \/ \E d \in Digests \cup {NoDigest}, r \in {"supervised", "gpu", "ready"} : Enter(c, r, d)
  \/ \E d \in Digests : TaskExits(d)

Spec == Init /\ [][Next]_vars

\* A goroutine that can go on does; workloads need not end by themselves, callers need
\* not cancel.
FairSpec == Spec /\ WF_vars(Close) /\ \A c \in Calls : WF_vars(Step(c))

-----------------------------------------------------------------------------
(* Properties *)

\* Every variable holds values of its kind, and the books balance: the sets and the
\* slots that the layers keep are those of the calls inside them.
TypeOK ==
  /\ process \in {"down", "open"} \cup Closing /\ maxActive \in ActiveLimits
  /\ pc \in [Calls -> Places]
  /\ route \in [Calls -> {"supervised", "gpu", "ready"}]
  /\ digest \in [Calls -> Digests \cup {NoDigest}]
  /\ devices \in [Calls -> SUBSET Devices]
  /\ done \in [Calls -> BOOLEAN] /\ ok \in [Calls -> BOOLEAN]
  /\ container \in [Digests -> {"absent", "created", "running", "stopped"}]
  /\ attached \in [Digests -> SUBSET Devices]
  /\ workspace \subseteq Digests /\ unclean \subseteq Digests /\ silent \subseteq Digests
  /\ faults \in 0..MaxFaults
  /\ slots = Cardinality(InSupervisor)
  /\ active = {digest[c] : c \in InBackend \ Probes}
  /\ \A g \in Devices :
       leased[g] # NoDigest <=> \E c \in Calls : g \in devices[c] /\ digest[c] = leased[g]

\* At most Config.MaxActive runs are inside the engine, at most MaxSupervised of them came
\* through the supervisor, and no two have the same digest ("a second live workload
\* cannot use the same execution digest").  No capacity is lost either: a slot that is
\* taken, or a digest that is active, is that of a call inside.
CapacityHeld ==
  LET runs == InBackend \ Probes
  IN  /\ slots = Cardinality(InSupervisor) /\ active = {digest[c] : c \in runs}
      /\ Cardinality(runs) <= maxActive
      /\ Cardinality({c \in runs : route[c] = "supervised"}) <= MaxSupervised
      /\ \A c1, c2 \in runs : digest[c1] = digest[c2] => c1 = c2

DeviceShared(d1, d2) ==
  /\ d1 # d2 /\ container[d1] = "running" /\ container[d2] = "running"
  /\ attached[d1] \cap attached[d2] # {}

\* Two workloads that are alive share a device only if the cleanup of one of them has
\* been reported as failed, whatever crashed before (CheckResidue refuses to open).
LeasesExclusive ==
  \A d1, d2 \in Digests : DeviceShared(d1, d2) => d1 \in unclean \/ d2 \in unclean

\* Two workloads that are alive never share a device ("exclusive local leases").
DevicesExclusive == \A d1, d2 \in Digests : ~DeviceShared(d1, d2)

\* A run that reports success has left no container, snapshot or workspace behind.
SuccessClean ==
  [][\A c \in Calls :
       pc[c] \in Engine /\ pc'[c] = "leaving" /\ ok'[c]
         => container'[digest[c]] = "absent" /\ digest[c] \notin workspace']_vars

\* No call uses the engine once it is closed, and when Close returns no call is inside,
\* no task is left but where a failed cleanup was reported ("synchronously drains on
\* close"), and anything else that is left was reported too or is of a run that failed
\* in its preparation: prepareWorkspace drops the error of its own cleanup, and Run
\* removes only the snapshot of a NewContainer that was cancelled.
DrainedOnClose ==
  /\ process \in {"engineClosed", "closed"} => InBackend = {}
  /\ process = "closed" =>
       /\ InSupervisor = {}
       /\ \A d \in Digests :
            /\ container[d] \in {"running", "stopped"} => d \in unclean
            /\ container[d] # "absent" \/ d \in workspace => d \in unclean \cup silent

\* Close returns, although no workload ends by itself: it cancels what runs.
CloseReturns == process \in Closing ~> process \in {"closed", "down"}
=============================================================================
