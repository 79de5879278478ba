# TLA+ models of tos-ai

The repository builds the provider side of paid software work: events arrive
from Messenger, an execution is claimed, the work runs once in an isolated
container, and its result is recorded and published. Beside that path it keeps
a local commerce gate, a store for private uploads, a two-slot software updater,
GPU leases and a guard over the resources of the host. Nearly all of
it is small state machines over private directories, where what can go wrong is
a crash, a power loss, a failed file call or a second caller between two steps.
The models keep those steps apart and check what the code says it guarantees.

## The system and its modules

| Part (source) | State | Operations | Module |
|---|---|---|---|
| Runner and journal (`pkg/softwarework`), object store (`pkg/artifactstore`), directory lock (`internal/dirlock`) | journal record per execution ID, objects, mutex, lock | Execute = Claim, run, Put twice, Complete; OpenJournal, Close | `SoftwareWork`, promise in `ExecutionPromise`, proofs in `SoftwareWorkProofs` |
| Event bridge (`pkg/messengereventbridge`), adapters (`pkg/a2aadapter`, `pkg/mcpadapter`), worker (`cmd/tos-messenger-event-worker`) | outbox and inbound journal records, publisher list | receive, enqueue, Complete, PublishPending, Stop, Close | `EventBridge`, proofs in `EventBridgeProofs` |
| Commerce gate (`pkg/commercegate`) | execution record, effect response file, mutex, lock | Open with recovery, Prepare, Start, MarkRunning, Complete, PerformHTTPS, export of evidence, Close | `CommerceGate`, proofs in `CommerceGateProofs` |
| Private ingress (`pkg/privateingress`) | challenge record per handoff, object per content | Open, IssueChallenge, Accept, Delete, Close | `PrivateIngress`, proofs in `PrivateIngressProofs` |
| Artifact locator (`pkg/artifacthttp`) with store, agent packet adapter (`pkg/agentpacketadapter`) and worker | publication index, registered descriptors, objects, settled executions | openWorker, Execute = run, Put twice, ArtifactURL twice, Settle; Close | `ArtifactPublication`, proofs in `ArtifactPublicationProofs` |
| Resource guard (`internal/resourceguard`) over the host probe (`pkg/probe`) | health and its counters, the report in the making, limits of cgroups, GPUs | sampling loop, record, Shutdown; cgroup limits as operators | `ResourceGuard`, `CgroupProbe`, proofs in `ResourceGuardProofs` |
| Software update (`pkg/softwareupdate`, `pkg/update`) | `state.json`, artifact and manifest of two slots | Open with recovery, Stage, ActivatePending, ConfirmHealthy, Rollback, Close | `SoftwareUpdate`, proofs in `SoftwareUpdateProofs` |
| Execution stack (`pkg/executor`, `containerdbackend`, `executor/gpuisolation`) | slots, active digests, leases, containers, workspaces | RunIsolated, CheckReady, acquire and release, cleanup, Open, Close | `Sandbox`, proofs in `SandboxProofs` |
| File system (external) | one name: what is seen, what its blocks and its directory may hold after a power loss | create, write, sync, rename, remove, directory sync | `DurableFile` |

How they interact: the worker's handlers call the adapters, which call the
runner, which calls the executor, which runs in the sandbox. `EventBridge` does
not repeat the runner: it takes it by the promise that `SoftwareWork` is shown to
keep (a claim is granted once; an answer belongs to the request that was run).
`SoftwareWork` in turn sees the executor only as a call that is entered, and
returns, fails or never answers. `ArtifactPublication` composes the store, the
locator, an adapter and successive workers, and takes the runner by the same
promise. All modules with files share `DurableFile`, and those with a private
directory the directory lock.

The models start where a request is valid. Decoding, signatures, authorisation
and configuration are conditions that refuse and change nothing; where a refusal
can happen at any time (a gate, a fence, a bound file) the action that refuses is
always enabled.

### DurableFile

A name has the content a process sees, the contents its blocks may hold
(`data`: more than one between a write and its sync), and the contents the
directory may still name (`old`: until the directory is synced). A crash changes
nothing; a power loss keeps one survivor. Every record is written by one call,
so a file is whole or unreadable (`Torn`).

### SoftwareWork

A handler is a call of `Runner.Execute`; `pc` is its place. Claim is split at the
create, the write, the sync and the directory sync, Complete at the rename and
the directory sync, Put at the link and the directory sync: at each place the
process may die. `Journal.Close` lets go of the lock and stops nobody, so a
process may be `"closed"` with handlers at work while another owns the journal.
Answers carry how they came about: `"owner"` from the handler that ran the work,
`"replay"` from a record. Only the former is durable when it is given: a replay
reads a record whose directory sync may have failed.

### EventBridge

A thread is a request on one of the two sockets. The A2A adapter puts the time of
the request into its Task and turns a runner error into a failed Task; the MCP
adapter does neither. (`docs/messenger-event-boundary.md:36-38` says that an execution
failure returns non-202; on the A2A path the failed Task is recorded and answered
with 202, and the model follows the code.) Of the runner's journal an execution has the
record of its claim, of a completion that was renamed, and of one that was synced:
a replay may read the second kind, and a power loss may undo it (`undone`). Outbound results and inbound `mcp.result`s are in two
directories with a mutex each; `closed` holds those that `worker.Close` has
closed. The publisher is an actor of its own. Messenger is external: it may
deliver any Event again at any time, and queues a result once for each
idempotency key. Restarts assume that the sockets of a dead worker are gone
(the service unit's `RuntimeDirectory`).

### CommerceGate

A call is one invocation of an operation with its arguments, chosen when it
begins: an older fence, any ticket that Prepare returned, any launch that its
process holds. Recovery inside Open is two steps for each record. PerformHTTPS
leaves the mutex for the network and takes it again to record the end of the
effect. A plan has one effect; CANCELLED and KILLED are treated as FAILED. An
export reads the record twice, once for the evidence and once for the assertion
that cites it, with the mutex released between (`Export`, `AssertOutcome`).
Resolve and Inspect only read. Close is called when no call is running; the
option `"close"` in `Faults` drops that assumption.

### PrivateIngress

One call at a time (mutex and directory lock), stopped at any file call.
`createPrivate` and `replacePrivate` are split at the create, the write, the sync,
the rename and the directory sync. When the create of a record or an object
fails, the code reads the name again and goes on if it holds what it wanted;
`FileFails` does the same, so content may be accepted that was found and not
synced (`bytes` in `accepted` says which). A challenge record carries the terms,
the key and at most one upload and one deletion. Handoffs with the same content
share its object. A call whose signature, fence or ciphertext does not verify is
refused at any time. OpenAccepted and Acknowledge are the operator `OpenAccepted`.
`findChallenge`, with which Accept and Delete begin, refuses a directory of more than
`MaxEntries` entries (10000 in the code); `temporaries` counts the files that a
`replacePrivate` was cut short over, which count there and which nobody removes. Close
is called when no call runs or waits for the mutex: one that waits has looked at the
lock before (`store.go:106`, `189` and `335`) and would go on without it.

### ArtifactPublication

A call is `Adapter.Execute` in one worker. `pc` goes from the claim over the two
Puts and `Complete` to the two `ArtifactURL`s and the settlement; the writing of
the index is split at the rename and the directory sync, inside the locator's
mutex. A worker releases the journal's lock when it closes, which may be before
its last call has ended (`worker.Run` waits for two of three goroutines): `late`
remembers that such a call replaced the index. `cut` remembers an index whose
write had failed, `adopted` and `taken` what was found unsynced. The adapters take
any runner and the store any bytes, so outcomes may share objects; those of
`softwarework.Runner` never do, since its report holds the execution ID.

### ResourceGuard and CgroupProbe

`CgroupProbe` has the pure part of `effectiveLinuxResources`: which mount is
selected for a controller, which cgroups are walked, and what memory limits, CPU
quotas and CPU sets amount to, and that a walk of more than `MaxCgroupDepth` steps up
is refused. Paths are sequences of names; memberships, mounts and CPU sets are given
parsed. `ResourceGuard` makes every read of a memory limit a step
of the sampling loop, while limits and GPUs change under it. What cannot change
(mounts, CPU files) is evaluated once, in `fixed`. The guard takes any sampler and
no other package of the repository uses it; the model takes it to be `probe.Collect`.
The reference in `ReportExact` (`Enforced`, `Usable`) is stated over the tree of
cgroups; of the definitions the probe uses it takes only `Version`, `Within`,
`IsLimit` and `IsQuota`.

### SoftwareUpdate

One operation at a time (mutex and lock), stopped anywhere. `next` and `after`
say what state is being stored and for whom. `trusted` remembers whether every
opener found a synced state file and no file call failed; `good`, `floor` and
`boots` are history variables for the properties.

### Sandbox

A call goes through the supervisor or the GPU client to the backend's door, then
through the engine. Containers outlive the process. Each `Open` chooses
`Config.MaxActive` from `ActiveLimits`. `unclean` holds the digests whose failed cleanup
a call reported, `silent` those of which something was left without a report:
`prepareWorkspace` drops the error of its own cleanup (`PrepareLeaves`), and a
`NewContainer` that was cancelled after containerd had recorded the container leaves
the record (`CreateCancelled`).

## What the runs check

| Run | Instance and bounds | Result |
|---|---|---|
| `softwarework` | 1 ID, 2 fingerprints, 2 processes, 3 handlers (two of one process), any number of crashes and power losses | at most one entry into the executor; claims and owner answers durable; objects behind every answer; ambiguous IDs stay so; refinement of `ExecutionPromise`; every call returns |
| `bridge` | an A2A Event and an inbound result, 2 threads, 3 deliveries, 2 crashes or power losses, any failing calls and removals | a 202 and a queued result agree with the one record of the Event; synced records survive; complete means queued; success is backed by a completed execution (but for what a power loss undid) |
| `bridge_live` | two routed Events, 2 deliveries, 1 crash or stop, any failing calls | acknowledged results are queued in the end |
| `bridge_retry` (violated) | one A2A Event, 2 deliveries | the redelivery is refused as a conflict |
| `commerce` | 1 slot, 2 processes, 3 calls, 2 generations, 2 secrets, 1 crash or power loss, any failing calls | one launch, one submission, responses behind terminal effects, endings kept and never invented, assertions not older than their evidence |
| `update` | 3 releases with 2 revisions, 3 faults | known-good slot bootable and selected (as long as state files were synced), active slots intact, revision kept, one boot |
| `sandbox` | 2 calls, 2 digests, 1 device, 1 supervisor slot, a backend of 1 or 2 runs, 1 fault | capacity held and not lost, exclusive devices, clean success, drained and returning Close |
| `sandbox_devices` (violated) | one failed cleanup | two live workloads share a device |
| `ingress` | 2 handoffs, 3 uploads of one content, 3 deletions, 2 keys for each handoff, 4 directory entries, 2 faults | an accepted upload stays the accepted one; its bytes stay until a deletion is journaled; deleted bytes stay away; a repeated deletion ends, unless the directory is and stays too large |
| `artifacts` | 2 workers with a call each, 2 executions with the same bytes and other media types, 1 fault | what was settled stays in index and store and is served by every later worker; the index always lets a worker start |
| `artifacts_index` (violated) | the same, 1 failed write | the index of a settled execution becomes unreadable |
| `host` | 4 cgroups, 9 setups (version 2 with two sets of quotas, with a mount of a subtree, with ambiguous mounts, with a member too deep and with an unreadable quota; version 1 beside version 2, also in a cgroup namespace; no cgroups), 3 memory values, 2 GPU states, thresholds of 2 | reports as tight as the host; hysteresis; Shutdown stops the loop; admission follows lasting changes |

Why the bounds are enough: the properties are about one execution, Event, slot or
device at a time, and the conflicts are between two actors; a third handler or
call is there so that two of one process meet one of another. Bounds on
deliveries, faults, generations and secrets count the events that can change a
record. Runs with two faults or more let one strike during the recovery from
another. `artifacts`, `sandbox`, `commerce` and `bridge_live` have one, to stay short; the
same instances with `MaxFaults = 2` were checked once and hold as well (4.3
million, 2.3 million, 1.1 million and 0.16 million states, three to seven minutes
each). With one slot in the supervisor both its limit and the backend's bind: a backend of one run
refuses the second call, by whichever route, and a backend of two leaves the second
supervised call to the supervisor. Dropping either bound, or the check of the digest,
violates `CapacityHeld`. Four directory entries (the lock, two records, one object) are
as many as the instance makes, so that one abandoned temporary may exceed the bound. Thresholds of 2 are
the least that tell hysteresis from none; a cgroup between root and member is the
least that has an ancestor and a descendant. Symmetry is used for
threads and calls in runs without liveness only. Deadlock is checked in
`softwarework`; the other instances stop at their bounds, or where the program
stops (an opener that refuses what it finds, a loop that was shut down).

No run lists a `TypeOK`. They document the variables; all but that of `ResourceGuard`
are proved, with the inductive invariants.

Fairness. `SoftwareWork`: strong fairness of a handler's steps, because
`sync.Mutex` starves no waiter and the executor returns by its deadline.
`EventBridge`: the service manager restarts the worker, requests and completions
go on, the publish loop ticks, and of the calls to the daemon for one result some
succeed; a worker that was told to stop closes its directories (strong fairness,
for the mutex) and then ends. `Sandbox`: weak fairness of goroutines and of Close;
nothing is assumed of workloads or callers. `PrivateIngress`: the store is opened
again, a call goes on, and the owner repeats a deletion in progress with a fence
that verifies some of the time (strong fairness: the property is about an owner
that does, and repeats it whatever the earlier calls said). `ResourceGuard`: the timer
fires and a sample ends (weak fairness). It ends because the reads of the probe return:
the sampler runs in the loop itself, the timeout only cancels a context, and
`probe.Collect` takes none (`guard_test.go:168` has a sampler that ignores its context,
and Shutdown gives up on it). Strong fairness for the exit of the loop, since Go's
`select` chooses at random among the cases that are ready.

### What the violated runs show

- `bridge_retry`: a Task contains the request's time, so a redelivered A2A Event
  never equals its own record and gets 503 for ever.
- `sandbox_devices`: `Client.RunIsolated` releases its lease though the cleanup
  failed and the container is still on the device.
- `artifacts_index`: the error of the write goes to a shadowed variable, so an
  index that was cut short is synced and renamed over the good one, and no worker
  can open it afterwards.

### Limits the properties spell out

Where the code does less than one may wish, the property names the case instead of
leaving it out of the model:

- a crash between the create and the write of an outbox record leaves a file that
  `Pending` cannot read, and `Pending` fails as a whole: `AckedPublished` excuses
  an unreadable record, and nothing else;
- a 202 given for a record that was found, not synced, may be undone by a power
  loss, and so may a record the publisher listed (`lost` in `AckedRecorded` and
  `QueuedRecorded`); likewise a completion the runner answered from (`undone` in
  `SuccessBacked`);
- a failed preparation may leave a workspace, and a cancelled creation a container's
  record without a task, of which no call reports anything (`silent` in
  `DrainedOnClose`); `CheckResidue` and the empty-root check refuse the next `Open`;
- a directory of the private ingress that has outgrown its bound refuses every Accept
  and Delete, so a deletion in progress cannot end there (`DeletionEnds`);
- an opener of the updater trusts a `state.json` that was renamed and not synced:
  `ConfirmedWhenSynced` and `BootableWhenSynced` hold for synced ones. Otherwise a
  confirmation may be lost after the next release was staged over the older slot;
- `Gate.Close` takes no mutex: with `"close"` in `Faults` a Start in progress and a
  Start of the next owner both launch;
- evidence and assertion of an execution in progress may differ
  (`AssertionFollows` allows a later assertion, never an earlier one);
- content or an object that was found and not synced may be lost with the power
  (`KeptUntilJournaled`, `SettledKept`, `IndexOpens`), as may content whose deletion
  went on from a journal entry it found (`resumed`); and a deletion for one
  handoff takes the bytes from another with the same content;
- a call of a worker that has released the journal's lock may overwrite the index
  of the next worker (`late` in `SettledKept` and `SettledServed`);
- a memory shortage that moves from cgroup to cgroup during a walk may escape
  every probe; limits above the root of the deepest mount are not seen; and a
  process whose path is "/" is measured by the deepest mount there is.

## What is proved

Every safety property of the passing runs is a theorem, for every value of the
constants: any numbers of IDs, Events, processes, handlers, calls, releases, handoffs
and cgroups, and any number of faults where the model bounds them. The
assumptions are the named ones of the modules: null values are not proper values,
functions have their domains, bounds are natural numbers. Where there is one more
it is said below.

The proofs over files have the same form. Most of the properties are not inductive: they
speak of what was answered, launched or deleted while a step only looks at the
file in front of it. The inductive invariant adds how far on disk the caller's
record is at each of its places, that it is alone there (by an exclusive create, a
mutex or the directory lock), and what the other names a power loss may bring up
can hold. A lemma for each conjunct says that every step keeps it; those rest on
lemmas that say once what any step may do to a record (`JournalStep` in
`SoftwareWorkProofs`, `SlotStep` in `CommerceGateProofs`, `RecordsStep` in
`PrivateIngressProofs` and `EventBridgeProofs`, `DiskStep` in
`SoftwareUpdateProofs`, `NextMoves` in `ArtifactPublicationProofs`). Each module
begins with the types that the operators of `DurableFile` keep (`FileTypes`). TLC finds the inductive invariants true on the instances of the runs
as well (with `INVARIANT BridgeInv` and so on over the proof modules; no
configuration is kept for it).

`SoftwareWorkProofs`:

- `RunsAtMostOnce` (`AtMostOnce`), `RunsOnlyClaimed` (`ClaimedBeforeRun`) and
  `TypeCorrect`. A step into the executor is safe only because the handler holds a
  lease, a lease is exclusive only because of the create, and it stays so only
  because the claim is durable. `SafeInv` adds exactly this: a claimant (from its
  create to its entry) is alone on its ID, before any run of it (`ClaimantAlone`);
  its record is as far on disk as its place says (`ClaimProgress`); a handler in a
  run owns the first (`OwnerRuns`); a synced file holds what is seen
  (`SeenSurvives`).
- `AnswersAreBacked` (`AnswersBacked`) and `OwnerAnswersAreKept`
  (`OwnerAnswerKept`), from a second invariant on top, `AnswerInv`: the objects of
  a run are as far in the store as its place says, and a completed record, wherever
  a power loss may bring it up, is that of the one run and has its objects.
- `StrandedStays` (`StrandedForever`), an action property: a record that reads
  "running" with nobody at work hides no completed one (`RunningAlone`).
- `ImplementsPromise` (`KeepsPromise`): the refinement of `ExecutionPromise`.
  `Start`, `ClaimReplay` and the directory sync of Complete are steps of the
  promise, all others stutter.

`CommerceGateProofs`, under `CarefulClose`: nobody closes a Gate under its own
running calls (`"close" \notin Faults`, as in the run; without it `OneLaunch` is
false, see the limits above):

- `LaunchesOnce` (`OneLaunch`), `SubmitsOnce` (`OneEffect`), `TerminalHasResponse`
  (`TerminalBacked`), `CompletionStays` (`CompletionKept`), `RunningIsHeld`
  (`RunningHeld`), `AssertionsFollow` (`AssertionFollows`), `OrphansNeverEnd`
  (`OrphanNeverEnds`, an action property).
- `Control` has the types, which call may be where (`CallOK`, `PlaceOK`), that the mutex
  is held exactly between Lock and Unlock (`MutexOK`), and that only the owner of the
  directory has calls (`GateOwned`). `GateInv` adds that a record about to be written follows
  from the one still there (`CreateProgress`, `ReplaceProgress`), what
  can be read once something was launched or sent (`LaunchedStarted`,
  `EffectOnce`), the response behind a terminal record (`ResponseProgress`), and
  that an end a power loss may bring up is the one that is read (`EndSeen`).

`SoftwareUpdateProofs`, for any releases and revisions:

- `NeverLockedOut` (`BootableWhenSynced`), `RunsConfirmed` (`ConfirmedWhenSynced`),
  `ActiveStaysIntact` (`ActiveIntact`), `RevisionStays` (`RevisionKept`), `BootsOnce`
  (`OneBoot`). `UpdateInv` relates the Manager's state, the one being stored, every
  state file that may be found, and the two slots; `Synchronised` says that they
  agree as long as nothing unsynced was trusted.

`PrivateIngressProofs`:

- `AcceptedStays` (`AcceptedKept`), `BytesKeptUntilJournaled`
  (`KeptUntilJournaled`), `DeletedStaysGone` (`DeletedGone`). In `IngressInv` the
  record a call writes still belongs to the challenge it read (`Writing`), the
  object is as far as the call's place says (`StoringBytes`), and a deletion that
  any readable record calls finished is so in every survivor (`Settledness`).

`EventBridgeProofs`:

- `AckedStaysRecorded` (`AckedRecorded`), `QueuedIsRecorded` (`QueuedRecorded`),
  `DoneOnlyQueued` (`DoneIsQueued`), `SuccessIsBacked` (`SuccessBacked`). In
  `BridgeInv` who writes in a directory holds its mutex (`Exclusive`); whoever
  creates a record finds that nothing was answered, queued or listed of an earlier
  one but what a power loss undid (`Fresh`); what the publisher has listed is still
  recorded (`Listed`); and a success, recorded or on its way, has its completed
  execution (`Backing`), renamed at least, unless a power loss undid it.

`SandboxProofs`, whose state is in memory and in containerd rather than in files:

- `BooksBalance` (`TypeOK`, with the slots, active digests and leases that the layers
  keep), `CapacityIsHeld` (`CapacityHeld`), `LeasesAreExclusive` (`LeasesExclusive`),
  `CloseDrains` (`DrainedOnClose`), `SuccessIsClean` (`SuccessClean`, an action
  property). In `SandboxInv` the slots count the supervisor's calls (`Slots`), each
  active digest has one run (`Active`), each leased device one holder (`Leasing`), and
  while the process lives every task whose cleanup was not reported as failed has its
  run, and so has every container or workspace but the `unclean` and `silent` ones; a
  container has the devices of its run (`Attended`). Bounds on cardinalities
  need no assumption that `Calls` is finite: the sets in use are.

`ArtifactPublicationProofs`, for any executions, workers and calls:

- `EveryIndexOpens` (`IndexOpens`), `SettledIsKept` (`SettledKept`),
  `SettledIsServed` (`SettledServed`) and `PublicationTypeOK`. The properties speak of
  settled executions; what makes them inductive is where a descriptor is before its
  execution is settled. In `PublicationInv` the objects of a run are in the store as
  far as its place says (`Stored`); every index that may be found, and every locator,
  names kept objects, with one descriptor for a digest (`Indexed`); a call that
  settles has both descriptors registered (`Published`). As long as no index was
  written by a worker that had released the lock (`~late`), the index in place names
  whatever any locator has or a call has renamed and not yet registered, the worker
  that serves has it too, and what was not read from an unsynced index is in every
  index a power loss may leave (`Handed`); so is what was settled (`SettledHeld`).
  The steps are first reduced to what they do to that state (`Renames`, `Syncs`,
  `Opens`, `LosesPower` and so on, `NextMoves`), and each of those keeps `Handed` by a
  lemma of its own. TLC finds `PublicationInv` true in the 1,598,751 states of the
  run's instance.

`ResourceGuardProofs`, for any cgroups, setups, limits and thresholds:

- `ReportsAreExact` (`ReportExact`). One half is about the operators of
  `CgroupProbe`: the mount that is selected is the deepest one that shows the
  process's cgroup (`Selected`), so the walk visits exactly the cgroups the kernel
  enforces, from the process's own upwards (`WalkMeans`); the quotas round up
  (`RoundedUp`), the nearest CPU set that is not empty is the longest named one
  (`SetV1Means`), and so the number reported is the largest usable (`CPUsMeans`). The
  other half is the probe, which reads limit after limit while they change: in
  `Probed` the minimum so far is at most every limit that was read and still stands,
  and is one of the limits, or the host's memory, as long as none changed (`Bounds`).
- `AdmissionHysteresis` (`Hysteresis`, all three parts). The property looks at the
  latest samples, the code at two counters; `Counted` says what the counters know of
  the samples: as many bad ones in front as `failures`, with a good one before unless
  the threshold is reached, and likewise for `recoveries` while admission is closed.
- `ShutdownIsFinal`, the safety part of `ShutdownStops`.
- The assumptions beside the thresholds: the cgroup above a cgroup is one, sizes are
  natural numbers (`HostAssumption`); the process is a member of its own cgroup, or of
  "/" in a cgroup namespace whose mounts show that cgroup, and files hold what the
  parsers tell apart (`SetupsAssumption`). TLC evaluates both in the run `host`, and
  finds `Counted` and `Probed` true in its 95,256 states.

Only model-checked:

- liveness, which is outside the prover's reach: `EveryCallReturns`,
  `AckedPublished`, `CloseReturns`, `DeletionEnds`, `AdmissionFollows` and the last
  part of `ShutdownStops`.

## Not modelled

- Capability gate, ceilings of the execution policy, OCI specification, metering:
  pure decisions or field-by-field translations; a model would repeat them.
- HTTP servers and boundary, Unix listener: the state is that of the kernel's
  sockets and of Go's server; what is left is a lock and a counting channel.
- Metrics export: the collector keeps the last snapshot of each alias, and nothing
  decides on it. (It takes the time before its mutex, so of two uploads at once the
  older may stay.)
- The texts of `/proc` and of configuration files, NVML, systemd: parsing and I/O.
- The conformance harness: tests, of properties that `Sandbox` states.
- Signatures, digests and encryption, everywhere: a call they refuse is refused.
- Damage to stored files, and the chmod after an artifact's rename, are outside
  `DurableFile`. The sum of VRAM is unbounded; the code refuses one past 64 bits.

## Plan

1. Composition of the runner with the sandbox: the worker's single backend slot
   and the journal.
