--------------------------- MODULE ResourceGuard ---------------------------
(***************************************************************************)
(* internal/resourceguard over pkg/probe: a goroutine samples the host on a *)
(* timer and decides, with hysteresis, whether new work is admitted.        *)
(*                                                                         *)
(* The sampler is a probe of the host: the memory limit of every cgroup on  *)
(* the way to the mount point is a read of its own, and limits may change   *)
(* between two reads; the CPU files are those of the setup.  A sample may   *)
(* fail at any time (a read, its context, a panic that safeSample           *)
(* recovers).  Health's GPU text, which nothing decides on, is left out.    *)
(***************************************************************************)
EXTENDS CgroupProbe

CONSTANTS Groups,            \* cgroups: their paths
          Setups,            \* a setup, home, and the files memory, quota, cpus
          MemoryValues,      \* what memory limits may become
          GPUs,              \* states of the GPUs: [status, driver, devices]
          SystemMemory, SystemCPUs,
          MinimumObservedRAM, RequiredRAM, RequiredVRAM,
          FailureThreshold, RecoveryThreshold

ASSUME ThresholdAssumption ==
  FailureThreshold \in Nat \ {0} /\ RecoveryThreshold \in Nat \ {0}

\* Paths and the cgroups above them; sizes and counts.
ASSUME HostAssumption ==
  /\ Groups \subseteq Seq(STRING)
  /\ \A g \in Groups : \A n \in 0..Len(g) : SubSeq(g, 1, n) \in Groups
  /\ SystemMemory \in Nat /\ SystemCPUs \in Nat
  /\ MaxLogicalCPUs \in Nat /\ MaxCgroupDepth \in Nat

MemoryTexts == {Missing, Unlimited, Bad} \cup Nat
QuotaTexts == {Missing, Unlimited, Bad} \cup [quota : Nat, period : Nat \ {0}]

\* The process is a member of its own cgroup, home; in a cgroup namespace, of which home
\* is the root, its path is "/" and the mounts show home.
ASSUME SetupsAssumption ==
  /\ MemoryValues \subseteq MemoryTexts
  /\ \A s \in Setups :
       /\ s.home \in Groups
       /\ s.mounts \in Seq(Range(s.mounts)) /\ \A m \in Range(s.mounts) : m.root \in Seq(STRING)
       /\ \/ s.member = s.home
          \/ s.member = <<>>
       /\ s.member = <<>> => \A m \in Range(s.mounts) : m.root = s.home
       /\ s.memory \in [Groups -> MemoryTexts] /\ s.quota \in [Groups -> QuotaTexts]
       /\ \A g \in Groups : s.cpus[g] \in {Missing, Bad} \/ IsFiniteSet(s.cpus[g])

VARIABLES setup,       \* the host, as the process sees it
          fixed,       \* what a probe makes of the parts of the setup that never change
          memory,      \* the memory limits of the cgroups
          gpu,         \* the GPUs
          loop,        \* where run is: waiting, reading, sampled, done
          todo,        \* cgroups whose limit is still to be read
          report,      \* the report in the making: memory, CPUs and GPUs, or Error
          ready, failures, recoveries,         \* the guard
          cancelled,   \* the first Shutdown cancelled the context
          caller,      \* a Shutdown call: idle, waiting, nil, incomplete
          steady,      \* ghost: cgroups whose limit has not changed in this probe
          recent       \* ghost: the latest samples, TRUE for a good one

host == <<setup, fixed, memory, gpu>>
probing == <<todo, report, steady>>
guard == <<ready, failures, recoveries, recent>>
shutdown == <<cancelled, caller>>
vars == <<host, loop, probing, guard, shutdown>>

Window == Max({FailureThreshold, RecoveryThreshold})

-----------------------------------------------------------------------------
(* evaluate *)

ValidDevice(d) == d.vram # 0 /\ d.used <= d.vram
VRAM(devices) == MapThenSumSet(LAMBDA i : devices[i].vram, DOMAIN devices)

SafeMemory(bytes) == bytes >= MinimumObservedRAM /\ RequiredRAM <= bytes - bytes \div 4
SafeGPU(g) ==
  \/ RequiredVRAM = 0
  \/ /\ g.status = "available" /\ g.driver /\ g.devices # <<>>
     /\ \A i \in DOMAIN g.devices : ValidDevice(g.devices[i])
     /\ RequiredVRAM <= VRAM(g.devices)
Safe(r) == r # Error /\ SafeMemory(r.memory) /\ SafeGPU(r.gpu)

-----------------------------------------------------------------------------
(* The probe *)

\* The timer fires and the probe begins: memberships and mounts are read, and the
\* mount for the memory controller is selected.
Start ==
  /\ loop = "waiting"
  /\ IF fixed.walk = Error
     THEN loop' = "sampled" /\ todo' = <<>> /\ report' = Error
     ELSE loop' = "reading" /\ todo' = fixed.walk /\ report' = [memory |-> SystemMemory]
  /\ steady' = Groups
  /\ UNCHANGED <<host, guard, shutdown>>

\* Mutant: the first limit found on the way up decides.
ReadStopsAtFirst ==
  /\ loop = "reading" /\ todo # <<>>
  /\ LET v == memory[Head(todo)]
     IN  IF MemoryRefused(v, Version(setup, "memory"))
         THEN loop' = "sampled" /\ todo' = <<>> /\ report' = Error
         ELSE /\ todo' = IF IsLimit(v) THEN <<>> ELSE Tail(todo)
              /\ report' = [report EXCEPT !.memory = Tighter(@, v)]
              /\ UNCHANGED loop
  /\ UNCHANGED <<host, steady, guard, shutdown>>

\* One directory of cgroupMemoryLimit's walk.
ReadMemory ==
  /\ loop = "reading" /\ todo # <<>>
  /\ LET v == memory[Head(todo)]
     IN  IF MemoryRefused(v, Version(setup, "memory"))
         THEN loop' = "sampled" /\ todo' = <<>> /\ report' = Error
         ELSE /\ todo' = Tail(todo)
              /\ report' = [report EXCEPT !.memory = Tighter(@, v)]
              /\ UNCHANGED loop
  /\ UNCHANGED <<host, steady, guard, shutdown>>

\* The rest of effectiveLinuxResources, CPU quotas and CPU sets, and of Collect: the
\* GPUs, whose failures are part of the report.
ReadCPUs ==
  /\ loop = "reading" /\ todo = <<>>
  /\ report' = IF fixed.cpus = Error THEN Error
               ELSE [memory |-> report.memory, cpus |-> fixed.cpus, gpu |-> gpu]
  /\ loop' = "sampled"
  /\ UNCHANGED <<host, todo, steady, guard, shutdown>>

\* The sample ends with an error: a file that cannot be read, a sampler that finds its
\* context over, a panic.
SampleFails ==
  /\ loop = "reading"
  /\ loop' = "sampled" /\ todo' = <<>> /\ report' = Error
  /\ UNCHANGED <<host, steady, guard, shutdown>>

-----------------------------------------------------------------------------
(* record *)

Good ==
  /\ failures' = 0
  /\ IF ready \/ recoveries + 1 >= RecoveryThreshold
     THEN ready' = TRUE /\ recoveries' = 0
     ELSE recoveries' = recoveries + 1 /\ UNCHANGED ready

\* Mutant: a failure leaves the count of recoveries alone.
ShortageKeepsRecoveries ==
  /\ failures' = Min({failures + 1, FailureThreshold})
  /\ ready' = (ready /\ failures + 1 < FailureThreshold)
  /\ UNCHANGED recoveries

Shortage ==
  /\ recoveries' = 0
  /\ failures' = Min({failures + 1, FailureThreshold})
  /\ ready' = (ready /\ failures + 1 < FailureThreshold)

Record ==
  /\ loop = "sampled"
  /\ IF Safe(report) THEN Good ELSE Shortage
  /\ recent' = SubSeq(<<Safe(report)>> \o recent, 1, Min({Len(recent) + 1, Window}))
  /\ loop' = "waiting" /\ todo' = <<>> /\ report' = Error /\ steady' = {}
  /\ UNCHANGED <<host, shutdown>>

-----------------------------------------------------------------------------
(* Shutdown *)

Shutdown ==
  /\ caller \in {"idle", "incomplete"}
  /\ cancelled' = TRUE /\ caller' = "waiting"
  /\ UNCHANGED <<host, loop, probing, guard>>

\* run's select sees the cancelled context.
Exit ==
  /\ loop = "waiting" /\ cancelled
  /\ loop' = "done"
  /\ UNCHANGED <<host, probing, guard, shutdown>>

\* Mutant: Shutdown does not wait for the loop.
ReturnAtOnce ==
  /\ caller = "waiting"
  /\ caller' = "nil"
  /\ UNCHANGED <<host, loop, probing, guard, cancelled>>

ShutdownReturns ==
  /\ caller = "waiting" /\ loop = "done"
  /\ caller' = "nil"
  /\ UNCHANGED <<host, loop, probing, guard, cancelled>>

\* The caller's context ends first: ErrShutdownIncomplete.
ShutdownIncomplete ==
  /\ caller = "waiting"
  /\ caller' = "incomplete"
  /\ UNCHANGED <<host, loop, probing, guard, cancelled>>

-----------------------------------------------------------------------------
(* The host *)

\* The limit of a cgroup that holds the process, below the root, is rewritten.
SetMemory(g, v) ==
  /\ g # <<>> /\ Within(g, setup.home) /\ v # memory[g]
  /\ memory' = [memory EXCEPT ![g] = v]
  /\ steady' = steady \ {g}
  /\ UNCHANGED <<setup, fixed, gpu, loop, todo, report, guard, shutdown>>

SetGPU(x) ==
  /\ x # gpu
  /\ gpu' = x
  /\ UNCHANGED <<setup, fixed, memory, loop, probing, guard, shutdown>>

\* New: the initial report was safe, or there is no guard; limits may have changed since.
Init ==
  /\ setup \in Setups
  /\ fixed = [walk |-> Walk(setup, "memory"),
              cpus |-> EffectiveCPUs(setup, SystemCPUs, setup.quota, setup.cpus)]
  /\ memory = setup.memory
  /\ gpu \in GPUs
  /\ SafeMemory(SystemMemory) /\ SafeGPU(gpu)
  /\ loop = "waiting" /\ todo = <<>> /\ report = Error
  /\ ready = TRUE /\ failures = 0 /\ recoveries = 0
  /\ cancelled = FALSE /\ caller = "idle"
  /\ steady = {} /\ recent = <<>>

Sampling == Start \/ ReadMemory \/ ReadCPUs \/ SampleFails \/ Record
Next ==
  \/ Sampling \/ Exit
  \/ Shutdown \/ ShutdownReturns \/ ShutdownIncomplete
  \/ \E g \in Groups, v \in MemoryValues : SetMemory(g, v)
  \/ \E x \in GPUs : SetGPU(x)
Spec == Init /\ [][Next]_vars

\* Go's select chooses among the ready cases at random, so a context that stays
\* cancelled is seen (strong fairness).  The timer fires; the sampler runs in the loop
\* itself and Collect takes no context: what keeps a sample going is that its reads
\* return, not its timeout.
FairSpec ==
  /\ Spec
  /\ WF_vars(Start \/ ReadMemory \/ ReadCPUs \/ Record)
  /\ SF_vars(Exit) /\ WF_vars(ShutdownReturns)

-----------------------------------------------------------------------------
(* Reference: what the kernel enforces *)

\* The cgroups of a controller that hold the process and that its deepest mount shows.
Enforced(controller) ==
  LET version == Version(setup, controller)
      roots == {m.root : m \in {n \in Range(setup.mounts) :
                  /\ n.version = version /\ (version = 2 \/ controller \in n.controllers)
                  /\ Within(n.root, setup.home)}}
      base == CHOOSE r \in roots : \A q \in roots : Len(q) <= Len(r)
  IN  IF controller \notin setup.v1 /\ ~setup.unified THEN {}
      ELSE {g \in Groups : Within(base, g) /\ Within(g, setup.home)}

\* n CPUs are usable: a part of a CPU counts as one.
Usable(n) ==
  /\ n <= SystemCPUs /\ n <= MaxLogicalCPUs
  /\ \A g \in Enforced("cpu") :
       IsQuota(setup.quota[g]) => (n - 1) * setup.quota[g].period < setup.quota[g].quota
  /\ LET named == {g \in Enforced("cpuset") : setup.cpus[g] \notin {Missing, {}}}
     IN  IF "cpuset" \in setup.v1
         THEN \A g \in named :
                (\A h \in named : Len(h) <= Len(g)) => n <= Cardinality(setup.cpus[g])
         ELSE setup.home \in named => n <= Cardinality(setup.cpus[setup.home])

\* One cgroup's limit is too small.
Tight(g) ==
  /\ g \in Enforced("memory") /\ IsLimit(memory[g])
  /\ 4 * RequiredRAM > 3 * memory[g] + 3

-----------------------------------------------------------------------------
(* Properties *)

TypeOK ==
  /\ setup \in Setups /\ gpu \in GPUs
  /\ loop \in {"waiting", "reading", "sampled", "done"}
  /\ ready \in BOOLEAN /\ cancelled \in BOOLEAN
  /\ failures \in 0..FailureThreshold /\ recoveries \in 0..(RecoveryThreshold - 1)
  /\ caller \in {"idle", "waiting", "nil", "incomplete"}
  /\ recent \in Seq(BOOLEAN) /\ Len(recent) <= Window

\* A report that is not an error never says more memory than the host has, or than a
\* limit that stood during the whole probe, whatever else changed meanwhile; when nothing
\* changed, it is exactly the least of them.  Its CPUs are the largest number the quotas
\* and the CPU set of the process leave usable (effectiveLinuxResources).
ReportExact ==
  (loop = "sampled" /\ report # Error) =>
    LET limited == {g \in Enforced("memory") : IsLimit(memory[g])}
    IN  /\ report.memory <= SystemMemory
        /\ \A g \in limited \cap steady : report.memory <= memory[g]
        /\ Enforced("memory") \subseteq steady =>
             report.memory \in {SystemMemory} \cup {memory[g] : g \in limited}
        /\ Usable(report.cpus) /\ ~Usable(report.cpus + 1)

\* Admission closes exactly when FailureThreshold samples in a row were bad, and opens
\* again exactly when RecoveryThreshold in a row were good (record).
Failed == Len(recent) >= FailureThreshold /\ \A i \in 1..FailureThreshold : ~recent[i]
Recovered == Len(recent) >= RecoveryThreshold /\ \A i \in 1..RecoveryThreshold : recent[i]
Hysteresis ==
  /\ [](Failed => ~ready)
  /\ [](Recovered => ready)
  /\ [][ready' # ready => IF ready' THEN Recovered' ELSE Failed']_vars

\* "Shutdown must stop any sampling before it returns successfully": once it returned
\* nil the loop has ended and the health no longer changes; and once it was called the
\* loop does end, even if that call gave up waiting.
ShutdownStops ==
  /\ [](caller = "nil" => loop = "done")
  /\ [][caller = "nil" => UNCHANGED <<loop, guard>>]_vars
  /\ cancelled ~> loop = "done"

\* Admission follows the host, until shutdown.  If one limit stays too tight, or the GPUs
\* stay too small, it ends closed (a shortage that moves from cgroup to cgroup may escape
\* every probe).  If every limit stays wide enough and samples stop failing, it ends open.
Adequate ==
  /\ fixed.walk # Error /\ fixed.cpus # Error
  /\ \A g \in Enforced("memory") :
       /\ ~MemoryRefused(memory[g], Version(setup, "memory"))
       /\ IsLimit(memory[g]) => SafeMemory(memory[g])
  /\ SafeGPU(gpu)
AdmissionFollows ==
  /\ \A g \in Groups : <>[]Tight(g) => <>[](~ready \/ cancelled)
  /\ <>[](~SafeGPU(gpu)) => <>[](~ready \/ cancelled)
  /\ (<>[]Adequate /\ <>[][~SampleFails]_vars) => <>[](ready \/ cancelled)
=============================================================================
