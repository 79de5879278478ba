---------------------------- MODULE CgroupProbe ----------------------------
(***************************************************************************)
(* pkg/probe on Linux: which cgroup directories bound the memory and the    *)
(* CPUs of the process, and what they say.                                  *)
(*                                                                         *)
(* A path is the sequence of its names.  A setup is what /proc/self/cgroup  *)
(* and /proc/self/mountinfo say:                                            *)
(*   v1       the version 1 controllers the process is a member of;         *)
(*   unified  whether it has an entry of version 2;                         *)
(*   member   its path (the same in every hierarchy);                       *)
(*   mounts   cgroup mounts: version, the cgroup at the root of the mount,  *)
(*            the mount point and, for version 1, the controllers.          *)
(* Files are what the kernel shows: memory[g], quota[g] and cpus[g] for a   *)
(* cgroup g.  Text that does not parse is the value Bad.                    *)
(***************************************************************************)
EXTENDS Integers, Sequences, FiniteSetsExt

CONSTANTS Missing,         \* there is no such file
          Unlimited,       \* "max", or -1 for a version 1 quota
          Bad,             \* anything the parsers refuse
          Error,           \* the answer of a call that fails
          MaxLogicalCPUs, MaxCgroupDepth

-----------------------------------------------------------------------------
(* selectCgroupMount *)

\* mountHasController, and the version the caller asks for
HasController(m, version, controller) ==
  m.version = version /\ (version = 2 \/ controller \in m.controllers)

\* A path is root or below it.
Within(root, path) == Len(root) <= Len(path) /\ SubSeq(path, 1, Len(root)) = root

\* resolveCgroupPath: the directories of mount m from the member's up to the mount
\* point, as the cgroups they show.  A member "/" is the root of a cgroup namespace.
Resolves(m, member) == Within(m.root, member) \/ member = <<>>
Relative(m, member) ==
  IF Within(m.root, member) THEN SubSeq(member, Len(m.root) + 1, Len(member)) ELSE <<>>

\* The mounts in the order of mountinfo: a deeper root replaces the one selected; one
\* as deep must be the same mount again.  (A root's depth stands for its length.)
Candidates(s, version, controller) ==
  {i \in DOMAIN s.mounts : HasController(s.mounts[i], version, controller) /\ Resolves(s.mounts[i], s.member)}
Depth(s, i) == Len(s.mounts[i].root)

Clash(s, C, i, j) ==
  /\ i < j /\ Depth(s, i) = Depth(s, j)
  /\ \A k \in C : k <= j => Depth(s, k) <= Depth(s, j)
  /\ \/ s.mounts[i].point # s.mounts[j].point
     \/ Relative(s.mounts[i], s.member) # Relative(s.mounts[j], s.member)
SelectMount(s, version, controller) ==
  LET C == Candidates(s, version, controller)
  IN  IF C = {} \/ \E i, j \in C : Clash(s, C, i, j) THEN Error
      ELSE s.mounts[CHOOSE i \in C : \A j \in C : Depth(s, j) <= Depth(s, i)]

\* walkCgroupAncestors: from the member's directory up to the mount point.
Ancestors(m, member) ==
  LET r == Relative(m, member)
  IN  [i \in 1..(Len(r) + 1) |-> m.root \o SubSeq(r, 1, Len(r) + 1 - i)]

\* It gives up on a mount point that is too far away.  The set of version 2 is read in
\* the member's own directory, without a walk.
Version(s, controller) == IF controller \in s.v1 THEN 1 ELSE 2
TooDeep(s, controller, m) ==
  /\ Version(s, controller) = 1 \/ controller # "cpuset"
  /\ Len(Relative(m, s.member)) > MaxCgroupDepth

\* The cgroups whose files are read for a controller, in order: none without a
\* membership, or an error.
Walk(s, controller) ==
  IF controller \notin s.v1 /\ ~s.unified THEN <<>>
  ELSE LET m == SelectMount(s, Version(s, controller), controller)
       IN  IF m = Error \/ TooDeep(s, controller, m) THEN Error ELSE Ancestors(m, s.member)

-----------------------------------------------------------------------------
(* What a file says *)

\* cgroupMemoryLimit for one directory: version 1 must have the file and has no "max".
MemoryRefused(v, version) == v \in {Bad, 0} \/ (version = 1 /\ v \in {Missing, Unlimited})
IsLimit(v) == v \notin {Missing, Unlimited, Bad, 0}
Tighter(least, v) == IF IsLimit(v) THEN Min({least, v}) ELSE least

\* quotaCPUCount
QuotaCPUCount(q) ==
  LET n == q.quota \div q.period + (IF q.quota % q.period # 0 THEN 1 ELSE 0)
  IN  Min({MaxLogicalCPUs, n})

\* cgroupV1CPUQuota and cgroupV2CPUQuota
QuotaRefused(q, version) == q = Bad \/ (version = 1 /\ q = Missing)
IsQuota(q) == q \notin {Missing, Unlimited, Bad}

\* Mutant: a part of a CPU does not count.
QuotaCPUsRoundedDown(walk, quota) ==
  {Min({MaxLogicalCPUs, quota[g].quota \div quota[g].period}) :
     g \in {h \in Range(walk) : IsQuota(quota[h])}}

QuotaCPUs(walk, quota) == {QuotaCPUCount(quota[g]) : g \in {h \in Range(walk) : IsQuota(quota[h])}}

\* cgroupV1CPUSet: the nearest cgroup whose set is not empty; what is above it is not
\* read.  The number of CPUs, none at all, or an error.
CPUSetV1(walk, cpus) ==
  LET stop == {i \in DOMAIN walk : cpus[walk[i]] # {}}
  IN  IF stop = {} THEN {}
      ELSE LET found == cpus[walk[Min(stop)]]
           IN  IF found \in {Missing, Bad} THEN {Error} ELSE {Cardinality(found)}

\* cpuset.cpus.effective of the member's own directory, if it exists.
CPUSetV2(walk, cpus) ==
  LET found == cpus[walk[1]]
  IN  IF found = Missing THEN {}
      ELSE IF found \in {Bad, {}} THEN {Error} ELSE {Cardinality(found)}

\* The CPU part of effectiveLinuxResources.
EffectiveCPUs(s, system, quota, cpus) ==
  LET cpuWalk == Walk(s, "cpu")
      setWalk == Walk(s, "cpuset")
      sets == IF setWalk = <<>> THEN {}
              ELSE IF Version(s, "cpuset") = 1 THEN CPUSetV1(setWalk, cpus)
              ELSE CPUSetV2(setWalk, cpus)
  IN  IF cpuWalk = Error \/ setWalk = Error THEN Error
      ELSE IF \E g \in Range(cpuWalk) : QuotaRefused(quota[g], Version(s, "cpu")) THEN Error
      ELSE IF Error \in sets THEN Error
      ELSE Min({system, MaxLogicalCPUs} \cup QuotaCPUs(cpuWalk, quota) \cup sets)
=============================================================================
