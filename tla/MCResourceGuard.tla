-------------------------- MODULE MCResourceGuard --------------------------
(* Hosts of one to four nested cgroups: version 2, version 1, both, a mount of *)
(* a subtree, a cgroup namespace.  Memory in units of which the host has 9.   *)
EXTENDS ResourceGuard, TLC

Root == <<>>
A == <<"a">>
AB == <<"a", "b">>
ABC == <<"a", "b", "c">>
MCGroups == {Root, A, AB, ABC}

Mount2(root, point) == [version |-> 2, root |-> root, point |-> point, controllers |-> {}]
Mount1(root, point, cs) == [version |-> 1, root |-> root, point |-> point, controllers |-> cs]

Files(root, a, ab) == (Root :> root) @@ (A :> a) @@ (AB :> ab) @@ (ABC :> Missing)
Quota(q, p) == [quota |-> q, period |-> p]
NoQuota == Files(Missing, Unlimited, Unlimited)

Setup(v1, unified, member, home, mounts, mem, quota, cpus) ==
  [v1 |-> v1, unified |-> unified, member |-> member, home |-> home, mounts |-> mounts,
   memory |-> mem, quota |-> quota, cpus |-> cpus]

MCSetups ==
  {Setup({}, TRUE, AB, AB, <<Mount2(Root, 1)>>, NoQuota, q, Files(Missing, {0, 1, 2}, Missing)) :
     q \in {Files(Missing, Quota(3, 2), Unlimited), Files(Missing, Quota(1, 2), Quota(3, 1))}}
  \cup
  {Setup({}, TRUE, AB, AB, <<Mount2(Root, 1), Mount2(A, 2), Mount2(A, 2)>>,
         Files(Missing, 8, Unlimited), Files(Missing, Unlimited, Quota(5, 2)), Files(Missing, {0}, {0, 1, 2})),
   Setup({"memory", "cpu", "cpuset"}, TRUE, AB, AB,
         <<Mount1(Root, 1, {"memory"}), Mount1(Root, 2, {"cpu"}), Mount1(Root, 3, {"cpuset"}), Mount2(Root, 4)>>,
         Files(12, 8, 4), Files(Unlimited, Quota(5, 2), Unlimited), Files({0, 1, 2}, {0, 1}, {})),
   Setup({"memory"}, TRUE, Root, A, <<Mount1(A, 1, {"memory"}), Mount2(A, 2)>>,
         Files(12, 8, 8), Files(Missing, Quota(2, 1), Unlimited), Files(Missing, {0, 1, 2}, {})),
   Setup({}, TRUE, AB, AB, <<Mount2(Root, 1), Mount2(Root, 2)>>, NoQuota, NoQuota, Files(Missing, {0}, {0})),
   Setup({}, TRUE, ABC, ABC, <<Mount2(Root, 1)>>, NoQuota, NoQuota, Files(Missing, {0}, {0})),
   Setup({}, FALSE, Root, Root, <<>>, NoQuota, NoQuota, Files(Missing, Missing, Missing)),
   Setup({}, TRUE, A, A, <<Mount2(Root, 1)>>, NoQuota, Files(Missing, Bad, Bad), Files(Missing, {0}, {}))}

MCMemoryValues == {4, 12, Unlimited}

MCGPUs == {[status |-> "available", driver |-> TRUE, devices |-> <<[vram |-> 2, used |-> 1], [vram |-> 1, used |-> 1]>>],
           [status |-> "available", driver |-> TRUE, devices |-> <<[vram |-> 2, used |-> 0]>>]}
=============================================================================
