------------------------- MODULE ResourceGuardProofs -------------------------
(***************************************************************************)
(* Proofs about ResourceGuard, for any hosts, limits and thresholds: the    *)
(* hysteresis of the admission, what a Shutdown that returned leaves        *)
(* behind, and that a report says what the kernel enforces.                 *)
(***************************************************************************)
EXTENDS ResourceGuard, FiniteSetTheorems, WellFoundedInduction, TLAPS

\* The time limits, in seconds, of the leaves that name no prover.
USE SMTT(30), ZenonT(20)

-----------------------------------------------------------------------------
(* The inductive invariants. *)

Samples == BOOLEAN

\* The good ones among the latest samples.
Hits == {i \in DOMAIN recent : recent[i]}

\* g bad samples, at most m, are in front of l of which G are good.
Leading(g, m, l, G) ==
  /\ g \in 0..m /\ g <= l /\ \A i \in 1..g : i \notin G
  /\ g < m => (l = g \/ g + 1 \in G)

\* r good samples are in front of l, and are not enough or are m.
Regained(r, m, l, G) ==
  /\ r <= l /\ \A i \in 1..r : i \in G
  /\ r < m => (r < l /\ r + 1 \notin G)

\* The counters, as what the latest samples were: failures of them were bad, and the one
\* before was not; while admission is closed, recoveries were good, and the one before
\* was not.
Counted ==
  /\ ready \in BOOLEAN /\ recent \in Seq(Samples) /\ Len(recent) <= Window
  /\ Leading(failures, FailureThreshold, Len(recent), Hits)
  /\ recoveries \in 0..(RecoveryThreshold - 1)
  /\ ready => failures < FailureThreshold /\ recoveries = 0
  /\ ~ready => Regained(recoveries, RecoveryThreshold, Len(recent), Hits)

-----------------------------------------------------------------------------
(* Least and greatest. *)

LEMMA LeastNatural ==
  ASSUME NEW S, S \subseteq Nat, S # {}
  PROVE  \E n \in S : \A m \in S : n <= m
  <1>1. PICK n \in S : \A m \in S : <<m, n>> \notin OpToRel(<, Nat)
    BY NatLessThanWellFounded, WFMin, Zenon
  <1>2. \A m \in S : ~(m < n)
    BY <1>1, Zenon DEF OpToRel
  <1> QED
    BY <1>2

LEMMA MinMeans == \A a, b \in Int : Min({a, b}) = IF a <= b THEN a ELSE b
  BY DEF Min

LEMMA WindowMeans == Window \in Nat /\ Window >= FailureThreshold /\ Window >= RecoveryThreshold
  BY ThresholdAssumption DEF Window, Max

-----------------------------------------------------------------------------
(* Hysteresis. *)

LEMMA Prepended ==
  ASSUME NEW S, NEW r \in Seq(S), NEW b \in S
  PROVE  /\ <<b>> \o r \in Seq(S) /\ Len(<<b>> \o r) = Len(r) + 1
         /\ (<<b>> \o r)[1] = b /\ \A i \in 1..Len(r) : (<<b>> \o r)[i + 1] = r[i]
  OBVIOUS

LEMMA FirstOnes ==
  ASSUME NEW S, NEW t \in Seq(S), NEW n \in 0..Len(t)
  PROVE  /\ SubSeq(t, 1, n) \in Seq(S) /\ Len(SubSeq(t, 1, n)) = n
         /\ \A i \in 1..n : SubSeq(t, 1, n)[i] = t[i]
  OBVIOUS

\* Record puts one sample in front of the latest ones.
Latest(b, r) == SubSeq(<<b>> \o r, 1, Min({Len(r) + 1, Window}))

Shifted(q, b, r) ==
  /\ q \in Seq(Samples) /\ Len(r) \in Nat /\ Len(q) \in Nat /\ Len(q) <= Window
  /\ DOMAIN r = 1..Len(r) /\ DOMAIN q = 1..Len(q)
  /\ Len(q) = Len(r) + 1 \/ (Len(r) = Window /\ Len(q) = Window)
  /\ 1 \in 1..Len(q) /\ q[1] = b
  /\ \A i \in 1..(Len(q) - 1) : i + 1 \in 1..Len(q) /\ i \in 1..Len(r) /\ q[i + 1] = r[i]

LEMMA LatestMeans ==
  ASSUME NEW r \in Seq(Samples), Len(r) <= Window, NEW b \in Samples, NEW q, q = Latest(b, r)
  PROVE  Shifted(q, b, r)
  <1> DEFINE n == IF Len(r) + 1 <= Window THEN Len(r) + 1 ELSE Window
             t == <<b>> \o r
             w == Window
             k == Len(r)
  <1>1. Min({k + 1, w}) = n /\ n \in 0..(k + 1) /\ w \in Nat \ {0} /\ k \in Nat
    BY MinMeans, WindowMeans, ThresholdAssumption
  <1>2. t \in Seq(Samples) /\ Len(t) = k + 1 /\ t[1] = b /\ \A i \in 1..k : t[i + 1] = r[i]
    BY Prepended
  <1>3. n = IF k + 1 <= w THEN k + 1 ELSE w
    BY Zenon
  <1>4. k <= w /\ q = SubSeq(t, 1, n)
    BY <1>1, Zenon DEF Latest
  <1>5. n \in 0..Len(t)
    BY <1>1, <1>2, Zenon
  <1> HIDE DEF t, n, w, k
  <1>6. q \in Seq(Samples) /\ Len(q) = n /\ \A i \in 1..n : q[i] = t[i]
    <2>1. /\ SubSeq(t, 1, n) \in Seq(Samples) /\ Len(SubSeq(t, 1, n)) = n
          /\ \A i \in 1..n : SubSeq(t, 1, n)[i] = t[i]
      BY <1>2, <1>5, FirstOnes
    <2> QED
      BY <1>4, <2>1, Zenon
  <1>7. n <= w /\ (n = k + 1 \/ (k = w /\ n = w)) /\ 1 \in 1..n
    BY <1>1, <1>3, <1>4
  <1>8. ASSUME NEW i \in 1..(n - 1) PROVE i + 1 \in 1..n /\ i \in 1..k /\ q[i + 1] = r[i]
    <2>1. i + 1 \in 1..n /\ i \in 1..k
      BY <1>1, <1>7
    <2> QED
      BY <1>2, <1>6, <2>1, Zenon
  <1>9. DOMAIN r = 1..Len(r) /\ DOMAIN q = 1..Len(q) /\ n \in Nat
    BY <1>1, <1>6
  <1> QED
    BY <1>1, <1>2, <1>6, <1>7, <1>8, <1>9, Zenon DEF k, w, Shifted

\* A bad sample: one more of them in front, or as many as count.
LEMMA BadCount ==
  ASSUME NEW m \in Nat \ {0}, NEW w \in Nat, w >= m, NEW n \in Nat, NEW l \in Nat,
         l = n + 1 \/ (n = w /\ l = w), NEW H, NEW G, \A i \in 1..(l - 1) : i + 1 \in G <=> i \in H,
         NEW f, Leading(f, m, n, H), 1 \notin G, NEW g, g = IF f + 1 <= m THEN f + 1 ELSE m
  PROVE  Leading(g, m, l, G)
  <1>1. g \in 0..m /\ g <= l
    BY DEF Leading, Regained
  <1>2. ASSUME NEW i \in 1..g PROVE i \notin G
    <2>1. CASE i # 1
      <3>1. i - 1 \in 1..f /\ i - 1 \in 1..(l - 1) /\ (i - 1) + 1 = i
        BY <1>1, <2>1 DEF Leading, Regained
      <3> QED
        BY <3>1 DEF Leading, Regained
    <2> QED
      BY <2>1
  <1>3. ASSUME g < m, l # g PROVE g + 1 \in G
    <2>1. g = f + 1 /\ f + 1 \in H /\ g \in 1..(l - 1)
      BY <1>1, <1>3 DEF Leading
    <2> QED
      BY <2>1, Zenon
  <1> QED
    BY <1>1, <1>2, <1>3 DEF Leading

\* A good one while admission is closed: one more in front, or enough of them.
LEMMA GoodCount ==
  ASSUME NEW m \in Nat \ {0}, NEW w \in Nat, w >= m, NEW n \in Nat, NEW l \in Nat,
         l = n + 1 \/ (n = w /\ l = w), NEW H, NEW G, \A i \in 1..(l - 1) : i + 1 \in G <=> i \in H,
         NEW r \in 0..(m - 1), Regained(r, m, n, H), 1 \in G
  PROVE  Regained(r + 1, m, l, G)
  <1>1. r + 1 <= l /\ (r + 1 < m => r + 1 \in 1..(l - 1))
    BY DEF Leading, Regained
  <1>2. ASSUME NEW i \in 1..(r + 1) PROVE i \in G
    <2>1. CASE i # 1
      <3>1. i - 1 \in 1..r /\ i - 1 \in 1..(l - 1) /\ (i - 1) + 1 = i
        BY <1>1, <2>1 DEF Leading, Regained
      <3> QED
        BY <3>1, Zenon DEF Leading, Regained
    <2> QED
      BY <2>1, Zenon
  <1> QED
    BY <1>1, <1>2 DEF Regained

LEMMA Thresholds ==
  /\ FailureThreshold \in Nat \ {0} /\ RecoveryThreshold \in Nat \ {0} /\ Window \in Nat
  /\ Window >= FailureThreshold /\ Window >= RecoveryThreshold
  /\ 0 < FailureThreshold /\ 0 \in 0..(RecoveryThreshold - 1)
  /\ \A r \in 0..(RecoveryThreshold - 1) :
       IF r + 1 >= RecoveryThreshold THEN r + 1 = RecoveryThreshold ELSE r + 1 \in 0..(RecoveryThreshold - 1)
  BY ThresholdAssumption, WindowMeans

LEMMA HitsMeans ==
  ASSUME Counted
  PROVE  /\ Failed => Len(recent) >= FailureThreshold /\ \A i \in 1..FailureThreshold : i \notin Hits
         /\ Recovered => \A i \in 1..RecoveryThreshold : i \in Hits
  <1>1. Len(recent) \in Nat /\ DOMAIN recent = 1..Len(recent)
    BY DEF Counted
  <1>2. ASSUME Recovered, NEW i \in 1..RecoveryThreshold PROVE i \in Hits
    <2>1. Len(recent) >= RecoveryThreshold /\ recent[i]
      BY <1>2, Zenon DEF Recovered
    <2>2. i \in 1..Len(recent)
      BY <1>1, <2>1, Thresholds
    <2> QED
      BY <1>1, <2>1, <2>2, Zenon DEF Hits
  <1> QED
    BY <1>2, Zenon DEF Failed, Hits

\* A sample more, as Record sees it.
LEMMA HitsStep ==
  ASSUME Counted, Record
  PROVE  /\ recent' \in Seq(Samples) /\ Len(recent) \in Nat /\ Len(recent') \in Nat
         /\ Len(recent') <= Window
         /\ Len(recent') = Len(recent) + 1 \/ (Len(recent) = Window /\ Len(recent') = Window)
         /\ \A i \in 1..(Len(recent') - 1) : i + 1 \in Hits' <=> i \in Hits
         /\ 1 \in Hits' <=> Safe(report)
         /\ \A i \in 1..Len(recent') : i \notin Hits' => ~recent'[i]
         /\ \A i \in Hits' : recent'[i]
  <1>1. Safe(report) \in Samples
    BY Zenon DEF Safe, Samples
  <1>2. recent \in Seq(Samples) /\ Len(recent) <= Window /\ recent' = Latest(Safe(report), recent)
    BY Zenon DEF Counted, Record, Latest
  <1>3. Shifted(recent', Safe(report), recent)
    BY <1>1, <1>2, LatestMeans, Zenon
  <1> QED
    BY <1>3, Zenon DEF Hits, Shifted

LEMMA Good0 ==
  ASSUME NEW m \in Nat \ {0}, NEW l \in Nat, NEW G, 1 \in G
  PROVE  Leading(0, m, l, G)
  BY DEF Leading

\* A good sample keeps what is counted, and opens admission only after enough of them.
LEMMA GoodCounts ==
  ASSUME Counted, Record, Safe(report)
  PROVE  Counted' /\ (ready' # ready => ready' /\ Recovered')
  <1>0. /\ recent' \in Seq(Samples) /\ Len(recent) \in Nat /\ Len(recent') \in Nat
        /\ Len(recent') <= Window
        /\ Len(recent') = Len(recent) + 1 \/ (Len(recent) = Window /\ Len(recent') = Window)
        /\ \A i \in 1..(Len(recent') - 1) : i + 1 \in Hits' <=> i \in Hits
        /\ 1 \in Hits' /\ \A i \in Hits' : recent'[i]
    BY HitsStep, Zenon
  <1>1. failures' = 0 /\ Leading(failures', FailureThreshold, Len(recent'), Hits')
    BY <1>0, Good0, Thresholds, Zenon DEF Record, Good
  <1>2. CASE ready
    <2>1. ready' = TRUE /\ recoveries' = 0
      BY <1>2, Zenon DEF Record, Good
    <2> QED
      BY <1>0, <1>1, <1>2, <2>1, Thresholds, Zenon DEF Counted
  <1>3. CASE ~ready
    <2>1. Regained(recoveries + 1, RecoveryThreshold, Len(recent'), Hits')
      BY <1>0, <1>3, GoodCount, Thresholds, Zenon DEF Counted
    <2>2. CASE recoveries + 1 >= RecoveryThreshold
      <3>1. ready' = TRUE /\ recoveries' = 0
        BY <2>2, Zenon DEF Record, Good
      <3>2. recoveries + 1 = RecoveryThreshold
        BY <2>2, Thresholds, Zenon DEF Counted
      <3>3. RecoveryThreshold <= Len(recent') /\ \A i \in 1..RecoveryThreshold : recent'[i]
        BY <1>0, <2>1, <3>2, Zenon DEF Regained
      <3>4. Len(recent') >= RecoveryThreshold
        BY <1>0, <3>3, Thresholds, Zenon
      <3> QED
        BY <1>0, <1>1, <3>1, <3>3, <3>4, Thresholds, Zenon DEF Counted, Recovered
    <2>3. CASE ~(recoveries + 1 >= RecoveryThreshold)
      <3>1. ready' = ready /\ recoveries' = recoveries + 1
        BY <1>3, <2>3, Zenon DEF Record, Good
      <3>2. recoveries + 1 \in 0..(RecoveryThreshold - 1)
        BY <2>3, Thresholds, Zenon DEF Counted
      <3> QED
        BY <1>0, <1>1, <1>3, <2>1, <3>1, <3>2, Zenon DEF Counted
    <2> QED
      BY <2>2, <2>3, Zenon
  <1> QED
    BY <1>2, <1>3, Zenon

\* A bad sample keeps it too, and closes admission only after enough of them.
LEMMA BadCounts ==
  ASSUME Counted, Record, ~Safe(report)
  PROVE  Counted' /\ (ready' # ready => ~ready' /\ Failed')
  <1>0. /\ recent' \in Seq(Samples) /\ Len(recent) \in Nat /\ Len(recent') \in Nat
        /\ Len(recent') <= Window
        /\ Len(recent') = Len(recent) + 1 \/ (Len(recent) = Window /\ Len(recent') = Window)
        /\ \A i \in 1..(Len(recent') - 1) : i + 1 \in Hits' <=> i \in Hits
        /\ 1 \notin Hits' /\ \A i \in 1..Len(recent') : i \notin Hits' => ~recent'[i]
    BY HitsStep, Zenon
  <1>1. failures \in Int /\ failures <= FailureThreshold
    BY Thresholds DEF Counted, Leading
  <1>2. failures' = IF failures + 1 <= FailureThreshold THEN failures + 1 ELSE FailureThreshold
    BY <1>1, MinMeans, Thresholds DEF Record, Shortage
  <1>3. Leading(failures', FailureThreshold, Len(recent'), Hits')
    BY <1>0, <1>2, BadCount, Thresholds, Zenon DEF Counted
  <1>4. recoveries' = 0 /\ ready' = (ready /\ failures + 1 < FailureThreshold)
    BY Zenon DEF Record, Shortage
  <1>5. Regained(0, RecoveryThreshold, Len(recent'), Hits')
    BY <1>0, Thresholds DEF Regained
  <1>6. Counted'
    <2>1. CASE failures + 1 < FailureThreshold
      <3>1. failures' < FailureThreshold
        BY <1>1, <1>2, <2>1, Thresholds
      <3> QED
        BY <1>0, <1>3, <1>4, <1>5, <2>1, <3>1, Thresholds, Zenon DEF Counted
    <2>2. CASE ~(failures + 1 < FailureThreshold)
      BY <1>0, <1>3, <1>4, <1>5, <2>2, Thresholds, Zenon DEF Counted
    <2> QED
      BY <2>1, <2>2, Zenon
  <1>7. ASSUME ready' # ready PROVE ~ready' /\ Failed'
    <2>1. ~ready' /\ ~(failures + 1 < FailureThreshold)
      BY <1>4, <1>7, Zenon DEF Counted
    <2>2. failures' = FailureThreshold
      BY <1>1, <1>2, <2>1, Thresholds
    <2>3. FailureThreshold <= Len(recent') /\ \A i \in 1..FailureThreshold : i \notin Hits'
      BY <1>3, <2>2, Zenon DEF Leading
    <2>4. Len(recent') >= FailureThreshold /\ \A i \in 1..FailureThreshold : i \in 1..Len(recent')
      BY <1>0, <2>3, Thresholds
    <2> QED
      BY <1>0, <2>1, <2>3, <2>4, Zenon DEF Failed
  <1> QED
    BY <1>6, <1>7, Zenon

\* Nothing but Record touches the guard.
LEMMA GuardStep ==
  ASSUME [Next]_vars
  PROVE  Record \/ UNCHANGED guard
  BY Zenon DEF Next, Sampling, Start, ReadMemory, ReadCPUs, SampleFails, Exit, Shutdown, ShutdownReturns,
               ShutdownIncomplete, SetMemory, SetGPU, vars, guard

LEMMA CountedStep ==
  ASSUME Counted, [Next]_vars
  PROVE  Counted' /\ (ready' # ready => IF ready' THEN Recovered' ELSE Failed')
  <1>1. CASE Record
    BY <1>1, GoodCounts, BadCounts, Zenon
  <1>2. CASE UNCHANGED guard
    BY <1>2, Zenon DEF Counted, Hits, guard
  <1> QED
    BY <1>1, <1>2, GuardStep, Zenon

LEMMA CountedInit == Init => Counted
  <1> SUFFICES ASSUME Init PROVE Counted
    BY Zenon
  <1>1. recent = <<>> /\ Len(recent) = 0 /\ recent \in Seq(Samples) /\ Hits = {}
    BY DEF Init, Hits
  <1>2. Leading(0, FailureThreshold, 0, {})
    BY Thresholds DEF Leading
  <1>3. 0 <= Window
    BY Thresholds
  <1> QED
    BY <1>1, <1>2, <1>3, Thresholds, Zenon DEF Init, Counted

LEMMA CountedMeans ==
  ASSUME Counted
  PROVE  (Failed => ~ready) /\ (Recovered => ready)
  <1>1. ASSUME Failed, ready PROVE FALSE
    <2>1. /\ Len(recent) >= FailureThreshold /\ \A i \in 1..FailureThreshold : i \notin Hits
          /\ failures < FailureThreshold /\ Leading(failures, FailureThreshold, Len(recent), Hits)
      BY <1>1, HitsMeans, Zenon DEF Counted
    <2>2. Len(recent) \in Nat
      BY DEF Counted
    <2> QED
      BY <2>1, <2>2, Thresholds DEF Leading
  <1>2. ASSUME Recovered, ~ready PROVE FALSE
    <2>1. /\ \A i \in 1..RecoveryThreshold : i \in Hits
          /\ recoveries \in 0..(RecoveryThreshold - 1)
          /\ Regained(recoveries, RecoveryThreshold, Len(recent), Hits)
      BY <1>2, HitsMeans, Zenon DEF Counted
    <2> QED
      BY <2>1, Thresholds DEF Regained
  <1> QED
    BY <1>1, <1>2, Zenon

\* Admission closes exactly when FailureThreshold samples in a row were bad, and opens
\* again exactly when RecoveryThreshold in a row were good (record).
THEOREM AdmissionHysteresis == Spec => Hysteresis
  <1>1. Counted /\ [Next]_vars => Counted'
    BY CountedStep, Zenon
  <1>2. Counted /\ [Next]_vars => [ready' # ready => IF ready' THEN Recovered' ELSE Failed']_vars
    BY CountedStep, Zenon
  <1>3. Counted => (Failed => ~ready) /\ (Recovered => ready)
    BY CountedMeans, Zenon
  <1> QED
    BY <1>1, <1>2, <1>3, CountedInit, PTL DEF Spec, Hysteresis

-----------------------------------------------------------------------------
(* Shutdown. *)

Stopped == caller = "nil" => loop = "done"

\* Once Shutdown returned nil the loop has ended, and neither it nor the health changes
\* again: the safety part of ShutdownStops.
THEOREM ShutdownIsFinal ==
  Spec => [](caller = "nil" => loop = "done") /\ [][caller = "nil" => UNCHANGED <<loop, guard>>]_vars
  <1>1. Init => Stopped
    BY Zenon DEF Init, Stopped
  <1>2. Stopped /\ [Next]_vars => Stopped' /\ [caller = "nil" => UNCHANGED <<loop, guard>>]_vars
    BY Zenon DEF Stopped, Next, Sampling, Start, ReadMemory, ReadCPUs, SampleFails, Record, Exit, Shutdown,
                 ShutdownReturns, ShutdownIncomplete, SetMemory, SetGPU, vars, probing, shutdown
  <1>3. Stopped => (caller = "nil" => loop = "done")
    BY Zenon DEF Stopped
  <1> QED
    BY <1>1, <1>2, <1>3, PTL DEF Spec

-----------------------------------------------------------------------------
(* Paths. *)

LEMMA PrefixMeans ==
  ASSUME NEW S, NEW p \in Seq(S), NEW h \in Seq(S)
  PROVE  Within(p, h) <=> Len(p) <= Len(h) /\ \A i \in 1..Len(p) : p[i] = h[i]
  BY DEF Within

LEMMA Same ==
  ASSUME NEW S, NEW p \in Seq(S), NEW q \in Seq(S), Len(p) = Len(q), \A i \in 1..Len(p) : p[i] = q[i]
  PROVE  p = q
  OBVIOUS

LEMMA PrefixEqual ==
  ASSUME NEW S, NEW p \in Seq(S), NEW q \in Seq(S), NEW h \in Seq(S),
         Within(p, h), Within(q, h), Len(p) = Len(q)
  PROVE  p = q
  BY PrefixMeans, Same

\* The first n names of a path.
LEMMA PrefixOf ==
  ASSUME NEW S, NEW h \in Seq(S), NEW n \in 0..Len(h)
  PROVE  SubSeq(h, 1, n) \in Seq(S) /\ Len(SubSeq(h, 1, n)) = n /\ Within(SubSeq(h, 1, n), h)
  <1>1. /\ SubSeq(h, 1, n) \in Seq(S) /\ Len(SubSeq(h, 1, n)) = n
        /\ \A i \in 1..n : SubSeq(h, 1, n)[i] = h[i]
    BY FirstOnes
  <1>2. n <= Len(h)
    OBVIOUS
  <1> QED
    BY <1>1, <1>2, PrefixMeans, Zenon

LEMMA Between ==
  ASSUME NEW S, NEW b \in Seq(S), NEW g \in Seq(S), NEW h \in Seq(S), Within(b, h), Within(g, h)
  PROVE  Within(b, g) <=> Len(b) <= Len(g)
  BY PrefixMeans

\* The directories from h up to b.
Way(h, b) == [i \in 1..(Len(h) + 1 - Len(b)) |-> SubSeq(h, 1, Len(h) + 1 - i)]

LEMMA WayMeans ==
  ASSUME NEW h \in Groups, NEW b \in Seq(STRING), Within(b, h)
  PROVE  /\ DOMAIN Way(h, b) = 1..(Len(h) + 1 - Len(b)) /\ Len(h) \in Nat /\ Len(b) \in 0..Len(h)
         /\ Way(h, b) \in Seq(Groups) /\ Len(Way(h, b)) = Len(h) + 1 - Len(b) /\ Way(h, b)[1] = h
         /\ \A i \in DOMAIN Way(h, b) :
              Way(h, b)[i] \in Groups /\ Len(Way(h, b)[i]) = Len(h) + 1 - i
         /\ Range(Way(h, b)) = {g \in Groups : Within(b, g) /\ Within(g, h)}
  <1> DEFINE w == Way(h, b)
             n == Len(h) + 1 - Len(b)
             at(i) == SubSeq(h, 1, Len(h) + 1 - i)
  <1>1. h \in Seq(STRING) /\ Len(h) \in Nat /\ Len(b) \in 0..Len(h) /\ n \in Nat /\ 1 \in 1..n
    BY HostAssumption, PrefixMeans
  <1>2. DOMAIN w = 1..n /\ \A i \in 1..n : w[i] = at(i)
    BY Zenon DEF Way
  <1>3. ASSUME NEW i \in 1..n
        PROVE  /\ at(i) \in Groups /\ Len(at(i)) = Len(h) + 1 - i
               /\ Within(at(i), h) /\ Within(b, at(i))
    <2>1. Len(h) + 1 - i \in 0..Len(h)
      BY <1>1
    <2>2. at(i) \in Seq(STRING) /\ Len(at(i)) = Len(h) + 1 - i /\ Within(at(i), h)
      BY <1>1, <2>1, PrefixOf, Zenon
    <2>3. at(i) \in Groups
      BY <2>1, HostAssumption, Zenon
    <2>4. Len(b) <= Len(at(i))
      BY <1>1, <2>2
    <2> QED
      BY <1>1, <2>2, <2>3, <2>4, Between, Zenon
  <1>4. w \in Seq(Groups) /\ Len(w) = n
    BY <1>1, <1>2, <1>3 DEF Way
  <1>5. at(1) = h
    <2>1. Len(h) + 1 - 1 = Len(h)
      BY <1>1
    <2> QED
      BY <1>1, <2>1
  <1>6. ASSUME NEW g \in Groups, Within(b, g), Within(g, h) PROVE \E i \in 1..n : w[i] = g
    <2>1. g \in Seq(STRING) /\ Len(g) \in Nat /\ Len(b) <= Len(g) /\ Len(g) <= Len(h)
      BY <1>1, <1>6, HostAssumption, PrefixMeans
    <2>2. PICK i \in 1..n : Len(g) = Len(h) + 1 - i
      <3>1. Len(h) + 1 - Len(g) \in 1..n /\ Len(g) = Len(h) + 1 - (Len(h) + 1 - Len(g))
        BY <1>1, <2>1
      <3> QED
        BY <3>1, Zenon
    <2>3. at(i) \in Seq(STRING) /\ Len(at(i)) = Len(g) /\ Within(at(i), h)
      BY <1>3, <2>2, HostAssumption
    <2>4. at(i) = g
      BY <1>1, <1>6, <2>1, <2>3, PrefixEqual, Zenon
    <2> QED
      BY <1>2, <2>4, Zenon
  <1>7. Range(w) = {g \in Groups : Within(b, g) /\ Within(g, h)}
    <2>1. \A g : g \in Range(w) <=> \E i \in 1..n : w[i] = g
      BY <1>2, Zenon DEF Range
    <2>2. ASSUME NEW g \in Range(w) PROVE g \in Groups /\ Within(b, g) /\ Within(g, h)
      <3>1. PICK i \in 1..n : w[i] = g
        BY <2>1, Zenon
      <3>2. at(i) = g
        BY <1>2, <3>1, Zenon
      <3> QED
        BY <1>3, <3>2, Zenon
    <2> QED
      BY <1>6, <2>1, <2>2, Zenon
  <1> QED
    BY <1>1, <1>2, <1>3, <1>4, <1>5, <1>7, Zenon

\* A path is what is above the mount's root and the rest.
Rest(h, b) == SubSeq(h, Len(b) + 1, Len(h))

LEMMA RestMeans ==
  ASSUME NEW S, NEW b \in Seq(S), NEW h \in Seq(S), Within(b, h)
  PROVE  /\ Rest(h, b) \in Seq(S) /\ Len(Rest(h, b)) = Len(h) - Len(b) /\ Len(Rest(h, b)) \in Nat
         /\ \A i \in 1..Len(Rest(h, b)) : Rest(h, b)[i] = h[Len(b) + i]
  BY PrefixMeans DEF Rest

LEMMA Rejoined ==
  ASSUME NEW S, NEW b \in Seq(S), NEW h \in Seq(S), Within(b, h), NEW k \in 0..Len(Rest(h, b))
  PROVE  b \o SubSeq(Rest(h, b), 1, k) = SubSeq(h, 1, Len(b) + k)
  <1> DEFINE r == Rest(h, b)
             q == SubSeq(r, 1, k)
             t == SubSeq(h, 1, Len(b) + k)
  <1>1. Len(b) \in Nat /\ Len(h) \in Nat /\ Len(b) <= Len(h) /\ \A i \in 1..Len(b) : b[i] = h[i]
    BY PrefixMeans
  <1>2. r \in Seq(S) /\ Len(r) = Len(h) - Len(b) /\ \A i \in 1..Len(r) : r[i] = h[Len(b) + i]
    BY RestMeans, Zenon
  <1> HIDE DEF r
  <1>3. k \in 0..Len(r) /\ k \in Nat /\ Len(b) + k \in 0..Len(h) /\ \A i \in 1..k : i \in 1..Len(r)
    BY <1>1, <1>2 DEF r
  <1>4. q \in Seq(S) /\ Len(q) = k /\ \A i \in 1..k : q[i] = r[i]
    BY <1>2, <1>3, FirstOnes, Zenon
  <1>5. t \in Seq(S) /\ Len(t) = Len(b) + k /\ \A i \in 1..(Len(b) + k) : t[i] = h[i]
    BY <1>3, FirstOnes
  <1> HIDE DEF q, t
  <1>6. b \o q \in Seq(S) /\ Len(b \o q) = Len(b) + k
    BY <1>4
  <1>7. ASSUME NEW i \in 1..(Len(b) + k) PROVE (b \o q)[i] = h[i]
    <2>1. CASE i <= Len(b)
      BY <1>1, <1>4, <2>1
    <2>2. CASE i > Len(b)
      <3>1. i - Len(b) \in 1..k /\ Len(b) + (i - Len(b)) = i
        BY <1>1, <1>3, <2>2
      <3>2. (b \o q)[i] = q[i - Len(b)]
        BY <1>3, <1>4, <2>2
      <3> QED
        BY <1>2, <1>3, <1>4, <3>1, <3>2, Zenon
    <2>3. i <= Len(b) \/ i > Len(b)
      BY <1>1, <1>3
    <2> QED
      BY <2>1, <2>2, <2>3, Zenon
  <1>8. b \o q = t
    BY <1>5, <1>6, <1>7, Same, Zenon
  <1> QED
    BY <1>8, Zenon DEF q, t, r

\* A mount that resolves shows the process's cgroup, and the walk goes from there up to
\* the mount's root.
LEMMA AncestorsMeans ==
  ASSUME NEW s \in Setups, NEW m \in Range(s.mounts), Resolves(m, s.member)
  PROVE  m.root \in Seq(STRING) /\ Within(m.root, s.home) /\ Ancestors(m, s.member) = Way(s.home, m.root)
  <1> DEFINE h == s.home
             b == m.root
             r == Relative(m, s.member)
  <1>1. h \in Groups /\ h \in Seq(STRING) /\ b \in Seq(STRING) /\ Len(h) \in Nat /\ Len(b) \in Nat
    BY HostAssumption, SetupsAssumption
  <1>2. CASE s.member = <<>>
    <2>1. b = h
      BY <1>2, SetupsAssumption, Zenon
    <2>2. r = <<>>
      BY <1>1, <1>2 DEF Relative, Within
    <2>3. Within(h, h) /\ SubSeq(h, 1, Len(h)) = h /\ Len(h) + 1 - Len(h) = 1 /\ Len(h) + 1 - 1 = Len(h)
      BY <1>1, PrefixMeans
    <2>4. Ancestors(m, s.member) = [i \in 1..1 |-> h]
      <3>1. Len(<<>>) + 1 = 1 /\ \A i \in 1..1 : h \o SubSeq(<<>>, 1, Len(<<>>) + 1 - i) = h
        BY <1>1
      <3> QED
        BY <2>1, <2>2, <3>1, Zenon DEF Ancestors
    <2>5. Way(h, b) = [i \in 1..1 |-> h]
      <3>1. \A i \in 1..1 : SubSeq(h, 1, Len(h) + 1 - i) = h
        BY <1>1, <2>3
      <3> QED
        BY <2>1, <2>3, <3>1, Zenon DEF Way
    <2> QED
      BY <1>1, <2>1, <2>3, <2>4, <2>5, Zenon
  <1>3. CASE s.member # <<>>
    <2>1. s.member = h /\ Within(b, h) /\ r = Rest(h, b)
      BY <1>3, SetupsAssumption, Zenon DEF Resolves, Relative, Rest
    <2>2. Len(r) = Len(h) - Len(b) /\ Len(r) \in Nat
      BY <1>1, <2>1, RestMeans, Zenon
    <2>3. ASSUME NEW i \in 1..(Len(r) + 1)
          PROVE  b \o SubSeq(r, 1, Len(r) + 1 - i) = SubSeq(h, 1, Len(h) + 1 - i)
      <3>1. Len(r) + 1 - i \in 0..Len(r) /\ Len(b) + (Len(r) + 1 - i) = Len(h) + 1 - i
        BY <1>1, <2>2
      <3>2. PICK k \in 0..Len(Rest(h, b)) : k = Len(r) + 1 - i
        BY <2>1, <3>1, Zenon
      <3>3. b \o SubSeq(Rest(h, b), 1, k) = SubSeq(h, 1, Len(b) + k)
        BY <1>1, <2>1, Rejoined, Zenon
      <3> QED
        BY <2>1, <3>1, <3>2, <3>3, Zenon
    <2>4. Len(r) + 1 = Len(h) + 1 - Len(b)
      BY <1>1, <2>2
    <2> QED
      BY <1>1, <2>1, <2>3, <2>4, Zenon DEF Ancestors, Way
  <1> QED
    BY <1>2, <1>3, Zenon

\* In a setup that can be, a mount resolves when it shows the process's cgroup.
LEMMA ResolvesMeans ==
  ASSUME NEW s \in Setups, NEW m \in Range(s.mounts)
  PROVE  m.root \in Seq(STRING) /\ Len(m.root) \in Nat /\ (Resolves(m, s.member) <=> Within(m.root, s.home))
  <1>1. s.home \in Seq(STRING) /\ m.root \in Seq(STRING) /\ Len(s.home) \in Nat /\ Len(m.root) \in Nat
    BY HostAssumption, SetupsAssumption
  <1>2. CASE s.member = <<>>
    <2>1. m.root = s.home
      BY <1>2, SetupsAssumption, Zenon
    <2>2. Within(s.home, s.home)
      BY <1>1, PrefixMeans
    <2> QED
      BY <1>1, <1>2, <2>1, <2>2, Zenon DEF Resolves
  <1>3. CASE s.member # <<>>
    BY <1>1, <1>3, SetupsAssumption, Zenon DEF Resolves
  <1> QED
    BY <1>2, <1>3, Zenon

\* One of the indices is as deep as any.
LEMMA Deepest ==
  ASSUME NEW s \in Setups, NEW C, C # {}, C \subseteq DOMAIN s.mounts,
         \A i \in C : Resolves(s.mounts[i], s.member)
  PROVE  \E i \in C : \A j \in C : Depth(s, j) <= Depth(s, i)
  <1> DEFINE n == Len(s.home)
             S == {n - Depth(s, i) : i \in C}
  <1>1. ASSUME NEW i \in C PROVE Depth(s, i) \in Nat /\ Depth(s, i) <= n /\ n \in Nat
    <2>1. s.mounts[i] \in Range(s.mounts)
      BY Zenon DEF Range
    <2>2. s.mounts[i].root \in Seq(STRING) /\ Within(s.mounts[i].root, s.home)
      BY <2>1, ResolvesMeans, Zenon
    <2>3. s.home \in Seq(STRING)
      BY HostAssumption, SetupsAssumption, Zenon
    <2> QED
      BY <2>2, <2>3, PrefixMeans DEF Depth
  <1> HIDE DEF n
  <1>2. S \subseteq Nat /\ S # {}
    BY <1>1
  <1>3. PICK k \in S : \A j \in S : k <= j
    BY <1>2, LeastNatural, Zenon
  <1>4. PICK i \in C : k = n - Depth(s, i)
    BY <1>3, Zenon
  <1>5. ASSUME NEW j \in C PROVE Depth(s, j) <= Depth(s, i)
    <2>1. n - Depth(s, i) <= n - Depth(s, j)
      BY <1>3, <1>4, Zenon
    <2> QED
      BY <1>1, <2>1
  <1> QED
    BY <1>5, Zenon

\* What the kernel enforces starts at the deepest mount, the one that is selected.
Roots(s, c) ==
  {m.root : m \in {n \in Range(s.mounts) :
     /\ n.version = Version(s, c) /\ (Version(s, c) = 2 \/ c \in n.controllers)
     /\ Within(n.root, s.home)}}
Base(s, c) == CHOOSE r \in Roots(s, c) : \A q \in Roots(s, c) : Len(q) <= Len(r)

LEMMA Selected ==
  ASSUME NEW s \in Setups, NEW c, NEW m, m = SelectMount(s, Version(s, c), c), m # Error
  PROVE  m \in Range(s.mounts) /\ Resolves(m, s.member) /\ m.root = Base(s, c)
  <1> DEFINE C == Candidates(s, Version(s, c), c)
             deepest(i) == \A j \in C : Depth(s, j) <= Depth(s, i)
             R == Roots(s, c)
             longest(r) == \A q \in R : Len(q) <= Len(r)
  <1>1. C # {} /\ m = s.mounts[CHOOSE i \in C : deepest(i)]
    BY Zenon DEF SelectMount
  <1>2. \A i \in C : i \in DOMAIN s.mounts /\ Resolves(s.mounts[i], s.member) /\ s.mounts[i] \in Range(s.mounts)
    BY Zenon DEF Candidates, Range
  <1>3. \E i \in C : deepest(i)
    BY <1>1, <1>2, Deepest, Zenon
  <1>4. PICK i \in C : deepest(i) /\ m = s.mounts[i]
    BY <1>1, <1>3, Zenon
  <1>5. m \in Range(s.mounts) /\ Resolves(m, s.member) /\ Within(m.root, s.home) /\ m.root \in Seq(STRING)
    BY <1>2, <1>4, ResolvesMeans, Zenon
  <1>6. m.root \in R
    <2>1. HasController(m, Version(s, c), c)
      BY <1>4, Zenon DEF Candidates
    <2> QED
      BY <1>5, <2>1, Zenon DEF Roots, HasController
  <1>7. ASSUME NEW q \in R PROVE Len(q) <= Len(m.root) /\ q \in Seq(STRING) /\ Within(q, s.home)
    <2>1. PICK n \in Range(s.mounts) : HasController(n, Version(s, c), c) /\ Within(n.root, s.home) /\ q = n.root
      BY Zenon DEF Roots, HasController
    <2>2. q \in Seq(STRING) /\ Resolves(n, s.member)
      BY <2>1, ResolvesMeans, Zenon
    <2>3. PICK j \in DOMAIN s.mounts : s.mounts[j] = n
      BY Zenon DEF Range
    <2>4. j \in C
      BY <2>1, <2>2, <2>3, Zenon DEF Candidates
    <2> QED
      BY <1>4, <2>1, <2>2, <2>3, <2>4, Zenon DEF Depth
  <1>8. Base(s, c) \in R /\ longest(Base(s, c))
    BY <1>6, <1>7, Zenon DEF Base
  <1>9. Base(s, c) = m.root
    <2>1. Len(m.root) <= Len(Base(s, c)) /\ Len(Base(s, c)) <= Len(m.root) /\ Base(s, c) \in Seq(STRING)
          /\ Within(Base(s, c), s.home)
      BY <1>6, <1>7, <1>8, Zenon
    <2>2. s.home \in Seq(STRING) /\ Len(m.root) \in Nat /\ Len(Base(s, c)) \in Nat
      <3>1. \A p \in Seq(STRING) : Len(p) \in Nat
        OBVIOUS
      <3> QED
        BY <1>5, <2>1, <3>1, HostAssumption, SetupsAssumption, Zenon
    <2>3. Len(m.root) = Len(Base(s, c))
      BY <2>1, <2>2
    <2> QED
      BY <1>5, <2>1, <2>2, <2>3, PrefixEqual, Zenon
  <1> QED
    BY <1>5, <1>9, Zenon

\* The walk is the enforced cgroups, from the process's own upwards.
Walked(w, c) ==
  /\ w \in Seq(Groups) /\ Range(w) = Enforced(c)
  /\ \/ w = <<>> /\ Enforced(c) = {}
     \/ /\ w # <<>> /\ 1 \in DOMAIN w /\ w[1] = setup.home /\ Len(setup.home) \in Nat
        /\ \A i \in DOMAIN w : Len(w[i]) = Len(setup.home) + 1 - i

LEMMA WalkMeans ==
  ASSUME setup \in Setups, NEW c, Walk(setup, c) # Error
  PROVE  Walked(Walk(setup, c), c)
  <1> DEFINE w == Walk(setup, c)
             h == setup.home
             b == Base(setup, c)
  <1>1. CASE c \notin setup.v1 /\ ~setup.unified
    <2>1. w = <<>> /\ Enforced(c) = {}
      BY <1>1, Zenon DEF Walk, Enforced
    <2>2. <<>> \in Seq(Groups) /\ Range(<<>>) = {}
      BY DEF Range
    <2> QED
      BY <2>1, <2>2, Zenon DEF Walked
  <1>2. CASE ~(c \notin setup.v1 /\ ~setup.unified)
    <2>1. PICK m : m = SelectMount(setup, Version(setup, c), c)
      BY Zenon
    <2>2. m # Error /\ w = Ancestors(m, setup.member)
      BY <1>2, <2>1, Zenon DEF Walk
    <2>3. m \in Range(setup.mounts) /\ Resolves(m, setup.member) /\ m.root = b
      BY <2>1, <2>2, Selected, Zenon
    <2>4. b \in Seq(STRING) /\ Within(b, h) /\ w = Way(h, b)
      BY <2>2, <2>3, AncestorsMeans, Zenon
    <2>5. h \in Groups
      BY SetupsAssumption, Zenon
    <2>6. Enforced(c) = {g \in Groups : Within(b, g) /\ Within(g, h)}
      BY <1>2, Zenon DEF Enforced, Base, Roots
    <2>7. /\ DOMAIN Way(h, b) = 1..(Len(h) + 1 - Len(b)) /\ Len(h) \in Nat /\ Len(b) \in 0..Len(h)
          /\ Way(h, b) \in Seq(Groups) /\ Len(Way(h, b)) = Len(h) + 1 - Len(b) /\ Way(h, b)[1] = h
          /\ \A i \in DOMAIN Way(h, b) : Len(Way(h, b)[i]) = Len(h) + 1 - i
          /\ Range(Way(h, b)) = {g \in Groups : Within(b, g) /\ Within(g, h)}
      BY <2>4, <2>5, WayMeans, Zenon
    <2>8. 1 \in 1..(Len(h) + 1 - Len(b))
      BY <2>7
    <2>9. \A x : x = <<>> => 1 \notin DOMAIN x
      OBVIOUS
    <2> QED
      BY <2>4, <2>6, <2>7, <2>8, <2>9, Zenon DEF Walked
  <1> QED
    BY <1>1, <1>2, Zenon


-----------------------------------------------------------------------------
(* The CPUs of a report. *)

LEMMA LeastOfNaturals ==
  ASSUME NEW A, A \subseteq Nat, A # {}
  PROVE  Min(A) \in A /\ \A a \in A : Min(A) <= a
  BY LeastNatural, Zenon DEF Min

LEMMA TimesMonotone ==
  ASSUME NEW a \in Int, NEW b \in Int, NEW p \in Nat, a <= b
  PROVE  a * p <= b * p
  OBVIOUS

\* quotaCPUCount rounds up.
LEMMA RoundedUp ==
  ASSUME NEW q \in Nat, NEW p \in Nat \ {0}, NEW k \in Nat
  PROVE  k <= q \div p + (IF q % p # 0 THEN 1 ELSE 0) <=> (k - 1) * p < q
  <1> DEFINE d == q \div p
             m == q % p
  <1>1. d \in Nat /\ m \in 0..(p - 1) /\ q = p * d + m
    OBVIOUS
  <1> HIDE DEF d, m
  <1>2. q = d * p + m /\ (d - 1) * p = d * p - p /\ (d + 1) * p = d * p + p /\ d * p \in Int
    BY <1>1
  <1>3. CASE k <= d
    <2>1. (k - 1) * p <= (d - 1) * p /\ (k - 1) * p \in Int
      <3>1. k - 1 \in Int /\ d - 1 \in Int /\ k - 1 <= d - 1
        BY <1>1, <1>3
      <3> QED
        BY <3>1, TimesMonotone
    <2>2. (k - 1) * p < q
      BY <1>1, <1>2, <2>1
    <2> QED
      BY <1>1, <1>3, <2>2 DEF d
  <1>4. CASE k = d + 1
    <2>1. (k - 1) * p = d * p
      BY <1>1, <1>4
    <2>2. (k - 1) * p < q <=> m # 0
      BY <1>1, <1>2, <2>1
    <2> QED
      BY <1>1, <1>4, <2>2 DEF d, m
  <1>5. CASE k >= d + 2
    <2>1. (d + 1) * p <= (k - 1) * p /\ (k - 1) * p \in Int
      <3>1. k - 1 \in Int /\ d + 1 \in Int /\ d + 1 <= k - 1
        BY <1>1, <1>5
      <3> QED
        BY <3>1, TimesMonotone
    <2>2. ~((k - 1) * p < q)
      BY <1>1, <1>2, <2>1
    <2> QED
      BY <1>1, <1>5, <2>2 DEF d
  <1> QED
    BY <1>1, <1>3, <1>4, <1>5

\* k CPUs are within the count of a quota.
LEMMA QuotaMeans ==
  ASSUME NEW q \in [quota : Nat, period : Nat \ {0}], NEW k \in Nat, k <= MaxLogicalCPUs
  PROVE  QuotaCPUCount(q) \in Nat /\ (k <= QuotaCPUCount(q) <=> (k - 1) * q.period < q.quota)
  <1> DEFINE n == q.quota \div q.period + (IF q.quota % q.period # 0 THEN 1 ELSE 0)
  <1>1. q.quota \in Nat /\ q.period \in Nat \ {0}
    OBVIOUS
  <1>2. n \in Nat
    BY <1>1
  <1>3. k <= n <=> (k - 1) * q.period < q.quota
    BY <1>1, RoundedUp
  <1>4. QuotaCPUCount(q) = Min({MaxLogicalCPUs, n})
    BY Zenon DEF QuotaCPUCount
  <1> HIDE DEF n
  <1>5. QuotaCPUCount(q) = IF MaxLogicalCPUs <= n THEN MaxLogicalCPUs ELSE n
    BY <1>2, <1>4, MinMeans, HostAssumption
  <1>6. QuotaCPUCount(q) \in Nat /\ (k <= QuotaCPUCount(q) <=> k <= n)
    BY <1>2, <1>5, HostAssumption
  <1> QED
    BY <1>3, <1>6, Zenon


\* The CPU sets that are set, and what they leave usable.
Named == {g \in Enforced("cpuset") : setup.cpus[g] \notin {Missing, {}}}
WithinV1(k) ==
  \A g \in Named : (\A h \in Named : Len(h) <= Len(g)) => k <= Cardinality(setup.cpus[g])
WithinV2(k) == setup.home \in Named => k <= Cardinality(setup.cpus[setup.home])

\* The first cgroup of the walk whose set is not empty is the longest of them.
LEMMA SetV1Means ==
  ASSUME setup \in Setups, NEW w, Walked(w, "cpuset"), w # <<>>, NEW A, A = CPUSetV1(w, setup.cpus), Error \notin A,
         NEW k \in Nat
  PROVE  A \subseteq Nat /\ ((\A a \in A : k <= a) <=> WithinV1(k))
  <1> DEFINE stop == {i \in DOMAIN w : setup.cpus[w[i]] # {}}
             n == Len(setup.home)
  <1>1. /\ w \in Seq(Groups) /\ Range(w) = Enforced("cpuset") /\ n \in Nat
        /\ \A i \in DOMAIN w : Len(w[i]) = n + 1 - i
    BY Zenon DEF Walked
  <1>2. DOMAIN w \subseteq Nat /\ \A i \in DOMAIN w : w[i] \in Groups
    BY <1>1
  <1>3. \A g : g \in Enforced("cpuset") <=> \E i \in DOMAIN w : w[i] = g
    BY <1>1, Zenon DEF Range
  <1>4. ASSUME NEW g \in Named PROVE \E i \in stop : w[i] = g
    BY <1>3, Zenon DEF Named
  <1>5. CASE stop = {}
    <2>1. A = {} /\ Named = {}
      BY <1>4, <1>5, Zenon DEF CPUSetV1
    <2> QED
      BY <2>1, Zenon DEF WithinV1
  <1>6. CASE stop # {}
    <2>1. stop \subseteq Nat
      BY <1>2, Zenon
    <2>2. PICK i \in stop : i = Min(stop) /\ \A j \in stop : i <= j
      BY <1>6, <2>1, LeastOfNaturals, Zenon
    <2> DEFINE found == setup.cpus[w[i]]
    <2>3. A = IF found \in {Missing, Bad} THEN {Error} ELSE {Cardinality(found)}
      BY <1>6, <2>2, Zenon DEF CPUSetV1
    <2>4. found \notin {Missing, Bad} /\ found # {} /\ A = {Cardinality(found)}
      BY <2>3, Zenon
    <2>5. Cardinality(found) \in Nat
      <3>1. IsFiniteSet(found)
        BY <1>2, <2>4, SetupsAssumption, Zenon
      <3> QED
        BY <3>1, FS_CardinalityType, Zenon
    <2>6. w[i] \in Named
      BY <1>3, <2>4, Zenon DEF Named
    <2>7. ASSUME NEW h \in Named PROVE Len(h) <= Len(w[i]) /\ (Len(w[i]) <= Len(h) => h = w[i])
      <3>1. PICK j \in stop : w[j] = h
        BY <1>4, Zenon
      <3>2. i <= j /\ i \in Nat /\ j \in Nat /\ Len(w[i]) = n + 1 - i /\ Len(h) = n + 1 - j
        BY <1>1, <2>1, <2>2, <3>1, Zenon
      <3>3. Len(h) <= Len(w[i]) /\ (Len(w[i]) <= Len(h) => j = i)
        BY <1>1, <3>2
      <3> QED
        BY <3>1, <3>3, Zenon
    <2> HIDE DEF found
    <2>8. A \subseteq Nat
      BY <2>4, <2>5, Zenon
    <2>9. (\A a \in A : k <= a) <=> k <= Cardinality(found)
      BY <2>4, Zenon
    <2>10. WithinV1(k) <=> k <= Cardinality(found)
      BY <2>6, <2>7, Zenon DEF WithinV1, found
    <2> QED
      BY <2>8, <2>9, <2>10, Zenon
  <1> QED
    BY <1>5, <1>6, Zenon

LEMMA SetV2Means ==
  ASSUME setup \in Setups, NEW w, Walked(w, "cpuset"), w # <<>>, NEW A, A = CPUSetV2(w, setup.cpus), Error \notin A,
         NEW k \in Nat
  PROVE  A \subseteq Nat /\ ((\A a \in A : k <= a) <=> WithinV2(k))
  <1> DEFINE h == setup.home
             found == setup.cpus[h]
  <1>1. w[1] = h /\ h \in Groups /\ h \in Enforced("cpuset")
    BY SetupsAssumption, Zenon DEF Walked, Range
  <1>2. A = IF found = Missing THEN {} ELSE IF found \in {Bad, {}} THEN {Error} ELSE {Cardinality(found)}
    BY <1>1, Zenon DEF CPUSetV2
  <1>3. CASE found = Missing
    BY <1>2, <1>3, Zenon DEF WithinV2, Named
  <1>4. CASE found # Missing
    <2>1. found # {} /\ found # Bad /\ A = {Cardinality(found)}
      BY <1>2, <1>4, Zenon
    <2>2. Cardinality(found) \in Nat
      <3>1. IsFiniteSet(found)
        BY <1>1, <1>4, <2>1, SetupsAssumption, Zenon
      <3> QED
        BY <3>1, FS_CardinalityType, Zenon
    <2>3. h \in Named
      BY <1>1, <1>4, <2>1, Zenon DEF Named
    <2> QED
      BY <2>1, <2>2, <2>3, Zenon DEF WithinV2
  <1> QED
    BY <1>3, <1>4, Zenon

\* The number reported is the largest that is usable.
LEMMA CPUsMeans ==
  ASSUME setup \in Setups, NEW n, n = EffectiveCPUs(setup, SystemCPUs, setup.quota, setup.cpus), n # Error
  PROVE  Usable(n) /\ ~Usable(n + 1)
  <1> DEFINE cpu == Walk(setup, "cpu")
             set == Walk(setup, "cpuset")
             sets == IF set = <<>> THEN {}
                     ELSE IF Version(setup, "cpuset") = 1 THEN CPUSetV1(set, setup.cpus)
                     ELSE CPUSetV2(set, setup.cpus)
             Q == QuotaCPUs(cpu, setup.quota)
             A == {SystemCPUs, MaxLogicalCPUs} \cup Q \cup sets
             within(k) == IF "cpuset" \in setup.v1 THEN WithinV1(k) ELSE WithinV2(k)
             quotas(k) == \A g \in Enforced("cpu") : IsQuota(setup.quota[g]) =>
                            (k - 1) * setup.quota[g].period < setup.quota[g].quota
  <1>1. cpu # Error /\ set # Error /\ Error \notin sets /\ n = Min(A)
    BY Zenon DEF EffectiveCPUs
  <1>2. Walked(cpu, "cpu") /\ Walked(set, "cpuset")
    BY <1>1, WalkMeans, Zenon
  <1>3. \A k : Usable(k) <=> k <= SystemCPUs /\ k <= MaxLogicalCPUs /\ quotas(k) /\ within(k)
    BY Zenon DEF Usable, WithinV1, WithinV2, Named
  <1>4. ASSUME NEW k \in Nat PROVE sets \subseteq Nat /\ ((\A a \in sets : k <= a) <=> within(k))
    <2>1. CASE set = <<>>
      <3>1. Named = {}
        BY <1>2, <2>1, Zenon DEF Walked, Named
      <3> QED
        BY <2>1, <3>1, Zenon DEF WithinV1, WithinV2
    <2>2. CASE set # <<>> /\ "cpuset" \in setup.v1
      <3>1. sets = CPUSetV1(set, setup.cpus)
        BY <2>2, Zenon DEF Version
      <3> HIDE DEF sets, set
      <3> QED
        BY <1>1, <1>2, <2>2, <3>1, SetV1Means, Zenon
    <2>3. CASE set # <<>> /\ "cpuset" \notin setup.v1
      <3>1. Version(setup, "cpuset") = 2
        BY <2>3, Zenon DEF Version
      <3>2. 2 # 1
        OBVIOUS
      <3>3. sets = CPUSetV2(set, setup.cpus)
        BY <2>3, <3>1, <3>2, Zenon
      <3> HIDE DEF sets, set
      <3> QED
        BY <1>1, <1>2, <2>3, <3>3, SetV2Means, Zenon
    <2> QED
      BY <2>1, <2>2, <2>3, Zenon
  <1>5. ASSUME NEW g \in Enforced("cpu"), IsQuota(setup.quota[g])
        PROVE  setup.quota[g] \in [quota : Nat, period : Nat \ {0}]
    <2>1. g \in Groups
      BY Zenon DEF Enforced
    <2>2. setup.quota[g] \in QuotaTexts
      BY <2>1, SetupsAssumption, Zenon
    <2> QED
      BY <1>5, <2>2, Zenon DEF QuotaTexts, IsQuota
  <1>6. \A a : a \in Q <=> \E g \in Enforced("cpu") : IsQuota(setup.quota[g]) /\ a = QuotaCPUCount(setup.quota[g])
    BY <1>2, Zenon DEF QuotaCPUs, Walked
  <1>7. ASSUME NEW k \in Nat, k <= MaxLogicalCPUs PROVE Q \subseteq Nat /\ ((\A a \in Q : k <= a) <=> quotas(k))
    BY <1>5, <1>6, <1>7, QuotaMeans, Zenon
  <1>8. 0 \in Nat /\ 0 <= MaxLogicalCPUs
    BY HostAssumption
  <1>9. A \subseteq Nat /\ A # {}
    BY <1>4, <1>7, <1>8, HostAssumption, Zenon
  <1>10. \A k \in Nat : Usable(k) <=> \A a \in A : k <= a
    BY <1>3, <1>4, <1>7, Zenon
  <1>11. n \in A /\ \A a \in A : n <= a
    BY <1>1, <1>9, LeastOfNaturals, Zenon
  <1> HIDE DEF A
  <1>12. n \in Nat /\ n + 1 \in Nat /\ ~(n + 1 <= n)
    BY <1>9, <1>11
  <1> QED
    BY <1>10, <1>11, <1>12, Zenon


-----------------------------------------------------------------------------
(* The memory of a report. *)

\* n is what the limits of E outside R amount to: at most what the host has and any of
\* them that stood during the whole probe, and one of these if nothing changed.
Bounds(n, E, R, limits, still) ==
  /\ n \in Nat /\ n <= SystemMemory
  /\ \A g \in E : (g \notin R /\ g \in still /\ IsLimit(limits[g])) => n <= limits[g]
  /\ E \subseteq still => (n = SystemMemory \/ \E g \in E : IsLimit(limits[g]) /\ n = limits[g])

\* The inductive invariant of a probe.
HostOK ==
  /\ setup \in Setups /\ memory \in [Groups -> MemoryTexts]
  /\ fixed.walk = Walk(setup, "memory")
  /\ fixed.cpus = EffectiveCPUs(setup, SystemCPUs, setup.quota, setup.cpus)
ReadingOK ==
  loop = "reading" =>
    /\ todo \in Seq(Groups) /\ Range(todo) \subseteq Enforced("memory")
    /\ report = [memory |-> report.memory]
    /\ Bounds(report.memory, Enforced("memory"), Range(todo), memory, steady)
SampledOK ==
  (loop = "sampled" /\ report # Error) =>
    /\ report.cpus = fixed.cpus /\ fixed.cpus # Error
    /\ Bounds(report.memory, Enforced("memory"), {}, memory, steady)
Probed == HostOK /\ ReadingOK /\ SampledOK

LEMMA LimitMeans ==
  ASSUME NEW v \in MemoryTexts, IsLimit(v)
  PROVE  v \in Nat
  BY Zenon DEF MemoryTexts, IsLimit

\* One more limit is read.
LEMMA BoundsRead ==
  ASSUME NEW n, NEW E, NEW R, NEW T, NEW limits, NEW still, NEW x \in E,
         E \subseteq Groups, limits \in [Groups -> MemoryTexts],
         Bounds(n, E, R, limits, still), \A g \in R : g = x \/ g \in T
  PROVE  Bounds(Tighter(n, limits[x]), E, T, limits, still)
  <1> DEFINE v == limits[x]
             t == Tighter(n, v)
  <1>1. n \in Nat /\ n <= SystemMemory /\ v \in MemoryTexts
    BY Zenon DEF Bounds
  <1>2. CASE IsLimit(v)
    <2>1. v \in Nat
      BY <1>1, <1>2, LimitMeans, Zenon
    <2>2. t = Min({n, v})
      BY <1>2, Zenon DEF Tighter
    <2> HIDE DEF v, t
    <2>3. t \in Nat /\ t <= n /\ t <= v /\ (t = n \/ t = v)
      BY <1>1, <2>1, <2>2, MinMeans
    <2>4. ASSUME NEW g \in E, g \notin T, g \in still, IsLimit(limits[g]) PROVE t <= limits[g]
      <3>1. CASE g = x
        BY <2>3, <3>1, Zenon DEF v
      <3>2. CASE g # x
        <4>1. n <= limits[g]
          BY <2>4, <3>2, Zenon DEF Bounds
        <4>2. limits[g] \in Nat
          BY <2>4, LimitMeans, Zenon
        <4> HIDE DEF t
        <4> QED
          BY <1>1, <2>3, <4>1, <4>2
      <3> QED
        BY <3>1, <3>2, Zenon
    <2>5. E \subseteq still => (t = SystemMemory \/ \E g \in E : IsLimit(limits[g]) /\ t = limits[g])
      BY <1>2, <2>3, Zenon DEF Bounds, v
    <2>6. t <= SystemMemory
      BY <1>1, <2>3, HostAssumption
    <2>7. Bounds(t, E, T, limits, still)
      BY <2>3, <2>4, <2>5, <2>6, Zenon DEF Bounds
    <2> QED
      BY <2>7, Zenon DEF t, v
  <1>3. CASE ~IsLimit(v)
    <2>1. t = n
      BY <1>3, Zenon DEF Tighter
    <2> QED
      BY <1>3, <2>1, Zenon DEF Bounds
  <1> QED
    BY <1>2, <1>3, Zenon

\* A limit changes.
LEMMA BoundsChange ==
  ASSUME NEW n, NEW E, NEW R, NEW limits, NEW still, NEW x \in Groups, NEW v,
         E \subseteq Groups, limits \in [Groups -> MemoryTexts], Bounds(n, E, R, limits, still)
  PROVE  Bounds(n, E, R, [limits EXCEPT ![x] = v], still \ {x})
  <1> DEFINE new == [limits EXCEPT ![x] = v]
  <1>1. \A g \in Groups : g # x => new[g] = limits[g]
    BY Zenon
  <1> HIDE DEF new
  <1>2. Bounds(n, E, R, new, still \ {x})
    BY <1>1, Zenon DEF Bounds
  <1> QED
    BY <1>2, Zenon DEF new

LEMMA HostStep ==
  ASSUME HostOK, [Next]_vars
  PROVE  HostOK' /\ Enforced("memory")' = Enforced("memory") /\ setup' = setup /\ fixed' = fixed
  <1>1. setup' = setup /\ fixed' = fixed
    BY Zenon DEF Next, vars, host, Sampling, Start, ReadMemory, ReadCPUs, SampleFails, Record, Exit, Shutdown,
                 ShutdownReturns, ShutdownIncomplete, SetMemory, SetGPU
  <1>2. memory' = memory \/ \E g \in Groups, v \in MemoryValues : memory' = [memory EXCEPT ![g] = v]
    BY Zenon DEF Next, vars, host, Sampling, Start, ReadMemory, ReadCPUs, SampleFails, Record, Exit, Shutdown,
                 ShutdownReturns, ShutdownIncomplete, SetMemory, SetGPU
  <1>3. memory' \in [Groups -> MemoryTexts]
    <2>1. memory \in [Groups -> MemoryTexts] /\ MemoryValues \subseteq MemoryTexts
      BY SetupsAssumption, Zenon DEF HostOK
    <2> QED
      BY <1>2, <2>1
  <1>4. Enforced("memory")' = Enforced("memory")
    BY <1>1, Zenon DEF Enforced
  <1> QED
    BY <1>1, <1>3, <1>4, Zenon DEF HostOK, Walk, EffectiveCPUs

LEMMA EnforcedIn == Enforced("memory") \subseteq Groups
  BY Zenon DEF Enforced

LEMMA TailMeans ==
  ASSUME NEW S, NEW t \in Seq(S), t # <<>>
  PROVE  /\ Tail(t) \in Seq(S) /\ Head(t) \in Range(t) /\ Range(Tail(t)) \subseteq Range(t)
         /\ \A g \in Range(t) : g = Head(t) \/ g \in Range(Tail(t))
  <1>1. /\ Tail(t) \in Seq(S) /\ Len(t) \in Nat /\ Len(t) >= 1 /\ Len(Tail(t)) = Len(t) - 1 /\ Head(t) = t[1]
        /\ DOMAIN t = 1..Len(t) /\ DOMAIN Tail(t) = 1..(Len(t) - 1)
        /\ \A i \in 1..(Len(t) - 1) : Tail(t)[i] = t[i + 1]
    OBVIOUS
  <1>2. 1 \in DOMAIN t /\ \A i \in DOMAIN Tail(t) : i + 1 \in DOMAIN t
    BY <1>1
  <1>3. \A i \in DOMAIN t : i = 1 \/ \E j \in DOMAIN Tail(t) : i = j + 1
    <2> SUFFICES ASSUME NEW i \in DOMAIN t, i # 1 PROVE \E j \in DOMAIN Tail(t) : i = j + 1
      BY Zenon
    <2>1. i - 1 \in DOMAIN Tail(t) /\ i = (i - 1) + 1
      BY <1>1
    <2> QED
      BY <2>1, Zenon
  <1>4. \A x : x \in Range(t) <=> \E i \in DOMAIN t : t[i] = x
    BY Zenon DEF Range
  <1>5. \A x : x \in Range(Tail(t)) <=> \E i \in DOMAIN Tail(t) : Tail(t)[i] = x
    BY Zenon DEF Range
  <1>6. Head(t) \in Range(t)
    BY <1>1, <1>2, <1>4, Zenon
  <1>7. Range(Tail(t)) \subseteq Range(t)
    BY <1>1, <1>2, <1>4, <1>5, Zenon
  <1>8. ASSUME NEW g \in Range(t), g # Head(t) PROVE g \in Range(Tail(t))
    <2>1. PICK i \in DOMAIN t : t[i] = g
      BY <1>4, Zenon
    <2>2. PICK j \in DOMAIN Tail(t) : i = j + 1
      BY <1>1, <1>3, <1>8, <2>1, Zenon
    <2>3. Tail(t)[j] = g
      BY <1>1, <2>1, <2>2, Zenon
    <2> QED
      BY <1>5, <2>3, Zenon
  <1> QED
    BY <1>1, <1>6, <1>7, <1>8, Zenon


LEMMA ReadingStep ==
  ASSUME Probed, [Next]_vars
  PROVE  ReadingOK'
  <1> DEFINE E == Enforced("memory")
  <1>1. E' = E /\ E \subseteq Groups /\ HostOK
    BY HostStep, EnforcedIn, Zenon DEF Probed
  <1>2. CASE Start
    <2> SUFFICES ASSUME loop' = "reading" PROVE ReadingOK'
      BY Zenon DEF ReadingOK
    <2>1. fixed.walk # Error /\ todo' = fixed.walk /\ report' = [memory |-> SystemMemory] /\ steady' = Groups
      BY <1>2, Zenon DEF Start
    <2>2. Walked(fixed.walk, "memory")
      BY <1>1, <2>1, WalkMeans, Zenon DEF HostOK
    <2>3. todo' \in Seq(Groups) /\ Range(todo') = E
      BY <2>1, <2>2, Zenon DEF Walked
    <2>4. report'.memory = SystemMemory
      BY <2>1
    <2>5. SystemMemory \in Nat /\ SystemMemory <= SystemMemory
      BY HostAssumption
    <2>6. Bounds(SystemMemory, E, E, memory', steady')
      BY <2>5, Zenon DEF Bounds
    <2> QED
      BY <1>1, <2>1, <2>3, <2>4, <2>6, Zenon DEF ReadingOK
  <1>3. CASE ReadMemory
    <2> SUFFICES ASSUME loop' = "reading" PROVE ReadingOK'
      BY Zenon DEF ReadingOK
    <2> DEFINE v == memory[Head(todo)]
    <2>1. /\ loop = "reading" /\ todo # <<>> /\ todo' = Tail(todo)
          /\ report' = [report EXCEPT !.memory = Tighter(@, v)] /\ memory' = memory /\ steady' = steady
      <3>1. loop' # "sampled"
        OBVIOUS
      <3>2. ~MemoryRefused(v, Version(setup, "memory"))
        BY <1>3, <3>1, Zenon DEF ReadMemory
      <3> QED
        BY <1>3, <3>2, Zenon DEF ReadMemory, host
    <2>2. /\ todo \in Seq(Groups) /\ Range(todo) \subseteq E /\ report = [memory |-> report.memory]
          /\ Bounds(report.memory, E, Range(todo), memory, steady)
      BY <2>1, Zenon DEF Probed, ReadingOK
    <2>3. /\ Tail(todo) \in Seq(Groups) /\ Head(todo) \in Range(todo) /\ Range(Tail(todo)) \subseteq Range(todo)
          /\ \A g \in Range(todo) : g = Head(todo) \/ g \in Range(Tail(todo))
      BY <2>1, <2>2, TailMeans, Zenon
    <2>4. Bounds(Tighter(report.memory, v), E, Range(Tail(todo)), memory, steady)
      <3>1. Head(todo) \in E /\ memory \in [Groups -> MemoryTexts]
        BY <1>1, <2>2, <2>3, Zenon DEF HostOK
      <3> QED
        BY <1>1, <2>2, <2>3, <3>1, BoundsRead, Zenon
    <2>5. report' = [memory |-> Tighter(report.memory, v)]
      <3> DEFINE t == Tighter(report.memory, v)
      <3>1. report' = [report EXCEPT !.memory = t]
        BY <2>1, Zenon
      <3> HIDE DEF t
      <3>2. report' = [memory |-> t]
        BY <2>2, <3>1
      <3> QED
        BY <3>2, Zenon DEF t
    <2>6. report'.memory = Tighter(report.memory, v)
      BY <2>5
    <2> QED
      BY <1>1, <2>1, <2>2, <2>3, <2>4, <2>5, <2>6, Zenon DEF ReadingOK
  <1>4. ASSUME NEW g \in Groups, NEW v \in MemoryValues, SetMemory(g, v) PROVE ReadingOK'
    <2>1. /\ memory' = [memory EXCEPT ![g] = v] /\ steady' = steady \ {g}
          /\ loop' = loop /\ todo' = todo /\ report' = report
      BY <1>4, Zenon DEF SetMemory
    <2>2. memory \in [Groups -> MemoryTexts]
      BY <1>1, Zenon DEF HostOK
    <2> SUFFICES ASSUME loop = "reading" PROVE ReadingOK'
      BY <2>1, Zenon DEF ReadingOK
    <2>3. Bounds(report.memory, E, Range(todo), memory', steady')
      BY <1>1, <2>1, <2>2, BoundsChange, Zenon DEF Probed, ReadingOK
    <2> QED
      BY <1>1, <2>1, <2>3, Zenon DEF Probed, ReadingOK
  <1>5. CASE UNCHANGED <<memory, loop, probing>>
    BY <1>1, <1>5, Zenon DEF Probed, ReadingOK, probing
  <1>6. CASE loop' \in {"waiting", "sampled", "done"}
    BY <1>6, Zenon DEF ReadingOK
  <1>7. CASE ReadCPUs \/ SampleFails \/ Record \/ Exit
    BY <1>6, <1>7, Zenon DEF ReadCPUs, SampleFails, Record, Exit
  <1>8. CASE Shutdown \/ ShutdownReturns \/ ShutdownIncomplete \/ (\E x \in GPUs : SetGPU(x)) \/ UNCHANGED vars
    BY <1>5, <1>8, Zenon DEF Shutdown, ShutdownReturns, ShutdownIncomplete, SetGPU, vars, host, probing
  <1> QED
    BY <1>2, <1>3, <1>4, <1>7, <1>8, Zenon DEF Next, Sampling

LEMMA SampledStep ==
  ASSUME Probed, [Next]_vars
  PROVE  SampledOK'
  <1> DEFINE E == Enforced("memory")
  <1>1. E' = E /\ E \subseteq Groups /\ HostOK /\ fixed' = fixed
    BY HostStep, EnforcedIn, Zenon DEF Probed
  <1>2. CASE ReadCPUs
    <2> SUFFICES ASSUME report' # Error PROVE SampledOK'
      BY Zenon DEF SampledOK
    <2>1. /\ loop = "reading" /\ todo = <<>> /\ fixed.cpus # Error
          /\ report' = [memory |-> report.memory, cpus |-> fixed.cpus, gpu |-> gpu]
          /\ memory' = memory /\ steady' = steady
      BY <1>2, Zenon DEF ReadCPUs, host
    <2>2. report'.memory = report.memory /\ report'.cpus = fixed.cpus
      BY <2>1
    <2>3. Range(todo) = {}
      BY <2>1 DEF Range
    <2>4. Bounds(report.memory, E, {}, memory, steady)
      BY <2>1, <2>3, Zenon DEF Probed, ReadingOK
    <2> QED
      BY <1>1, <2>1, <2>2, <2>4, Zenon DEF SampledOK
  <1>3. ASSUME NEW g \in Groups, NEW v \in MemoryValues, SetMemory(g, v) PROVE SampledOK'
    <2>1. /\ memory' = [memory EXCEPT ![g] = v] /\ steady' = steady \ {g} /\ loop' = loop /\ report' = report
      BY <1>3, Zenon DEF SetMemory
    <2>2. memory \in [Groups -> MemoryTexts]
      BY <1>1, Zenon DEF HostOK
    <2> SUFFICES ASSUME loop = "sampled", report # Error PROVE SampledOK'
      BY <2>1, Zenon DEF SampledOK
    <2>3. Bounds(report.memory, E, {}, memory', steady')
      BY <1>1, <2>1, <2>2, BoundsChange, Zenon DEF Probed, SampledOK
    <2> QED
      BY <1>1, <2>1, <2>3, Zenon DEF Probed, SampledOK
  <1>4. CASE UNCHANGED <<memory, loop, probing>>
    BY <1>1, <1>4, Zenon DEF Probed, SampledOK, probing
  <1>5. CASE loop' \in {"waiting", "reading", "done"} \/ report' = Error
    BY <1>5, Zenon DEF SampledOK
  <1>6. CASE Start \/ SampleFails \/ Record \/ Exit
    BY <1>5, <1>6, Zenon DEF Start, SampleFails, Record, Exit
  <1>7. CASE ReadMemory
    BY <1>5, <1>7, Zenon DEF ReadMemory
  <1>8. CASE Shutdown \/ ShutdownReturns \/ ShutdownIncomplete \/ (\E x \in GPUs : SetGPU(x)) \/ UNCHANGED vars
    BY <1>4, <1>8, Zenon DEF Shutdown, ShutdownReturns, ShutdownIncomplete, SetGPU, vars, host, probing
  <1> QED
    BY <1>2, <1>3, <1>6, <1>7, <1>8, Zenon DEF Next, Sampling

LEMMA ProbedInit == Init => Probed
  <1> SUFFICES ASSUME Init PROVE Probed
    BY Zenon
  <1>1. loop = "waiting"
    BY Zenon DEF Init
  <1>2. ReadingOK /\ SampledOK
    BY <1>1 DEF ReadingOK, SampledOK
  <1>3. fixed.walk = Walk(setup, "memory")
        /\ fixed.cpus = EffectiveCPUs(setup, SystemCPUs, setup.quota, setup.cpus)
    BY DEF Init
  <1>4. setup \in Setups /\ memory \in [Groups -> MemoryTexts]
    BY SetupsAssumption, Zenon DEF Init
  <1> QED
    BY <1>2, <1>3, <1>4, Zenon DEF Probed, HostOK

LEMMA ProbedMeans == Probed => ReportExact
  <1> SUFFICES ASSUME Probed, loop = "sampled", report # Error
               PROVE  LET limited == {g \in Enforced("memory") : IsLimit(memory[g])}
                      IN  /\ report.memory <= SystemMemory
                          /\ \A g \in limited \cap steady : report.memory <= memory[g]
                          /\ Enforced("memory") \subseteq steady =>
                               report.memory \in {SystemMemory} \cup {memory[g] : g \in limited}
                          /\ Usable(report.cpus) /\ ~Usable(report.cpus + 1)
    BY Zenon DEF ReportExact
  <1>1. /\ report.cpus = fixed.cpus /\ fixed.cpus # Error
        /\ Bounds(report.memory, Enforced("memory"), {}, memory, steady)
    BY Zenon DEF Probed, SampledOK
  <1>2. Usable(report.cpus) /\ ~Usable(report.cpus + 1)
    BY <1>1, CPUsMeans, Zenon DEF Probed, HostOK
  <1> QED
    BY <1>1, <1>2, Zenon DEF Bounds

\* ReportExact: whatever changes while the limits are read one by one, a report never
\* says more memory than the host has or than a limit that stood during the whole probe,
\* it is exact when nothing changed, and its CPUs are the largest number usable
\* (effectiveLinuxResources).
THEOREM ReportsAreExact == Spec => []ReportExact
  <1>1. Probed /\ [Next]_vars => Probed'
    BY HostStep, ReadingStep, SampledStep, Zenon DEF Probed
  <1> QED
    BY <1>1, ProbedInit, ProbedMeans, PTL DEF Spec
=============================================================================
