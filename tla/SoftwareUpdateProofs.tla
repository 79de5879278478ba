------------------------ MODULE SoftwareUpdateProofs ------------------------
(***************************************************************************)
(* Proofs about SoftwareUpdate, for any set of releases, any assignment of  *)
(* security revisions and any number of faults.                             *)
(***************************************************************************)
EXTENDS SoftwareUpdate, TLAPS

\* The time limits, in seconds, of the leaves that name no prover.
USE SMTT(30), ZenonT(20)

-----------------------------------------------------------------------------
(* The inductive invariant. *)

\* What every state has that was ever stored: the active slot is the known-good one but
\* while health is awaited, and nothing is pending then.
Shape(s) ==
  /\ ValidState(s)
  /\ ~s.awaiting => s.active = s.knownGood
  /\ s.awaiting => s.pending = NoSlot

\* The Manager's states, and the state files that can be found.
Shapes ==
  /\ Shape(mem) /\ Shape(next)
  /\ disk.data = {disk.seen}
  /\ \A s \in Readable(disk) : s = Absent \/ (s \in States /\ Shape(s))

\* Where the operation is.
Places ==
  /\ pc = "renamed" => disk.seen = next
  /\ after # "none" => pc \in {"storing", "renamed"}
  /\ after = "confirmed" => ~next.awaiting /\ next.active # NoSlot

\* How far Stage has got, in the slot that is not active.
Staging ==
  /\ pc \in {"staging", "staged"} =>
       /\ ~mem.awaiting /\ mem.pending = NoSlot
       /\ release \in Contents /\ Revision[release.of] >= mem.revision
       /\ artifact[StageSlot].seen = release /\ artifact[StageSlot].data = {release}
  /\ pc = "staged" =>
       manifest[StageSlot].seen = release /\ manifest[StageSlot].data = {release}

\* Every slot that the Manager's state names is as Stage left it.
Intact ==
  /\ pc # "none" /\ after # "opened" => Verified(mem)
  /\ pc \in {"storing", "renamed"} => Verified(next)

\* No state that is held, stored or found is below the confirmed revision.
AboveFloor ==
  /\ RevisionKept
  /\ pc # "none" => mem.revision >= floor
  /\ pc \in {"storing", "renamed"} => next.revision >= floor

\* Once the candidate was booted, every state says so.
BootRecorded ==
  /\ OneBoot
  /\ boots > 0 =>
       /\ \A s \in Readable(disk) : s # Absent /\ (s.awaiting => s.attempted)
       /\ pc # "none" => (mem.awaiting => mem.attempted)
       /\ pc \in {"storing", "renamed"} => (next.awaiting => next.attempted)
  /\ after = "opened" /\ next.awaiting => boots = 0 /\ next.attempted

\* The slots that s names are complete, and stay so if the power goes; its fallback is
\* a release that was confirmed.
SolidIn(s, art, man, confirmed) ==
  /\ \A slot \in Referenced(s) :
       \A x \in Readable(art[slot]), y \in Readable(man[slot]) : Installed(x, y, s.revision)
  /\ s.knownGood # NoSlot => Readable(art[s.knownGood]) \subseteq confirmed

Solid(s) == SolidIn(s, artifact, manifest, good)

\* As long as every opener found a synced state file and no call failed, the files are
\* those of the Manager.
Synchronised ==
  trusted =>
    /\ \A s \in Readable(disk) : s # Absent => Solid(s)
    /\ pc # "none" => Solid(mem)
    /\ pc \in {"storing", "renamed"} => Solid(next)
    /\ pc \in {"idle", "staging", "staged"} => Readable(disk) = {mem}
    /\ pc = "storing" => Readable(disk) \subseteq {mem, Absent}
    /\ pc = "renamed" => Readable(disk) \subseteq {next, mem, Absent}

UpdateInv ==
  /\ TypeOK /\ Shapes /\ Places /\ Staging /\ Intact
  /\ AboveFloor /\ BootRecorded /\ Synchronised

-----------------------------------------------------------------------------
(* Files, releases and slots. *)

\* The file operators of DurableFile keep the type of a file.
LEMMA FileTypes ==
  ASSUME NEW R, NEW f \in Files(R), NEW r \in R
  PROVE  /\ NoFile \in Files(R)
         /\ Created(f) \in Files(R)
         /\ Written(f, r) \in Files(R)
         /\ Synced(f) \in Files(R)
         /\ DirSynced(f) \in Files(R)
         /\ Removed(f) \in Files(R)
         /\ Replaced(f, r) \in Files(R)
  BY Zenon DEF Files, NoFile, Created, Written, Synced, DirSynced, Removed, Replaced, Survivors,
         Absent, Torn

\* So does a power loss.
LEMMA SettledType ==
  ASSUME NEW R, NEW f \in Files(R), NEW c \in Survivors(f)
  PROVE  Settled(c) \in Files(R)
  BY Zenon DEF Files, Settled, Survivors

\* What a reader may find after a write, a sync of the directory and a power loss.
LEMMA ReadableAfter ==
  ASSUME NEW f, NEW r
  PROVE  /\ Readable(Replaced(f, r)) \subseteq {r} \cup Readable(f)
         /\ Replaced(f, r).seen = r /\ Replaced(f, r).data = {r}
         /\ DirSynced(f).seen = f.seen /\ DirSynced(f).data = f.data
         /\ Readable(DirSynced(f)) \subseteq Readable(f)
         /\ f.data = {f.seen} => Readable(DirSynced(f)) = {f.seen}
         /\ f.data = {f.seen} /\ f.old = {} => Readable(f) = {f.seen}
         /\ Settled(r).seen = r /\ Settled(r).data = {r} /\ Readable(Settled(r)) = {r}
         /\ f.seen \in Readable(f) /\ Survivors(f) \subseteq Readable(f)
  BY Zenon DEF Readable, Replaced, DirSynced, Settled, Survivors

\* A release has a revision; no release and no state is a missing file.
LEMMA ReleaseMeans ==
  ASSUME NEW c \in Contents
  PROVE  c.of \in Releases /\ Revision[c.of] \in 0..MaxRevision /\ c # Absent
  BY RevisionAssumption DEF Contents, Content, Absent

LEMMA StateMeans ==
  ASSUME NEW s \in States
  PROVE  /\ s # Absent /\ s # Torn
         /\ {s.active, s.knownGood, s.pending, s.previous} \subseteq Slots \cup {NoSlot}
         /\ s.awaiting \in BOOLEAN /\ s.attempted \in BOOLEAN /\ s.revision \in 0..MaxRevision
         /\ s.revision \in Nat
  BY RevisionAssumption DEF States, Absent, Torn

LEMMA NewStateMeans ==
  /\ NewState \in States /\ Shape(NewState) /\ Referenced(NewState) = {}
  /\ NewState.knownGood = NoSlot /\ NewState.revision = 0 /\ ~NewState.awaiting
  BY RevisionAssumption, FaultsAssumption DEF NewState, States, Shape, ValidState, Referenced, Slots

\* Files that lose possible contents, and a set of confirmed releases that grows, leave
\* a state as solid as it was.
LEMMA SolidKept ==
  ASSUME NEW s, NEW a, NEW m, NEW g, NEW a2, NEW m2, NEW g2, SolidIn(s, a, m, g), g \subseteq g2,
         s \in States,
         \A slot \in Referenced(s) : /\ Readable(a2[slot]) \subseteq Readable(a[slot])
                                     /\ Readable(m2[slot]) \subseteq Readable(m[slot])
  PROVE  SolidIn(s, a2, m2, g2)
  <1>1. s.knownGood # NoSlot => s.knownGood \in Referenced(s)
    BY StateMeans, Zenon DEF Referenced
  <1> QED
    BY <1>1, Zenon DEF SolidIn

-----------------------------------------------------------------------------
(* The states that the operations store. *)

\* Stage.
LEMMA StagedState ==
  ASSUME NEW s \in States, NEW k \in Slots, NEW n, n = [s EXCEPT !.pending = k]
  PROVE  /\ n \in States
         /\ n.pending = k /\ n.active = s.active /\ n.knownGood = s.knownGood /\ n.previous = s.previous
         /\ n.awaiting = s.awaiting /\ n.attempted = s.attempted /\ n.revision = s.revision
  BY Zenon DEF States

\* ActivatePending.
LEMMA ActivatedState ==
  ASSUME NEW s \in States, NEW n,
         n = [s EXCEPT !.previous = s.active, !.active = s.pending, !.pending = NoSlot,
                       !.awaiting = TRUE, !.attempted = FALSE]
  PROVE  /\ n \in States
         /\ n.pending = NoSlot /\ n.active = s.pending /\ n.knownGood = s.knownGood /\ n.previous = s.active
         /\ n.awaiting = TRUE /\ n.attempted = FALSE /\ n.revision = s.revision
  BY Zenon DEF States

\* Rollback.
LEMMA RolledBackState ==
  ASSUME NEW s \in States, NEW n,
         n = [s EXCEPT !.active = s.knownGood, !.pending = NoSlot, !.previous = NoSlot,
                       !.awaiting = FALSE, !.attempted = FALSE]
  PROVE  /\ n \in States
         /\ n.pending = NoSlot /\ n.active = s.knownGood /\ n.knownGood = s.knownGood /\ n.previous = NoSlot
         /\ n.awaiting = FALSE /\ n.attempted = FALSE /\ n.revision = s.revision
  BY Zenon DEF States

\* loadAndRecover, of a state that awaits health.
LEMMA RecoveredState ==
  ASSUME NEW s \in States, s.awaiting, NEW n \in {Recovered(s)}
  PROVE  /\ n \in States
         /\ n.pending = s.pending /\ n.knownGood = s.knownGood /\ n.revision = s.revision
         /\ \/ /\ ~s.attempted /\ n.active = s.active /\ n.previous = s.previous
               /\ n.awaiting = TRUE /\ n.attempted = TRUE
            \/ /\ s.attempted /\ n.active = s.knownGood /\ n.previous = NoSlot
               /\ n.awaiting = FALSE /\ n.attempted = FALSE
  <1>1. CASE s.attempted
    BY <1>1, ZenonT(60) DEF States, Recovered
  <1>2. CASE ~s.attempted
    BY <1>2, ZenonT(60) DEF States, Recovered
  <1> QED
    BY <1>1, <1>2, Zenon

-----------------------------------------------------------------------------
(* What a step does to the states and to the files. *)

\* Open: no state file, one that awaits health, or one that does not.
LEMMA OpenFacts ==
  ASSUME UpdateInv, OpenLoad
  PROVE  /\ pc = "none" /\ after = "none"
         /\ mem' \in States /\ Shape(mem') /\ next' \in States
         /\ UNCHANGED <<disk, artifact, manifest, floor, good, boots, release>>
         /\ trusted' = (trusted /\ disk.old = {})
         /\ \/ /\ disk.seen = Absent /\ mem' = NewState /\ next' = NewState
               /\ pc' = "storing" /\ after' = "opened"
            \/ /\ disk.seen = mem' /\ Verified(disk.seen) /\ mem'.awaiting
               /\ pc' = "storing" /\ after' = "opened"
               /\ next'.pending = mem'.pending /\ next'.knownGood = mem'.knownGood
               /\ next'.revision = mem'.revision
               /\ \/ /\ ~mem'.attempted /\ next'.active = mem'.active /\ next'.previous = mem'.previous
                     /\ next'.awaiting = TRUE /\ next'.attempted = TRUE
                  \/ /\ mem'.attempted /\ next'.active = mem'.knownGood /\ next'.previous = NoSlot
                     /\ next'.awaiting = FALSE /\ next'.attempted = FALSE
            \/ /\ disk.seen = mem' /\ Verified(disk.seen) /\ ~mem'.awaiting
               /\ pc' = "idle" /\ next' = next /\ after' = after
  <1>1. next \in States
    BY Zenon DEF UpdateInv, TypeOK
  <1>2. disk.seen = Absent \/ (disk.seen \in States /\ Shape(disk.seen))
    BY Zenon DEF UpdateInv, Shapes, Readable
  <1>3. /\ pc = "none" /\ after = "none"
        /\ UNCHANGED <<disk, artifact, manifest, floor, good, boots, release>>
        /\ trusted' = (trusted /\ disk.old = {})
    BY Zenon DEF OpenLoad, slots, history, UpdateInv, Places
  <1>4. CASE disk.seen = Absent
    BY <1>3, <1>4, NewStateMeans, Zenon DEF OpenLoad, Store
  <1>5. CASE disk.seen # Absent /\ ~disk.seen.awaiting
    BY <1>1, <1>2, <1>3, <1>5, Zenon DEF OpenLoad
  <1>6. CASE disk.seen # Absent /\ disk.seen.awaiting
    <2>1. /\ disk.seen = mem' /\ Verified(disk.seen) /\ mem'.awaiting
          /\ pc' = "storing" /\ after' = "opened" /\ next' \in {Recovered(mem')}
      BY <1>6, Zenon DEF OpenLoad, Store
    <2>2. mem' \in States /\ Shape(mem')
      BY <1>2, <1>6, <2>1, Zenon
    <2>3. /\ next' \in States
          /\ next'.pending = mem'.pending /\ next'.knownGood = mem'.knownGood
          /\ next'.revision = mem'.revision
          /\ \/ /\ ~mem'.attempted /\ next'.active = mem'.active /\ next'.previous = mem'.previous
                /\ next'.awaiting = TRUE /\ next'.attempted = TRUE
             \/ /\ mem'.attempted /\ next'.active = mem'.knownGood /\ next'.previous = NoSlot
                /\ next'.awaiting = FALSE /\ next'.attempted = FALSE
      BY <2>1, <2>2, RecoveredState, ZenonT(60)
    <2> QED
      BY <1>3, <2>1, <2>2, <2>3, Zenon
  <1> QED
    BY <1>4, <1>5, <1>6, Zenon

\* Stage, its last step.
LEMMA StageFacts ==
  ASSUME UpdateInv, StageSync
  PROVE  /\ UNCHANGED <<mem, disk, floor, good, boots, trusted, release>>
         /\ pc = "staged" /\ pc' = "storing" /\ after' = "none"
         /\ StageSlot \in Slots /\ StageSlot # mem.active /\ StageSlot # NoSlot
         /\ ~mem.awaiting /\ mem.pending = NoSlot
         /\ next' \in States
         /\ next'.pending = StageSlot /\ next'.active = mem.active /\ next'.knownGood = mem.knownGood
         /\ next'.previous = mem.previous /\ next'.awaiting = mem.awaiting
         /\ next'.attempted = mem.attempted /\ next'.revision = mem.revision
  <1>1. mem \in States
    BY Zenon DEF UpdateInv, TypeOK
  <1>2. /\ UNCHANGED <<mem, disk, floor, good, boots, trusted, release>>
        /\ pc = "staged" /\ pc' = "storing" /\ after' = "none"
        /\ next' = [mem EXCEPT !.pending = StageSlot]
    BY Zenon DEF StageSync, Store, history
  <1>3. StageSlot \in Slots /\ StageSlot # mem.active /\ StageSlot # NoSlot
    BY FaultsAssumption, Zenon DEF StageSlot, Slots
  <1>4. ~mem.awaiting /\ mem.pending = NoSlot
    BY <1>2, Zenon DEF UpdateInv, Staging
  <1>5. /\ next' \in States
        /\ next'.pending = StageSlot /\ next'.active = mem.active /\ next'.knownGood = mem.knownGood
        /\ next'.previous = mem.previous /\ next'.awaiting = mem.awaiting
        /\ next'.attempted = mem.attempted /\ next'.revision = mem.revision
    BY <1>1, <1>2, <1>3, StagedState
  <1> QED
    BY <1>2, <1>3, <1>4, <1>5, Zenon

\* ActivatePending.
LEMMA ActivateFacts ==
  ASSUME UpdateInv, ActivatePending
  PROVE  /\ UNCHANGED <<mem, disk, artifact, manifest, floor, good, trusted, release>>
         /\ pc = "idle" /\ pc' = "storing" /\ after' = "none" /\ after = "none" /\ boots' = 0
         /\ mem.pending # NoSlot /\ ~mem.awaiting
         /\ next' \in States
         /\ next'.pending = NoSlot /\ next'.active = mem.pending /\ next'.knownGood = mem.knownGood
         /\ next'.previous = mem.active /\ next'.awaiting = TRUE /\ next'.attempted = FALSE
         /\ next'.revision = mem.revision
  <1>1. mem \in States
    BY Zenon DEF UpdateInv, TypeOK
  <1>2. /\ UNCHANGED <<mem, disk, artifact, manifest, floor, good, trusted, release>>
        /\ pc = "idle" /\ pc' = "storing" /\ after' = "none" /\ boots' = 0
        /\ mem.pending # NoSlot /\ ~mem.awaiting
        /\ next' = [mem EXCEPT !.previous = mem.active, !.active = mem.pending, !.pending = NoSlot,
                               !.awaiting = TRUE, !.attempted = FALSE]
    BY Zenon DEF ActivatePending, Store, slots
  <1>3. /\ next' \in States
        /\ next'.pending = NoSlot /\ next'.active = mem.pending /\ next'.knownGood = mem.knownGood
        /\ next'.previous = mem.active /\ next'.awaiting = TRUE /\ next'.attempted = FALSE
        /\ next'.revision = mem.revision
    BY <1>1, <1>2, ActivatedState, ZenonT(60)
  <1>4. after = "none"
    BY <1>2, Zenon DEF UpdateInv, Places
  <1> QED
    BY <1>2, <1>3, <1>4, Zenon

\* ConfirmHealthy.
LEMMA ConfirmFacts ==
  ASSUME UpdateInv, ConfirmHealthy
  PROVE  /\ UNCHANGED <<mem, disk, artifact, manifest, floor, boots, trusted, release>>
         /\ pc = "idle" /\ pc' = "storing" /\ after' = "confirmed" /\ after = "none"
         /\ mem.awaiting /\ mem.active # NoSlot /\ mem.active \in Slots
         /\ manifest[mem.active].seen \in Contents
         /\ good' = good \cup {manifest[mem.active].seen}
         /\ next' \in States
         /\ next'.pending = mem.pending /\ next'.active = mem.active /\ next'.knownGood = mem.active
         /\ next'.previous = NoSlot /\ next'.awaiting = FALSE /\ next'.attempted = FALSE
         /\ next'.revision >= mem.revision
         /\ next'.revision \in {Revision[manifest[mem.active].seen.of], mem.revision}
  <1>1. mem \in States
    BY Zenon DEF UpdateInv, TypeOK
  <1>2. /\ UNCHANGED <<mem, disk, artifact, manifest, floor, boots, trusted, release>>
        /\ pc = "idle" /\ pc' = "storing" /\ after' = "confirmed"
        /\ mem.awaiting /\ mem.active # NoSlot
        /\ manifest[mem.active].seen \in Contents
        /\ good' = good \cup {manifest[mem.active].seen}
    BY Zenon DEF ConfirmHealthy, Store, slots
  <1> DEFINE r == Revision[manifest[mem.active].seen.of]
  <1>3. next' = [mem EXCEPT !.knownGood = mem.active, !.previous = NoSlot,
                            !.awaiting = FALSE, !.attempted = FALSE,
                            !.revision = IF r > @ THEN r ELSE @]
    BY Zenon DEF ConfirmHealthy, Store
  <1>4. r \in 0..MaxRevision
    BY <1>2, ReleaseMeans, Zenon
  <1>5. mem.active \in Slots
    BY <1>1, <1>2, StateMeans, Zenon
  <1>6. /\ next' \in States
        /\ next'.pending = mem.pending /\ next'.active = mem.active /\ next'.knownGood = mem.active
        /\ next'.previous = NoSlot /\ next'.awaiting = FALSE /\ next'.attempted = FALSE
        /\ next'.revision >= mem.revision /\ next'.revision \in {r, mem.revision}
    <2> HIDE DEF r
    <2>1. mem.revision \in 0..MaxRevision
      BY <1>1, StateMeans, Zenon
    <2>2. PICK q : q = IF r > mem.revision THEN r ELSE mem.revision
      BY Zenon
    <2>3. q \in 0..MaxRevision /\ q >= mem.revision /\ q \in {r, mem.revision}
      BY <1>4, <2>1, <2>2, RevisionAssumption
    <2>4. next' = [mem EXCEPT !.knownGood = mem.active, !.previous = NoSlot, !.awaiting = FALSE,
                              !.attempted = FALSE, !.revision = q]
      BY <1>3, <2>2, Zenon
    <2>5. /\ next' \in States
          /\ next'.pending = mem.pending /\ next'.active = mem.active /\ next'.knownGood = mem.active
          /\ next'.previous = NoSlot /\ next'.awaiting = FALSE /\ next'.attempted = FALSE
          /\ next'.revision = q
      BY <1>1, <2>3, <2>4, Zenon DEF States
    <2> QED
      BY <2>3, <2>5, Zenon
  <1>7. after = "none"
    BY <1>2, Zenon DEF UpdateInv, Places
  <1> QED
    BY <1>2, <1>5, <1>6, <1>7, Zenon

\* Rollback.
LEMMA RollbackFacts ==
  ASSUME UpdateInv, Rollback
  PROVE  /\ UNCHANGED <<mem, disk, artifact, manifest, floor, good, boots, trusted, release>>
         /\ pc = "idle" /\ pc' = "storing" /\ after' = "none" /\ after = "none"
         /\ mem.knownGood # NoSlot
         /\ next' \in States
         /\ next'.pending = NoSlot /\ next'.active = mem.knownGood /\ next'.knownGood = mem.knownGood
         /\ next'.previous = NoSlot /\ next'.awaiting = FALSE /\ next'.attempted = FALSE
         /\ next'.revision = mem.revision
  <1>1. mem \in States
    BY Zenon DEF UpdateInv, TypeOK
  <1>2. /\ UNCHANGED <<mem, disk, artifact, manifest, floor, good, boots, trusted, release>>
        /\ pc = "idle" /\ pc' = "storing" /\ after' = "none"
        /\ mem.knownGood # NoSlot
        /\ next' = [mem EXCEPT !.active = mem.knownGood, !.pending = NoSlot, !.previous = NoSlot,
                               !.awaiting = FALSE, !.attempted = FALSE]
    BY Zenon DEF Rollback, Store, slots, history
  <1>3. /\ next' \in States
        /\ next'.pending = NoSlot /\ next'.active = mem.knownGood /\ next'.knownGood = mem.knownGood
        /\ next'.previous = NoSlot /\ next'.awaiting = FALSE /\ next'.attempted = FALSE
        /\ next'.revision = mem.revision
    BY <1>1, <1>2, RolledBackState, Zenon
  <1>4. after = "none"
    BY <1>2, Zenon DEF UpdateInv, Places
  <1> QED
    BY <1>2, <1>3, <1>4, Zenon

\* Every state that is held or stored has the shape.
LEMMA StatesStep ==
  ASSUME UpdateInv, [Next]_vars
  PROVE  mem' \in States /\ next' \in States /\ Shape(mem') /\ Shape(next')
  <1>1. mem \in States /\ next \in States /\ Shape(mem) /\ Shape(next)
    BY Zenon DEF UpdateInv, TypeOK, Shapes
  <1>3. CASE OpenLoad
    <2>1. Shape(next')
      BY <1>1, <1>3, OpenFacts, NewStateMeans, ZenonT(60) DEF Shape, ValidState
    <2> QED
      BY <1>3, <2>1, OpenFacts, Zenon
  <1>4. CASE StageSync
    BY <1>1, <1>4, StageFacts, Zenon DEF Shape, ValidState
  <1>5. CASE ActivatePending
    BY <1>1, <1>5, ActivateFacts, Zenon DEF Shape, ValidState
  <1>6. CASE ConfirmHealthy
    BY <1>1, <1>6, ConfirmFacts, Zenon DEF Shape, ValidState
  <1>7. CASE Rollback
    BY <1>1, <1>7, RollbackFacts, Zenon DEF Shape, ValidState
  <1>8. CASE StoreSync
    BY <1>1, <1>8, Zenon DEF StoreSync
  <1>9. CASE UNCHANGED <<mem, next>>
    BY <1>1, <1>9, Zenon
  <1>10. \/ OpenLoad \/ StageSync \/ ActivatePending \/ ConfirmHealthy \/ Rollback \/ StoreSync
         \/ UNCHANGED <<mem, next>>
    BY Zenon DEF Next, vars, StoreRename, Close, StageArtifact, StageManifest, FileFails, Crash, PowerLoss, Gone
  <1> QED
    BY <1>3, <1>4, <1>5, <1>6, <1>7, <1>8, <1>9, <1>10, Zenon

\* How the state file changes.
LEMMA DiskStep ==
  ASSUME UpdateInv, [Next]_vars
  PROVE  /\ disk' \in Files(States) /\ disk'.data = {disk'.seen}
         /\ \/ disk' = disk
            \/ /\ pc = "storing" /\ pc' = "renamed" /\ UNCHANGED <<mem, next, floor, good, boots, trusted>>
               /\ disk'.seen = next /\ Readable(disk') \subseteq {next} \cup Readable(disk)
            \/ StoreSync /\ disk'.seen = next /\ Readable(disk') = {next}
            \/ /\ PowerLoss
               /\ \E c \in Readable(disk) : disk'.seen = c /\ Readable(disk') = {c}
  <1>1. disk \in Files(States) /\ next \in States /\ disk.data = {disk.seen}
    BY Zenon DEF UpdateInv, TypeOK, Shapes
  <1>2. CASE disk' = disk
    BY <1>1, <1>2, Zenon
  <1>3. CASE StoreRename
    <2>1. disk' = Replaced(disk, next)
      BY <1>3, Zenon DEF StoreRename
    <2>2. pc = "storing" /\ pc' = "renamed" /\ UNCHANGED <<mem, next, floor, good, boots, trusted>>
      BY <1>3, Zenon DEF StoreRename, history
    <2> QED
      BY <1>1, <2>1, <2>2, ReadableAfter, FileTypes
  <1>4. CASE StoreSync
    <2>1. disk' = DirSynced(disk) /\ disk.seen = next
      BY <1>4, Zenon DEF StoreSync, UpdateInv, Places
    <2> QED
      BY <1>1, <1>4, <2>1, ReadableAfter, FileTypes, Zenon
  <1>5. CASE PowerLoss
    <2>1. PICK c \in Survivors(disk) : disk' = Settled(c)
      BY <1>5, Zenon DEF PowerLoss
    <2>2. c \in Readable(disk)
      BY ReadableAfter, Zenon
    <2> QED
      BY <1>1, <1>5, <2>1, <2>2, ReadableAfter, SettledType, ZenonT(60)
  <1>6. disk' = disk \/ StoreRename \/ StoreSync \/ PowerLoss
    BY Zenon DEF Next, vars, OpenLoad, Close, StageArtifact, StageManifest, StageSync, ActivatePending,
           ConfirmHealthy, Rollback, FileFails, Crash
  <1> QED
    BY <1>2, <1>3, <1>4, <1>5, <1>6, Zenon

\* How the slots change: no step but Stage's adds to what may be found in one, and
\* Stage's only in the slot that is not active; only a power loss changes what is
\* seen otherwise.
SlotsChange ==
  /\ artifact' \in [Slots -> Files(Contents)] /\ manifest' \in [Slots -> Files(Contents)]
  /\ \A slot \in Slots :
       \/ /\ Readable(artifact'[slot]) \subseteq Readable(artifact[slot])
          /\ Readable(manifest'[slot]) \subseteq Readable(manifest[slot])
          /\ pc' # "none" => /\ artifact'[slot].seen = artifact[slot].seen
                             /\ manifest'[slot].seen = manifest[slot].seen
       \/ /\ slot = StageSlot /\ mem.pending = NoSlot /\ ~mem.awaiting
          /\ pc \in {"idle", "staging"} /\ pc' \in {"staging", "staged"}
          /\ UNCHANGED <<mem, disk, floor, good, boots, trusted>>

\* Every step changes them so.
LEMMA SlotsStep ==
  ASSUME UpdateInv, [Next]_vars
  PROVE  SlotsChange
  <1>1. artifact \in [Slots -> Files(Contents)] /\ manifest \in [Slots -> Files(Contents)]
    BY Zenon DEF UpdateInv, TypeOK
  <1>2. StageSlot \in Slots
    BY Zenon DEF StageSlot, Slots
  <1>3. CASE UNCHANGED slots
    BY <1>1, <1>3, Zenon DEF slots, SlotsChange
  <1>4. ASSUME NEW r \in Releases, StageArtifact(r) PROVE SlotsChange
    <2>1. Content(r) \in Contents
      BY Zenon DEF Contents
    <2>2. /\ artifact' = [artifact EXCEPT ![StageSlot] = Replaced(artifact[StageSlot], Content(r))]
          /\ manifest' = manifest /\ pc = "idle" /\ pc' = "staging"
          /\ mem.pending = NoSlot /\ ~mem.awaiting
          /\ UNCHANGED <<mem, disk, floor, good, boots, trusted>>
      BY <1>4, Zenon DEF StageArtifact, history
    <2>3. Replaced(artifact[StageSlot], Content(r)) \in Files(Contents)
      BY <1>1, <1>2, <2>1, FileTypes, Zenon
    <2>4. artifact' \in [Slots -> Files(Contents)]
      BY <1>1, <1>2, <2>2, <2>3, Zenon
    <2>5. \A slot \in Slots : slot # StageSlot => artifact'[slot] = artifact[slot]
      BY <1>1, <1>2, <2>2, Zenon
    <2> QED
      BY <1>1, <2>2, <2>4, <2>5, Zenon DEF SlotsChange
  <1>5. CASE StageManifest
    <2>1. /\ manifest' = [manifest EXCEPT ![StageSlot] = Replaced(manifest[StageSlot], release)]
          /\ artifact' = artifact /\ pc = "staging" /\ pc' = "staged"
          /\ UNCHANGED <<mem, disk, floor, good, boots, trusted>>
      BY <1>5, Zenon DEF StageManifest, history
    <2>2. release \in Contents /\ mem.pending = NoSlot /\ ~mem.awaiting
      BY <2>1, Zenon DEF UpdateInv, Staging
    <2>3. Replaced(manifest[StageSlot], release) \in Files(Contents)
      BY <1>1, <1>2, <2>2, FileTypes, Zenon
    <2>4. manifest' \in [Slots -> Files(Contents)]
      BY <1>1, <1>2, <2>1, <2>3, Zenon
    <2>5. \A slot \in Slots : slot # StageSlot => manifest'[slot] = manifest[slot]
      BY <1>1, <1>2, <2>1, Zenon
    <2> QED
      BY <1>1, <2>1, <2>2, <2>4, <2>5, Zenon DEF SlotsChange
  <1>6. CASE StageSync
    <2>1. /\ artifact' = [artifact EXCEPT ![StageSlot] = DirSynced(artifact[StageSlot])]
          /\ manifest' = [manifest EXCEPT ![StageSlot] = DirSynced(manifest[StageSlot])]
      BY <1>6, Zenon DEF StageSync
    <2>2. /\ DirSynced(artifact[StageSlot]) \in Files(Contents)
          /\ DirSynced(manifest[StageSlot]) \in Files(Contents)
      BY <1>1, <1>2, Zenon DEF Files, DirSynced
    <2>3. artifact' \in [Slots -> Files(Contents)] /\ manifest' \in [Slots -> Files(Contents)]
      BY <1>1, <1>2, <2>1, <2>2, Zenon
    <2>4. ASSUME NEW slot \in Slots
          PROVE  /\ artifact'[slot] \in {artifact[slot], DirSynced(artifact[slot])}
                 /\ manifest'[slot] \in {manifest[slot], DirSynced(manifest[slot])}
      BY <1>1, <1>2, <2>1, Zenon
    <2> QED
      BY <2>3, <2>4 DEF SlotsChange, Readable, DirSynced, Survivors
  <1>7. CASE PowerLoss
    <2>1. pc' = "none"
      BY <1>7, Zenon DEF PowerLoss, Gone
    <2>2. PICK x, y : /\ x \in Survivors(artifact["a"]) /\ y \in Survivors(artifact["b"])
                      /\ artifact' = [s \in Slots |-> Settled(IF s = "a" THEN x ELSE y)]
      BY <1>7 DEF PowerLoss
    <2>3. PICK u, v : /\ u \in Survivors(manifest["a"]) /\ v \in Survivors(manifest["b"])
                      /\ manifest' = [s \in Slots |-> Settled(IF s = "a" THEN u ELSE v)]
      BY <1>7 DEF PowerLoss
    <2>4. "a" \in Slots /\ "b" \in Slots /\ \A s \in Slots : s = "a" \/ s = "b"
      BY Zenon DEF Slots
    <2>5. /\ artifact'["a"] = Settled(x) /\ artifact'["b"] = Settled(y)
          /\ manifest'["a"] = Settled(u) /\ manifest'["b"] = Settled(v)
      BY <2>2, <2>3, <2>4, Zenon
    <2>6. /\ Settled(x) \in Files(Contents) /\ Settled(y) \in Files(Contents)
          /\ Settled(u) \in Files(Contents) /\ Settled(v) \in Files(Contents)
      BY <1>1, <2>2, <2>3, <2>4, SettledType, Zenon
    <2>7. artifact' \in [Slots -> Files(Contents)] /\ manifest' \in [Slots -> Files(Contents)]
      BY <2>2, <2>3, <2>4, <2>6, Zenon
    <2>8. /\ Readable(Settled(x)) \subseteq Readable(artifact["a"])
          /\ Readable(Settled(y)) \subseteq Readable(artifact["b"])
          /\ Readable(Settled(u)) \subseteq Readable(manifest["a"])
          /\ Readable(Settled(v)) \subseteq Readable(manifest["b"])
      <3>1. \A c, f : c \in Survivors(f) => Readable(Settled(c)) \subseteq Readable(f)
        BY Zenon DEF Settled, Survivors, Readable
      <3> QED
        BY <2>2, <2>3, <3>1, Zenon
    <2> QED
      BY <2>1, <2>4, <2>5, <2>7, <2>8, Zenon DEF SlotsChange
  <1>8. \/ (\E r \in Releases : StageArtifact(r)) \/ StageManifest \/ StageSync \/ PowerLoss
        \/ UNCHANGED slots
    BY Zenon DEF Next, vars, slots, OpenLoad, StoreRename, StoreSync, Close, ActivatePending,
           ConfirmHealthy, Rollback, FileFails, Crash
  <1> QED
    BY <1>3, <1>4, <1>5, <1>6, <1>7, <1>8, Zenon

-----------------------------------------------------------------------------
(* The conjuncts of the invariant, one by one. *)

\* The variables that are neither states nor files.
LEMMA TypeStep ==
  ASSUME UpdateInv, [Next]_vars
  PROVE  TypeOK'
  <1>1. TypeOK /\ Places /\ Intact
    BY Zenon DEF UpdateInv
  <1>2. /\ mem' \in States /\ next' \in States /\ ValidState(mem') /\ ValidState(next')
        /\ artifact' \in [Slots -> Files(Contents)] /\ manifest' \in [Slots -> Files(Contents)]
        /\ disk' \in Files(States)
    BY StatesStep, SlotsStep, DiskStep, Zenon DEF Shape, SlotsChange
  <1>3. disk'.seen # Absent => ValidState(disk'.seen)
    <2>1. \A s \in Readable(disk) : s = Absent \/ ValidState(s)
      BY Zenon DEF UpdateInv, Shapes, Shape
    <2>2. disk'.seen = next \/ disk'.seen \in Readable(disk)
      BY DiskStep, ReadableAfter, Zenon
    <2>3. ValidState(next)
      BY <1>1, Zenon DEF TypeOK
    <2> QED
      BY <2>1, <2>2, <2>3, Zenon
  <1>4. /\ pc' \in {"none", "idle", "storing", "renamed", "staging", "staged"}
        /\ after' \in {"none", "opened", "confirmed"}
    BY <1>1, Zenon DEF TypeOK, Next, vars, OpenLoad, Store, StoreRename, StoreSync, Close, StageArtifact, StageManifest,
           StageSync, ActivatePending, ConfirmHealthy, Rollback, FileFails, Crash, PowerLoss, Gone
  <1>5. release' \in Contents \cup {Absent}
    <2>1. \A r \in Releases : Content(r) \in Contents
      BY Zenon DEF Contents
    <2>2. UNCHANGED release \/ \E r \in Releases : release' = Content(r)
      BY Zenon DEF Next, vars, OpenLoad, Store, StoreRename, StoreSync, Close, StageArtifact, StageManifest,
           StageSync, ActivatePending, ConfirmHealthy, Rollback, FileFails, Crash, PowerLoss, Gone
    <2> QED
      BY <1>1, <2>1, <2>2, Zenon DEF TypeOK
  <1>6. floor' \in 0..MaxRevision /\ good' \subseteq Contents /\ boots' \in Nat
    <2>1. CASE StoreSync
      <3>1. next.revision \in 0..MaxRevision /\ boots + 1 \in Nat
        BY <1>1, StateMeans DEF TypeOK
      <3>2. after = "confirmed" => manifest[next.active].seen \in Contents
        <4> SUFFICES ASSUME after = "confirmed" PROVE manifest[next.active].seen \in Contents
          BY Zenon
        <4>1. next.active \in Slots
          BY <1>1, StateMeans, Zenon DEF TypeOK, Places
        <4>2. Verified(next)
          BY <1>1, <2>1, Zenon DEF StoreSync, Intact
        <4> QED
          BY <4>1, <4>2, Zenon DEF Verified, Referenced, Installed
      <3> QED
        BY <1>1, <2>1, <3>1, <3>2, Zenon DEF StoreSync, TypeOK
    <2>2. CASE ConfirmHealthy
      BY <1>1, <2>2, ConfirmFacts, Zenon DEF TypeOK
    <2>3. CASE ActivatePending
      BY <1>1, <2>3, ActivateFacts DEF TypeOK
    <2>4. StoreSync \/ ConfirmHealthy \/ ActivatePending \/ UNCHANGED <<floor, good, boots>>
      BY Zenon DEF Next, vars, history, OpenLoad, StoreRename, Close, StageArtifact, StageManifest,
           StageSync, Rollback, FileFails, Crash, PowerLoss, Gone
    <2> QED
      BY <1>1, <2>1, <2>2, <2>3, <2>4, Zenon DEF TypeOK
  <1>7. trusted' \in BOOLEAN
    <2>1. trusted' = trusted \/ trusted' = FALSE \/ trusted' = (trusted /\ disk.old = {})
      BY Zenon DEF Next, vars, OpenLoad, StoreRename, StoreSync, Close, StageArtifact, StageManifest,
           StageSync, ActivatePending, ConfirmHealthy, Rollback, FileFails, Crash, PowerLoss, Gone
    <2> QED
      BY <1>1, <2>1, Zenon DEF TypeOK
  <1>8. faults' \in 0..MaxFaults
    <2>1. faults' = faults \/ (faults < MaxFaults /\ faults' = faults + 1)
      BY Zenon DEF Next, vars, OpenLoad, StoreRename, StoreSync, Close, StageArtifact, StageManifest,
           StageSync, ActivatePending, ConfirmHealthy, Rollback, FileFails, Crash, PowerLoss, Fault
    <2> QED
      BY <1>1, <2>1, FaultsAssumption DEF TypeOK
  <1> QED
    BY <1>2, <1>3, <1>4, <1>5, <1>6, <1>7, <1>8, Zenon DEF TypeOK

LEMMA ShapesStep ==
  ASSUME UpdateInv, [Next]_vars
  PROVE  Shapes'
  <1>1. /\ \A s \in Readable(disk) : s = Absent \/ (s \in States /\ Shape(s))
        /\ next \in States /\ Shape(next)
    BY Zenon DEF UpdateInv, Shapes, TypeOK
  <1>2. Readable(disk') \subseteq {next} \cup Readable(disk)
    <2>1. CASE disk' = disk
      BY <2>1, Zenon
    <2> QED
      BY <2>1, DiskStep, Zenon
  <1>3. \A s \in Readable(disk') : s = Absent \/ (s \in States /\ Shape(s))
    BY <1>1, <1>2, Zenon
  <1> QED
    BY <1>3, StatesStep, DiskStep, Zenon DEF Shapes

LEMMA PlacesStep ==
  ASSUME UpdateInv, [Next]_vars
  PROVE  Places'
  <1>1. TypeOK /\ Places
    BY Zenon DEF UpdateInv
  <1>2. CASE OpenLoad
    BY <1>1, <1>2, OpenFacts, Zenon DEF Places
  <1>3. CASE StoreRename
    BY <1>1, <1>3, Zenon DEF StoreRename, Places, Replaced
  <1>4. CASE StoreSync
    BY <1>1, <1>4, Zenon DEF StoreSync, Places
  <1>5. CASE ConfirmHealthy
    BY <1>1, <1>5, ConfirmFacts, Zenon DEF Places
  <1>6. CASE StageSync \/ ActivatePending \/ Rollback
    BY <1>1, <1>6, Zenon DEF StageSync, ActivatePending, Rollback, Store, Places
  <1>7. CASE Close \/ (\E r \in Releases : StageArtifact(r)) \/ StageManifest
    BY <1>1, <1>7, Zenon DEF Close, StageArtifact, StageManifest, Places
  <1>8. CASE FileFails \/ Crash \/ PowerLoss
    BY <1>8, Zenon DEF FileFails, Crash, PowerLoss, Gone, Places
  <1>9. CASE UNCHANGED vars
    BY <1>1, <1>9, Zenon DEF Places, vars
  <1> QED
    BY <1>2, <1>3, <1>4, <1>5, <1>6, <1>7, <1>8, <1>9, Zenon DEF Next

LEMMA StagingStep ==
  ASSUME UpdateInv, [Next]_vars
  PROVE  Staging'
  <1>1. TypeOK /\ Staging
    BY Zenon DEF UpdateInv
  <1>2. artifact \in [Slots -> Files(Contents)] /\ manifest \in [Slots -> Files(Contents)]
    BY <1>1, Zenon DEF TypeOK
  <1>3. StageSlot \in Slots
    BY Zenon DEF StageSlot, Slots
  <1>4. ASSUME NEW r \in Releases, StageArtifact(r) PROVE Staging'
    <2>1. /\ artifact' = [artifact EXCEPT ![StageSlot] = Replaced(artifact[StageSlot], Content(r))]
          /\ pc' = "staging" /\ release' = Content(r) /\ mem' = mem
          /\ mem.pending = NoSlot /\ ~mem.awaiting /\ Revision[r] >= mem.revision
      BY <1>4, Zenon DEF StageArtifact
    <2>2. Content(r) \in Contents /\ Content(r).of = r
      BY Zenon DEF Contents, Content
    <2>3. artifact'[StageSlot].seen = Content(r) /\ artifact'[StageSlot].data = {Content(r)}
      BY <1>2, <1>3, <2>1, ReadableAfter
    <2>4. StageSlot' = StageSlot
      BY <2>1, Zenon DEF StageSlot
    <2> QED
      BY <2>1, <2>2, <2>3, <2>4, Zenon DEF Staging
  <1>5. CASE StageManifest
    <2>1. /\ manifest' = [manifest EXCEPT ![StageSlot] = Replaced(manifest[StageSlot], release)]
          /\ pc = "staging" /\ UNCHANGED <<release, mem, artifact>>
      BY <1>5, Zenon DEF StageManifest
    <2>2. manifest'[StageSlot].seen = release /\ manifest'[StageSlot].data = {release}
      BY <1>2, <1>3, <2>1, ReadableAfter
    <2>3. StageSlot' = StageSlot
      BY <2>1, Zenon DEF StageSlot
    <2> QED
      BY <1>1, <2>1, <2>2, <2>3, Zenon DEF Staging
  <1>6. CASE pc' \notin {"staging", "staged"}
    BY <1>6, Zenon DEF Staging
  <1>7. CASE UNCHANGED vars
    BY <1>1, <1>7, Zenon DEF Staging, StageSlot, vars
  <1>8. \/ (\E r \in Releases : StageArtifact(r)) \/ StageManifest \/ UNCHANGED vars
        \/ pc' \notin {"staging", "staged"}
    BY Zenon DEF Next, OpenLoad, Store, StoreRename, StoreSync, Close, StageSync, ActivatePending,
           ConfirmHealthy, Rollback, FileFails, Crash, PowerLoss, Gone
  <1> QED
    BY <1>4, <1>5, <1>6, <1>7, <1>8, Zenon

\* The slots that the Manager's state names are not written to.
LEMMA KeptSlots ==
  ASSUME UpdateInv, [Next]_vars
  PROVE  \A slot \in Slots :
           slot \in Referenced(mem) \/ pc' \notin {"staging", "staged"} =>
             /\ Readable(artifact'[slot]) \subseteq Readable(artifact[slot])
             /\ Readable(manifest'[slot]) \subseteq Readable(manifest[slot])
             /\ pc' # "none" => /\ artifact'[slot].seen = artifact[slot].seen
                                /\ manifest'[slot].seen = manifest[slot].seen
  <1>1. mem \in States /\ Shape(mem)
    BY Zenon DEF UpdateInv, TypeOK, Shapes
  <1>2. ~mem.awaiting /\ mem.pending = NoSlot => StageSlot \notin Referenced(mem)
    BY <1>1, FaultsAssumption, Zenon DEF Shape, ValidState, Referenced, StageSlot, Slots
  <1> QED
    BY <1>2, SlotsStep, Zenon DEF SlotsChange

\* A state that names no more slots than another is as good.
SeenIn(s, art, man) ==
  \A slot \in Referenced(s) : Installed(art[slot].seen, man[slot].seen, s.revision)

LEMMA FewerSlots ==
  ASSUME NEW s, NEW n, NEW a, NEW m, NEW g, Referenced(n) \subseteq Referenced(s), n.revision = s.revision
  PROVE  /\ SeenIn(s, a, m) => SeenIn(n, a, m)
         /\ SolidIn(s, a, m, g) /\ n.knownGood = s.knownGood => SolidIn(n, a, m, g)
  BY Zenon DEF SeenIn, SolidIn

\* The states that loadAndRecover, ActivatePending and Rollback store name no slot that
\* the Manager's state does not.
LEMMA NoNewSlots ==
  ASSUME UpdateInv,
         ActivatePending \/ Rollback \/ (OpenLoad /\ pc' = "storing" /\ mem'.awaiting)
  PROVE  /\ Referenced(next') \subseteq Referenced(mem')
         /\ next'.revision = mem'.revision /\ next'.knownGood = mem'.knownGood
  <1>1. CASE ActivatePending
    BY <1>1, ActivateFacts, Zenon DEF Referenced
  <1>2. CASE Rollback
    BY <1>2, RollbackFacts, FaultsAssumption, Zenon DEF Referenced, Slots
  <1>3. CASE OpenLoad /\ pc' = "storing" /\ mem'.awaiting
    BY <1>3, OpenFacts, NewStateMeans, FaultsAssumption, Zenon DEF Referenced, Slots
  <1> QED
    BY <1>1, <1>2, <1>3, Zenon

LEMMA IntactStep ==
  ASSUME UpdateInv, [Next]_vars
  PROVE  Intact'
  <1>1. TypeOK /\ Shapes /\ Places /\ Staging /\ Intact
    BY Zenon DEF UpdateInv
  <1>2. mem \in States /\ next \in States /\ Shape(mem)
    BY <1>1, Zenon DEF TypeOK, Shapes
  <1>3. /\ Verified(mem) <=> SeenIn(mem, artifact, manifest)
        /\ Verified(next) <=> SeenIn(next, artifact, manifest)
        /\ Verified(disk.seen) <=> SeenIn(disk.seen, artifact, manifest)
        /\ Verified(mem)' <=> SeenIn(mem', artifact', manifest')
        /\ Verified(next)' <=> SeenIn(next', artifact', manifest')
    BY Zenon DEF Verified, SeenIn
  <1>4. CASE OpenLoad
    <2>1. CASE mem' = NewState /\ next' = NewState
      BY <1>3, <2>1, NewStateMeans, Zenon DEF Intact, SeenIn
    <2>2. CASE disk.seen = mem' /\ Verified(disk.seen) /\ mem'.awaiting /\ pc' = "storing" /\ after' = "opened"
      <3>1. SeenIn(mem', artifact', manifest')
        BY <1>3, <1>4, <2>2, OpenFacts, Zenon
      <3>2. SeenIn(next', artifact', manifest')
        BY <1>4, <2>2, <3>1, NoNewSlots, FewerSlots, Zenon
      <3> QED
        BY <1>3, <3>1, <3>2, Zenon DEF Intact
    <2>3. CASE disk.seen = mem' /\ Verified(disk.seen) /\ pc' = "idle"
      BY <1>3, <1>4, <2>3, OpenFacts, Zenon DEF Intact
    <2> QED
      BY <1>4, <2>1, <2>2, <2>3, OpenFacts, Zenon
  <1>5. CASE StoreSync
    <2>1. mem' = next /\ UNCHANGED <<next, artifact, manifest>> /\ pc' = "idle" /\ Verified(next)
      BY <1>1, <1>5, Zenon DEF StoreSync, slots, Intact
    <2> QED
      BY <1>3, <2>1, Zenon DEF Intact
  <1>6. CASE pc' = "none"
    BY <1>6, Zenon DEF Intact
  <1>7. ASSUME pc' # "none", pc # "none", mem' = mem, after # "opened"
        PROVE  SeenIn(mem', artifact', manifest')
    <2>1. SeenIn(mem, artifact, manifest)
      BY <1>1, <1>3, <1>7, Zenon DEF Intact
    <2>2. \A slot \in Referenced(mem) : artifact'[slot].seen = artifact[slot].seen
                                        /\ manifest'[slot].seen = manifest[slot].seen
      BY <1>7, KeptSlots, Zenon DEF Referenced
    <2> QED
      BY <1>7, <2>1, <2>2, Zenon DEF SeenIn
  <1>8. CASE StoreRename
    <2>1. UNCHANGED <<mem, next, artifact, manifest, after>> /\ pc = "storing" /\ pc' = "renamed"
      BY <1>8, Zenon DEF StoreRename, slots
    <2> QED
      BY <1>1, <1>3, <2>1, Zenon DEF Intact
  <1>9. CASE ActivatePending \/ Rollback
    <2>1. pc = "idle" /\ mem' = mem /\ pc' = "storing" /\ after = "none"
      BY <1>9, ActivateFacts, RollbackFacts, Zenon
    <2>2. SeenIn(mem', artifact', manifest')
      BY <1>7, <2>1, Zenon
    <2>3. SeenIn(next', artifact', manifest')
      BY <1>9, <2>2, NoNewSlots, FewerSlots, Zenon
    <2> QED
      BY <1>3, <2>2, <2>3, Zenon DEF Intact
  <1>10. CASE ConfirmHealthy
    <2>1. SeenIn(mem', artifact', manifest')
      BY <1>7, <1>10, ConfirmFacts, Zenon
    <2>2. Referenced(next') = {mem.active} /\ mem.active \in Referenced(mem)
      BY <1>2, <1>10, ConfirmFacts, FaultsAssumption, ZenonT(60) DEF Shape, Referenced, Slots
    <2>3. /\ artifact[mem.active].seen = manifest[mem.active].seen
          /\ artifact[mem.active].seen \in Contents
          /\ Revision[manifest[mem.active].seen.of] >= mem.revision
      BY <1>10, <2>1, <2>2, ConfirmFacts, Zenon DEF SeenIn, Installed
    <2>4. Revision[manifest[mem.active].seen.of] \in 0..MaxRevision /\ mem.revision \in 0..MaxRevision
      BY <1>2, <2>3, ReleaseMeans, StateMeans, Zenon
    <2>5. Revision[manifest[mem.active].seen.of] >= next'.revision
      BY <1>10, <2>3, <2>4, ConfirmFacts, RevisionAssumption
    <2>6. SeenIn(next', artifact', manifest')
      BY <1>10, <2>2, <2>3, <2>5, ConfirmFacts, Zenon DEF SeenIn, Installed
    <2> QED
      BY <1>3, <2>1, <2>6, Zenon DEF Intact
  <1>11. CASE StageSync
    <2>1. after # "opened"
      BY <1>1, <1>11, StageFacts, Zenon DEF Places
    <2>2. SeenIn(mem', artifact', manifest')
      BY <1>7, <1>11, <2>1, StageFacts, Zenon
    <2>3. Referenced(next') \subseteq Referenced(mem) \cup {StageSlot}
      BY <1>11, StageFacts, Zenon DEF Referenced
    <2>4. /\ artifact'[StageSlot].seen = release /\ manifest'[StageSlot].seen = release
          /\ release \in Contents /\ Revision[release.of] >= mem.revision
      BY <1>1, <1>11, StageFacts, KeptSlots, Zenon DEF Staging
    <2>5. SeenIn(next', artifact', manifest')
      BY <1>11, <2>2, <2>3, <2>4, StageFacts, Zenon DEF SeenIn, Installed
    <2> QED
      BY <1>3, <2>2, <2>5, Zenon DEF Intact
  <1>12. CASE (\E r \in Releases : StageArtifact(r)) \/ StageManifest
    <2>1. pc \in {"idle", "staging"} /\ pc' \in {"staging", "staged"} /\ mem' = mem
      BY <1>12, Zenon DEF StageArtifact, StageManifest
    <2>2. after # "opened"
      BY <1>1, <2>1, Zenon DEF Places
    <2> QED
      BY <1>3, <1>7, <2>1, <2>2, Zenon DEF Intact
  <1>13. CASE FileFails
    <2>1. pc # "none" /\ mem' = mem /\ pc' = IF after = "opened" THEN "none" ELSE "idle"
      BY <1>13, Zenon DEF FileFails
    <2> QED
      BY <1>3, <1>7, <2>1, Zenon DEF Intact
  <1>14. CASE UNCHANGED vars
    BY <1>1, <1>14, Zenon DEF Intact, Verified, vars
  <1>15. CASE Close \/ Crash \/ PowerLoss
    BY <1>6, <1>15, Zenon DEF Close, Crash, PowerLoss, Gone
  <1> QED
    BY <1>4, <1>5, <1>8, <1>9, <1>10, <1>11, <1>12, <1>13, <1>14, <1>15, Zenon DEF Next

LEMMA FloorStep ==
  ASSUME UpdateInv, [Next]_vars
  PROVE  AboveFloor'
  <1>1. TypeOK /\ Places /\ AboveFloor /\ Shapes
    BY Zenon DEF UpdateInv
  <1>2. /\ mem \in States /\ next \in States /\ floor \in Nat
        /\ mem.revision \in Nat /\ next.revision \in Nat
    BY <1>1, StateMeans DEF TypeOK
  <1>3. CASE OpenLoad
    <2>1. disk.seen \in Readable(disk) /\ UNCHANGED <<disk, floor>>
      BY <1>3, OpenFacts, ReadableAfter, Zenon
    <2>2. disk.seen = Absent => floor = 0
      BY <1>1, <1>2, <2>1 DEF AboveFloor, RevisionKept
    <2>3. disk.seen \in States => disk.seen.revision >= floor
      BY <1>1, <1>2, <2>1, StateMeans DEF AboveFloor, RevisionKept
    <2>4. mem'.revision >= floor
      <3>1. mem' \in States /\ (disk.seen = mem' \/ (disk.seen = Absent /\ mem' = NewState))
        BY <1>3, OpenFacts, Zenon
      <3>2. NewState.revision = 0
        BY NewStateMeans, Zenon
      <3> QED
        BY <2>2, <2>3, <3>1, <3>2
    <2>5. pc' = "storing" => next'.revision >= floor
      BY <1>3, <2>2, <2>4, OpenFacts, NewStateMeans, Zenon
    <2>6. pc' # "renamed"
      BY <1>3, OpenFacts, Zenon
    <2>7. RevisionKept'
      BY <1>1, <2>1, Zenon DEF AboveFloor, RevisionKept, Readable, Survivors
    <2> QED
      BY <2>1, <2>4, <2>5, <2>6, <2>7, Zenon DEF AboveFloor
  <1>4. CASE StoreRename
    <2>1. /\ pc = "storing" /\ pc' = "renamed" /\ UNCHANGED <<mem, next, floor>>
          /\ disk' = Replaced(disk, next)
      BY <1>4, Zenon DEF StoreRename, history
    <2>2. Readable(disk') \subseteq {next} \cup Readable(disk)
      BY <2>1, ReadableAfter, Zenon
    <2>3. next # Absent /\ next.revision >= floor
      BY <1>1, <1>2, <2>1, StateMeans, Zenon DEF AboveFloor
    <2>4. RevisionKept'
      BY <1>1, <2>1, <2>2, <2>3, Zenon DEF AboveFloor, RevisionKept
    <2> QED
      BY <1>1, <2>1, <2>4, Zenon DEF AboveFloor
  <1>5. CASE StoreSync
    <2>1. /\ pc = "renamed" /\ pc' = "idle" /\ mem' = next /\ next' = next
          /\ floor' = floor \/ floor' = next.revision
      BY <1>5, Zenon DEF StoreSync
    <2>2. Readable(disk') = {next}
      <3>1. disk' = DirSynced(disk) /\ disk.seen = next /\ disk.data = {disk.seen}
        BY <1>1, <1>5, Zenon DEF StoreSync, Places, Shapes
      <3> QED
        BY <3>1, Zenon DEF Readable, DirSynced, Survivors
    <2>3. next # Absent /\ next.revision >= floor /\ next.revision >= floor'
      BY <1>1, <1>2, <2>1, StateMeans DEF AboveFloor
    <2>4. RevisionKept'
      BY <2>2, <2>3, Zenon DEF RevisionKept
    <2> QED
      BY <2>1, <2>3, <2>4, Zenon DEF AboveFloor
  <1>6. CASE PowerLoss
    <2>1. pc' = "none" /\ floor' = floor
      BY <1>6, Zenon DEF PowerLoss, Gone, history
    <2>2. PICK c \in Readable(disk) : Readable(disk') = {c}
      <3>1. PICK c \in Survivors(disk) : disk' = Settled(c)
        BY <1>6, Zenon DEF PowerLoss
      <3> QED
        BY <3>1, ReadableAfter, Zenon
    <2> QED
      BY <1>1, <2>1, <2>2, Zenon DEF AboveFloor, RevisionKept
  <1>7. ASSUME UNCHANGED <<disk, floor>> PROVE RevisionKept'
    BY <1>1, <1>7, Zenon DEF AboveFloor, RevisionKept, Readable, Survivors
  <1>8. CASE ConfirmHealthy
    <2>1. next' \in States /\ next'.revision >= mem.revision /\ mem.revision >= floor
      BY <1>1, <1>8, ConfirmFacts, Zenon DEF AboveFloor
    <2>2. next'.revision >= floor
      BY <1>2, <2>1, StateMeans
    <2> QED
      BY <1>7, <1>8, <2>1, <2>2, ConfirmFacts, Zenon DEF AboveFloor
  <1>9. CASE StageSync
    BY <1>1, <1>7, <1>9, StageFacts, Zenon DEF AboveFloor
  <1>10. CASE ActivatePending
    BY <1>1, <1>7, <1>10, ActivateFacts, Zenon DEF AboveFloor
  <1>11. CASE Rollback
    BY <1>1, <1>7, <1>11, RollbackFacts, Zenon DEF AboveFloor
  <1>12. CASE Close \/ (\E r \in Releases : StageArtifact(r)) \/ StageManifest \/ FileFails \/ Crash
    <2>1. /\ UNCHANGED <<disk, floor, mem>> /\ pc' \notin {"storing", "renamed"}
          /\ pc' # "none" => pc # "none"
      BY <1>12, Zenon DEF Close, StageArtifact, StageManifest, FileFails, Crash, Gone, history
    <2> QED
      BY <1>1, <1>7, <2>1, Zenon DEF AboveFloor
  <1>13. CASE UNCHANGED vars
    BY <1>1, <1>7, <1>13, Zenon DEF AboveFloor, vars
  <1> QED
    BY <1>3, <1>4, <1>5, <1>6, <1>8, <1>9, <1>10, <1>11, <1>12, <1>13, Zenon DEF Next

LEMMA BootStep ==
  ASSUME UpdateInv, [Next]_vars
  PROVE  BootRecorded'
  <1>1. TypeOK /\ Places /\ BootRecorded
    BY Zenon DEF UpdateInv
  <1>2. mem \in States /\ next \in States /\ boots \in Nat
    BY <1>1, Zenon DEF TypeOK
  <1>3. CASE OpenLoad
    <2>1. disk.seen \in Readable(disk) /\ UNCHANGED <<disk, boots>> /\ pc' \in {"idle", "storing"}
      BY <1>3, OpenFacts, ReadableAfter, Zenon
    <2>2. boots > 0 => disk.seen # Absent /\ (disk.seen.awaiting => disk.seen.attempted)
      BY <1>1, <2>1, Zenon DEF BootRecorded
    <2>3. boots > 0 => (mem'.awaiting => mem'.attempted)
      BY <1>3, <2>2, OpenFacts, Zenon
    <2>4. pc' = "storing" => (next'.awaiting => next'.attempted)
      BY <1>3, OpenFacts, NewStateMeans, Zenon
    <2>5. after' = "opened" /\ next'.awaiting => boots = 0 /\ next'.attempted
      <3> SUFFICES ASSUME after' = "opened", next'.awaiting PROVE boots = 0 /\ next'.attempted
        BY Zenon
      <3>1. disk.seen = mem' /\ mem'.awaiting /\ ~mem'.attempted /\ next'.attempted
        BY <1>3, OpenFacts, NewStateMeans, Zenon
      <3> QED
        BY <1>2, <2>2, <3>1
    <2> QED
      BY <1>1, <2>1, <2>3, <2>4, <2>5, Zenon DEF BootRecorded, OneBoot
  <1>4. CASE StoreRename
    <2>1. /\ pc = "storing" /\ pc' = "renamed" /\ UNCHANGED <<mem, next, boots, after>>
          /\ disk' = Replaced(disk, next)
      BY <1>4, Zenon DEF StoreRename, history
    <2>2. Readable(disk') \subseteq {next} \cup Readable(disk) /\ next # Absent
      BY <1>2, <2>1, ReadableAfter, StateMeans, Zenon
    <2> QED
      BY <1>1, <2>1, <2>2, Zenon DEF BootRecorded, OneBoot
  <1>5. CASE StoreSync
    <2>1. /\ pc = "renamed" /\ pc' = "idle" /\ mem' = next /\ next' = next /\ after' = "none"
          /\ boots' = IF after = "opened" /\ next.awaiting THEN boots + 1 ELSE boots
      BY <1>5, Zenon DEF StoreSync
    <2>2. Readable(disk') = {next} /\ next # Absent
      <3>1. disk' = DirSynced(disk) /\ disk.seen = next /\ disk.data = {disk.seen}
        BY <1>1, <1>5, Zenon DEF StoreSync, Places, UpdateInv, Shapes
      <3> QED
        BY <1>2, <3>1, ReadableAfter, StateMeans, Zenon
    <2>3. CASE after = "opened" /\ next.awaiting
      <3>1. boots' = 1 /\ next.attempted
        BY <1>1, <1>2, <2>1, <2>3 DEF BootRecorded
      <3> QED
        BY <2>1, <2>2, <3>1 DEF BootRecorded, OneBoot
    <2>4. CASE ~(after = "opened" /\ next.awaiting)
      <3>1. boots' = boots
        BY <2>1, <2>4, Zenon
      <3> QED
        BY <1>1, <2>1, <2>2, <3>1, Zenon DEF BootRecorded, OneBoot
    <2> QED
      BY <2>3, <2>4, Zenon
  <1>6. CASE PowerLoss
    <2>1. pc' = "none" /\ boots' = boots /\ after' = "none"
      BY <1>6, Zenon DEF PowerLoss, Gone, history
    <2>2. PICK c \in Readable(disk) : Readable(disk') = {c}
      <3>1. PICK c \in Survivors(disk) : disk' = Settled(c)
        BY <1>6, Zenon DEF PowerLoss
      <3> QED
        BY <3>1, Zenon DEF Readable, Settled, Survivors
    <2> QED
      BY <1>1, <2>1, <2>2, Zenon DEF BootRecorded, OneBoot
  <1>7. CASE ActivatePending
    <2>1. boots' = 0 /\ after' = "none"
      BY <1>7, ActivateFacts, Zenon
    <2> QED
      BY <2>1 DEF BootRecorded, OneBoot
  <1>8. CASE ConfirmHealthy
    BY <1>1, <1>8, ConfirmFacts, Zenon DEF BootRecorded, OneBoot
  <1>9. CASE StageSync
    BY <1>1, <1>9, StageFacts, Zenon DEF BootRecorded, OneBoot
  <1>10. CASE Rollback
    BY <1>1, <1>10, RollbackFacts, Zenon DEF BootRecorded, OneBoot
  <1>11. CASE Close \/ (\E r \in Releases : StageArtifact(r)) \/ StageManifest \/ FileFails \/ Crash
    <2>1. /\ UNCHANGED <<disk, boots, mem>> /\ pc' \notin {"storing", "renamed"}
          /\ pc' # "none" => pc # "none"
      BY <1>11, Zenon DEF Close, StageArtifact, StageManifest, FileFails, Crash, Gone, history
    <2>2. after' # "opened"
      BY <1>1, <1>11, Zenon DEF Places, Close, StageArtifact, StageManifest, FileFails, Crash, Gone
    <2> QED
      BY <1>1, <2>1, <2>2, Zenon DEF BootRecorded, OneBoot
  <1>12. CASE UNCHANGED vars
    BY <1>1, <1>12, Zenon DEF BootRecorded, OneBoot, vars
  <1> QED
    BY <1>3, <1>4, <1>5, <1>6, <1>7, <1>8, <1>9, <1>10, <1>11, <1>12, Zenon DEF Next

LEMMA SyncStep ==
  ASSUME UpdateInv, [Next]_vars
  PROVE  Synchronised'
  <1> SUFFICES ASSUME trusted' PROVE Synchronised'
    BY Zenon DEF Synchronised
  <1>1. TypeOK /\ Shapes /\ Places /\ Staging /\ Intact /\ Synchronised
    BY Zenon DEF UpdateInv
  <1>2. mem \in States /\ next \in States /\ Shape(mem) /\ Shape(next)
    BY <1>1, Zenon DEF TypeOK, Shapes
  <1>3. disk.data = {disk.seen} /\ \A s \in Readable(disk) : s = Absent \/ s \in States
    BY <1>1, Zenon DEF Shapes
  <1>4. trusted
    <2>1. trusted' = trusted \/ trusted' = FALSE \/ trusted' = (trusted /\ disk.old = {})
      BY Zenon DEF Next, vars, OpenLoad, StoreRename, StoreSync, Close, StageArtifact, StageManifest,
           StageSync, ActivatePending, ConfirmHealthy, Rollback, FileFails, Crash, PowerLoss, Gone
    <2> QED
      BY <2>1, Zenon
  <1>5. /\ \A s \in Readable(disk) : s # Absent => SolidIn(s, artifact, manifest, good)
        /\ pc # "none" => SolidIn(mem, artifact, manifest, good)
        /\ pc \in {"storing", "renamed"} => SolidIn(next, artifact, manifest, good)
        /\ pc \in {"idle", "staging", "staged"} => Readable(disk) = {mem}
        /\ pc = "storing" => Readable(disk) \subseteq {mem, Absent}
        /\ pc = "renamed" => Readable(disk) \subseteq {next, mem, Absent}
    BY <1>1, <1>4, Zenon DEF Synchronised, Solid
  <1>6. SUFFICES /\ \A s \in Readable(disk') : s # Absent => SolidIn(s, artifact', manifest', good')
                 /\ pc' # "none" => SolidIn(mem', artifact', manifest', good')
                 /\ pc' \in {"storing", "renamed"} => SolidIn(next', artifact', manifest', good')
                 /\ pc' \in {"idle", "staging", "staged"} => Readable(disk') = {mem'}
                 /\ pc' = "storing" => Readable(disk') \subseteq {mem', Absent}
                 /\ pc' = "renamed" => Readable(disk') \subseteq {next', mem', Absent}
    BY Zenon DEF Synchronised, Solid, Readable, Survivors
  \* A state stays solid while the slots it names are not written to.
  <1>7. ASSUME good \subseteq good',
               NEW s \in States, SolidIn(s, artifact, manifest, good),
               pc' \notin {"staging", "staged"} \/ s = mem
        PROVE  SolidIn(s, artifact', manifest', good')
    <2>1. \A slot \in Referenced(s) : /\ Readable(artifact'[slot]) \subseteq Readable(artifact[slot])
                                      /\ Readable(manifest'[slot]) \subseteq Readable(manifest[slot])
      <3>1. \A slot \in Referenced(s) : slot \in Slots /\ (s = mem => slot \in Referenced(mem))
        BY Zenon DEF Referenced
      <3> QED
        BY <1>7, <3>1, KeptSlots, Zenon
    <2> QED
      BY <1>7, <2>1, SolidKept, Zenon
  <1>8. CASE OpenLoad
    <2>1. /\ UNCHANGED <<disk, artifact, manifest, good>> /\ disk.old = {} /\ mem' \in States
          /\ pc' \notin {"renamed", "staging", "staged", "none"}
      BY <1>8, OpenFacts, Zenon
    <2>2. Readable(disk) = {disk.seen}
      BY <1>3, <2>1, ReadableAfter, Zenon
    <2>3. CASE disk.seen = Absent /\ mem' = NewState /\ next' = NewState /\ pc' = "storing"
      BY <2>1, <2>2, <2>3, NewStateMeans, Zenon DEF SolidIn
    <2>4. CASE disk.seen = mem'
      <3>1. SolidIn(mem', artifact', manifest', good')
        BY <1>5, <2>1, <2>2, <2>4, StateMeans, Zenon
      <3>2. pc' = "storing" => SolidIn(next', artifact', manifest', good')
        <4> SUFFICES ASSUME pc' = "storing" PROVE SolidIn(next', artifact', manifest', good')
          BY Zenon
        <4>1. mem'.awaiting
          BY <1>8, <2>1, <2>4, OpenFacts, StateMeans, Zenon
        <4> QED
          BY <1>8, <3>1, <4>1, NoNewSlots, FewerSlots, Zenon
      <3> QED
        BY <2>1, <2>2, <2>4, <3>1, <3>2, Zenon
    <2> QED
      BY <1>8, <2>3, <2>4, OpenFacts, Zenon
  <1>9. CASE StoreRename
    <2>1. /\ pc = "storing" /\ pc' = "renamed" /\ UNCHANGED <<mem, next, artifact, manifest, good>>
          /\ disk' = Replaced(disk, next)
      BY <1>9, Zenon DEF StoreRename, history, slots
    <2>2. Readable(disk') \subseteq {next} \cup Readable(disk)
      BY <2>1, ReadableAfter, Zenon
    <2> QED
      BY <1>5, <2>1, <2>2, Zenon
  <1>10. CASE StoreSync
    <2>1. /\ pc = "renamed" /\ pc' = "idle" /\ mem' = next /\ UNCHANGED <<artifact, manifest>>
          /\ good' = IF after = "confirmed" THEN {manifest[next.active].seen} ELSE good
      BY <1>10, Zenon DEF StoreSync, slots
    <2>2. Readable(disk') = {next}
      <3>1. disk' = DirSynced(disk) /\ disk.seen = next
        BY <1>1, <1>10, Zenon DEF StoreSync, Places
      <3> QED
        BY <1>3, <3>1, Zenon DEF Readable, DirSynced, Survivors
    <2>3. SolidIn(next, artifact, manifest, good)
      BY <1>5, <2>1, Zenon
    <2>4. SolidIn(next, artifact, manifest, good')
      <3>1. CASE after = "confirmed"
        <4>1. next.active = next.knownGood /\ next.active \in Referenced(next)
          BY <1>1, <1>2, <3>1, StateMeans, Zenon DEF Places, Shape, Referenced
        <4>2. manifest[next.active].seen \in Readable(manifest[next.active])
          BY ReadableAfter, Zenon
        <4>3. Readable(artifact[next.active]) \subseteq {manifest[next.active].seen}
          BY <2>3, <4>1, <4>2 DEF SolidIn, Installed
        <4>4. good' = {manifest[next.active].seen}
          BY <2>1, <3>1, Zenon
        <4> QED
          BY <2>3, <4>1, <4>3, <4>4, Zenon DEF SolidIn
      <3>2. CASE after # "confirmed"
        BY <2>1, <2>3, <3>2, Zenon
      <3> QED
        BY <3>1, <3>2, Zenon
    <2> QED
      BY <2>1, <2>2, <2>4, Zenon
  <1>11. CASE ActivatePending \/ Rollback
    <2>1. /\ pc = "idle" /\ pc' = "storing" /\ UNCHANGED <<mem, disk, artifact, manifest, good>>
      BY <1>11, ActivateFacts, RollbackFacts, Zenon
    <2>2. SolidIn(next', artifact', manifest', good')
      BY <1>5, <1>11, <2>1, NoNewSlots, FewerSlots, Zenon
    <2> QED
      BY <1>5, <2>1, <2>2, Zenon
  <1>12. CASE ConfirmHealthy
    <2>1. /\ pc = "idle" /\ pc' = "storing" /\ UNCHANGED <<mem, disk, artifact, manifest>>
          /\ good \subseteq good' /\ manifest[mem.active].seen \in good'
      BY <1>12, ConfirmFacts, Zenon
    <2>2. SolidIn(mem, artifact, manifest, good) /\ Readable(disk) = {mem}
      BY <1>5, <2>1, Zenon
    <2>3. SolidIn(mem', artifact', manifest', good')
      BY <1>2, <1>7, <2>1, <2>2, Zenon
    <2>4. /\ Referenced(next') = {mem.active} /\ mem.active \in Referenced(mem)
          /\ next'.knownGood = mem.active
      BY <1>2, <1>12, ConfirmFacts, FaultsAssumption, ZenonT(60) DEF Shape, Referenced, Slots
    <2>5. /\ artifact[mem.active].seen \in Readable(artifact[mem.active])
          /\ manifest[mem.active].seen \in Readable(manifest[mem.active])
      BY ReadableAfter, Zenon
    <2>6. /\ \A x \in Readable(artifact[mem.active]), y \in Readable(manifest[mem.active]) :
               x \in Contents /\ x = y /\ Revision[y.of] >= mem.revision
          /\ \A x \in Readable(artifact[mem.active]) : x \in Contents /\ x = manifest[mem.active].seen
          /\ \A y \in Readable(manifest[mem.active]) : y = manifest[mem.active].seen
      <3>1. \A x \in Readable(artifact[mem.active]), y \in Readable(manifest[mem.active]) :
              x \in Contents /\ x = y /\ Revision[y.of] >= mem.revision
        BY <2>2, <2>4, Zenon DEF SolidIn, Installed
      <3> QED
        BY <2>5, <3>1, Zenon
    <2>7. Revision[manifest[mem.active].seen.of] >= next'.revision
      <3>1. /\ manifest[mem.active].seen \in Contents
            /\ Revision[manifest[mem.active].seen.of] >= mem.revision
        BY <2>5, <2>6, Zenon
      <3>2. Revision[manifest[mem.active].seen.of] \in 0..MaxRevision /\ mem.revision \in 0..MaxRevision
        BY <1>2, <3>1, ReleaseMeans, StateMeans, Zenon
      <3> QED
        BY <1>12, <3>1, <3>2, ConfirmFacts, RevisionAssumption
    <2>8. SolidIn(next', artifact', manifest', good')
      BY <2>1, <2>4, <2>6, <2>7, Zenon DEF SolidIn, Installed
    <2> QED
      BY <2>1, <2>2, <2>3, <2>8, Zenon
  <1>13. CASE StageSync
    <2>1. /\ pc = "staged" /\ pc' = "storing" /\ UNCHANGED <<mem, disk, good>>
          /\ StageSlot \in Slots /\ next'.knownGood = mem.knownGood /\ next'.revision = mem.revision
      BY <1>13, StageFacts, Zenon
    <2>2. SolidIn(mem, artifact, manifest, good) /\ Readable(disk) = {mem}
      BY <1>5, <2>1, Zenon
    <2>3. SolidIn(mem, artifact', manifest', good')
      BY <1>2, <1>7, <2>1, <2>2, Zenon
    <2>4. Referenced(next') \subseteq Referenced(mem) \cup {StageSlot}
      BY <1>13, StageFacts, Zenon DEF Referenced
    <2>5. /\ Readable(artifact'[StageSlot]) = {release} /\ Readable(manifest'[StageSlot]) = {release}
          /\ release \in Contents /\ Revision[release.of] >= mem.revision
      <3>1. /\ artifact'[StageSlot] = DirSynced(artifact[StageSlot])
            /\ manifest'[StageSlot] = DirSynced(manifest[StageSlot])
        BY <1>1, <1>13, <2>1, Zenon DEF StageSync, TypeOK
      <3>2. /\ artifact[StageSlot].seen = release /\ artifact[StageSlot].data = {release}
            /\ manifest[StageSlot].seen = release /\ manifest[StageSlot].data = {release}
            /\ release \in Contents /\ Revision[release.of] >= mem.revision
        BY <1>1, <2>1, Zenon DEF Staging
      <3> QED
        BY <3>1, <3>2 DEF Readable, DirSynced, Survivors
    <2>6. SolidIn(next', artifact', manifest', good')
      BY <2>1, <2>3, <2>4, <2>5 DEF SolidIn, Installed
    <2> QED
      BY <2>1, <2>2, <2>3, <2>6, Zenon
  <1>14. CASE (\E r \in Releases : StageArtifact(r)) \/ StageManifest
    <2>1. /\ pc \in {"idle", "staging"} /\ pc' \in {"staging", "staged"}
          /\ UNCHANGED <<mem, disk, good>>
      BY <1>14, Zenon DEF StageArtifact, StageManifest, history
    <2>2. SolidIn(mem, artifact, manifest, good) /\ Readable(disk) = {mem}
      BY <1>5, <2>1, Zenon
    <2>3. SolidIn(mem, artifact', manifest', good')
      BY <1>2, <1>7, <2>1, <2>2, Zenon
    <2> QED
      BY <2>1, <2>2, <2>3, Zenon
  <1>15. CASE Close \/ Crash \/ PowerLoss
    <2>1. pc' = "none" /\ good' = good
      BY <1>15, Zenon DEF Close, Crash, PowerLoss, Gone, history
    <2>2. Readable(disk') \subseteq Readable(disk)
      <3>1. CASE disk' = disk
        BY <3>1, Zenon
      <3>2. CASE PowerLoss
        <4>1. PICK c \in Survivors(disk) : disk' = Settled(c)
          BY <3>2, Zenon DEF PowerLoss
        <4>2. c \in Readable(disk) /\ Readable(disk') = {c}
          BY <4>1, ReadableAfter, Zenon
        <4> QED
          BY <4>2, Zenon
      <3> QED
        BY <1>15, <3>1, <3>2, Zenon DEF Close, Crash
    <2>3. \A s \in Readable(disk') : s # Absent => SolidIn(s, artifact', manifest', good')
      BY <1>3, <1>5, <1>7, <2>1, <2>2, Zenon
    <2> QED
      BY <2>1, <2>3, Zenon
  <1>16. ~FileFails
    BY Zenon DEF FileFails
  <1>17. CASE UNCHANGED vars
    BY <1>5, <1>17, Zenon DEF vars
  <1> QED
    BY <1>8, <1>9, <1>10, <1>11, <1>12, <1>13, <1>14, <1>15, <1>16, <1>17, Zenon DEF Next

-----------------------------------------------------------------------------
(* Theorems *)

LEMMA UpdateInit == Init => UpdateInv
  <1> SUFFICES ASSUME Init PROVE UpdateInv
    BY Zenon
  <1>1. /\ pc = "none" /\ after = "none" /\ mem = NewState /\ next = NewState /\ release = Absent
        /\ disk = NoFile /\ artifact = [s \in Slots |-> NoFile] /\ manifest = [s \in Slots |-> NoFile]
        /\ floor = 0 /\ good = {} /\ boots = 0 /\ trusted = TRUE /\ faults = 0
    BY Zenon DEF Init
  <1>2. disk.seen = Absent /\ disk.data = {Absent} /\ Readable(disk) = {Absent}
    BY <1>1, Zenon DEF NoFile, Readable, Survivors
  <1>3. TypeOK
    <2>1. \A R : NoFile \in Files(R)
      BY Zenon DEF NoFile, Files
    <2>2. NewState \in States /\ ValidState(NewState)
      BY NewStateMeans, Zenon DEF Shape
    <2>3. 0 \in 0..MaxRevision /\ 0 \in 0..MaxFaults
      BY RevisionAssumption, FaultsAssumption
    <2>4. /\ [s \in Slots |-> NoFile] \in [Slots -> Files(Contents)]
      BY <2>1, Zenon
    <2> QED
      BY <1>1, <1>2, <2>1, <2>2, <2>3, <2>4, Zenon DEF TypeOK
  <1>4. Shapes /\ Places
    BY <1>1, <1>2, NewStateMeans, Zenon DEF Shapes, Places
  <1>5. Staging /\ Intact
    BY <1>1, Zenon DEF Staging, Intact
  <1>6. AboveFloor /\ BootRecorded
    BY <1>1 DEF AboveFloor, RevisionKept, BootRecorded, OneBoot
  <1>7. Synchronised
    BY <1>1, <1>2, Zenon DEF Synchronised
  <1> QED
    BY <1>3, <1>4, <1>5, <1>6, <1>7, Zenon DEF UpdateInv

\* The Manager's state, the state file and the slots agree after every step of every
\* operation and after every fault: the inductive invariant of the updater.
THEOREM UpdateInvariant == Spec => []UpdateInv
  <1>1. UpdateInv /\ [Next]_vars => UpdateInv'
    BY TypeStep, ShapesStep, PlacesStep, StagingStep, IntactStep, FloorStep, BootStep, SyncStep, Zenon
       DEF UpdateInv
  <1> QED
    BY <1>1, UpdateInit, PTL DEF Spec

\* As long as every opener found a synced state file and no file call failed, Open accepts
\* whatever a crash or a power loss at any point of an operation left.
THEOREM NeverLockedOut == Spec => []BootableWhenSynced
  <1>1. UpdateInv => BootableWhenSynced
    BY Zenon DEF UpdateInv, Synchronised, Solid, SolidIn, BootableWhenSynced, Bootable
  <1> QED
    BY <1>1, UpdateInvariant, PTL

\* With the same proviso a Manager that awaits no health check runs the release that was
\* confirmed last.
THEOREM RunsConfirmed == Spec => []ConfirmedWhenSynced
  <1>1. UpdateInv => ConfirmedWhenSynced
    <2> SUFFICES ASSUME UpdateInv, trusted, pc = "idle", ~mem.awaiting, mem.active # NoSlot
                 PROVE  artifact[mem.active].seen \in good
      BY Zenon DEF ConfirmedWhenSynced, SelectsConfirmed
    <2>1. mem.knownGood = mem.active
      BY Zenon DEF UpdateInv, Shapes, Shape
    <2>2. Readable(artifact[mem.knownGood]) \subseteq good
      BY <2>1, Zenon DEF UpdateInv, Synchronised, Solid, SolidIn
    <2> QED
      BY <2>1, <2>2, ReadableAfter, Zenon
  <1> QED
    BY <1>1, UpdateInvariant, PTL

\* While a Manager is open no operation, completed or failed, damages the slots it runs
\* from or would fall back to.
THEOREM ActiveStaysIntact == Spec => []ActiveIntact
  <1>1. UpdateInv => ActiveIntact
    BY Zenon DEF UpdateInv, Intact, Verified, Referenced, ActiveIntact
  <1> QED
    BY <1>1, UpdateInvariant, PTL

\* The security revision that ConfirmHealthy reported survives every fault.
THEOREM RevisionStays == Spec => []RevisionKept
  <1>1. UpdateInv => RevisionKept
    BY Zenon DEF UpdateInv, AboveFloor
  <1> QED
    BY <1>1, UpdateInvariant, PTL

\* A candidate is booted at most once for each activation, however often the process
\* stops on the way.
THEOREM BootsOnce == Spec => []OneBoot
  <1>1. UpdateInv => OneBoot
    BY Zenon DEF UpdateInv, BootRecorded
  <1> QED
    BY <1>1, UpdateInvariant, PTL
=============================================================================
