--------------------------- MODULE SoftwareUpdate ---------------------------
(***************************************************************************)
(* pkg/softwareupdate: two release slots and a state file that says which   *)
(* of them is active, known good, pending, or awaiting health.              *)
(*                                                                         *)
(* The Manager's mutex is held for the whole of an operation and the        *)
(* directory lock from Open to Close, so at most one operation runs; what   *)
(* can go wrong is that it stops in the middle: the process ends, the power *)
(* goes, or a file call fails.  Each slot holds an artifact and a manifest, *)
(* both named here by the release they belong to; the chmod that follows    *)
(* the rename of an artifact is taken to be as durable as the rename.       *)
(***************************************************************************)
EXTENDS Naturals, DurableFile

CONSTANTS Releases,     \* signed releases for this target
          Revision,     \* Revision[r]: the security revision in its manifest
          NoSlot,
          Faults,       \* what may happen, of "crash", "power", "disk"
          MaxRevision,
          MaxFaults     \* bound: crashes, power losses and failed calls

ASSUME RevisionAssumption == MaxRevision \in Nat /\ Revision \in [Releases -> 0..MaxRevision]
ASSUME FaultsAssumption == MaxFaults \in Nat /\ NoSlot \notin {"a", "b"}

VARIABLES
  pc,         \* "none" (no Manager), "idle", or the place of the operation that runs
  after,      \* what the running operation does once its state is stored
  mem,        \* Manager.state
  next,       \* the state being stored
  release,    \* the release being staged
  disk,       \* state.json
  artifact,   \* artifact[s]: artifact.bin of slot s
  manifest,   \* manifest[s]: manifest.json of slot s
  floor,      \* the highest security revision a ConfirmHealthy reported done
  good,       \* releases that were confirmed last: one, or more while a report is owed
  boots,      \* Managers opened on the candidate since it was activated
  trusted,    \* no opener found a state file that was not synced, no call failed
  faults

vars == <<pc, after, mem, next, release, disk, artifact, manifest, floor, good, boots,
          trusted, faults>>
slots == <<artifact, manifest>>
history == <<floor, good, boots>>

-----------------------------------------------------------------------------
(* Data *)

Slots == {"a", "b"}

States == [kind : {"state"}, active : Slots \cup {NoSlot}, knownGood : Slots \cup {NoSlot},
           pending : Slots \cup {NoSlot}, previous : Slots \cup {NoSlot},
           awaiting : BOOLEAN, attempted : BOOLEAN, revision : 0..MaxRevision]

NewState == [kind |-> "state", active |-> NoSlot, knownGood |-> NoSlot, pending |-> NoSlot,
             previous |-> NoSlot, awaiting |-> FALSE, attempted |-> FALSE, revision |-> 0]

\* validateState.
ValidState(s) ==
  /\ s.pending # NoSlot => s.pending # s.active
  /\ s.knownGood # NoSlot => s.active # NoSlot
  /\ s.awaiting => s.active # NoSlot
  /\ ~s.awaiting => s.previous = NoSlot /\ ~s.attempted

\* uniqueReferencedSlots.
Referenced(s) == {s.active, s.knownGood, s.pending, s.previous} \cap Slots

Content(r) == [kind |-> "release", of |-> r]
Contents == {Content(r) : r \in Releases}

\* verifyInstalledSlot, for an artifact and a manifest found in a slot.
Installed(art, man, revision) ==
  art \in Contents /\ art = man /\ Revision[man.of] >= revision

Verified(s) ==
  \A slot \in Referenced(s) : Installed(artifact[slot].seen, manifest[slot].seen, s.revision)

\* Mutant: an unconfirmed candidate stays active.
RecoveredCandidate(s) ==
  IF ~s.awaiting THEN s
  ELSE IF ~s.attempted THEN [s EXCEPT !.attempted = TRUE]
  ELSE [s EXCEPT !.previous = NoSlot, !.awaiting = FALSE, !.attempted = FALSE]

\* Mutant: the boot attempt is not recorded.
RecoveredAgain(s) == s

\* The state that Manager.loadAndRecover leaves: the first opener after an activation
\* is the candidate's boot, the second one proves that it did not confirm.
Recovered(s) ==
  IF ~s.awaiting THEN s
  ELSE IF ~s.attempted THEN [s EXCEPT !.attempted = TRUE]
  ELSE [s EXCEPT !.active = s.knownGood, !.previous = NoSlot,
                 !.awaiting = FALSE, !.attempted = FALSE]

-----------------------------------------------------------------------------

Init ==
  /\ pc = "none" /\ after = "none"
  /\ mem = NewState /\ next = NewState
  /\ release = Absent
  /\ disk = NoFile
  /\ artifact = [s \in Slots |-> NoFile] /\ manifest = [s \in Slots |-> NoFile]
  /\ floor = 0 /\ good = {} /\ boots = 0 /\ trusted = TRUE
  /\ faults = 0

\* storeState(s), and then what.
Store(s, then) ==
  /\ next' = s
  /\ after' = then
  /\ pc' = "storing"

\* Open, with the directory lock: it reads state.json and verifies every slot that
\* the state names before it looks at the state.
OpenLoad ==
  /\ pc = "none"
  /\ trusted' = (trusted /\ disk.old = {})
  /\ \/ /\ disk.seen = Absent
        /\ mem' = NewState
        /\ Store(NewState, "opened")
     \/ /\ disk.seen # Absent
        /\ Verified(disk.seen)
        /\ mem' = disk.seen
        /\ \/ disk.seen.awaiting /\ Store(Recovered(disk.seen), "opened")
           \/ ~disk.seen.awaiting /\ pc' = "idle" /\ UNCHANGED <<next, after>>
  /\ UNCHANGED <<release, disk, slots, history, faults>>

\* writeAtomic renames a synced temporary file over state.json,
StoreRename ==
  /\ pc = "storing"
  /\ disk' = Replaced(disk, next)
  /\ pc' = "renamed"
  /\ UNCHANGED <<after, mem, next, release, slots, history, trusted, faults>>

\* Mutant: the root directory is not synced.
StoreSkipsSync ==
  /\ pc = "renamed"
  /\ mem' = next
  /\ pc' = "idle"
  /\ boots' = IF after = "opened" /\ next.awaiting THEN boots + 1 ELSE boots
  /\ floor' = IF after = "confirmed" THEN next.revision ELSE floor
  /\ good' = IF after = "confirmed" THEN {manifest[next.active].seen} ELSE good
  /\ after' = "none"
  /\ UNCHANGED <<next, release, disk, slots, trusted, faults>>

\* the root directory is synced, and only now does the Manager believe it.
StoreSync ==
  /\ pc = "renamed"
  /\ disk' = DirSynced(disk)
  /\ mem' = next
  /\ pc' = "idle"
  /\ boots' = IF after = "opened" /\ next.awaiting THEN boots + 1 ELSE boots
  /\ floor' = IF after = "confirmed" THEN next.revision ELSE floor
  /\ good' = IF after = "confirmed" THEN {manifest[next.active].seen} ELSE good
  /\ after' = "none"
  /\ UNCHANGED <<next, release, slots, trusted, faults>>

Close ==
  /\ pc = "idle"
  /\ pc' = "none"
  /\ UNCHANGED <<after, mem, next, release, disk, slots, history, trusted, faults>>

-----------------------------------------------------------------------------
(* Operations *)

\* Mutant: the slots are taken for each other.
StageOverActive == IF mem.active = "a" THEN "a" ELSE "b"

\* The slot Stage writes to.
StageSlot == IF mem.active = "a" THEN "b" ELSE "a"

\* Stage: the manifest verifies and the artifact, streamed into a temporary file,
\* matches it; the artifact is renamed into the slot,
StageArtifact(r) ==
  /\ pc = "idle"
  /\ mem.pending = NoSlot /\ ~mem.awaiting
  /\ Revision[r] >= mem.revision
  /\ release' = Content(r)
  /\ artifact' = [artifact EXCEPT ![StageSlot] = Replaced(@, Content(r))]
  /\ pc' = "staging"
  /\ UNCHANGED <<after, mem, next, disk, manifest, history, trusted, faults>>

\* then the manifest,
StageManifest ==
  /\ pc = "staging"
  /\ manifest' = [manifest EXCEPT ![StageSlot] = Replaced(@, release)]
  /\ pc' = "staged"
  /\ UNCHANGED <<after, mem, next, release, disk, artifact, history, trusted, faults>>

\* Mutant: the slot's directory is not synced.
StageSkipsSync ==
  /\ pc = "staged"
  /\ Store([mem EXCEPT !.pending = StageSlot], "none")
  /\ UNCHANGED <<mem, release, disk, slots, history, trusted, faults>>

\* the slot's directory is synced, and the state is stored.
StageSync ==
  /\ pc = "staged"
  /\ artifact' = [artifact EXCEPT ![StageSlot] = DirSynced(@)]
  /\ manifest' = [manifest EXCEPT ![StageSlot] = DirSynced(@)]
  /\ Store([mem EXCEPT !.pending = StageSlot], "none")
  /\ UNCHANGED <<mem, release, disk, history, trusted, faults>>

ActivatePending ==
  /\ pc = "idle"
  /\ mem.pending # NoSlot /\ ~mem.awaiting
  /\ Store([mem EXCEPT !.previous = mem.active, !.active = mem.pending, !.pending = NoSlot,
                       !.awaiting = TRUE, !.attempted = FALSE], "none")
  /\ boots' = 0
  /\ UNCHANGED <<mem, release, disk, slots, floor, good, trusted, faults>>

ConfirmHealthy ==
  /\ pc = "idle"
  /\ mem.awaiting /\ mem.attempted /\ mem.active # NoSlot
  /\ manifest[mem.active].seen \in Contents
  /\ LET r == Revision[manifest[mem.active].seen.of] IN
       Store([mem EXCEPT !.knownGood = mem.active, !.previous = NoSlot,
                         !.awaiting = FALSE, !.attempted = FALSE,
                         !.revision = IF r > @ THEN r ELSE @], "confirmed")
  /\ good' = good \cup {manifest[mem.active].seen}
  /\ UNCHANGED <<mem, release, disk, slots, floor, boots, trusted, faults>>

Rollback ==
  /\ pc = "idle"
  /\ mem.knownGood # NoSlot
  /\ mem.awaiting \/ mem.active # mem.knownGood
  /\ Store([mem EXCEPT !.active = mem.knownGood, !.pending = NoSlot, !.previous = NoSlot,
                       !.awaiting = FALSE, !.attempted = FALSE], "none")
  /\ UNCHANGED <<mem, release, disk, slots, history, trusted, faults>>

-----------------------------------------------------------------------------
(* What stops an operation *)

Fault(kind) ==
  /\ kind \in Faults
  /\ faults < MaxFaults
  /\ faults' = faults + 1

\* A file call fails: the operation returns an error, the Manager's state stays, the
\* files stay as they are.  Open returns no Manager.
FileFails ==
  /\ Fault("disk")
  /\ pc \notin {"none", "idle"}
  /\ pc' = IF after = "opened" THEN "none" ELSE "idle"
  /\ after' = "none"
  /\ trusted' = FALSE
  /\ UNCHANGED <<mem, next, release, disk, slots, history>>

Gone == pc' = "none" /\ after' = "none" /\ UNCHANGED <<mem, next, release, history, trusted>>

Crash ==
  /\ Fault("crash")
  /\ pc # "none"
  /\ Gone
  /\ UNCHANGED <<disk, slots>>

PowerLoss ==
  /\ Fault("power")
  /\ Gone
  /\ \E c \in Survivors(disk) : disk' = Settled(c)
  /\ \E x, y \in UNION {Survivors(artifact[s]) : s \in Slots} :
       /\ x \in Survivors(artifact["a"]) /\ y \in Survivors(artifact["b"])
       /\ artifact' = [s \in Slots |-> Settled(IF s = "a" THEN x ELSE y)]
  /\ \E x, y \in UNION {Survivors(manifest[s]) : s \in Slots} :
       /\ x \in Survivors(manifest["a"]) /\ y \in Survivors(manifest["b"])
       /\ manifest' = [s \in Slots |-> Settled(IF s = "a" THEN x ELSE y)]

Next ==
  \/ OpenLoad \/ StoreRename \/ StoreSync \/ Close
  \/ (\E r \in Releases : StageArtifact(r)) \/ StageManifest \/ StageSync
  \/ ActivatePending \/ ConfirmHealthy \/ Rollback
  \/ FileFails \/ Crash \/ PowerLoss

Spec == Init /\ [][Next]_vars

-----------------------------------------------------------------------------
(* Properties *)

\* Every variable holds values of its kind; every state the Manager holds, stores or
\* finds is one that validateState accepts, so storeState never refuses one.
TypeOK ==
  /\ pc \in {"none", "idle", "storing", "renamed", "staging", "staged"}
  /\ after \in {"none", "opened", "confirmed"}
  /\ {mem, next} \subseteq States /\ ValidState(mem) /\ ValidState(next)
  /\ release \in Contents \cup {Absent}
  /\ disk \in Files(States)
  /\ disk.seen # Absent => ValidState(disk.seen)
  /\ artifact \in [Slots -> Files(Contents)] /\ manifest \in [Slots -> Files(Contents)]
  /\ floor \in 0..MaxRevision /\ good \subseteq Contents /\ boots \in Nat /\ trusted \in BOOLEAN
  /\ faults \in 0..MaxFaults

Readable(f) == {f.seen} \cup Survivors(f)

\* Whatever state file the next opener may find, every slot it names still holds an
\* artifact and a manifest that belong together and pass the revision check: Open
\* never refuses the known-good release ("an interrupted activation cannot lock out
\* the known-good version").
Bootable ==
  \A s \in Readable(disk) \ {Absent} : \A slot \in Referenced(s) :
    \A art \in Readable(artifact[slot]), man \in Readable(manifest[slot]) :
      Installed(art, man, s.revision)

\* The same, as long as every opener found a state file that was synced (it does not
\* sync what it finds) and no file call failed (storeState reports failure although
\* the new state is already in place).
BootableWhenSynced == trusted => Bootable

\* While a Manager is open the slots it runs from and would fall back to are intact,
\* whatever failed before: no operation writes into them (Stage writes to the other).
ActiveIntact ==
  pc # "none" /\ after # "opened"
    => \A slot \in {mem.active, mem.knownGood} \cap Slots :
         Installed(artifact[slot].seen, manifest[slot].seen, mem.revision)

\* The security revision that ConfirmHealthy reported is never lost: no crash, power
\* loss, rollback or failed call brings a state file with a lower one back.
RevisionKept == \A s \in Readable(disk) : floor > 0 => s # Absent /\ s.revision >= floor

\* A candidate that nobody confirmed is booted at most once for each activation: the
\* attempt is durable before Open returns (loadAndRecover).
OneBoot == boots <= 1

\* A Manager that awaits no health check runs a release that was confirmed, the last
\* one ("the next opener selects the last confirmed slot").
SelectsConfirmed ==
  pc = "idle" /\ ~mem.awaiting /\ mem.active # NoSlot => artifact[mem.active].seen \in good

\* The same, with the proviso of BootableWhenSynced.
ConfirmedWhenSynced == trusted => SelectsConfirmed
=============================================================================
