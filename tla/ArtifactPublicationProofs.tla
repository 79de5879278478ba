---------------------- MODULE ArtifactPublicationProofs ----------------------
(***************************************************************************)
(* What was settled stays published, for any executions, outcomes, workers  *)
(* and calls: the index keeps naming it, every worker that starts serves    *)
(* it, and no index entry keeps a worker from starting.                     *)
(***************************************************************************)
EXTENDS ArtifactPublication, TLAPS

\* The time limits, in seconds, of the leaves that name no prover.
USE SMTT(30), ZenonT(20)

-----------------------------------------------------------------------------
(* The inductive invariant. *)

Writing == {"artifactWriting", "reportWriting"}
Renamed == {"artifactRenamed", "reportRenamed"}
OnArtifact == {"artifact", "artifactWriting", "artifactRenamed"}

\* The descriptor that call c is publishing.
Doc(c) == IF pc[c] \in OnArtifact THEN ArtifactOf[X(c)] ELSE ReportOf[X(c)]

\* A call is for an execution and in a worker that has opened its locator; a locator
\* that is not open has nothing; the journal has one holder.
Placed ==
  /\ \A c \in Calls : pc[c] = "idle" <=> of[c] = Nobody
  /\ \A c \in Calls : pc[c] # "idle" => worker[W(c)] \in {"serving", "released"}
  /\ \A w \in Workers : worker[w] \in {"down", "locked"} => descriptors[w] = {}
  /\ \A v, w \in Workers :
       worker[v] \in {"locked", "serving"} /\ worker[w] \in {"locked", "serving"} => v = w

\* The digests whose object cannot be lost without having been found unsynced.
Kept == durable \cup adopted

\* What the runner has put before it completes the execution.
StoredBy(c) ==
  /\ pc[c] = "reportLinked" => ReportOf[X(c)].digest \in visible
  /\ pc[c] = "artifactLinked" => ArtifactOf[X(c)].digest \in visible
  /\ pc[c] \in {"putArtifact", "artifactLinked", "complete"} => ReportOf[X(c)].digest \in Kept
  /\ pc[c] = "complete" => ArtifactOf[X(c)].digest \in Kept
  /\ pc[c] \in Publishing \cup {"settling"} => work[X(c)] = "complete"

Stored ==
  /\ \A c \in Calls : StoredBy(c)
  /\ \A x \in Executions : work[x] = "complete" =>
       ReportOf[x].digest \in Kept /\ ArtifactOf[x].digest \in Kept
  /\ \A x \in settled : work[x] = "complete"

\* One descriptor for a digest, of an object that is among K, or that is kept.
SoundIn(K, D) ==
  /\ \A d \in D : d.digest \in K
  /\ \A d, e \in D : d.digest = e.digest => d = e
Sound(D) == SoundIn(Kept, D)

\* The index, and every locator, is sound; what is being written will be.
Indexed ==
  /\ index.data = {index.seen}
  /\ ~cut => Torn \notin Readable(index)
  /\ \A r \in Readable(index) : r \in {Absent, Torn} \/ (IsIndex(r) /\ Sound(r.descriptors))
  /\ \A w \in Workers : Sound(descriptors[w])
  /\ \A c \in Calls : pc[c] \in Locked => ~Conflicts(c, Doc(c))

\* What a call has published is in its locator.
Published ==
  \A c \in Calls :
    /\ pc[c] \in {"report", "reportWriting", "reportRenamed", "settling"} => ArtifactOf[X(c)] \in Known(c)
    /\ pc[c] = "settling" => ReportOf[X(c)] \in Known(c)

\* The index f in place names d, or is cut; so does every index a power loss may leave.
Named(f, d) == f.seen = Torn \/ (IsIndex(f.seen) /\ d \in f.seen.descriptors)
Holds(f, d) == \A r \in Readable(f) : r = Torn \/ (IsIndex(r) /\ d \in r.descriptors)

\* As long as no index was written by a worker without the lock: the index in place
\* has what the locators have and what is renamed and not registered yet; so has the
\* locator of the worker that serves.  What was not read from an unsynced index is in
\* every index that may be left.
Handed ==
  /\ \A w \in Workers : \A d \in descriptors[w] : Named(index, d)
  /\ \A c \in Calls : pc[c] \in Renamed => Named(index, Doc(c))
  /\ \A w \in Workers : worker[w] = "serving" =>
       /\ \A v \in Workers : descriptors[v] \subseteq descriptors[w]
       /\ \A c \in Calls : pc[c] \in Renamed /\ W(c) # w => Doc(c) \in descriptors[w]
  /\ \A w \in Workers : \A d \in descriptors[w] \ taken : Holds(index, d)

SettledHeld ==
  \A x \in settled : \A d \in Objects(x) \ taken :
    /\ Holds(index, d)
    /\ \A w \in Workers : worker[w] = "serving" => d \in descriptors[w]

PublicationInv ==
  TypeOK /\ Placed /\ Stored /\ Indexed /\ Published /\ (~late => Handed /\ SettledHeld)

-----------------------------------------------------------------------------
(* The steps, by what they do to the state the invariant speaks of. *)

Same(c) == \A b \in Calls : b # c => pc'[b] = pc[b] /\ of'[b] = of[b]

\* A call begins, and runs the work or finds it done.
Begins(c) ==
  /\ Same(c) /\ pc[c] = "idle" /\ worker[W(c)] = "serving"
  /\ pc'[c] = "claimed" /\ of'[c] \in Executions
  /\ UNCHANGED <<worker, descriptors, store, publication, work, settled>>

Works(c) ==
  /\ Same(c) /\ pc[c] \in Running /\ pc'[c] \in Running \cup {"artifact"} /\ of'[c] = of[c]
  /\ UNCHANGED <<worker, descriptors, publication, settled>>
  /\ Run(c) \/ Replay(c) \/ Complete(c) \/ (X(c) # Nobody /\ Put(c))

\* It returns, when it has settled or fails.
Returns(c) ==
  /\ Same(c) /\ pc[c] # "idle" /\ pc'[c] = "idle" /\ of'[c] = Nobody
  /\ settled' = settled \/ (pc[c] = "settling" /\ settled' = settled \cup {of[c]})
  /\ UNCHANGED <<worker, descriptors, store, publication, work>>

\* It finds the descriptor registered, or begins to write the index,
Passes(c) ==
  /\ Same(c) /\ of'[c] = of[c] /\ Doc(c) \in Known(c)
  /\ \/ pc[c] = "artifact" /\ pc'[c] = "report"
     \/ pc[c] = "report" /\ pc'[c] = "settling"
  /\ UNCHANGED <<worker, descriptors, store, publication, work, settled>>

Enters(c) ==
  /\ Same(c) /\ of'[c] = of[c] /\ ~Conflicts(c, Doc(c))
  /\ \/ pc[c] = "artifact" /\ pc'[c] = "artifactWriting"
     \/ pc[c] = "report" /\ pc'[c] = "reportWriting"
  /\ UNCHANGED <<worker, descriptors, store, publication, work, settled>>

\* puts it in place, whole or cut,
Renames(c) ==
  /\ Same(c) /\ of'[c] = of[c]
  /\ \/ pc[c] = "artifactWriting" /\ pc'[c] = "artifactRenamed"
     \/ pc[c] = "reportWriting" /\ pc'[c] = "reportRenamed"
  /\ \/ index' = Replaced(index, Index(Known(c) \cup {Doc(c)})) /\ cut' = cut
     \/ index' = Replaced(index, Torn) /\ cut' = TRUE
  /\ late' = (late \/ worker[W(c)] = "released")
  /\ UNCHANGED <<worker, descriptors, store, taken, work, settled>>

\* and syncs and registers it.
Syncs(c) ==
  /\ Same(c) /\ of'[c] = of[c]
  /\ \/ pc[c] = "artifactRenamed" /\ pc'[c] = "report"
     \/ pc[c] = "reportRenamed" /\ pc'[c] = "settling"
  /\ index' = DirSynced(index) /\ cut' = (index.seen = Torn)
  /\ taken' = taken \ {Doc(c)}
  /\ descriptors'[W(c)] = Known(c) \cup {Doc(c)}
  /\ \A w \in Workers : w # W(c) => descriptors'[w] = descriptors[w]
  /\ UNCHANGED <<worker, store, late, work, settled>>

\* A worker takes the lock, is refused its index, or gives the lock back.
Turns(w) ==
  /\ \A v \in Workers : v # w => worker'[v] = worker[v]
  /\ \/ /\ worker[w] = "down" /\ worker'[w] = "locked"
        /\ \A v \in Workers : worker[v] \notin {"locked", "serving"}
     \/ worker[w] = "locked" /\ worker'[w] = "down"
     \/ worker[w] = "serving" /\ worker'[w] = "released"
  /\ UNCHANGED <<descriptors, pc, of, store, publication, work, settled>>

\* It reads the index.
Opens(w) ==
  /\ \A v \in Workers : v # w => worker'[v] = worker[v] /\ descriptors'[v] = descriptors[v]
  /\ worker[w] = "locked" /\ worker'[w] = "serving"
  /\ \/ index.seen = Absent /\ descriptors'[w] = {} /\ taken' = taken
     \/ /\ IsIndex(index.seen) /\ descriptors'[w] = index.seen.descriptors
        /\ taken' = taken \cup {d \in index.seen.descriptors : index.old # {}}
  /\ UNCHANGED <<pc, of, store, index, cut, late, work, settled>>

\* It is gone, alone or with all the others.
Ends ==
  /\ \A w \in Workers :
       \/ worker'[w] = worker[w] /\ descriptors'[w] = descriptors[w]
       \/ worker'[w] = "down" /\ descriptors'[w] = {}
  /\ \A c \in Calls :
       \/ /\ pc'[c] = pc[c] /\ of'[c] = of[c]
          /\ worker'[W(c)] = worker[W(c)] /\ descriptors'[W(c)] = descriptors[W(c)]
       \/ pc'[c] = "idle" /\ of'[c] = Nobody
  /\ UNCHANGED <<cut, late, taken, work, settled>>

Exits ==
  /\ Ends /\ UNCHANGED <<store, index>>

LosesPower ==
  /\ Ends
  /\ \A w \in Workers : worker'[w] = "down" /\ descriptors'[w] = {}
  /\ \A c \in Calls : pc'[c] = "idle" /\ of'[c] = Nobody
  /\ \E r \in Survivors(index) : index' = Settled(r)
  /\ durable \subseteq durable' /\ adopted' = adopted

CallMoves(c) ==
  Begins(c) \/ Works(c) \/ Returns(c) \/ Passes(c) \/ Enters(c) \/ Renames(c) \/ Syncs(c)

\* The file operators of DurableFile keep the type of a file.
LEMMA FileTypes ==
  ASSUME NEW R, NEW f \in Files(R), NEW r \in R
  PROVE  /\ NoFile \in Files(R)
         /\ Created(f) \in Files(R)
         /\ Written(f, r) \in Files(R)
         /\ Synced(f) \in Files(R)
         /\ DirSynced(f) \in Files(R)
         /\ Removed(f) \in Files(R)
         /\ Replaced(f, r) \in Files(R)
  BY Zenon DEF Files, NoFile, Created, Written, Synced, DirSynced, Removed, Replaced, Survivors,
         Absent, Torn

\* So does a power loss.
LEMMA SettledType ==
  ASSUME NEW R, NEW f \in Files(R), NEW c \in Survivors(f)
  PROVE  Settled(c) \in Files(R)
  BY Zenon DEF Files, Settled, Survivors

\* Goto and Return, at the other calls and at the call itself.
LEMMA GotoMeans ==
  ASSUME TypeOK, NEW c \in Calls, NEW p, Goto(c, p)
  PROVE  Same(c) /\ pc'[c] = p /\ of'[c] = of[c]
  BY Zenon DEF TypeOK, Goto, Same

LEMMA ReturnMeans ==
  ASSUME TypeOK, NEW c \in Calls, Return(c)
  PROVE  Same(c) /\ pc'[c] = "idle" /\ of'[c] = Nobody
  BY Zenon DEF TypeOK, Return, Same

\* What one half of Publish does, for the places of the artifact or of the report.
LEMMA PublishMoves ==
  ASSUME TypeOK, NEW c \in Calls, X(c) # Nobody, Publish(c)
  PROVE  CallMoves(c)
  <1>1. ASSUME NEW d, NEW at, NEW writing, NEW renamed, NEW to,
               ArtifactURL(c, d, at, writing, renamed, to),
               \/ /\ d = ArtifactOf[X(c)] /\ at = "artifact" /\ writing = "artifactWriting"
                  /\ renamed = "artifactRenamed" /\ to = "report"
               \/ /\ d = ReportOf[X(c)] /\ at = "report" /\ writing = "reportWriting"
                  /\ renamed = "reportRenamed" /\ to = "settling"
        PROVE  CallMoves(c)
    <2>1. pc[c] \in {at, writing, renamed} => d = Doc(c)
      BY <1>1, Zenon DEF Doc, OnArtifact
    <2>2. CASE PublishKnown(c, at, d, to)
      <3>1. Same(c) /\ pc'[c] = to /\ of'[c] = of[c] /\ pc[c] = at /\ Doc(c) \in Known(c)
        BY <2>1, <2>2, GotoMeans, Zenon DEF PublishKnown
      <3>2. Passes(c)
        BY <1>1, <2>2, <3>1, Zenon DEF PublishKnown, Passes, locator
      <3> QED
        BY <3>2, Zenon DEF CallMoves
    <2>3. CASE PublishRefused(c, at, d)
      <3>1. Same(c) /\ pc'[c] = "idle" /\ of'[c] = Nobody /\ pc[c] = at
        BY <2>3, ReturnMeans, Zenon DEF PublishRefused
      <3>2. Returns(c)
        BY <1>1, <2>3, <3>1, Zenon DEF PublishRefused, Returns, locator
      <3> QED
        BY <3>2, Zenon DEF CallMoves
    <2>4. CASE PublishNew(c, at, d, writing)
      <3>1. Same(c) /\ pc'[c] = writing /\ of'[c] = of[c] /\ pc[c] = at /\ ~Conflicts(c, Doc(c))
        BY <2>1, <2>4, GotoMeans, Zenon DEF PublishNew
      <3>2. Enters(c)
        BY <1>1, <2>4, <3>1, Zenon DEF PublishNew, Enters
      <3> QED
        BY <3>2, Zenon DEF CallMoves
    <2>5. CASE IndexRename(c, writing, d, renamed)
      <3>1. Same(c) /\ pc'[c] = renamed /\ of'[c] = of[c] /\ pc[c] = writing /\ d = Doc(c)
        BY <2>1, <2>5, GotoMeans, Zenon DEF IndexRename
      <3>2. Renames(c)
        BY <1>1, <2>5, <3>1, Zenon DEF IndexRename, Renames, locator
      <3> QED
        BY <3>2, Zenon DEF CallMoves
    <2>6. CASE IndexCut(c, writing, renamed)
      <3>1. Same(c) /\ pc'[c] = renamed /\ of'[c] = of[c] /\ pc[c] = writing
        BY <2>1, <2>6, GotoMeans, Zenon DEF IndexCut
      <3>2. Renames(c)
        BY <1>1, <2>6, <3>1, Zenon DEF IndexCut, Renames, locator
      <3> QED
        BY <3>2, Zenon DEF CallMoves
    <2>7. CASE IndexSync(c, renamed, d, to)
      <3>1. Same(c) /\ pc'[c] = to /\ of'[c] = of[c] /\ pc[c] = renamed /\ d = Doc(c)
        BY <2>1, <2>7, GotoMeans, Zenon DEF IndexSync
      <3>2. /\ descriptors'[W(c)] = Known(c) \cup {Doc(c)}
            /\ \A w \in Workers : w # W(c) => descriptors'[w] = descriptors[w]
        BY <2>7, <3>1, WorkerOfAssumption, Zenon DEF IndexSync, TypeOK, Known, W
      <3>3. Syncs(c)
        BY <1>1, <2>7, <3>1, <3>2, Zenon DEF IndexSync, Syncs
      <3> QED
        BY <3>3, Zenon DEF CallMoves
    <2> QED
      BY <1>1, <2>2, <2>3, <2>4, <2>5, <2>6, <2>7, Zenon DEF ArtifactURL
  <1> QED
    BY <1>1, Zenon DEF Publish

LEMMA PutMoves ==
  ASSUME TypeOK, NEW c \in Calls, X(c) # Nobody, Put(c)
  PROVE  Works(c)
  <1>1. ASSUME NEW from, NEW d, NEW linked, NEW to, PutLink(c, from, d, linked, to),
               {from, linked, to} \subseteq Running
        PROVE  Works(c)
    <2>1. pc[c] = from /\ (Goto(c, linked) \/ Goto(c, to))
      BY <1>1, Zenon DEF PutLink
    <2>2. Same(c) /\ pc'[c] \in {linked, to} /\ of'[c] = of[c]
      BY <2>1, GotoMeans, Zenon
    <2> QED
      BY <1>1, <2>1, <2>2, Zenon DEF PutLink, Works, locator
  <1>2. ASSUME NEW linked, NEW to, PutSync(c, linked, to), {linked, to} \subseteq Running
        PROVE  Works(c)
    <2>1. pc[c] = linked /\ Same(c) /\ pc'[c] = to /\ of'[c] = of[c]
      BY <1>2, GotoMeans, Zenon DEF PutSync
    <2> QED
      BY <1>2, <2>1, Zenon DEF PutSync, Works, locator
  <1>3. {"putReport", "reportLinked", "putArtifact", "artifactLinked", "complete"} \subseteq Running
    BY Zenon DEF Running
  <1> QED
    BY <1>1, <1>2, <1>3 DEF Put

LEMMA RunnerMoves ==
  ASSUME TypeOK, NEW c \in Calls, Run(c) \/ Replay(c) \/ Complete(c)
  PROVE  Works(c)
  <1>1. /\ pc[c] \in {"claimed", "complete"} /\ Same(c)
        /\ pc'[c] \in {"putReport", "artifact"} /\ of'[c] = of[c]
    BY GotoMeans, Zenon DEF Run, Replay, Complete
  <1> QED
    BY <1>1, Zenon DEF Run, Replay, Complete, Works, Running, locator

LEMMA ReturnMoves ==
  ASSUME TypeOK, NEW c \in Calls, Fails(c) \/ FileFails(c) \/ Settle(c)
  PROVE  Returns(c)
  <1>1. Same(c) /\ pc'[c] = "idle" /\ of'[c] = Nobody
    BY ReturnMeans, Zenon DEF Fails, FileFails, Settle
  <1>2. pc[c] # "idle"
    BY Zenon DEF Fails, FileFails, Settle, Running, Locked
  <1> QED
    BY <1>1, <1>2, Zenon DEF Fails, FileFails, Settle, Returns, X, locator

LEMMA CallStepMoves ==
  ASSUME TypeOK, NEW c \in Calls,
         \/ \E x \in Executions : Begin(c, x)
         \/ Run(c) \/ Replay(c) \/ Fails(c) \/ FileFails(c) \/ Complete(c) \/ Settle(c)
         \/ (X(c) # Nobody /\ (Put(c) \/ Publish(c)))
  PROVE  CallMoves(c)
  <1>1. CASE \E x \in Executions : Begin(c, x)
    <2>1. PICK x \in Executions : Begin(c, x)
      BY <1>1, Zenon
    <2>2. Same(c) /\ pc'[c] = "claimed" /\ of'[c] = x
      BY <2>1, Zenon DEF Begin, TypeOK, Same
    <2> QED
      BY <2>1, <2>2, Zenon DEF Begin, Begins, CallMoves, locator
  <1> QED
    BY <1>1, RunnerMoves, ReturnMoves, PutMoves, PublishMoves, Zenon DEF CallMoves

LEMMA TurnsMoves ==
  ASSUME TypeOK, NEW w \in Workers, OpenJournal(w) \/ OpenRefused(w) \/ Release(w)
  PROVE  Turns(w)
  BY Zenon DEF TypeOK, OpenJournal, OpenRefused, Release, Turns, locator

LEMMA OpensMoves ==
  ASSUME TypeOK, NEW w \in Workers, OpenPersistent(w)
  PROVE  Opens(w)
  <1>1. \A v \in Workers : v # w => worker'[v] = worker[v] /\ descriptors'[v] = descriptors[v]
    BY Zenon DEF TypeOK, OpenPersistent
  <1> QED
    BY <1>1, Zenon DEF TypeOK, OpenPersistent, Opens

LEMMA GoneMoves ==
  ASSUME TypeOK, NEW U \in SUBSET Workers, Gone(U), UNCHANGED <<cut, late, taken>>
  PROVE  /\ Ends
         /\ \A w \in U : worker'[w] = "down" /\ descriptors'[w] = {}
         /\ \A c \in Calls : W(c) \in U => pc'[c] = "idle" /\ of'[c] = Nobody
  <1>1. \A c \in Calls : W(c) \in Workers
    BY WorkerOfAssumption, Zenon DEF W
  <1>2. \A w \in Workers : /\ worker'[w] = IF w \in U THEN "down" ELSE worker[w]
                           /\ descriptors'[w] = IF w \in U THEN {} ELSE descriptors[w]
    BY Zenon DEF Gone
  <1>3. \A c \in Calls : /\ pc'[c] = IF W(c) \in U THEN "idle" ELSE pc[c]
                         /\ of'[c] = IF W(c) \in U THEN Nobody ELSE of[c]
    BY Zenon DEF Gone
  <1>4. UNCHANGED <<work, settled>>
    BY Zenon DEF Gone
  <1> QED
    BY <1>1, <1>2, <1>3, <1>4, Zenon DEF Ends

LEMMA ExitMoves ==
  ASSUME TypeOK, NEW w \in Workers, Exit(w) \/ Crash(w)
  PROVE  Exits
  <1>1. Gone({w}) /\ UNCHANGED <<store, publication>>
    BY Zenon DEF Exit, Crash
  <1> QED
    BY <1>1, GoneMoves, Zenon DEF Exits, publication

LEMMA PowerMoves ==
  ASSUME TypeOK, PowerLoss
  PROVE  LosesPower
  <1>1. Gone(Workers) /\ UNCHANGED <<cut, late, taken>>
    BY Zenon DEF PowerLoss
  <1>2. durable \subseteq durable' /\ adopted' = adopted
    BY Zenon DEF PowerLoss, TypeOK
  <1>3. \A c \in Calls : W(c) \in Workers
    BY WorkerOfAssumption, Zenon DEF W
  <1> QED
    BY <1>1, <1>2, <1>3, GoneMoves, Zenon DEF PowerLoss, LosesPower

\* Every step is one of these.
LEMMA NextMoves ==
  ASSUME TypeOK, Next
  PROVE  \/ \E w \in Workers : Turns(w) \/ Opens(w)
         \/ Exits \/ LosesPower
         \/ \E c \in Calls : CallMoves(c)
  BY TurnsMoves, OpensMoves, ExitMoves, PowerMoves, CallStepMoves, Zenon DEF Next

-----------------------------------------------------------------------------
(* Types. *)

Places == {"idle", "settling"} \cup Running \cup Publishing

LEMMA GotoTypes ==
  ASSUME TypeOK, NEW c \in Calls, NEW p \in Places, Goto(c, p)
  PROVE  pc' \in [Calls -> Places] /\ of' \in [Calls -> Executions \cup {Nobody}]
  BY Zenon DEF TypeOK, Goto, Places

LEMMA ReturnTypes ==
  ASSUME TypeOK, NEW c \in Calls, Return(c)
  PROVE  pc' \in [Calls -> Places] /\ of' \in [Calls -> Executions \cup {Nobody}]
  BY Zenon DEF TypeOK, Return, Places

\* The mutex of a locator goes with the call that writes its index.
LEMMA MutexStep ==
  ASSUME TypeOK, NEW c \in Calls, Same(c),
         \/ mutex' = mutex /\ (pc'[c] \in Locked <=> pc[c] \in Locked)
         \/ mutex[W(c)] = Nobody /\ mutex' = [mutex EXCEPT ![W(c)] = c] /\ pc'[c] \in Locked
         \/ pc[c] \in Locked /\ mutex' = [mutex EXCEPT ![W(c)] = Nobody] /\ pc'[c] \notin Locked
  PROVE  \A b \in Calls : pc'[b] \in Locked <=> mutex'[W(b)] = b
  <1> SUFFICES ASSUME NEW b \in Calls PROVE pc'[b] \in Locked <=> mutex'[W(b)] = b
    BY Zenon
  <1>1. W(b) \in Workers /\ W(c) \in Workers /\ Nobody \notin Calls
    BY WorkerOfAssumption, Zenon DEF W
  <1>2. /\ pc[b] \in Locked <=> mutex[W(b)] = b
        /\ pc[c] \in Locked <=> mutex[W(c)] = c
        /\ mutex \in [Workers -> Calls \cup {Nobody}]
    BY Zenon DEF TypeOK
  <1>3. b # c => pc'[b] = pc[b]
    BY Zenon DEF Same
  <1>4. CASE mutex' = mutex /\ (pc'[c] \in Locked <=> pc[c] \in Locked)
    BY <1>2, <1>3, <1>4, Zenon
  <1>5. CASE mutex[W(c)] = Nobody /\ mutex' = [mutex EXCEPT ![W(c)] = c] /\ pc'[c] \in Locked
    BY <1>1, <1>2, <1>3, <1>5, Zenon
  <1>6. CASE pc[c] \in Locked /\ mutex' = [mutex EXCEPT ![W(c)] = Nobody] /\ pc'[c] \notin Locked
    BY <1>1, <1>2, <1>3, <1>6, Zenon
  <1> QED
    BY <1>4, <1>5, <1>6, Zenon

\* Steps inside one call that leave files and work alone.
LEMMA QuietTypes ==
  ASSUME TypeOK, NEW c \in Calls, Same(c),
         pc' \in [Calls -> Places], of' \in [Calls -> Executions \cup {Nobody}],
         mutex' \in [Workers -> Calls \cup {Nobody}],
         \/ mutex' = mutex /\ (pc'[c] \in Locked <=> pc[c] \in Locked)
         \/ mutex[W(c)] = Nobody /\ mutex' = [mutex EXCEPT ![W(c)] = c] /\ pc'[c] \in Locked
         \/ pc[c] \in Locked /\ mutex' = [mutex EXCEPT ![W(c)] = Nobody] /\ pc'[c] \notin Locked,
         worker' = worker, descriptors' \in [Workers -> SUBSET Descriptors],
         visible' \subseteq Digests /\ durable' \subseteq visible' /\ adopted' \subseteq Digests,
         index' \in Files(Indexes) /\ cut' \in BOOLEAN /\ late' \in BOOLEAN /\ taken' \subseteq Descriptors,
         work' \in [Executions -> {"new", "started", "complete"}] /\ settled' \subseteq Executions,
         faults' \in 0..MaxFaults
  PROVE  TypeOK'
  <1>1. \A b \in Calls : pc'[b] \in Locked <=> mutex'[W(b)] = b
    BY MutexStep, Zenon
  <1> QED
    BY <1>1, Zenon DEF TypeOK, Places, W

LEMMA FaultTypes ==
  ASSUME faults \in 0..MaxFaults, NEW k, Fault(k)
  PROVE  faults' \in 0..MaxFaults
  BY BoundsAssumption DEF Fault

LEMMA DocTypes ==
  ASSUME TypeOK, NEW c \in Calls, X(c) # Nobody
  PROVE  /\ X(c) \in Executions
         /\ ReportOf[X(c)] \in Descriptors /\ ArtifactOf[X(c)] \in Descriptors
         /\ ReportOf[X(c)].digest \in Digests /\ ArtifactOf[X(c)].digest \in Digests
  BY DEF TypeOK, X, Descriptors, Objects, Digests

LEMMA PublishTypes ==
  ASSUME TypeOK, NEW c \in Calls, X(c) # Nobody, Publish(c)
  PROVE  TypeOK'
  <1>0. /\ W(c) \in Workers /\ mutex \in [Workers -> Calls \cup {Nobody}] /\ faults \in 0..MaxFaults
        /\ descriptors \in [Workers -> SUBSET Descriptors] /\ index \in Files(Indexes)
        /\ visible \subseteq Digests /\ durable \subseteq visible /\ adopted \subseteq Digests
        /\ cut \in BOOLEAN /\ late \in BOOLEAN /\ taken \subseteq Descriptors
        /\ work \in [Executions -> {"new", "started", "complete"}] /\ settled \subseteq Executions
    BY WorkerOfAssumption, Zenon DEF TypeOK, W
  <1>1. ASSUME NEW d \in Descriptors, NEW at \in Places, NEW writing \in Places, NEW renamed \in Places,
               NEW to \in Places, ArtifactURL(c, d, at, writing, renamed, to),
               at \notin Locked, to \notin Locked, writing \in Locked, renamed \in Locked
        PROVE  TypeOK'
    <2>1. CASE PublishKnown(c, at, d, to)
      <3>1. /\ Same(c) /\ pc[c] = at /\ pc'[c] = to
            /\ pc' \in [Calls -> Places] /\ of' \in [Calls -> Executions \cup {Nobody}]
        BY <2>1, GotoMeans, GotoTypes, Zenon DEF PublishKnown
      <3> QED
        BY <1>0, <1>1, <2>1, <3>1, QuietTypes, Zenon DEF PublishKnown, locator, store, publication
    <2>2. CASE PublishRefused(c, at, d)
      <3>1. /\ Same(c) /\ pc[c] = at /\ pc'[c] = "idle"
            /\ pc' \in [Calls -> Places] /\ of' \in [Calls -> Executions \cup {Nobody}]
        BY <2>2, ReturnMeans, ReturnTypes, Zenon DEF PublishRefused
      <3>2. "idle" \notin Locked
        BY Zenon DEF Locked
      <3> QED
        BY <1>0, <1>1, <2>2, <3>1, <3>2, QuietTypes, Zenon DEF PublishRefused, locator, store, publication
    <2>3. CASE PublishNew(c, at, d, writing)
      <3>1. /\ Same(c) /\ pc[c] = at /\ pc'[c] = writing
            /\ pc' \in [Calls -> Places] /\ of' \in [Calls -> Executions \cup {Nobody}]
        BY <2>3, GotoMeans, GotoTypes, Zenon DEF PublishNew
      <3>2. mutex[W(c)] = Nobody /\ mutex' = [mutex EXCEPT ![W(c)] = c]
        BY <2>3, Zenon DEF PublishNew, Free
      <3>3. mutex' \in [Workers -> Calls \cup {Nobody}]
        BY <1>0, <3>2, Zenon
      <3> QED
        BY <1>0, <1>1, <2>3, <3>1, <3>2, <3>3, QuietTypes, Zenon DEF PublishNew, store, publication
    <2>4. CASE IndexRename(c, writing, d, renamed)
      <3>1. /\ Same(c) /\ pc[c] = writing /\ pc'[c] = renamed
            /\ pc' \in [Calls -> Places] /\ of' \in [Calls -> Executions \cup {Nobody}]
        BY <2>4, GotoMeans, GotoTypes, Zenon DEF IndexRename
      <3>2. Index(Known(c) \cup {d}) \in Indexes
        BY <1>0, Zenon DEF Indexes, Known
      <3>3. index' \in Files(Indexes) /\ late' \in BOOLEAN
        BY <1>0, <2>4, <3>2, FileTypes, Zenon DEF IndexRename
      <3> QED
        BY <1>0, <1>1, <2>4, <3>1, <3>3, QuietTypes, Zenon DEF IndexRename, locator, store
    <2>5. CASE IndexCut(c, writing, renamed)
      <3>1. /\ Same(c) /\ pc[c] = writing /\ pc'[c] = renamed
            /\ pc' \in [Calls -> Places] /\ of' \in [Calls -> Executions \cup {Nobody}]
        BY <2>5, GotoMeans, GotoTypes, Zenon DEF IndexCut
      <3>2. Replaced(index, Torn) \in Files(Indexes)
        BY <1>0, Zenon DEF Files, Replaced, Survivors
      <3>3. index' \in Files(Indexes) /\ late' \in BOOLEAN /\ cut' \in BOOLEAN /\ faults' \in 0..MaxFaults
        BY <1>0, <2>5, <3>2, FaultTypes, Zenon DEF IndexCut
      <3> QED
        BY <1>0, <1>1, <2>5, <3>1, <3>3, QuietTypes, Zenon DEF IndexCut, locator, store
    <2>6. CASE IndexSync(c, renamed, d, to)
      <3>1. /\ Same(c) /\ pc[c] = renamed /\ pc'[c] = to
            /\ pc' \in [Calls -> Places] /\ of' \in [Calls -> Executions \cup {Nobody}]
        BY <2>6, GotoMeans, GotoTypes, Zenon DEF IndexSync
      <3>2. DirSynced(index) \in Files(Indexes)
        BY <1>0, Zenon DEF Files, DirSynced
      <3>3. index' \in Files(Indexes) /\ cut' \in BOOLEAN /\ taken' \subseteq Descriptors
        BY <1>0, <2>6, <3>2, Zenon DEF IndexSync
      <3>4. /\ descriptors' \in [Workers -> SUBSET Descriptors]
            /\ mutex' \in [Workers -> Calls \cup {Nobody}] /\ mutex' = [mutex EXCEPT ![W(c)] = Nobody]
        BY <1>0, <1>1, <2>6, Zenon DEF IndexSync
      <3> QED
        BY <1>0, <1>1, <2>6, <3>1, <3>3, <3>4, QuietTypes, Zenon DEF IndexSync, store
    <2> QED
      BY <1>1, <2>1, <2>2, <2>3, <2>4, <2>5, <2>6, Zenon DEF ArtifactURL
  <1>2. /\ {"artifact", "artifactWriting", "artifactRenamed", "report"} \subseteq Places
        /\ {"reportWriting", "reportRenamed", "settling"} \subseteq Places
        /\ {"artifact", "report", "settling"} \cap Locked = {}
        /\ {"artifactWriting", "artifactRenamed", "reportWriting", "reportRenamed"} \subseteq Locked
    BY Zenon DEF Places, Publishing, Locked
  <1>3. ReportOf[X(c)] \in Descriptors /\ ArtifactOf[X(c)] \in Descriptors
    BY DocTypes, Zenon
  <1> QED
    BY <1>1, <1>2, <1>3, Zenon DEF Publish

LEMMA RunTypes ==
  ASSUME TypeOK, Placed, NEW c \in Calls,
         Run(c) \/ Replay(c) \/ Complete(c) \/ Fails(c) \/ Settle(c) \/ FileFails(c)
  PROVE  TypeOK'
  <1>0. /\ W(c) \in Workers /\ mutex \in [Workers -> Calls \cup {Nobody}] /\ faults \in 0..MaxFaults
        /\ descriptors \in [Workers -> SUBSET Descriptors] /\ index \in Files(Indexes)
        /\ visible \subseteq Digests /\ durable \subseteq visible /\ adopted \subseteq Digests
        /\ cut \in BOOLEAN /\ late \in BOOLEAN /\ taken \subseteq Descriptors
        /\ work \in [Executions -> {"new", "started", "complete"}] /\ settled \subseteq Executions
    BY WorkerOfAssumption, Zenon DEF TypeOK, W
  <1>1. "idle" \notin Locked /\ {"claimed", "putReport", "settling", "complete", "artifact"} \cap Locked = {}
    BY Zenon DEF Locked
  <1>2. {"putReport", "artifact"} \subseteq Places
    BY Zenon DEF Places, Running, Publishing
  <1>3. CASE Run(c) \/ Replay(c) \/ Complete(c)
    <2>1. /\ Same(c) /\ pc[c] \in {"claimed", "complete"} /\ pc'[c] \in {"putReport", "artifact"}
          /\ pc' \in [Calls -> Places] /\ of' \in [Calls -> Executions \cup {Nobody}]
      BY <1>2, <1>3, GotoMeans, GotoTypes, Zenon DEF Run, Replay, Complete
    <2>2. work' \in [Executions -> {"new", "started", "complete"}]
      BY <1>0, <1>3, Zenon DEF Run, Replay, Complete
    <2> QED
      BY <1>0, <1>1, <1>3, <2>1, <2>2, QuietTypes, Zenon DEF Run, Replay, Complete, locator, store, publication
  <1>4. CASE Fails(c) \/ Settle(c)
    <2>1. /\ Same(c) /\ pc[c] \in {"claimed", "putReport", "settling"} /\ pc'[c] = "idle"
          /\ pc' \in [Calls -> Places] /\ of' \in [Calls -> Executions \cup {Nobody}]
      BY <1>4, ReturnMeans, ReturnTypes, Zenon DEF Fails, Settle
    <2>2. settled' \subseteq Executions
      <3>1. CASE Settle(c)
        <4>1. X(c) # Nobody
          BY <2>1, Zenon DEF Placed, X
        <4> QED
          BY <1>0, <3>1, <4>1, DocTypes, Zenon DEF Settle
      <3> QED
        BY <1>0, <1>4, <3>1, Zenon DEF Fails
    <2> QED
      BY <1>0, <1>1, <1>4, <2>1, <2>2, QuietTypes, Zenon DEF Fails, Settle, locator, store, publication
  <1>5. CASE FileFails(c)
    <2>1. /\ Same(c) /\ pc'[c] = "idle"
          /\ pc' \in [Calls -> Places] /\ of' \in [Calls -> Executions \cup {Nobody}]
      BY <1>5, ReturnMeans, ReturnTypes, Zenon DEF FileFails
    <2>2. faults' \in 0..MaxFaults
      BY <1>0, <1>5, FaultTypes, Zenon DEF FileFails
    <2>3. /\ mutex' = IF pc[c] \in Locked THEN [mutex EXCEPT ![W(c)] = Nobody] ELSE mutex
          /\ mutex' \in [Workers -> Calls \cup {Nobody}]
      BY <1>0, <1>5, Zenon DEF FileFails
    <2> QED
      BY <1>0, <1>1, <1>5, <2>1, <2>2, <2>3, QuietTypes, Zenon DEF FileFails, store, publication
  <1> QED
    BY <1>3, <1>4, <1>5, Zenon

LEMMA PutTypes ==
  ASSUME TypeOK, NEW c \in Calls, X(c) # Nobody, Put(c)
  PROVE  TypeOK'
  <1>0. /\ W(c) \in Workers /\ mutex \in [Workers -> Calls \cup {Nobody}] /\ faults \in 0..MaxFaults
        /\ descriptors \in [Workers -> SUBSET Descriptors] /\ index \in Files(Indexes)
        /\ visible \subseteq Digests /\ durable \subseteq visible /\ adopted \subseteq Digests
        /\ cut \in BOOLEAN /\ late \in BOOLEAN /\ taken \subseteq Descriptors
        /\ work \in [Executions -> {"new", "started", "complete"}] /\ settled \subseteq Executions
    BY WorkerOfAssumption, Zenon DEF TypeOK, W
  <1>1. ASSUME NEW from \in Running, NEW d, NEW linked \in Running, NEW to \in Running,
               d.digest \in Digests, PutLink(c, from, d, linked, to)
        PROVE  TypeOK'
    <2>1. {from, linked, to} \subseteq Places /\ {from, linked, to} \cap Locked = {}
      BY DEF Places, Running, Locked
    <2>2. pc[c] = from /\ (Goto(c, linked) \/ Goto(c, to))
      BY <1>1, Zenon DEF PutLink
    <2>3. /\ Same(c) /\ pc'[c] \in {linked, to}
          /\ pc' \in [Calls -> Places] /\ of' \in [Calls -> Executions \cup {Nobody}]
      BY <2>1, <2>2, GotoMeans, GotoTypes, Zenon
    <2>4. visible' \subseteq Digests /\ durable' \subseteq visible' /\ adopted' \subseteq Digests
      BY <1>0, <1>1, Zenon DEF PutLink
    <2>5. UNCHANGED <<worker, locator, publication, work, settled, faults>>
      BY <1>1, Zenon DEF PutLink
    <2> QED
      BY <1>0, <2>1, <2>2, <2>3, <2>4, <2>5, QuietTypes, Zenon DEF locator, publication
  <1>2. ASSUME NEW linked \in Running, NEW to \in Running, PutSync(c, linked, to)
        PROVE  TypeOK'
    <2>1. {linked, to} \subseteq Places /\ {linked, to} \cap Locked = {}
      BY Zenon DEF Places, Running, Locked
    <2>2. /\ Same(c) /\ pc[c] = linked /\ pc'[c] = to
          /\ pc' \in [Calls -> Places] /\ of' \in [Calls -> Executions \cup {Nobody}]
      BY <1>2, <2>1, GotoMeans, GotoTypes, Zenon DEF PutSync
    <2>3. visible' \subseteq Digests /\ durable' \subseteq visible' /\ adopted' \subseteq Digests
      BY <1>0, <1>2, Zenon DEF PutSync
    <2>4. UNCHANGED <<worker, locator, publication, work, settled, faults>>
      BY <1>2, Zenon DEF PutSync
    <2> QED
      BY <1>0, <2>1, <2>2, <2>3, <2>4, QuietTypes, Zenon DEF locator, publication
  <1>3. {"putReport", "reportLinked", "putArtifact", "artifactLinked", "complete"} \subseteq Running
    BY Zenon DEF Running
  <1>4. ReportOf[X(c)].digest \in Digests /\ ArtifactOf[X(c)].digest \in Digests
    BY DocTypes, Zenon
  <1> QED
    BY <1>1, <1>2, <1>3, <1>4, Zenon DEF Put

LEMMA BeginTypes ==
  ASSUME TypeOK, NEW c \in Calls, NEW x \in Executions, Begin(c, x)
  PROVE  TypeOK'
  <1>1. /\ Same(c) /\ pc[c] = "idle" /\ pc'[c] = "claimed"
        /\ pc' \in [Calls -> Places] /\ of' \in [Calls -> Executions \cup {Nobody}]
    BY Zenon DEF Begin, TypeOK, Same, Places, Running
  <1>2. "idle" \notin Locked /\ "claimed" \notin Locked
    BY Zenon DEF Locked
  <1>3. /\ mutex' \in [Workers -> Calls \cup {Nobody}] /\ faults' \in 0..MaxFaults /\ mutex' = mutex
        /\ descriptors' \in [Workers -> SUBSET Descriptors] /\ index' \in Files(Indexes)
        /\ visible' \subseteq Digests /\ durable' \subseteq visible' /\ adopted' \subseteq Digests
        /\ cut' \in BOOLEAN /\ late' \in BOOLEAN /\ taken' \subseteq Descriptors
        /\ work' \in [Executions -> {"new", "started", "complete"}] /\ settled' \subseteq Executions
    BY Zenon DEF TypeOK, Begin, locator, store, publication
  <1> QED
    BY <1>1, <1>2, <1>3, QuietTypes, Zenon DEF Begin

LEMMA GoneTypes ==
  ASSUME TypeOK, NEW U \in SUBSET Workers, Gone(U)
  PROVE  /\ worker' \in [Workers -> {"down", "locked", "serving", "released"}]
         /\ descriptors' \in [Workers -> SUBSET Descriptors]
         /\ mutex' \in [Workers -> Calls \cup {Nobody}]
         /\ pc' \in [Calls -> Places] /\ of' \in [Calls -> Executions \cup {Nobody}]
         /\ work' \in [Executions -> {"new", "started", "complete"}] /\ settled' \subseteq Executions
         /\ \A c \in Calls : pc'[c] \in Locked <=> mutex'[W(c)] = c
  <1>1. /\ worker' \in [Workers -> {"down", "locked", "serving", "released"}]
        /\ descriptors' \in [Workers -> SUBSET Descriptors]
        /\ mutex' \in [Workers -> Calls \cup {Nobody}]
    BY Zenon DEF TypeOK, Gone
  <1>2. pc' \in [Calls -> Places] /\ of' \in [Calls -> Executions \cup {Nobody}]
    BY Zenon DEF TypeOK, Gone, Places
  <1>3. ASSUME NEW c \in Calls
        PROVE  pc'[c] \in Locked <=> mutex'[W(c)] = c
    <2>1. /\ W(c) \in Workers /\ Nobody # c /\ "idle" \notin Locked
          /\ pc[c] \in Locked <=> mutex[W(c)] = c
      BY WorkerOfAssumption DEF W, TypeOK, Locked
    <2>2. /\ pc'[c] = IF W(c) \in U THEN "idle" ELSE pc[c]
          /\ mutex'[W(c)] = IF W(c) \in U THEN Nobody ELSE mutex[W(c)]
      BY <2>1, Zenon DEF Gone
    <2> QED
      BY <2>1, <2>2, Zenon
  <1>4. work' \in [Executions -> {"new", "started", "complete"}] /\ settled' \subseteq Executions
    BY Zenon DEF Gone, TypeOK
  <1> QED
    BY <1>1, <1>2, <1>3, <1>4, Zenon

LEMMA TypesStep ==
  ASSUME TypeOK, Placed, [Next]_vars
  PROVE  TypeOK'
  <1>1. ASSUME NEW w \in Workers, OpenJournal(w) \/ OpenRefused(w) \/ Release(w)
        PROVE  TypeOK'
    BY <1>1, Zenon DEF TypeOK, OpenJournal, OpenRefused, Release, locator, store, publication, W
  <1>2. ASSUME NEW w \in Workers, OpenPersistent(w)
        PROVE  TypeOK'
    <2>1. IsIndex(index.seen) => index.seen.descriptors \subseteq Descriptors
      BY DEF TypeOK, Files, Indexes, Index, IsIndex, Absent, Torn
    <2>2. descriptors' \in [Workers -> SUBSET Descriptors] /\ taken' \subseteq Descriptors
      BY <1>2, <2>1, Zenon DEF TypeOK, OpenPersistent
    <2> QED
      BY <1>2, <2>2, Zenon DEF TypeOK, OpenPersistent, store, W
  <1>3. ASSUME NEW w \in Workers, Exit(w) \/ Crash(w)
        PROVE  TypeOK'
    <2>1. Gone({w}) /\ UNCHANGED <<store, publication>> /\ faults' \in 0..MaxFaults
      BY <1>3, FaultTypes, Zenon DEF Exit, Crash, TypeOK
    <2> QED
      BY <2>1, GoneTypes, Zenon DEF TypeOK, store, publication, W, Places
  <1>4. CASE PowerLoss
    <2>1. Gone(Workers) /\ faults' \in 0..MaxFaults /\ UNCHANGED <<adopted, cut, late, taken>>
      BY <1>4, FaultTypes, Zenon DEF PowerLoss, TypeOK
    <2>2. PICK r \in Survivors(index) : index' = Settled(r)
      BY <1>4, Zenon DEF PowerLoss
    <2>3. index' \in Files(Indexes)
      BY <2>2, SettledType, Zenon DEF TypeOK
    <2>4. visible' \subseteq Digests /\ durable' \subseteq visible'
      BY <1>4, Zenon DEF PowerLoss, TypeOK
    <2> QED
      BY <2>1, <2>3, <2>4, GoneTypes, Zenon DEF TypeOK, W, Places
  <1>5. CASE UNCHANGED vars
    BY <1>5, Zenon DEF TypeOK, vars, locator, store, publication, W
  <1> QED
    BY <1>1, <1>2, <1>3, <1>4, <1>5, BeginTypes, RunTypes, PutTypes, PublishTypes, Zenon DEF Next

-----------------------------------------------------------------------------
(* Placed and Stored. *)

LEMMA PlacedStep ==
  ASSUME TypeOK, Placed, Next
  PROVE  Placed'
  <1>0. /\ \A c \in Calls : W(c) \in Workers
        /\ Nobody \notin Executions
    BY WorkerOfAssumption, Zenon DEF W
  <1>1. ASSUME NEW w \in Workers, Turns(w) PROVE Placed'
    BY <1>0, <1>1, Zenon DEF Placed, Turns, W
  <1>2. ASSUME NEW w \in Workers, Opens(w) PROVE Placed'
    BY <1>0, <1>2, Zenon DEF Placed, Opens, W
  <1>3. ASSUME Ends PROVE Placed'
    <2>1. \A c \in Calls : /\ pc'[c] = "idle" <=> of'[c] = Nobody
                           /\ pc'[c] # "idle" => worker'[W(c)] \in {"serving", "released"}
      BY <1>0, <1>3 DEF Placed, Ends
    <2>2. \A w \in Workers : worker'[w] \in {"down", "locked"} => descriptors'[w] = {}
      BY <1>3, Zenon DEF Placed, Ends
    <2>3. \A w \in Workers : worker'[w] \in {"locked", "serving"} => worker[w] \in {"locked", "serving"}
      BY <1>3, Zenon DEF Ends
    <2> QED
      BY <2>1, <2>2, <2>3, Zenon DEF Placed, W
  <1>4. ASSUME NEW c \in Calls, CallMoves(c) PROVE Placed'
    <2>1. /\ worker' = worker /\ Same(c)
          /\ pc'[c] = "idle" <=> of'[c] = Nobody
          /\ pc'[c] # "idle" => worker[W(c)] \in {"serving", "released"}
      BY <1>0, <1>4, Zenon DEF CallMoves, Begins, Works, Returns, Passes, Enters, Renames, Syncs, Placed, Running
    <2>2. \A w \in Workers : worker[w] \in {"down", "locked"} => descriptors'[w] = {}
      <3>1. CASE Syncs(c)
        BY <3>1, Zenon DEF Syncs, Placed
      <3> QED
        BY <1>4, <3>1, Zenon DEF CallMoves, Begins, Works, Returns, Passes, Enters, Renames, Placed
    <2> QED
      BY <2>1, <2>2 DEF Placed, Same, W
  <1> QED
    BY <1>1, <1>2, <1>3, <1>4, NextMoves, Zenon DEF Exits, LosesPower

\* Digests that are kept stay so, and completed work stays completed.
LEMMA KeptGrows ==
  ASSUME TypeOK, Next
  PROVE  Kept \subseteq Kept' /\ \A x \in Executions : work[x] = "complete" => work'[x] = "complete"
  <1>1. CASE PowerLoss
    BY <1>1, PowerMoves, Zenon DEF LosesPower, Ends, Kept
  <1>2. ASSUME NEW c \in Calls, Put(c)
        PROVE  Kept \subseteq Kept' /\ work' = work
    BY <1>2, Zenon DEF Put, PutLink, PutSync, Kept, TypeOK
  <1>3. ASSUME NEW c \in Calls, Run(c) \/ Complete(c)
        PROVE  Kept' = Kept /\ \A x \in Executions : work[x] = "complete" => work'[x] = "complete"
    BY <1>3, Zenon DEF Run, Complete, Kept, store, TypeOK
  <1>4. ASSUME NEW c \in Calls, Replay(c)
        PROVE  Kept' = Kept /\ work' = work
    BY <1>4, Zenon DEF Replay, Kept, store
  <1>5. ASSUME NEW c \in Calls, Publish(c) /\ X(c) # Nobody
        PROVE  Kept' = Kept /\ work' = work
    BY <1>5, Zenon DEF Publish, ArtifactURL, PublishKnown, PublishRefused, PublishNew, IndexRename, IndexCut, IndexSync, Kept, store
  <1>6. ASSUME NEW c \in Calls, Fails(c) \/ FileFails(c) \/ Settle(c) \/ \E x \in Executions : Begin(c, x)
        PROVE  Kept' = Kept /\ work' = work
    BY <1>6, Zenon DEF Fails, FileFails, Settle, Begin, Kept, store
  <1>7. ASSUME NEW w \in Workers, \/ OpenJournal(w) \/ OpenPersistent(w) \/ OpenRefused(w)
                                  \/ Release(w) \/ Exit(w) \/ Crash(w)
        PROVE  Kept' = Kept /\ work' = work
    BY <1>7, Zenon DEF OpenJournal, OpenPersistent, OpenRefused, Release, Exit, Crash, Gone, Kept, store
  <1> QED
    BY <1>1, <1>2, <1>3, <1>4, <1>5, <1>6, <1>7, Zenon DEF Next

LEMMA StoredOther ==
  ASSUME TypeOK, Placed, Stored, NEW b \in Calls, pc'[b] = pc[b], of'[b] = of[b],
         visible \subseteq visible', Kept \subseteq Kept',
         \A x \in Executions : work[x] = "complete" => work'[x] = "complete"
  PROVE  StoredBy(b)'
  <1>1. pc[b] # "idle" => X(b) \in Executions
    BY DEF TypeOK, Placed, X
  <1>2. "idle" \notin Publishing \cup {"settling"}
    BY Zenon DEF Publishing
  <1> QED
    BY <1>1, <1>2, Zenon DEF Stored, StoredBy, X

LEMMA StoredCallStep ==
  ASSUME TypeOK, Placed, Stored, NEW c \in Calls,
         Run(c) \/ Replay(c) \/ Complete(c) \/ (X(c) # Nobody /\ Put(c))
  PROVE  /\ StoredBy(c)'
         /\ visible \subseteq visible' /\ settled' = settled
         /\ \A x \in Executions : work'[x] = "complete" =>
              \/ work[x] = "complete"
              \/ ReportOf[x].digest \in Kept' /\ ArtifactOf[x].digest \in Kept'
  <1>0. StoredBy(c)
    BY Zenon DEF Stored
  <1>1. CASE Run(c)
    <2>1. pc'[c] = "putReport"
      BY <1>1, GotoMeans, Zenon DEF Run
    <2> QED
      BY <1>1, <2>1, Zenon DEF Run, StoredBy, Publishing, TypeOK, store
  <1>2. CASE Replay(c)
    <2>1. pc'[c] = "artifact" /\ of'[c] = of[c]
      BY <1>2, GotoMeans, Zenon DEF Replay
    <2> QED
      BY <1>2, <2>1, Zenon DEF Replay, StoredBy, Publishing, TypeOK, store, X
  <1>3. CASE Complete(c)
    <2>1. pc'[c] = "artifact" /\ of'[c] = of[c] /\ pc[c] = "complete"
      BY <1>3, GotoMeans, Zenon DEF Complete
    <2>2. X(c) \in Executions
      BY <2>1 DEF TypeOK, Placed, X
    <2>3. ReportOf[X(c)].digest \in Kept /\ ArtifactOf[X(c)].digest \in Kept /\ Kept' = Kept
      BY <1>0, <1>3, <2>1, Zenon DEF StoredBy, Complete, Kept, store
    <2> QED
      BY <1>3, <2>1, <2>2, <2>3, Zenon DEF Complete, StoredBy, Publishing, TypeOK, store, X
  <1>4. ASSUME NEW d, NEW from, NEW linked, NEW to, PutLink(c, from, d, linked, to)
        PROVE  /\ pc[c] = from /\ of'[c] = of[c] /\ visible \subseteq visible' /\ settled' = settled
               /\ work' = work /\ Kept \subseteq Kept'
               /\ \/ pc'[c] = linked /\ d.digest \in visible'
                  \/ pc'[c] = to /\ d.digest \in Kept'
    <2>1. pc[c] = from /\ work' = work /\ settled' = settled
      BY <1>4, Zenon DEF PutLink
    <2>2. CASE d.digest \notin visible /\ visible' = visible \cup {d.digest} /\ Goto(c, linked) /\ UNCHANGED <<durable, adopted>>
      BY <2>1, <2>2, GotoMeans, Zenon DEF Kept
    <2>3. CASE d.digest \in visible /\ adopted' = adopted \cup ({d.digest} \ durable) /\ Goto(c, to) /\ UNCHANGED <<visible, durable>>
      BY <2>1, <2>3, GotoMeans, Zenon DEF Kept
    <2> QED
      BY <1>4, <2>2, <2>3, Zenon DEF PutLink
  <1>5. ASSUME NEW linked, NEW to, PutSync(c, linked, to)
        PROVE  /\ pc[c] = linked /\ of'[c] = of[c] /\ visible' = visible /\ settled' = settled
               /\ work' = work /\ Kept \subseteq Kept' /\ pc'[c] = to /\ visible \subseteq Kept'
    BY <1>5, GotoMeans, Zenon DEF PutSync, Kept, TypeOK
  <1>6. CASE PutLink(c, "putReport", ReportOf[X(c)], "reportLinked", "putArtifact")
    <2>1. /\ of'[c] = of[c] /\ visible \subseteq visible' /\ settled' = settled
          /\ work' = work /\ Kept \subseteq Kept'
          /\ \/ pc'[c] = "reportLinked" /\ ReportOf[X(c)].digest \in visible'
             \/ pc'[c] = "putArtifact" /\ ReportOf[X(c)].digest \in Kept'
      BY <1>4, <1>6, ZenonT(60)
    <2> QED
      BY <2>1, Zenon DEF StoredBy, Publishing, X
  <1>7. CASE PutSync(c, "reportLinked", "putArtifact")
    BY <1>0, <1>5, <1>7 DEF StoredBy, Publishing, X
  <1>8. CASE PutLink(c, "putArtifact", ArtifactOf[X(c)], "artifactLinked", "complete")
    <2>1. /\ of'[c] = of[c] /\ visible \subseteq visible' /\ settled' = settled
          /\ work' = work /\ Kept \subseteq Kept' /\ pc[c] = "putArtifact"
          /\ \/ pc'[c] = "artifactLinked" /\ ArtifactOf[X(c)].digest \in visible'
             \/ pc'[c] = "complete" /\ ArtifactOf[X(c)].digest \in Kept'
      BY <1>4, <1>8, ZenonT(60)
    <2> QED
      BY <1>0, <2>1, Zenon DEF StoredBy, Publishing, X
  <1>9. CASE PutSync(c, "artifactLinked", "complete")
    BY <1>0, <1>5, <1>9 DEF StoredBy, Publishing, X
  <1> QED
    BY <1>1, <1>2, <1>3, <1>6, <1>7, <1>8, <1>9, Zenon DEF Put

LEMMA StoredStep ==
  ASSUME TypeOK, Placed, Stored, Next
  PROVE  Stored'
  <1>1. Kept \subseteq Kept' /\ \A x \in Executions : work[x] = "complete" => work'[x] = "complete"
    BY KeptGrows, Zenon
  <1>2. ASSUME NEW b \in Calls, pc'[b] = "idle" PROVE StoredBy(b)'
    BY <1>2, Zenon DEF StoredBy, Publishing
  <1>3. settled \subseteq Executions
    BY Zenon DEF TypeOK
  <1>4. ASSUME \A b \in Calls : pc'[b] = "idle" \/ (pc'[b] = pc[b] /\ of'[b] = of[b]),
               (visible \subseteq visible') \/ \A b \in Calls : pc'[b] = "idle",
               work' = work, settled' = settled
        PROVE  Stored'
    <2>1. \A b \in Calls : StoredBy(b)'
      BY <1>1, <1>2, <1>4, StoredOther, Zenon
    <2> QED
      BY <1>1, <1>4, <2>1, Zenon DEF Stored
  <1>5. ASSUME NEW w \in Workers, Turns(w) \/ Opens(w) PROVE Stored'
    BY <1>4, <1>5, Zenon DEF Turns, Opens, store
  <1>6. CASE Exits
    BY <1>4, <1>6, Zenon DEF Exits, Ends, store
  <1>7. CASE LosesPower
    BY <1>4, <1>7, Zenon DEF LosesPower, Ends
  <1>8. ASSUME NEW c \in Calls, Works(c) PROVE Stored'
    <2>1. /\ StoredBy(c)' /\ visible \subseteq visible' /\ settled' = settled
          /\ \A x \in Executions : work'[x] = "complete" =>
               \/ work[x] = "complete"
               \/ ReportOf[x].digest \in Kept' /\ ArtifactOf[x].digest \in Kept'
      BY <1>8, StoredCallStep, Zenon DEF Works
    <2>2. \A b \in Calls : StoredBy(b)'
      BY <1>1, <1>8, <2>1, StoredOther, Zenon DEF Works, Same
    <2> QED
      BY <1>1, <1>3, <2>1, <2>2, Zenon DEF Stored
  <1>9. ASSUME NEW c \in Calls, Begins(c) \/ Returns(c) \/ Passes(c) \/ Enters(c) \/ Renames(c) \/ Syncs(c)
        PROVE  Stored'
    <2>1. Same(c) /\ UNCHANGED <<store, work>>
      BY <1>9, Zenon DEF Begins, Returns, Passes, Enters, Renames, Syncs
    <2>2. /\ pc'[c] \in {"idle", "claimed"} \cup Publishing \cup {"settling"}
          /\ pc'[c] \in Publishing \cup {"settling"} => pc[c] \in Publishing \cup {"settling"} /\ of'[c] = of[c]
      BY <1>9, Zenon DEF Begins, Returns, Passes, Enters, Renames, Syncs, Publishing
    <2>3. StoredBy(c)'
      BY <2>1, <2>2, Zenon DEF Stored, StoredBy, Publishing, X
    <2>4. \A b \in Calls : StoredBy(b)'
      BY <1>1, <2>1, <2>3, StoredOther, Zenon DEF Same, store
    <2>5. \A x \in settled' : x \in settled \/ (pc[c] = "settling" /\ x = X(c))
      BY <1>9, Zenon DEF Begins, Returns, Passes, Enters, Renames, Syncs, X
    <2>6. \A x \in settled' : work[x] = "complete"
      BY <2>5, Zenon DEF Stored, StoredBy
    <2> QED
      BY <1>1, <2>1, <2>4, <2>6, Zenon DEF Stored
  <1> QED
    BY <1>5, <1>6, <1>7, <1>8, <1>9, NextMoves, Zenon DEF CallMoves

-----------------------------------------------------------------------------
(* The index file and the locators. *)

LEMMA SoundGrows ==
  ASSUME NEW K, NEW L, K \subseteq L, NEW D, SoundIn(K, D)
  PROVE  SoundIn(L, D)
  BY Zenon DEF SoundIn

LEMMA SoundMore ==
  ASSUME NEW K, NEW D, NEW d, SoundIn(K, D), d.digest \in K, ~\E e \in D : e.digest = d.digest /\ e # d
  PROVE  SoundIn(K, D \cup {d})
  BY Zenon DEF SoundIn

\* What a call publishes is kept.
LEMMA DocKept ==
  ASSUME TypeOK, Placed, Stored, NEW c \in Calls, pc[c] \in Publishing
  PROVE  /\ X(c) \in Executions
         /\ Doc(c).digest \in Kept
         /\ Doc(c) = IF pc[c] \in OnArtifact THEN ArtifactOf[X(c)] ELSE ReportOf[X(c)]
  <1>1. X(c) \in Executions
    BY DEF TypeOK, Placed, X, Publishing
  <1>2. work[X(c)] = "complete"
    BY Zenon DEF Stored, StoredBy
  <1> QED
    BY <1>1, <1>2, Zenon DEF Stored, Doc

LEMMA DocSame ==
  ASSUME NEW c, of'[c] = of[c], pc'[c] \in OnArtifact <=> pc[c] \in OnArtifact
  PROVE  Doc(c)' = Doc(c)
  BY Zenon DEF Doc, X

\* The mutex of a locator: one call writes its index.
LEMMA LockedOne ==
  ASSUME TypeOK, NEW b \in Calls, NEW c \in Calls, pc[b] \in Locked, pc[c] \in Locked, W(b) = W(c)
  PROVE  b = c
  BY Zenon DEF TypeOK

\* An index is neither of the other contents of a file.
LEMMA IndexMeans ==
  /\ \A D : IsIndex(Index(D)) /\ Index(D).descriptors = D
  /\ ~IsIndex(Torn) /\ ~IsIndex(Absent) /\ Torn # Absent
  /\ \A D : Index(D) # Torn /\ Index(D) # Absent
  BY Zenon DEF IsIndex, Index, Torn, Absent

\* The index that a call renames into place is sound.
LEMMA NextIndexSound ==
  ASSUME TypeOK, Placed, Stored, Indexed, NEW c \in Calls, pc[c] \in Locked
  PROVE  Sound(Known(c) \cup {Doc(c)})
  <1>1. pc[c] \in Publishing /\ W(c) \in Workers
    BY WorkerOfAssumption, Zenon DEF Locked, Publishing, W
  <1>2. SoundIn(Kept, Known(c)) /\ ~Conflicts(c, Doc(c))
    BY <1>1, Zenon DEF Indexed, Sound, Known
  <1>3. Doc(c).digest \in Kept
    BY <1>1, DocKept, Zenon
  <1> QED
    BY <1>2, <1>3, SoundMore, Zenon DEF Sound, Conflicts

\* What a step does to the index file.
LEMMA IndexMoves ==
  ASSUME TypeOK, Next
  PROVE  \/ index' = index /\ cut' = cut
         \/ \E c \in Calls : Renames(c) \/ Syncs(c)
         \/ LosesPower
  <1>1. ASSUME NEW w \in Workers, Turns(w) \/ Opens(w) PROVE index' = index /\ cut' = cut
    BY <1>1, Zenon DEF Turns, Opens, publication
  <1>2. ASSUME Exits PROVE index' = index /\ cut' = cut
    BY <1>2, Zenon DEF Exits, Ends
  <1>3. ASSUME NEW c \in Calls, Begins(c) \/ Works(c) \/ Returns(c) \/ Passes(c) \/ Enters(c)
        PROVE  index' = index /\ cut' = cut
    BY <1>3, Zenon DEF Begins, Works, Returns, Passes, Enters, publication
  <1> QED
    BY <1>1, <1>2, <1>3, NextMoves, Zenon DEF CallMoves

\* The contents that the index file may show stay sound, and are torn only when the
\* index was cut.
LEMMA IndexFileStep ==
  ASSUME TypeOK, Placed, Stored, Indexed, Next
  PROVE  /\ index'.data = {index'.seen}
         /\ ~cut' => Torn \notin Readable(index')
         /\ \A r \in Readable(index') :
              r \in {Absent, Torn} \/ (IsIndex(r) /\ SoundIn(Kept', r.descriptors))
  <1>0. Kept \subseteq Kept'
    BY KeptGrows, Zenon
  <1>1. /\ index.data = {index.seen}
        /\ ~cut => Torn \notin Readable(index)
        /\ \A r \in Readable(index) : r \in {Absent, Torn} \/ (IsIndex(r) /\ SoundIn(Kept', r.descriptors))
    BY <1>0, SoundGrows, Zenon DEF Indexed, Sound
  <1>2. ASSUME NEW c \in Calls, Renames(c), index' = Replaced(index, Index(Known(c) \cup {Doc(c)})), cut' = cut
        PROVE  /\ index'.data = {index'.seen}
               /\ ~cut' => Torn \notin Readable(index')
               /\ \A r \in Readable(index') :
                    r \in {Absent, Torn} \/ (IsIndex(r) /\ SoundIn(Kept', r.descriptors))
    <2> DEFINE r1 == Index(Known(c) \cup {Doc(c)})
    <2>1. pc[c] \in Locked
      BY <1>2, Zenon DEF Renames, Locked
    <2>2. IsIndex(r1) /\ r1 # Torn /\ r1.descriptors = Known(c) \cup {Doc(c)}
      BY IndexMeans, Zenon
    <2>3. SoundIn(Kept', r1.descriptors)
      BY <1>0, <2>1, <2>2, NextIndexSound, SoundGrows DEF Sound
    <2>4. index'.seen = r1 /\ index'.data = {r1} /\ Readable(index') = {r1} \cup Survivors(index)
      BY <1>2, Zenon DEF Replaced, Readable, Survivors
    <2>5. Survivors(index) \subseteq Readable(index)
      BY Zenon DEF Readable
    <2> HIDE DEF r1
    <2> QED
      BY <1>1, <1>2, <2>2, <2>3, <2>4, <2>5, Zenon
  <1>3. ASSUME NEW c \in Calls, Renames(c), index' = Replaced(index, Torn), cut' = TRUE
        PROVE  /\ index'.data = {index'.seen}
               /\ ~cut' => Torn \notin Readable(index')
               /\ \A r \in Readable(index') :
                    r \in {Absent, Torn} \/ (IsIndex(r) /\ SoundIn(Kept', r.descriptors))
    BY <1>1, <1>3, Zenon DEF Replaced, Readable, Survivors
  <1>4. ASSUME NEW c \in Calls, Syncs(c)
        PROVE  /\ index'.data = {index'.seen}
               /\ ~cut' => Torn \notin Readable(index')
               /\ \A r \in Readable(index') :
                    r \in {Absent, Torn} \/ (IsIndex(r) /\ SoundIn(Kept', r.descriptors))
    BY <1>1, <1>4, Zenon DEF Syncs, DirSynced, Readable, Survivors
  <1>5. ASSUME LosesPower
        PROVE  /\ index'.data = {index'.seen}
               /\ ~cut' => Torn \notin Readable(index')
               /\ \A r \in Readable(index') :
                    r \in {Absent, Torn} \/ (IsIndex(r) /\ SoundIn(Kept', r.descriptors))
    BY <1>1, <1>5 DEF LosesPower, Ends, Settled, Readable, Survivors
  <1> QED
    BY <1>1, <1>2, <1>3, <1>4, <1>5, IndexMoves, Zenon DEF Renames

\* A locator gains what a call has synced, or takes over an index.
LEMMA LocatorMoves ==
  ASSUME TypeOK, Next, NEW w \in Workers
  PROVE  \/ descriptors'[w] = descriptors[w]
         \/ descriptors'[w] = {}
         \/ Opens(w) /\ IsIndex(index.seen) /\ descriptors'[w] = index.seen.descriptors
         \/ \E c \in Calls : Syncs(c) /\ W(c) = w /\ descriptors'[w] = Known(c) \cup {Doc(c)}
  <1>1. ASSUME NEW v \in Workers, Turns(v) PROVE descriptors'[w] = descriptors[w]
    BY <1>1, Zenon DEF Turns
  <1>2. ASSUME NEW v \in Workers, Opens(v)
        PROVE  \/ descriptors'[w] = descriptors[w] \/ descriptors'[w] = {}
               \/ Opens(w) /\ IsIndex(index.seen) /\ descriptors'[w] = index.seen.descriptors
    <2>1. CASE v = w
      BY <1>2, <2>1, Zenon DEF Opens
    <2>2. CASE v # w
      BY <1>2, <2>2, Zenon DEF Opens
    <2> QED
      BY <2>1, <2>2, Zenon
  <1>3. ASSUME Ends PROVE descriptors'[w] = descriptors[w] \/ descriptors'[w] = {}
    BY <1>3, Zenon DEF Ends
  <1>4. ASSUME NEW c \in Calls, Begins(c) \/ Works(c) \/ Returns(c) \/ Passes(c) \/ Enters(c) \/ Renames(c)
        PROVE  descriptors'[w] = descriptors[w]
    BY <1>4, Zenon DEF Begins, Works, Returns, Passes, Enters, Renames
  <1>5. ASSUME NEW c \in Calls, Syncs(c)
        PROVE  descriptors'[w] = descriptors[w] \/ (W(c) = w /\ descriptors'[w] = Known(c) \cup {Doc(c)})
    BY <1>5, Zenon DEF Syncs
  <1> QED
    BY <1>1, <1>2, <1>3, <1>4, <1>5, NextMoves, ZenonT(60) DEF CallMoves, Exits, LosesPower

LEMMA LocatorsStep ==
  ASSUME TypeOK, Placed, Stored, Indexed, Next, NEW w \in Workers
  PROVE  SoundIn(Kept', descriptors'[w])
  <1>0. Kept \subseteq Kept'
    BY KeptGrows, Zenon
  <1>1. CASE descriptors'[w] = descriptors[w]
    BY <1>0, <1>1, SoundGrows, Zenon DEF Indexed, Sound
  <1>2. CASE descriptors'[w] = {}
    BY <1>2, Zenon DEF SoundIn
  <1>3. CASE IsIndex(index.seen) /\ descriptors'[w] = index.seen.descriptors
    <2>1. SoundIn(Kept, index.seen.descriptors)
      BY <1>3, IndexMeans, Zenon DEF Indexed, Sound, Readable
    <2> QED
      BY <1>0, <1>3, <2>1, SoundGrows, Zenon
  <1>4. ASSUME NEW c \in Calls, Syncs(c), descriptors'[w] = Known(c) \cup {Doc(c)}
        PROVE  SoundIn(Kept', descriptors'[w])
    <2>1. pc[c] \in Locked
      BY <1>4, Zenon DEF Syncs, Locked
    <2> QED
      BY <1>0, <1>4, <2>1, NextIndexSound, SoundGrows, Zenon DEF Sound
  <1> QED
    BY <1>1, <1>2, <1>3, <1>4, LocatorMoves, Zenon

\* A call stays where it is, or ends, or moves.
LEMMA CallKept ==
  ASSUME TypeOK, Next, NEW b \in Calls
  PROVE  (pc'[b] = pc[b] /\ of'[b] = of[b]) \/ pc'[b] = "idle" \/ CallMoves(b)
  <1>1. ASSUME NEW w \in Workers, Turns(w) \/ Opens(w) PROVE pc'[b] = pc[b] /\ of'[b] = of[b]
    BY <1>1, Zenon DEF Turns, Opens
  <1>2. ASSUME Ends PROVE (pc'[b] = pc[b] /\ of'[b] = of[b]) \/ pc'[b] = "idle"
    BY <1>2, Zenon DEF Ends
  <1>3. ASSUME NEW c \in Calls, CallMoves(c), c # b PROVE pc'[b] = pc[b] /\ of'[b] = of[b]
    BY <1>3, Zenon DEF CallMoves, Begins, Works, Returns, Passes, Enters, Renames, Syncs, Same
  <1> QED
    BY <1>1, <1>2, <1>3, NextMoves, Zenon DEF Exits, LosesPower

\* The locator of a running call changes only when a call of its worker registers.
LEMMA KnownMoves ==
  ASSUME TypeOK, Placed, Next, NEW b \in Calls, pc[b] # "idle", pc'[b] # "idle"
  PROVE  \/ descriptors'[W(b)] = descriptors[W(b)]
         \/ \E c \in Calls : Syncs(c) /\ W(c) = W(b) /\ descriptors'[W(b)] = Known(c) \cup {Doc(c)}
  <1>0. W(b) \in Workers /\ worker[W(b)] \in {"serving", "released"}
    BY WorkerOfAssumption, Zenon DEF Placed, W
  <1>1. ASSUME NEW w \in Workers, Turns(w) \/ Opens(w) PROVE descriptors'[W(b)] = descriptors[W(b)]
    BY <1>0, <1>1, Zenon DEF Turns, Opens
  <1>2. ASSUME Ends PROVE descriptors'[W(b)] = descriptors[W(b)]
    BY <1>0, <1>2, Zenon DEF Ends
  <1>3. ASSUME NEW c \in Calls, Begins(c) \/ Works(c) \/ Returns(c) \/ Passes(c) \/ Enters(c) \/ Renames(c)
        PROVE  descriptors'[W(b)] = descriptors[W(b)]
    BY <1>3, Zenon DEF Begins, Works, Returns, Passes, Enters, Renames
  <1>4. ASSUME NEW c \in Calls, Syncs(c)
        PROVE  \/ descriptors'[W(b)] = descriptors[W(b)]
               \/ W(c) = W(b) /\ descriptors'[W(b)] = Known(c) \cup {Doc(c)}
    BY <1>0, <1>4, Zenon DEF Syncs
  <1> QED
    BY <1>1, <1>2, <1>3, <1>4, NextMoves, ZenonT(60) DEF CallMoves, Exits, LosesPower

\* What a call is writing does not conflict with what its locator has: nobody else
\* registers there in the meantime.
LEMMA ConflictsStep ==
  ASSUME TypeOK, Placed, Indexed, Next, NEW b \in Calls, pc'[b] \in Locked
  PROVE  ~Conflicts(b, Doc(b))'
  <1>0. pc'[b] # "idle"
    BY Zenon DEF Locked
  <1>1. /\ pc[b] # "idle" /\ Doc(b)' = Doc(b) /\ ~Conflicts(b, Doc(b))
        /\ pc[b] \in Locked \/ Enters(b)
    <2>1. CASE pc'[b] = pc[b] /\ of'[b] = of[b]
      BY <1>0, <2>1, DocSame, Zenon DEF Indexed
    <2>2. CASE Enters(b)
      <3>1. /\ of'[b] = of[b] /\ pc[b] \in {"artifact", "report"} /\ ~Conflicts(b, Doc(b))
            /\ pc[b] = "artifact" <=> pc'[b] = "artifactWriting"
            /\ pc'[b] \in {"artifactWriting", "reportWriting"}
        BY <2>2, Zenon DEF Enters
      <3>2. Doc(b)' = Doc(b)
        BY <3>1, DocSame, Zenon DEF OnArtifact
      <3> QED
        BY <2>2, <3>1, <3>2, Zenon
    <2>3. CASE Renames(b)
      <3>1. /\ of'[b] = of[b] /\ pc[b] \in {"artifactWriting", "reportWriting"}
            /\ pc[b] = "artifactWriting" <=> pc'[b] = "artifactRenamed"
            /\ pc'[b] \in {"artifactRenamed", "reportRenamed"}
        BY <2>3, Zenon DEF Renames
      <3>2. Doc(b)' = Doc(b)
        BY <3>1, DocSame, Zenon DEF OnArtifact
      <3> QED
        BY <3>1, <3>2, Zenon DEF Indexed, Locked
    <2>4. ~Begins(b) /\ ~Works(b) /\ ~Returns(b) /\ ~Passes(b) /\ ~Syncs(b)
      BY Zenon DEF Begins, Works, Returns, Passes, Syncs, Locked, Running
    <2> QED
      BY <1>0, <2>1, <2>2, <2>3, <2>4, CallKept, Zenon DEF CallMoves
  <1>2. descriptors'[W(b)] = descriptors[W(b)]
    <2>1. ASSUME NEW c \in Calls, Syncs(c), W(c) = W(b) PROVE FALSE
      <3>1. pc[c] \in Locked /\ pc'[c] \notin Locked /\ ~Enters(b)
        BY <2>1, Zenon DEF Syncs, Locked, Enters, DirSynced, Same
      <3> QED
        BY <1>1, <2>1, <3>1, LockedOne, Zenon
    <2> QED
      BY <1>0, <1>1, <2>1, KnownMoves, Zenon
  <1> QED
    BY <1>1, <1>2, Zenon DEF Conflicts, Known, W

LEMMA IndexedStep ==
  ASSUME TypeOK, Placed, Stored, Indexed, Next
  PROVE  Indexed'
  <1>1. /\ index'.data = {index'.seen}
        /\ ~cut' => Torn \notin Readable(index')
        /\ \A r \in Readable(index') :
             r \in {Absent, Torn} \/ (IsIndex(r) /\ SoundIn(Kept', r.descriptors))
    BY IndexFileStep, Zenon
  <1>2. \A w \in Workers : SoundIn(Kept', descriptors'[w])
    BY LocatorsStep, Zenon
  <1>3. \A c \in Calls : pc'[c] \in Locked => ~Conflicts(c, Doc(c))'
    BY ConflictsStep, Zenon
  <1> QED
    BY <1>1, <1>2, <1>3, Zenon DEF Indexed, Sound

\* What a call has published stays in its locator.
LEMMA PublishedStep ==
  ASSUME TypeOK, Placed, Published, Next
  PROVE  Published'
  <1> SUFFICES ASSUME NEW b \in Calls
               PROVE  /\ pc'[b] \in {"report", "reportWriting", "reportRenamed", "settling"} =>
                           ArtifactOf[of'[b]] \in descriptors'[W(b)]
                      /\ pc'[b] = "settling" => ReportOf[of'[b]] \in descriptors'[W(b)]
    BY Zenon DEF Published, X, Known, W
  <1>0. ASSUME pc[b] # "idle", pc'[b] # "idle" PROVE descriptors[W(b)] \subseteq descriptors'[W(b)]
    BY <1>0, KnownMoves, Zenon DEF Known
  <1>1. CASE pc'[b] = pc[b] /\ of'[b] = of[b]
    BY <1>0, <1>1, Zenon DEF Published, X, Known
  <1>2. CASE pc'[b] = "idle"
    BY <1>2, Zenon
  <1>3. CASE Begins(b) \/ Works(b) \/ Returns(b)
    BY <1>3, Zenon DEF Begins, Works, Returns, Running
  <1>4. CASE Passes(b)
    <2>1. pc[b] # "idle" /\ pc'[b] # "idle" /\ of'[b] = of[b] /\ Doc(b) \in descriptors[W(b)]
      BY <1>4, Zenon DEF Passes, Known
    <2>2. \/ pc[b] = "artifact" /\ pc'[b] = "report" /\ Doc(b) = ArtifactOf[of[b]]
          \/ pc[b] = "report" /\ pc'[b] = "settling" /\ Doc(b) = ReportOf[of[b]]
      BY <1>4, Zenon DEF Passes, Doc, OnArtifact, X
    <2>3. pc[b] = "report" => ArtifactOf[of[b]] \in descriptors[W(b)]
      BY Zenon DEF Published, X, Known
    <2> QED
      BY <1>0, <2>1, <2>2, <2>3, Zenon
  <1>5. CASE Enters(b) \/ Renames(b)
    <2>1. /\ pc[b] # "idle" /\ pc'[b] # "idle" /\ of'[b] = of[b] /\ pc'[b] # "settling"
          /\ pc'[b] \in {"reportWriting", "reportRenamed", "report"} => pc[b] \in {"report", "reportWriting"}
      BY <1>5, Zenon DEF Enters, Renames
    <2>2. pc[b] \in {"report", "reportWriting"} => ArtifactOf[of[b]] \in descriptors[W(b)]
      BY Zenon DEF Published, X, Known
    <2> QED
      BY <1>0, <2>1, <2>2, Zenon
  <1>6. CASE Syncs(b)
    <2>1. of'[b] = of[b] /\ descriptors'[W(b)] = descriptors[W(b)] \cup {Doc(b)}
      BY <1>6, Zenon DEF Syncs, Known
    <2>2. \/ pc[b] = "artifactRenamed" /\ pc'[b] = "report" /\ Doc(b) = ArtifactOf[of[b]]
          \/ pc[b] = "reportRenamed" /\ pc'[b] = "settling" /\ Doc(b) = ReportOf[of[b]]
      BY <1>6, Zenon DEF Syncs, Doc, OnArtifact, X
    <2>3. pc[b] = "reportRenamed" => ArtifactOf[of[b]] \in descriptors[W(b)]
      BY Zenon DEF Published, X, Known
    <2> QED
      BY <2>1, <2>2, <2>3, Zenon
  <1> QED
    BY <1>1, <1>2, <1>3, <1>4, <1>5, <1>6, CallKept, Zenon DEF CallMoves

-----------------------------------------------------------------------------
(* What the index hands on, as long as only the worker with the lock writes it. *)

\* Steps that leave the index alone and take nothing on.
LEMMA HandedSame ==
  ASSUME Handed, index' = index, taken' = taken,
         \A w \in Workers : descriptors'[w] \subseteq descriptors[w],
         \A w \in Workers : worker'[w] = "serving" =>
           worker[w] = "serving" /\ descriptors'[w] = descriptors[w],
         \A c \in Calls : pc'[c] \in Renamed => pc'[c] = pc[c] /\ of'[c] = of[c]
  PROVE  Handed'
  <1>1. \A c \in Calls : pc'[c] \in Renamed => pc[c] \in Renamed /\ Doc(c)' = Doc(c)
    BY DocSame, Zenon
  <1>2. \A w \in Workers : \A d \in descriptors'[w] : Named(index', d)
    BY Zenon DEF Handed
  <1>3. \A c \in Calls : pc'[c] \in Renamed => Named(index', Doc(c)')
    BY <1>1 DEF Handed
  <1>4. ASSUME NEW w \in Workers, worker'[w] = "serving"
        PROVE  /\ \A v \in Workers : descriptors'[v] \subseteq descriptors'[w]
               /\ \A c \in Calls : pc'[c] \in Renamed /\ W(c) # w => Doc(c)' \in descriptors'[w]
    BY <1>1, <1>4 DEF Handed
  <1>5. \A w \in Workers : \A d \in descriptors'[w] \ taken' : Holds(index', d)
    BY Zenon DEF Handed
  <1> QED
    BY <1>2, <1>3, <1>4, <1>5, Zenon DEF Handed, W

LEMMA SettledSame ==
  ASSUME SettledHeld, index' = index, taken' = taken, settled' = settled,
         \A w \in Workers : worker'[w] = "serving" =>
           worker[w] = "serving" /\ descriptors'[w] = descriptors[w]
  PROVE  SettledHeld'
  BY Zenon DEF SettledHeld

\* The descriptors of the execution of a call that settles.
LEMMA SettlingHeld ==
  ASSUME TypeOK, Placed, Published, Handed, NEW c \in Calls, pc[c] = "settling", NEW d \in Objects(of[c]) \ taken
  PROVE  Holds(index, d) /\ \A w \in Workers : worker[w] = "serving" => d \in descriptors[w]
  <1>1. W(c) \in Workers /\ d \in descriptors[W(c)]
    BY WorkerOfAssumption, Zenon DEF Published, Objects, X, Known, W
  <1> QED
    BY <1>1, Zenon DEF Handed

\* A call that begins, runs, looks its descriptor up, or returns.
LEMMA QuietHanded ==
  ASSUME TypeOK, Placed, Published, Handed, SettledHeld, NEW c \in Calls,
         Begins(c) \/ Works(c) \/ Returns(c) \/ Passes(c) \/ Enters(c)
  PROVE  Handed' /\ SettledHeld'
  <1>1. /\ UNCHANGED <<worker, descriptors, index, taken>> /\ Same(c) /\ pc'[c] \notin Renamed
    BY Zenon DEF Begins, Works, Returns, Passes, Enters, publication, Renamed, Running
  <1>2. Handed'
    BY <1>1, HandedSame, Zenon DEF Same
  <1>3. CASE settled' = settled
    BY <1>1, <1>2, <1>3, SettledSame, Zenon
  <1>4. CASE pc[c] = "settling" /\ settled' = settled \cup {of[c]}
    <2>1. \A x \in settled' : \A d \in Objects(x) \ taken :
            Holds(index, d) /\ \A w \in Workers : worker[w] = "serving" => d \in descriptors[w]
      BY <1>4, SettlingHeld, Zenon DEF SettledHeld
    <2> QED
      BY <1>1, <1>2, <2>1, Zenon DEF SettledHeld
  <1> QED
    BY <1>3, <1>4, Zenon DEF Begins, Works, Returns, Passes, Enters

LEMMA TurnsHanded ==
  ASSUME TypeOK, Handed, SettledHeld, NEW w \in Workers, Turns(w)
  PROVE  Handed' /\ SettledHeld'
  <1>1. UNCHANGED <<descriptors, pc, of, index, taken, settled>>
    BY Zenon DEF Turns, publication
  <1>2. \A v \in Workers : worker'[v] = "serving" => worker[v] = "serving"
    BY Zenon DEF Turns
  <1> QED
    BY <1>1, <1>2, HandedSame, SettledSame, Zenon

LEMMA ExitsHanded ==
  ASSUME TypeOK, Handed, SettledHeld, Exits
  PROVE  Handed' /\ SettledHeld'
  <1>1. UNCHANGED <<index, taken, settled>>
    BY Zenon DEF Exits, Ends
  <1>2. \A v \in Workers : /\ worker'[v] = "serving" => worker[v] = "serving" /\ descriptors'[v] = descriptors[v]
                           /\ descriptors'[v] \subseteq descriptors[v]
    BY Zenon DEF Exits, Ends
  <1>3. \A c \in Calls : pc'[c] \in Renamed => pc'[c] = pc[c] /\ of'[c] = of[c]
    BY Zenon DEF Exits, Ends, Renamed
  <1> QED
    BY <1>1, <1>2, <1>3, HandedSame, SettledSame, Zenon

\* A call of the worker that has the lock puts an index in place: its locator has all
\* that any locator has, and so has the index.
LEMMA RenamesHanded ==
  ASSUME TypeOK, Placed, Handed, SettledHeld, NEW c \in Calls, Renames(c), ~late'
  PROVE  Handed' /\ SettledHeld'
  <1>0. W(c) \in Workers /\ pc[c] \in Locked
    BY WorkerOfAssumption, Zenon DEF W, Renames, Locked
  <1>1. /\ worker[W(c)] = "serving"
        /\ \A w \in Workers : worker[w] = "serving" => w = W(c)
    BY <1>0, Zenon DEF Renames, Placed, Locked
  <1>2. UNCHANGED <<worker, descriptors, taken, settled>> /\ Same(c)
    BY Zenon DEF Renames
  <1>3. Doc(c)' = Doc(c)
    <2>1. of'[c] = of[c] /\ (pc'[c] \in OnArtifact <=> pc[c] \in OnArtifact)
      BY Zenon DEF Renames, OnArtifact
    <2> QED
      BY <2>1, DocSame, Zenon
  <1>4. \A d \in Known(c) \cup {Doc(c)} : Named(index', d)
    BY IndexMeans DEF Renames, Replaced, Named
  <1>5. Readable(index') \subseteq {index'.seen} \cup Readable(index)
    BY DEF Renames, Replaced, Readable, Survivors
  <1>6. ASSUME NEW d \in Known(c), Holds(index, d) PROVE Holds(index', d)
    BY <1>4, <1>5, <1>6, Zenon DEF Holds, Named
  <1>7. \A w \in Workers : descriptors[w] \subseteq Known(c)
    BY <1>0, <1>1, Zenon DEF Handed, Known
  <1>8. ASSUME NEW b \in Calls, pc'[b] \in Renamed, b # c
        PROVE  pc[b] \in Renamed /\ Doc(b)' = Doc(b) /\ W(b) # W(c) /\ Doc(b) \in Known(c)
    <2>1. pc'[b] = pc[b] /\ of'[b] = of[b]
      BY <1>2, <1>8, Zenon DEF Same
    <2>2. pc[b] \in Locked
      BY <1>8, <2>1, Zenon DEF Renamed, Locked
    <2>3. W(b) # W(c)
      BY <1>0, <1>8, <2>2, LockedOne, Zenon
    <2> QED
      BY <1>0, <1>1, <1>8, <2>1, <2>3, DocSame, Zenon DEF Handed, Known
  <1>9. Handed'
    <2>1. \A w \in Workers : \A d \in descriptors'[w] : Named(index', d)
      BY <1>2, <1>4, <1>7, Zenon
    <2>2. \A b \in Calls : pc'[b] \in Renamed => Named(index', Doc(b)')
      BY <1>3, <1>4, <1>8, Zenon
    <2>3. ASSUME NEW w \in Workers, worker'[w] = "serving"
          PROVE  /\ \A v \in Workers : descriptors'[v] \subseteq descriptors'[w]
                 /\ \A b \in Calls : pc'[b] \in Renamed /\ W(b) # w => Doc(b)' \in descriptors'[w]
      <3>1. w = W(c) /\ descriptors'[w] = Known(c)
        BY <1>1, <1>2, <2>3, Zenon DEF Known
      <3>2. \A b \in Calls : pc'[b] \in Renamed /\ W(b) # w => Doc(b)' \in Known(c)
        BY <1>8, <3>1, Zenon
      <3> QED
        BY <1>2, <1>7, <3>1, <3>2, Zenon
    <2>4. \A w \in Workers : \A d \in descriptors'[w] \ taken' : Holds(index', d)
      BY <1>2, <1>6, <1>7, Zenon DEF Handed
    <2> QED
      BY <2>1, <2>2, <2>3, <2>4, Zenon DEF Handed, W
  <1>10. ASSUME NEW x \in settled, NEW d \in Objects(x) \ taken
         PROVE  Holds(index', d) /\ \A w \in Workers : worker'[w] = "serving" => d \in descriptors'[w]
    <2>1. Holds(index, d) /\ \A w \in Workers : worker[w] = "serving" => d \in descriptors[w]
      BY <1>10, Zenon DEF SettledHeld
    <2>2. d \in Known(c)
      BY <1>0, <1>1, <2>1, Zenon DEF Known
    <2> QED
      BY <1>2, <1>6, <2>1, <2>2, Zenon
  <1> QED
    BY <1>2, <1>9, <1>10, Zenon DEF SettledHeld

\* Its directory is synced: the index in place is the only one a power loss may leave.
LEMMA SyncsHanded ==
  ASSUME TypeOK, Placed, Indexed, Handed, SettledHeld, NEW c \in Calls, Syncs(c)
  PROVE  Handed' /\ SettledHeld'
  <1>0. W(c) \in Workers /\ pc[c] \in Renamed /\ pc'[c] \notin Renamed
    BY WorkerOfAssumption, Zenon DEF W, Syncs, Renamed
  <1>1. UNCHANGED <<worker, settled>> /\ Same(c) /\ taken' = taken \ {Doc(c)}
    BY Zenon DEF Syncs
  <1>2. /\ descriptors'[W(c)] = descriptors[W(c)] \cup {Doc(c)}
        /\ \A w \in Workers : w # W(c) => descriptors'[w] = descriptors[w]
    BY Zenon DEF Syncs, Known
  <1>3. index'.seen = index.seen /\ Readable(index') = {index.seen}
    BY Zenon DEF Syncs, DirSynced, Readable, Survivors, Indexed
  <1>4. \A d : Named(index, d) => Named(index', d) /\ Holds(index', d)
    BY <1>3, Zenon DEF Named, Holds
  <1>5. \A d : Holds(index, d) => Named(index, d)
    BY Zenon DEF Named, Holds, Readable
  <1>6. \A b \in Calls : pc'[b] \in Renamed => pc[b] \in Renamed /\ Doc(b)' = Doc(b) /\ b # c
    BY <1>0, <1>1, DocSame, Zenon DEF Same
  <1>7. \A w \in Workers : \A d \in descriptors'[w] : Named(index, d)
    BY <1>0, <1>2 DEF Handed
  <1>8. ASSUME NEW w \in Workers, worker[w] = "serving"
        PROVE  descriptors[w] \subseteq descriptors'[w] /\ Doc(c) \in descriptors'[w]
    BY <1>0, <1>2, <1>8, Zenon DEF Handed
  <1>9. Handed'
    <2>1. \A w \in Workers : \A d \in descriptors'[w] : Named(index', d) /\ Holds(index', d)
      BY <1>4, <1>7, Zenon
    <2>2. \A b \in Calls : pc'[b] \in Renamed => Named(index', Doc(b)')
      BY <1>4, <1>6 DEF Handed
    <2>3. ASSUME NEW w \in Workers, worker'[w] = "serving"
          PROVE  /\ \A v \in Workers : descriptors'[v] \subseteq descriptors'[w]
                 /\ \A b \in Calls : pc'[b] \in Renamed /\ W(b) # w => Doc(b)' \in descriptors'[w]
      <3>1. worker[w] = "serving" /\ descriptors[w] \subseteq descriptors'[w] /\ Doc(c) \in descriptors'[w]
        BY <1>1, <1>8, <2>3, Zenon
      <3>2. \A v \in Workers : descriptors[v] \subseteq descriptors[w]
        BY <3>1, Zenon DEF Handed
      <3>3. \A v \in Workers : descriptors'[v] \subseteq descriptors'[w]
        BY <1>2, <3>1, <3>2, Zenon
      <3>4. \A b \in Calls : pc'[b] \in Renamed /\ W(b) # w => Doc(b)' \in descriptors'[w]
        BY <1>6, <3>1 DEF Handed
      <3> QED
        BY <3>3, <3>4, Zenon
    <2> QED
      BY <2>1, <2>2, <2>3, Zenon DEF Handed, W
  <1>10. ASSUME NEW x \in settled, NEW d \in Objects(x) \ taken'
         PROVE  Holds(index', d) /\ \A w \in Workers : worker'[w] = "serving" => d \in descriptors'[w]
    <2>1. CASE d = Doc(c)
      BY <1>0, <1>1, <1>4, <1>8, <2>1, Zenon DEF Handed
    <2>2. CASE d # Doc(c)
      <3>1. Holds(index, d) /\ \A w \in Workers : worker[w] = "serving" => d \in descriptors[w]
        BY <1>1, <1>10, <2>2, Zenon DEF SettledHeld
      <3> QED
        BY <1>1, <1>4, <1>5, <1>8, <3>1, Zenon
    <2> QED
      BY <2>1, <2>2, Zenon
  <1> QED
    BY <1>1, <1>9, <1>10, Zenon DEF SettledHeld

\* The worker that takes the lock reads all that is handed on; of what it read from an
\* index that is not synced it cannot say so.
LEMMA OpensHanded ==
  ASSUME TypeOK, Placed, Indexed, Handed, SettledHeld, NEW w \in Workers, Opens(w)
  PROVE  Handed' /\ SettledHeld'
  <1>1. /\ UNCHANGED <<pc, of, index, settled>> /\ taken \subseteq taken'
        /\ \A v \in Workers : v # w => descriptors'[v] = descriptors[v]
    BY Zenon DEF Opens
  <1>2. \A v \in Workers : worker'[v] = "serving" => v = w
    BY Zenon DEF Opens, Placed
  <1>3. \A d : Holds(index, d) => Named(index, d)
    BY Zenon DEF Named, Holds, Readable
  <1>4. \A d : Named(index, d) => d \in descriptors'[w]
    BY IndexMeans, Zenon DEF Opens, Named
  <1>5. \A d \in descriptors'[w] : Named(index, d) /\ (d \notin taken' => Holds(index, d))
    <2>1. CASE descriptors'[w] = {}
      BY <2>1, Zenon
    <2>2. CASE /\ IsIndex(index.seen) /\ descriptors'[w] = index.seen.descriptors
               /\ taken' = taken \cup {d \in index.seen.descriptors : index.old # {}}
      BY <2>2, Zenon DEF Named, Holds, Readable, Survivors, Indexed
    <2> QED
      BY <2>1, <2>2, Zenon DEF Opens
  <1>6. \A c \in Calls : Doc(c)' = Doc(c)
    BY <1>1, DocSame, Zenon
  <1>7. Handed'
    <2>1. \A v \in Workers : \A d \in descriptors'[v] : Named(index', d)
      BY <1>1, <1>5, Zenon DEF Handed
    <2>2. \A c \in Calls : pc'[c] \in Renamed => Named(index', Doc(c)')
      BY <1>1, <1>6 DEF Handed
    <2>3. ASSUME NEW v \in Workers, worker'[v] = "serving"
          PROVE  /\ \A u \in Workers : descriptors'[u] \subseteq descriptors'[v]
                 /\ \A c \in Calls : pc'[c] \in Renamed /\ W(c) # v => Doc(c)' \in descriptors'[v]
      BY <1>1, <1>2, <1>4, <2>1, <2>2, <2>3, Zenon
    <2>4. \A v \in Workers : \A d \in descriptors'[v] \ taken' : Holds(index', d)
      BY <1>1, <1>5, Zenon DEF Handed
    <2> QED
      BY <2>1, <2>2, <2>3, <2>4, Zenon DEF Handed, W
  <1>8. ASSUME NEW x \in settled, NEW d \in Objects(x) \ taken'
        PROVE  Holds(index', d) /\ \A v \in Workers : worker'[v] = "serving" => d \in descriptors'[v]
    <2>1. Holds(index, d)
      BY <1>1, <1>8, Zenon DEF SettledHeld
    <2> QED
      BY <1>1, <1>2, <1>3, <1>4, <2>1, Zenon
  <1> QED
    BY <1>1, <1>7, <1>8, Zenon DEF SettledHeld

LEMMA PowerHanded ==
  ASSUME SettledHeld, LosesPower
  PROVE  Handed' /\ SettledHeld'
  <1>1. \A w \in Workers : descriptors'[w] = {} /\ worker'[w] = "down"
    BY Zenon DEF LosesPower
  <1>2. \A c \in Calls : pc'[c] \notin Renamed
    BY Zenon DEF LosesPower, Renamed
  <1>3. Handed'
    BY <1>1, <1>2, Zenon DEF Handed
  <1>4. Readable(index') \subseteq Readable(index) /\ taken' = taken /\ settled' = settled
    BY DEF LosesPower, Ends, Settled, Readable, Survivors
  <1>5. \A x \in settled' : \A d \in Objects(x) \ taken' : Holds(index', d)
    BY <1>4, Zenon DEF SettledHeld, Holds
  <1> QED
    BY <1>1, <1>3, <1>5, Zenon DEF SettledHeld

LEMMA LateStep ==
  ASSUME TypeOK, Next, ~late'
  PROVE  ~late
  <1>1. ASSUME NEW w \in Workers, Turns(w) \/ Opens(w) PROVE late' = late
    BY <1>1, Zenon DEF Turns, Opens, publication
  <1>2. ASSUME Ends PROVE late' = late
    BY <1>2, Zenon DEF Ends
  <1>3. ASSUME NEW c \in Calls, CallMoves(c) PROVE late' = late \/ late' = (late \/ worker[W(c)] = "released")
    BY <1>3, Zenon DEF CallMoves, Begins, Works, Returns, Passes, Enters, Renames, Syncs, publication
  <1> QED
    BY <1>1, <1>2, <1>3, NextMoves, Zenon DEF Exits, LosesPower

LEMMA HandedStep ==
  ASSUME TypeOK, Placed, Indexed, Published, ~late => Handed /\ SettledHeld, Next, ~late'
  PROVE  Handed' /\ SettledHeld'
  <1>1. Handed /\ SettledHeld
    BY LateStep, Zenon
  <1> QED
    BY <1>1, NextMoves, TurnsHanded, OpensHanded, ExitsHanded, PowerHanded, QuietHanded, RenamesHanded,
       SyncsHanded, ZenonT(60) DEF CallMoves

-----------------------------------------------------------------------------
(* The theorems. *)

LEMMA PublicationInit == Init => PublicationInv
  <1> SUFFICES ASSUME Init PROVE PublicationInv
    BY Zenon
  <1>1. TypeOK
    <2>1. NoFile \in Files(Indexes)
      BY Zenon DEF Files, NoFile
    <2>2. \A c \in Calls : pc[c] \in Locked <=> mutex[W(c)] = c
      BY WorkerOfAssumption, Zenon DEF Init, Locked, W
    <2>3. faults \in 0..MaxFaults
      BY BoundsAssumption DEF Init
    <2> QED
      BY <2>1, <2>2, <2>3, Zenon DEF Init, TypeOK
  <1>2. Placed
    BY WorkerOfAssumption, Zenon DEF Init, Placed, W
  <1>3. Stored
    BY Zenon DEF Init, Stored, StoredBy, Publishing
  <1>4. Indexed
    BY WorkerOfAssumption, IndexMeans, Zenon DEF Init, Indexed, Sound, SoundIn, NoFile, Readable, Survivors, Locked
  <1>5. Published
    BY Zenon DEF Init, Published
  <1>6. Handed /\ SettledHeld
    BY Zenon DEF Init, Handed, SettledHeld, Renamed
  <1> QED
    BY <1>1, <1>2, <1>3, <1>4, <1>5, <1>6, Zenon DEF PublicationInv

LEMMA PublicationStep == PublicationInv /\ [Next]_vars => PublicationInv'
  <1>1. ASSUME PublicationInv, Next PROVE PublicationInv'
    BY <1>1, TypesStep, PlacedStep, StoredStep, IndexedStep, PublishedStep, HandedStep, Zenon DEF PublicationInv
  <1>2. ASSUME PublicationInv, UNCHANGED vars PROVE PublicationInv'
    BY <1>2, ZenonT(60) DEF PublicationInv, vars, store, locator, publication, TypeOK, Placed, Stored, StoredBy, Indexed,
       Published, Handed, SettledHeld, Sound, Kept, Conflicts, Known, Doc, X, W
  <1> QED
    BY <1>1, <1>2

\* The inductive invariant of the publication of results.
THEOREM PublicationInvariant == Spec => []PublicationInv
  BY PublicationInit, PublicationStep, PTL DEF Spec

\* Every variable keeps its type, and the mutex of a locator is held by the call that
\* writes its index.
THEOREM PublicationTypeOK == Spec => []TypeOK
  <1>1. PublicationInv => TypeOK
    BY Zenon DEF PublicationInv
  <1> QED
    BY <1>1, PublicationInvariant, PTL

\* A worker can start: every index that may be found is readable and names only objects
\* the store keeps, unless the write of an index had failed unnoticed.
THEOREM EveryIndexOpens == Spec => []IndexOpens
  <1>1. PublicationInv => IndexOpens
    <2> SUFFICES ASSUME PublicationInv, ~cut, NEW r \in Readable(index)
                 PROVE  r = Absent \/ (IsIndex(r) /\ \A d \in r.descriptors : d.digest \in durable \cup adopted)
      BY Zenon DEF IndexOpens
    <2>1. r # Torn /\ (r \in {Absent, Torn} \/ (IsIndex(r) /\ SoundIn(Kept, r.descriptors)))
      BY Zenon DEF PublicationInv, Indexed, Sound
    <2> QED
      BY <2>1, Zenon DEF SoundIn, Kept
  <1> QED
    BY <1>1, PublicationInvariant, PTL

\* What an execution was settled for stays in the index, whatever crash or power loss
\* follows, and its objects stay in the store.
THEOREM SettledIsKept == Spec => []SettledKept
  <1>1. PublicationInv => SettledKept
    <2> SUFFICES ASSUME PublicationInv, ~cut, ~late, NEW x \in settled, NEW d \in Objects(x) \ taken
                 PROVE  /\ \A r \in Readable(index) : IsIndex(r) /\ d \in r.descriptors
                        /\ d.digest \in durable \cup adopted
      BY Zenon DEF SettledKept
    <2>1. Holds(index, d) /\ Torn \notin Readable(index)
      BY Zenon DEF PublicationInv, SettledHeld, Indexed
    <2>2. x \in Executions /\ work[x] = "complete"
      BY Zenon DEF PublicationInv, TypeOK, Stored
    <2>3. d.digest \in Kept
      BY <2>2, Zenon DEF PublicationInv, Stored, Objects
    <2> QED
      BY <2>1, <2>3, Zenon DEF Holds, Kept
  <1> QED
    BY <1>1, PublicationInvariant, PTL

\* Every worker that serves answers for what was settled before, in whichever worker,
\* with the descriptor it was settled with and no other.
THEOREM SettledIsServed == Spec => []SettledServed
  <1>1. PublicationInv => SettledServed
    <2> SUFFICES ASSUME PublicationInv, ~late, NEW w \in Workers, NEW x \in settled,
                        NEW d \in Objects(x) \ taken, worker[w] = "serving"
                 PROVE  Served(w, d.digest) = {d}
      BY Zenon DEF SettledServed
    <2>1. d \in descriptors[w]
      BY Zenon DEF PublicationInv, SettledHeld
    <2>2. \A e \in descriptors[w] : e.digest = d.digest => e = d
      BY <2>1, Zenon DEF PublicationInv, Indexed, Sound, SoundIn
    <2> QED
      BY <2>1, <2>2, Zenon DEF Served
  <1> QED
    BY <1>1, PublicationInvariant, PTL
=============================================================================
