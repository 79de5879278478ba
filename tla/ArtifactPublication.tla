------------------------ MODULE ArtifactPublication ------------------------
(***************************************************************************)
(* From the outcome of an execution to a URL that leads to its objects: the *)
(* runner puts report and artifact into the store (pkg/artifactstore), an   *)
(* adapter publishes both through the locator (pkg/artifacthttp) and then   *)
(* settles (pkg/agentpacketadapter; the A2A and MCP adapters go the same    *)
(* way).  Workers (cmd/tos-messenger-event-worker) follow one another on    *)
(* one state root: the lock of the execution journal keeps the next one out *)
(* until the one before has released it, which is not yet when its calls    *)
(* have ended.                                                              *)
(*                                                                         *)
(* Of the runner there is what SoftwareWork shows of it, that it runs the   *)
(* work of an execution once and answers with the outcome of that run, and  *)
(* the two Puts it makes.  An adapter takes any Runner, and store and       *)
(* locator any bytes, so outcomes may share objects here; those of          *)
(* softwarework.Runner do not, as its report holds the execution ID.        *)
(***************************************************************************)
EXTENDS Naturals, DurableFile

CONSTANTS Executions,
          ReportOf,    \* ReportOf[x], ArtifactOf[x]: the descriptors in the outcome of x,
          ArtifactOf,  \* of digest and media type (the size goes with the digest)
          Workers,     \* worker processes
          Calls,
          WorkerOf,    \* WorkerOf[c]: the worker that serves call c
          Nobody,
          Faults,      \* what may happen, of "crash", "power", "disk"
          MaxFaults    \* bound: crashes, power losses and failed file calls

Objects(x) == {ReportOf[x], ArtifactOf[x]}
Descriptors == UNION {Objects(x) : x \in Executions}
Digests == {d.digest : d \in Descriptors}

ASSUME WorkerOfAssumption ==
  WorkerOf \in [Calls -> Workers] /\ Nobody \notin Calls \cup Executions
ASSUME BoundsAssumption == MaxFaults \in Nat

VARIABLES
  worker,       \* worker[w]: "down", "locked" (holds the journal's lock), "serving",
                \* "released" (the lock is given back, calls may be running)
  descriptors,  \* descriptors[w]: what the Locator of w has registered
  mutex,        \* mutex[w]: the call inside its mutex, or Nobody
  pc,           \* pc[c]: where call c is
  of,           \* of[c]: the execution it is for, or Nobody
  visible,      \* digests with an object in the store
  durable,      \* those whose directory entry is synced
  index,        \* the publication index file
  work,         \* work[x]: "new", "started", or "complete" in the execution journal
  settled,      \* executions that were settled
  cut,          \* an index whose write had failed is in place
  late,         \* an index was put in place by a worker that had released the lock
  adopted,      \* digests Put found there, put by a call that had not synced them
  taken,        \* descriptors OpenPersistent read from an index that was not synced
  faults

store == <<visible, durable, adopted>>
locator == <<descriptors, mutex>>
publication == <<index, cut, late, taken>>
vars == <<worker, locator, pc, of, store, publication, work, settled, faults>>

-----------------------------------------------------------------------------
(* Data *)

\* publicationIndex: its descriptors (sorted by digest in the file).
Index(D) == [kind |-> "index", descriptors |-> D]
IsIndex(r) == r.kind = "index"
Indexes == {Index(D) : D \in SUBSET Descriptors}

X(c) == of[c]
W(c) == WorkerOf[c]

Running == {"claimed", "putReport", "reportLinked", "putArtifact", "artifactLinked", "complete"}
Publishing == {"artifact", "artifactWriting", "artifactRenamed",
               "report", "reportWriting", "reportRenamed"}
Locked == {"artifactWriting", "artifactRenamed", "reportWriting", "reportRenamed"}

Init ==
  /\ worker = [w \in Workers |-> "down"]
  /\ descriptors = [w \in Workers |-> {}]
  /\ mutex = [w \in Workers |-> Nobody]
  /\ pc = [c \in Calls |-> "idle"] /\ of = [c \in Calls |-> Nobody]
  /\ visible = {} /\ durable = {} /\ adopted = {}
  /\ index = NoFile /\ cut = FALSE /\ late = FALSE /\ taken = {}
  /\ work = [x \in Executions |-> "new"] /\ settled = {}
  /\ faults = 0

-----------------------------------------------------------------------------
(* Workers *)

\* openWorker: OpenJournal takes the lock, or fails,
OpenJournal(w) ==
  /\ worker[w] = "down"
  /\ \A v \in Workers : worker[v] \notin {"locked", "serving"}
  /\ worker' = [worker EXCEPT ![w] = "locked"]
  /\ UNCHANGED <<locator, pc, of, store, publication, work, settled, faults>>

\* Store.Get of every entry.
Matches(D) == \A d \in D : d.digest \in visible

\* Mutant: the index is checked but not registered.
OpenForgets(w) ==
  /\ worker[w] = "locked"
  /\ IsIndex(index.seen) => Matches(index.seen.descriptors)
  /\ index.seen # Torn
  /\ descriptors' = [descriptors EXCEPT ![w] = {}]
  /\ worker' = [worker EXCEPT ![w] = "serving"]
  /\ UNCHANGED <<mutex, pc, of, store, publication, work, settled, faults>>

\* OpenPersistent: no index, or a readable one whose objects are all there.
OpenPersistent(w) ==
  /\ worker[w] = "locked"
  /\ \/ /\ index.seen = Absent
        /\ descriptors' = [descriptors EXCEPT ![w] = {}]
        /\ UNCHANGED taken
     \/ /\ IsIndex(index.seen) /\ Matches(index.seen.descriptors)
        /\ descriptors' = [descriptors EXCEPT ![w] = index.seen.descriptors]
        /\ taken' = taken \cup {d \in index.seen.descriptors : index.old # {}}
  /\ worker' = [worker EXCEPT ![w] = "serving"]
  /\ UNCHANGED <<mutex, pc, of, store, index, cut, late, work, settled, faults>>

\* Otherwise the worker does not start.
OpenRefused(w) ==
  /\ worker[w] = "locked"
  /\ index.seen = Torn \/ (IsIndex(index.seen) /\ ~Matches(index.seen.descriptors))
  /\ worker' = [worker EXCEPT ![w] = "down"]
  /\ UNCHANGED <<locator, pc, of, store, publication, work, settled, faults>>

\* worker.Run waits for two of its three components, so that Close may release the
\* journal while calls are running.
Release(w) ==
  /\ worker[w] = "serving"
  /\ worker' = [worker EXCEPT ![w] = "released"]
  /\ UNCHANGED <<locator, pc, of, store, publication, work, settled, faults>>

\* The workers U end with their calls.
Gone(U) ==
  /\ worker' = [w \in Workers |-> IF w \in U THEN "down" ELSE worker[w]]
  /\ descriptors' = [w \in Workers |-> IF w \in U THEN {} ELSE descriptors[w]]
  /\ mutex' = [w \in Workers |-> IF w \in U THEN Nobody ELSE mutex[w]]
  /\ pc' = [c \in Calls |-> IF W(c) \in U THEN "idle" ELSE pc[c]]
  /\ of' = [c \in Calls |-> IF W(c) \in U THEN Nobody ELSE of[c]]
  /\ UNCHANGED <<work, settled>>

\* main returns.
Exit(w) ==
  /\ worker[w] = "released"
  /\ Gone({w})
  /\ UNCHANGED <<store, publication, faults>>

Fault(kind) ==
  /\ kind \in Faults
  /\ faults < MaxFaults
  /\ faults' = faults + 1

Crash(w) ==
  /\ Fault("crash")
  /\ worker[w] # "down"
  /\ Gone({w})
  /\ UNCHANGED <<store, publication>>

PowerLoss ==
  /\ Fault("power")
  /\ Gone(Workers)
  /\ \E r \in Survivors(index) : index' = Settled(r)
  /\ \E lost \in SUBSET (visible \ durable) :
       visible' = visible \ lost /\ durable' = visible \ lost
  /\ UNCHANGED <<adopted, cut, late, taken>>

-----------------------------------------------------------------------------
(* A call: Adapter.Execute, with Runner.Execute *)

Goto(c, place) == pc' = [pc EXCEPT ![c] = place] /\ UNCHANGED of
Return(c) == pc' = [pc EXCEPT ![c] = "idle"] /\ of' = [of EXCEPT ![c] = Nobody]

\* A packet arrives that decodes and that the gate authorizes.
Begin(c, x) ==
  /\ pc[c] = "idle" /\ worker[W(c)] = "serving"
  /\ pc' = [pc EXCEPT ![c] = "claimed"]
  /\ of' = [of EXCEPT ![c] = x]
  /\ UNCHANGED <<worker, locator, store, publication, work, settled, faults>>

\* Runner.Execute runs the work, if nobody has,
Run(c) ==
  /\ pc[c] = "claimed"
  /\ work[X(c)] = "new"
  /\ work' = [work EXCEPT ![X(c)] = "started"]
  /\ Goto(c, "putReport")
  /\ UNCHANGED <<worker, locator, store, publication, settled, faults>>

\* answers with the outcome of the run before,
Replay(c) ==
  /\ pc[c] = "claimed"
  /\ work[X(c)] = "complete"
  /\ Goto(c, "artifact")
  /\ UNCHANGED <<worker, locator, store, publication, work, settled, faults>>

\* or fails: the work is running or was interrupted, or does not succeed, or the
\* settlement is refused.
Fails(c) ==
  /\ \/ pc[c] = "claimed" /\ work[X(c)] = "started"
     \/ pc[c] \in {"putReport", "settling"}
  /\ Return(c)
  /\ UNCHANGED <<worker, locator, store, publication, work, settled, faults>>

\* Store.Put: a synced temporary object is linked under its digest and the directory
\* synced; an object that is there is as good.
PutLink(c, from, d, linked, to) ==
  /\ pc[c] = from
  /\ \/ /\ d.digest \notin visible
        /\ visible' = visible \cup {d.digest}
        /\ Goto(c, linked)
        /\ UNCHANGED <<durable, adopted>>
     \/ /\ d.digest \in visible
        /\ adopted' = adopted \cup ({d.digest} \ durable)
        /\ Goto(c, to)
        /\ UNCHANGED <<visible, durable>>
  /\ UNCHANGED <<worker, locator, publication, work, settled, faults>>

\* Mutant: the object directory is not synced.
PutSkipsSync(c, linked, to) ==
  /\ pc[c] = linked
  /\ Goto(c, to)
  /\ UNCHANGED <<worker, locator, store, publication, work, settled, faults>>

PutSync(c, linked, to) ==
  /\ pc[c] = linked
  /\ durable' = visible /\ adopted' = adopted \ visible
  /\ Goto(c, to)
  /\ UNCHANGED <<worker, locator, visible, publication, work, settled, faults>>

Put(c) ==
  \/ PutLink(c, "putReport", ReportOf[X(c)], "reportLinked", "putArtifact")
  \/ PutSync(c, "reportLinked", "putArtifact")
  \/ PutLink(c, "putArtifact", ArtifactOf[X(c)], "artifactLinked", "complete")
  \/ PutSync(c, "artifactLinked", "complete")

\* Journal.Complete, and the answer.
Complete(c) ==
  /\ pc[c] = "complete"
  /\ work' = [work EXCEPT ![X(c)] = "complete"]
  /\ Goto(c, "artifact")
  /\ UNCHANGED <<worker, locator, store, publication, settled, faults>>

-----------------------------------------------------------------------------
(* Locator.ArtifactURL, for the artifact and then for the report *)

Free(c) == mutex[W(c)] = Nobody
Known(c) == descriptors[W(c)]
Conflicts(c, d) == \E e \in Known(c) : e.digest = d.digest /\ e # d

\* The object is in the store and its descriptor is registered.
PublishKnown(c, at, d, to) ==
  /\ pc[c] = at /\ Free(c)
  /\ d.digest \in visible
  /\ d \in Known(c)
  /\ Goto(c, to)
  /\ UNCHANGED <<worker, locator, store, publication, work, settled, faults>>

\* It is not, or the digest has another media type.
PublishRefused(c, at, d) ==
  /\ pc[c] = at /\ Free(c)
  /\ d.digest \notin visible \/ Conflicts(c, d)
  /\ Return(c)
  /\ UNCHANGED <<worker, locator, store, publication, work, settled, faults>>

\* A new descriptor: its index entry is written first.
PublishNew(c, at, d, writing) ==
  /\ pc[c] = at /\ Free(c)
  /\ d.digest \in visible /\ d \notin Known(c) /\ ~Conflicts(c, d)
  /\ mutex' = [mutex EXCEPT ![W(c)] = c]
  /\ Goto(c, writing)
  /\ UNCHANGED <<worker, descriptors, store, publication, work, settled, faults>>

\* writePublicationIndexLocked: all descriptors in a synced temporary file, renamed,
IndexRename(c, writing, d, renamed) ==
  /\ pc[c] = writing
  /\ index' = Replaced(index, Index(Known(c) \cup {d}))
  /\ late' = (late \/ worker[W(c)] = "released")
  /\ Goto(c, renamed)
  /\ UNCHANGED <<worker, locator, store, cut, taken, work, settled, faults>>

\* or what there is of it: the error of the chmod or the write goes to a variable of
\* its own scope and is not looked at.
IndexCut(c, writing, renamed) ==
  /\ pc[c] = writing
  /\ Fault("disk")
  /\ index' = Replaced(index, Torn)
  /\ cut' = TRUE
  /\ late' = (late \/ worker[W(c)] = "released")
  /\ Goto(c, renamed)
  /\ UNCHANGED <<worker, locator, store, taken, work, settled>>

\* Mutant: the directory is not synced.
IndexSkipsSync(c, renamed, d, to) ==
  /\ pc[c] = renamed
  /\ descriptors' = [descriptors EXCEPT ![W(c)] = @ \cup {d}]
  /\ mutex' = [mutex EXCEPT ![W(c)] = Nobody]
  /\ Goto(c, to)
  /\ UNCHANGED <<worker, store, publication, work, settled, faults>>

\* the directory synced; then the descriptor is registered and the URL returned.
IndexSync(c, renamed, d, to) ==
  /\ pc[c] = renamed
  /\ index' = DirSynced(index)
  /\ cut' = (index.seen = Torn)
  /\ taken' = taken \ {d}
  /\ descriptors' = [descriptors EXCEPT ![W(c)] = @ \cup {d}]
  /\ mutex' = [mutex EXCEPT ![W(c)] = Nobody]
  /\ Goto(c, to)
  /\ UNCHANGED <<worker, store, late, work, settled, faults>>

ArtifactURL(c, d, at, writing, renamed, to) ==
  \/ PublishKnown(c, at, d, to) \/ PublishRefused(c, at, d) \/ PublishNew(c, at, d, writing)
  \/ IndexRename(c, writing, d, renamed) \/ IndexCut(c, writing, renamed)
  \/ IndexSync(c, renamed, d, to)

Publish(c) ==
  \/ ArtifactURL(c, ArtifactOf[X(c)], "artifact", "artifactWriting", "artifactRenamed", "report")
  \/ ArtifactURL(c, ReportOf[X(c)], "report", "reportWriting", "reportRenamed", "settling")

\* A file call whose error is looked at fails: a Put, Complete, or the index before or
\* after its rename.
FileFails(c) ==
  /\ Fault("disk")
  /\ pc[c] \in (Running \ {"claimed"}) \cup Locked
  /\ mutex' = IF pc[c] \in Locked THEN [mutex EXCEPT ![W(c)] = Nobody] ELSE mutex
  /\ Return(c)
  /\ UNCHANGED <<worker, descriptors, store, publication, work, settled>>

\* Settler.Settle: both objects are published.
Settle(c) ==
  /\ pc[c] = "settling"
  /\ settled' = settled \cup {X(c)}
  /\ Return(c)
  /\ UNCHANGED <<worker, locator, store, publication, work, faults>>

-----------------------------------------------------------------------------

Next ==
  \/ \E w \in Workers :
       \/ OpenJournal(w) \/ OpenPersistent(w) \/ OpenRefused(w)
       \/ Release(w) \/ Exit(w) \/ Crash(w)
  \/ PowerLoss
  \/ \E c \in Calls :
       \/ \E x \in Executions : Begin(c, x)
       \/ Run(c) \/ Replay(c) \/ Fails(c) \/ FileFails(c) \/ Complete(c) \/ Settle(c)
       \/ (X(c) # Nobody /\ (Put(c) \/ Publish(c)))

Spec == Init /\ [][Next]_vars

-----------------------------------------------------------------------------
(* Properties *)

\* Every variable holds values of its kind; the mutex of a Locator is held by the call
\* that writes its index.
TypeOK ==
  /\ worker \in [Workers -> {"down", "locked", "serving", "released"}]
  /\ descriptors \in [Workers -> SUBSET Descriptors]
  /\ mutex \in [Workers -> Calls \cup {Nobody}]
  /\ pc \in [Calls -> {"idle", "settling"} \cup Running \cup Publishing]
  /\ of \in [Calls -> Executions \cup {Nobody}]
  /\ visible \subseteq Digests /\ durable \subseteq visible /\ adopted \subseteq Digests
  /\ index \in Files(Indexes) /\ cut \in BOOLEAN /\ late \in BOOLEAN
  /\ taken \subseteq Descriptors
  /\ work \in [Executions -> {"new", "started", "complete"}] /\ settled \subseteq Executions
  /\ faults \in 0..MaxFaults
  /\ \A c \in Calls : pc[c] \in Locked <=> mutex[W(c)] = c

Readable(f) == {f.seen} \cup Survivors(f)

\* What an execution was settled for stays retrievable: after any crash or power loss
\* the index names both its objects and the store has them ("Locator durably publishes
\* the two content-addressed objects").  Not so for an object or an
\* entry that was found unsynced, nor after an index that was cut, or that a worker
\* wrote which had released the lock.
SettledKept ==
  ~cut /\ ~late =>
    \A x \in settled : \A d \in Objects(x) \ taken :
      /\ \A r \in Readable(index) : IsIndex(r) /\ d \in r.descriptors
      /\ d.digest \in durable \cup adopted

\* A locator's Handler, asked for the digest: the registered media type.
Served(w, digest) == {d \in descriptors[w] : d.digest = digest}

\* Every worker that serves answers for what was settled, in whichever worker before
\* it, with the descriptor it was settled with and no other.
SettledServed ==
  ~late =>
    \A w \in Workers, x \in settled : \A d \in Objects(x) \ taken :
      worker[w] = "serving" => Served(w, d.digest) = {d}

\* A worker can start: the index, now or after a power loss, is readable and names only
\* objects the store has, unless it was cut or an object was found unsynced (one such
\* entry makes OpenPersistent, and so openWorker, fail).
IndexOpens ==
  ~cut => \A r \in Readable(index) :
    r = Absent \/ (IsIndex(r) /\ \A d \in r.descriptors : d.digest \in durable \cup adopted)

\* The index of what was settled stays readable ("published descriptor index survives
\* process restarts. The index is private, atomically replaced").
IndexSurvives == settled # {} => \A r \in Readable(index) : IsIndex(r)
=============================================================================
