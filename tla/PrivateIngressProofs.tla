------------------------ MODULE PrivateIngressProofs ------------------------
(***************************************************************************)
(* Proofs about PrivateIngress, for any handoffs, challenge bodies, uploads *)
(* and deletions, any sharing of contents and any number of faults.         *)
(***************************************************************************)
EXTENDS PrivateIngress, TLAPS

\* The time limits, in seconds, of the leaves that name no prover.
USE SMTT(30), ZenonT(20)

-----------------------------------------------------------------------------
(* The inductive invariant. *)

AcceptCalls == [op : {"accept"}, h : Handoffs, of : Challenges, upload : Uploads,
                bytes : {"synced", "found"}]

Creating == {"created", "written", "synced"}
StoringObject == {"objectCreated", "objectWritten", "objectSynced"}

\* Which call is at which place, and with which arguments.
Placed ==
  /\ pc \in {"none", "idle"} => call = Idle
  /\ pc \notin {"none", "idle"} => call.op \in {"issue", "accept", "delete"} /\ call.h \in Handoffs
  /\ pc \in Creating => call.op = "issue"
  /\ pc \in {"storing"} \cup StoringObject => call.op = "accept"
  /\ pc \in {"removing", "removed"} => call.op = "delete"
  /\ pc \in {"replacing", "renamed"} => call.op \in {"accept", "delete"}
  /\ call.op = "issue" => call.terms \in Terms[call.h]
  /\ call.op = "accept" => call \in AcceptCalls /\ call.of.h = call.h
  /\ call.op = "delete" =>
       call.of \in Challenges /\ call.of.h = call.h /\ call.deletion \in Deletions
  /\ pc = "locked" /\ call.op = "issue" => Seen(call.h) # Absent \/ keys[call.h] < MaxKeys

\* The files between steps: a record with an upload was synced before it was renamed
\* into place, and a deletion is of an upload.
RecordFileOK(f) ==
  /\ f.seen \in f.data
  /\ IsRecord(f.seen) /\ f.seen.upload # None => f.data = {f.seen}
  /\ \A r \in Readable(f) : IsRecord(r) /\ r.state # "kept" => r.upload # None

ObjectFileOK(f) == f.seen = Absent => f.data = {Absent}

FilesOK ==
  /\ \A h \in Handoffs : RecordFileOK(challenge[h])
  /\ \A c \in Contents : ObjectFileOK(object[c])

\* The record that the running call writes, and the one it read.
Writing ==
  /\ pc \in Creating =>
       /\ Absent \in challenge[call.h].old
       /\ entry \in Records /\ entry.upload = None /\ entry.state = "kept"
  /\ pc \in {"storing", "replacing", "removing", "removed", "renamed"} \cup StoringObject =>
       /\ entry \in Records /\ Challenge(call.h, entry) = call.of
       /\ IsRecord(Seen(call.h)) /\ Challenge(call.h, Seen(call.h)) = call.of
       /\ call.op = "accept" => entry.upload = call.upload /\ entry.state = "kept"
       /\ call.op = "delete" =>
            /\ entry.upload # None /\ Seen(call.h).upload = entry.upload
            /\ entry.state \in {"deleting", "deleted"}
       /\ call.op = "accept" /\ pc # "renamed" => Seen(call.h).upload = None
       /\ pc \in {"removing", "removed", "renamed"} => Seen(call.h) = entry
       /\ pc \in {"removing", "removed"} => entry.state = "deleting"

\* How far the object is.
StoringBytes ==
  /\ pc \in StoringObject =>
       [h |-> call.h, c |-> Content] \in stored /\ Absent \in object[Content].old
  /\ pc \in {"objectWritten", "objectSynced"} => object[Content].seen = Bytes(Content)
  /\ pc = "objectSynced" => object[Content].data = {Bytes(Content)}
  /\ pc \in {"replacing", "renamed"} /\ call.op = "accept" /\ call.bytes = "synced" =>
       Readable(object[Content]) = {Bytes(Content)}
  /\ pc = "removing" /\ Content \notin resumed => Survivors(challenge[call.h]) = {entry}
  /\ pc = "removed" => object[Content].seen = Absent

\* The deletion of h is settled: no record without it can come back, and the bytes are
\* there only if another handoff delivered them.
Finished(h, c) ==
  /\ \A r \in Readable(challenge[h]) :
       IsRecord(r) /\ r.state # "kept" /\ r.upload # None /\ ContentOf[r.upload] = c
  /\ Bytes(c) \in Readable(object[c]) => \E s \in stored : s.c = c /\ s.h # h

\* So it is for every record that says so, readable or about to be written, and for
\* every deletion that was reported terminal.
Settledness ==
  /\ \A d \in resolved : Finished(d.h, d.c)
  /\ \A h \in Handoffs : \A r \in Readable(challenge[h]) :
       IsRecord(r) /\ r.state = "deleted" => Finished(h, ContentOf[r.upload])
  /\ pc \in {"replacing", "renamed"} /\ call.op = "delete" /\ entry.state = "deleted" =>
       Finished(call.h, ContentOf[entry.upload])

IngressInv ==
  /\ TypeOK /\ Placed /\ FilesOK /\ Writing /\ StoringBytes
  /\ AcceptedKept /\ KeptUntilJournaled /\ Settledness

-----------------------------------------------------------------------------
(* Records, contents and files. *)

\* The file operators of DurableFile keep the type of a file.
LEMMA FileTypes ==
  ASSUME NEW R, NEW f \in Files(R), NEW r \in R
  PROVE  /\ NoFile \in Files(R)
         /\ Created(f) \in Files(R)
         /\ Written(f, r) \in Files(R)
         /\ Synced(f) \in Files(R)
         /\ DirSynced(f) \in Files(R)
         /\ Removed(f) \in Files(R)
         /\ Replaced(f, r) \in Files(R)
  BY Zenon DEF Files, NoFile, Created, Written, Synced, DirSynced, Removed, Replaced, Survivors,
         Absent, Torn

\* So does a power loss.
LEMMA SettledType ==
  ASSUME NEW R, NEW f \in Files(R), NEW c \in Survivors(f)
  PROVE  Settled(c) \in Files(R)
  BY Zenon DEF Files, Settled, Survivors

\* A file holds a record, nothing, or something unreadable.
LEMMA RecordMeans ==
  /\ ~IsRecord(Absent) /\ ~IsRecord(Torn)
  /\ \A r \in Records : /\ IsRecord(r) /\ r.terms \in Bodies /\ r.key \in 1..MaxKeys
                        /\ r.upload \in Uploads \cup {None} /\ r.deletion \in Deletions \cup {None}
                        /\ r.state \in {"kept", "deleting", "deleted"}
  /\ Absent \notin Records /\ Torn \notin Records
  BY Zenon DEF IsRecord, Records, Absent, Torn

LEMMA ObjectMeans ==
  /\ \A c \in Contents : Bytes(c) \in Objects
  /\ \A c : Bytes(c) # Absent /\ Bytes(c) # Torn
  /\ \A c, d : Bytes(c) = Bytes(d) => c = d
  <1>1. \A c : Bytes(c).kind = "bytes" /\ Bytes(c).of = c
    BY Zenon DEF Bytes
  <1>2. Absent.kind = "absent" /\ Torn.kind = "torn"
    BY Zenon DEF Absent, Torn
  <1>3. \A c \in Contents : Bytes(c) \in Objects
    BY Zenon DEF Objects
  <1> QED
    BY <1>1, <1>2, <1>3

\* What the file operations leave to be found.
LEMMA ReadableAfter ==
  ASSUME NEW f, NEW r
  PROVE  /\ Readable(Created(f)) \subseteq {Torn} \cup Readable(f)
         /\ Created(f).seen = Torn /\ Created(f).data = {Torn} /\ Created(f).old = Survivors(f)
         /\ Readable(Written(f, r)) \subseteq {r} \cup Readable(f)
         /\ Written(f, r).seen = r /\ Written(f, r).data = f.data \cup {r} /\ Written(f, r).old = f.old
         /\ Readable(Synced(f)) \subseteq Readable(f)
         /\ Synced(f).seen = f.seen /\ Synced(f).data = {f.seen} /\ Synced(f).old = f.old
         /\ Readable(Removed(f)) \subseteq {Absent} \cup Readable(f)
         /\ Removed(f).seen = Absent /\ Removed(f).data = {Absent}
         /\ Readable(Replaced(f, r)) \subseteq {r} \cup Readable(f)
         /\ Replaced(f, r).seen = r /\ Replaced(f, r).data = {r}
  BY Zenon DEF Readable, Created, Written, Synced, Removed, Replaced, Survivors

LEMMA ReadableLess ==
  ASSUME NEW f, NEW r
  PROVE  /\ Readable(DirSynced(f)) \subseteq Readable(f) /\ Survivors(DirSynced(f)) \subseteq Survivors(f)
         /\ DirSynced(f).seen = f.seen /\ DirSynced(f).data = f.data /\ DirSynced(f).old = {}
         /\ Readable(Settled(r)) = {r} /\ Survivors(Settled(r)) = {r}
         /\ Settled(r).seen = r /\ Settled(r).data = {r} /\ Settled(r).old = {}
         /\ f.seen \in Readable(f) /\ Survivors(f) \subseteq Readable(f)
         /\ f.data \subseteq Readable(f) /\ f.data \subseteq Survivors(f) /\ f.old \subseteq Readable(f)
  BY Zenon DEF Readable, DirSynced, Settled, Survivors

\* The content of the running call is that of the upload in the record it writes.
LEMMA ContentMeans ==
  ASSUME IngressInv,
         pc \in {"storing", "replacing", "removing", "removed", "renamed"} \cup StoringObject
  PROVE  /\ entry \in Records /\ entry.upload \in Uploads
         /\ Content = ContentOf[entry.upload] /\ Content \in Contents /\ call.h \in Handoffs
  <1>1. /\ entry \in Records /\ call.h \in Handoffs /\ call.op \in {"accept", "delete"}
        /\ call.op = "accept" => entry.upload = call.upload
        /\ call.op = "delete" => entry.upload # None
    BY Zenon DEF IngressInv, Writing, Placed, StoringObject
  <1>2. call.op = "accept" => call.upload \in Uploads
    BY Zenon DEF IngressInv, Placed, AcceptCalls
  <1>3. entry.upload \in Uploads
    BY <1>1, <1>2, RecordMeans, Zenon
  <1> QED
    BY <1>1, <1>3, Zenon DEF Content, Contents

\* What the record of the running call is when findChallenge finds it.
LEMMA FoundMeans ==
  ASSUME IngressInv, call.h \in Handoffs, IsRecord(Seen(call.h))
  PROVE  Seen(call.h) \in Records /\ (Found => Challenge(call.h, Seen(call.h)) = call.of)
  <1>1. challenge[call.h].seen \in Records \cup {Absent, Torn}
    BY Zenon DEF IngressInv, TypeOK, Files
  <1> QED
    BY <1>1, RecordMeans, Zenon DEF Seen, Found

-----------------------------------------------------------------------------
(* How the control moves. *)

\* The call returns, or the process is gone.
Ends == pc' \in {"idle", "none"} /\ call' = Idle /\ entry' = Absent

\* The call goes on from one place to the next.
GoesOn ==
  /\ call' = call
  /\ \/ pc = "none" /\ pc' = "idle" /\ Open
     \/ pc = "idle" /\ pc' = "none" /\ Close
     \/ pc = "locked" /\ call.op = "issue" /\ pc' = "created" /\ IssueCreate
     \/ pc = "created" /\ pc' = "written" /\ CreateWrite
     \/ pc = "written" /\ pc' = "synced" /\ CreateSync
     \/ pc = "locked" /\ call.op = "accept" /\ pc' = "storing" /\ AcceptBegin
     \/ pc = "storing" /\ pc' = "objectCreated" /\ StoreCreate
     \/ pc = "objectCreated" /\ pc' = "objectWritten" /\ StoreWrite
     \/ pc = "objectWritten" /\ pc' = "objectSynced" /\ StoreSync
     \/ pc = "objectSynced" /\ pc' = "replacing" /\ StoreSyncDirectory
     \/ pc = "locked" /\ call.op = "delete" /\ pc' = "replacing" /\ DeleteBegin
     \/ pc = "locked" /\ call.op = "delete" /\ pc' = "removing" /\ DeleteResume
     \/ pc = "removing" /\ pc' = "removed" /\ DeleteRemove
     \/ pc = "removed" /\ pc' = "replacing" /\ DeleteSync
     \/ pc = "replacing" /\ pc' = "renamed" /\ ReplaceRename
     \/ pc = "renamed" /\ call.op = "delete" /\ entry.state = "deleting" /\ pc' = "removing" /\ entry' = entry
        /\ ReplaceSync

\* Accept goes on with bytes that it found.
GoesOnFound ==
  /\ pc \in {"storing", "objectWritten", "objectSynced"} /\ StoreFound
  /\ UNCHANGED <<challenge, object, keys, issued, accepted, resumed, resolved>>

LEMMA ControlStep ==
  ASSUME [Next]_vars
  PROVE  Ends \/ Begin \/ GoesOn \/ GoesOnFound \/ UNCHANGED vars
  <1>1. CASE IssueChallenge
    <2>1. CASE IssueAgain \/ CreateSyncDirectory
      BY <2>1, Zenon DEF IssueAgain, CreateSyncDirectory, Return, Ends
    <2>2. CASE IssueCreate \/ CreateWrite \/ CreateSync
      BY <2>2, Zenon DEF IssueCreate, CreateWrite, CreateSync, GoesOn
    <2> QED
      BY <1>1, <2>1, <2>2, Zenon DEF IssueChallenge
  <1>2. CASE AcceptUpload
    <2>1. CASE AcceptAgain
      BY <2>1, Zenon DEF AcceptAgain, Return, Ends
    <2>2. CASE AcceptBegin \/ StoreCreate \/ StoreWrite
      BY <2>2, ZenonT(60) DEF AcceptBegin, StoreCreate, StoreWrite, GoesOn
    <2>3. CASE StoreSync \/ StoreSyncDirectory
      BY <2>3, Zenon DEF StoreSync, StoreSyncDirectory, GoesOn
    <2>4. CASE StoreExists
      BY <2>4, Zenon DEF StoreExists, Return, Ends, GoesOnFound, files
    <2> QED
      BY <1>2, <2>1, <2>2, <2>3, <2>4, Zenon DEF AcceptUpload
  <1>3. CASE DeleteContent
    <2>1. CASE DeleteAgain
      BY <2>1, Zenon DEF DeleteAgain, Return, Ends
    <2>2. CASE DeleteBegin \/ DeleteResume
      BY <2>2, Zenon DEF DeleteBegin, DeleteResume, Deletable, GoesOn
    <2>3. CASE DeleteRemove \/ DeleteSync
      BY <2>3, Zenon DEF DeleteRemove, DeleteSync, GoesOn
    <2> QED
      BY <1>3, <2>1, <2>2, <2>3, Zenon DEF DeleteContent
  <1>4. CASE Replace
    <2>1. CASE ReplaceRename
      BY <2>1, Zenon DEF ReplaceRename, GoesOn
    <2>2. CASE ReplaceSync
      <3>1. CASE call.op = "delete" /\ entry.state = "deleting" /\ pc' = "removing" /\ UNCHANGED <<call, entry>>
        BY <2>2, <3>1, Zenon DEF ReplaceSync, GoesOn
      <3>2. CASE Return
        BY <3>2, Zenon DEF Return, Ends
      <3> QED
        BY <2>2, <3>1, <3>2, Zenon DEF ReplaceSync, Replacing
    <2> QED
      BY <1>4, <2>1, <2>2, Zenon DEF Replace
  <1>5. CASE Open \/ Close
    BY <1>5, Zenon DEF Open, Close, GoesOn
  <1>6. CASE Refuse \/ Crash \/ PowerLoss
    BY <1>6, Zenon DEF Refuse, Crash, PowerLoss, Return, Gone, Ends
  <1>7. CASE FileFails
    <2>1. CASE Return
      BY <2>1, Zenon DEF Return, Ends
    <2>2. CASE pc \in {"objectWritten", "objectSynced"} /\ StoreFound /\ UNCHANGED issued
      <3>1. pc \in {"storing", "objectWritten", "objectSynced"}
        BY <2>2, Zenon
      <3> QED
        BY <1>7, <2>2, <3>1, Zenon DEF FileFails, GoesOnFound, files
    <2> QED
      BY <1>7, <2>1, <2>2, Zenon DEF FileFails
  <1> QED
    BY <1>1, <1>2, <1>3, <1>4, <1>5, <1>6, <1>7, Zenon DEF Next

\* What Begin starts.
LEMMA BeginMeans ==
  ASSUME IngressInv, Begin
  PROVE  /\ pc = "idle" /\ pc' = "locked" /\ UNCHANGED <<entry, files, keys, history>>
         /\ call'.op \in {"issue", "accept", "delete"} /\ call'.h \in Handoffs
         /\ call'.op = "issue" => /\ call'.terms \in Terms[call'.h]
                                  /\ Seen(call'.h) # Absent \/ keys[call'.h] < MaxKeys
         /\ call'.op = "accept" => call' \in AcceptCalls /\ call'.of.h = call'.h
         /\ call'.op = "delete" =>
              call'.of \in Challenges /\ call'.of.h = call'.h /\ call'.deletion \in Deletions
  <1>1. pc = "idle" /\ pc' = "locked" /\ UNCHANGED <<entry, files, keys, history>>
    BY Zenon DEF Begin
  <1>2. issued \subseteq Challenges
    BY Zenon DEF IngressInv, TypeOK
  <1>3. \A ch \in Challenges : ch.h \in Handoffs
    BY Zenon DEF Challenges
  <1>4. ASSUME NEW h \in Handoffs, NEW t \in Terms[h], Seen(h) # Absent \/ keys[h] < MaxKeys,
               call' = Issue(h, t)
        PROVE  /\ call'.op = "issue" /\ call'.h \in Handoffs /\ call'.terms \in Terms[call'.h]
               /\ Seen(call'.h) # Absent \/ keys[call'.h] < MaxKeys
    BY <1>4, Zenon DEF Issue
  <1>5. ASSUME NEW ch \in issued, NEW u \in Uploads, call' = Accept(ch, u)
        PROVE  call'.op = "accept" /\ call' \in AcceptCalls /\ call'.of.h = call'.h
    BY <1>2, <1>3, <1>5, Zenon DEF Accept, AcceptCalls
  <1>6. ASSUME NEW ch \in issued, NEW d \in Deletions, call' = Delete(ch, d)
        PROVE  /\ call'.op = "delete" /\ call'.of \in Challenges /\ call'.of.h = call'.h
               /\ call'.deletion \in Deletions /\ call'.h \in Handoffs
    BY <1>2, <1>3, <1>6, Zenon DEF Delete
  <1>7. \/ \E h \in Handoffs : \E t \in Terms[h] :
             (Seen(h) # Absent \/ keys[h] < MaxKeys) /\ call' = Issue(h, t)
        \/ \E ch \in issued, u \in Uploads : call' = Accept(ch, u)
        \/ \E ch \in issued, d \in Deletions : call' = Delete(ch, d)
    BY Zenon DEF Begin
  <1>8. CASE \E h \in Handoffs : \E t \in Terms[h] :
               (Seen(h) # Absent \/ keys[h] < MaxKeys) /\ call' = Issue(h, t)
    BY <1>1, <1>4, <1>8, Zenon
  <1>9. CASE \E ch \in issued, u \in Uploads : call' = Accept(ch, u)
    <2>1. call'.op = "accept" /\ call' \in AcceptCalls /\ call'.of.h = call'.h
      BY <1>5, <1>9, Zenon
    <2> QED
      BY <1>1, <2>1, Zenon DEF AcceptCalls
  <1>10. CASE \E ch \in issued, d \in Deletions : call' = Delete(ch, d)
    BY <1>1, <1>6, <1>10, Zenon
  <1> QED
    BY <1>7, <1>8, <1>9, <1>10, Zenon

LEMMA IdleMeans == Idle.op = "none"
  BY Zenon DEF Idle

\* The arguments of a call that found its bytes.
LEMMA FoundBytesMeans ==
  ASSUME IngressInv, GoesOnFound
  PROVE  /\ pc \in {"storing", "objectWritten", "objectSynced"} /\ pc' = "replacing" /\ entry' = entry
         /\ call.op = "accept" /\ call \in AcceptCalls /\ call' \in AcceptCalls
         /\ call'.op = "accept" /\ call'.h = call.h /\ call'.of = call.of /\ call'.upload = call.upload
         /\ call'.bytes = "found" /\ call.of.h = call.h
         /\ stored' = stored \cup {[h |-> call.h, c |-> Content]}
         /\ UNCHANGED <<challenge, object, keys, issued, accepted, resumed, resolved>>
  <1>1. /\ pc \in {"storing", "objectWritten", "objectSynced"} /\ pc' = "replacing" /\ entry' = entry
        /\ call' = [call EXCEPT !.bytes = "found"]
        /\ stored' = stored \cup {[h |-> call.h, c |-> Content]}
        /\ UNCHANGED <<challenge, object, keys, issued, accepted, resumed, resolved>>
    BY Zenon DEF GoesOnFound, StoreFound, Stored
  <1>2. call.op = "accept" /\ call \in AcceptCalls /\ call.of.h = call.h
    BY <1>1, Zenon DEF IngressInv, Placed, StoringObject
  <1>3. /\ call' \in AcceptCalls /\ call'.op = "accept" /\ call'.h = call.h /\ call'.of = call.of
        /\ call'.upload = call.upload /\ call'.bytes = "found"
    BY <1>1, <1>2, Zenon DEF AcceptCalls
  <1> QED
    BY <1>1, <1>2, <1>3, Zenon

LEMMA PlacedStep ==
  ASSUME IngressInv, [Next]_vars
  PROVE  Placed'
  <1>1. Placed
    BY Zenon DEF IngressInv
  <1>2. CASE Ends
    BY <1>2, IdleMeans, Zenon DEF Ends, Placed, Creating, StoringObject
  <1>3. CASE Begin
    <2>1. Seen(call.h)' = Seen(call'.h) /\ keys' = keys
      BY <1>3, Zenon DEF Begin, Seen, files
    <2> QED
      BY <1>3, <2>1, BeginMeans, Zenon DEF Placed, Creating, StoringObject
  <1>4. CASE GoesOn
    BY <1>1, <1>4, Zenon DEF GoesOn, Placed, Creating, StoringObject
  <1>5. CASE GoesOnFound
    BY <1>5, FoundBytesMeans, Zenon DEF Placed, Creating, StoringObject, AcceptCalls
  <1>6. CASE UNCHANGED vars
    BY <1>1, <1>6, Zenon DEF vars, Placed, Seen
  <1> QED
    BY <1>2, <1>3, <1>4, <1>5, <1>6, ControlStep, Zenon

-----------------------------------------------------------------------------
(* How the files change. *)

RecordChange(h) ==
  \/ challenge'[h] = challenge[h]
  \/ challenge'[h] = DirSynced(challenge[h])
  \/ pc' = "none" /\ \E r \in Survivors(challenge[h]) : challenge'[h] = Settled(r)
  \/ h = call.h /\ IssueCreate /\ challenge'[h] = Created(challenge[h])
  \/ h = call.h /\ CreateWrite /\ challenge'[h] = Written(challenge[h], entry)
  \/ h = call.h /\ CreateSync /\ challenge'[h] = Synced(challenge[h])
  \/ h = call.h /\ ReplaceRename /\ challenge'[h] = Replaced(challenge[h], entry)

ObjectChange(c) ==
  \/ object'[c] = object[c]
  \/ object'[c] = DirSynced(object[c])
  \/ pc' = "none" /\ \E r \in Survivors(object[c]) : object'[c] = Settled(r)
  \/ c = Content /\ StoreCreate /\ object'[c] = Created(object[c])
  \/ c = Content /\ StoreWrite /\ object'[c] = Written(object[c], Bytes(c))
  \/ c = Content /\ StoreSync /\ object'[c] = Synced(object[c])
  \/ c = Content /\ DeleteRemove /\ object'[c] = Removed(object[c])

\* Every step changes the record files in one of these ways.
LEMMA RecordsStep ==
  ASSUME IngressInv, [Next]_vars
  PROVE  challenge' \in [Handoffs -> Files(Records)] /\ \A h \in Handoffs : RecordChange(h)
  <1>1. challenge \in [Handoffs -> Files(Records)]
    BY Zenon DEF IngressInv, TypeOK
  <1>2. CASE challenge' = challenge
    BY <1>1, <1>2, Zenon DEF RecordChange
  <1>3. CASE DirectorySynced
    <2>1. challenge' = [h \in Handoffs |-> DirSynced(challenge[h])]
      BY <1>3, Zenon DEF DirectorySynced
    <2>2. \A h \in Handoffs : DirSynced(challenge[h]) \in Files(Records)
      BY <1>1, Zenon DEF Files, DirSynced
    <2> QED
      BY <2>1, <2>2, Zenon DEF RecordChange
  <1>4. CASE PowerLoss
    <2>1. PICK kept : /\ \A h \in Handoffs : kept[h] \in Survivors(challenge[h])
                      /\ challenge' = [h \in Handoffs |-> Settled(kept[h])]
      BY <1>4, Zenon DEF PowerLoss
    <2>2. \A h \in Handoffs : Settled(kept[h]) \in Files(Records)
      BY <1>1, <2>1, SettledType, Zenon
    <2>3. pc' = "none"
      BY <1>4, Zenon DEF PowerLoss, Gone
    <2>4. challenge' \in [Handoffs -> Files(Records)]
      BY <2>1, <2>2, Zenon
    <2>5. \A h \in Handoffs : challenge'[h] = Settled(kept[h])
      BY <2>1, Zenon
    <2> QED
      BY <2>1, <2>3, <2>4, <2>5, Zenon DEF RecordChange
  <1>5. ASSUME NEW f \in Files(Records), call.h \in Handoffs, challenge' = [challenge EXCEPT ![call.h] = f]
        PROVE  /\ challenge' \in [Handoffs -> Files(Records)] /\ challenge'[call.h] = f
               /\ \A h \in Handoffs : h # call.h => challenge'[h] = challenge[h]
    BY <1>1, <1>5, Zenon
  <1>6. CASE IssueCreate
    <2>1. call.h \in Handoffs /\ challenge' = [challenge EXCEPT ![call.h] = Created(challenge[call.h])]
      BY <1>6, Zenon DEF IssueCreate, IngressInv, Placed
    <2>2. Created(challenge[call.h]) \in Files(Records)
      BY <1>1, <2>1, Zenon DEF Files, Created, Survivors
    <2> QED
      BY <1>5, <1>6, <2>1, <2>2, Zenon DEF RecordChange
  <1>7. CASE CreateWrite
    <2>1. /\ call.h \in Handoffs /\ entry \in Records
          /\ challenge' = [challenge EXCEPT ![call.h] = Written(challenge[call.h], entry)]
      BY <1>7, Zenon DEF CreateWrite, IngressInv, Placed, Writing, Creating
    <2>2. Written(challenge[call.h], entry) \in Files(Records)
      BY <1>1, <2>1, FileTypes, Zenon
    <2> QED
      BY <1>5, <1>7, <2>1, <2>2, Zenon DEF RecordChange
  <1>8. CASE CreateSync
    <2>1. call.h \in Handoffs /\ challenge' = [challenge EXCEPT ![call.h] = Synced(challenge[call.h])]
      BY <1>8, Zenon DEF CreateSync, IngressInv, Placed
    <2>2. Synced(challenge[call.h]) \in Files(Records)
      BY <1>1, <2>1 DEF Files, Synced
    <2> QED
      BY <1>5, <1>8, <2>1, <2>2, Zenon DEF RecordChange
  <1>9. CASE ReplaceRename
    <2>1. /\ call.h \in Handoffs /\ entry \in Records
          /\ challenge' = [challenge EXCEPT ![call.h] = Replaced(challenge[call.h], entry)]
      BY <1>9, ContentMeans, Zenon DEF ReplaceRename
    <2>2. Replaced(challenge[call.h], entry) \in Files(Records)
      BY <1>1, <2>1, FileTypes, Zenon
    <2> QED
      BY <1>5, <1>9, <2>1, <2>2, Zenon DEF RecordChange
  <1>10. \/ challenge' = challenge \/ DirectorySynced \/ PowerLoss
         \/ IssueCreate \/ CreateWrite \/ CreateSync \/ ReplaceRename
    BY Zenon DEF Next, vars, files, Open, Close, Begin, Refuse, IssueChallenge, IssueAgain, CreateSyncDirectory,
       AcceptUpload, AcceptAgain, AcceptBegin, StoreCreate, StoreWrite, StoreSync, StoreSyncDirectory, StoreExists,
       DeleteContent, DeleteAgain, DeleteBegin, DeleteResume, DeleteRemove, DeleteSync,
       Replace, ReplaceSync, FileFails, Crash
  <1> QED
    BY <1>2, <1>3, <1>4, <1>6, <1>7, <1>8, <1>9, <1>10, Zenon

\* And the objects in one of these.
LEMMA ObjectsStep ==
  ASSUME IngressInv, [Next]_vars
  PROVE  object' \in [Contents -> Files(Objects)] /\ \A c \in Contents : ObjectChange(c)
  <1>1. object \in [Contents -> Files(Objects)]
    BY Zenon DEF IngressInv, TypeOK
  <1>2. CASE object' = object
    BY <1>1, <1>2, Zenon DEF ObjectChange
  <1>3. CASE DirectorySynced
    <2>1. object' = [c \in Contents |-> DirSynced(object[c])]
      BY <1>3, Zenon DEF DirectorySynced
    <2>2. \A c \in Contents : DirSynced(object[c]) \in Files(Objects)
      BY <1>1, Zenon DEF Files, DirSynced
    <2> QED
      BY <2>1, <2>2, Zenon DEF ObjectChange
  <1>4. CASE PowerLoss
    <2>1. PICK kept : /\ \A c \in Contents : kept[c] \in Survivors(object[c])
                      /\ object' = [c \in Contents |-> Settled(kept[c])]
      BY <1>4, Zenon DEF PowerLoss
    <2>2. \A c \in Contents : Settled(kept[c]) \in Files(Objects)
      BY <1>1, <2>1, SettledType, Zenon
    <2>3. pc' = "none"
      BY <1>4, Zenon DEF PowerLoss, Gone
    <2>4. object' \in [Contents -> Files(Objects)]
      BY <2>1, <2>2, Zenon
    <2>5. \A c \in Contents : object'[c] = Settled(kept[c])
      BY <2>1, Zenon
    <2> QED
      BY <2>1, <2>3, <2>4, <2>5, Zenon DEF ObjectChange
  <1>5. ASSUME NEW f \in Files(Objects), Content \in Contents, object' = [object EXCEPT ![Content] = f]
        PROVE  /\ object' \in [Contents -> Files(Objects)] /\ object'[Content] = f
               /\ \A c \in Contents : c # Content => object'[c] = object[c]
    <2> HIDE DEF Content
    <2> QED
      BY <1>1, <1>5, Zenon
  <1>6. ASSUME pc \in {"storing", "objectCreated", "objectWritten", "removing"}
        PROVE  /\ Content \in Contents /\ Bytes(Content) \in Objects
               /\ Created(object[Content]) \in Files(Objects)
               /\ Written(object[Content], Bytes(Content)) \in Files(Objects)
               /\ Synced(object[Content]) \in Files(Objects)
               /\ Removed(object[Content]) \in Files(Objects)
    <2>1. Content \in Contents /\ Bytes(Content) \in Objects
      BY <1>6, ContentMeans, ObjectMeans, Zenon DEF StoringObject
    <2> QED
      BY <1>1, <2>1, FileTypes, Zenon
  <1>7. CASE StoreCreate
    <2>1. pc = "storing" /\ object' = [object EXCEPT ![Content] = Created(object[Content])]
      BY <1>7, Zenon DEF StoreCreate
    <2> QED
      BY <1>5, <1>6, <1>7, <2>1, Zenon DEF ObjectChange
  <1>8. CASE StoreWrite
    <2>1. pc = "objectCreated" /\ object' = [object EXCEPT ![Content] = Written(object[Content], Bytes(Content))]
      BY <1>8, Zenon DEF StoreWrite
    <2> QED
      BY <1>5, <1>6, <1>8, <2>1, Zenon DEF ObjectChange
  <1>9. CASE StoreSync
    <2>1. pc = "objectWritten" /\ object' = [object EXCEPT ![Content] = Synced(object[Content])]
      BY <1>9, Zenon DEF StoreSync
    <2> QED
      BY <1>5, <1>6, <1>9, <2>1, Zenon DEF ObjectChange
  <1>10. CASE DeleteRemove
    <2>1. /\ pc = "removing"
          /\ object' = object \/ object' = [object EXCEPT ![Content] = Removed(object[Content])]
      BY <1>10, Zenon DEF DeleteRemove
    <2> QED
      BY <1>2, <1>5, <1>6, <1>10, <2>1, Zenon DEF ObjectChange
  <1>11. \/ object' = object \/ DirectorySynced \/ PowerLoss
         \/ StoreCreate \/ StoreWrite \/ StoreSync \/ DeleteRemove
    BY Zenon DEF Next, vars, files, Open, Close, Begin, Refuse, IssueChallenge, IssueAgain, IssueCreate, CreateWrite,
       CreateSync, CreateSyncDirectory,
       AcceptUpload, AcceptAgain, AcceptBegin, StoreSyncDirectory, StoreExists,
       DeleteContent, DeleteAgain, DeleteBegin, DeleteResume, DeleteSync,
       Replace, ReplaceRename, ReplaceSync, FileFails, Crash
  <1> QED
    BY <1>2, <1>3, <1>4, <1>7, <1>8, <1>9, <1>10, <1>11, Zenon

-----------------------------------------------------------------------------
(* The records that the calls write. *)

LEMMA IssueCreateMeans ==
  ASSUME IngressInv, IssueCreate
  PROVE  /\ entry' \in Records /\ entry'.upload = None /\ entry'.state = "kept"
         /\ keys' \in [Handoffs -> 0..MaxKeys]
         /\ call.h \in Handoffs /\ Absent \in Survivors(challenge[call.h]) /\ Seen(call.h) = Absent
  <1>1. /\ pc = "locked" /\ call.op = "issue" /\ Seen(call.h) = Absent
        /\ keys' = [keys EXCEPT ![call.h] = keys[call.h] + 1]
        /\ entry' = Record(call.terms, keys[call.h] + 1)
    BY Zenon DEF IssueCreate
  <1>2. call.h \in Handoffs /\ call.terms \in Terms[call.h] /\ keys[call.h] < MaxKeys
    BY <1>1, Zenon DEF IngressInv, Placed
  <1>3. keys \in [Handoffs -> 0..MaxKeys]
    BY Zenon DEF IngressInv, TypeOK
  <1>4. keys[call.h] + 1 \in 1..MaxKeys /\ keys[call.h] + 1 \in 0..MaxKeys
    BY <1>2, <1>3, BoundsAssumption
  <1>5. call.terms \in Bodies
    BY <1>2, Zenon DEF Bodies
  <1>6. Absent \in Survivors(challenge[call.h])
    BY <1>1, <1>2, Zenon DEF IngressInv, FilesOK, RecordFileOK, Seen, Survivors
  <1>7. keys' \in [Handoffs -> 0..MaxKeys]
    BY <1>1, <1>2, <1>3, <1>4, Zenon
  <1>8. entry' \in Records /\ entry'.upload = None /\ entry'.state = "kept"
    BY <1>1, <1>4, <1>5, Zenon DEF Record, Records
  <1> QED
    BY <1>1, <1>2, <1>6, <1>7, <1>8, Zenon

\* The record after an upload, a begun and a finished deletion.
LEMMA RecordWith ==
  ASSUME NEW r \in Records, NEW n
  PROVE  /\ \A u \in Uploads : n = [r EXCEPT !.upload = u] =>
              /\ n \in Records /\ n.terms = r.terms /\ n.key = r.key /\ n.upload = u /\ n.state = r.state
         /\ \A d \in Deletions : n = [r EXCEPT !.deletion = d, !.state = "deleting"] =>
              /\ n \in Records /\ n.terms = r.terms /\ n.key = r.key /\ n.upload = r.upload
              /\ n.state = "deleting"
         /\ n = [r EXCEPT !.state = "deleted"] =>
              /\ n \in Records /\ n.terms = r.terms /\ n.key = r.key /\ n.upload = r.upload
              /\ n.state = "deleted"
  BY ZenonT(60) DEF Records

LEMMA AcceptBeginMeans ==
  ASSUME IngressInv, AcceptBegin
  PROVE  /\ entry' \in Records /\ Challenge(call.h, entry') = call.of
         /\ entry'.upload = call.upload /\ entry'.state = "kept"
         /\ IsRecord(Seen(call.h)) /\ Challenge(call.h, Seen(call.h)) = call.of /\ Seen(call.h).upload = None
  <1>1. /\ pc = "locked" /\ call.op = "accept" /\ Found /\ Seen(call.h).upload = None
        /\ entry' = [Seen(call.h) EXCEPT !.upload = call.upload]
    BY Zenon DEF AcceptBegin
  <1>2. call.h \in Handoffs /\ call.upload \in Uploads
    BY <1>1, Zenon DEF IngressInv, Placed, AcceptCalls
  <1>3. IsRecord(Seen(call.h)) /\ Challenge(call.h, Seen(call.h)) = call.of
    BY <1>1, Zenon DEF Found
  <1>4. Seen(call.h) \in Records
    BY <1>2, <1>3, FoundMeans, Zenon
  <1>5. Seen(call.h).state = "kept"
    BY <1>1, <1>2, <1>3, Zenon DEF IngressInv, FilesOK, RecordFileOK, Readable, Seen
  <1>6. /\ entry' \in Records /\ entry'.terms = Seen(call.h).terms /\ entry'.key = Seen(call.h).key
        /\ entry'.upload = call.upload /\ entry'.state = Seen(call.h).state
    BY <1>1, <1>2, <1>4, Zenon DEF Records
  <1> QED
    BY <1>1, <1>3, <1>5, <1>6, Zenon DEF Challenge

LEMMA DeleteMeans ==
  ASSUME IngressInv, DeleteBegin \/ DeleteResume
  PROVE  /\ entry' \in Records /\ Challenge(call.h, entry') = call.of
         /\ entry'.upload # None /\ entry'.state = "deleting" /\ Seen(call.h).upload = entry'.upload
         /\ IsRecord(Seen(call.h)) /\ Challenge(call.h, Seen(call.h)) = call.of
         /\ DeleteResume => entry' = Seen(call.h)
         /\ call.h \in Handoffs /\ call.op = "delete" /\ pc = "locked"
  <1>1. pc = "locked" /\ call.op = "delete" /\ Found /\ Seen(call.h).upload # None
    BY Zenon DEF DeleteBegin, DeleteResume, Deletable
  <1>2. call.h \in Handoffs /\ call.deletion \in Deletions
    BY <1>1, Zenon DEF IngressInv, Placed
  <1>3. IsRecord(Seen(call.h)) /\ Challenge(call.h, Seen(call.h)) = call.of
    BY <1>1, Zenon DEF Found
  <1>4. Seen(call.h) \in Records
    BY <1>2, <1>3, FoundMeans, Zenon
  <1>5. CASE DeleteBegin
    <2>1. entry' = [Seen(call.h) EXCEPT !.deletion = call.deletion, !.state = "deleting"]
      BY <1>5, Zenon DEF DeleteBegin
    <2>2. /\ entry' \in Records /\ entry'.terms = Seen(call.h).terms /\ entry'.key = Seen(call.h).key
          /\ entry'.upload = Seen(call.h).upload /\ entry'.state = "deleting"
      BY <1>2, <1>4, <2>1, RecordWith, Zenon
    <2>3. ~DeleteResume
      BY <1>5, Zenon DEF DeleteBegin, DeleteResume
    <2> QED
      BY <1>1, <1>2, <1>3, <2>2, <2>3, Zenon DEF Challenge
  <1>6. CASE DeleteResume
    <2>1. entry' = Seen(call.h) /\ Seen(call.h).state = "deleting"
      BY <1>6, Zenon DEF DeleteResume
    <2> QED
      BY <1>1, <1>2, <1>3, <1>4, <2>1, Zenon
  <1> QED
    BY <1>5, <1>6, Zenon

LEMMA DeleteSyncMeans ==
  ASSUME IngressInv, DeleteSync
  PROVE  /\ entry' \in Records /\ entry'.terms = entry.terms /\ entry'.key = entry.key
         /\ entry'.upload = entry.upload /\ entry'.state = "deleted"
         /\ entry \in Records /\ entry.upload \in Uploads /\ entry.state = "deleting"
         /\ Seen(call.h) = entry /\ call.h \in Handoffs /\ call.op = "delete" /\ pc = "removed"
  <1>1. pc = "removed" /\ entry' = [entry EXCEPT !.state = "deleted"]
    BY Zenon DEF DeleteSync
  <1>2. entry \in Records /\ entry.upload \in Uploads /\ call.h \in Handoffs
    BY <1>1, ContentMeans, Zenon
  <1>3. entry.state = "deleting" /\ Seen(call.h) = entry /\ call.op = "delete"
    BY <1>1, Zenon DEF IngressInv, Writing, Placed
  <1>4. /\ entry' \in Records /\ entry'.terms = entry.terms /\ entry'.key = entry.key
        /\ entry'.upload = entry.upload /\ entry'.state = "deleted"
    BY <1>1, <1>2, RecordWith, Zenon
  <1> QED
    BY <1>1, <1>2, <1>3, <1>4, Zenon

-----------------------------------------------------------------------------
(* The conjuncts of the invariant, one by one. *)

LEMMA WritingStep ==
  ASSUME IngressInv, [Next]_vars
  PROVE  Writing'
  <1>1. Writing /\ Placed
    BY Zenon DEF IngressInv
  <1>2. CASE pc' \in {"idle", "none", "locked"}
    BY <1>2, Zenon DEF Writing, Creating, StoringObject
  <1>3. CASE GoesOnFound
    <2>1. Seen(call.h)' = Seen(call.h)
      BY <1>3, FoundBytesMeans, Zenon DEF Seen
    <2>3. /\ entry' \in Records /\ Challenge(call'.h, entry') = call'.of
          /\ IsRecord(Seen(call.h)) /\ Challenge(call.h, Seen(call.h)) = call.of
          /\ entry'.upload = call'.upload /\ entry'.state = "kept" /\ Seen(call.h).upload = None
      BY <1>1, <1>3, FoundBytesMeans, Zenon DEF Writing, StoringObject
    <2> QED
      BY <1>3, <2>1, <2>3, FoundBytesMeans, Zenon DEF Writing, Creating, StoringObject
  <1>4. CASE GoesOn
    <2>1. call' = call
      BY <1>4, Zenon DEF GoesOn
    <2>2. CASE IssueCreate
      <3>1. pc' = "created" /\ challenge'[call.h].old = Survivors(challenge[call.h])
        BY <2>2, IssueCreateMeans, ReadableAfter, Zenon DEF IssueCreate, IngressInv, TypeOK
      <3> QED
        BY <2>1, <2>2, <3>1, IssueCreateMeans, Zenon DEF Writing, Creating, StoringObject
    <2>3. CASE CreateWrite \/ CreateSync
      <3>1. pc \in {"created", "written"} /\ pc' \in Creating /\ entry' = entry /\ call.h \in Handoffs
        BY <1>1, <2>3, Zenon DEF CreateWrite, CreateSync, Creating, Placed
      <3>2. challenge'[call.h].old = challenge[call.h].old
        <4>1. challenge \in [Handoffs -> Files(Records)]
          BY Zenon DEF IngressInv, TypeOK
        <4>2. \/ challenge'[call.h] = Written(challenge[call.h], entry)
              \/ challenge'[call.h] = Synced(challenge[call.h])
          BY <2>3, <3>1, <4>1, Zenon DEF CreateWrite, CreateSync
        <4> QED
          BY <4>2 DEF Written, Synced
      <3> QED
        BY <1>1, <2>1, <3>1, <3>2, Zenon DEF Writing, Creating, StoringObject
    <2>4. CASE AcceptBegin
      <3>1. pc' = "storing" /\ call.op = "accept" /\ Seen(call.h)' = Seen(call.h)
        BY <2>4, Zenon DEF AcceptBegin, Seen, files
      <3> QED
        BY <2>1, <2>4, <3>1, AcceptBeginMeans, Zenon DEF Writing, Creating, StoringObject
    <2>5. CASE DeleteBegin \/ DeleteResume
      <3>1. /\ DeleteBegin => pc' = "replacing"
            /\ DeleteResume => pc' = "removing"
            /\ Seen(call.h)' = Seen(call.h)
        BY <2>5, Zenon DEF DeleteBegin, DeleteResume, Seen, files
      <3> QED
        BY <2>1, <2>5, <3>1, DeleteMeans, Zenon DEF Writing, Creating, StoringObject
    <2>6. CASE DeleteSync
      <3>1. pc' = "replacing"
        BY <2>6, Zenon DEF DeleteSync
      <3>2. Seen(call.h)' = Seen(call.h)
        BY <2>1, <2>6, DeleteSyncMeans, ReadableLess DEF DeleteSync, DirectorySynced, Seen
      <3>3. /\ Challenge(call.h, entry) = call.of /\ IsRecord(Seen(call.h)) /\ entry.upload # None
            /\ Challenge(call.h, Seen(call.h)) = call.of
        BY <1>1, <2>6, DeleteSyncMeans, Zenon DEF Writing
      <3> QED
        BY <2>1, <2>6, <3>1, <3>2, <3>3, DeleteSyncMeans, Zenon DEF Writing, Creating, StoringObject, Challenge
    <2>7. CASE ReplaceRename
      <3>1. pc = "replacing" /\ pc' = "renamed" /\ entry' = entry
        BY <2>7, Zenon DEF ReplaceRename
      <3>2. entry \in Records /\ call.h \in Handoffs
        BY <3>1, ContentMeans, Zenon
      <3>3. Seen(call.h)' = entry
        BY <2>1, <2>7, <3>2, ReadableAfter DEF ReplaceRename, IngressInv, TypeOK, Seen
      <3>4. IsRecord(entry)
        BY <3>2, RecordMeans, Zenon
      <3> QED
        BY <1>1, <2>1, <3>1, <3>2, <3>3, <3>4, Zenon DEF Writing, Creating, StoringObject
    <2>8. CASE ReplaceSync
      <3>1. /\ pc = "renamed" /\ pc' = "removing" /\ entry' = entry /\ call.op = "delete"
            /\ entry.state = "deleting"
        BY <1>4, <2>8, Zenon DEF GoesOn, ReplaceSync, Open, Close, IssueCreate, CreateWrite, CreateSync, AcceptBegin,
           StoreCreate, StoreWrite, StoreSync, StoreSyncDirectory, DeleteBegin, DeleteResume, DeleteRemove,
           DeleteSync, ReplaceRename
      <3>2. call.h \in Handoffs
        BY <3>1, ContentMeans, Zenon
      <3>3. Seen(call.h)' = Seen(call.h)
        BY <2>1, <2>8, <3>2, ReadableLess, Zenon DEF ReplaceSync, DirectorySynced, Seen
      <3> QED
        BY <1>1, <2>1, <3>1, <3>3, Zenon DEF Writing, Creating, StoringObject
    <2>9. CASE StoreCreate \/ StoreWrite \/ StoreSync \/ StoreSyncDirectory \/ DeleteRemove
      <3>1. /\ entry' = entry
            /\ \/ /\ pc \in {"storing"} \cup StoringObject /\ call.op = "accept"
                  /\ pc' \in {"replacing"} \cup StoringObject
               \/ pc = "removing" /\ pc' = "removed" /\ call.op = "delete"
        BY <1>1, <2>9, Zenon DEF StoreCreate, StoreWrite, StoreSync, StoreSyncDirectory, DeleteRemove, StoringObject, Placed
      <3>2. call.h \in Handoffs /\ pc' # "none"
        BY <3>1, ContentMeans, Zenon DEF StoringObject
      <3>3. Seen(call.h)' = Seen(call.h)
        <4>1. CASE challenge' = challenge
          BY <2>1, <4>1, Zenon DEF Seen
        <4>2. CASE DirectorySynced
          BY <2>1, <3>2, <4>2, ReadableLess, Zenon DEF DirectorySynced, Seen
        <4> QED
          BY <2>9, <4>1, <4>2, Zenon DEF StoreCreate, StoreWrite, StoreSync, StoreSyncDirectory, DeleteRemove
      <3> QED
        BY <1>1, <2>1, <3>1, <3>3, Zenon DEF Writing, Creating, StoringObject
    <2>10. CASE Open \/ Close
      BY <1>2, <2>10, Zenon DEF Open, Close
    <2> QED
      BY <1>4, <2>2, <2>3, <2>4, <2>5, <2>6, <2>7, <2>8, <2>9, <2>10, Zenon DEF GoesOn
  <1>5. CASE UNCHANGED vars
    BY <1>1, <1>5, Zenon DEF vars, Writing, Seen
  <1>6. Ends \/ Begin => pc' \in {"idle", "none", "locked"}
    BY Zenon DEF Ends, Begin
  <1> QED
    BY <1>2, <1>3, <1>4, <1>5, <1>6, ControlStep, Zenon

\* The file operations keep a record file in order.
LEMMA RecordFileKept ==
  ASSUME NEW f, RecordFileOK(f)
  PROVE  /\ RecordFileOK(DirSynced(f)) /\ RecordFileOK(Created(f)) /\ RecordFileOK(Synced(f))
         /\ \A r \in Survivors(f) : RecordFileOK(Settled(r))
         /\ \A r : r.upload = None /\ r.state = "kept" => RecordFileOK(Written(f, r))
         /\ \A r : r.upload # None => RecordFileOK(Replaced(f, r))
  <1>1. RecordFileOK(DirSynced(f)) /\ \A r \in Survivors(f) : RecordFileOK(Settled(r))
    BY Zenon DEF RecordFileOK, Readable, DirSynced, Settled, Survivors
  <1>2. RecordFileOK(Created(f)) /\ RecordFileOK(Synced(f))
    BY RecordMeans, Zenon DEF RecordFileOK, Readable, Created, Synced, Survivors
  <1>3. /\ \A r : r.upload = None /\ r.state = "kept" => RecordFileOK(Written(f, r))
        /\ \A r : r.upload # None => RecordFileOK(Replaced(f, r))
    BY ReadableAfter DEF RecordFileOK
  <1> QED
    BY <1>1, <1>2, <1>3, Zenon

LEMMA ObjectFileKept ==
  ASSUME NEW f, ObjectFileOK(f)
  PROVE  /\ ObjectFileOK(DirSynced(f)) /\ ObjectFileOK(Created(f)) /\ ObjectFileOK(Synced(f))
         /\ ObjectFileOK(Removed(f))
         /\ \A r \in Survivors(f) : ObjectFileOK(Settled(r))
         /\ \A r : r # Absent => ObjectFileOK(Written(f, r))
  <1>1. Torn # Absent
    BY Zenon DEF Absent, Torn
  <1>2. ObjectFileOK(DirSynced(f)) /\ \A r \in Survivors(f) : ObjectFileOK(Settled(r))
    BY ReadableLess DEF ObjectFileOK
  <1>3. /\ ObjectFileOK(Created(f)) /\ ObjectFileOK(Synced(f)) /\ ObjectFileOK(Removed(f))
        /\ \A r : r # Absent => ObjectFileOK(Written(f, r))
    BY <1>1, Zenon DEF ObjectFileOK, Created, Synced, Removed, Written
  <1> QED
    BY <1>2, <1>3, Zenon

LEMMA FilesStep ==
  ASSUME IngressInv, [Next]_vars
  PROVE  FilesOK'
  <1>1. FilesOK /\ Writing
    BY Zenon DEF IngressInv
  <1>2. ASSUME NEW h \in Handoffs
        PROVE  RecordFileOK(challenge'[h])
    <2>1. RecordFileOK(challenge[h])
      BY <1>1, Zenon DEF FilesOK
    <2>2. RecordChange(h)
      BY RecordsStep, Zenon
    <2>3. CreateWrite => entry.upload = None /\ entry.state = "kept"
      BY <1>1, Zenon DEF CreateWrite, Writing, Creating
    <2>4. ReplaceRename => entry.upload # None
      <3>1. ReplaceRename => pc = "replacing"
        BY Zenon DEF ReplaceRename
      <3> QED
        BY <3>1, ContentMeans, NoneAssumption, Zenon
    <2> QED
      BY <2>1, <2>2, <2>3, <2>4, RecordFileKept, Zenon DEF RecordChange
  <1>3. ASSUME NEW c \in Contents
        PROVE  ObjectFileOK(object'[c])
    <2>1. ObjectFileOK(object[c])
      BY <1>1, Zenon DEF FilesOK
    <2>2. ObjectChange(c)
      BY ObjectsStep, Zenon
    <2>3. Bytes(c) # Absent
      BY ObjectMeans, Zenon
    <2> QED
      BY <2>1, <2>2, <2>3, ObjectFileKept, Zenon DEF ObjectChange
  <1> QED
    BY <1>2, <1>3, Zenon DEF FilesOK

\* Which steps report an upload accepted or a deletion terminal.
LEMMA ReportStep ==
  ASSUME [Next]_vars
  PROVE  /\ (ReplaceSync /\ call.op = "accept" /\ Report) \/ accepted' = accepted
         /\ DeleteAgain \/ (ReplaceSync /\ call.op = "delete" /\ entry.state = "deleted" /\ Resolve)
            \/ resolved' = resolved
  BY Zenon DEF Next, vars, history, Open, Close, Begin, Refuse, IssueChallenge, IssueAgain, IssueCreate,
     CreateWrite, CreateSync, CreateSyncDirectory, AcceptUpload, AcceptAgain, AcceptBegin, StoreCreate,
     StoreWrite, StoreSync, StoreSyncDirectory, StoreExists, DeleteContent, DeleteAgain, DeleteBegin,
     DeleteResume, DeleteRemove, DeleteSync, Replace, ReplaceRename, ReplaceSync, Replacing, FileFails,
     Crash, PowerLoss, Gone

\* Which steps store bytes, or remove them under a journal entry that they found.
LEMMA StoredStep ==
  ASSUME [Next]_vars
  PROVE  /\ (pc \in {"storing", "objectWritten", "objectSynced"} /\ Stored) \/ stored' = stored
         /\ DeleteResume \/ resumed' = resumed
  <1>1. StoreCreate => pc \in {"storing", "objectWritten", "objectSynced"} /\ Stored
    BY Zenon DEF StoreCreate
  <1>2. StoreExists => (pc \in {"storing", "objectWritten", "objectSynced"} /\ Stored) \/ stored' = stored
    BY Zenon DEF StoreExists, StoreFound
  <1>3. FileFails => (pc \in {"storing", "objectWritten", "objectSynced"} /\ Stored) \/ stored' = stored
    BY DEF FileFails, StoreFound
  <1>4. StoreCreate \/ StoreExists \/ FileFails \/ stored' = stored
    BY Zenon DEF Next, vars, history, Open, Close, Begin, Refuse, IssueChallenge, IssueAgain, IssueCreate,
       CreateWrite, CreateSync, CreateSyncDirectory, AcceptUpload, AcceptAgain, AcceptBegin,
       StoreWrite, StoreSync, StoreSyncDirectory, DeleteContent, DeleteAgain, DeleteBegin,
       DeleteResume, DeleteRemove, DeleteSync, Replace, ReplaceRename, ReplaceSync,
       Crash, PowerLoss, Gone
  <1>5. DeleteResume \/ resumed' = resumed
    BY Zenon DEF Next, vars, history, Open, Close, Begin, Refuse, IssueChallenge, IssueAgain, IssueCreate,
       CreateWrite, CreateSync, CreateSyncDirectory, AcceptUpload, AcceptAgain, AcceptBegin, StoreCreate,
       StoreWrite, StoreSync, StoreSyncDirectory, StoreExists, DeleteContent, DeleteAgain, DeleteBegin,
       DeleteRemove, DeleteSync, Replace, ReplaceRename, ReplaceSync, FileFails,
       Crash, PowerLoss, Gone
  <1> QED
    BY <1>1, <1>2, <1>3, <1>4, <1>5, Zenon

\* Every variable keeps its type.
LEMMA TypeStep ==
  ASSUME IngressInv, [Next]_vars
  PROVE  TypeOK'
  <1>1. TypeOK /\ Placed /\ Writing
    BY Zenon DEF IngressInv
  <1>2. call' = Idle \/ call'.op \in {"issue", "accept", "delete"}
    BY PlacedStep, Zenon DEF Placed
  <1>3. pc' \in {"none", "idle", "locked", "created", "written", "synced", "storing",
            "objectCreated", "objectWritten", "objectSynced", "removing", "removed",
            "replacing", "renamed"}
    BY <1>1, ControlStep, Zenon DEF TypeOK, Ends, Begin, GoesOn, GoesOnFound, StoreFound, vars
  <1>4. entry' \in Records \cup {Absent}
    <2>1. CASE Ends
      BY <2>1, Zenon DEF Ends
    <2>2. CASE Begin \/ GoesOnFound \/ UNCHANGED vars
      BY <1>1, <2>2, Zenon DEF Begin, GoesOnFound, StoreFound, vars, TypeOK
    <2>3. CASE GoesOn
      <3>1. CASE IssueCreate \/ AcceptBegin \/ DeleteBegin \/ DeleteResume \/ DeleteSync
        BY <3>1, IssueCreateMeans, AcceptBeginMeans, DeleteMeans, DeleteSyncMeans, Zenon
      <3>2. CASE entry' = entry
        BY <1>1, <3>2, Zenon DEF TypeOK
      <3> QED
        BY <2>3, <3>1, <3>2, Zenon DEF GoesOn, Open, Close, CreateWrite, CreateSync, StoreCreate, StoreWrite, StoreSync,
           StoreSyncDirectory, DeleteRemove, ReplaceRename
    <2> QED
      BY <2>1, <2>2, <2>3, ControlStep, Zenon
  <1>5. keys' \in [Handoffs -> 0..MaxKeys]
    <2>1. IssueCreate \/ keys' = keys
      BY Zenon DEF Next, vars, Open, Close, Begin, Refuse, IssueChallenge, IssueAgain, CreateWrite,
         CreateSync, CreateSyncDirectory, AcceptUpload, AcceptAgain, AcceptBegin, StoreCreate, StoreWrite,
         StoreSync, StoreSyncDirectory, StoreExists, DeleteContent, DeleteAgain, DeleteBegin, DeleteResume,
         DeleteRemove, DeleteSync, Replace, ReplaceRename, ReplaceSync, FileFails, Crash, PowerLoss, Gone
    <2> QED
      BY <1>1, <2>1, IssueCreateMeans, Zenon DEF TypeOK
  <1>6. issued' \subseteq Challenges
    <2>1. \A h \in Handoffs, r \in Records : Challenge(h, r) \in Challenges
      BY RecordMeans, Zenon DEF Challenge, Challenges
    <2>2. CASE IssueAgain
      <3>1. call.h \in Handoffs /\ IsRecord(Seen(call.h)) /\ issued' = issued \cup {Challenge(call.h, Seen(call.h))}
        BY <1>1, <2>2, Zenon DEF IssueAgain, Placed
      <3> QED
        BY <1>1, <2>1, <3>1, FoundMeans, Zenon DEF TypeOK
    <2>3. CASE pc \in Creating /\ issued' = issued \cup {Challenge(call.h, entry)}
      <3>1. call.h \in Handoffs /\ entry \in Records
        BY <1>1, <2>3, Zenon DEF Placed, Writing, Creating
      <3> QED
        BY <1>1, <2>1, <2>3, <3>1, Zenon DEF TypeOK
    <2>4. CreateSyncDirectory => pc \in Creating /\ issued' = issued \cup {Challenge(call.h, entry)}
      BY Zenon DEF CreateSyncDirectory, Creating
    <2>5. FileFails => issued' = issued \/ (pc \in Creating /\ issued' = issued \cup {Challenge(call.h, entry)})
      BY Zenon DEF FileFails, Creating
    <2>6. IssueAgain \/ CreateSyncDirectory \/ FileFails \/ issued' = issued
      BY Zenon DEF Next, vars, history, Open, Close, Begin, Refuse, IssueChallenge, IssueCreate, CreateWrite,
         CreateSync, AcceptUpload, AcceptAgain, AcceptBegin, StoreCreate, StoreWrite,
         StoreSync, StoreSyncDirectory, StoreExists, DeleteContent, DeleteAgain, DeleteBegin, DeleteResume,
         DeleteRemove, DeleteSync, Replace, ReplaceRename, ReplaceSync, Crash, PowerLoss, Gone
    <2>7. CASE issued' = issued
      BY <1>1, <2>7, Zenon DEF TypeOK
    <2> QED
      BY <2>2, <2>3, <2>4, <2>5, <2>6, <2>7, Zenon
  <1>7. accepted' \subseteq [of : Challenges, upload : Uploads, bytes : {"synced", "found"}]
    <2>1. CASE ReplaceSync /\ call.op = "accept" /\ Report
      BY <1>1, <2>1 DEF Report, Placed, AcceptCalls, TypeOK
    <2>2. CASE accepted' = accepted
      BY <1>1, <2>2, Zenon DEF TypeOK
    <2> QED
      BY <2>1, <2>2, ReportStep, Zenon
  <1>8. stored' \subseteq [h : Handoffs, c : Contents]
    <2>1. CASE pc \in {"storing", "objectWritten", "objectSynced"} /\ Stored
      <3>1. call.h \in Handoffs /\ Content \in Contents
        BY <2>1, ContentMeans, Zenon DEF StoringObject
      <3> QED
        BY <1>1, <2>1, <3>1 DEF Stored, TypeOK
    <2>2. CASE stored' = stored
      BY <1>1, <2>2, Zenon DEF TypeOK
    <2> QED
      BY <2>1, <2>2, StoredStep, Zenon
  <1>9. resumed' \subseteq Contents
    <2>1. CASE DeleteResume
      <3>1. resumed' = resumed \cup {ContentOf[Seen(call.h).upload]}
        BY <2>1, Zenon DEF DeleteResume
      <3>2. Seen(call.h).upload \in Uploads
        BY <2>1, DeleteMeans, RecordMeans, Zenon
      <3> QED
        BY <1>1, <3>1, <3>2, Zenon DEF TypeOK, Contents
    <2>2. CASE resumed' = resumed
      BY <1>1, <2>2, Zenon DEF TypeOK
    <2> QED
      BY <2>1, <2>2, StoredStep, Zenon
  <1>10. resolved' \subseteq [h : Handoffs, c : Contents, deletion : Deletions]
    <2>1. CASE DeleteAgain
      <3>1. /\ pc = "locked" /\ call.op = "delete" /\ Found /\ Seen(call.h).upload # None
            /\ resolved' = resolved \cup {[h |-> call.h, c |-> ContentOf[Seen(call.h).upload],
                                           deletion |-> call.deletion]}
        BY <2>1, Zenon DEF DeleteAgain, Deletable
      <3>2. call.h \in Handoffs /\ call.deletion \in Deletions
        BY <1>1, <3>1, Zenon DEF Placed
      <3>3. Seen(call.h) \in Records
        BY <3>1, <3>2, FoundMeans, Zenon DEF Found
      <3>4. ContentOf[Seen(call.h).upload] \in Contents
        BY <3>1, <3>3, RecordMeans, Zenon DEF Contents
      <3> QED
        BY <1>1, <3>1, <3>2, <3>4 DEF TypeOK
    <2>2. CASE ReplaceSync /\ call.op = "delete" /\ Resolve
      <3>1. pc = "renamed"
        BY <2>2, Zenon DEF ReplaceSync
      <3>2. call.h \in Handoffs /\ Content \in Contents /\ call.deletion \in Deletions
        BY <1>1, <2>2, <3>1, ContentMeans, Zenon DEF Placed
      <3>3. resolved' = resolved \cup {[h |-> call.h, c |-> Content, deletion |-> call.deletion]}
        BY <2>2, Zenon DEF Resolve
      <3> HIDE DEF Content
      <3> QED
        BY <1>1, <3>2, <3>3 DEF TypeOK
    <2>3. CASE resolved' = resolved
      BY <1>1, <2>3, Zenon DEF TypeOK
    <2> QED
      BY <2>1, <2>2, <2>3, ReportStep, Zenon
  <1>11. faults' \in 0..MaxFaults /\ temporaries' \in 0..faults'
    <2>1. \/ faults' = faults /\ temporaries' = temporaries
          \/ /\ faults < MaxFaults /\ faults' = faults + 1
             /\ temporaries' \in LeftBy(pc) \/ \E left \in LeftBy(pc) : temporaries' \in 0..left
      BY Zenon DEF Next, vars, mishaps, Open, Close, Begin, Refuse, IssueChallenge, IssueAgain, IssueCreate,
         CreateWrite, CreateSync, CreateSyncDirectory, AcceptUpload, AcceptAgain, AcceptBegin, StoreCreate,
         StoreWrite, StoreSync, StoreSyncDirectory, StoreExists, DeleteContent, DeleteAgain, DeleteBegin,
         DeleteResume, DeleteRemove, DeleteSync, Replace, ReplaceRename, ReplaceSync, FileFails,
         Crash, PowerLoss, Fault
    <2>2. LeftBy(pc) \subseteq {temporaries, temporaries + 1}
      BY Zenon DEF LeftBy
    <2>3. MaxFaults \in Nat /\ faults \in 0..MaxFaults /\ temporaries \in 0..faults
      BY <1>1, BoundsAssumption, Zenon DEF TypeOK
    <2> QED
      BY <2>1, <2>2, <2>3
  <1> QED
    BY <1>2, <1>3, <1>4, <1>5, <1>6, <1>7, <1>8, <1>9, <1>10, <1>11, RecordsStep, ObjectsStep, Zenon DEF TypeOK

\* The object under the hands of the running call.
LEMMA ObjectOfCall ==
  ASSUME IngressInv
  PROVE  /\ StoreCreate => object'[Content] = Created(object[Content]) /\ pc = "storing"
         /\ StoreWrite => object'[Content] = Written(object[Content], Bytes(Content)) /\ pc = "objectCreated"
         /\ StoreSync => object'[Content] = Synced(object[Content]) /\ pc = "objectWritten"
         /\ StoreSyncDirectory => object'[Content] = DirSynced(object[Content]) /\ pc = "objectSynced"
         /\ DeleteRemove => /\ pc = "removing" /\ object'[Content].seen = Absent
                            /\ object[Content].seen = Absent => object'[Content] = object[Content]
                            /\ object[Content].seen # Absent => object'[Content] = Removed(object[Content])
         /\ DeleteSync => object'[Content] = DirSynced(object[Content]) /\ pc = "removed"
  <1>1. object \in [Contents -> Files(Objects)]
    BY Zenon DEF IngressInv, TypeOK
  <1>2. pc \in {"storing", "replacing", "removing", "removed", "renamed"} \cup StoringObject => Content \in Contents
    BY ContentMeans, Zenon
  <1> HIDE DEF Content
  <1>3. StoreCreate => object'[Content] = Created(object[Content]) /\ pc = "storing"
    BY <1>1, <1>2, Zenon DEF StoreCreate
  <1>4. StoreWrite => object'[Content] = Written(object[Content], Bytes(Content)) /\ pc = "objectCreated"
    BY <1>1, <1>2, Zenon DEF StoreWrite, StoringObject
  <1>5. StoreSync => object'[Content] = Synced(object[Content]) /\ pc = "objectWritten"
    BY <1>1, <1>2, Zenon DEF StoreSync, StoringObject
  <1>6. StoreSyncDirectory => object'[Content] = DirSynced(object[Content]) /\ pc = "objectSynced"
    BY <1>1, <1>2, Zenon DEF StoreSyncDirectory, DirectorySynced, StoringObject
  <1>7. DeleteRemove => /\ pc = "removing" /\ object'[Content].seen = Absent
                        /\ object[Content].seen = Absent => object'[Content] = object[Content]
                        /\ object[Content].seen # Absent => object'[Content] = Removed(object[Content])
    <2>1. DeleteRemove => /\ pc = "removing"
                          /\ object[Content].seen = Absent => object' = object
                          /\ object[Content].seen # Absent =>
                               object' = [object EXCEPT ![Content] = Removed(object[Content])]
      BY Zenon DEF DeleteRemove
    <2>2. Removed(object[Content]).seen = Absent
      BY Zenon DEF Removed
    <2> QED
      BY <1>1, <1>2, <2>1, <2>2, Zenon
  <1>8. DeleteSync => object'[Content] = DirSynced(object[Content]) /\ pc = "removed"
    BY <1>1, <1>2, Zenon DEF DeleteSync, DirectorySynced
  <1> QED
    BY <1>3, <1>4, <1>5, <1>6, <1>7, <1>8, Zenon

LEMMA ContentSame ==
  ASSUME call' = call, call.op = "accept" \/ entry' = entry
  PROVE  Content' = Content
  BY Zenon DEF Content

LEMMA BytesStep ==
  ASSUME IngressInv, [Next]_vars
  PROVE  StoringBytes'
  <1>1. StoringBytes /\ Placed /\ FilesOK /\ Writing
    BY Zenon DEF IngressInv
  <1>2. CASE pc' \in {"idle", "none", "locked", "created", "written", "synced", "storing"}
    BY <1>2, Zenon DEF StoringBytes, StoringObject
  <1>3. CASE GoesOnFound
    BY <1>3, FoundBytesMeans, Zenon DEF StoringBytes, StoringObject
  <1>4. CASE GoesOn
    <2>1. call' = call
      BY <1>4, Zenon DEF GoesOn
    <2>2. CASE StoreCreate
      <3>1. /\ pc = "storing" /\ pc' = "objectCreated" /\ object[Content].seen = Absent /\ Content' = Content
            /\ stored' = stored \cup {[h |-> call.h, c |-> Content]}
        BY <1>1, <2>1, <2>2, ContentSame, Zenon DEF StoreCreate, Stored, Placed
      <3>2. object[Content].data = {Absent}
        BY <1>1, <3>1, ContentMeans, Zenon DEF FilesOK, ObjectFileOK
      <3>3. object'[Content].old = Survivors(object[Content])
        BY <2>2, ObjectOfCall DEF Created
      <3>4. Absent \in object'[Content].old
        BY <3>2, <3>3, Zenon DEF Survivors
      <3> QED
        BY <2>1, <3>1, <3>4, Zenon DEF StoringBytes, StoringObject
    <2>3. CASE StoreWrite
      <3>1. pc = "objectCreated" /\ pc' = "objectWritten" /\ Content' = Content /\ stored' = stored
        BY <1>1, <2>1, <2>3, ContentSame, Zenon DEF StoreWrite, history, Placed, StoringObject
      <3>2. object'[Content].seen = Bytes(Content) /\ object'[Content].old = object[Content].old
        BY <2>3, ObjectOfCall, ReadableAfter
      <3> QED
        BY <1>1, <2>1, <3>1, <3>2, Zenon DEF StoringBytes, StoringObject
    <2>4. CASE StoreSync
      <3>1. pc = "objectWritten" /\ pc' = "objectSynced" /\ Content' = Content /\ stored' = stored
        BY <1>1, <2>1, <2>4, ContentSame, Zenon DEF StoreSync, history, Placed, StoringObject
      <3>2. /\ object'[Content].seen = object[Content].seen /\ object'[Content].old = object[Content].old
            /\ object'[Content].data = {object[Content].seen}
        BY <2>4, ObjectOfCall DEF Synced
      <3> QED
        BY <1>1, <2>1, <3>1, <3>2, Zenon DEF StoringBytes, StoringObject
    <2>5. CASE StoreSyncDirectory
      <3>1. pc = "objectSynced" /\ pc' = "replacing" /\ Content' = Content
        BY <1>1, <2>1, <2>5, ContentSame, Zenon DEF StoreSyncDirectory, Placed, StoringObject
      <3>2. object[Content].seen = Bytes(Content) /\ object[Content].data = {Bytes(Content)}
        BY <1>1, <3>1, Zenon DEF StoringBytes
      <3>3. Readable(object'[Content]) = {Bytes(Content)}
        BY <2>5, <3>2, ObjectOfCall DEF Readable, Survivors, DirSynced
      <3> QED
        BY <3>1, <3>3, Zenon DEF StoringBytes, StoringObject
    <2>6. CASE DeleteBegin \/ DeleteSync
      <3>1. pc' = "replacing" /\ call.op = "delete"
        BY <2>6, DeleteMeans, DeleteSyncMeans, Zenon DEF DeleteBegin, DeleteSync
      <3> QED
        BY <2>1, <3>1, Zenon DEF StoringBytes, StoringObject
    <2>7. CASE DeleteResume
      <3>1. pc' = "removing" /\ resumed' = resumed \cup {ContentOf[Seen(call.h).upload]} /\ call.op = "delete"
        BY <2>7, DeleteMeans, Zenon DEF DeleteResume
      <3>2. Content' = ContentOf[Seen(call.h).upload]
        BY <2>1, <2>7, <3>1, DeleteMeans, Zenon DEF Content
      <3> QED
        BY <3>1, <3>2, Zenon DEF StoringBytes, StoringObject
    <2>8. CASE DeleteRemove
      <3>1. pc' = "removed" /\ Content' = Content
        BY <2>1, <2>8, ContentSame, Zenon DEF DeleteRemove
      <3> QED
        BY <2>8, <3>1, ObjectOfCall, Zenon DEF StoringBytes, StoringObject
    <2>9. CASE ReplaceRename
      <3>1. pc = "replacing" /\ pc' = "renamed" /\ Content' = Content /\ object' = object
        BY <2>1, <2>9, ContentSame, Zenon DEF ReplaceRename
      <3> QED
        BY <1>1, <2>1, <3>1, Zenon DEF StoringBytes, StoringObject
    <2>10. CASE pc = "renamed" /\ call.op = "delete" /\ pc' = "removing" /\ entry' = entry /\ ReplaceSync
      <3>1. /\ Seen(call.h) = entry /\ call.h \in Handoffs /\ entry \in Records /\ entry.upload # None
        BY <1>1, <2>10, ContentMeans, Zenon DEF Writing
      <3>2. challenge[call.h].data = {entry}
        BY <1>1, <3>1, RecordMeans, Zenon DEF FilesOK, RecordFileOK, Seen
      <3>3. challenge'[call.h] = DirSynced(challenge[call.h])
        BY <2>10, <3>1, Zenon DEF ReplaceSync, DirectorySynced
      <3>4. Survivors(challenge'[call.h]) = {entry}
        BY <3>2, <3>3 DEF Survivors, DirSynced
      <3> QED
        BY <2>1, <2>10, <3>4, Zenon DEF StoringBytes, StoringObject
    <2>11. CASE Open \/ Close \/ IssueCreate \/ CreateWrite \/ CreateSync \/ AcceptBegin
      BY <1>2, <2>11, Zenon DEF Open, Close, IssueCreate, CreateWrite, CreateSync, AcceptBegin
    <2> QED
      BY <1>4, <2>2, <2>3, <2>4, <2>5, <2>6, <2>7, <2>8, <2>9, <2>10, <2>11, Zenon DEF GoesOn
  <1>5. CASE UNCHANGED vars
    BY <1>1, <1>5, Zenon DEF vars, StoringBytes, Content
  <1>6. Ends \/ Begin => pc' \in {"idle", "none", "locked"}
    BY Zenon DEF Ends, Begin
  <1> QED
    BY <1>2, <1>3, <1>4, <1>5, <1>6, ControlStep, Zenon

\* A record that is there for sure changes only when it is replaced.
LEMMA RecordKept ==
  ASSUME IngressInv, [Next]_vars
  PROVE  \A h \in Handoffs : Absent \notin Readable(challenge[h]) =>
           \/ Readable(challenge'[h]) \subseteq Readable(challenge[h])
           \/ h = call.h /\ ReplaceRename /\ Readable(challenge'[h]) \subseteq {entry} \cup Readable(challenge[h])
  <1> SUFFICES ASSUME NEW h \in Handoffs, Absent \notin Readable(challenge[h])
               PROVE  \/ Readable(challenge'[h]) \subseteq Readable(challenge[h])
                      \/ /\ h = call.h /\ ReplaceRename
                         /\ Readable(challenge'[h]) \subseteq {entry} \cup Readable(challenge[h])
    BY Zenon
  <1>1. RecordChange(h)
    BY RecordsStep, Zenon
  <1>2. CASE challenge'[h] = challenge[h] \/ challenge'[h] = DirSynced(challenge[h])
    BY <1>2, ReadableLess, Zenon
  <1>3. CASE \E r \in Survivors(challenge[h]) : challenge'[h] = Settled(r)
    <2>1. PICK r \in Survivors(challenge[h]) : challenge'[h] = Settled(r)
      BY <1>3, Zenon
    <2>2. Readable(challenge'[h]) = {r}
      BY <2>1, ReadableLess, Zenon
    <2>3. r \in Readable(challenge[h])
      BY Zenon DEF Readable
    <2> QED
      BY <2>2, <2>3, Zenon
  <1>4. CASE h = call.h /\ IssueCreate
    BY <1>4, IssueCreateMeans, Zenon DEF Seen, Readable
  <1>5. CASE h = call.h /\ (CreateWrite \/ CreateSync)
    <2>1. pc \in Creating
      BY <1>5, Zenon DEF CreateWrite, CreateSync, Creating
    <2>2. Absent \in challenge[h].old
      BY <1>5, <2>1, Zenon DEF IngressInv, Writing
    <2> QED
      BY <2>2, ReadableLess, Zenon
  <1>6. CASE h = call.h /\ ReplaceRename /\ challenge'[h] = Replaced(challenge[h], entry)
    BY <1>6, ReadableAfter, Zenon
  <1> QED
    BY <1>1, <1>2, <1>3, <1>4, <1>5, <1>6, Zenon DEF RecordChange

\* The record that was renamed into place is all there is once the directory is synced.
LEMMA RenamedMeans ==
  ASSUME IngressInv, ReplaceSync
  PROVE  /\ pc = "renamed" /\ entry \in Records /\ entry.upload \in Uploads /\ call.h \in Handoffs
         /\ Challenge(call.h, entry) = call.of
         /\ Readable(challenge'[call.h]) = {entry} /\ Seen(call.h) = entry
  <1>1. pc = "renamed"
    BY Zenon DEF ReplaceSync
  <1>2. entry \in Records /\ entry.upload \in Uploads /\ call.h \in Handoffs
    BY <1>1, ContentMeans, Zenon
  <1>3. Challenge(call.h, entry) = call.of /\ Seen(call.h) = entry
    BY <1>1, Zenon DEF IngressInv, Writing
  <1>4. challenge[call.h].data = {entry} /\ challenge[call.h].seen = entry
    BY <1>2, <1>3, RecordMeans, NoneAssumption, Zenon DEF IngressInv, FilesOK, RecordFileOK, Seen
  <1>5. challenge'[call.h] = DirSynced(challenge[call.h])
    BY <1>2, Zenon DEF ReplaceSync, DirectorySynced
  <1>6. Readable(challenge'[call.h]) = {entry}
    BY <1>4, <1>5 DEF Readable, Survivors, DirSynced
  <1> QED
    BY <1>1, <1>2, <1>3, <1>6, Zenon

LEMMA AcceptedStep ==
  ASSUME IngressInv, [Next]_vars
  PROVE  AcceptedKept'
  <1>1. AcceptedKept /\ TypeOK /\ Writing /\ Placed
    BY Zenon DEF IngressInv
  <1>2. ASSUME NEW a \in accepted, NEW r \in Readable(challenge'[a.of.h])
        PROVE  IsRecord(r) /\ Challenge(a.of.h, r) = a.of /\ r.upload = a.upload
    <2>1. a.of.h \in Handoffs /\ a.upload \in Uploads
      BY <1>1, Zenon DEF TypeOK, Challenges
    <2>2. \A s \in Readable(challenge[a.of.h]) : IsRecord(s) /\ Challenge(a.of.h, s) = a.of /\ s.upload = a.upload
      BY <1>1, Zenon DEF AcceptedKept
    <2>3. Absent \notin Readable(challenge[a.of.h])
      BY <2>2, RecordMeans, Zenon
    <2>4. CASE r \in Readable(challenge[a.of.h])
      BY <2>2, <2>4, Zenon
    <2>5. CASE a.of.h = call.h /\ ReplaceRename /\ r = entry
      <3>1. pc = "replacing"
        BY <2>5, Zenon DEF ReplaceRename
      <3>2. /\ entry \in Records /\ Challenge(call.h, entry) = call.of /\ Challenge(call.h, Seen(call.h)) = call.of
            /\ call.op = "delete" => Seen(call.h).upload = entry.upload
            /\ call.op = "accept" => Seen(call.h).upload = None
            /\ call.op \in {"accept", "delete"}
        BY <1>1, <3>1, Zenon DEF Writing, Placed
      <3>3. Challenge(call.h, Seen(call.h)) = a.of /\ Seen(call.h).upload = a.upload
        BY <2>2, <2>5, Zenon DEF Seen, Readable
      <3> QED
        BY <2>1, <2>5, <3>2, <3>3, RecordMeans, NoneAssumption, Zenon
    <2> QED
      BY <2>1, <2>3, <2>4, <2>5, RecordKept, Zenon
  <1>3. CASE ReplaceSync /\ call.op = "accept" /\ Report
    <2>1. accepted' = accepted \cup {[of |-> call.of, upload |-> call.upload, bytes |-> call.bytes]}
      BY <1>3, Zenon DEF Report
    <2>2. pc = "renamed" /\ call.of.h = call.h /\ entry.upload = call.upload
      BY <1>1, <1>3, RenamedMeans, Zenon DEF Placed, Writing
    <2>3. ASSUME NEW r \in Readable(challenge'[call.of.h])
          PROVE  IsRecord(r) /\ Challenge(call.of.h, r) = call.of /\ r.upload = call.upload
      BY <1>3, <2>2, RenamedMeans, RecordMeans, Zenon
    <2> QED
      BY <1>2, <2>1, <2>3 DEF AcceptedKept
  <1>4. CASE accepted' = accepted
    BY <1>2, <1>4, Zenon DEF AcceptedKept
  <1> QED
    BY <1>3, <1>4, ReportStep, Zenon

\* Whatever is found under the name tells of a deletion of content c.
OfDeletion(f, c) ==
  \A r \in Readable(f) :
    IsRecord(r) /\ r.state # "kept" /\ r.upload # None /\ ContentOf[r.upload] = c

\* The journal of a deletion, for a record file in order.
LEMMA JournaledMeans ==
  ASSUME IngressInv
  PROVE  \A c : Journaled(c) <=> \E h \in Handoffs : OfDeletion(challenge[h], c)
  <1>1. \A h \in Handoffs : RecordFileOK(challenge[h])
    BY Zenon DEF IngressInv, FilesOK
  <1>2. \A f : RecordFileOK(f) => Readable(f) = Survivors(f)
    BY Zenon DEF RecordFileOK, Readable, Survivors
  <1>3. \A f, c : RecordFileOK(f) =>
          (OfDeletion(f, c) <=> \A r \in Survivors(f) : IsRecord(r) /\ r.state # "kept" /\ ContentOf[r.upload] = c)
    BY <1>2, Zenon DEF OfDeletion, RecordFileOK
  <1> QED
    BY <1>1, <1>3, Zenon DEF Journaled

\* Nothing but its end follows a deletion that is on disk.
LEMMA DeletionKept ==
  ASSUME IngressInv, [Next]_vars
  PROVE  \A h \in Handoffs : \A c : OfDeletion(challenge[h], c) => OfDeletion(challenge'[h], c)
  <1> SUFFICES ASSUME NEW h \in Handoffs, NEW c, OfDeletion(challenge[h], c)
               PROVE  OfDeletion(challenge'[h], c)
    BY Zenon
  <1>1. Absent \notin Readable(challenge[h])
    BY RecordMeans, Zenon DEF OfDeletion
  <1>2. CASE Readable(challenge'[h]) \subseteq Readable(challenge[h])
    BY <1>2, Zenon DEF OfDeletion
  <1>3. CASE h = call.h /\ ReplaceRename /\ Readable(challenge'[h]) \subseteq {entry} \cup Readable(challenge[h])
    <2>1. pc = "replacing"
      BY <1>3, Zenon DEF ReplaceRename
    <2>2. /\ entry \in Records /\ call.op \in {"accept", "delete"}
          /\ call.op = "delete" => Seen(call.h).upload = entry.upload /\ entry.state \in {"deleting", "deleted"}
          /\ call.op = "accept" => Seen(call.h).upload = None
      BY <2>1, Zenon DEF IngressInv, Writing, Placed
    <2>3. Seen(call.h).upload # None /\ ContentOf[Seen(call.h).upload] = c
      BY <1>3, Zenon DEF OfDeletion, Seen, Readable
    <2>4. IsRecord(entry) /\ entry.state # "kept" /\ entry.upload # None /\ ContentOf[entry.upload] = c
      BY <2>2, <2>3, RecordMeans, Zenon
    <2> QED
      BY <1>3, <2>4, Zenon DEF OfDeletion
  <1> QED
    BY <1>1, <1>2, <1>3, RecordKept, Zenon

LEMMA JournaledKept ==
  ASSUME IngressInv, [Next]_vars
  PROVE  \A c : Journaled(c) => Journaled(c)'
  <1> SUFFICES ASSUME NEW c, Journaled(c)
               PROVE  Journaled(c)'
    BY Zenon
  <1>1. PICK h \in Handoffs : OfDeletion(challenge[h], c)
    BY JournaledMeans, Zenon
  <1>2. OfDeletion(challenge'[h], c)
    BY <1>1, DeletionKept, Zenon
  <1>3. \A r \in Survivors(challenge'[h]) : IsRecord(r) /\ r.state # "kept" /\ ContentOf[r.upload] = c
    BY <1>2, Zenon DEF OfDeletion, Readable
  <1> QED
    BY <1>3, Zenon DEF Journaled

\* Bytes that are there for sure change only when they are removed.
LEMMA ObjectKept ==
  ASSUME IngressInv, [Next]_vars
  PROVE  \A c \in Contents : Absent \notin Readable(object[c]) =>
           Readable(object'[c]) \subseteq Readable(object[c]) \/ (c = Content /\ DeleteRemove)
  <1> SUFFICES ASSUME NEW c \in Contents, Absent \notin Readable(object[c])
               PROVE  Readable(object'[c]) \subseteq Readable(object[c]) \/ (c = Content /\ DeleteRemove)
    BY Zenon
  <1>1. ObjectChange(c)
    BY ObjectsStep, Zenon
  <1>2. CASE object'[c] = object[c] \/ object'[c] = DirSynced(object[c])
    BY <1>2, ReadableLess, Zenon
  <1>3. CASE \E r \in Survivors(object[c]) : object'[c] = Settled(r)
    <2>1. PICK r \in Survivors(object[c]) : object'[c] = Settled(r)
      BY <1>3, Zenon
    <2>2. Readable(object'[c]) = {r}
      BY <2>1, ReadableLess, Zenon
    <2>3. r \in Readable(object[c])
      BY Zenon DEF Readable
    <2> QED
      BY <2>2, <2>3, Zenon
  <1>4. CASE c = Content /\ StoreCreate
    <2>1. object[c].seen = Absent
      BY <1>4, Zenon DEF StoreCreate
    <2> QED
      BY <2>1, Zenon DEF Readable
  <1>5. CASE c = Content /\ (StoreWrite \/ StoreSync)
    <2>1. pc \in StoringObject
      BY <1>5, Zenon DEF StoreWrite, StoreSync, StoringObject
    <2>2. Absent \in object[c].old
      BY <1>5, <2>1, Zenon DEF IngressInv, StoringBytes
    <2> QED
      BY <2>2, Zenon DEF Readable, Survivors
  <1> QED
    BY <1>1, <1>2, <1>3, <1>4, <1>5, Zenon DEF ObjectChange

LEMMA KeptStep ==
  ASSUME IngressInv, [Next]_vars
  PROVE  KeptUntilJournaled'
  <1>1. KeptUntilJournaled /\ TypeOK
    BY Zenon DEF IngressInv
  <1>2. ASSUME NEW a \in accepted, a.bytes = "synced", ContentOf[a.upload] \notin resumed'
        PROVE  \/ \A r \in Readable(object'[ContentOf[a.upload]]) : r = Bytes(ContentOf[a.upload])
               \/ Journaled(ContentOf[a.upload])'
    <2> DEFINE c == ContentOf[a.upload]
    <2>1. c \in Contents
      BY <1>1, Zenon DEF TypeOK, Contents
    <2>2. c \notin resumed
      BY <1>2, StoredStep, Zenon DEF DeleteResume
    <2>3. (\A r \in Readable(object[c]) : r = Bytes(c)) \/ Journaled(c)
      BY <1>1, <1>2, <2>2, Zenon DEF KeptUntilJournaled, OpenAccepted
    <2> HIDE DEF c
    <2>4. CASE Journaled(c)
      BY <2>4, JournaledKept, Zenon DEF c
    <2>5. CASE \A r \in Readable(object[c]) : r = Bytes(c)
      <3>1. Absent \notin Readable(object[c])
        BY <2>5, ObjectMeans, Zenon
      <3>2. CASE Readable(object'[c]) \subseteq Readable(object[c])
        BY <2>5, <3>2, Zenon DEF c
      <3>3. CASE c = Content /\ DeleteRemove
        <4>1. pc = "removing"
          BY <3>3, Zenon DEF DeleteRemove
        <4>2. Survivors(challenge[call.h]) = {entry} /\ entry.state = "deleting"
          BY <2>2, <3>3, <4>1, Zenon DEF IngressInv, StoringBytes, Writing
        <4>3. call.h \in Handoffs /\ IsRecord(entry) /\ ContentOf[entry.upload] = c
          BY <3>3, <4>1, ContentMeans, RecordMeans, Zenon
        <4>4. Journaled(c)
          BY <4>2, <4>3, Zenon DEF Journaled
        <4> QED
          BY <4>4, JournaledKept, Zenon DEF c
      <3> QED
        BY <2>1, <3>1, <3>2, <3>3, ObjectKept, Zenon
    <2> QED
      BY <2>3, <2>4, <2>5, Zenon
  <1>3. CASE ReplaceSync /\ call.op = "accept" /\ Report
    <2>1. accepted' = accepted \cup {[of |-> call.of, upload |-> call.upload, bytes |-> call.bytes]}
      BY <1>3, Zenon DEF Report
    <2>2. pc = "renamed" /\ Content = ContentOf[call.upload] /\ Content \in Contents
      BY <1>3, RenamedMeans, ContentMeans, Zenon DEF Content
    <2>3. ASSUME call.bytes = "synced"
          PROVE  \A r \in Readable(object'[ContentOf[call.upload]]) : r = Bytes(ContentOf[call.upload])
      <3>1. Readable(object[Content]) = {Bytes(Content)}
        BY <1>3, <2>2, <2>3, Zenon DEF IngressInv, StoringBytes
      <3>2. object'[Content] = DirSynced(object[Content])
        BY <1>3, <2>2, Zenon DEF ReplaceSync, DirectorySynced
      <3> QED
        BY <2>2, <3>1, <3>2, ReadableLess, Zenon
    <2> QED
      BY <1>2, <2>1, <2>3 DEF KeptUntilJournaled, OpenAccepted
  <1>4. CASE accepted' = accepted
    BY <1>2, <1>4, Zenon DEF KeptUntilJournaled, OpenAccepted
  <1> QED
    BY <1>3, <1>4, ReportStep, Zenon

\* Once the deletion of a handoff is settled, no step unsettles it.
LEMMA FinishedKept ==
  ASSUME IngressInv, [Next]_vars
  PROVE  \A h \in Handoffs : \A c : Finished(h, c) => Finished(h, c)'
  <1> SUFFICES ASSUME NEW h \in Handoffs, NEW c, Finished(h, c)
               PROVE  Finished(h, c)'
    BY Zenon
  <1>1. OfDeletion(challenge[h], c)
    BY Zenon DEF Finished, OfDeletion
  <1>2. OfDeletion(challenge'[h], c)
    BY <1>1, DeletionKept, Zenon
  <1>3. IsRecord(Seen(h)) /\ Seen(h).upload # None /\ ContentOf[Seen(h).upload] = c
    BY <1>1, Zenon DEF OfDeletion, Seen, Readable
  <1>4. c \in Contents
    <2>1. Seen(h) \in Records \cup {Absent, Torn}
      BY Zenon DEF IngressInv, TypeOK, Files, Seen
    <2> QED
      BY <1>3, <2>1, RecordMeans, Zenon DEF Contents
  <1>5. stored \subseteq stored'
    BY StoredStep, Zenon DEF Stored
  <1>6. ASSUME Bytes(c) \in Readable(object'[c])
        PROVE  \E s \in stored' : s.c = c /\ s.h # h
    <2>1. Bytes(c) # Absent /\ Bytes(c) # Torn
      BY ObjectMeans, Zenon
    <2>2. ObjectChange(c)
      BY <1>4, ObjectsStep, Zenon
    <2>3. CASE Bytes(c) \in Readable(object[c])
      BY <1>5, <2>3, Zenon DEF Finished
    <2>4. CASE c = Content /\ StoreWrite
      <3>1. pc = "objectCreated"
        BY <2>4, Zenon DEF StoreWrite
      <3>2. [h |-> call.h, c |-> c] \in stored
        BY <2>4, <3>1, Zenon DEF IngressInv, StoringBytes, StoringObject
      <3>3. Seen(call.h).upload = None
        BY <3>1, Zenon DEF IngressInv, Writing, Placed, StoringObject
      <3>4. call.h # h
        BY <1>3, <3>3, Zenon
      <3> QED
        BY <1>5, <3>2, <3>4, Zenon
    <2>5. Readable(object'[c]) \subseteq {Absent, Torn} \cup Readable(object[c]) \/ (c = Content /\ StoreWrite)
      <3>1. CASE object'[c] = object[c] \/ object'[c] = DirSynced(object[c])
        BY <3>1, ReadableLess, Zenon
      <3>2. CASE \E r \in Survivors(object[c]) : object'[c] = Settled(r)
        <4>1. PICK r \in Survivors(object[c]) : object'[c] = Settled(r)
          BY <3>2, Zenon
        <4>2. Readable(object'[c]) = {r}
          BY <4>1, ReadableLess, Zenon
        <4>3. r \in Readable(object[c])
          BY Zenon DEF Readable
        <4> QED
          BY <4>2, <4>3, Zenon
      <3>3. CASE \/ object'[c] = Created(object[c]) \/ object'[c] = Synced(object[c])
                 \/ object'[c] = Removed(object[c])
        BY <3>3 DEF Readable, Created, Synced, Removed, Survivors
      <3> QED
        BY <2>2, <3>1, <3>2, <3>3, Zenon DEF ObjectChange
    <2> QED
      BY <1>6, <2>1, <2>3, <2>4, <2>5, Zenon
  <1> QED
    BY <1>2, <1>6, Zenon DEF Finished, OfDeletion

LEMMA SettledStep ==
  ASSUME IngressInv, [Next]_vars
  PROVE  Settledness'
  <1>1. Settledness /\ TypeOK /\ Writing /\ Placed /\ FilesOK
    BY Zenon DEF IngressInv
  <1>2. \A d \in resolved' : Finished(d.h, d.c)'
    <2>1. ASSUME NEW d \in resolved
          PROVE  Finished(d.h, d.c)'
      <3>1. d.h \in Handoffs /\ Finished(d.h, d.c)
        BY <1>1, Zenon DEF Settledness, TypeOK
      <3> QED
        BY <3>1, FinishedKept, Zenon
    <2>2. ASSUME NEW x, call.h \in Handoffs, Finished(call.h, x),
                 resolved' = resolved \cup {[h |-> call.h, c |-> x, deletion |-> call.deletion]}
          PROVE  \A d \in resolved' : Finished(d.h, d.c)'
      <3>1. \A g \in Handoffs : \A y : Finished(g, y) => Finished(g, y)'
        BY FinishedKept, Zenon
      <3>2. \A d \in resolved' : d \in resolved \/ (d.h = call.h /\ d.c = x)
        BY <2>2
      <3>3. \A d \in resolved' : d.h \in Handoffs /\ Finished(d.h, d.c)
        BY <1>1, <2>2, <3>2, Zenon DEF Settledness, TypeOK
      <3> QED
        BY <3>1, <3>3, Zenon
    <2>3. CASE DeleteAgain
      <3>1. /\ pc = "locked" /\ call.op = "delete" /\ Found /\ Seen(call.h).state = "deleted"
            /\ resolved' = resolved \cup {[h |-> call.h, c |-> ContentOf[Seen(call.h).upload],
                                           deletion |-> call.deletion]}
        BY <2>3, Zenon DEF DeleteAgain, Deletable
      <3>2. call.h \in Handoffs /\ IsRecord(Seen(call.h))
        BY <1>1, <3>1, Zenon DEF Placed, Found
      <3>3. Seen(call.h) \in Readable(challenge[call.h])
        BY Zenon DEF Seen, Readable
      <3>4. Finished(call.h, ContentOf[Seen(call.h).upload])
        BY <1>1, <3>1, <3>2, <3>3, Zenon DEF Settledness
      <3> QED
        BY <2>2, <3>1, <3>2, <3>4, Zenon
    <2>4. CASE ReplaceSync /\ call.op = "delete" /\ entry.state = "deleted" /\ Resolve
      <3>1. pc = "renamed" /\ call.h \in Handoffs
        BY <2>4, RenamedMeans, Zenon
      <3>2. Content = ContentOf[entry.upload]
        BY <3>1, ContentMeans, Zenon
      <3>3. Finished(call.h, Content)
        BY <1>1, <2>4, <3>1, <3>2, Zenon DEF Settledness
      <3>4. resolved' = resolved \cup {[h |-> call.h, c |-> Content, deletion |-> call.deletion]}
        BY <2>4, Zenon DEF Resolve
      <3> QED
        BY <2>2, <3>1, <3>3, <3>4, Zenon
    <2>5. CASE resolved' = resolved
      BY <2>1, <2>5, Zenon
    <2> QED
      BY <2>3, <2>4, <2>5, ReportStep, Zenon
  <1>3. ASSUME NEW h \in Handoffs, NEW r \in Readable(challenge'[h]), IsRecord(r), r.state = "deleted"
        PROVE  Finished(h, ContentOf[r.upload])'
    <2>1. CASE r \in Readable(challenge[h])
      <3>1. Finished(h, ContentOf[r.upload])
        BY <1>1, <1>3, <2>1, Zenon DEF Settledness
      <3> QED
        BY <3>1, FinishedKept, Zenon
    <2>2. CASE h = call.h /\ ReplaceRename /\ r = entry
      <3>1. pc = "replacing"
        BY <2>2, Zenon DEF ReplaceRename
      <3>2. call.op = "delete"
        BY <1>1, <1>3, <2>2, <3>1, Zenon DEF Writing, Placed
      <3>3. Finished(h, ContentOf[r.upload])
        BY <1>1, <1>3, <2>2, <3>1, <3>2, Zenon DEF Settledness
      <3> QED
        BY <3>3, FinishedKept, Zenon
    <2>3. \/ Readable(challenge'[h]) \subseteq {Torn} \cup Readable(challenge[h])
          \/ CreateWrite /\ Readable(challenge'[h]) \subseteq {entry} \cup Readable(challenge[h])
          \/ /\ h = call.h /\ ReplaceRename
             /\ Readable(challenge'[h]) \subseteq {entry} \cup Readable(challenge[h])
      <3>1. CASE challenge'[h] = challenge[h] \/ challenge'[h] = DirSynced(challenge[h])
        BY <3>1, ReadableLess, Zenon
      <3>2. CASE \E s \in Survivors(challenge[h]) : challenge'[h] = Settled(s)
        <4>1. PICK s \in Survivors(challenge[h]) : challenge'[h] = Settled(s)
          BY <3>2, Zenon
        <4>2. Readable(challenge'[h]) = {s}
          BY <4>1, ReadableLess, Zenon
        <4>3. s \in Readable(challenge[h])
          BY Zenon DEF Readable
        <4> QED
          BY <4>2, <4>3, Zenon
      <3>3. CASE challenge'[h] = Created(challenge[h]) \/ challenge'[h] = Synced(challenge[h])
        BY <3>3 DEF Readable, Created, Synced, Survivors
      <3>4. CASE CreateWrite /\ challenge'[h] = Written(challenge[h], entry)
        BY <3>4, ReadableAfter, Zenon
      <3>5. CASE h = call.h /\ ReplaceRename /\ challenge'[h] = Replaced(challenge[h], entry)
        BY <3>5, ReadableAfter, ZenonT(60)
      <3>6. RecordChange(h)
        BY RecordsStep, Zenon
      <3> QED
        BY <3>1, <3>2, <3>3, <3>4, <3>5, <3>6, Zenon DEF RecordChange
    <2>4. CreateWrite => entry.state = "kept"
      BY <1>1, Zenon DEF CreateWrite, Writing, Creating
    <2> QED
      BY <1>3, <2>1, <2>2, <2>3, <2>4, RecordMeans, Zenon
  <1>4. ASSUME pc' \in {"replacing", "renamed"}, call'.op = "delete", entry'.state = "deleted"
        PROVE  Finished(call.h, ContentOf[entry.upload])'
    <2>1. CASE DeleteSync
      <3>1. call' = call /\ entry'.upload = entry.upload /\ entry.upload \in Uploads /\ call.h \in Handoffs
        BY <2>1, DeleteSyncMeans, Zenon DEF DeleteSync
      <3>2. /\ pc = "removed" /\ Seen(call.h) = entry /\ entry \in Records /\ entry.state = "deleting"
        BY <2>1, DeleteSyncMeans, Zenon
      <3>3. /\ challenge[call.h].data = {entry} /\ challenge[call.h].seen = entry
        BY <1>1, <3>1, <3>2, RecordMeans, NoneAssumption, Zenon DEF FilesOK, RecordFileOK, Seen
      <3>4. challenge'[call.h] = DirSynced(challenge[call.h])
        BY <2>1, <3>1, Zenon DEF DeleteSync, DirectorySynced
      <3>5. Readable(challenge'[call.h]) = {entry}
        BY <3>3, <3>4 DEF Readable, Survivors, DirSynced
      <3>6. Content = ContentOf[entry.upload] /\ Content \in Contents
        BY <3>2, ContentMeans, Zenon
      <3>7. object[Content].seen = Absent /\ object[Content].data = {Absent}
        BY <3>2, <3>6, Zenon DEF IngressInv, StoringBytes, FilesOK, ObjectFileOK
      <3>8. Readable(object'[Content]) = {Absent}
        BY <2>1, <3>7, ObjectOfCall DEF Readable, Survivors, DirSynced
      <3>9. Bytes(Content) \notin Readable(object'[Content])
        BY <3>8, ObjectMeans, Zenon
      <3>10. IsRecord(entry) /\ entry.state # "kept" /\ entry.upload # None
        BY <3>1, <3>2, RecordMeans, NoneAssumption, Zenon
      <3> QED
        BY <3>1, <3>5, <3>6, <3>9, <3>10, Zenon DEF Finished
    <2>2. CASE /\ pc \in {"replacing", "renamed"} /\ call' = call /\ entry' = entry
      <3>1. call.h \in Handoffs /\ Finished(call.h, ContentOf[entry.upload])
        BY <1>1, <1>4, <2>2, Zenon DEF Settledness, Placed
      <3>2. \A h \in Handoffs : \A c : Finished(h, c) => Finished(h, c)'
        BY FinishedKept, Zenon
      <3>3. \A h, c : h = call'.h /\ c = ContentOf[entry'.upload] /\ Finished(h, c)' =>
              Finished(call.h, ContentOf[entry.upload])'
        BY Zenon DEF Finished
      <3> QED
        BY <2>2, <3>1, <3>2, <3>3, Zenon
    <2>3. CASE GoesOn
      <3>1. DeleteBegin => entry'.state = "deleting"
        BY DeleteMeans, Zenon
      <3>2. pc \in StoringObject => call.op # "delete"
        BY <1>1, Zenon DEF Placed
      <3> QED
        BY <1>4, <2>1, <2>2, <2>3, <3>1, <3>2, Zenon DEF GoesOn, ReplaceRename, StoringObject
    <2>4. CASE UNCHANGED vars
      BY <1>4, <2>2, <2>4, Zenon DEF vars
    <2>5. ~Ends /\ ~Begin
      BY <1>4, Zenon DEF Ends, Begin
    <2>6. ~GoesOnFound
      BY <1>4, FoundBytesMeans, Zenon
    <2> QED
      BY <2>3, <2>4, <2>5, <2>6, ControlStep, Zenon
  <1> QED
    BY <1>2, <1>3, <1>4, Zenon DEF Settledness

-----------------------------------------------------------------------------
(* The theorems. *)

LEMMA IngressInit == Init => IngressInv
  <1> SUFFICES ASSUME Init
               PROVE  IngressInv
    BY Zenon
  <1>1. /\ pc = "none" /\ call = Idle /\ entry = Absent /\ keys = [h \in Handoffs |-> 0]
        /\ challenge = [h \in Handoffs |-> NoFile] /\ object = [c \in Contents |-> NoFile]
        /\ issued = {} /\ accepted = {} /\ stored = {} /\ resumed = {} /\ resolved = {} /\ temporaries = 0 /\ faults = 0
    BY Zenon DEF Init
  <1>2. NoFile.seen = Absent /\ NoFile.data = {Absent} /\ Readable(NoFile) = {Absent}
    BY Zenon DEF NoFile, Readable, Survivors
  <1>3. \A R : NoFile \in Files(R)
    BY Zenon DEF NoFile, Files
  <1>4. TypeOK
    BY <1>1, <1>3, BoundsAssumption DEF TypeOK
  <1>5. Placed
    BY <1>1, IdleMeans, Zenon DEF Placed, Creating, StoringObject
  <1>6. FilesOK
    BY <1>1, <1>2, RecordMeans, Zenon DEF FilesOK, RecordFileOK, ObjectFileOK
  <1>7. Writing /\ StoringBytes
    BY <1>1, Zenon DEF Writing, StoringBytes, Creating, StoringObject
  <1>8. AcceptedKept /\ KeptUntilJournaled
    BY <1>1, Zenon DEF AcceptedKept, KeptUntilJournaled
  <1>9. Settledness
    BY <1>1, <1>2, RecordMeans, Zenon DEF Settledness
  <1> QED
    BY <1>4, <1>5, <1>6, <1>7, <1>8, <1>9, Zenon DEF IngressInv

LEMMA IngressStep == IngressInv /\ [Next]_vars => IngressInv'
  BY TypeStep, PlacedStep, FilesStep, WritingStep, BytesStep, AcceptedStep, KeptStep, SettledStep, Zenon
     DEF IngressInv

\* The records and the objects of the Store, the running call and what was reported are
\* related as IngressInv says after every step, whatever crashes, power losses and failed
\* file calls there are (pkg/privateingress, Store).
THEOREM IngressInvariant == Spec => []IngressInv
  BY IngressInit, IngressStep, PTL DEF Spec

\* The challenge of an upload that Accept reported, having synced its record, keeps that
\* upload for good: no power loss, no other Accept and no Delete changes it.
THEOREM AcceptedStays == Spec => []AcceptedKept
  <1>1. IngressInv => AcceptedKept
    BY Zenon DEF IngressInv
  <1> QED
    BY <1>1, IngressInvariant, PTL

\* The bytes that Accept stored and synced outlast every crash and power loss until the
\* deletion of their content is journaled, unless a Delete went on from an entry it found.
THEOREM BytesKeptUntilJournaled == Spec => []KeptUntilJournaled
  <1>1. IngressInv => KeptUntilJournaled
    BY Zenon DEF IngressInv
  <1> QED
    BY <1>1, IngressInvariant, PTL

\* After Delete reported a deletion terminal the bytes are gone for good, but for another
\* handoff that delivered the same content.
THEOREM DeletedStaysGone == Spec => []DeletedGone
  <1>1. IngressInv => DeletedGone
    BY Zenon DEF IngressInv, Settledness, Finished, DeletedGone
  <1> QED
    BY <1>1, IngressInvariant, PTL
=============================================================================
