--------------------------- MODULE PrivateIngress ---------------------------
(***************************************************************************)
(* pkg/privateingress: a receiver issues a challenge for a handoff, accepts *)
(* one upload against it, acknowledges the stored bytes, and deletes them   *)
(* on the owner's order.  One directory holds a challenge record for each   *)
(* handoff and one object for each content, named by its digest, so that    *)
(* handoffs of the same content share an object.                            *)
(*                                                                         *)
(* The Store's mutex is held for the whole of a call and the directory lock *)
(* from Open to Close, so at most one call runs.  Close is taken to be      *)
(* called when no call runs or waits for the mutex: one that waits has      *)
(* checked the lock before it got the mutex, and would go on without it.    *)
(* What interferes is the end of the process, a power loss, or a            *)
(* file call that fails.  Signatures, fences and encryption are external:   *)
(* a call they refuse returns an error and changes nothing.                 *)
(***************************************************************************)
EXTENDS Naturals, FiniteSets, DurableFile

CONSTANTS Handoffs,
          Terms,       \* Terms[h]: challenge bodies for h, up to the encryption key
          Uploads,     \* authorized uploads
          HandoffOf,   \* HandoffOf[x]: the handoff that upload or deletion x is authorized for
          ContentOf,   \* ContentOf[u]: the content digest in the manifest of upload u
          Deletions,   \* authorized deletion actions
          None,
          Faults,      \* what may happen, of "crash", "power", "disk"
          MaxKeys,     \* bound: encryption keys drawn for one handoff
          MaxFaults,   \* bound: crashes, power losses and failed calls
          MaxEntries   \* directory entries findChallenge looks at (10,000)

Contents == {ContentOf[u] : u \in Uploads}
Bodies == UNION {Terms[h] : h \in Handoffs}

ASSUME HandoffAssumption == HandoffOf \in [Uploads \cup Deletions -> Handoffs]
ASSUME NoneAssumption == None \notin Uploads \cup Deletions
ASSUME BoundsAssumption == {MaxKeys, MaxFaults, MaxEntries} \subseteq Nat

VARIABLES
  pc,         \* "none" (no Store), "idle", or the place of the call that runs
  call,       \* the call and its arguments
  entry,      \* the challenge record the call is about to write
  challenge,  \* challenge[h]: the record file of handoff h
  object,     \* object[c]: the object file of content c
  keys,       \* keys[h]: how many encryption keys were drawn for h
  issued,     \* challenges returned by IssueChallenge
  accepted,   \* uploads Accept reported accepted once it had synced their record
  stored,     \* [h, c]: Accept for h stored content c, or found it stored
  resumed,    \* contents a Delete removed under a journal entry of an earlier call
  resolved,   \* deletions Delete reported terminal
  temporaries,  \* how many temporary files replacePrivate left behind
  faults

vars == <<pc, call, entry, challenge, object, keys, issued, accepted, stored,
          resumed, resolved, temporaries, faults>>
files == <<challenge, object>>
history == <<issued, accepted, stored, resumed, resolved>>
mishaps == <<temporaries, faults>>

-----------------------------------------------------------------------------
(* Data *)

\* challengeRecord: the challenge is its handoff (the file), terms and key; a record
\* with an accepted upload has no private key any more.
Record(t, k) == [kind |-> "challenge", terms |-> t, key |-> k, upload |-> None,
                 deletion |-> None, state |-> "kept"]
Records == [kind : {"challenge"}, terms : Bodies, key : 1..MaxKeys,
            upload : Uploads \cup {None}, deletion : Deletions \cup {None},
            state : {"kept", "deleting", "deleted"}]

Bytes(c) == [kind |-> "bytes", of |-> c]
Objects == {Bytes(c) : c \in Contents}

\* A challenge as IssueChallenge returns it and the other calls name it.
Challenge(h, r) == [h |-> h, terms |-> r.terms, key |-> r.key]
Challenges == [h : Handoffs, terms : Bodies, key : 1..MaxKeys]

Idle == [op |-> "none"]
Issue(h, t) == [op |-> "issue", h |-> h, terms |-> t]
Accept(ch, u) == [op |-> "accept", h |-> ch.h, of |-> ch, upload |-> u, bytes |-> "synced"]
Delete(ch, d) == [op |-> "delete", h |-> ch.h, of |-> ch, deletion |-> d]

Seen(h) == challenge[h].seen
IsRecord(r) == r.kind = "challenge"

\* The content the running call is about.
Content == ContentOf[IF call.op = "accept" THEN call.upload ELSE entry.upload]

\* The entries of the directory: the lock, records, objects and temporaries.
Entries ==
  1 + Cardinality({h \in Handoffs : Seen(h) # Absent})
    + Cardinality({c \in Contents : object[c].seen # Absent}) + temporaries

\* findChallenge: the record whose challenge has the digest (unreadable ones are passed
\* over; a challenge names its handoff, so no other file can hold it), unless the
\* directory has grown past its bound.
Found ==
  /\ Entries <= MaxEntries
  /\ IsRecord(Seen(call.h)) /\ Challenge(call.h, Seen(call.h)) = call.of

-----------------------------------------------------------------------------

Init ==
  /\ pc = "none" /\ call = Idle /\ entry = Absent
  /\ challenge = [h \in Handoffs |-> NoFile]
  /\ object = [c \in Contents |-> NoFile]
  /\ keys = [h \in Handoffs |-> 0]
  /\ issued = {} /\ accepted = {} /\ stored = {} /\ resumed = {} /\ resolved = {}
  /\ temporaries = 0 /\ faults = 0

\* syncPrivateDirectory: records and objects share the directory.
DirectorySynced ==
  /\ challenge' = [h \in Handoffs |-> DirSynced(challenge[h])]
  /\ object' = [c \in Contents |-> DirSynced(object[c])]

Open ==
  /\ pc = "none"
  /\ pc' = "idle"
  /\ UNCHANGED <<call, entry, files, keys, history, mishaps>>

Close ==
  /\ pc = "idle"
  /\ pc' = "none"
  /\ UNCHANGED <<call, entry, files, keys, history, mishaps>>

\* A call takes the mutex.  Uploads and deletions name a challenge the sender was given.
Begin ==
  /\ pc = "idle"
  /\ pc' = "locked"
  /\ \/ \E h \in Handoffs : \E t \in Terms[h] :
          /\ Seen(h) # Absent \/ keys[h] < MaxKeys
          /\ call' = Issue(h, t)
     \/ \E ch \in issued, u \in Uploads : HandoffOf[u] = ch.h /\ call' = Accept(ch, u)
     \/ \E ch \in issued, d \in Deletions : HandoffOf[d] = ch.h /\ call' = Delete(ch, d)
  /\ UNCHANGED <<entry, files, keys, history, mishaps>>

\* The owner repeats the deletion of h that is in progress.
Repeat(h) ==
  /\ Begin
  /\ IsRecord(Seen(h)) /\ Seen(h).state = "deleting"
  /\ call' = Delete(Challenge(h, Seen(h)), Seen(h).deletion)

Return == pc' = "idle" /\ call' = Idle /\ entry' = Absent

\* What each call refuses: the fence, the action or the ciphertext does not verify
\* (issue has none of them), or the record does not allow it.
Refused ==
  \/ call.op # "issue"
  \/ Seen(call.h) = Torn
  \/ call.op = "issue" /\ IsRecord(Seen(call.h)) /\ Seen(call.h).terms # call.terms

Refuse ==
  /\ pc = "locked"
  /\ Refused
  /\ Return
  /\ UNCHANGED <<files, keys, history, mishaps>>

-----------------------------------------------------------------------------
(* IssueChallenge *)

\* An exact repeat gets the challenge it was given before.
IssueAgain ==
  /\ pc = "locked" /\ call.op = "issue"
  /\ IsRecord(Seen(call.h)) /\ Seen(call.h).terms = call.terms
  /\ issued' = issued \cup {Challenge(call.h, Seen(call.h))}
  /\ Return
  /\ UNCHANGED <<files, keys, accepted, stored, resumed, resolved, mishaps>>

\* A fresh key; createPrivate creates the record exclusively,
IssueCreate ==
  /\ pc = "locked" /\ call.op = "issue"
  /\ Seen(call.h) = Absent
  /\ keys' = [keys EXCEPT ![call.h] = @ + 1]
  /\ entry' = Record(call.terms, keys[call.h] + 1)
  /\ challenge' = [challenge EXCEPT ![call.h] = Created(@)]
  /\ pc' = "created"
  /\ UNCHANGED <<call, object, history, mishaps>>

\* writes and syncs it,
CreateWrite ==
  /\ pc = "created"
  /\ challenge' = [challenge EXCEPT ![call.h] = Written(@, entry)]
  /\ pc' = "written"
  /\ UNCHANGED <<call, entry, object, keys, history, mishaps>>

CreateSync ==
  /\ pc = "written"
  /\ challenge' = [challenge EXCEPT ![call.h] = Synced(@)]
  /\ pc' = "synced"
  /\ UNCHANGED <<call, entry, object, keys, history, mishaps>>

\* and syncs the directory.
CreateSyncDirectory ==
  /\ pc = "synced"
  /\ DirectorySynced
  /\ issued' = issued \cup {Challenge(call.h, entry)}
  /\ Return
  /\ UNCHANGED <<keys, accepted, stored, resumed, resolved, mishaps>>

-----------------------------------------------------------------------------
(* Accept *)

Report ==
  accepted' = accepted \cup {[of |-> call.of, upload |-> call.upload, bytes |-> call.bytes]}

\* An exact repeat is told so again, from a record that may not be synced.
AcceptAgain ==
  /\ pc = "locked" /\ call.op = "accept"
  /\ Found /\ Seen(call.h).upload = call.upload
  /\ Return
  /\ UNCHANGED <<files, keys, history, mishaps>>

\* Mutant: a challenge that has accepted an upload accepts another.
AcceptBeginsAgain ==
  /\ pc = "locked" /\ call.op = "accept"
  /\ Found
  /\ entry' = [Seen(call.h) EXCEPT !.upload = call.upload]
  /\ pc' = "storing"
  /\ UNCHANGED <<call, files, keys, history, mishaps>>

\* The first upload opens with the key of the record.
AcceptBegin ==
  /\ pc = "locked" /\ call.op = "accept"
  /\ Found /\ Seen(call.h).upload = None
  /\ entry' = [Seen(call.h) EXCEPT !.upload = call.upload]
  /\ pc' = "storing"
  /\ UNCHANGED <<call, files, keys, history, mishaps>>

Stored == stored' = stored \cup {[h |-> call.h, c |-> Content]}

\* createPrivate of the object,
StoreCreate ==
  /\ pc = "storing"
  /\ object[Content].seen = Absent
  /\ object' = [object EXCEPT ![Content] = Created(@)]
  /\ pc' = "objectCreated"
  /\ Stored
  /\ UNCHANGED <<call, entry, challenge, keys, issued, accepted, resumed, resolved, mishaps>>

StoreWrite ==
  /\ pc = "objectCreated"
  /\ object' = [object EXCEPT ![Content] = Written(@, Bytes(Content))]
  /\ pc' = "objectWritten"
  /\ UNCHANGED <<call, entry, challenge, keys, history, mishaps>>

StoreSync ==
  /\ pc = "objectWritten"
  /\ object' = [object EXCEPT ![Content] = Synced(@)]
  /\ pc' = "objectSynced"
  /\ UNCHANGED <<call, entry, challenge, keys, history, mishaps>>

StoreSyncDirectory ==
  /\ pc = "objectSynced"
  /\ DirectorySynced
  /\ pc' = "replacing"
  /\ UNCHANGED <<call, entry, keys, history, mishaps>>

\* or its failure: equal bytes under the name are as good, synced or not.
StoreFound ==
  /\ pc' = "replacing"
  /\ call' = [call EXCEPT !.bytes = "found"]
  /\ Stored
  /\ UNCHANGED entry

StoreExists ==
  /\ pc = "storing"
  /\ object[Content].seen # Absent
  /\ \/ object[Content].seen = Bytes(Content) /\ StoreFound
     \/ object[Content].seen = Torn /\ Return /\ UNCHANGED stored
  /\ UNCHANGED <<files, keys, issued, accepted, resumed, resolved, mishaps>>

-----------------------------------------------------------------------------
(* Delete *)

Resolve == resolved' = resolved \cup {[h |-> call.h, c |-> Content, deletion |-> call.deletion]}

\* No other deletion has begun.
Deletable ==
  /\ call.op = "delete"
  /\ Found /\ Seen(call.h).upload # None
  /\ Seen(call.h).deletion \in {None, call.deletion}

DeleteAgain ==
  /\ pc = "locked" /\ Deletable
  /\ Seen(call.h).state = "deleted"
  /\ resolved' = resolved \cup {[h |-> call.h, c |-> ContentOf[Seen(call.h).upload],
                                 deletion |-> call.deletion]}
  /\ Return
  /\ UNCHANGED <<files, keys, issued, accepted, stored, resumed, mishaps>>

\* Mutant: the object is removed before the deletion is journaled.
DeleteUnjournaled ==
  /\ pc = "locked" /\ Deletable
  /\ Seen(call.h).state = "kept"
  /\ entry' = [Seen(call.h) EXCEPT !.deletion = call.deletion, !.state = "deleting"]
  /\ pc' = "removing"
  /\ UNCHANGED <<call, files, keys, history, mishaps>>

\* The deletion is to be journaled as in progress,
DeleteBegin ==
  /\ pc = "locked" /\ Deletable
  /\ Seen(call.h).state = "kept"
  /\ entry' = [Seen(call.h) EXCEPT !.deletion = call.deletion, !.state = "deleting"]
  /\ pc' = "replacing"
  /\ UNCHANGED <<call, files, keys, history, mishaps>>

\* or is, by a call that did not come to its end.
DeleteResume ==
  /\ pc = "locked" /\ Deletable
  /\ Seen(call.h).state = "deleting"
  /\ entry' = Seen(call.h)
  /\ resumed' = resumed \cup {ContentOf[Seen(call.h).upload]}
  /\ pc' = "removing"
  /\ UNCHANGED <<call, files, keys, issued, accepted, stored, resolved, mishaps>>

\* Mutant: an object that is gone already is an error.
DeleteNeedsObject ==
  /\ pc = "removing"
  /\ \/ /\ object[Content].seen # Absent
        /\ object' = [object EXCEPT ![Content] = Removed(@)]
        /\ pc' = "removed"
        /\ UNCHANGED <<call, entry>>
     \/ /\ object[Content].seen = Absent
        /\ Return
        /\ UNCHANGED object
  /\ UNCHANGED <<challenge, keys, history, mishaps>>

\* The object is removed, if it is there,
DeleteRemove ==
  /\ pc = "removing"
  /\ object' = IF object[Content].seen = Absent THEN object
               ELSE [object EXCEPT ![Content] = Removed(@)]
  /\ pc' = "removed"
  /\ UNCHANGED <<call, entry, challenge, keys, history, mishaps>>

\* Mutant: the removal is not synced before the record says "deleted".
DeleteSkipsSync ==
  /\ pc = "removed"
  /\ entry' = [entry EXCEPT !.state = "deleted"]
  /\ pc' = "replacing"
  /\ UNCHANGED <<call, files, keys, history, mishaps>>

\* the directory synced, and the record finished.
DeleteSync ==
  /\ pc = "removed"
  /\ DirectorySynced
  /\ entry' = [entry EXCEPT !.state = "deleted"]
  /\ pc' = "replacing"
  /\ UNCHANGED <<call, keys, history, mishaps>>

-----------------------------------------------------------------------------
(* replacePrivate, for Accept and both records of Delete *)

ReplaceRename ==
  /\ pc = "replacing"
  /\ challenge' = [challenge EXCEPT ![call.h] = Replaced(@, entry)]
  /\ pc' = "renamed"
  /\ UNCHANGED <<call, entry, object, keys, history, mishaps>>

\* What follows a record that is in place.
Replacing ==
  \/ /\ call.op = "accept"
     /\ Report /\ Return
     /\ UNCHANGED resolved
  \/ /\ call.op = "delete" /\ entry.state = "deleting"
     /\ pc' = "removing"
     /\ UNCHANGED <<call, entry, accepted, resolved>>
  \/ /\ call.op = "delete" /\ entry.state = "deleted"
     /\ Resolve /\ Return
     /\ UNCHANGED accepted

ReplaceSync ==
  /\ pc = "renamed"
  /\ DirectorySynced
  /\ Replacing
  /\ UNCHANGED <<keys, issued, stored, resumed, mishaps>>

-----------------------------------------------------------------------------
(* What stops a call *)

Fault(kind) ==
  /\ kind \in Faults
  /\ faults < MaxFaults
  /\ faults' = faults + 1

\* A replacePrivate that is cut short, or whose rename fails, leaves its temporary.
LeftBy(place) ==
  IF place = "replacing" THEN {temporaries, temporaries + 1} ELSE {temporaries}

\* A file call fails and leaves the files as they are.  IssueChallenge and Accept read
\* again what they could not create, and go on with it when it is what they wanted.
FileFails ==
  /\ Fault("disk")
  /\ \/ /\ pc \in {"written", "synced"}
        /\ issued' = issued \cup {Challenge(call.h, entry)}
        /\ Return
        /\ UNCHANGED stored
     \/ /\ pc \in {"objectWritten", "objectSynced"}
        /\ StoreFound
        /\ UNCHANGED issued
     \/ /\ pc \in {"locked", "created", "storing", "objectCreated", "removing", "removed",
                 "replacing", "renamed"}
        /\ Return
        /\ UNCHANGED <<issued, stored>>
  /\ temporaries' \in LeftBy(pc)
  /\ UNCHANGED <<files, keys, accepted, resumed, resolved>>

Gone ==
  /\ pc' = "none" /\ call' = Idle /\ entry' = Absent
  /\ UNCHANGED <<keys, history>>

Crash ==
  /\ Fault("crash")
  /\ pc # "none"
  /\ Gone
  /\ temporaries' \in LeftBy(pc)
  /\ UNCHANGED files

\* Temporaries that were not synced go as well.
PowerLoss ==
  /\ Fault("power")
  /\ Gone
  /\ \E left \in LeftBy(pc) : temporaries' \in 0..left
  /\ \E kept \in [Handoffs -> UNION {Survivors(challenge[h]) : h \in Handoffs}] :
       /\ \A h \in Handoffs : kept[h] \in Survivors(challenge[h])
       /\ challenge' = [h \in Handoffs |-> Settled(kept[h])]
  /\ \E kept \in [Contents -> UNION {Survivors(object[c]) : c \in Contents}] :
       /\ \A c \in Contents : kept[c] \in Survivors(object[c])
       /\ object' = [c \in Contents |-> Settled(kept[c])]

-----------------------------------------------------------------------------

IssueChallenge == IssueAgain \/ IssueCreate \/ CreateWrite \/ CreateSync \/ CreateSyncDirectory

AcceptUpload ==
  \/ AcceptAgain \/ AcceptBegin
  \/ StoreCreate \/ StoreWrite \/ StoreSync \/ StoreSyncDirectory \/ StoreExists

DeleteContent ==
  DeleteAgain \/ DeleteBegin \/ DeleteResume \/ DeleteRemove \/ DeleteSync

Replace == ReplaceRename \/ ReplaceSync

Next ==
  \/ Open \/ Close \/ Begin \/ Refuse
  \/ IssueChallenge \/ AcceptUpload \/ DeleteContent \/ Replace
  \/ FileFails \/ Crash \/ PowerLoss

Spec == Init /\ [][Next]_vars

\* The Store is opened again, a call goes on, the owner repeats its deletions, and of
\* the calls that could go on with one in progress some present a fence and an action
\* that verify (both are the caller's, and the external checks accept the same action
\* under a current fence).  Nothing is assumed of the other refusals.
FairSpec ==
  /\ Spec
  /\ WF_vars(Open)
  /\ WF_vars(Refuse \/ IssueChallenge \/ AcceptUpload \/ DeleteContent \/ Replace)
  /\ \A h \in Handoffs : SF_vars(Repeat(h))
  /\ SF_vars(DeleteResume)

-----------------------------------------------------------------------------
(* Properties *)

\* Every variable holds values of its kind.
TypeOK ==
  /\ pc \in {"none", "idle", "locked", "created", "written", "synced", "storing",
            "objectCreated", "objectWritten", "objectSynced", "removing", "removed",
            "replacing", "renamed"}
  /\ call = Idle \/ call.op \in {"issue", "accept", "delete"}
  /\ entry \in Records \cup {Absent}
  /\ challenge \in [Handoffs -> Files(Records)] /\ object \in [Contents -> Files(Objects)]
  /\ keys \in [Handoffs -> 0..MaxKeys] /\ issued \subseteq Challenges
  /\ accepted \subseteq [of : Challenges, upload : Uploads, bytes : {"synced", "found"}]
  /\ stored \subseteq [h : Handoffs, c : Contents] /\ resumed \subseteq Contents
  /\ resolved \subseteq [h : Handoffs, c : Contents, deletion : Deletions]
  /\ faults \in 0..MaxFaults /\ temporaries \in 0..faults

\* OpenAccepted, and Acknowledge with it, for the record of upload u when the name of
\* its content leads to r: the size and the digest of what is read must match.
OpenAccepted(u, r) == r = Bytes(ContentOf[u])

Readable(f) == {f.seen} \cup Survivors(f)

\* An upload whose record Accept synced itself stays the one its challenge accepted:
\* no restart, power loss, retry, other upload or deletion gives the challenge another
\* one, or its key back (Accept replaces the record before it reports).
AcceptedKept ==
  \A a \in accepted :
    \A r \in Readable(challenge[a.of.h]) :
      IsRecord(r) /\ Challenge(a.of.h, r) = a.of /\ r.upload = a.upload

\* The deletion of a handoff with content c is on disk.
Journaled(c) ==
  \E h \in Handoffs : \A r \in Survivors(challenge[h]) :
    IsRecord(r) /\ r.state # "kept" /\ ContentOf[r.upload] = c

\* The bytes of an accepted upload survive whatever happens until a deletion of that
\* content is journaled ("Delete first journals an exact deletion as in-progress"),
\* provided Accept stored them itself (it does not sync what it finds) and no Delete
\* went on from a journal entry it found (which may not be synced).
KeptUntilJournaled ==
  \A a \in accepted :
    LET c == ContentOf[a.upload] IN
      a.bytes = "synced" /\ c \notin resumed
        => (\A r \in Readable(object[c]) : OpenAccepted(a.upload, r)) \/ Journaled(c)

\* Once Delete reported a deletion terminal no crash or power loss brings the bytes
\* back, however the call came to its end; they are there only if another handoff
\* delivered the same content.
DeletedGone ==
  \A d \in resolved :
    Bytes(d.c) \in Readable(object[d.c]) => \E s \in stored : s.c = d.c /\ s.h # d.h

\* A deletion in progress comes to its end, after any crash, if its owner repeats it
\* ("A crash can only be recovered by replaying this same action"): nothing a failed
\* or interrupted Delete leaves behind keeps the next one from finishing, but for a
\* directory that stays past the bound of findChallenge (records and temporaries are
\* never removed, and IssueChallenge does not look at the bound).
DeletionEnds ==
  \A h \in Handoffs :
    (IsRecord(Seen(h)) /\ Seen(h).state = "deleting")
      ~> \/ IsRecord(Seen(h)) /\ Seen(h).state # "deleting"
         \/ [](Entries > MaxEntries)
=============================================================================
