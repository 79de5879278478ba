-------------------------- MODULE EventBridgeProofs --------------------------
(***************************************************************************)
(* Proofs about EventBridge, for any Events of any kinds, any number of     *)
(* concurrent requests and deliveries, any routes and any faults.           *)
(***************************************************************************)
EXTENDS EventBridge, TLAPS, WellFoundedInduction

\* The time limits, in seconds, of the leaves that name no prover.
USE SMTT(30), ZenonT(20)

-----------------------------------------------------------------------------
(* The inductive invariant. *)

\* What may be found under a name, now or after a power loss.
Present(f) == {f.seen} \cup Survivors(f)

Recording == {"enqueue"} \cup Enqueueing
Completing == {"complete", "renamed"}

\* Which Event and result an actor has at which place; what the publisher completes is
\* queued.
ThreadOK(place, e, r) ==
  /\ place \in ThreadStates
  /\ place # "idle" => e \in Events
  /\ place \in {"claim", "run", "owner", "journal"} => Kind[e] # "mcp.result"
  /\ place \in Recording \cup Completing => r \in Results
  /\ place \in Completing => Kind[e] = "mcp.result"

PublisherOK(place, e, r, q) ==
  /\ place \in PublisherStates
  /\ place \in Completing => e \in Outbound /\ r \in Results /\ Item(e, r) \in q

Placed ==
  /\ pc \in [Actors -> ThreadStates \cup PublisherStates]
  /\ \A t \in Threads : ThreadOK(pc[t], ev[t], res[t])
  /\ PublisherOK(pc[Publisher], ev[Publisher], res[Publisher], queued)

\* Who writes in a directory is inside its ResultOutbox.
Exclusive ==
  \A a \in Actors : pc[a] \in Enqueueing \cup {"renamed"} => mutex[Dir(a)] = a

\* How far the record is.
Writing ==
  /\ \A e \in Events : Seen(e) \in box[e].data
  /\ \A t \in Threads :
       /\ pc[t] \in Enqueueing => Absent \in box[ev[t]].old
       /\ pc[t] \in {"written", "synced"} => Seen(ev[t]) = Pending(res[t])
       /\ pc[t] = "synced" => box[ev[t]].data = {Pending(res[t])}
  /\ \A a \in Actors : pc[a] = "renamed" =>
       Seen(ev[a]) = Done(res[a]) /\ box[ev[a]].data = {Done(res[a])}

\* Whoever creates a record knows that nothing was made of an earlier one but what a
\* power loss undid.
Fresh ==
  \A t \in Threads : pc[t] \in Enqueueing =>
    /\ \A i \in queued : i.event = ev[t] => i \in lost
    /\ \A a \in acked : a.event = ev[t] => Item(a.event, a.result) \in lost
    /\ \A i \in todo : i.event # ev[t]

\* What the publisher has listed is recorded.
Listed == \A i \in todo : i.event \in Outbound /\ Holds(Seen(i.event), i.result)

\* The work of e was completed for it, and still is but for a power loss.
Backed(e) ==
  LET w == work[ExecutionOf[e]]
  IN  /\ w.print = PrintOf[e]
      /\ \/ w.kind \in {"renamed", "complete"}
         \/ w.kind = "running" /\ ExecutionOf[e] \in undone

\* The work behind a success, recorded or about to be, is backed.
Backing ==
  /\ \A e \in Outbound : \A c \in Present(box[e]) :
       c.kind \in {"pending", "complete"} /\ c.result.status = "completed" => Backed(e)
  /\ \A t \in Threads :
       /\ pc[t] = "owner" => /\ work[ExecutionOf[ev[t]]].kind # "absent"
                             /\ work[ExecutionOf[ev[t]]].print = PrintOf[ev[t]]
       /\ pc[t] = "journal" => Backed(ev[t])
       /\ pc[t] \in Recording /\ ev[t] \in Outbound /\ res[t].status = "completed" => Backed(ev[t])

BridgeInv ==
  /\ TypeOK /\ Placed /\ Exclusive /\ Writing /\ Fresh /\ Listed /\ Backing
  /\ AckedRecorded /\ QueuedRecorded /\ DoneIsQueued

-----------------------------------------------------------------------------
(* Results, records and files. *)

\* The file operators of DurableFile keep the type of a file.
LEMMA FileTypes ==
  ASSUME NEW R, NEW f \in Files(R), NEW r \in R
  PROVE  /\ NoFile \in Files(R)
         /\ Created(f) \in Files(R)
         /\ Written(f, r) \in Files(R)
         /\ Synced(f) \in Files(R)
         /\ DirSynced(f) \in Files(R)
         /\ Removed(f) \in Files(R)
         /\ Replaced(f, r) \in Files(R)
  BY Zenon DEF Files, NoFile, Created, Written, Synced, DirSynced, Removed, Replaced, Survivors,
         Absent, Torn

\* So does a power loss.
LEMMA SettledType ==
  ASSUME NEW R, NEW f \in Files(R), NEW c \in Survivors(f)
  PROVE  Settled(c) \in Files(R)
  BY Zenon DEF Files, Settled, Survivors

\* A record holds one result; a file that nobody can read holds none.
LEMMA RecordMeans ==
  /\ \A r : Pending(r).kind = "pending" /\ Pending(r).result = r
  /\ \A r : Done(r).kind = "complete" /\ Done(r).result = r
  /\ \A r \in Results : Pending(r) \in Records /\ Done(r) \in Records
  /\ \A c \in Records : /\ c.result \in Results /\ Holds(c, c.result)
                        /\ c.kind = "pending" => c = Pending(c.result)
                        /\ c.kind = "complete" => c = Done(c.result)
  /\ \A c, r : Holds(c, r) => c.kind \in {"pending", "complete"} /\ c.result = r
  /\ \A r : ~Holds(Absent, r) /\ ~Holds(Torn, r)
  /\ Absent.kind = "absent" /\ Torn.kind = "torn"
  <1>1. /\ \A r : Pending(r).kind = "pending" /\ Pending(r).result = r
        /\ \A r : Done(r).kind = "complete" /\ Done(r).result = r
        /\ Absent.kind = "absent" /\ Torn.kind = "torn"
    BY Zenon DEF Pending, Done, Absent, Torn
  <1>2. \A r \in Results : Pending(r) \in Records /\ Done(r) \in Records
    BY Zenon DEF Pending, Done, Records
  <1>3. \A c \in Records : /\ c.result \in Results /\ c.kind \in {"pending", "complete"}
                           /\ c.kind = "pending" => c = Pending(c.result)
                           /\ c.kind = "complete" => c = Done(c.result)
    BY DEF Records, Pending, Done
  <1>4. \A c \in Records : Holds(c, c.result)
    BY <1>3, Zenon DEF Holds
  <1>5. \A c, r : Holds(c, r) => c.kind \in {"pending", "complete"} /\ c.result = r
    BY <1>1, Zenon DEF Holds
  <1>6. \A r : ~Holds(Absent, r) /\ ~Holds(Torn, r)
    BY <1>1, <1>5, Zenon
  <1> QED
    BY <1>1, <1>2, <1>3, <1>4, <1>5, <1>6, Zenon

\* An Event's record is in one of two directories.
LEMMA DirectoryMeans ==
  /\ \A e : Directory(e) \in Directories
  /\ Outbound \subseteq Events
  /\ \A e \in Events : e \in Outbound <=> Kind[e] # "mcp.result"
  /\ \A e \in Outbound : Directory(e) = "result-outbox"
  BY Zenon DEF Directory, Directories, Outbound

\* Of the listed results one comes first.
LEMMA ForemostMeans ==
  ASSUME TypeOK, todo # {}
  PROVE  Foremost \in todo
  <1> DEFINE T == {i.event : i \in todo}
             R == OpToRel(<, Nat)
  <1>1. T \subseteq Nat /\ T # {}
    <2>1. todo \subseteq Items
      BY Zenon DEF TypeOK
    <2>2. \A i \in todo : i.event \in Nat
      BY <2>1, EventsAssumption, Zenon DEF Items
    <2>3. PICK i : i \in todo
      BY Zenon
    <2>4. i.event \in T
      BY <2>3, Zenon
    <2> QED
      BY <2>2, <2>4, Zenon
  <1>2. IsWellFoundedOn(R, Nat)
    BY NatLessThanWellFounded, Zenon
  <1>3. \A m, n \in Nat : <<m, n>> \in R <=> m < n
    BY Zenon DEF OpToRel
  <1> HIDE DEF T, R
  <1>4. PICK m \in T : \A n \in T : ~(<<n, m>> \in R)
    BY <1>1, <1>2, WFMin, Zenon
  <1>5. \A n \in T : m <= n
    <2>1. \A n \in T : m \in Nat /\ n \in Nat /\ ~(n < m)
      BY <1>1, <1>3, <1>4, Zenon
    <2> QED
      BY <2>1
  <1>6. \E i \in todo : \A j \in todo : i.event <= j.event
    BY <1>5, Zenon DEF T
  <1> QED
    BY <1>6, Zenon DEF Foremost

\* What the file operations leave to be found.
LEMMA PresentAfter ==
  ASSUME NEW f, NEW r
  PROVE  /\ Present(Created(f)) \subseteq {Torn} \cup Present(f)
         /\ Created(f).seen = Torn /\ Created(f).data = {Torn} /\ Created(f).old = Survivors(f)
         /\ Present(Written(f, r)) \subseteq {r} \cup Present(f)
         /\ Written(f, r).seen = r /\ Written(f, r).data = f.data \cup {r} /\ Written(f, r).old = f.old
         /\ Present(Synced(f)) \subseteq Present(f)
         /\ Synced(f).seen = f.seen /\ Synced(f).data = {f.seen} /\ Synced(f).old = f.old
         /\ Present(Removed(f)) \subseteq {Absent} \cup Present(f)
         /\ Removed(f).seen = Absent /\ Removed(f).data = {Absent}
         /\ Present(Replaced(f, r)) \subseteq {r} \cup Present(f)
         /\ Replaced(f, r).seen = r /\ Replaced(f, r).data = {r}
  BY Zenon DEF Present, Created, Written, Synced, Removed, Replaced, Survivors

LEMMA PresentLess ==
  ASSUME NEW f, NEW r
  PROVE  /\ Present(DirSynced(f)) \subseteq Present(f)
         /\ DirSynced(f).seen = f.seen /\ DirSynced(f).data = f.data /\ DirSynced(f).old = {}
         /\ Present(Settled(r)) = {r}
         /\ Settled(r).seen = r /\ Settled(r).data = {r} /\ Settled(r).old = {}
         /\ f.seen \in Present(f) /\ Survivors(f) \subseteq Present(f) /\ f.old \subseteq Present(f)
         /\ f.seen \in f.data => Present(f) = Survivors(f)
  BY Zenon DEF Present, DirSynced, Settled, Survivors

\* Syncing the directory leaves the blocks, and nothing else, to be found.
LEMMA SyncedMeans ==
  ASSUME NEW f
  PROVE  /\ Survivors(DirSynced(f)) = f.data
         /\ f.data \subseteq Survivors(f)
  BY Zenon DEF DirSynced, Survivors

-----------------------------------------------------------------------------
(* How the actors move. *)

Holding == Enqueueing \cup {"renamed"}

Only(a) ==
  /\ pc' = [pc EXCEPT ![a] = pc'[a]] /\ ev' = [ev EXCEPT ![a] = ev'[a]]
  /\ res' = [res EXCEPT ![a] = res'[a]]

\* The actor is done with its Event.
Ends(a) ==
  /\ Only(a) /\ pc'[a] \in {"idle", "loop"}
  /\ a \in Threads => pc'[a] = "idle"
  /\ mutex' = mutex \/ (pc[a] \in Holding /\ Unlock(a))

Starts(t) ==
  /\ Only(t) /\ t \in Threads /\ pc[t] = "idle" /\ ev'[t] \in Events /\ mutex' = mutex
  /\ \/ Kind[ev'[t]] # "mcp.result" /\ pc'[t] = "claim"
     \/ Kind[ev'[t]] = "mcp.result" /\ pc'[t] = "enqueue" /\ res'[t] = Remote

\* It goes on with the Event and the result that it has.
Proceeds(a) ==
  /\ Only(a) /\ ev'[a] = ev[a] /\ res'[a] = res[a]
  /\ \/ a \in Threads /\ pc[a] = "claim" /\ pc'[a] = "run" /\ mutex' = mutex
     \/ a \in Threads /\ pc[a] = "run" /\ pc'[a] = "owner" /\ mutex' = mutex /\ RunnerClaims(a)
     \/ a \in Threads /\ pc[a] = "owner" /\ pc'[a] = "journal" /\ mutex' = mutex /\ RunnerRenames(a)
     \/ a \in Threads /\ pc[a] = "enqueue" /\ pc'[a] = "created" /\ EnqueueCreate(a)
     \/ a \in Threads /\ pc[a] = "created" /\ pc'[a] = "written" /\ mutex' = mutex /\ EnqueueWrite(a)
     \/ a \in Threads /\ pc[a] = "written" /\ pc'[a] = "synced" /\ mutex' = mutex /\ EnqueueSync(a)
     \/ /\ a \in Threads /\ pc'[a] = "complete" /\ Kind[ev[a]] = "mcp.result"
        /\ (pc[a] = "enqueue" /\ mutex' = mutex) \/ (pc[a] = "synced" /\ Unlock(a))
     \/ pc[a] = "complete" /\ pc'[a] = "renamed" /\ CompleteRename(a)

\* The adapter has a result for the receiver.
Obtains(t) ==
  /\ Only(t) /\ t \in Threads /\ pc[t] \in {"run", "owner", "journal"} /\ pc'[t] = "enqueue" /\ mutex' = mutex
  /\ ev'[t] = ev[t] /\ res'[t] \in Results
  /\ res'[t].status = "completed" => RunnerReplays(t) \/ RunnerCompletes(t)

Picks ==
  /\ Only(Publisher) /\ PublishCall /\ pc[Publisher] = "loop" /\ pc'[Publisher] = "complete" /\ mutex' = mutex
  /\ ev'[Publisher] = Foremost.event /\ res'[Publisher] = Foremost.result

Rests == UNCHANGED <<pc, ev, res, mutex>>
Resets == pc' = [a \in Actors |-> "idle"]

LEMMA OnlyMeans ==
  ASSUME TypeOK, Placed, NEW a \in Actors, NEW place, pc' = [pc EXCEPT ![a] = place]
  PROVE  /\ pc'[a] = place
         /\ UNCHANGED <<ev, res>> => Only(a) /\ ev'[a] = ev[a] /\ res'[a] = res[a]
         /\ \A r : ev' = ev /\ res' = [res EXCEPT ![a] = r] => Only(a) /\ ev'[a] = ev[a] /\ res'[a] = r
         /\ \A e, r : ev' = [ev EXCEPT ![a] = e] /\ res' = [res EXCEPT ![a] = r] =>
              Only(a) /\ ev'[a] = e /\ res'[a] = r
         /\ \A e : ev' = [ev EXCEPT ![a] = e] /\ res' = res => Only(a) /\ ev'[a] = e /\ res'[a] = res[a]
  <1>1. /\ pc \in [Actors -> ThreadStates \cup PublisherStates] /\ ev \in [Actors -> Events \cup {NoEvent}]
        /\ res \in [Actors -> Results \cup {NoResult}]
    BY Zenon DEF TypeOK, Placed
  <1>2. pc'[a] = place /\ pc' = [pc EXCEPT ![a] = pc'[a]]
    BY <1>1, Zenon
  <1>3. /\ ev' = ev => ev' = [ev EXCEPT ![a] = ev'[a]]
        /\ \A e : ev' = [ev EXCEPT ![a] = e] => ev'[a] = e /\ ev' = [ev EXCEPT ![a] = ev'[a]]
    BY <1>1, Zenon
  <1>4. /\ res' = res => res' = [res EXCEPT ![a] = res'[a]]
        /\ \A r : res' = [res EXCEPT ![a] = r] => res'[a] = r /\ res' = [res EXCEPT ![a] = res'[a]]
    BY <1>1, Zenon
  <1> QED
    BY <1>2, <1>3, <1>4, Zenon DEF Only

\* The other actors stay where they are.
LEMMA OthersStay ==
  ASSUME TypeOK, Placed, NEW a \in Actors, Only(a)
  PROVE  \A b \in Actors : b # a => pc'[b] = pc[b] /\ ev'[b] = ev[b] /\ res'[b] = res[b]
  BY Zenon DEF TypeOK, Placed, Only

LEMMA OnlySets ==
  ASSUME TypeOK, Placed, NEW a \in Actors, NEW place, NEW e, NEW r,
         pc' = [pc EXCEPT ![a] = place], ev' = [ev EXCEPT ![a] = e], res' = [res EXCEPT ![a] = r]
  PROVE  Only(a) /\ pc'[a] = place /\ ev'[a] = e /\ res'[a] = r
  <1>1. /\ pc \in [Actors -> ThreadStates \cup PublisherStates] /\ ev \in [Actors -> Events \cup {NoEvent}]
        /\ res \in [Actors -> Results \cup {NoResult}]
    BY Zenon DEF TypeOK, Placed
  <1> QED
    BY <1>1, Zenon DEF Only

LEMMA AnswerMeans ==
  ASSUME TypeOK, Placed, NEW t \in Threads
  PROVE  /\ Answer503(t) => Only(t) /\ pc'[t] = "idle"
         /\ \A via : Accept(t, via) => Only(t) /\ pc'[t] = "idle"
  <1>1. t \in Actors
    BY Zenon DEF Actors
  <1>2. ASSUME pc' = [pc EXCEPT ![t] = "idle"], ev' = [ev EXCEPT ![t] = NoEvent],
               res' = [res EXCEPT ![t] = NoResult]
        PROVE  Only(t) /\ pc'[t] = "idle"
    BY <1>1, <1>2, OnlyMeans, Zenon
  <1> QED
    BY <1>2, Zenon DEF Answer503, Accept

LEMMA RunMeans ==
  ASSUME TypeOK, Placed, NEW t \in Threads, pc[t] \in {"run", "owner", "journal"}, mutex' = mutex
  PROVE  /\ Outcome(t) /\ (RunnerReplays(t) \/ RunnerCompletes(t)) => Obtains(t) \/ Ends(t)
         /\ RunnerError(t) => Obtains(t) \/ Ends(t)
  <1>1. t \in Actors
    BY Zenon DEF Actors
  <1>2. Answer503(t) => Ends(t)
    BY AnswerMeans, Zenon DEF Ends
  <1>3. /\ Task("completed", stamp[t]) \in Results /\ Task("failed", stamp[t]) \in Results /\ Output \in Results
        /\ Task("failed", stamp[t]).status # "completed"
    <2>1. stamp[t] \in 0..MaxDeliveries /\ 0 \in 0..MaxDeliveries
      BY BoundsAssumption DEF TypeOK
    <2> QED
      BY <2>1, Zenon DEF Task, Output, Results
  <1>4. ASSUME NEW r \in Results, Goto(t, "enqueue"), res' = [res EXCEPT ![t] = r], ev' = ev,
               r.status = "completed" => RunnerReplays(t) \/ RunnerCompletes(t)
        PROVE  Obtains(t)
    <2>1. pc'[t] = "enqueue" /\ Only(t) /\ ev'[t] = ev[t] /\ res'[t] = r
      BY <1>1, <1>4, OnlyMeans, Zenon DEF Goto
    <2> QED
      BY <1>4, <2>1, Zenon DEF Obtains
  <1>5. Outcome(t) /\ (RunnerReplays(t) \/ RunnerCompletes(t)) => Obtains(t) \/ Ends(t)
    BY <1>2, <1>3, <1>4, Zenon DEF Outcome
  <1>6. RunnerError(t) => Obtains(t) \/ Ends(t)
    BY <1>2, <1>3, <1>4, Zenon DEF RunnerError
  <1> QED
    BY <1>5, <1>6, Zenon

Moves ==
  \/ Rests \/ Resets \/ Picks
  \/ \E a \in Actors : Ends(a) \/ Starts(a) \/ Proceeds(a) \/ Obtains(a)

\* A step of a request.
LEMMA RequestMoves ==
  ASSUME TypeOK, Placed, NEW t \in Threads, Request(t)
  PROVE  Ends(t) \/ Proceeds(t) \/ Obtains(t)
  <1>1. t \in Actors
    BY Zenon DEF Actors
  <1>2. \A place : Goto(t, place) /\ UNCHANGED <<ev, res>> =>
          Only(t) /\ pc'[t] = place /\ ev'[t] = ev[t] /\ res'[t] = res[t]
    BY <1>1, OnlyMeans, Zenon DEF Goto
  <1>3. Answer503(t) /\ mutex' = mutex => Ends(t)
    BY AnswerMeans, Zenon DEF Ends
  <1>4. CASE ClaimExecution(t)
    BY <1>2, <1>3, <1>4, Zenon DEF ClaimExecution, Proceeds
  <1>5. CASE RunnerClaims(t)
    BY <1>2, <1>5, Zenon DEF RunnerClaims, Proceeds
  <1>6. CASE RunnerReplays(t) \/ RunnerRefuses(t)
    <2>1. pc[t] \in {"run", "owner", "journal"} /\ mutex' = mutex /\ ((Outcome(t) /\ RunnerReplays(t)) \/ RunnerError(t))
      BY <1>6, Zenon DEF RunnerReplays, RunnerRefuses
    <2> QED
      BY <2>1, RunMeans, Zenon
  <1>7. CASE RunnerCompletes(t) \/ RunnerUnsynced(t) \/ RunnerFails(t)
    <2>1. pc[t] \in {"run", "owner", "journal"} /\ mutex' = mutex /\ ((Outcome(t) /\ RunnerCompletes(t)) \/ RunnerError(t))
      BY <1>7, Zenon DEF RunnerCompletes, RunnerUnsynced, RunnerFails
    <2> QED
      BY <2>1, RunMeans, Zenon
  <1>8. CASE EnqueueCreate(t)
    BY <1>2, <1>8, Zenon DEF EnqueueCreate, Proceeds
  <1>9. CASE EnqueueWrite(t)
    BY <1>2, <1>9, Zenon DEF EnqueueWrite, Proceeds
  <1>10. CASE EnqueueSync(t)
    BY <1>2, <1>10, Zenon DEF EnqueueSync, Proceeds
  <1>11. CASE EnqueueSyncDirectory(t)
    <2>1. pc[t] = "synced" /\ pc[t] \in Holding /\ Unlock(t) /\ Recorded(t, "synced")
      BY <1>11, Zenon DEF EnqueueSyncDirectory, Holding, Enqueueing
    <2>2. CASE Kind[ev[t]] = "mcp.result"
      BY <1>2, <2>1, <2>2, Zenon DEF Recorded, Proceeds
    <2>3. CASE Kind[ev[t]] # "mcp.result"
      BY <2>1, <2>3, AnswerMeans, Zenon DEF Recorded, Ends
    <2> QED
      BY <2>2, <2>3, Zenon
  <1>12. CASE EnqueueUndo(t)
    <2>1. pc[t] \in Holding /\ Unlock(t) /\ Answer503(t)
      BY <1>12, Zenon DEF EnqueueUndo, Holding
    <2> QED
      BY <2>1, AnswerMeans, Zenon DEF Ends
  <1>13. CASE EnqueueSame(t)
    <2>1. pc[t] = "enqueue" /\ mutex' = mutex /\ Recorded(t, "found")
      BY <1>13, Zenon DEF EnqueueSame
    <2>2. CASE Kind[ev[t]] = "mcp.result"
      BY <1>2, <2>1, <2>2, Zenon DEF Recorded, Proceeds
    <2>3. CASE Kind[ev[t]] # "mcp.result"
      BY <2>1, <2>3, AnswerMeans, Zenon DEF Recorded, Ends
    <2> QED
      BY <2>2, <2>3, Zenon
  <1>14. CASE EnqueueConflict(t) \/ EnqueueError(t)
    BY <1>3, <1>14, Zenon DEF EnqueueConflict, EnqueueError
  <1>15. CASE RunnerRenames(t)
    BY <1>2, <1>15, Zenon DEF RunnerRenames, Proceeds
  <1> QED
    BY <1>4, <1>5, <1>6, <1>7, <1>8, <1>9, <1>10, <1>11, <1>12, <1>13, <1>14, <1>15, Zenon DEF Request

\* A step of ResultOutbox.Complete.
LEMMA CompleteMoves ==
  ASSUME TypeOK, Placed, NEW a \in Actors, Complete(a)
  PROVE  Ends(a) \/ Proceeds(a)
  <1>1. a = Publisher \/ a \in Threads
    BY Zenon DEF Actors
  <1>2. Handled(a) /\ a = Publisher => Only(a) /\ pc'[a] = "loop"
    BY OnlyMeans, Zenon DEF Handled
  <1>3. \A via : Completed(a, via) \/ NotCompleted(a) =>
          Only(a) /\ pc'[a] \in {"idle", "loop"} /\ (a \in Threads => pc'[a] = "idle")
    BY <1>1, <1>2, AnswerMeans, ActorsAssumption, Zenon DEF Completed, NotCompleted
  <1>4. CASE CompleteRename(a)
    <2>1. pc[a] = "complete" /\ Goto(a, "renamed") /\ UNCHANGED <<ev, res>>
      BY <1>4, Zenon DEF CompleteRename
    <2>2. Only(a) /\ pc'[a] = "renamed" /\ ev'[a] = ev[a] /\ res'[a] = res[a]
      BY <2>1, OnlyMeans, Zenon DEF Goto
    <2> QED
      BY <1>4, <2>1, <2>2, Zenon DEF Proceeds
  <1>5. CASE CompleteSyncDirectory(a) \/ CompleteSyncFails(a)
    <2>1. pc[a] \in Holding /\ Unlock(a) /\ \E via : Completed(a, via) \/ NotCompleted(a)
      BY <1>5, Zenon DEF CompleteSyncDirectory, CompleteSyncFails, Holding
    <2> QED
      BY <1>3, <2>1, Zenon DEF Ends
  <1>6. CASE CompleteAlready(a) \/ CompleteError(a)
    <2>1. mutex' = mutex /\ \E via : Completed(a, via) \/ NotCompleted(a)
      BY <1>6, Zenon DEF CompleteAlready, CompleteError
    <2> QED
      BY <1>3, <2>1, Zenon DEF Ends
  <1> QED
    BY <1>4, <1>5, <1>6, Zenon DEF Complete

LEMMA StepMoves ==
  ASSUME TypeOK, Placed, [Next]_vars
  PROVE  Moves
  <1>1. Threads \subseteq Actors /\ Publisher \in Actors
    BY Zenon DEF Actors
  <1>2. CASE StartWorker \/ Stop \/ (\E d \in Directories : CloseOutbox(d)) \/ UNCHANGED vars
    BY <1>2, Zenon DEF StartWorker, Stop, CloseOutbox, vars, Rests, Moves
  <1>3. CASE Crash \/ PowerLoss
    BY <1>3, Zenon DEF Crash, PowerLoss, ProcessGone, Resets, Moves
  <1>4. ASSUME NEW t \in Threads, Request(t)
        PROVE  Moves
    BY <1>1, <1>4, RequestMoves, Zenon DEF Moves
  <1>5. ASSUME NEW t \in Threads, NEW e \in Events, Deliver(t, e)
        PROVE  Moves
    <2>1. pc[t] = "idle" /\ mutex' = mutex /\ ev' = [ev EXCEPT ![t] = e]
      BY <1>5, Zenon DEF Deliver
    <2>2. CASE Kind[e] = "mcp.result"
      <3>1. Goto(t, "enqueue") /\ res' = [res EXCEPT ![t] = Remote]
        BY <1>5, <2>2, Zenon DEF Deliver
      <3>2. Only(t) /\ pc'[t] = "enqueue" /\ ev'[t] = e /\ res'[t] = Remote
        BY <1>1, <2>1, <3>1, OnlySets, Zenon DEF Goto
      <3>3. Starts(t)
        BY <2>1, <2>2, <3>2, Zenon DEF Starts
      <3> QED
        BY <1>1, <3>3, Zenon DEF Moves
    <2>3. CASE Kind[e] # "mcp.result"
      <3>1. Goto(t, "claim") /\ res' = res
        BY <1>5, <2>3, Zenon DEF Deliver
      <3>2. Only(t) /\ pc'[t] = "claim" /\ ev'[t] = e
        BY <1>1, <2>1, <3>1, OnlyMeans, Zenon DEF Goto
      <3>3. Starts(t)
        BY <2>1, <2>3, <3>2, Zenon DEF Starts
      <3> QED
        BY <1>1, <3>3, Zenon DEF Moves
    <2> QED
      BY <2>2, <2>3, Zenon
  <1>6. ASSUME NEW a \in Actors, Complete(a)
        PROVE  Moves
    BY <1>6, CompleteMoves, Zenon DEF Moves
  <1>7. CASE PublishList \/ PublishEnd
    <2>1. PICK place \in {"idle", "loop"} : Goto(Publisher, place)
      BY <1>7, Zenon DEF PublishList, PublishEnd
    <2>2. UNCHANGED <<ev, res, mutex>>
      BY <1>7, Zenon DEF PublishList, PublishEnd
    <2>3. Only(Publisher) /\ pc'[Publisher] = place
      BY <1>1, <2>1, <2>2, OnlyMeans, Zenon DEF Goto
    <2>4. Ends(Publisher)
      BY <2>2, <2>3, ActorsAssumption, Zenon DEF Ends
    <2> QED
      BY <1>1, <2>4, Zenon DEF Moves
  <1>8. CASE PublishCall
    <2>1. /\ pc[Publisher] = "loop" /\ Goto(Publisher, "complete") /\ mutex' = mutex
          /\ ev' = [ev EXCEPT ![Publisher] = Foremost.event]
          /\ res' = [res EXCEPT ![Publisher] = Foremost.result]
      BY <1>8, Zenon DEF PublishCall
    <2>2. /\ Only(Publisher) /\ pc'[Publisher] = "complete"
          /\ ev'[Publisher] = Foremost.event /\ res'[Publisher] = Foremost.result
      <3>1. /\ pc \in [Actors -> ThreadStates \cup PublisherStates] /\ ev \in [Actors -> Events \cup {NoEvent}]
            /\ res \in [Actors -> Results \cup {NoResult}]
        BY Zenon DEF TypeOK, Placed
      <3> QED
        BY <1>1, <2>1, <3>1, Zenon DEF Only, Goto
    <2> QED
      BY <1>8, <2>1, <2>2, Zenon DEF Picks, Moves
  <1>9. CASE PublishRetain
    BY <1>9, Zenon DEF PublishRetain, Rests, Moves
  <1> QED
    BY <1>2, <1>3, <1>4, <1>5, <1>6, <1>7, <1>8, <1>9, Zenon DEF Next, Publish

-----------------------------------------------------------------------------
(* How the records change. *)

SyncsDirectory(a) == (a \in Threads /\ EnqueueSyncDirectory(a)) \/ CompleteSyncDirectory(a)

RecordChange(e) ==
  \/ box'[e] = box[e]
  \/ box'[e] = DirSynced(box[e]) /\ \E a \in Actors : SyncsDirectory(a) /\ Dir(a) = Directory(e)
  \/ PowerLoss /\ \E r \in Survivors(box[e]) : box'[e] = Settled(r)
  \/ \E t \in Threads : /\ ev[t] = e
                        /\ \/ EnqueueCreate(t) /\ box'[e] = Created(box[e])
                           \/ EnqueueWrite(t) /\ box'[e] = Written(box[e], Pending(res[t]))
                           \/ EnqueueSync(t) /\ box'[e] = Synced(box[e])
                           \/ EnqueueUndo(t) /\ box'[e] = Removed(box[e])
  \/ \E a \in Actors : ev[a] = e /\ CompleteRename(a) /\ box'[e] = Replaced(box[e], Done(res[a]))

\* What an actor inside a ResultOutbox works on.
LEMMA EventMeans ==
  ASSUME TypeOK, Placed, NEW a \in Actors
  PROVE  /\ pc[a] \in Recording \cup Completing => ev[a] \in Events /\ res[a] \in Results
         /\ pc[a] \in Recording => a \in Threads
         /\ pc[a] \in Completing => (ev[a] \in Outbound <=> a = Publisher)
  <1>1. CASE a = Publisher
    BY <1>1, DirectoryMeans, Zenon DEF Placed, PublisherOK, PublisherStates, Recording, Enqueueing, Completing
  <1>2. CASE a \in Threads
    <2>1. pc[a] \in Recording \cup Completing => pc[a] # "idle"
      BY Zenon DEF Recording, Enqueueing, Completing
    <2>2. pc[a] \in Recording \cup Completing => ev[a] \in Events /\ res[a] \in Results
      BY <1>2, <2>1, Zenon DEF Placed, ThreadOK
    <2>3. pc[a] \in Completing => Kind[ev[a]] = "mcp.result"
      BY <1>2, Zenon DEF Placed, ThreadOK
    <2> QED
      BY <1>2, <2>2, <2>3, DirectoryMeans, ActorsAssumption, Zenon
  <1> QED
    BY <1>1, <1>2, Zenon DEF Actors

LEMMA RecordsStep ==
  ASSUME TypeOK, Placed, [Next]_vars
  PROVE  box' \in [Events -> Files(Records)] /\ \A e \in Events : RecordChange(e)
  <1>1. box \in [Events -> Files(Records)]
    BY Zenon DEF TypeOK
  <1>2. CASE box' = box
    BY <1>1, <1>2, Zenon DEF RecordChange
  <1>3. ASSUME NEW a \in Actors, SyncsDirectory(a)
        PROVE  box' \in [Events -> Files(Records)] /\ \A e \in Events : RecordChange(e)
    <2>1. box' = [e \in Events |-> IF Directory(e) = Dir(a) THEN DirSynced(box[e]) ELSE box[e]]
      BY <1>3, Zenon DEF SyncsDirectory, EnqueueSyncDirectory, CompleteSyncDirectory, DirectorySynced
    <2>2. \A e \in Events : DirSynced(box[e]) \in Files(Records) /\ box[e] \in Files(Records)
      BY <1>1, Zenon DEF Files, DirSynced
    <2>3. \A e \in Events : box'[e] = box[e] \/ (box'[e] = DirSynced(box[e]) /\ Directory(e) = Dir(a))
      BY <2>1, Zenon
    <2>4. box' \in [Events -> Files(Records)]
      BY <2>1, <2>2, Zenon
    <2> QED
      BY <1>3, <2>3, <2>4, Zenon DEF RecordChange
  <1>4. CASE PowerLoss
    <2>1. PICK kept : /\ \A e \in Events : kept[e] \in Survivors(box[e])
                      /\ box' = [e \in Events |-> Settled(kept[e])]
      BY <1>4, Zenon DEF PowerLoss
    <2>2. \A e \in Events : Settled(kept[e]) \in Files(Records)
      BY <1>1, <2>1, SettledType, Zenon
    <2>3. box' \in [Events -> Files(Records)]
      BY <2>1, <2>2, Zenon
    <2>4. \A e \in Events : box'[e] = Settled(kept[e])
      BY <2>1, Zenon
    <2> QED
      BY <1>4, <2>1, <2>3, <2>4, Zenon DEF RecordChange
  <1>5. ASSUME NEW a \in Actors, ev[a] \in Events, NEW f \in Files(Records), box' = [box EXCEPT ![ev[a]] = f]
        PROVE  /\ box' \in [Events -> Files(Records)] /\ box'[ev[a]] = f
               /\ \A e \in Events : e # ev[a] => box'[e] = box[e]
    BY <1>1, <1>5, Zenon
  <1>6. ASSUME NEW t \in Threads, pc[t] \in Recording
        PROVE  /\ t \in Actors /\ ev[t] \in Events /\ Created(box[ev[t]]) \in Files(Records)
               /\ Written(box[ev[t]], Pending(res[t])) \in Files(Records)
               /\ Synced(box[ev[t]]) \in Files(Records) /\ Removed(box[ev[t]]) \in Files(Records)
    <2>1. t \in Actors
      BY Zenon DEF Actors
    <2>2. ev[t] \in Events /\ Pending(res[t]) \in Records
      BY <1>6, <2>1, EventMeans, RecordMeans, Zenon
    <2> QED
      BY <1>1, <2>1, <2>2, FileTypes, Zenon
  <1>7. ASSUME NEW t \in Threads, EnqueueCreate(t)
        PROVE  box' \in [Events -> Files(Records)] /\ \A e \in Events : RecordChange(e)
    <2>1. pc[t] \in Recording /\ box' = [box EXCEPT ![ev[t]] = Created(box[ev[t]])]
      BY <1>7, Zenon DEF EnqueueCreate, Recording
    <2> QED
      BY <1>5, <1>6, <1>7, <2>1, Zenon DEF RecordChange
  <1>8. ASSUME NEW t \in Threads, EnqueueWrite(t)
        PROVE  box' \in [Events -> Files(Records)] /\ \A e \in Events : RecordChange(e)
    <2>1. pc[t] \in Recording /\ box' = [box EXCEPT ![ev[t]] = Written(box[ev[t]], Pending(res[t]))]
      BY <1>8, Zenon DEF EnqueueWrite, Recording, Enqueueing
    <2> QED
      BY <1>5, <1>6, <1>8, <2>1, Zenon DEF RecordChange
  <1>9. ASSUME NEW t \in Threads, EnqueueSync(t)
        PROVE  box' \in [Events -> Files(Records)] /\ \A e \in Events : RecordChange(e)
    <2>1. pc[t] \in Recording /\ box' = [box EXCEPT ![ev[t]] = Synced(box[ev[t]])]
      BY <1>9, Zenon DEF EnqueueSync, Recording, Enqueueing
    <2> QED
      BY <1>5, <1>6, <1>9, <2>1, Zenon DEF RecordChange
  <1>10. ASSUME NEW t \in Threads, EnqueueUndo(t)
        PROVE  box' \in [Events -> Files(Records)] /\ \A e \in Events : RecordChange(e)
    <2>1. pc[t] \in Recording /\ (box' = box \/ box' = [box EXCEPT ![ev[t]] = Removed(box[ev[t]])])
      BY <1>10, Zenon DEF EnqueueUndo, Recording
    <2> QED
      BY <1>2, <1>5, <1>6, <1>10, <2>1, ZenonT(60) DEF RecordChange
  <1>11. ASSUME NEW a \in Actors, CompleteRename(a)
        PROVE  box' \in [Events -> Files(Records)] /\ \A e \in Events : RecordChange(e)
    <2>1. pc[a] \in Completing /\ box' = [box EXCEPT ![ev[a]] = Replaced(box[ev[a]], Done(res[a]))]
      BY <1>11, Zenon DEF CompleteRename, Completing
    <2>2. ev[a] \in Events /\ Done(res[a]) \in Records
      BY <2>1, EventMeans, RecordMeans, Zenon
    <2>3. Replaced(box[ev[a]], Done(res[a])) \in Files(Records)
      BY <1>1, <2>2, FileTypes, Zenon
    <2> QED
      BY <1>5, <1>11, <2>1, <2>2, <2>3, Zenon DEF RecordChange
  <1>12. \/ box' = box \/ PowerLoss
         \/ \E t \in Threads : EnqueueCreate(t) \/ EnqueueWrite(t) \/ EnqueueSync(t) \/ EnqueueUndo(t)
         \/ \E a \in Actors : CompleteRename(a) \/ SyncsDirectory(a)
    <2>1. \A t \in Threads : Request(t) =>
            \/ box' = box
            \/ EnqueueCreate(t) \/ EnqueueWrite(t) \/ EnqueueSync(t) \/ EnqueueUndo(t) \/ SyncsDirectory(t)
      BY ZenonT(60) DEF Request, ClaimExecution, RunnerClaims, RunnerReplays, RunnerRefuses, RunnerRenames,
         RunnerCompletes, RunnerUnsynced, RunnerFails, SyncsDirectory, EnqueueSame, EnqueueConflict, EnqueueError
    <2>2. \A a \in Actors : Complete(a) => box' = box \/ CompleteRename(a) \/ SyncsDirectory(a)
      BY Zenon DEF Complete, SyncsDirectory, CompleteSyncFails, CompleteAlready, CompleteError
    <2>3. Threads \subseteq Actors
      BY Zenon DEF Actors
    <2> QED
      BY <2>1, <2>2, <2>3, Zenon DEF Next, vars, StartWorker, Stop, CloseOutbox, Crash, Deliver, Publish, PublishList,
         PublishEnd, PublishCall, PublishRetain
  <1>13. Threads \subseteq Actors
    BY Zenon DEF Actors
  <1> QED
    BY <1>2, <1>3, <1>4, <1>7, <1>8, <1>9, <1>10, <1>11, <1>12, <1>13, Zenon

-----------------------------------------------------------------------------
(* How the books change. *)

\* The 202.
Acks(t) ==
  \E via \in {"synced", "found"} :
    /\ acked' = acked \cup {[event |-> ev[t], result |-> res[t], via |-> via]}
    /\ \/ via = "found" /\ (EnqueueSame(t) \/ CompleteAlready(t))
       \/ via = "synced" /\ (EnqueueSyncDirectory(t) \/ CompleteSyncDirectory(t))

LEMMA BooksStep ==
  ASSUME TypeOK, Placed, [Next]_vars
  PROVE  /\ \/ queued' = queued
            \/ pc[Publisher] = "loop" /\ todo # {} /\ queued' = queued \cup {Foremost} /\ box' = box
         /\ todo' \subseteq todo \/ PublishList
         /\ acked' = acked \/ \E t \in Threads : Acks(t)
         /\ lost' = lost \/ PowerLoss
  <1>1. Next \/ UNCHANGED vars
    OBVIOUS
  <1>2. \/ queued' = queued
        \/ pc[Publisher] = "loop" /\ todo # {} /\ queued' = queued \cup {Foremost} /\ box' = box
    <2>1. \A t : Request(t) => queued' = queued
      BY ZenonT(60) DEF Request, ClaimExecution, RunnerClaims, RunnerReplays, RunnerRefuses, RunnerRenames,
         RunnerCompletes, RunnerUnsynced, RunnerFails, EnqueueCreate, EnqueueWrite, EnqueueSync, EnqueueUndo, EnqueueSyncDirectory, EnqueueSame,
         EnqueueConflict, EnqueueError
    <2>2. \A a : Complete(a) => queued' = queued
      BY Zenon DEF Complete, CompleteRename, CompleteSyncDirectory, CompleteSyncFails, CompleteAlready, CompleteError
    <2> QED
      BY <1>1, <2>1, <2>2, Zenon DEF Next, vars, StartWorker, Stop, CloseOutbox, Crash, PowerLoss, ProcessGone,
         Deliver, Publish, PublishList, PublishEnd, PublishCall, PublishRetain
  <1>3. todo' \subseteq todo \/ PublishList
    <2>1. \A t : Request(t) => todo' = todo
      BY ZenonT(60) DEF Request, ClaimExecution, RunnerClaims, RunnerReplays, RunnerRefuses, RunnerRenames,
         RunnerCompletes, RunnerUnsynced, RunnerFails, EnqueueCreate, EnqueueWrite, EnqueueSync, EnqueueUndo, EnqueueSyncDirectory, EnqueueSame,
         EnqueueConflict, EnqueueError
    <2>2. \A a : Complete(a) => todo' = todo
      BY Zenon DEF Complete, CompleteRename, CompleteSyncDirectory, CompleteSyncFails, CompleteAlready, CompleteError
    <2>3. PublishList \/ todo' = todo \/ todo' = {} \/ todo' = todo \ {Foremost}
      BY <1>1, <2>1, <2>2, Zenon DEF Next, vars, StartWorker, Stop, CloseOutbox, Crash, PowerLoss, ProcessGone,
         Deliver, Publish, PublishEnd, PublishCall, PublishRetain
    <2> QED
      BY <2>3, Zenon
  <1>4. acked' = acked \/ \E t \in Threads : Acks(t)
    <2>1. ASSUME NEW t \in Threads, Request(t)
          PROVE  acked' = acked \/ Acks(t)
      <3>1. CASE EnqueueSame(t) \/ EnqueueSyncDirectory(t)
        BY <3>1, Zenon DEF EnqueueSame, EnqueueSyncDirectory, Recorded, Accept, Acks
      <3> QED
        BY <2>1, <3>1, Zenon DEF Request, ClaimExecution, RunnerClaims, RunnerReplays, RunnerRefuses, RunnerRenames,
           RunnerCompletes, RunnerUnsynced, RunnerFails, Outcome, RunnerError, Answer503, EnqueueCreate, EnqueueWrite, EnqueueSync, EnqueueUndo,
           EnqueueConflict, EnqueueError
    <2>2. ASSUME NEW a \in Actors, Complete(a)
          PROVE  acked' = acked \/ (a \in Threads /\ Acks(a))
      <3>1. CASE CompleteSyncDirectory(a) \/ CompleteAlready(a)
        <4>1. a = Publisher \/ a \in Threads
          BY Zenon DEF Actors
        <4> QED
          BY <3>1, <4>1, Zenon DEF CompleteSyncDirectory, CompleteAlready, Completed, Handled, Accept, Acks
      <3> QED
        BY <2>2, <3>1, Zenon DEF Complete, CompleteRename, CompleteSyncFails, CompleteError, NotCompleted, Handled,
           Answer503
    <2> QED
      BY <1>1, <2>1, <2>2, Zenon DEF Next, vars, StartWorker, Stop, CloseOutbox, Crash, PowerLoss, ProcessGone,
         Deliver, Publish, PublishList, PublishEnd, PublishCall, PublishRetain
  <1>5. lost' = lost \/ PowerLoss
    <2>1. \A t : Request(t) => lost' = lost
      BY ZenonT(60) DEF Request, ClaimExecution, RunnerClaims, RunnerReplays, RunnerRefuses, RunnerRenames,
         RunnerCompletes, RunnerUnsynced, RunnerFails, EnqueueCreate, EnqueueWrite, EnqueueSync, EnqueueUndo, EnqueueSyncDirectory, EnqueueSame,
         EnqueueConflict, EnqueueError
    <2>2. \A a : Complete(a) => lost' = lost
      BY Zenon DEF Complete, CompleteRename, CompleteSyncDirectory, CompleteSyncFails, CompleteAlready, CompleteError
    <2> QED
      BY <1>1, <2>1, <2>2, Zenon DEF Next, vars, StartWorker, Stop, CloseOutbox, Crash,
         Deliver, Publish, PublishList, PublishEnd, PublishCall, PublishRetain
  <1> QED
    BY <1>2, <1>3, <1>4, <1>5, Zenon

\* A power loss leaves of each name one survivor, and notes what it undid.
LEMMA PowerLossMeans ==
  ASSUME PowerLoss
  PROVE  /\ lost \subseteq lost' /\ queued' = queued /\ acked' = acked /\ todo' = {} /\ Resets
         /\ \A i \in queued : i.event \in Events => i \in lost' \/ Holds(Seen(i.event)', i.result)
         /\ \A a \in acked : a.event \in Events =>
              Item(a.event, a.result) \in lost' \/ Holds(Seen(a.event)', a.result)
  <1>1. PICK kept : /\ \A e \in Events : kept[e] \in Survivors(box[e])
                    /\ box' = [e \in Events |-> Settled(kept[e])]
                    /\ lost' = lost \cup {i \in queued \cup {Item(a.event, a.result) : a \in acked} :
                                          ~Holds(kept[i.event], i.result)}
    BY Zenon DEF PowerLoss
  <1>2. queued' = queued /\ acked' = acked /\ todo' = {} /\ Resets
    BY Zenon DEF PowerLoss, ProcessGone, Resets
  <1>3. \A e \in Events : Seen(e)' = kept[e]
    BY <1>1, Zenon DEF Seen, Settled
  <1>4. \A i \in queued : i.event \in Events => i \in lost' \/ Holds(Seen(i.event)', i.result)
    BY <1>1, <1>3, Zenon
  <1>5. ASSUME NEW a \in acked, a.event \in Events
        PROVE  Item(a.event, a.result) \in lost' \/ Holds(Seen(a.event)', a.result)
    <2>1. Item(a.event, a.result).event = a.event /\ Item(a.event, a.result).result = a.result
      BY Zenon DEF Item
    <2>2. Item(a.event, a.result) \in lost' \/ Holds(kept[a.event], a.result)
      BY <1>1, <2>1, Zenon
    <2> QED
      BY <1>3, <1>5, <2>2, Zenon
  <1> QED
    BY <1>1, <1>2, <1>4, <1>5, Zenon

-----------------------------------------------------------------------------
(* The conjuncts of the invariant, one by one. *)

LEMMA ForemostRecorded ==
  ASSUME BridgeInv, todo # {}
  PROVE  /\ Foremost \in todo /\ Foremost \in Items /\ Item(Foremost.event, Foremost.result) = Foremost
         /\ Foremost.event \in Outbound /\ Foremost.result \in Results
         /\ Holds(Seen(Foremost.event), Foremost.result)
  <1>1. TypeOK /\ Listed
    BY Zenon DEF BridgeInv
  <1>2. Foremost \in todo
    BY <1>1, ForemostMeans, Zenon
  <1>3. Foremost \in Items
    BY <1>1, <1>2, Zenon DEF TypeOK
  <1> HIDE DEF Foremost
  <1>4. Item(Foremost.event, Foremost.result) = Foremost /\ Foremost.result \in Results
    BY <1>3, Zenon DEF Items, Item
  <1> QED
    BY <1>1, <1>2, <1>3, <1>4, Zenon DEF Listed

LEMMA QueuedGrows ==
  ASSUME BridgeInv, [Next]_vars
  PROVE  queued \subseteq queued'
  BY BooksStep, Zenon DEF BridgeInv

LEMMA PlacedStep ==
  ASSUME BridgeInv, [Next]_vars
  PROVE  Placed'
  <1>1. TypeOK /\ Placed
    BY Zenon DEF BridgeInv
  <1>2. Threads \subseteq Actors /\ Publisher \in Actors /\ Publisher \notin Threads
    BY ActorsAssumption, Zenon DEF Actors
  <1>3. /\ \A t \in Threads : ThreadOK(pc[t], ev[t], res[t])
        /\ PublisherOK(pc[Publisher], ev[Publisher], res[Publisher], queued)
        /\ pc \in [Actors -> ThreadStates \cup PublisherStates]
    BY <1>1, Zenon DEF Placed
  <1>4. PublisherOK(pc[Publisher], ev[Publisher], res[Publisher], queued')
    BY <1>3, QueuedGrows, Zenon DEF PublisherOK
  <1>5. CASE Rests
    BY <1>3, <1>4, <1>5, Zenon DEF Rests, Placed
  <1>6. CASE Resets
    BY <1>2, <1>6, Zenon DEF Resets, Placed, ThreadOK, PublisherOK, ThreadStates, PublisherStates, Recording, Completing,
       Enqueueing
  <1>7. ASSUME NEW a \in Actors, Only(a),
               a \in Threads => ThreadOK(pc'[a], ev'[a], res'[a]),
               a = Publisher => PublisherOK(pc'[a], ev'[a], res'[a], queued')
        PROVE  Placed'
    <2>1. \A b \in Actors : b # a => pc'[b] = pc[b] /\ ev'[b] = ev[b] /\ res'[b] = res[b]
      BY <1>1, <1>7, OthersStay, Zenon
    <2>2. \A t \in Threads : ThreadOK(pc'[t], ev'[t], res'[t])
      BY <1>2, <1>3, <1>7, <2>1, Zenon
    <2>3. PublisherOK(pc'[Publisher], ev'[Publisher], res'[Publisher], queued')
      BY <1>2, <1>4, <1>7, <2>1, Zenon
    <2>4. pc'[a] \in ThreadStates \cup PublisherStates
      BY <1>2, <2>2, <2>3, Zenon DEF ThreadOK, PublisherOK, Actors
    <2>5. pc' = [pc EXCEPT ![a] = pc'[a]]
      BY <1>7, Zenon DEF Only
    <2>6. pc' \in [Actors -> ThreadStates \cup PublisherStates]
      BY <1>3, <2>4, <2>5, Zenon
    <2> QED
      BY <2>2, <2>3, <2>6, Zenon DEF Placed
  <1>8. CASE Picks
    <2>1. todo # {} /\ queued' = queued \cup {Foremost}
      BY <1>8, Zenon DEF Picks, PublishCall
    <2>2. PublisherOK("complete", Foremost.event, Foremost.result, queued')
      <3>1. "complete" \in PublisherStates
        BY Zenon DEF PublisherStates
      <3>2. /\ Foremost.event \in Outbound /\ Foremost.result \in Results
            /\ Item(Foremost.event, Foremost.result) \in queued'
        BY <2>1, ForemostRecorded, Zenon
      <3> QED
        BY <3>1, <3>2, Zenon DEF PublisherOK
    <2>3. PublisherOK(pc'[Publisher], ev'[Publisher], res'[Publisher], queued')
      BY <1>8, <2>2, Zenon DEF Picks
    <2> QED
      BY <1>2, <1>7, <1>8, <2>3, Zenon DEF Picks
  <1>9. ASSUME NEW a \in Actors, Ends(a)
        PROVE  Placed'
    <2>1. a \in Threads => ThreadOK(pc'[a], ev'[a], res'[a])
      BY <1>9, Zenon DEF Ends, ThreadOK, ThreadStates, Recording, Completing, Enqueueing
    <2>2. a = Publisher => PublisherOK(pc'[a], ev'[a], res'[a], queued')
      BY <1>9, Zenon DEF Ends, PublisherOK, PublisherStates, Completing
    <2> QED
      BY <1>7, <1>9, <2>1, <2>2, Zenon DEF Ends
  <1>10. ASSUME NEW a \in Actors, Starts(a) \/ Obtains(a)
        PROVE  Placed'
    <2>1. a \in Threads /\ Only(a)
      BY <1>10, Zenon DEF Starts, Obtains
    <2>2. Remote \in Results
      BY BoundsAssumption DEF Remote, Results
    <2>3. ThreadOK(pc[a], ev[a], res[a])
      BY <1>3, <2>1, Zenon
    <2>4. Starts(a) => ThreadOK(pc'[a], ev'[a], res'[a])
      BY <2>2, Zenon DEF Starts, ThreadOK, ThreadStates, Recording, Completing, Enqueueing
    <2>5. Obtains(a) => ThreadOK(pc'[a], ev'[a], res'[a])
      BY <2>3, Zenon DEF Obtains, ThreadOK, ThreadStates, Recording, Completing, Enqueueing
    <2> QED
      BY <1>2, <1>7, <1>10, <2>1, <2>4, <2>5, Zenon
  <1>11. ASSUME NEW a \in Actors, Proceeds(a)
        PROVE  Placed'
    <2>1. a \in Threads => ThreadOK(pc'[a], ev'[a], res'[a])
      <3>1. a \in Threads => ThreadOK(pc[a], ev[a], res[a])
        BY <1>3, Zenon
      <3> QED
        BY <1>11, <3>1, Zenon DEF Proceeds, ThreadOK, ThreadStates, Recording, Completing, Enqueueing
    <2>2. a = Publisher => PublisherOK(pc'[a], ev'[a], res'[a], queued')
      <3>1. CASE a = Publisher
        <4>1. pc[a] = "complete" /\ pc'[a] = "renamed" /\ ev'[a] = ev[a] /\ res'[a] = res[a]
          BY <1>2, <1>11, <3>1, Zenon DEF Proceeds
        <4> QED
          BY <1>4, <3>1, <4>1, Zenon DEF PublisherOK, PublisherStates, Completing
      <3> QED
        BY <3>1, Zenon
    <2> QED
      BY <1>7, <1>11, <2>1, <2>2, Zenon DEF Proceeds
  <1> QED
    BY <1>1, <1>5, <1>6, <1>8, <1>9, <1>10, <1>11, StepMoves, Zenon DEF Moves

LEMMA ExclusiveStep ==
  ASSUME BridgeInv, [Next]_vars
  PROVE  Exclusive'
  <1>1. TypeOK /\ Placed /\ Exclusive
    BY Zenon DEF BridgeInv
  <1>2. Threads \subseteq Actors /\ Publisher \in Actors /\ Publisher \notin Threads /\ Nobody \notin Actors
    BY ActorsAssumption, Zenon DEF Actors
  <1>3. /\ mutex \in [Directories -> Actors \cup {Nobody}] /\ \A b : Dir(b) \in Directories
        /\ \A b \in Actors : pc[b] \in Holding => mutex[Dir(b)] = b
    BY <1>1, DirectoryMeans, Zenon DEF TypeOK, Exclusive, Holding, Dir
  <1>4. CASE Rests
    BY <1>1, <1>4, Zenon DEF Rests, Exclusive, Dir
  <1>5. CASE Resets
    BY <1>5, Zenon DEF Resets, Exclusive, Enqueueing
  <1>6. ASSUME NEW a \in Actors, Only(a),
               pc'[a] \in Holding => mutex'[Directory(ev'[a])] = a,
               \A b \in Actors : b # a /\ pc[b] \in Holding => mutex'[Dir(b)] = b
        PROVE  Exclusive'
    <2>1. \A b \in Actors : b # a => pc'[b] = pc[b] /\ ev'[b] = ev[b]
      BY <1>1, <1>6, OthersStay, Zenon
    <2>2. \A b \in Actors : pc'[b] \in Holding => mutex'[Directory(ev'[b])] = b
      BY <1>6, <2>1, Zenon DEF Dir
    <2> QED
      BY <2>2, Zenon DEF Exclusive, Dir, Holding
  <1>7. ASSUME NEW a \in Actors, mutex' = mutex \/ (pc[a] \in Holding /\ Unlock(a)) \/ Lock(a)
        PROVE  \A b \in Actors : b # a /\ pc[b] \in Holding => mutex'[Dir(b)] = b
    <2>1. \A b \in Actors : b # a /\ pc[b] \in Holding /\ pc[a] \in Holding => Dir(b) # Dir(a)
      BY <1>3, Zenon
    <2>2. \A b \in Actors : pc[b] \in Holding /\ Free(a) => Dir(b) # Dir(a)
      BY <1>2, <1>3, Zenon DEF Free
    <2> QED
      BY <1>3, <1>7, <2>1, <2>2, Zenon DEF Lock, Unlock
  <1>8. ASSUME NEW a \in Actors, pc'[a] \notin Holding, Only(a),
               mutex' = mutex \/ (pc[a] \in Holding /\ Unlock(a))
        PROVE  Exclusive'
    BY <1>6, <1>7, <1>8, Zenon
  <1>9. CASE Picks
    BY <1>2, <1>8, <1>9, Zenon DEF Picks, Holding, Enqueueing
  <1>10. ASSUME NEW a \in Actors, Ends(a) \/ Starts(a) \/ Obtains(a)
        PROVE  Exclusive'
    BY <1>8, <1>10, Zenon DEF Ends, Starts, Obtains, Holding, Enqueueing
  <1>11. ASSUME NEW a \in Actors, Proceeds(a)
        PROVE  Exclusive'
    <2>1. CASE pc'[a] \notin Holding
      <3>1. mutex' = mutex \/ (pc[a] \in Holding /\ Unlock(a))
        BY <1>11, <2>1, Zenon DEF Proceeds, Holding, Enqueueing
      <3> QED
        BY <1>8, <1>11, <2>1, <3>1, Zenon DEF Proceeds
    <2>2. CASE Lock(a)
      <3>1. mutex'[Dir(a)] = a /\ ev'[a] = ev[a]
        BY <1>3, <1>11, <2>2, Zenon DEF Lock, Proceeds
      <3> QED
        BY <1>6, <1>7, <1>11, <2>2, <3>1, Zenon DEF Proceeds, Dir
    <2>3. CASE pc[a] \in Holding /\ mutex' = mutex
      <3>1. mutex'[Dir(a)] = a /\ ev'[a] = ev[a]
        BY <1>3, <1>11, <2>3, Zenon DEF Proceeds
      <3> QED
        BY <1>6, <1>7, <1>11, <2>3, <3>1, Zenon DEF Proceeds, Dir
    <2> QED
      BY <1>11, <2>1, <2>2, <2>3, Zenon DEF Proceeds, EnqueueCreate, CompleteRename, Holding, Enqueueing
  <1> QED
    BY <1>1, <1>4, <1>5, <1>9, <1>10, <1>11, StepMoves, Zenon DEF Moves

\* Where the steps on a record take an actor.
LEMMA MoverMeans ==
  ASSUME TypeOK, Placed, NEW a \in Actors
  PROVE  /\ EnqueueCreate(a) => Free(a) /\ Seen(ev[a]) = Absent /\ pc[a] = "enqueue" /\ pc'[a] = "created"
         /\ EnqueueWrite(a) => pc[a] = "created" /\ pc'[a] = "written"
         /\ EnqueueSync(a) => pc[a] = "written" /\ pc'[a] = "synced"
         /\ a \in Threads /\ EnqueueUndo(a) => pc[a] \in Enqueueing /\ pc'[a] = "idle"
         /\ CompleteRename(a) =>
              Free(a) /\ Seen(ev[a]) = Pending(res[a]) /\ pc[a] = "complete" /\ pc'[a] = "renamed"
         /\ SyncsDirectory(a) => pc[a] \in {"synced", "renamed"} /\ pc'[a] \notin Holding
  <1>1. \A place : Goto(a, place) => pc'[a] = place
    BY Zenon DEF Placed, Goto
  <1>2. a \in Threads => /\ Answer503(a) => pc'[a] = "idle"
                         /\ \A via : Accept(a, via) => pc'[a] = "idle"
    BY AnswerMeans, Zenon
  <1>3. Handled(a) => pc'[a] = "loop"
    BY Zenon DEF Placed, Handled
  <1>4. EnqueueCreate(a) => Free(a) /\ Seen(ev[a]) = Absent /\ pc[a] = "enqueue" /\ pc'[a] = "created"
    BY <1>1, Zenon DEF EnqueueCreate, Lock
  <1>5. /\ EnqueueWrite(a) => pc[a] = "created" /\ pc'[a] = "written"
        /\ EnqueueSync(a) => pc[a] = "written" /\ pc'[a] = "synced"
    BY <1>1, Zenon DEF EnqueueWrite, EnqueueSync
  <1>6. a \in Threads /\ EnqueueUndo(a) => pc[a] \in Enqueueing /\ pc'[a] = "idle"
    BY <1>2, Zenon DEF EnqueueUndo
  <1>7. CompleteRename(a) =>
          Free(a) /\ Seen(ev[a]) = Pending(res[a]) /\ pc[a] = "complete" /\ pc'[a] = "renamed"
    BY <1>1, Zenon DEF CompleteRename, Lock
  <1>8. ASSUME SyncsDirectory(a)
        PROVE  pc[a] \in {"synced", "renamed"} /\ pc'[a] \notin Holding
    <2>1. pc[a] \in {"synced", "renamed"}
      BY <1>8, Zenon DEF SyncsDirectory, EnqueueSyncDirectory, CompleteSyncDirectory
    <2>2. a = Publisher \/ a \in Threads
      BY Zenon DEF Actors
    <2>3. pc'[a] = "idle" \/ pc'[a] = "loop" \/ pc'[a] = "complete"
      BY <1>1, <1>2, <1>3, <1>8, <2>2, Zenon DEF SyncsDirectory, EnqueueSyncDirectory, CompleteSyncDirectory,
         Recorded, Completed
    <2> QED
      BY <2>1, <2>3, Zenon DEF Holding, Enqueueing
  <1> QED
    BY <1>4, <1>5, <1>6, <1>7, <1>8, Zenon

\* Who is inside a ResultOutbox is there alone.
LEMMA Alone ==
  ASSUME BridgeInv, NEW a \in Actors, pc[a] \in Holding, NEW b \in Actors, Dir(b) = Dir(a)
  PROVE  ~Free(b) /\ (pc[b] \in Holding => b = a)
  <1>1. mutex[Dir(a)] = a /\ (pc[b] \in Holding => mutex[Dir(b)] = b)
    BY Zenon DEF BridgeInv, Exclusive, Holding
  <1> QED
    BY <1>1, ActorsAssumption, Zenon DEF Free

\* Its record stays as it is while it stays where it is.
LEMMA HeldRecord ==
  ASSUME BridgeInv, [Next]_vars, NEW a \in Actors, pc[a] \in Holding, pc'[a] = pc[a]
  PROVE  box'[ev[a]] = box[ev[a]]
  <1>1. TypeOK /\ Placed
    BY Zenon DEF BridgeInv
  <1>2. ev[a] \in Events
    BY <1>1, EventMeans, Zenon DEF Holding, Recording, Completing
  <1>3. RecordChange(ev[a])
    BY <1>1, <1>2, RecordsStep, Zenon
  <1>4. ~PowerLoss
    <2>1. Resets => pc'[a] = "idle"
      BY Zenon DEF Resets
    <2> QED
      BY <2>1, PowerLossMeans, Zenon DEF Holding, Enqueueing
  <1>5. \A b \in Actors : ~(Dir(b) = Directory(ev[a]) /\ SyncsDirectory(b))
    <2>1. \A b \in Actors : SyncsDirectory(b) => pc[b] \in Holding /\ pc'[b] \notin Holding
      BY <1>1, MoverMeans, Zenon DEF Holding, Enqueueing
    <2> QED
      BY <2>1, Alone, Zenon DEF Dir
  <1>6. \A b \in Actors : ev[b] = ev[a] => ~EnqueueCreate(b) /\ ~CompleteRename(b)
    BY <1>1, MoverMeans, Alone, Zenon DEF Dir
  <1>7. \A b \in Threads : ev[b] = ev[a] => ~EnqueueWrite(b) /\ ~EnqueueSync(b) /\ ~EnqueueUndo(b)
    <2>1. \A b \in Threads : EnqueueWrite(b) \/ EnqueueSync(b) \/ EnqueueUndo(b) =>
            b \in Actors /\ pc[b] \in Holding /\ pc'[b] # pc[b]
      BY <1>1, MoverMeans, Zenon DEF Holding, Enqueueing, Actors
    <2> QED
      BY <2>1, Alone, Zenon DEF Dir
  <1>8. Threads \subseteq Actors
    BY Zenon DEF Actors
  <1> QED
    BY <1>3, <1>4, <1>5, <1>6, <1>7, <1>8, Zenon DEF RecordChange

\* An actor inside a ResultOutbox was there, or got there by a step on its record.
LEMMA Arrives ==
  ASSUME BridgeInv, [Next]_vars, NEW a \in Actors, pc'[a] \in Holding
  PROVE  /\ ev'[a] = ev[a] /\ res'[a] = res[a] /\ ev[a] \in Events /\ res[a] \in Results
         /\ \/ pc[a] = pc'[a]
            \/ a \in Threads /\ pc'[a] = "created" /\ EnqueueCreate(a)
            \/ a \in Threads /\ pc'[a] = "written" /\ EnqueueWrite(a)
            \/ a \in Threads /\ pc'[a] = "synced" /\ EnqueueSync(a)
            \/ pc'[a] = "renamed" /\ CompleteRename(a)
  <1> DEFINE Goal == /\ ev'[a] = ev[a] /\ res'[a] = res[a]
                     /\ \/ pc[a] = pc'[a]
                        \/ a \in Threads /\ pc'[a] = "created" /\ EnqueueCreate(a)
                        \/ a \in Threads /\ pc'[a] = "written" /\ EnqueueWrite(a)
                        \/ a \in Threads /\ pc'[a] = "synced" /\ EnqueueSync(a)
                        \/ pc'[a] = "renamed" /\ CompleteRename(a)
  <1>1. TypeOK /\ Placed
    BY Zenon DEF BridgeInv
  <1>2. pc'[a] \notin {"idle", "loop", "claim", "run", "owner", "journal", "enqueue", "complete"}
    BY Zenon DEF Holding, Enqueueing
  <1>3. \A b \in Actors : Only(b) /\ b # a => Goal
    BY <1>1, OthersStay, Zenon
  <1>4. ~Resets
    BY <1>2, Zenon DEF Resets
  <1>5. Rests => Goal
    BY Zenon DEF Rests
  <1>6. Picks => Goal
    <2>1. Picks => Only(Publisher) /\ pc'[Publisher] = "complete" /\ Publisher \in Actors
      BY Zenon DEF Picks, Actors
    <2> QED
      BY <1>2, <1>3, <2>1, Zenon
  <1>7. \A b \in Actors : Ends(b) \/ Starts(b) \/ Obtains(b) \/ Proceeds(b) => Only(b)
    BY Zenon DEF Ends, Starts, Obtains, Proceeds
  <1>8. ~Ends(a) /\ ~Starts(a) /\ ~Obtains(a)
    BY <1>2, Zenon DEF Ends, Starts, Obtains
  <1>9. Proceeds(a) => Goal
    BY <1>2, Zenon DEF Proceeds
  <1>10. Goal
    BY <1>1, <1>3, <1>4, <1>5, <1>6, <1>7, <1>8, <1>9, StepMoves, Zenon DEF Moves
  <1>11. pc[a] \in Recording \cup Completing
    <2>1. EnqueueCreate(a) \/ EnqueueWrite(a) \/ EnqueueSync(a) \/ CompleteRename(a) =>
            pc[a] \in {"enqueue", "created", "written", "complete"}
      BY <1>1, MoverMeans, Zenon
    <2> QED
      BY <1>10, <2>1, Zenon DEF Holding, Recording, Enqueueing, Completing
  <1> QED
    BY <1>1, <1>10, <1>11, EventMeans, Zenon

LEMMA WritingStep ==
  ASSUME BridgeInv, [Next]_vars
  PROVE  Writing'
  <1>1. TypeOK /\ Placed /\ Writing
    BY Zenon DEF BridgeInv
  <1>2. box \in [Events -> Files(Records)]
    BY <1>1, Zenon DEF TypeOK
  <1>3. ASSUME NEW e \in Events
        PROVE  box'[e].seen \in box'[e].data
    <2>1. box[e].seen \in box[e].data
      BY <1>1, Zenon DEF Writing, Seen
    <2>2. RecordChange(e)
      BY <1>1, RecordsStep, Zenon
    <2>3. CASE \E r : box'[e] = Written(box[e], r) \/ box'[e] = Replaced(box[e], r) \/ box'[e] = Settled(r)
      BY <2>3, PresentAfter, PresentLess
    <2>4. CASE box'[e] = Created(box[e]) \/ box'[e] = Synced(box[e]) \/ box'[e] = Removed(box[e])
      <3>1. ASSUME NEW f, NEW g, g = Created(f) \/ g = Synced(f) \/ g = Removed(f)
            PROVE  g.seen \in g.data
        BY <3>1 DEF Created, Synced, Removed
      <3> QED
        BY <2>4, <3>1, Zenon
    <2>5. CASE box'[e] = DirSynced(box[e]) \/ box'[e] = box[e]
      BY <2>1, <2>5 DEF DirSynced
    <2> QED
      BY <2>2, <2>3, <2>4, <2>5, Zenon DEF RecordChange
  <1>4. \A t \in Threads : t \in Actors
    BY Zenon DEF Actors
  <1>5. ASSUME NEW t \in Threads, pc'[t] \in Enqueueing
        PROVE  /\ Absent \in box'[ev'[t]].old
               /\ pc'[t] \in {"written", "synced"} => box'[ev'[t]].seen = Pending(res'[t])
               /\ pc'[t] = "synced" => box'[ev'[t]].data = {Pending(res'[t])}
    <2>1. pc'[t] \in Holding
      BY <1>5, Zenon DEF Holding
    <2>2. /\ ev'[t] = ev[t] /\ res'[t] = res[t] /\ ev[t] \in Events
          /\ \/ pc[t] = pc'[t] \/ (pc'[t] = "created" /\ EnqueueCreate(t))
             \/ (pc'[t] = "written" /\ EnqueueWrite(t)) \/ (pc'[t] = "synced" /\ EnqueueSync(t))
      BY <1>4, <1>5, <2>1, Arrives, Zenon DEF Enqueueing
    <2>3. /\ pc[t] \in Enqueueing => Absent \in box[ev[t]].old
          /\ pc[t] \in {"written", "synced"} => box[ev[t]].seen = Pending(res[t])
          /\ pc[t] = "synced" => box[ev[t]].data = {Pending(res[t])}
      BY <1>1, Zenon DEF Writing, Seen
    <2>4. CASE pc[t] = pc'[t]
      <3>1. box'[ev[t]] = box[ev[t]]
        BY <1>4, <2>1, <2>4, HeldRecord, Zenon
      <3> QED
        BY <1>5, <2>2, <2>3, <2>4, <3>1, Zenon
    <2>5. CASE pc'[t] = "created" /\ EnqueueCreate(t)
      <3>1. box'[ev[t]] = Created(box[ev[t]]) /\ box[ev[t]].seen = Absent
        BY <1>2, <2>2, <2>5, Zenon DEF EnqueueCreate, Seen
      <3>2. Absent \in box[ev[t]].data
        BY <1>1, <2>2, <3>1, Zenon DEF Writing, Seen
      <3> QED
        BY <2>2, <2>5, <3>1, <3>2 DEF Created, Survivors
    <2>6. CASE pc'[t] = "written" /\ EnqueueWrite(t)
      <3>1. box'[ev[t]] = Written(box[ev[t]], Pending(res[t])) /\ pc[t] = "created"
        BY <1>2, <2>2, <2>6, Zenon DEF EnqueueWrite
      <3> QED
        BY <2>2, <2>3, <2>6, <3>1 DEF Written, Enqueueing
    <2>7. CASE pc'[t] = "synced" /\ EnqueueSync(t)
      <3>1. box'[ev[t]] = Synced(box[ev[t]]) /\ pc[t] = "written"
        BY <1>2, <2>2, <2>7, Zenon DEF EnqueueSync
      <3>2. /\ box'[ev[t]].seen = box[ev[t]].seen /\ box'[ev[t]].data = {box[ev[t]].seen}
            /\ box'[ev[t]].old = box[ev[t]].old
        BY <3>1 DEF Synced
      <3> QED
        BY <2>2, <2>3, <2>7, <3>1, <3>2, Zenon DEF Enqueueing
    <2> QED
      BY <2>2, <2>4, <2>5, <2>6, <2>7, Zenon
  <1>6. ASSUME NEW a \in Actors, pc'[a] = "renamed"
        PROVE  box'[ev'[a]].seen = Done(res'[a]) /\ box'[ev'[a]].data = {Done(res'[a])}
    <2>1. pc'[a] \in Holding
      BY <1>6, Zenon DEF Holding
    <2>2. ev'[a] = ev[a] /\ res'[a] = res[a] /\ ev[a] \in Events /\ (pc[a] = pc'[a] \/ CompleteRename(a))
      BY <1>6, <2>1, Arrives, Zenon
    <2>3. CASE pc[a] = pc'[a]
      <3>1. box'[ev[a]] = box[ev[a]]
        BY <2>1, <2>3, HeldRecord, Zenon
      <3> QED
        BY <1>1, <1>6, <2>2, <2>3, <3>1, Zenon DEF Writing, Seen
    <2>4. CASE CompleteRename(a)
      <3>1. box'[ev[a]] = Replaced(box[ev[a]], Done(res[a]))
        BY <1>2, <2>2, <2>4, Zenon DEF CompleteRename
      <3> QED
        BY <2>2, <3>1 DEF Replaced
    <2> QED
      BY <2>2, <2>3, <2>4, Zenon
  <1>7. \A t \in Threads : pc'[t] \in {"written", "synced"} => pc'[t] \in Enqueueing
    BY Zenon DEF Enqueueing
  <1> QED
    BY <1>3, <1>5, <1>6, <1>7, Zenon DEF Writing, Seen

\* A recorded result stays recorded, but for a power loss and the one who writes it.
LEMMA SeenKept ==
  ASSUME BridgeInv, [Next]_vars, NEW e \in Events, NEW r, Holds(Seen(e), r),
         \A t \in Threads : pc[t] \in Enqueueing => ev[t] # e
  PROVE  Holds(Seen(e)', r) \/ PowerLoss
  <1>1. TypeOK /\ Placed
    BY Zenon DEF BridgeInv
  <1>2. RecordChange(e)
    BY <1>1, RecordsStep, Zenon
  <1>3. Threads \subseteq Actors
    BY Zenon DEF Actors
  <1>4. \A t \in Threads : ev[t] = e => ~EnqueueCreate(t)
    BY <1>1, <1>3, MoverMeans, RecordMeans
  <1>5. \A t \in Threads : ev[t] = e => ~EnqueueWrite(t) /\ ~EnqueueSync(t) /\ ~EnqueueUndo(t)
    BY <1>1, <1>3, MoverMeans, Zenon DEF Enqueueing
  <1>6. ASSUME NEW a \in Actors, ev[a] = e, CompleteRename(a), box'[e] = Replaced(box[e], Done(res[a]))
        PROVE  Holds(Seen(e)', r)
    <2>1. Seen(e) = Pending(res[a])
      BY <1>1, <1>6, MoverMeans, Zenon
    <2>2. r = res[a]
      BY <2>1, RecordMeans
    <2>3. Seen(e)' = Done(res[a])
      <3>1. Replaced(box[e], Done(res[a])).seen = Done(res[a])
        BY Zenon DEF Replaced
      <3> QED
        BY <1>6, <3>1, Zenon DEF Seen
    <2> QED
      BY <2>2, <2>3, Zenon DEF Holds
  <1>7. box'[e] = DirSynced(box[e]) \/ box'[e] = box[e] => Seen(e)' = Seen(e)
    BY DEF DirSynced, Seen
  <1> QED
    BY <1>2, <1>4, <1>5, <1>6, <1>7, Zenon DEF RecordChange

\* The ghost only grows.
LEMMA LostGrows ==
  ASSUME BridgeInv, [Next]_vars
  PROVE  lost \subseteq lost'
  BY BooksStep, PowerLossMeans, Zenon DEF BridgeInv

LEMMA QueuedStep ==
  ASSUME BridgeInv, [Next]_vars
  PROVE  QueuedRecorded'
  <1>1. TypeOK /\ Placed /\ Fresh /\ QueuedRecorded
    BY Zenon DEF BridgeInv
  <1>2. ASSUME NEW i \in queued
        PROVE  i.event \in Outbound /\ (i \in lost' \/ Holds(Seen(i.event)', i.result))
    <2>1. i.event \in Outbound /\ (i \in lost \/ Holds(Seen(i.event), i.result)) /\ i.event \in Events
      BY <1>1, DirectoryMeans, Zenon DEF QueuedRecorded
    <2>2. CASE i \in lost
      BY <2>1, <2>2, LostGrows, Zenon
    <2>3. CASE \E t \in Threads : pc[t] \in Enqueueing /\ ev[t] = i.event
      <3>1. i \in lost
        BY <1>1, <2>3, Zenon DEF Fresh
      <3> QED
        BY <2>1, <3>1, LostGrows, Zenon
    <2>4. CASE PowerLoss
      BY <2>1, <2>4, PowerLossMeans, Zenon
    <2> QED
      BY <2>1, <2>2, <2>3, <2>4, SeenKept, Zenon
  <1>3. ASSUME NEW i, todo # {}, box' = box, i = Foremost
        PROVE  i.event \in Outbound /\ Holds(Seen(i.event)', i.result)
    <2>1. i.event \in Outbound /\ Holds(Seen(i.event), i.result)
      BY <1>3, ForemostRecorded, Zenon
    <2> QED
      BY <1>3, <2>1, Zenon DEF Seen
  <1>4. \A i \in queued' : i \in queued \/ (todo # {} /\ box' = box /\ i = Foremost)
    BY <1>1, BooksStep, Zenon
  <1>5. \A i \in queued' : i.event \in Outbound /\ (i \in lost' \/ Holds(Seen(i.event)', i.result))
    BY <1>2, <1>3, <1>4, Zenon
  <1> QED
    BY <1>5, Zenon DEF QueuedRecorded


LEMMA FreshStep ==
  ASSUME BridgeInv, [Next]_vars
  PROVE  Fresh'
  <1>1. TypeOK /\ Placed /\ Fresh /\ Listed /\ QueuedRecorded /\ AckedRecorded
    BY Zenon DEF BridgeInv
  <1>2. ASSUME NEW t \in Threads, pc'[t] \in Enqueueing, NEW e, e = ev'[t]
        PROVE  /\ \A i \in queued' : i.event = e => i \in lost'
               /\ \A a \in acked' : a.event = e => Item(a.event, a.result) \in lost'
               /\ \A i \in todo' : i.event # e
    <2>1. t \in Actors /\ pc'[t] \in Holding /\ pc'[t] # "renamed"
      BY <1>2, Zenon DEF Actors, Holding, Enqueueing
    <2>2. /\ e = ev[t] /\ e \in Events
          /\ pc[t] = pc'[t] \/ EnqueueCreate(t) \/ EnqueueWrite(t) \/ EnqueueSync(t)
      BY <1>2, <2>1, Arrives, Zenon
    <2>3. CASE pc[t] = pc'[t]
      <3>1. pc[t] \in Holding /\ pc[t] \in Enqueueing
        BY <1>2, <2>1, <2>3, Zenon
      <3>2. /\ \A i \in queued : i.event = e => i \in lost
            /\ \A a \in acked : a.event = e => Item(a.event, a.result) \in lost
            /\ \A i \in todo : i.event # e
        BY <1>1, <2>2, <3>1, Zenon DEF Fresh
      <3>3. \A i \in queued' : i \in queued \/ i \in todo
        BY <1>1, BooksStep, ForemostMeans, Zenon
      <3>4. ASSUME NEW s \in Threads, Acks(s), ev[s] = e
            PROVE  FALSE
        <4>1. s \in Actors /\ Dir(s) = Dir(t)
          BY <2>2, <3>4, Zenon DEF Actors, Dir
        <4>2. ~Free(s) /\ (pc[s] \in Holding => s = t)
          BY <2>1, <3>1, <4>1, Alone
        <4>3. SyncsDirectory(s) => pc[s] \in Holding /\ pc'[s] \notin Holding
          BY <1>1, <4>1, MoverMeans, Zenon DEF Holding, Enqueueing
        <4>4. Free(s) \/ SyncsDirectory(s)
          BY <3>4, Zenon DEF Acks, EnqueueSame, CompleteAlready, SyncsDirectory
        <4> QED
          BY <2>1, <4>2, <4>3, <4>4, Zenon
      <3>5. \A a \in acked' : a \in acked \/ a.event # e
        <4>1. ASSUME NEW s \in Threads, Acks(s), NEW a \in acked'
              PROVE  a \in acked \/ a.event = ev[s]
          BY <4>1 DEF Acks
        <4> QED
          BY <1>1, <3>4, <4>1, BooksStep, Zenon
      <3>6. PublishList => \A i \in todo' : i.event # e
        <4>1. mutex[Dir(t)] = t /\ t # Nobody
          BY <2>1, <3>1, ActorsAssumption, Zenon DEF BridgeInv, Exclusive, Holding
        <4>2. PublishList => Directory(e) # "result-outbox"
          BY <2>2, <4>1, Zenon DEF PublishList, Dir
        <4>3. PublishList => \A i \in todo' : i.event \in Outbound
          BY DEF PublishList, Item
        <4> QED
          BY <4>2, <4>3, DirectoryMeans, Zenon
      <3> QED
        BY <1>1, <3>2, <3>3, <3>5, <3>6, BooksStep, LostGrows, Zenon
    <2>4. CASE EnqueueWrite(t) \/ EnqueueSync(t)
      <3>1. pc[t] \in Enqueueing /\ UNCHANGED <<queued, acked, todo, lost>>
        BY <2>4, Zenon DEF EnqueueWrite, EnqueueSync, Enqueueing
      <3> QED
        BY <1>1, <2>2, <3>1, Zenon DEF Fresh
    <2>5. CASE EnqueueCreate(t)
      <3>1. Seen(e) = Absent /\ UNCHANGED <<queued, acked, todo, lost>>
        BY <2>2, <2>5, Zenon DEF EnqueueCreate
      <3>2. \A r : ~Holds(Seen(e), r)
        BY <3>1, RecordMeans, Zenon
      <3>3. \A i \in queued : i.event = e => i \in lost
        BY <1>1, <3>2, Zenon DEF QueuedRecorded
      <3>4. \A a \in acked : a.event = e => Item(a.event, a.result) \in lost
        BY <1>1, <3>2, Zenon DEF AckedRecorded
      <3>5. \A i \in todo : i.event # e
        BY <1>1, <3>2, Zenon DEF Listed
      <3> QED
        BY <3>1, <3>3, <3>4, <3>5, Zenon
    <2> QED
      BY <2>2, <2>3, <2>4, <2>5, Zenon
  <1> QED
    BY <1>2, Zenon DEF Fresh

LEMMA ListedStep ==
  ASSUME BridgeInv, [Next]_vars
  PROVE  Listed'
  <1>1. TypeOK /\ Placed /\ Fresh /\ Listed
    BY Zenon DEF BridgeInv
  <1>2. ASSUME NEW i \in todo, i \in todo'
        PROVE  i.event \in Outbound /\ Holds(Seen(i.event)', i.result)
    <2>1. i.event \in Outbound /\ Holds(Seen(i.event), i.result) /\ i.event \in Events
      BY <1>1, DirectoryMeans, Zenon DEF Listed
    <2>2. \A t \in Threads : pc[t] \in Enqueueing => ev[t] # i.event
      BY <1>1, Zenon DEF Fresh
    <2>3. ~PowerLoss
      BY <1>2, PowerLossMeans, Zenon
    <2> QED
      BY <2>1, <2>2, <2>3, SeenKept, Zenon
  <1>3. ASSUME PublishList, NEW i \in todo'
        PROVE  i.event \in Outbound /\ Holds(Seen(i.event)', i.result)
    <2>1. PICK e \in Outbound : Seen(e).kind = "pending" /\ i = Item(e, Seen(e).result)
      BY <1>3, Zenon DEF PublishList
    <2>2. i.event = e /\ i.result = Seen(e).result /\ box' = box
      BY <1>3, <2>1 DEF Item, PublishList
    <2>3. Seen(e) \in Records \cup {Absent, Torn}
      BY <1>1, DirectoryMeans, Zenon DEF TypeOK, Files, Seen
    <2>4. Holds(Seen(e), Seen(e).result)
      BY <2>1, <2>3, RecordMeans, Zenon
    <2>5. Seen(e)' = Seen(e)
      BY <2>2, Zenon DEF Seen
    <2> QED
      BY <2>2, <2>4, <2>5, Zenon
  <1>4. \A i \in todo' : i.event \in Outbound /\ Holds(Seen(i.event)', i.result)
    BY <1>1, <1>2, <1>3, BooksStep, Zenon
  <1> QED
    BY <1>4, Zenon DEF Listed

\* Where every survivor holds a result, every survivor goes on to.
LEMMA SurvivorsKept ==
  ASSUME BridgeInv, [Next]_vars, NEW e \in Events, NEW r, \A c \in Survivors(box[e]) : Holds(c, r)
  PROVE  \A c \in Survivors(box'[e]) : Holds(c, r)
  <1>1. TypeOK /\ Placed /\ Writing
    BY Zenon DEF BridgeInv
  <1>2. RecordChange(e) /\ Seen(e) \in Survivors(box[e])
    BY <1>1, RecordsStep, Zenon DEF Writing, Survivors
  <1>3. Absent \notin Survivors(box[e])
    BY RecordMeans, Zenon
  <1>4. Threads \subseteq Actors
    BY Zenon DEF Actors
  <1>5. \A t \in Threads : ev[t] = e => ~EnqueueCreate(t)
    BY <1>1, <1>2, <1>3, <1>4, MoverMeans, Zenon
  <1>6. \A t \in Threads : ev[t] = e => ~EnqueueWrite(t) /\ ~EnqueueSync(t) /\ ~EnqueueUndo(t)
    <2>1. \A t \in Threads : ev[t] = e => pc[t] \notin Enqueueing
      BY <1>1, <1>3, Zenon DEF Writing, Survivors
    <2> QED
      BY <1>1, <1>4, <2>1, MoverMeans, Zenon DEF Enqueueing
  <1>7. ASSUME NEW a \in Actors, ev[a] = e, CompleteRename(a), box'[e] = Replaced(box[e], Done(res[a]))
        PROVE  \A c \in Survivors(box'[e]) : Holds(c, r)
    <2>1. Seen(e) = Pending(res[a])
      BY <1>1, <1>7, MoverMeans, Zenon
    <2>2. r = res[a]
      BY <1>2, <2>1, RecordMeans
    <2>3. Survivors(box'[e]) = {Done(res[a])} \cup Survivors(box[e])
      BY <1>7 DEF Replaced, Survivors
    <2>4. Holds(Done(res[a]), r)
      BY <2>2, Zenon DEF Holds
    <2> QED
      BY <2>3, <2>4, Zenon
  <1>8. box'[e] = DirSynced(box[e]) => Survivors(box'[e]) \subseteq Survivors(box[e])
    BY SyncedMeans, Zenon
  <1>9. \A c \in Survivors(box[e]) : box'[e] = Settled(c) => Survivors(box'[e]) \subseteq Survivors(box[e])
    BY DEF Settled, Survivors
  <1>10. box'[e] = box[e] => Survivors(box'[e]) = Survivors(box[e])
    BY Zenon
  <1>11. \/ Survivors(box'[e]) \subseteq Survivors(box[e])
         \/ \E a \in Actors : ev[a] = e /\ CompleteRename(a) /\ box'[e] = Replaced(box[e], Done(res[a]))
    BY <1>2, <1>5, <1>6, <1>8, <1>9, <1>10, Zenon DEF RecordChange
  <1> QED
    BY <1>7, <1>11, Zenon

\* What a handler answers for is recorded.
LEMMA AcksRecorded ==
  ASSUME BridgeInv, NEW t \in Threads, NEW via \in {"synced", "found"},
         \/ via = "found" /\ (EnqueueSame(t) \/ CompleteAlready(t))
         \/ via = "synced" /\ (EnqueueSyncDirectory(t) \/ CompleteSyncDirectory(t))
  PROVE  /\ ev[t] \in Events /\ res[t] \in Results
         /\ \A e : e = ev[t] =>
              /\ Holds(Seen(e)', res[t])
              /\ via = "synced" => \A c \in Survivors(box'[e]) : Holds(c, res[t])
  <1>1. TypeOK /\ Placed /\ Writing
    BY Zenon DEF BridgeInv
  <1>2. t \in Actors /\ pc[t] \in Recording \cup Completing
    BY Zenon DEF EnqueueSame, CompleteAlready, EnqueueSyncDirectory, CompleteSyncDirectory, Actors, Recording, Enqueueing,
       Completing
  <1>3. ev[t] \in Events /\ res[t] \in Results
    BY <1>1, <1>2, EventMeans, Zenon
  <1>4. Holds(Pending(res[t]), res[t]) /\ Holds(Done(res[t]), res[t])
    BY Zenon DEF Holds
  <1>5. CASE via = "found" /\ EnqueueSame(t)
    <2>1. Readable(ev[t]) /\ Seen(ev[t]).result = res[t] /\ box' = box
      BY <1>5, Zenon DEF EnqueueSame
    <2>2. Seen(ev[t]) \in Records \cup {Absent, Torn}
      BY <1>1, <1>3, Zenon DEF TypeOK, Files, Seen
    <2>3. Holds(Seen(ev[t]), res[t])
      BY <2>1, <2>2, RecordMeans, Zenon DEF Readable
    <2> QED
      BY <1>3, <1>5, <2>1, <2>3, Zenon DEF Seen
  <1>6. CASE via = "found" /\ CompleteAlready(t)
    <2>1. Seen(ev[t]) = Done(res[t]) /\ box' = box
      BY <1>6, Zenon DEF CompleteAlready
    <2> QED
      BY <1>3, <1>4, <1>6, <2>1, Zenon DEF Seen
  <1>7. ASSUME NEW r, Holds(r, res[t]), box[ev[t]].seen = r, box[ev[t]].data = {r}, DirectorySynced(Dir(t)),
               NEW e, e = ev[t]
        PROVE  Holds(Seen(e)', res[t]) /\ \A c \in Survivors(box'[e]) : Holds(c, res[t])
    <2>1. box'[e] = DirSynced(box[e])
      BY <1>3, <1>7, Zenon DEF DirectorySynced, Dir
    <2>2. box'[e].seen = r /\ Survivors(box'[e]) = {r}
      <3>1. DirSynced(box[e]).seen = box[e].seen /\ Survivors(DirSynced(box[e])) = box[e].data
        BY PresentLess, SyncedMeans, Zenon
      <3>2. box[e].seen = r /\ box[e].data = {r}
        BY <1>7, Zenon
      <3> QED
        BY <2>1, <3>1, <3>2, Zenon
    <2> QED
      BY <1>7, <2>2, Zenon DEF Seen
  <1>8. CASE EnqueueSyncDirectory(t)
    <2>1. pc[t] = "synced" /\ DirectorySynced(Dir(t))
      BY <1>8, Zenon DEF EnqueueSyncDirectory
    <2>2. box[ev[t]].seen = Pending(res[t]) /\ box[ev[t]].data = {Pending(res[t])}
      BY <1>1, <2>1, Zenon DEF Writing, Seen
    <2> QED
      BY <1>3, <1>4, <1>7, <2>1, <2>2, Zenon
  <1>9. CASE CompleteSyncDirectory(t)
    <2>1. pc[t] = "renamed" /\ DirectorySynced(Dir(t))
      BY <1>9, Zenon DEF CompleteSyncDirectory
    <2>2. box[ev[t]].seen = Done(res[t]) /\ box[ev[t]].data = {Done(res[t])}
      BY <1>1, <1>2, <2>1, Zenon DEF Writing, Seen
    <2> QED
      BY <1>3, <1>4, <1>7, <2>1, <2>2, Zenon
  <1> QED
    BY <1>5, <1>6, <1>8, <1>9, Zenon

LEMMA AckedStep ==
  ASSUME BridgeInv, [Next]_vars
  PROVE  AckedRecorded'
  <1>1. TypeOK /\ Placed /\ Fresh /\ AckedRecorded
    BY DEF BridgeInv
  <1>2. ASSUME NEW a \in acked
        PROVE  /\ Item(a.event, a.result) \in lost' \/ Holds(Seen(a.event)', a.result)
               /\ a.via = "synced" => \A c \in Survivors(box'[a.event]) : Holds(c, a.result)
    <2>1. a.event \in Events
      BY <1>1, Zenon DEF TypeOK
    <2>2. /\ Item(a.event, a.result) \in lost \/ Holds(Seen(a.event), a.result)
          /\ a.via = "synced" => \A c \in Survivors(box[a.event]) : Holds(c, a.result)
      BY <1>1, Zenon DEF AckedRecorded
    <2>3. a.via = "synced" => \A c \in Survivors(box'[a.event]) : Holds(c, a.result)
      BY <2>1, <2>2, SurvivorsKept, Zenon
    <2>4. CASE Item(a.event, a.result) \in lost
      BY <2>3, <2>4, LostGrows, Zenon
    <2>5. CASE \E t \in Threads : pc[t] \in Enqueueing /\ ev[t] = a.event
      <3>1. Item(a.event, a.result) \in lost
        BY <1>1, <2>5, Zenon DEF Fresh
      <3> QED
        BY <2>3, <3>1, LostGrows, Zenon
    <2>6. CASE PowerLoss
      BY <2>1, <2>3, <2>6, PowerLossMeans, Zenon
    <2> QED
      BY <2>1, <2>2, <2>3, <2>4, <2>5, <2>6, SeenKept, Zenon
  <1>3. ASSUME NEW t \in Threads, Acks(t), NEW a \in acked', a \notin acked
        PROVE  /\ Holds(Seen(a.event)', a.result)
               /\ a.via = "synced" => \A c \in Survivors(box'[a.event]) : Holds(c, a.result)
    <2>1. PICK via \in {"synced", "found"} :
            /\ acked' = acked \cup {[event |-> ev[t], result |-> res[t], via |-> via]}
            /\ \/ via = "found" /\ (EnqueueSame(t) \/ CompleteAlready(t))
               \/ via = "synced" /\ (EnqueueSyncDirectory(t) \/ CompleteSyncDirectory(t))
      BY <1>3, Zenon DEF Acks
    <2>2. a.event = ev[t] /\ a.result = res[t] /\ a.via = via
      BY <1>3, <2>1
    <2> QED
      BY <2>1, <2>2, AcksRecorded, Zenon
  <1>4. \A a \in acked' :
          /\ Item(a.event, a.result) \in lost' \/ Holds(Seen(a.event)', a.result)
          /\ a.via = "synced" => \A c \in Survivors(box'[a.event]) : Holds(c, a.result)
    BY <1>1, <1>2, <1>3, BooksStep, Zenon
  <1> QED
    BY <1>4, Zenon DEF AckedRecorded

\* What may be found under a name and could not be before was put there.
LEMMA PresentNew ==
  ASSUME BridgeInv, [Next]_vars, NEW e \in Events, NEW c \in Present(box'[e])
  PROVE  \/ c \in Present(box[e]) \/ c \in {Absent, Torn}
         \/ \E t \in Threads : ev[t] = e /\ EnqueueWrite(t) /\ c = Pending(res[t])
         \/ \E a \in Actors : ev[a] = e /\ CompleteRename(a) /\ c = Done(res[a])
  <1>1. TypeOK /\ Placed
    BY Zenon DEF BridgeInv
  <1>2. RecordChange(e)
    BY <1>1, RecordsStep, Zenon
  <1>3. box'[e] = box[e] \/ box'[e] = DirSynced(box[e]) \/ box'[e] = Synced(box[e]) => c \in Present(box[e])
    BY PresentAfter, PresentLess, Zenon
  <1>4. \A r \in Survivors(box[e]) : box'[e] = Settled(r) => c \in Present(box[e])
    BY PresentLess
  <1>5. box'[e] = Created(box[e]) \/ box'[e] = Removed(box[e]) => c \in Present(box[e]) \/ c \in {Absent, Torn}
    BY PresentAfter, Zenon
  <1>6. \A r : box'[e] = Written(box[e], r) \/ box'[e] = Replaced(box[e], r) => c \in Present(box[e]) \/ c = r
    BY PresentAfter
  <1> QED
    BY <1>2, <1>3, <1>4, <1>5, <1>6, Zenon DEF RecordChange

LEMMA DoneStep ==
  ASSUME BridgeInv, [Next]_vars
  PROVE  DoneIsQueued'
  <1>1. TypeOK /\ Placed /\ Writing /\ DoneIsQueued
    BY Zenon DEF BridgeInv
  <1>2. ASSUME NEW e \in Outbound, NEW c \in Survivors(box'[e]), c.kind = "complete"
        PROVE  Item(e, c.result) \in queued'
    <2>1. e \in Events
      BY DirectoryMeans, Zenon
    <2>2. c \in Present(box'[e])
      BY PresentLess, Zenon
    <2>3. CASE c \in Present(box[e])
      <3>1. c \in Survivors(box[e])
        BY <1>1, <2>1, <2>3, PresentLess, Zenon DEF Writing, Seen
      <3>2. Item(e, c.result) \in queued
        BY <1>1, <1>2, <3>1, Zenon DEF DoneIsQueued
      <3> QED
        BY <3>2, QueuedGrows, Zenon
    <2>4. ASSUME NEW a \in Actors, ev[a] = e, CompleteRename(a), c = Done(res[a])
          PROVE  Item(e, c.result) \in queued'
      <3>1. pc[a] \in Completing /\ c.result = res[a]
        BY <1>1, <2>4, MoverMeans, RecordMeans, Zenon DEF Completing
      <3>2. a = Publisher
        BY <1>1, <2>4, <3>1, EventMeans, Zenon
      <3>3. Item(e, res[a]) \in queued
        BY <1>1, <2>4, <3>1, <3>2, Zenon DEF Placed, PublisherOK
      <3> QED
        BY <3>1, <3>3, QueuedGrows, Zenon
    <2>5. c \notin {Absent, Torn} /\ \A r : c # Pending(r)
      BY <1>2, RecordMeans, Zenon
    <2> QED
      BY <2>1, <2>2, <2>3, <2>4, <2>5, PresentNew, Zenon
  <1> QED
    BY <1>2, Zenon DEF DoneIsQueued

-----------------------------------------------------------------------------
(* How the work behind a result goes on. *)

\* An execution keeps its request, and goes from running to complete and not back, but
\* for a completion that a power loss undoes.
Carried(x) ==
  /\ work[x].kind # "absent" => work'[x].kind # "absent" /\ work'[x].print = work[x].print
  /\ work[x].kind = "running" => work'[x].kind \in {"running", "renamed"}
  /\ work[x].kind \in {"renamed", "complete"} =>
       work'[x].kind \in {"renamed", "complete"} \/ (work'[x].kind = "running" /\ x \in undone')
  /\ x \in undone => x \in undone'

LEMMA WorkSyncedMeans ==
  ASSUME TypeOK, NEW x \in Executions
  PROVE  /\ WorkSynced(x) \in Works /\ WorkSynced(x).print = work[x].print
         /\ WorkSynced(x).kind = IF work[x].kind = "renamed" THEN "complete" ELSE work[x].kind
  <1>1. work[x] \in Works
    BY Zenon DEF TypeOK
  <1> QED
    BY <1>1 DEF WorkSynced, Works

LEMMA WorkStep ==
  ASSUME BridgeInv, [Next]_vars
  PROVE  /\ work' \in [Executions -> Works] /\ undone' \subseteq Executions
         /\ \A x \in Executions : Carried(x)
         /\ \A t \in Threads : RunnerClaims(t) =>
              work'[ExecutionOf[ev[t]]].kind = "running" /\ work'[ExecutionOf[ev[t]]].print = PrintOf[ev[t]]
         /\ \A t \in Threads : RunnerRenames(t) =>
              work'[ExecutionOf[ev[t]]].kind = "renamed" /\ work'[ExecutionOf[ev[t]]].print = PrintOf[ev[t]]
  <1>1. TypeOK /\ Placed /\ Backing
    BY Zenon DEF BridgeInv
  <1>2. work \in [Executions -> Works] /\ undone \subseteq Executions
    BY <1>1, Zenon DEF TypeOK
  <1>3. \A e \in Events : ExecutionOf[e] \in Executions /\ PrintOf[e] \in {PrintOf[f] : f \in Events} \cup {NoPrint}
    BY Zenon DEF Executions
  <1>4. ASSUME NEW t \in Threads, pc[t] \in {"run", "owner"}
        PROVE  ev[t] \in Events
    BY <1>1, <1>4, Zenon DEF Placed, ThreadOK
  <1> DEFINE Kept == /\ work' \in [Executions -> Works] /\ undone' \subseteq Executions
                     /\ \A x \in Executions : Carried(x)
             For(w, t) == w.print = PrintOf[ev[t]]
  <1>5. work' = work /\ undone' = undone => Kept
    BY <1>2, Zenon DEF Carried
  <1>6. \A x \in Executions :
          undone' = undone /\ work'[x] = WorkSynced(x) => Carried(x) /\ WorkSynced(x) \in Works
    BY <1>1, WorkSyncedMeans, Zenon DEF Carried
  <1>7. ASSUME NEW t \in Threads, RunnerClaims(t)
        PROVE  /\ Kept /\ work'[ExecutionOf[ev[t]]].kind = "running" /\ For(work'[ExecutionOf[ev[t]]], t)
    <2> DEFINE w == [kind |-> "running", print |-> PrintOf[ev[t]]]
               X == ExecutionOf[ev[t]]
    <2>1. /\ pc[t] = "run" /\ work[X] = NoWork /\ undone' = undone
          /\ work' = [x \in Executions |-> IF x = X THEN w ELSE WorkSynced(x)]
      BY <1>7, Zenon DEF RunnerClaims
    <2>2. X \in Executions /\ w \in Works
      BY <1>3, <1>4, <2>1, Zenon DEF Works
    <2>3. NoWork.kind = "absent" /\ w.kind = "running" /\ w.print = PrintOf[ev[t]]
      BY Zenon DEF NoWork
    <2> HIDE DEF w
    <2>4. work'[X] = w /\ \A x \in Executions : x # X => work'[x] = WorkSynced(x)
      BY <2>1, <2>2, Zenon
    <2>5. \A x \in Executions : work'[x] \in Works
      BY <1>6, <2>1, <2>2, <2>4, Zenon
    <2>6. Carried(X)
      BY <2>1, <2>3, Zenon DEF Carried
    <2>7. Kept
      BY <1>2, <1>6, <2>1, <2>4, <2>5, <2>6, Zenon
    <2> QED
      BY <2>3, <2>4, <2>7, Zenon
  <1>8. ASSUME NEW t \in Threads, RunnerRenames(t)
        PROVE  Kept /\ work'[ExecutionOf[ev[t]]].kind = "renamed" /\ For(work'[ExecutionOf[ev[t]]], t)
    <2> DEFINE X == ExecutionOf[ev[t]]
               w == [work[X] EXCEPT !.kind = "renamed"]
    <2>1. pc[t] = "owner" /\ undone' = undone /\ work' = [work EXCEPT ![X] = w]
      BY <1>8, Zenon DEF RunnerRenames
    <2>2. X \in Executions
      BY <1>3, <1>4, <2>1, Zenon
    <2>3. work[X] \in Works /\ work[X].print = PrintOf[ev[t]] /\ work[X].kind # "absent"
      BY <1>1, <1>2, <2>1, <2>2, Zenon DEF Backing
    <2>4. w \in Works /\ w.kind = "renamed" /\ w.print = work[X].print
      BY <2>3 DEF Works
    <2> HIDE DEF w
    <2>5. work' \in [Executions -> Works] /\ work'[X] = w /\ \A x \in Executions : x # X => work'[x] = work[x]
      BY <1>2, <2>1, <2>2, <2>4, Zenon
    <2>6. \A x \in Executions : Carried(x)
      BY <2>1, <2>3, <2>4, <2>5, Zenon DEF Carried
    <2>7. Kept
      BY <1>2, <2>1, <2>5, <2>6, Zenon
    <2> QED
      BY <2>3, <2>4, <2>5, <2>7, Zenon
  <1>9. ASSUME NEW t \in Threads, RunnerCompletes(t)
        PROVE  Kept
    <2>1. undone' = undone /\ work' = [x \in Executions |-> WorkSynced(x)]
      BY <1>9, Zenon DEF RunnerCompletes
    <2>2. \A x \in Executions : work'[x] = WorkSynced(x)
      BY <2>1, Zenon
    <2> QED
      BY <1>2, <1>6, <2>1, <2>2, Zenon
  <1>10. ASSUME PowerLoss
         PROVE  Kept
    <2>1. PICK gone \in SUBSET {x \in Executions : work[x].kind = "renamed"} :
            /\ work' = [x \in Executions |-> IF x \in gone THEN [work[x] EXCEPT !.kind = "running"] ELSE WorkSynced(x)]
            /\ undone' = undone \cup gone
      BY <1>10, Zenon DEF PowerLoss
    <2>2. ASSUME NEW x \in Executions
          PROVE  work'[x] \in Works /\ Carried(x)
      <3>1. CASE x \in gone
        <4> DEFINE w == [work[x] EXCEPT !.kind = "running"]
        <4>1. work[x] \in Works /\ work[x].kind = "renamed" /\ work'[x] = w /\ x \in undone'
          BY <1>2, <2>1, <3>1, Zenon
        <4>2. w \in Works /\ w.kind = "running" /\ w.print = work[x].print
          BY <4>1 DEF Works
        <4> HIDE DEF w
        <4> QED
          BY <4>1, <4>2, Zenon DEF Carried
      <3>2. CASE x \notin gone
        <4>1. work'[x] = WorkSynced(x) /\ (x \in undone => x \in undone')
          BY <2>1, <3>2, Zenon
        <4> QED
          BY <1>1, <4>1, WorkSyncedMeans, Zenon DEF Carried
      <3> QED
        BY <3>1, <3>2, Zenon
    <2> QED
      BY <1>2, <2>1, <2>2, Zenon
  <1>11. \/ work' = work /\ undone' = undone
         \/ PowerLoss \/ \E t \in Threads : RunnerClaims(t) \/ RunnerRenames(t) \/ RunnerCompletes(t)
    <2>1. \A t : Request(t) =>
            (work' = work /\ undone' = undone) \/ RunnerClaims(t) \/ RunnerRenames(t) \/ RunnerCompletes(t)
      BY ZenonT(60) DEF Request, ClaimExecution, RunnerReplays, RunnerRefuses, RunnerUnsynced, RunnerFails,
         EnqueueCreate, EnqueueWrite, EnqueueSync, EnqueueUndo, EnqueueSyncDirectory, EnqueueSame, EnqueueConflict,
         EnqueueError
    <2>2. \A a : Complete(a) => work' = work /\ undone' = undone
      BY Zenon DEF Complete, CompleteRename, CompleteSyncDirectory, CompleteSyncFails, CompleteAlready, CompleteError
    <2> QED
      BY <2>1, <2>2, Zenon DEF Next, vars, StartWorker, Stop, CloseOutbox, Crash, ProcessGone,
         Deliver, Publish, PublishList, PublishEnd, PublishCall, PublishRetain
  <1>12. Kept
    BY <1>5, <1>7, <1>8, <1>9, <1>10, <1>11, Zenon
  <1> QED
    BY <1>7, <1>8, <1>12, Zenon

LEMMA BackedStep ==
  ASSUME BridgeInv, [Next]_vars, NEW e \in Events, Backed(e)
  PROVE  Backed(e)'
  <1>1. ExecutionOf[e] \in Executions
    BY Zenon DEF Executions
  <1>2. Carried(ExecutionOf[e])
    BY <1>1, WorkStep, Zenon
  <1> QED
    BY <1>2 DEF Backed, Carried

\* How a request comes to own an execution, or to have a result to record.
LEMMA Earns ==
  ASSUME BridgeInv, [Next]_vars, NEW t \in Threads, pc'[t] \in {"owner", "journal"} \cup Recording
  PROVE  \/ /\ ev'[t] = ev[t] /\ res'[t] = res[t]
            /\ pc'[t] = pc[t] \/ (pc'[t] \in Recording /\ pc[t] \in Recording)
         \/ pc'[t] = "owner" /\ ev'[t] = ev[t] /\ RunnerClaims(t)
         \/ pc'[t] = "journal" /\ ev'[t] = ev[t] /\ RunnerRenames(t)
         \/ pc'[t] = "enqueue" /\ ev'[t] \in Events /\ Kind[ev'[t]] = "mcp.result"
         \/ Obtains(t)
  <1> DEFINE Stays == /\ ev'[t] = ev[t] /\ res'[t] = res[t]
                      /\ pc'[t] = pc[t] \/ (pc'[t] \in Recording /\ pc[t] \in Recording)
  <1>1. TypeOK /\ Placed /\ t \in Actors /\ t # Publisher /\ Publisher \in Actors
    BY ActorsAssumption, Zenon DEF BridgeInv, Actors
  <1>2. pc'[t] \notin {"idle", "loop", "claim", "run", "complete", "renamed"}
    BY Zenon DEF Recording, Enqueueing
  <1>3. \A b \in Actors : Only(b) /\ b # t => Stays
    BY <1>1, OthersStay, Zenon
  <1>4. ~Resets
    BY <1>1, <1>2, Zenon DEF Resets
  <1>5. Rests => Stays
    BY Zenon DEF Rests
  <1>6. Picks => Stays
    BY <1>1, <1>3, Zenon DEF Picks
  <1>7. \A b \in Actors : Ends(b) \/ Starts(b) \/ Obtains(b) \/ Proceeds(b) => Only(b)
    BY Zenon DEF Ends, Starts, Obtains, Proceeds
  <1>8. ~Ends(t)
    BY <1>2, Zenon DEF Ends
  <1>9. Starts(t) => pc'[t] = "enqueue" /\ ev'[t] \in Events /\ Kind[ev'[t]] = "mcp.result"
    BY <1>2, Zenon DEF Starts
  <1>10. Proceeds(t) => \/ Stays
                        \/ pc'[t] = "owner" /\ ev'[t] = ev[t] /\ RunnerClaims(t)
                        \/ pc'[t] = "journal" /\ ev'[t] = ev[t] /\ RunnerRenames(t)
    BY <1>2, Zenon DEF Proceeds, Recording, Enqueueing
  <1> QED
    BY <1>1, <1>3, <1>4, <1>5, <1>6, <1>7, <1>8, <1>9, <1>10, StepMoves, Zenon DEF Moves

LEMMA BackingStep ==
  ASSUME BridgeInv, [Next]_vars
  PROVE  Backing'
  <1>1. TypeOK /\ Placed /\ Backing
    BY Zenon DEF BridgeInv
  <1>2. \A e \in Events : Backed(e) => Backed(e)'
    BY BackedStep, Zenon
  <1>3. ASSUME NEW e \in Outbound, NEW c \in Present(box'[e]),
               c.kind \in {"pending", "complete"}, c.result.status = "completed"
        PROVE  Backed(e)'
    <2>1. e \in Events
      BY DirectoryMeans, Zenon
    <2>2. \A b \in Present(box[e]) : b.kind \in {"pending", "complete"} /\ b.result = c.result => Backed(e)'
      BY <1>1, <1>2, <1>3, <2>1, Zenon DEF Backing
    <2>3. c \notin {Absent, Torn}
      BY <1>3, RecordMeans, Zenon
    <2>4. ASSUME NEW t \in Threads, ev[t] = e, EnqueueWrite(t), c = Pending(res[t])
          PROVE  Backed(e)'
      <3>1. pc[t] \in Recording /\ res[t].status = "completed"
        BY <1>3, <2>4, RecordMeans, Zenon DEF EnqueueWrite, Recording, Enqueueing
      <3>2. Backed(ev[t])
        BY <1>1, <2>4, <3>1, Zenon DEF Backing
      <3> QED
        BY <1>2, <2>1, <2>4, <3>2, Zenon
    <2>5. ASSUME NEW a \in Actors, ev[a] = e, CompleteRename(a), c = Done(res[a])
          PROVE  Backed(e)'
      <3>1. Seen(e) = Pending(res[a])
        BY <1>1, <2>5, MoverMeans, Zenon
      <3>2. Seen(e) \in Present(box[e])
        BY Zenon DEF Seen, Present
      <3>3. Seen(e).kind = "pending" /\ Seen(e).result = c.result
        BY <2>5, <3>1, RecordMeans
      <3> QED
        BY <2>2, <3>2, <3>3, Zenon
    <2> QED
      BY <1>3, <2>1, <2>2, <2>3, <2>4, <2>5, PresentNew, Zenon
  <1>4. ASSUME NEW t \in Threads, pc'[t] = "owner", NEW e, e = ev'[t]
        PROVE  work'[ExecutionOf[e]].kind # "absent" /\ work'[ExecutionOf[e]].print = PrintOf[e]
    <2>1. \/ ev'[t] = ev[t] /\ pc[t] = "owner"
          \/ ev'[t] = ev[t] /\ RunnerClaims(t)
      BY <1>4, Earns, Zenon DEF Recording, Enqueueing, Obtains
    <2>2. CASE pc[t] = "owner"
      <3>1. ev[t] \in Events
        BY <1>1, <2>2, Zenon DEF Placed, ThreadOK
      <3>2. work[ExecutionOf[ev[t]]].kind # "absent" /\ work[ExecutionOf[ev[t]]].print = PrintOf[ev[t]]
        BY <1>1, <2>2, Zenon DEF Backing
      <3>3. ExecutionOf[ev[t]] \in Executions
        BY <3>1, Zenon DEF Executions
      <3>4. Carried(ExecutionOf[ev[t]])
        BY <3>3, WorkStep, Zenon
      <3> QED
        BY <1>4, <2>1, <3>2, <3>4, Zenon DEF Carried
    <2>3. CASE RunnerClaims(t)
      <3>1. work'[ExecutionOf[ev[t]]].kind = "running" /\ work'[ExecutionOf[ev[t]]].print = PrintOf[ev[t]]
        BY <2>3, WorkStep, Zenon
      <3> QED
        BY <1>4, <2>1, <3>1, Zenon
    <2> QED
      BY <2>1, <2>2, <2>3, Zenon
  <1>5. ASSUME NEW t \in Threads, pc'[t] = "journal", NEW e, e = ev'[t]
        PROVE  Backed(e)'
    <2>1. \/ ev'[t] = ev[t] /\ pc[t] = "journal"
          \/ ev'[t] = ev[t] /\ RunnerRenames(t)
      BY <1>5, Earns, Zenon DEF Recording, Enqueueing, Obtains
    <2>2. CASE pc[t] = "journal"
      <3>1. ev[t] \in Events
        BY <1>1, <2>2, Zenon DEF Placed, ThreadOK
      <3>2. Backed(ev[t])
        BY <1>1, <2>2, Zenon DEF Backing
      <3> QED
        BY <1>2, <1>5, <2>1, <3>1, <3>2, Zenon
    <2>3. CASE RunnerRenames(t)
      <3>1. work'[ExecutionOf[ev[t]]].kind = "renamed" /\ work'[ExecutionOf[ev[t]]].print = PrintOf[ev[t]]
        BY <2>3, WorkStep, Zenon
      <3> QED
        BY <1>5, <2>1, <3>1, Zenon DEF Backed
    <2> QED
      BY <2>1, <2>2, <2>3, Zenon
  <1>6. ASSUME NEW t \in Threads, pc'[t] \in Recording, NEW e \in Outbound, e = ev'[t], res'[t].status = "completed"
        PROVE  Backed(e)'
    <2>1. e \in Events /\ Kind[e] # "mcp.result" /\ pc'[t] \notin {"owner", "journal"}
      BY <1>6, DirectoryMeans, Zenon DEF Recording, Enqueueing
    <2>2. \/ ev'[t] = ev[t] /\ res'[t] = res[t] /\ pc[t] \in Recording
          \/ Obtains(t)
      BY <1>6, <2>1, Earns, Zenon
    <2>3. CASE ev'[t] = ev[t] /\ res'[t] = res[t] /\ pc[t] \in Recording
      <3>1. Backed(ev[t])
        BY <1>1, <1>6, <2>3, Zenon DEF Backing
      <3> QED
        BY <1>2, <1>6, <2>1, <2>3, <3>1, Zenon
    <2>4. CASE Obtains(t)
      <3>1. ev'[t] = ev[t] /\ (RunnerReplays(t) \/ RunnerCompletes(t))
        BY <1>6, <2>4, Zenon DEF Obtains
      <3>2. CASE RunnerReplays(t)
        <4>1. Backed(ev[t])
          BY <3>2, Zenon DEF RunnerReplays, CompleteFor, Backed
        <4> QED
          BY <1>2, <1>6, <2>1, <3>1, <4>1, Zenon
      <3>3. CASE RunnerCompletes(t)
        <4>1. Backed(ev[t])
          BY <1>1, <3>3, Zenon DEF Backing, RunnerCompletes
        <4> QED
          BY <1>2, <1>6, <2>1, <3>1, <4>1, Zenon
      <3> QED
        BY <3>1, <3>2, <3>3, Zenon
    <2> QED
      BY <2>2, <2>3, <2>4, Zenon
  <1> QED
    BY <1>3, <1>4, <1>5, <1>6, Zenon DEF Backing

-----------------------------------------------------------------------------
(* Type correctness. *)

Assigned ==
  /\ ev' \in [Actors -> Events \cup {NoEvent}]
  /\ res' \in [Actors -> Results \cup {NoResult}]
  /\ stamp' \in [Threads -> 0..MaxDeliveries]

LEMMA Resting ==
  ASSUME TypeOK, NEW t, ev' = [ev EXCEPT ![t] = NoEvent], res' = [res EXCEPT ![t] = NoResult],
         stamp' = [stamp EXCEPT ![t] = 0]
  PROVE  Assigned
  <1>1. /\ ev \in [Actors -> Events \cup {NoEvent}] /\ res \in [Actors -> Results \cup {NoResult}]
        /\ stamp \in [Threads -> 0..MaxDeliveries] /\ 0 \in 0..MaxDeliveries
    BY BoundsAssumption DEF TypeOK
  <1>2. ev' \in [Actors -> Events \cup {NoEvent}] /\ res' \in [Actors -> Results \cup {NoResult}]
    BY <1>1, Zenon
  <1>3. stamp' \in [Threads -> 0..MaxDeliveries]
    BY <1>1, Zenon
  <1> QED
    BY <1>2, <1>3, Zenon DEF Assigned

\* What the actors hold.
LEMMA AssignedStep ==
  ASSUME BridgeInv, [Next]_vars
  PROVE  Assigned
  <1>1. TypeOK /\ Placed
    BY Zenon DEF BridgeInv
  <1>2. /\ ev \in [Actors -> Events \cup {NoEvent}] /\ res \in [Actors -> Results \cup {NoResult}]
        /\ stamp \in [Threads -> 0..MaxDeliveries] /\ deliveries \in 0..MaxDeliveries
        /\ MaxDeliveries \in Nat
    BY <1>1, BoundsAssumption, Zenon DEF TypeOK
  <1>3. UNCHANGED <<ev, res, stamp>> => Assigned
    BY <1>2, Zenon DEF Assigned
  <1>4. \A t : Answer503(t) => Assigned
    <2>1. \A t : Answer503(t) => /\ ev' = [ev EXCEPT ![t] = NoEvent] /\ res' = [res EXCEPT ![t] = NoResult]
                                 /\ stamp' = [stamp EXCEPT ![t] = 0]
      BY Zenon DEF Answer503
    <2> QED
      BY <1>1, <2>1, Resting, Zenon
  <1>5. \A t, via : Accept(t, via) => Assigned
    <2>1. \A t, via : Accept(t, via) => /\ ev' = [ev EXCEPT ![t] = NoEvent] /\ res' = [res EXCEPT ![t] = NoResult]
                                        /\ stamp' = [stamp EXCEPT ![t] = 0]
      BY Zenon DEF Accept
    <2> QED
      BY <1>1, <2>1, Resting, Zenon
  <1>6. \A a : Handled(a) => Assigned
    BY <1>2, Zenon DEF Handled, Assigned
  <1>7. \A t : \A r \in Results : res' = [res EXCEPT ![t] = r] /\ UNCHANGED <<ev, stamp>> => Assigned
    BY <1>2, Zenon DEF Assigned
  <1>8. \A t \in Threads : /\ Task("completed", stamp[t]) \in Results /\ Task("failed", stamp[t]) \in Results
                           /\ Output \in Results
    BY <1>2 DEF Task, Output, Results
  <1>9. \A t \in Threads : Outcome(t) \/ RunnerError(t) => Assigned
    BY <1>4, <1>7, <1>8, Zenon DEF Outcome, RunnerError
  <1>10. \A t, via : Recorded(t, via) => Assigned
    BY <1>3, <1>5, Zenon DEF Recorded
  <1>11. ASSUME NEW t \in Threads, Request(t)
         PROVE  Assigned
    <2>1. CASE ClaimExecution(t) \/ RunnerClaims(t) \/ RunnerRenames(t) \/ EnqueueCreate(t) \/ EnqueueWrite(t) \/ EnqueueSync(t)
      BY <1>3, <1>4, <2>1, Zenon DEF ClaimExecution, RunnerClaims, RunnerRenames, EnqueueCreate, EnqueueWrite, EnqueueSync
    <2>2. CASE RunnerReplays(t) \/ RunnerRefuses(t) \/ RunnerCompletes(t) \/ RunnerUnsynced(t) \/ RunnerFails(t)
      BY <1>9, <2>2, Zenon DEF RunnerReplays, RunnerRefuses, RunnerCompletes, RunnerUnsynced, RunnerFails
    <2>3. CASE EnqueueSyncDirectory(t) \/ EnqueueSame(t)
      BY <1>10, <2>3, Zenon DEF EnqueueSyncDirectory, EnqueueSame
    <2>4. CASE EnqueueUndo(t) \/ EnqueueConflict(t) \/ EnqueueError(t)
      BY <1>4, <2>4, Zenon DEF EnqueueUndo, EnqueueConflict, EnqueueError
    <2> QED
      BY <1>11, <2>1, <2>2, <2>3, <2>4, Zenon DEF Request
  <1>12. ASSUME NEW a \in Actors, Complete(a)
         PROVE  Assigned
    BY <1>3, <1>4, <1>5, <1>6, <1>12, Zenon DEF Complete, CompleteRename, CompleteSyncDirectory, CompleteSyncFails,
       CompleteAlready, CompleteError, Completed, NotCompleted
  <1>13. ASSUME NEW t \in Threads, NEW e \in Events, Deliver(t, e)
         PROVE  Assigned
    <2>1. /\ ev' = [ev EXCEPT ![t] = e] /\ stamp' = [stamp EXCEPT ![t] = deliveries + 1]
          /\ deliveries < MaxDeliveries /\ (res' = res \/ res' = [res EXCEPT ![t] = Remote])
      BY <1>13, Zenon DEF Deliver
    <2>2. Remote \in Results /\ deliveries + 1 \in 0..MaxDeliveries
      BY <1>2, <2>1 DEF Remote, Results
    <2>3. stamp' \in [Threads -> 0..MaxDeliveries]
      BY <1>2, <2>1, <2>2, Zenon
    <2>4. ev' \in [Actors -> Events \cup {NoEvent}]
      BY <1>2, <2>1, Zenon
    <2>5. res' \in [Actors -> Results \cup {NoResult}]
      BY <1>2, <2>1, <2>2, Zenon
    <2> QED
      BY <2>3, <2>4, <2>5, Zenon DEF Assigned
  <1>14. CASE PublishCall
    <2>1. /\ ev' = [ev EXCEPT ![Publisher] = Foremost.event] /\ todo # {}
          /\ res' = [res EXCEPT ![Publisher] = Foremost.result] /\ stamp' = stamp
      BY <1>14, Zenon DEF PublishCall
    <2>2. Foremost.event \in Events /\ Foremost.result \in Results
      BY <2>1, ForemostRecorded, DirectoryMeans, Zenon
    <2> QED
      BY <1>2, <2>1, <2>2, Zenon DEF Assigned
  <1>15. CASE ProcessGone
    <2>1. 0 \in 0..MaxDeliveries
      BY <1>2
    <2> QED
      BY <1>15, <2>1, Zenon DEF ProcessGone, Assigned
  <1> QED
    BY <1>3, <1>11, <1>12, <1>13, <1>14, <1>15, Zenon DEF Next, vars, StartWorker, Stop, CloseOutbox, Crash, PowerLoss,
       Publish, PublishList, PublishEnd, PublishRetain

\* The mutexes.
LEMMA MutexStep ==
  ASSUME BridgeInv, [Next]_vars
  PROVE  mutex' \in [Directories -> Actors \cup {Nobody}]
  <1>1. TypeOK /\ Placed
    BY Zenon DEF BridgeInv
  <1>2. mutex \in [Directories -> Actors \cup {Nobody}]
    BY <1>1, Zenon DEF TypeOK
  <1>3. \A a \in Actors : mutex' = mutex \/ Lock(a) \/ Unlock(a) => mutex' \in [Directories -> Actors \cup {Nobody}]
    BY <1>2, Zenon DEF Lock, Unlock
  <1>4. ProcessGone => mutex' \in [Directories -> Actors \cup {Nobody}]
    BY Zenon DEF ProcessGone
  <1>5. \A t : Request(t) => mutex' = mutex \/ Lock(t) \/ Unlock(t)
    BY ZenonT(60) DEF Request, ClaimExecution, RunnerClaims, RunnerReplays, RunnerRefuses, RunnerRenames, RunnerCompletes, RunnerUnsynced, RunnerFails,
       EnqueueCreate, EnqueueWrite, EnqueueSync, EnqueueUndo, EnqueueSyncDirectory, EnqueueSame, EnqueueConflict,
       EnqueueError
  <1>6. \A a : Complete(a) => mutex' = mutex \/ Lock(a) \/ Unlock(a)
    BY Zenon DEF Complete, CompleteRename, CompleteSyncDirectory, CompleteSyncFails, CompleteAlready, CompleteError
  <1>7. Threads \subseteq Actors /\ Publisher \in Actors
    BY Zenon DEF Actors
  <1>8. \/ ProcessGone \/ \E a \in Actors : mutex' = mutex \/ Lock(a) \/ Unlock(a)
    BY <1>5, <1>6, <1>7, Zenon DEF Next, vars, StartWorker, Stop, CloseOutbox, Crash, PowerLoss, Deliver, Publish,
       PublishList, PublishEnd, PublishCall, PublishRetain
  <1> QED
    BY <1>3, <1>4, <1>8, Zenon

\* The worker, the counters and the refusals.
LEMMA CountersStep ==
  ASSUME BridgeInv, [Next]_vars
  PROVE  /\ phase' \in {"down", "up", "closing"} /\ closed' \subseteq Directories /\ refused' \subseteq Events
         /\ deliveries' \in 0..MaxDeliveries /\ faults' \in 0..MaxFaults
  <1>1. TypeOK /\ Placed
    BY Zenon DEF BridgeInv
  <1>2. /\ phase \in {"down", "up", "closing"} /\ closed \subseteq Directories /\ refused \subseteq Events
        /\ deliveries \in 0..MaxDeliveries /\ faults \in 0..MaxFaults /\ MaxDeliveries \in Nat /\ MaxFaults \in Nat
    BY <1>1, BoundsAssumption, Zenon DEF TypeOK
  <1>3. \A t \in Threads : Request(t) =>
          UNCHANGED <<worker, bounds>> /\ (refused' = refused \/ (EnqueueConflict(t) /\ refused' = refused \cup {ev[t]}))
    BY ZenonT(60) DEF Request, ClaimExecution, RunnerClaims, RunnerReplays, RunnerRefuses, RunnerRenames, RunnerCompletes, RunnerUnsynced, RunnerFails,
       EnqueueCreate, EnqueueWrite, EnqueueSync, EnqueueUndo, EnqueueSyncDirectory, EnqueueSame, EnqueueConflict,
       EnqueueError
  <1>4. \A a : Complete(a) => UNCHANGED <<worker, bounds, refused>>
    BY Zenon DEF Complete, CompleteRename, CompleteSyncDirectory, CompleteSyncFails, CompleteAlready, CompleteError
  <1>5. \A t \in Threads : EnqueueConflict(t) => ev[t] \in Events
    <2>1. \A t \in Threads : EnqueueConflict(t) => pc[t] = "enqueue"
      BY Zenon DEF EnqueueConflict
    <2> QED
      BY <1>1, <2>1, Zenon DEF Placed, ThreadOK
  <1>6. ASSUME NEW t \in Threads, Request(t)
        PROVE  /\ UNCHANGED <<phase, closed, deliveries, faults>> /\ refused' \subseteq Events
    BY <1>2, <1>3, <1>5, <1>6, Zenon DEF worker, bounds
  <1>7. Publish => UNCHANGED <<phase, closed, deliveries, faults, refused>>
    BY Zenon DEF Publish, PublishList, PublishEnd, PublishCall, PublishRetain, worker, bounds
  <1>8. CASE ProcessGone
    BY <1>2, <1>8 DEF ProcessGone, Crash, PowerLoss
  <1>9. CASE (\E d \in Directories : CloseOutbox(d)) \/ StartWorker \/ Stop
    BY <1>2, <1>9, Zenon DEF CloseOutbox, StartWorker, Stop, bounds
  <1>10. ASSUME NEW t \in Threads, NEW e \in Events, Deliver(t, e)
         PROVE  /\ UNCHANGED <<phase, closed, faults, refused>> /\ deliveries' \in 0..MaxDeliveries
    <2>1. /\ UNCHANGED <<phase, closed, faults, refused>> /\ deliveries' = deliveries + 1
          /\ deliveries < MaxDeliveries
      BY <1>10, Zenon DEF Deliver, worker
    <2> QED
      BY <1>2, <2>1
  <1>11. CASE UNCHANGED vars
    BY <1>2, <1>11, Zenon DEF vars
  <1>12. \A a : Complete(a) => UNCHANGED <<phase, closed, deliveries, faults, refused>>
    BY <1>4 DEF worker, bounds
  <1>13. \/ ProcessGone \/ (\E d \in Directories : CloseOutbox(d)) \/ StartWorker \/ Stop \/ UNCHANGED vars \/ Publish
         \/ (\E t \in Threads : Request(t) \/ \E e \in Events : Deliver(t, e)) \/ \E a \in Actors : Complete(a)
    BY Zenon DEF Next, Crash, PowerLoss
  <1> QED
    BY <1>2, <1>6, <1>7, <1>8, <1>9, <1>10, <1>11, <1>12, <1>13, Zenon

LEMMA TypeStep ==
  ASSUME BridgeInv, [Next]_vars
  PROVE  TypeOK'
  <1>1. TypeOK /\ Placed
    BY Zenon DEF BridgeInv
  <1>2. (\A t \in Threads : pc'[t] \in ThreadStates) /\ pc'[Publisher] \in PublisherStates
    BY PlacedStep, Zenon DEF Placed, ThreadOK, PublisherOK
  <1>3. box' \in [Events -> Files(Records)] /\ work' \in [Executions -> Works] /\ undone' \subseteq Executions
    BY <1>1, RecordsStep, WorkStep, Zenon
  <1>4. todo \subseteq Items /\ queued \subseteq Items /\ lost \subseteq Items
        /\ acked \subseteq [event : Events, result : Results, via : {"synced", "found"}]
    BY <1>1, Zenon DEF TypeOK
  <1>5. todo' \subseteq Items
    <2>1. ASSUME PublishList, NEW i \in todo'
          PROVE  i \in Items
      <3>1. PICK e \in Outbound : Seen(e).kind = "pending" /\ i = Item(e, Seen(e).result)
        BY <2>1, Zenon DEF PublishList
      <3>2. e \in Events /\ Seen(e) \in Records \cup {Absent, Torn}
        BY <1>1, DirectoryMeans, Zenon DEF TypeOK, Files, Seen
      <3>3. Seen(e).result \in Results
        BY <3>1, <3>2, RecordMeans, Zenon
      <3> QED
        BY <3>1, <3>2, <3>3, Zenon DEF Item, Items
    <2> QED
      BY <1>1, <1>4, <2>1, BooksStep
  <1>6. queued' \subseteq Items
    BY <1>1, <1>4, BooksStep, ForemostRecorded, Zenon
  <1>7. acked' \subseteq [event : Events, result : Results, via : {"synced", "found"}]
    <2>1. ASSUME NEW t \in Threads, Acks(t)
          PROVE  acked' \subseteq [event : Events, result : Results, via : {"synced", "found"}]
      <3>1. PICK via \in {"synced", "found"} :
              /\ acked' = acked \cup {[event |-> ev[t], result |-> res[t], via |-> via]}
              /\ \/ via = "found" /\ (EnqueueSame(t) \/ CompleteAlready(t))
                 \/ via = "synced" /\ (EnqueueSyncDirectory(t) \/ CompleteSyncDirectory(t))
        BY <2>1, Zenon DEF Acks
      <3>2. ev[t] \in Events /\ res[t] \in Results
        BY <3>1, AcksRecorded, Zenon
      <3> QED
        BY <1>4, <3>1, <3>2
    <2> QED
      BY <1>1, <1>4, <2>1, BooksStep, Zenon
  <1>8. lost' \subseteq Items
    <2>1. ASSUME NEW a \in acked
          PROVE  Item(a.event, a.result) \in Items
      BY <1>4, Zenon DEF Item, Items
    <2>2. PowerLoss => lost' \subseteq lost \cup queued \cup {Item(a.event, a.result) : a \in acked}
      BY Zenon DEF PowerLoss
    <2> QED
      BY <1>1, <1>4, <2>1, <2>2, BooksStep, Zenon
  <1>9. Assigned
    BY AssignedStep, Zenon
  <1>10. mutex' \in [Directories -> Actors \cup {Nobody}]
    BY MutexStep, Zenon
  <1> QED
    BY <1>2, <1>3, <1>5, <1>6, <1>7, <1>8, <1>9, <1>10, CountersStep, Zenon DEF TypeOK, Assigned

-----------------------------------------------------------------------------
(* The theorems. *)

LEMMA BridgeInit ==
  ASSUME Init
  PROVE  BridgeInv
  <1>1. NoFile \in Files(Records) /\ NoFile.seen = Absent /\ Present(NoFile) = {Absent} /\ Survivors(NoFile) = {Absent}
        /\ NoFile.seen \in NoFile.data
    BY Zenon DEF NoFile, Files, Survivors, Present
  <1>2. \A e \in Events : box[e] = NoFile
    BY DEF Init
  <1>3. TypeOK
    <2>1. NoWork \in Works /\ 0 \in 0..MaxDeliveries /\ 0 \in 0..MaxFaults
      BY BoundsAssumption DEF NoWork, Works
    <2>2. (\A t \in Threads : pc[t] \in ThreadStates) /\ pc[Publisher] \in PublisherStates
      BY Zenon DEF Init, Actors, ThreadStates, PublisherStates
    <2> QED
      BY <1>1, <2>1, <2>2, Zenon DEF Init, TypeOK
  <1>4. \A a \in Actors : pc[a] = "idle"
    BY Zenon DEF Init
  <1>5. Threads \subseteq Actors /\ Publisher \in Actors
    BY Zenon DEF Actors
  <1>6. Placed
    <2>1. pc \in [Actors -> ThreadStates \cup PublisherStates]
      BY Zenon DEF Init, ThreadStates
    <2> QED
      BY <1>4, <1>5, <2>1, Zenon DEF Placed, ThreadOK, PublisherOK, ThreadStates, PublisherStates, Recording, Completing,
         Enqueueing
  <1>7. Exclusive /\ Fresh
    BY <1>4, <1>5, Zenon DEF Exclusive, Fresh, Enqueueing
  <1>8. Writing
    BY <1>1, <1>2, <1>4, <1>5, Zenon DEF Writing, Enqueueing, Seen
  <1>9. Listed /\ AckedRecorded /\ QueuedRecorded
    BY Zenon DEF Init, Listed, AckedRecorded, QueuedRecorded
  <1>10. Backing
    <2>1. \A e \in Outbound : \A c \in Present(box[e]) : c.kind \notin {"pending", "complete"}
      BY <1>1, <1>2, DirectoryMeans, RecordMeans
    <2> QED
      BY <1>4, <1>5, <2>1, Zenon DEF Backing, Recording, Enqueueing
  <1>11. DoneIsQueued
    BY <1>1, <1>2, DirectoryMeans, RecordMeans DEF DoneIsQueued
  <1> QED
    BY <1>3, <1>6, <1>7, <1>8, <1>9, <1>10, <1>11 DEF BridgeInv

\* The invariant holds in every behaviour of the bridge: any interleaving of requests,
\* redeliveries and the publish loop, through crashes, power losses, disk errors and
\* failing removals.
THEOREM BridgeInvariant == Spec => []BridgeInv
  <1>1. Init => BridgeInv
    BY BridgeInit, Zenon
  <1>2. BridgeInv /\ [Next]_vars => BridgeInv'
    <2> SUFFICES ASSUME BridgeInv, [Next]_vars
                 PROVE  BridgeInv'
      BY Zenon
    <2>1. TypeOK' /\ Placed' /\ Exclusive' /\ Writing'
      BY TypeStep, PlacedStep, ExclusiveStep, WritingStep
    <2>2. Fresh' /\ Listed' /\ Backing'
      BY FreshStep, ListedStep, BackingStep, Zenon
    <2>3. AckedRecorded' /\ QueuedRecorded' /\ DoneIsQueued'
      BY AckedStep, QueuedStep, DoneStep
    <2> QED
      BY <2>1, <2>2, <2>3, Zenon DEF BridgeInv
  <1> QED
    BY <1>1, <1>2, PTL DEF Spec

\* What a handler has answered 202 for is in the record of its Event, or a power loss
\* undid a record the handler had only found; a record the handler synced itself is in
\* every survivor from then on.
THEOREM AckedStaysRecorded == Spec => []AckedRecorded
  <1>1. BridgeInv => AckedRecorded
    BY DEF BridgeInv
  <1> QED
    BY <1>1, BridgeInvariant, PTL

\* Whatever the publisher has had queued is the recorded result of an outbound Event, or
\* its record was undone by a power loss.
THEOREM QueuedIsRecorded == Spec => []QueuedRecorded
  <1>1. BridgeInv => QueuedRecorded
    BY Zenon DEF BridgeInv
  <1> QED
    BY <1>1, BridgeInvariant, PTL

\* No survivor says complete before the daemon has the result.
THEOREM DoneOnlyQueued == Spec => []DoneIsQueued
  <1>1. BridgeInv => DoneIsQueued
    BY Zenon DEF BridgeInv
  <1> QED
    BY <1>1, BridgeInvariant, PTL

\* A success that can be read from the outbox is one of an execution the runner completed
\* for that request, and its journal says so unless a power loss undid a completion that
\* no sync had followed.
THEOREM SuccessIsBacked == Spec => []SuccessBacked
  <1>1. BridgeInv => SuccessBacked
    <2> SUFFICES ASSUME BridgeInv, NEW e \in Outbound, Readable(e), Seen(e).result.status = "completed"
                 PROVE  Backed(e)
      BY Zenon DEF SuccessBacked, Backed
    <2>1. Seen(e) \in Present(box[e])
      BY Zenon DEF Seen, Present
    <2> QED
      BY <2>1, Zenon DEF BridgeInv, Backing, Readable
  <1> QED
    BY <1>1, BridgeInvariant, PTL
=============================================================================
