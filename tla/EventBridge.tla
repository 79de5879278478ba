----------------------------- MODULE EventBridge -----------------------------
(***************************************************************************)
(* pkg/messengereventbridge as cmd/tos-messenger-event-worker assembles it: *)
(* Messenger delivers an Event over a Unix socket; a handler claims the     *)
(* execution, has the work run (pkg/a2aadapter, pkg/mcpadapter), records    *)
(* the result in the outbox and only then answers 202; a publisher loop     *)
(* queues recorded results with the Messenger daemon.                       *)
(*                                                                         *)
(* Messenger is external: it may deliver an Event again at any time, also   *)
(* one it has had a 202 for, and it queues a result once for each           *)
(* idempotency key.  The runner appears by the promise SoftwareWork keeps,  *)
(* and by the rename of its journal that a power loss may undo.             *)
(* Events that do not decode or that the authorizer refuses get another     *)
(* status and change nothing; Events are the others.                        *)
(***************************************************************************)
EXTENDS Naturals, DurableFile

CONSTANTS Events,         \* Event IDs, in their order
          Kind,           \* Kind[e]: "a2a.message", "mcp.call" or "mcp.result"
          ExecutionOf,    \* ExecutionOf[e]: the execution ID the body of e names
          PrintOf,        \* PrintOf[e]: the fingerprint of the request in that body
          Routed,         \* Events whose sender has a result route
          Threads,        \* concurrent requests to the two sockets
          Publisher,      \* the publish loop
          NoEvent, NoResult, NoPrint, Nobody,
          Faults,         \* what may happen, of "crash", "power", "stop" (an orderly
                          \* end), "disk" (a call on a file fails), "remove" (even
                          \* the os.Remove after it)
          MaxDeliveries,  \* bound: requests started
          MaxFaults       \* bound: process ends and power losses

Actors == Threads \cup {Publisher}
Executions == {ExecutionOf[e] : e \in Events}
Kinds == {"a2a.message", "mcp.call", "mcp.result"}

ASSUME EventsAssumption == Events \subseteq Nat /\ Routed \subseteq Events
ASSUME KindAssumption == Kind \in [Events -> Kinds]
ASSUME ActorsAssumption == Publisher \notin Threads /\ Nobody \notin Actors /\ NoEvent \notin Events
ASSUME BoundsAssumption == MaxDeliveries \in Nat /\ MaxFaults \in Nat

VARIABLES
  phase,      \* the worker: "down", "up", "closing"
  closed,     \* directories whose ResultOutbox.lock is nil
  mutex,      \* mutex[d]: who is inside the ResultOutbox of directory d
  pc,         \* pc[a]: where actor a is
  ev,         \* ev[a]: the Event it works on
  res,        \* res[a]: the result it holds for it
  stamp,      \* stamp[t]: the time of the request, as its number
  work,       \* work[x]: the runner's journal record of execution x
  box,        \* box[e]: the record file of e (outbox or inbound journal)
  todo,       \* the pending results the publisher has listed and not handled
  queued,     \* results queued with the Messenger daemon
  acked,      \* results a handler answered 202 for
  lost,       \* ghost: results answered for or queued whose record a power loss undid
  undone,     \* ghost: executions whose completion a power loss undid
  refused,    \* Events whose delivery was refused as conflicting with the record
  deliveries, faults

vars == <<phase, closed, mutex, pc, ev, res, stamp, work, box, todo, queued, acked, lost, undone,
          refused, deliveries, faults>>

-----------------------------------------------------------------------------
(* Data *)

\* A result as sameResult and the digest tell results apart: an A2A Task carries
\* the time of its request, an MCP Output nothing that differs between calls.
Results == [status : {"completed", "failed", "remote"}, stamp : 0..MaxDeliveries]
Task(status, n) == [status |-> status, stamp |-> n]
Output == [status |-> "completed", stamp |-> 0]
Remote == [status |-> "remote", stamp |-> 0]

\* resultRecord.
Pending(r) == [kind |-> "pending", result |-> r]
Done(r) == [kind |-> "complete", result |-> r]
Records == [kind : {"pending", "complete"}, result : Results]
Holds(c, r) == c \in {Pending(r), Done(r)}

\* The journal record of an execution, and the request that claimed it.  A "renamed" one
\* reads as complete, but the directory has not been synced since the rename.
NoWork == [kind |-> "absent", print |-> NoPrint]
Works == [kind : {"absent", "running", "renamed", "complete"},
          print : {PrintOf[e] : e \in Events} \cup {NoPrint}]
CompleteFor(e) ==
  /\ work[ExecutionOf[e]].kind \in {"renamed", "complete"}
  /\ work[ExecutionOf[e]].print = PrintOf[e]

\* A queued result: the idempotency key covers the source Event and the digest.
Item(e, r) == [event |-> e, result |-> r]
Items == [event : Events, result : Results]

Directories == {"result-outbox", "mcp-result-journal"}
Directory(e) == IF Kind[e] = "mcp.result" THEN "mcp-result-journal" ELSE "result-outbox"
Outbound == {e \in Events : Directory(e) = "result-outbox"}

Enqueueing == {"created", "written", "synced"}
ThreadStates == {"idle", "claim", "run", "owner", "journal", "enqueue", "complete", "renamed"}
                  \cup Enqueueing
PublisherStates == {"idle", "loop", "complete", "renamed"}

Dir(a) == Directory(ev[a])
Seen(e) == box[e].seen
Readable(e) == Seen(e).kind \in {"pending", "complete"}

-----------------------------------------------------------------------------
(* Steps *)

Init ==
  /\ phase = "down"
  /\ closed = {}
  /\ mutex = [d \in Directories |-> Nobody]
  /\ pc = [a \in Actors |-> "idle"]
  /\ ev = [a \in Actors |-> NoEvent]
  /\ res = [a \in Actors |-> NoResult]
  /\ stamp = [t \in Threads |-> 0]
  /\ work = [x \in Executions |-> NoWork]
  /\ box = [e \in Events |-> NoFile]
  /\ todo = {} /\ queued = {} /\ acked = {} /\ lost = {} /\ undone = {} /\ refused = {}
  /\ deliveries = 0 /\ faults = 0

worker == <<phase, closed>>
bounds == <<deliveries, faults>>

Goto(a, state) == pc' = [pc EXCEPT ![a] = state]

\* The request ends with a status other than 202: Messenger keeps its lease.
Answer503(t) ==
  /\ pc' = [pc EXCEPT ![t] = "idle"]
  /\ ev' = [ev EXCEPT ![t] = NoEvent]
  /\ res' = [res EXCEPT ![t] = NoResult]
  /\ stamp' = [stamp EXCEPT ![t] = 0]
  /\ UNCHANGED acked

\* The request ends with 202.
Accept(t, via) ==
  /\ pc' = [pc EXCEPT ![t] = "idle"]
  /\ ev' = [ev EXCEPT ![t] = NoEvent]
  /\ res' = [res EXCEPT ![t] = NoResult]
  /\ stamp' = [stamp EXCEPT ![t] = 0]
  /\ acked' = acked \cup {[event |-> ev[t], result |-> res[t], via |-> via]}

Free(a) == mutex[Dir(a)] = Nobody
Lock(a) == Free(a) /\ mutex' = [mutex EXCEPT ![Dir(a)] = a]
Unlock(a) == mutex' = [mutex EXCEPT ![Dir(a)] = Nobody]
DirectorySynced(d) ==
  box' = [e \in Events |-> IF Directory(e) = d THEN DirSynced(box[e]) ELSE box[e]]

\* The runner's journal: who has its mutex between rename and sync, and a sync.
JournalFree == \A t \in Threads : pc[t] # "journal"
WorkSynced(x) == IF work[x].kind = "renamed" THEN [work[x] EXCEPT !.kind = "complete"] ELSE work[x]

-----------------------------------------------------------------------------
(* The worker process *)

\* openWorker and Run.
StartWorker ==
  /\ phase = "down"
  /\ phase' = "up"
  /\ closed' = {}
  /\ UNCHANGED <<mutex, pc, ev, res, stamp, work, box, todo, queued, acked, lost, undone, refused, bounds>>

\* ctx is done: the listeners close and the publish loop ends at its next look.
Stop ==
  /\ "stop" \in Faults /\ faults < MaxFaults
  /\ phase = "up"
  /\ phase' = "closing"
  /\ UNCHANGED <<closed, mutex, pc, ev, res, stamp, work, box, todo, queued, acked, lost, undone, refused, bounds>>

\* worker.Close closes each ResultOutbox, though requests may still be served:
\* Run waits for two of its three goroutines.
CloseOutbox(d) ==
  /\ phase = "closing"
  /\ d \notin closed
  /\ mutex[d] = Nobody
  /\ closed' = closed \cup {d}
  /\ UNCHANGED <<phase, mutex, pc, ev, res, stamp, work, box, todo, queued, acked, lost, undone, refused, bounds>>

\* The process ends, after worker.Close or by a crash.
ProcessGone ==
  /\ phase # "down"
  /\ faults < MaxFaults
  /\ faults' = faults + 1
  /\ phase' = "down"
  /\ mutex' = [d \in Directories |-> Nobody]
  /\ pc' = [a \in Actors |-> "idle"]
  /\ ev' = [a \in Actors |-> NoEvent]
  /\ res' = [a \in Actors |-> NoResult]
  /\ stamp' = [t \in Threads |-> 0]
  /\ todo' = {}
  /\ UNCHANGED <<closed, queued, acked, refused, deliveries>>

Crash ==
  /\ "crash" \in Faults \/ closed = Directories
  /\ ProcessGone
  /\ UNCHANGED <<work, box, lost, undone>>

\* Of each record file one survivor is left, and a completion that was not synced is
\* there or is not.
PowerLoss ==
  /\ "power" \in Faults
  /\ ProcessGone
  /\ \E gone \in SUBSET {x \in Executions : work[x].kind = "renamed"} :
       /\ work' = [x \in Executions |-> IF x \in gone THEN [work[x] EXCEPT !.kind = "running"]
                                                     ELSE WorkSynced(x)]
       /\ undone' = undone \cup gone
  /\ \E kept \in [Events -> UNION {Survivors(box[e]) : e \in Events}] :
       /\ \A e \in Events : kept[e] \in Survivors(box[e])
       /\ box' = [e \in Events |-> Settled(kept[e])]
       /\ lost' = lost \cup {i \in queued \cup {Item(a.event, a.result) : a \in acked} :
                             ~Holds(kept[i.event], i.result)}

-----------------------------------------------------------------------------
(* A request: receiveA2A, receiveMCP and the execution handlers *)

\* UnixService.Run accepts requests until ctx is done.
Serving == phase = "up"

\* An inbound mcp.result goes straight to its journal.
Deliver(t, e) ==
  /\ Serving
  /\ pc[t] = "idle"
  /\ deliveries < MaxDeliveries
  /\ deliveries' = deliveries + 1
  /\ ev' = [ev EXCEPT ![t] = e]
  /\ stamp' = [stamp EXCEPT ![t] = deliveries + 1]
  /\ IF Kind[e] = "mcp.result"
       THEN Goto(t, "enqueue") /\ res' = [res EXCEPT ![t] = Remote]
       ELSE Goto(t, "claim") /\ UNCHANGED res
  /\ UNCHANGED <<worker, mutex, work, box, todo, queued, acked, lost, undone, refused, faults>>

\* The finalized-execution gate grants the claim, as it does again for an exact
\* repeat, or refuses it.
ClaimExecution(t) ==
  /\ pc[t] = "claim"
  /\ \/ Goto(t, "run") /\ UNCHANGED <<ev, res, stamp, acked>>
     \/ Answer503(t)
  /\ UNCHANGED <<worker, mutex, work, box, todo, queued, lost, undone, refused, bounds>>

\* What the adapters make of an outcome: a result that the receiver is to record,
\* unless the locator has no URL for its objects.
Outcome(t) ==
  \/ /\ Goto(t, "enqueue")
     /\ res' = [res EXCEPT ![t] = IF Kind[ev[t]] = "a2a.message" THEN Task("completed", stamp[t])
                                                                ELSE Output]
     /\ UNCHANGED <<ev, stamp, acked>>
  \/ Answer503(t)

\* What they make of a runner error: the A2A adapter a failed Task, the MCP
\* adapter an error.
RunnerError(t) ==
  IF Kind[ev[t]] = "a2a.message"
    THEN /\ Goto(t, "enqueue")
         /\ res' = [res EXCEPT ![t] = Task("failed", stamp[t])]
         /\ UNCHANGED <<ev, stamp, acked>>
    ELSE Answer503(t)

\* Runner.Execute: the execution ID is claimed for this request, and the claim synced
\* (one that is not, after a crash or a failure, is refused to everybody),
RunnerClaims(t) ==
  /\ pc[t] = "run" /\ JournalFree
  /\ work[ExecutionOf[ev[t]]] = NoWork
  /\ work' = [x \in Executions |-> IF x = ExecutionOf[ev[t]]
                                    THEN [kind |-> "running", print |-> PrintOf[ev[t]]]
                                    ELSE WorkSynced(x)]
  /\ Goto(t, "owner")
  /\ UNCHANGED <<worker, mutex, ev, res, stamp, box, todo, queued, acked, lost, undone, refused, bounds>>

\* or has been completed for it, synced or not,
RunnerReplays(t) ==
  /\ pc[t] = "run" /\ JournalFree
  /\ CompleteFor(ev[t])
  /\ Outcome(t)
  /\ UNCHANGED <<worker, mutex, work, box, todo, queued, lost, undone, refused, bounds>>

\* or is running, belongs to another request, or cannot be claimed.
RunnerRefuses(t) ==
  /\ pc[t] = "run" /\ JournalFree
  /\ (work[ExecutionOf[ev[t]]] # NoWork /\ ~CompleteFor(ev[t])) \/ "disk" \in Faults
  /\ RunnerError(t)
  /\ UNCHANGED <<worker, mutex, work, box, todo, queued, lost, undone, refused, bounds>>

\* Mutant: the outcome is returned although the record was not completed.
RunnerAnswersEarly(t) ==
  /\ pc[t] = "owner"
  /\ Outcome(t)
  /\ UNCHANGED <<worker, mutex, work, box, todo, queued, lost, undone, refused, bounds>>

\* The work succeeds: Journal.Complete renames its record into place
RunnerRenames(t) ==
  /\ pc[t] = "owner" /\ JournalFree
  /\ work' = [work EXCEPT ![ExecutionOf[ev[t]]].kind = "renamed"]
  /\ Goto(t, "journal")
  /\ UNCHANGED <<worker, mutex, ev, res, stamp, box, todo, queued, acked, lost, undone, refused, bounds>>

\* and syncs the directory,
RunnerCompletes(t) ==
  /\ pc[t] = "journal"
  /\ work' = [x \in Executions |-> WorkSynced(x)]
  /\ Outcome(t)
  /\ UNCHANGED <<worker, mutex, box, todo, queued, lost, undone, refused, bounds>>

\* or fails to, with the record in place.
RunnerUnsynced(t) ==
  /\ "disk" \in Faults
  /\ pc[t] = "journal"
  /\ RunnerError(t)
  /\ UNCHANGED <<worker, mutex, work, box, todo, queued, lost, undone, refused, bounds>>

\* The work fails, or Complete before its rename: the ID stays ambiguous.
RunnerFails(t) ==
  /\ pc[t] = "owner"
  /\ RunnerError(t)
  /\ UNCHANGED <<worker, mutex, work, box, todo, queued, lost, undone, refused, bounds>>

-----------------------------------------------------------------------------
(* ResultOutbox.enqueue *)

Open(a) == Dir(a) \notin closed

\* A recorded outbound result is the 202; an inbound one is completed first.
Recorded(t, via) ==
  IF Kind[ev[t]] = "mcp.result"
    THEN Goto(t, "complete") /\ UNCHANGED <<ev, res, stamp, acked>>
    ELSE Accept(t, via)

\* The exclusive create succeeds.
EnqueueCreate(t) ==
  /\ pc[t] = "enqueue"
  /\ Open(t)
  /\ Lock(t)
  /\ Seen(ev[t]) = Absent
  /\ box' = [box EXCEPT ![ev[t]] = Created(@)]
  /\ Goto(t, "created")
  /\ UNCHANGED <<worker, ev, res, stamp, work, todo, queued, acked, lost, undone, refused, bounds>>

EnqueueWrite(t) ==
  /\ pc[t] = "created"
  /\ box' = [box EXCEPT ![ev[t]] = Written(@, Pending(res[t]))]
  /\ Goto(t, "written")
  /\ UNCHANGED <<worker, mutex, ev, res, stamp, work, todo, queued, acked, lost, undone, refused, bounds>>

\* Mutant: the 202 does not wait for the directory.
EnqueueSkipsDirectory(t) ==
  /\ pc[t] = "synced"
  /\ Unlock(t)
  /\ Recorded(t, "synced")
  /\ UNCHANGED <<worker, work, box, todo, queued, lost, undone, refused, bounds>>

EnqueueSync(t) ==
  /\ pc[t] = "written"
  /\ box' = [box EXCEPT ![ev[t]] = Synced(@)]
  /\ Goto(t, "synced")
  /\ UNCHANGED <<worker, mutex, ev, res, stamp, work, todo, queued, acked, lost, undone, refused, bounds>>

EnqueueSyncDirectory(t) ==
  /\ pc[t] = "synced"
  /\ DirectorySynced(Dir(t))
  /\ Unlock(t)
  /\ Recorded(t, "synced")
  /\ UNCHANGED <<worker, work, todo, queued, lost, undone, refused, bounds>>

\* Mutant: the failed enqueue returns without unlocking.
EnqueueUndoLocked(t) ==
  /\ "disk" \in Faults
  /\ pc[t] \in Enqueueing
  /\ box' = [box EXCEPT ![ev[t]] = Removed(@)]
  /\ Answer503(t)
  /\ UNCHANGED <<worker, mutex, work, todo, queued, lost, undone, refused, bounds>>

\* A write or sync fails; the name is removed, and the error of that is dropped.
EnqueueUndo(t) ==
  /\ "disk" \in Faults
  /\ pc[t] \in Enqueueing
  /\ \/ box' = [box EXCEPT ![ev[t]] = Removed(@)]
     \/ "remove" \in Faults /\ UNCHANGED box
  /\ Unlock(t)
  /\ Answer503(t)
  /\ UNCHANGED <<worker, work, todo, queued, lost, undone, refused, bounds>>

\* The name exists with this very result: nothing is written, nothing is synced.
EnqueueSame(t) ==
  /\ pc[t] = "enqueue"
  /\ Open(t)
  /\ Free(t)
  /\ Readable(ev[t])
  /\ Seen(ev[t]).result = res[t]
  /\ Recorded(t, "found")
  /\ UNCHANGED <<worker, mutex, work, box, todo, queued, lost, undone, refused, bounds>>

\* Mutant: the newer result replaces the recorded one.
EnqueueOverwrites(t) ==
  /\ pc[t] = "enqueue"
  /\ Open(t)
  /\ Free(t)
  /\ Readable(ev[t])
  /\ Seen(ev[t]).result # res[t]
  /\ box' = [box EXCEPT ![ev[t]] = Replaced(@, Pending(res[t]))]
  /\ Answer503(t)
  /\ UNCHANGED <<worker, mutex, work, todo, queued, lost, undone, refused, bounds>>

\* The name exists with another result.
EnqueueConflict(t) ==
  /\ pc[t] = "enqueue"
  /\ Open(t)
  /\ Free(t)
  /\ Readable(ev[t])
  /\ Seen(ev[t]).result # res[t]
  /\ refused' = refused \cup {ev[t]}
  /\ Answer503(t)
  /\ UNCHANGED <<worker, mutex, work, box, todo, queued, lost, undone, bounds>>

\* The outbox is closed, the name cannot be read, or the create fails.
EnqueueError(t) ==
  /\ pc[t] = "enqueue"
  /\ ~Open(t) \/ Seen(ev[t]) = Torn \/ "disk" \in Faults
  /\ Free(t)
  /\ Answer503(t)
  /\ UNCHANGED <<worker, mutex, work, box, todo, queued, lost, undone, refused, bounds>>

-----------------------------------------------------------------------------
(* ResultOutbox.Complete, for an inbound result and for a published one *)

\* The publisher goes on with the next result, whether or not this one was
\* completed; an inbound result was completed (202) or not.
Handled(a) ==
  /\ pc' = [pc EXCEPT ![a] = "loop"]
  /\ ev' = [ev EXCEPT ![a] = NoEvent]
  /\ res' = [res EXCEPT ![a] = NoResult]
  /\ UNCHANGED <<stamp, acked>>

Completed(a, via) == IF a = Publisher THEN Handled(a) ELSE Accept(a, via)
NotCompleted(a) == IF a = Publisher THEN Handled(a) ELSE Answer503(a)

CompleteRename(a) ==
  /\ pc[a] = "complete"
  /\ Open(a)
  /\ Lock(a)
  /\ Seen(ev[a]) = Pending(res[a])
  /\ box' = [box EXCEPT ![ev[a]] = Replaced(@, Done(res[a]))]
  /\ Goto(a, "renamed")
  /\ UNCHANGED <<worker, ev, res, stamp, work, todo, queued, acked, lost, undone, refused, bounds>>

CompleteSyncDirectory(a) ==
  /\ pc[a] = "renamed"
  /\ DirectorySynced(Dir(a))
  /\ Unlock(a)
  /\ Completed(a, "synced")
  /\ UNCHANGED <<worker, work, todo, queued, lost, undone, refused, bounds>>

CompleteSyncFails(a) ==
  /\ "disk" \in Faults
  /\ pc[a] = "renamed"
  /\ Unlock(a)
  /\ NotCompleted(a)
  /\ UNCHANGED <<worker, work, box, todo, queued, lost, undone, refused, bounds>>

CompleteAlready(a) ==
  /\ pc[a] = "complete"
  /\ Open(a)
  /\ Free(a)
  /\ Seen(ev[a]) = Done(res[a])
  /\ Completed(a, "found")
  /\ UNCHANGED <<worker, mutex, work, box, todo, queued, lost, undone, refused, bounds>>

\* The outbox is closed, the record is gone or another, or the disk fails.
CompleteError(a) ==
  /\ pc[a] = "complete"
  /\ ~Open(a) \/ Seen(ev[a]) \notin {Pending(res[a]), Done(res[a])} \/ "disk" \in Faults
  /\ Free(a)
  /\ NotCompleted(a)
  /\ UNCHANGED <<worker, mutex, work, box, todo, queued, lost, undone, refused, bounds>>

-----------------------------------------------------------------------------
(* ResultPublisher.PublishPending *)

\* Pending: one unreadable record fails the whole listing.
PublishList ==
  /\ pc[Publisher] = "idle"
  /\ phase = "up"
  /\ mutex["result-outbox"] = Nobody
  /\ \A e \in Outbound : Seen(e) # Torn
  /\ todo' = {Item(e, Seen(e).result) : e \in {f \in Outbound : Seen(f).kind = "pending"}}
  /\ todo' # {}
  /\ Goto(Publisher, "loop")
  /\ UNCHANGED <<worker, mutex, ev, res, stamp, work, box, queued, acked, lost, undone, refused, bounds>>

\* Results are published in the order of their Event IDs.
Foremost == CHOOSE i \in todo : \A j \in todo : i.event <= j.event

\* The list is done, or ctx is.
PublishEnd ==
  /\ pc[Publisher] = "loop"
  /\ todo = {} \/ phase = "closing"
  /\ todo' = {}
  /\ Goto(Publisher, "idle")
  /\ UNCHANGED <<worker, mutex, ev, res, stamp, work, box, queued, acked, lost, undone, refused, bounds>>

\* The daemon returns the Event ID of the queued result.
PublishCall ==
  /\ pc[Publisher] = "loop"
  /\ phase = "up"
  /\ todo # {}
  /\ Foremost.event \in Routed
  /\ queued' = queued \cup {Foremost}
  /\ todo' = todo \ {Foremost}
  /\ ev' = [ev EXCEPT ![Publisher] = Foremost.event]
  /\ res' = [res EXCEPT ![Publisher] = Foremost.result]
  /\ Goto(Publisher, "complete")
  /\ UNCHANGED <<worker, mutex, stamp, work, box, acked, lost, undone, refused, bounds>>

\* Mutant: a failed call is taken for a queued result.
PublishCompletes ==
  /\ pc[Publisher] = "loop"
  /\ phase = "up"
  /\ todo # {}
  /\ todo' = todo \ {Foremost}
  /\ ev' = [ev EXCEPT ![Publisher] = Foremost.event]
  /\ res' = [res EXCEPT ![Publisher] = Foremost.result]
  /\ Goto(Publisher, "complete")
  /\ UNCHANGED <<worker, mutex, stamp, work, box, queued, acked, lost, undone, refused, bounds>>

\* The sender has no route, or the call fails, before or after the daemon queued
\* the result: it is retained for the next listing.
PublishRetain ==
  /\ pc[Publisher] = "loop"
  /\ phase = "up"
  /\ todo # {}
  /\ \/ UNCHANGED queued
     \/ Foremost.event \in Routed /\ queued' = queued \cup {Foremost}
  /\ todo' = todo \ {Foremost}
  /\ UNCHANGED <<worker, mutex, pc, ev, res, stamp, work, box, acked, lost, undone, refused, bounds>>

-----------------------------------------------------------------------------

Request(t) ==
  \/ ClaimExecution(t) \/ RunnerClaims(t) \/ RunnerReplays(t) \/ RunnerRefuses(t)
  \/ RunnerRenames(t) \/ RunnerCompletes(t) \/ RunnerUnsynced(t) \/ RunnerFails(t)
  \/ EnqueueCreate(t) \/ EnqueueWrite(t) \/ EnqueueSync(t) \/ EnqueueSyncDirectory(t)
  \/ EnqueueUndo(t) \/ EnqueueSame(t) \/ EnqueueConflict(t) \/ EnqueueError(t)

Complete(a) ==
  \/ CompleteRename(a) \/ CompleteSyncDirectory(a) \/ CompleteSyncFails(a)
  \/ CompleteAlready(a) \/ CompleteError(a)

Publish == PublishList \/ PublishEnd \/ PublishCall \/ PublishRetain

Next ==
  \/ StartWorker \/ Stop \/ Crash \/ PowerLoss
  \/ \E d \in Directories : CloseOutbox(d)
  \/ \E t \in Threads : Request(t) \/ \E e \in Events : Deliver(t, e)
  \/ \E a \in Actors : Complete(a)
  \/ Publish

Spec == Init /\ [][Next]_vars

\* A worker that is stopped ends and is restarted, every request goes on, the publish
\* loop ticks, and of the calls to the daemon for one result some succeed.
FairSpec ==
  /\ Spec
  /\ WF_vars(StartWorker)
  /\ SF_vars(\E d \in Directories : CloseOutbox(d))
  /\ WF_vars(Crash /\ closed = Directories)
  /\ \A t \in Threads : SF_vars(Request(t) \/ Complete(t))
  /\ SF_vars(Complete(Publisher))
  /\ SF_vars(PublishList)
  /\ WF_vars(PublishEnd \/ PublishCall \/ PublishRetain)
  /\ \A e \in Routed : SF_vars(PublishCall /\ Foremost.event = e)

-----------------------------------------------------------------------------
(* Properties *)

\* Every variable has its type.
TypeOK ==
  /\ phase \in {"down", "up", "closing"}
  /\ closed \subseteq Directories
  /\ mutex \in [Directories -> Actors \cup {Nobody}]
  /\ \A t \in Threads : pc[t] \in ThreadStates
  /\ pc[Publisher] \in PublisherStates
  /\ ev \in [Actors -> Events \cup {NoEvent}]
  /\ res \in [Actors -> Results \cup {NoResult}]
  /\ stamp \in [Threads -> 0..MaxDeliveries]
  /\ work \in [Executions -> Works]
  /\ box \in [Events -> Files(Records)]
  /\ todo \subseteq Items
  /\ queued \subseteq Items
  /\ acked \subseteq [event : Events, result : Results, via : {"synced", "found"}]
  /\ lost \subseteq Items
  /\ undone \subseteq Executions
  /\ refused \subseteq Events
  /\ deliveries \in 0..MaxDeliveries
  /\ faults \in 0..MaxFaults

\* A 202 is given only for a result the record file of its Event holds, and goes on to
\* hold (docs/messenger-event-boundary.md: "A handler returns success only after the A2A
\* Task or MCP Output has been durably recorded"): no power loss undoes a record the
\* handler synced itself; one it found may be lost, and only so.
AckedRecorded ==
  \A a \in acked :
    /\ Item(a.event, a.result) \in lost \/ Holds(Seen(a.event), a.result)
    /\ a.via = "synced" => \A c \in Survivors(box[a.event]) : Holds(c, a.result)

\* Whatever the daemon was asked to queue is the recorded result of that Event, whichever
\* handler, restart or retry recorded it, so that no two results of one Event are queued
\* (outbox.go: "one source Event ID can name only one exact result") unless a power loss
\* undid the record of one of them: the publisher takes a record as it finds it, also one
\* that a crash or a failed enqueue left unsynced.  An inbound result is never sent back.
QueuedRecorded ==
  \A i \in queued : i.event \in Outbound /\ (i \in lost \/ Holds(Seen(i.event), i.result))

\* A result is marked complete, in whatever survives, only after the daemon has it.
DoneIsQueued ==
  \A e \in Outbound : \A c \in Survivors(box[e]) :
    c.kind = "complete" => Item(e, c.result) \in queued

\* A Task or Output that reports success is recorded only for an execution the runner
\* completed for that very request.  The runner's journal still says so unless a power
\* loss undid the completion, which takes a rename that no sync followed (journal.go:134)
\* and a success replayed from it; the journal then has the claim of this request.
SuccessBacked ==
  \A e \in Outbound :
    Readable(e) /\ Seen(e).result.status = "completed" =>
      LET w == work[ExecutionOf[e]]
      IN  /\ w.print = PrintOf[e]
          /\ \/ w.kind \in {"renamed", "complete"}
             \/ w.kind = "running" /\ ExecutionOf[e] \in undone

\* An acknowledged result whose sender has a route is queued in the end, unless a crash
\* inside some enqueue left a record nobody can read: that one stops every listing.
AckedPublished ==
  \A e \in Routed \cap Outbound :
    (\E a \in acked : a.event = e) ~>
      ((\E i \in queued : i.event = e) \/ \E f \in Outbound : Seen(f) = Torn)

\* A retry of an Event is never refused as conflicting with its own record
\* (docs/messenger-event-boundary.md: "exact retries in pending or complete state
\* are idempotent").
RetryIdempotent == refused = {}
=============================================================================
