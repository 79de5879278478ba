---------------------------- MODULE SoftwareWork ----------------------------
(***************************************************************************)
(* pkg/softwarework: the runner and its execution journal, with the object  *)
(* store (pkg/artifactstore) and the directory lock (internal/dirlock) they *)
(* stand on.                                                               *)
(*                                                                         *)
(* A handler is one call of Runner.Execute.  Handlers of one process share  *)
(* the journal's mutex; handlers of two processes share only the directory: *)
(* Journal.Close releases the directory lock and stops nobody, so a second  *)
(* process may own the journal while handlers of the first still work.      *)
(* Every step that touches the disk is an action of its own, since the      *)
(* process may die, or the power fail, after each of them.                  *)
(***************************************************************************)
EXTENDS Naturals, DurableFile

CONSTANTS IDs,        \* execution IDs
          Prints,     \* request fingerprints (runner.go: requestFingerprint)
          NoPrint,
          Processes,
          Handlers,
          NoHandler,
          NoRequest,
          ProcessOf   \* ProcessOf[h]: the process that runs handler h

ASSUME NoPrintAssumption == NoPrint \notin Prints
ASSUME NoHandlerAssumption == NoHandler \notin Handlers
ASSUME NoRequestAssumption == NoRequest \notin [id : IDs, print : Prints]
ASSUME ProcessOfAssumption == ProcessOf \in [Handlers -> Processes]

VARIABLES
  proc,      \* proc[p]: "down", "open" (owns the journal), "closed" (has let go of it)
  mutex,     \* mutex[p]: the handler inside Claim or Complete, or NoHandler
  pc,        \* pc[h]: where handler h is in Execute
  req,       \* req[h]: the execution ID and fingerprint it was called with, or NoRequest
  attempt,   \* attempt[h]: which run of the work it owns (0: none)
  journal,   \* journal[id]: the record file of id
  visible,   \* objects linked into the store
  durable,   \* those whose directory entry is on disk
  runs,      \* runs[id]: how often executor.Execute was entered for id
  ranFor,    \* ranFor[id]: the fingerprint it was entered for
  answers    \* outcomes that Execute returned without an error

vars == <<proc, mutex, pc, req, attempt, journal, visible, durable, runs, ranFor, answers>>

-----------------------------------------------------------------------------
(* Data *)

Requests == [id : IDs, print : Prints]

\* journalRecord: a claim, or a completed claim with its outcome.
Running(p) == [kind |-> "running", print |-> p]
Complete(p, n) == [kind |-> "complete", print |-> p, out |-> n]

Records == [kind : {"running"}, print : Prints]
             \cup [kind : {"complete"}, print : Prints, out : Nat]

\* The two objects of run n of id: the report, and the artifact that holds it.
Object(id, n, what) == [id |-> id, out |-> n, what |-> what]
ObjectsOf(id, n) == {Object(id, n, "report"), Object(id, n, "artifact")}

Answered(r, n, via) == [id |-> r.id, print |-> r.print, out |-> n, via |-> via]

\* Control states in which a handler holds the mutex of its process.
Claiming == {"created", "written", "synced"}
Locked == Claiming \cup {"renamed"}

\* Control states after executor.Execute returned with exit code 0.
Storing == {"report", "reportLinked", "artifact", "artifactLinked", "complete"}

States == {"idle", "claim", "leased", "executing"} \cup Locked \cup Storing

-----------------------------------------------------------------------------

Init ==
  /\ proc = [p \in Processes |-> "down"]
  /\ mutex = [p \in Processes |-> NoHandler]
  /\ pc = [h \in Handlers |-> "idle"]
  /\ req = [h \in Handlers |-> NoRequest]
  /\ attempt = [h \in Handlers |-> 0]
  /\ journal = [id \in IDs |-> NoFile]
  /\ visible = {}
  /\ durable = {}
  /\ runs = [id \in IDs |-> 0]
  /\ ranFor = [id \in IDs |-> NoPrint]
  /\ answers = {}

-----------------------------------------------------------------------------
(* Processes *)

\* OpenJournal: dirlock.Acquire refuses a directory another process holds.
OpenJournal(p) ==
  /\ proc[p] = "down"
  /\ \A q \in Processes : proc[q] # "open"
  /\ proc' = [proc EXCEPT ![p] = "open"]
  /\ UNCHANGED <<mutex, pc, req, attempt, journal, visible, durable, runs, ranFor, answers>>

\* Journal.Close releases the lock; it waits for no handler and j.lock stays set,
\* so that Claim and Complete go on working.
CloseJournal(p) ==
  /\ proc[p] = "open"
  /\ proc' = [proc EXCEPT ![p] = "closed"]
  /\ UNCHANGED <<mutex, pc, req, attempt, journal, visible, durable, runs, ranFor, answers>>

HandlersGone(P) ==
  /\ proc' = [p \in Processes |-> IF p \in P THEN "down" ELSE proc[p]]
  /\ mutex' = [p \in Processes |-> IF p \in P THEN NoHandler ELSE mutex[p]]
  /\ pc' = [h \in Handlers |-> IF ProcessOf[h] \in P THEN "idle" ELSE pc[h]]
  /\ req' = [h \in Handlers |-> IF ProcessOf[h] \in P THEN NoRequest ELSE req[h]]
  /\ attempt' = [h \in Handlers |-> IF ProcessOf[h] \in P THEN 0 ELSE attempt[h]]
  /\ UNCHANGED <<runs, ranFor, answers>>

\* The process ends, by a crash or by a return from main, wherever its handlers are.
Crash(p) ==
  /\ proc[p] # "down"
  /\ HandlersGone({p})
  /\ UNCHANGED <<journal, visible, durable>>

\* Every process ends; of each name one survivor is left, and of the objects
\* at least those whose directory entry was synced.
PowerLoss ==
  /\ \E p \in Processes : proc[p] # "down"
  /\ HandlersGone(Processes)
  /\ \E kept \in [IDs -> UNION {Survivors(journal[id]) : id \in IDs}] :
       /\ \A id \in IDs : kept[id] \in Survivors(journal[id])
       /\ journal' = [id \in IDs |-> Settled(kept[id])]
  /\ \E lost \in SUBSET (visible \ durable) :
       /\ visible' = visible \ lost
       /\ durable' = visible \ lost

-----------------------------------------------------------------------------
(* Runner.Execute *)

storeVars == <<visible, durable>>
history == <<runs, ranFor, answers>>

Goto(h, state) ==
  /\ pc' = [pc EXCEPT ![h] = state]
  /\ UNCHANGED <<req, attempt>>

Return(h) ==
  /\ pc' = [pc EXCEPT ![h] = "idle"]
  /\ req' = [req EXCEPT ![h] = NoRequest]
  /\ attempt' = [attempt EXCEPT ![h] = 0]

MutexFree(h) == mutex[ProcessOf[h]] = NoHandler
Lock(h) == MutexFree(h) /\ mutex' = [mutex EXCEPT ![ProcessOf[h]] = h]
Unlock(h) == mutex' = [mutex EXCEPT ![ProcessOf[h]] = NoHandler]

ID(h) == req[h].id
Claim(h) == Running(req[h].print)
Seen(h) == journal[ID(h)].seen

\* A call with a valid request arrives; validateRequest and requestFingerprint
\* change nothing.  The journal is not asked whether it was closed.
Execute(h, r) ==
  /\ proc[ProcessOf[h]] # "down"
  /\ pc[h] = "idle"
  /\ pc' = [pc EXCEPT ![h] = "claim"]
  /\ req' = [req EXCEPT ![h] = r]
  /\ UNCHANGED <<proc, mutex, attempt, journal, storeVars, history>>

\* Mutant: the create is not exclusive.
ClaimCreateShared(h) ==
  /\ pc[h] = "claim"
  /\ Lock(h)
  /\ journal' = [journal EXCEPT ![ID(h)] = Created(@)]
  /\ Goto(h, "created")
  /\ UNCHANGED <<proc, storeVars, history>>

\* Mutant: a claim that says "running" for the same request may be taken over.
ClaimCreateTakesOver(h) ==
  /\ pc[h] = "claim"
  /\ Lock(h)
  /\ Seen(h) \in {Absent, Claim(h)}
  /\ journal' = [journal EXCEPT ![ID(h)] = Created(@)]
  /\ Goto(h, "created")
  /\ UNCHANGED <<proc, storeVars, history>>

\* Claim: the exclusive create succeeds.
ClaimCreate(h) ==
  /\ pc[h] = "claim"
  /\ Lock(h)
  /\ Seen(h) = Absent
  /\ journal' = [journal EXCEPT ![ID(h)] = Created(@)]
  /\ Goto(h, "created")
  /\ UNCHANGED <<proc, storeVars, history>>

ClaimWrite(h) ==
  /\ pc[h] = "created"
  /\ journal' = [journal EXCEPT ![ID(h)] = Written(@, Claim(h))]
  /\ Goto(h, "written")
  /\ UNCHANGED <<proc, mutex, storeVars, history>>

ClaimSync(h) ==
  /\ pc[h] = "written"
  /\ journal' = [journal EXCEPT ![ID(h)] = Synced(@)]
  /\ Goto(h, "synced")
  /\ UNCHANGED <<proc, mutex, storeVars, history>>

\* Mutant: the lease is handed out before the directory is synced.
ClaimSkipsDirectory(h) ==
  /\ pc[h] = "synced"
  /\ Goto(h, "leased")
  /\ Unlock(h)
  /\ UNCHANGED <<proc, journal, storeVars, history>>

\* syncDirectory covers every name of the journal's root; only now the claim counts.
ClaimSyncDirectory(h) ==
  /\ pc[h] = "synced"
  /\ journal' = [id \in IDs |-> DirSynced(journal[id])]
  /\ Goto(h, "leased")
  /\ Unlock(h)
  /\ UNCHANGED <<proc, storeVars, history>>

\* Mutant: the failed claim returns without unlocking.
ClaimUndoLocked(h) ==
  /\ pc[h] \in Claiming
  /\ journal' \in {journal, [journal EXCEPT ![ID(h)] = Removed(@)]}
  /\ Return(h)
  /\ UNCHANGED <<proc, mutex, storeVars, history>>

\* The write, the sync, the close or the directory sync fails: the claim is taken
\* back by an os.Remove whose own error is dropped.
ClaimUndo(h) ==
  /\ pc[h] \in Claiming
  /\ journal' \in {journal, [journal EXCEPT ![ID(h)] = Removed(@)]}
  /\ Return(h)
  /\ Unlock(h)
  /\ UNCHANGED <<proc, storeVars, history>>

\* Mutant: the fingerprint of the completed record is not compared.
ClaimReplayAny(h) ==
  /\ pc[h] = "claim"
  /\ MutexFree(h)
  /\ Seen(h).kind = "complete"
  /\ answers' = answers \cup {Answered(req[h], Seen(h).out, "replay")}
  /\ Return(h)
  /\ UNCHANGED <<proc, mutex, journal, storeVars, runs, ranFor>>

\* The name exists with a completed record of the same request: its outcome is
\* the answer.
ClaimReplay(h) ==
  /\ pc[h] = "claim"
  /\ MutexFree(h)
  /\ Seen(h).kind = "complete"
  /\ Seen(h).print = req[h].print
  /\ answers' = answers \cup {Answered(req[h], Seen(h).out, "replay")}
  /\ Return(h)
  /\ UNCHANGED <<proc, mutex, journal, storeVars, runs, ranFor>>

\* The name exists but is unreadable, belongs to another request, or is still
\* "running" (the outcome is ambiguous); or an I/O error, possible whatever the
\* name holds, made the create or the read fail.
ClaimRefuse(h) ==
  /\ pc[h] = "claim"
  /\ MutexFree(h)
  /\ Return(h)
  /\ UNCHANGED <<proc, mutex, journal, storeVars, history>>

\* executor.Execute reaches the backend.
Start(h) ==
  /\ pc[h] = "leased"
  /\ pc' = [pc EXCEPT ![h] = "executing"]
  /\ attempt' = [attempt EXCEPT ![h] = runs[ID(h)] + 1]
  /\ runs' = [runs EXCEPT ![ID(h)] = @ + 1]
  /\ ranFor' = [ranFor EXCEPT ![ID(h)] = req[h].print]
  /\ UNCHANGED <<proc, mutex, req, journal, storeVars, answers>>

\* The executor returns exit code 0.
Succeed(h) ==
  /\ pc[h] = "executing"
  /\ Goto(h, "report")
  /\ UNCHANGED <<proc, mutex, journal, storeVars, history>>

\* The executor refuses, fails, times out or reports another exit code; a Put
\* fails; Complete fails before its rename.  The record stays "running".
Fail(h) ==
  /\ pc[h] \in {"leased", "executing"} \cup Storing
  /\ Return(h)
  /\ UNCHANGED <<proc, mutex, journal, storeVars, history>>

\* Store.Put: the synced temporary object is linked under its digest.
PutLink(h, from, what, to) ==
  /\ pc[h] = from
  /\ visible' = visible \cup {Object(ID(h), attempt[h], what)}
  /\ Goto(h, to)
  /\ UNCHANGED <<proc, mutex, journal, durable, history>>

\* Mutant: Put returns before the object directory is synced.
PutSkipsSync(h, from, to) ==
  /\ pc[h] = from
  /\ Goto(h, to)
  /\ UNCHANGED <<proc, mutex, journal, visible, durable, history>>

\* Store.Put: the object directory is synced.
PutSync(h, from, to) ==
  /\ pc[h] = from
  /\ durable' = visible
  /\ Goto(h, to)
  /\ UNCHANGED <<proc, mutex, journal, visible, history>>

PutReport(h) ==
  \/ PutLink(h, "report", "report", "reportLinked")
  \/ PutSync(h, "reportLinked", "artifact")

PutArtifact(h) ==
  \/ PutLink(h, "artifact", "artifact", "artifactLinked")
  \/ PutSync(h, "artifactLinked", "complete")

\* Mutant: Complete returns before the directory is synced.
CompleteSkipsDirectory(h) ==
  /\ pc[h] = "renamed"
  /\ answers' = answers \cup {Answered(req[h], attempt[h], "owner")}
  /\ Return(h)
  /\ Unlock(h)
  /\ UNCHANGED <<proc, journal, storeVars, runs, ranFor>>

\* Complete: the claim is still there, and the synced record with the outcome is
\* renamed over it.
CompleteRename(h) ==
  /\ pc[h] = "complete"
  /\ Lock(h)
  /\ Seen(h) = Claim(h)
  /\ journal' = [journal EXCEPT ![ID(h)] = Replaced(@, Complete(req[h].print, attempt[h]))]
  /\ Goto(h, "renamed")
  /\ UNCHANGED <<proc, storeVars, history>>

CompleteSyncDirectory(h) ==
  /\ pc[h] = "renamed"
  /\ journal' = [id \in IDs |-> DirSynced(journal[id])]
  /\ answers' = answers \cup {Answered(req[h], attempt[h], "owner")}
  /\ Return(h)
  /\ Unlock(h)
  /\ UNCHANGED <<proc, storeVars, runs, ranFor>>

\* The directory sync fails after the rename: Execute returns an error although
\* the completed record can be read.
CompleteSyncFails(h) ==
  /\ pc[h] = "renamed"
  /\ Return(h)
  /\ Unlock(h)
  /\ UNCHANGED <<proc, journal, storeVars, history>>

Work(h) ==
  \/ ClaimCreate(h) \/ ClaimWrite(h) \/ ClaimSync(h) \/ ClaimSyncDirectory(h)
  \/ ClaimUndo(h) \/ ClaimReplay(h) \/ ClaimRefuse(h)
  \/ Start(h) \/ Succeed(h) \/ Fail(h)
  \/ PutReport(h) \/ PutArtifact(h)
  \/ CompleteRename(h) \/ CompleteSyncDirectory(h) \/ CompleteSyncFails(h)

Next ==
  \/ \E p \in Processes : OpenJournal(p) \/ CloseJournal(p) \/ Crash(p)
  \/ PowerLoss
  \/ \E h \in Handlers : Work(h) \/ \E r \in Requests : Execute(h, r)

Spec == Init /\ [][Next]_vars

\* Every call of the code inside Execute returns (the executor's by its execution
\* deadline), and sync.Mutex starves no waiter.
FairSpec == Spec /\ \A h \in Handlers : SF_vars(Work(h))

-----------------------------------------------------------------------------
(* Properties *)

Objects == [id : IDs, out : Nat, what : {"report", "artifact"}]
Answers == [id : IDs, print : Prints, out : Nat, via : {"owner", "replay"}]

\* Every variable has its type, and a handler outside "idle" serves a request.
TypeOK ==
  /\ proc \in [Processes -> {"down", "open", "closed"}]
  /\ mutex \in [Processes -> Handlers \cup {NoHandler}]
  /\ pc \in [Handlers -> States]
  /\ req \in [Handlers -> Requests \cup {NoRequest}]
  /\ attempt \in [Handlers -> Nat]
  /\ journal \in [IDs -> Files(Records)]
  /\ visible \in SUBSET Objects
  /\ durable \in SUBSET Objects
  /\ runs \in [IDs -> Nat]
  /\ ranFor \in [IDs -> Prints \cup {NoPrint}]
  /\ answers \in SUBSET Answers
  /\ \A h \in Handlers : pc[h] # "idle" => req[h] \in Requests

\* Runner.Execute enters the executor at most once for an execution ID, whatever
\* handlers, processes, failed claims, crashes and power losses come between.
AtMostOnce == \A id \in IDs : runs[id] <= 1

\* The executor has been entered only for an ID whose journal record is on disk:
\* no power loss, then or later, leaves the name free or unreadable.
ClaimedBeforeRun == \A id \in IDs : runs[id] > 0 => Durable(journal[id])

\* Both objects of an outcome that Execute returned, from its own run or from the
\* journal, survive every later power loss.
AnswersBacked == \A a \in answers : ObjectsOf(a.id, a.out) \subseteq durable

\* An outcome returned by the handler that ran the work is never forgotten: no
\* power loss turns its record back into an ambiguous one.
OwnerAnswerKept ==
  \A a \in answers :
    a.via = "owner" =>
      Survivors(journal[a.id]) = {Complete(a.print, a.out)}

\* A run that ended without a completed record leaves its ID ambiguous: nobody
\* works on it and the record says "running".
AtWork(h, id) ==
  /\ pc[h] \in {"executing", "renamed"} \cup Storing
  /\ req[h].id = id
Stranded(id) ==
  /\ runs[id] > 0
  /\ journal[id].seen.kind = "running"
  /\ \A h \in Handlers : ~AtWork(h, id)

\* An ambiguous execution ID is never reused and never answered later
\* (deploy/provider/README.md: "A crash-ambiguous execution ID is never reused").
StrandedForever == [][\A id \in IDs : Stranded(id) => Stranded(id)']_vars

\* The runner keeps the promise of ExecutionPromise.
Promise == INSTANCE ExecutionPromise
             WITH IDs <- IDs, Prints <- Prints, NoPrint <- NoPrint,
                  runs <- runs, ranFor <- ranFor, answers <- answers
KeepsPromise == Promise!Spec

\* Every call of Execute returns, unless its process ends first.
EveryCallReturns == \A h \in Handlers : pc[h] # "idle" ~> pc[h] = "idle"
=============================================================================
