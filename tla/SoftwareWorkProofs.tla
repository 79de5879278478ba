------------------------- MODULE SoftwareWorkProofs -------------------------
(***************************************************************************)
(* Proofs about SoftwareWork, for any number of execution IDs, processes    *)
(* and handlers.                                                           *)
(***************************************************************************)
EXTENDS SoftwareWork, TLAPS

\* The time limits, in seconds, of the leaves that name no prover.
USE SMTT(30), ZenonT(20)

-----------------------------------------------------------------------------
(* The inductive invariant.  A claimant is a handler between its exclusive  *)
(* create and its entry into the executor.                                  *)

Claimant(h) == pc[h] \in Claiming \cup {"leased"}

\* Control states in which a handler owns the one run of its ID.
Owning == {"executing", "renamed"} \cup Storing

\* The file's own blocks may always be what is seen.
SeenSurvives == \A id \in IDs : journal[id].seen \in journal[id].data

\* A claimant is alone on its ID, before any run of it, and the name it created
\* is there.
ClaimantAlone ==
  \A h \in Handlers : Claimant(h) =>
    /\ runs[ID(h)] = 0
    /\ Seen(h) # Absent
    /\ \A g \in Handlers : Claimant(g) /\ ID(g) = ID(h) => g = h

\* How far the claim of a claimant has got on disk.
ClaimProgress ==
  \A h \in Handlers :
    /\ pc[h] \in {"written", "synced"} => Seen(h) = Claim(h)
    /\ pc[h] = "synced" => journal[ID(h)].data = {Claim(h)}
    /\ pc[h] = "leased" => Durable(journal[ID(h)])

\* A handler that owns a run owns the first and only one.
OwnerRuns ==
  \A h \in Handlers : pc[h] \in Owning =>
    /\ runs[ID(h)] = 1
    /\ attempt[h] = 1
    /\ ranFor[ID(h)] = req[h].print

SafeInv ==
  /\ TypeOK
  /\ SeenSurvives
  /\ ClaimantAlone
  /\ ClaimProgress
  /\ OwnerRuns
  /\ AtMostOnce
  /\ ClaimedBeforeRun

-----------------------------------------------------------------------------
(* Type correctness. *)

\* The file operators of DurableFile keep the type of a file.
LEMMA FileTypes ==
  ASSUME NEW R, NEW f \in Files(R), NEW r \in R
  PROVE  /\ NoFile \in Files(R)
         /\ Created(f) \in Files(R)
         /\ Written(f, r) \in Files(R)
         /\ Synced(f) \in Files(R)
         /\ DirSynced(f) \in Files(R)
         /\ Removed(f) \in Files(R)
         /\ Replaced(f, r) \in Files(R)
  BY Zenon DEF Files, NoFile, Created, Written, Synced, DirSynced, Removed, Replaced, Survivors,
         Absent, Torn

\* What a durable name holds, set operations unfolded.
LEMMA DurableMeans ==
  ASSUME NEW f
  PROVE  Durable(f) <=> /\ f.seen # Absent /\ f.seen # Torn
                        /\ Absent \notin f.data /\ Torn \notin f.data
                        /\ Absent \notin f.old /\ Torn \notin f.old
  BY Zenon DEF Durable, Survivors

\* Syncing the directory, and renaming a record over the name, keep a durable
\* name durable; syncing it makes a name durable whose blocks hold one record.
LEMMA DurableKept ==
  ASSUME NEW f, NEW r, r # Absent, r # Torn
  PROVE  /\ Durable(f) => Durable(DirSynced(f)) /\ Durable(Replaced(f, r))
         /\ f.seen = r /\ f.data = {r} => Durable(DirSynced(f))
         /\ \A c \in Survivors(f) : Durable(f) => Durable(Settled(c))
  BY DurableMeans, Zenon DEF DirSynced, Replaced, Settled, Survivors

\* The claim and the completed record of a handler that serves a request.
LEMMA RequestTypes ==
  ASSUME TypeOK, NEW h \in Handlers, pc[h] # "idle"
  PROVE  /\ ID(h) \in IDs
         /\ req[h].print \in Prints
         /\ req[h] \in Requests
         /\ Claim(h) \in Records
         /\ Complete(req[h].print, attempt[h]) \in Records
         /\ journal[ID(h)] \in Files(Records)
  <1>1. req[h] \in Requests /\ attempt[h] \in Nat
    BY Zenon DEF TypeOK
  <1>2. ID(h) \in IDs /\ req[h].print \in Prints
    BY <1>1, Zenon DEF ID, Requests
  <1>3. journal[ID(h)] \in Files(Records)
    BY <1>2, Zenon DEF TypeOK
  <1>4. Claim(h) \in Records
    BY <1>2, Zenon DEF Claim, Running, Records
  <1>5. Complete(req[h].print, attempt[h]) \in Records
    BY <1>1, <1>2, Zenon DEF Complete, Records
  <1> QED
    BY <1>1, <1>2, <1>3, <1>4, <1>5, Zenon

\* The types a step of a handler leaves alone or sets by Goto and Return.
LEMMA TypeStep == TypeOK /\ [Next]_vars => TypeOK'
  <1> SUFFICES ASSUME TypeOK, [Next]_vars
               PROVE  TypeOK'
    BY Zenon
  <1> USE DEF States, Locked, Claiming, Storing
  <1>1. ASSUME NEW p \in Processes, OpenJournal(p) \/ CloseJournal(p)
        PROVE  TypeOK'
    BY <1>1, Zenon DEF TypeOK, OpenJournal, CloseJournal
  <1>2. ASSUME NEW P, HandlersGone(P),
               journal' \in [IDs -> Files(Records)],
               visible' \in SUBSET Objects, durable' \in SUBSET Objects
        PROVE  TypeOK'
    BY <1>2, Zenon DEF TypeOK, HandlersGone
  <1>3. ASSUME NEW p \in Processes, Crash(p)
        PROVE  TypeOK'
    BY <1>3, <1>2, Zenon DEF Crash, TypeOK
  <1>4. CASE PowerLoss
    <2>1. journal' \in [IDs -> Files(Records)]
      <3>1. PICK kept \in [IDs -> UNION {Survivors(journal[id]) : id \in IDs}] :
              /\ \A id \in IDs : kept[id] \in Survivors(journal[id])
              /\ journal' = [id \in IDs |-> Settled(kept[id])]
        BY <1>4, Zenon DEF PowerLoss
      <3>2. ASSUME NEW id \in IDs
            PROVE  Settled(kept[id]) \in Files(Records)
        BY <3>1 DEF TypeOK, Files, Settled, Survivors
      <3> QED
        BY <3>1, <3>2, Zenon
    <2>2. visible' \in SUBSET Objects /\ durable' \in SUBSET Objects
      BY <1>4, Zenon DEF PowerLoss, TypeOK
    <2> QED
      BY <1>4, <1>2, <2>1, <2>2, Zenon DEF PowerLoss
  <1>5. ASSUME NEW h \in Handlers, NEW r \in Requests, Execute(h, r)
        PROVE  TypeOK'
    BY <1>5, Zenon DEF TypeOK, Execute, storeVars, history
  <1>6. ASSUME NEW h \in Handlers, Work(h)
        PROVE  TypeOK'
    <2> pc[h] # "idle"
      BY <1>6, Zenon DEF Work, ClaimCreate, ClaimWrite, ClaimSync, ClaimSyncDirectory, ClaimUndo,
                  ClaimReplay, ClaimRefuse, Start, Succeed, Fail, PutReport, PutArtifact,
                  PutLink, PutSync, CompleteRename, CompleteSyncDirectory, CompleteSyncFails
    <2> DEFINE id == ID(h)
    <2>0. /\ id \in IDs /\ req[h].print \in Prints /\ req[h] \in Requests
          /\ Claim(h) \in Records
          /\ Complete(req[h].print, attempt[h]) \in Records
          /\ journal[id] \in Files(Records)
      BY RequestTypes, Zenon
    <2>1. CASE ClaimCreate(h)
      <3>1. Created(journal[id]) \in Files(Records)
        BY <2>0, FileTypes, Zenon
      <3> QED
        BY <2>1, <2>0, <3>1, Zenon DEF TypeOK, ClaimCreate, Lock, Goto, storeVars, history
    <2>2. CASE ClaimWrite(h)
      <3>1. Written(journal[id], Claim(h)) \in Files(Records)
        BY <2>0, FileTypes, Zenon
      <3> QED
        BY <2>2, <2>0, <3>1, Zenon DEF TypeOK, ClaimWrite, Goto, storeVars, history
    <2>3. CASE ClaimSync(h)
      <3>1. Synced(journal[id]) \in Files(Records)
        BY <2>0, FileTypes, Zenon
      <3> QED
        BY <2>3, <2>0, <3>1, Zenon DEF TypeOK, ClaimSync, Goto, storeVars, history
    <2>4. [i \in IDs |-> DirSynced(journal[i])] \in [IDs -> Files(Records)]
      BY <2>0, FileTypes, Zenon DEF TypeOK
    <2>5. CASE ClaimSyncDirectory(h)
      BY <2>5, <2>4, ProcessOfAssumption, Zenon DEF TypeOK, ClaimSyncDirectory, Goto, Unlock, storeVars, history
    <2>6. CASE ClaimUndo(h)
      <3>1. Removed(journal[id]) \in Files(Records)
        BY <2>0, FileTypes, Zenon
      <3>2. journal' \in [IDs -> Files(Records)]
        BY <2>6, <3>1, Zenon DEF ClaimUndo, TypeOK
      <3> QED
        BY <2>6, <3>2, Zenon DEF TypeOK, ClaimUndo, Return, Unlock, storeVars, history
    <2>7. CASE ClaimReplay(h)
      <3>1. Answered(req[h], Seen(h).out, "replay") \in Answers
        <4>1. Seen(h) \in Records
          BY <2>0, <2>7 DEF Seen, Files, ClaimReplay, Absent, Torn
        <4>2. Seen(h).out \in Nat
          BY <4>1, <2>7, Zenon DEF Records, ClaimReplay
        <4> QED
          BY <4>2, <2>0, Zenon DEF Answered, Answers, Requests
      <3> QED
        BY <2>7, <3>1, Zenon DEF TypeOK, ClaimReplay, Return, storeVars
    <2>8. CASE ClaimRefuse(h) \/ Fail(h)
      BY <2>8 DEF TypeOK, ClaimRefuse, Fail, Return, storeVars, history
    <2>9. CASE Start(h)
      BY <2>9, <2>0 DEF TypeOK, Start, storeVars
    <2>10. CASE Succeed(h)
      BY <2>10, Zenon DEF TypeOK, Succeed, Goto, storeVars, history
    <2>11. CASE PutReport(h) \/ PutArtifact(h)
      BY <2>11, <2>0 DEF TypeOK, PutReport, PutArtifact, PutLink, PutSync, Goto, Object, Objects,
                         history
    <2>12. CASE CompleteRename(h)
      <3>1. Replaced(journal[id], Complete(req[h].print, attempt[h])) \in Files(Records)
        BY <2>0, FileTypes, Zenon
      <3> QED
        BY <2>12, <2>0, <3>1, Zenon DEF TypeOK, CompleteRename, Lock, Goto, storeVars, history
    <2>13. CASE CompleteSyncDirectory(h)
      <3>1. Answered(req[h], attempt[h], "owner") \in Answers
        BY <2>0, Zenon DEF Answered, Answers, Requests, TypeOK
      <3> QED
        BY <2>13, <2>4, <3>1, Zenon DEF TypeOK, CompleteSyncDirectory, Return, Unlock, storeVars
    <2>14. CASE CompleteSyncFails(h)
      BY <2>14, Zenon DEF TypeOK, CompleteSyncFails, Return, Unlock, storeVars, history
    <2> QED
      BY <1>6, <2>1, <2>2, <2>3, <2>5, <2>6, <2>7, <2>8, <2>9, <2>10, <2>11, <2>12, <2>13, <2>14, Zenon
         DEF Work
  <1>7. CASE UNCHANGED vars
    BY <1>7, Zenon DEF TypeOK, vars
  <1> QED
    BY <1>1, <1>3, <1>4, <1>5, <1>6, <1>7, Zenon DEF Next

\* Every variable keeps its type, in every behaviour of Runner.Execute.
THEOREM TypeCorrect == Spec => []TypeOK
  <1>1. Init => TypeOK
    BY DEF Init, TypeOK, States, Files, NoFile, Absent, Torn
  <1> QED
    BY <1>1, TypeStep, PTL DEF Spec

-----------------------------------------------------------------------------
(* The inductive invariant holds initially and is kept by every step. *)

\* Before the first process opens the journal nothing has run and nothing is claimed.
LEMMA SafeInit == Init => SafeInv
  <1> SUFFICES ASSUME Init PROVE SafeInv
    BY Zenon
  <1>1. TypeOK
    BY Zenon DEF Init, TypeOK, States, Files, NoFile, Absent, Torn
  <1> QED
    BY <1>1 DEF Init, SafeInv, SeenSurvives, ClaimantAlone, Claimant, ClaimProgress, OwnerRuns,
                Owning, Storing, Claiming, AtMostOnce, ClaimedBeforeRun, NoFile, Absent

\* A step in which handler h only moves on, or returns, and neither claims nor
\* comes to own a run it did not own.
Quiet(h) ==
  /\ UNCHANGED <<journal, runs, ranFor>>
  /\ \E s \in States \ (Claiming \cup {"leased"}) :
       /\ pc' = [pc EXCEPT ![h] = s]
       /\ s \in Owning => pc[h] \in Owning /\ req' = req /\ attempt' = attempt
  /\ \A g \in Handlers \ {h} : req'[g] = req[g] /\ attempt'[g] = attempt[g]

\* The steps of Execute that touch neither the journal nor the executor are quiet.
LEMMA QuietSteps ==
  ASSUME TypeOK, NEW h \in Handlers,
         \/ ClaimReplay(h) \/ ClaimRefuse(h) \/ Succeed(h) \/ Fail(h)
         \/ PutReport(h) \/ PutArtifact(h) \/ CompleteSyncFails(h)
  PROVE  Quiet(h)
  <1>V. /\ pc \in [Handlers -> States] /\ attempt \in [Handlers -> Nat]
        /\ req \in [Handlers -> Requests \cup {NoRequest}]
    BY Zenon DEF TypeOK
  <1>1. CASE Return(h) /\ UNCHANGED <<journal, runs, ranFor>>
    <2>1. "idle" \in States \ (Claiming \cup {"leased"}) /\ "idle" \notin Owning
      BY Zenon DEF States, Locked, Claiming, Storing, Owning
    <2>2. \A g \in Handlers \ {h} : req'[g] = req[g] /\ attempt'[g] = attempt[g]
      BY <1>1, <1>V, Zenon DEF Return
    <2> QED
      BY <1>1, <2>1, <2>2, Zenon DEF Quiet, Return
  <1>2. ASSUME NEW s \in Owning \ {"executing"}, Goto(h, s), pc[h] \in Owning,
               UNCHANGED <<journal, runs, ranFor>>
        PROVE  Quiet(h)
    <2>1. s \in States \ (Claiming \cup {"leased"})
      BY Zenon DEF States, Locked, Claiming, Storing, Owning
    <2> QED
      BY <1>2, <2>1, Zenon DEF Quiet, Goto
  <1>3. CASE ClaimReplay(h) \/ ClaimRefuse(h) \/ Fail(h) \/ CompleteSyncFails(h)
    BY <1>1, <1>3, Zenon DEF ClaimReplay, ClaimRefuse, Fail, CompleteSyncFails, history
  <1>4. CASE Succeed(h)
    BY <1>2, <1>4, Zenon DEF Succeed, history, Owning, Storing
  <1>5. CASE PutReport(h) \/ PutArtifact(h)
    BY <1>2, <1>5, Zenon DEF PutReport, PutArtifact, PutLink, PutSync, history, Owning, Storing
  <1> QED
    BY <1>3, <1>4, <1>5, Zenon

\* What a step must leave alone for every claimant to stay alone and as far as it was:
\* the handler, the runs of its ID and the file of its claim.
LEMMA ClaimantsKept ==
  ASSUME ClaimantAlone, ClaimProgress,
         \A g \in Handlers : Claimant(g)' =>
           /\ pc'[g] = pc[g] /\ req'[g] = req[g]
           /\ runs'[req[g].id] = runs[req[g].id]
           /\ journal'[req[g].id].seen = journal[req[g].id].seen
           /\ journal'[req[g].id].data = journal[req[g].id].data
           /\ Durable(journal[req[g].id]) => Durable(journal'[req[g].id])
  PROVE  ClaimantAlone' /\ ClaimProgress'
  <1> USE DEF Claimant, Claiming, ID, Seen, Claim
  <1>1. ClaimantAlone'
    BY DEF ClaimantAlone
  <1>2. ClaimProgress'
    <2> SUFFICES ASSUME NEW h \in Handlers, Claimant(h)'
                 PROVE  /\ pc'[h] \in {"written", "synced"} => Seen(h)' = Claim(h)'
                        /\ pc'[h] = "synced" => journal'[ID(h)'].data = {Claim(h)'}
                        /\ pc'[h] = "leased" => Durable(journal'[ID(h)'])
      BY Zenon DEF ClaimProgress
    <2> QED
      BY DEF ClaimProgress
  <1> QED
    BY <1>1, <1>2, Zenon

\* A step that enters no executor and lets no handler come to own a run keeps
\* what the owners know of theirs.
LEMMA OwnersKept ==
  ASSUME OwnerRuns, UNCHANGED <<runs, ranFor>>,
         \A g \in Handlers : pc'[g] \in Owning =>
           pc[g] \in Owning /\ req'[g] = req[g] /\ attempt'[g] = attempt[g]
  PROVE  OwnerRuns'
  BY DEF OwnerRuns, ID

\* A quiet step keeps the inductive invariant.
LEMMA QuietSafe ==
  ASSUME SafeInv, TypeOK', NEW h \in Handlers, Quiet(h)
  PROVE  SafeInv'
  <1> PICK s \in States \ (Claiming \cup {"leased"}) :
       /\ pc' = [pc EXCEPT ![h] = s]
       /\ s \in Owning => pc[h] \in Owning /\ req' = req /\ attempt' = attempt
    BY Zenon DEF Quiet
  <1>1. UNCHANGED <<journal, runs, ranFor>>
    BY Zenon DEF Quiet
  <1>2. \A g \in Handlers : pc'[g] \in Claiming \cup {"leased"} \cup Owning =>
            /\ req'[g] = req[g] /\ attempt'[g] = attempt[g]
            /\ g # h => pc'[g] = pc[g]
            /\ g = h => pc[g] \in Owning /\ pc'[g] \in Owning \ (Claiming \cup {"leased"})
    BY Zenon DEF Quiet, SafeInv, TypeOK
  <1>3. SeenSurvives' /\ AtMostOnce' /\ ClaimedBeforeRun'
    BY <1>1, Zenon DEF SafeInv, SeenSurvives, AtMostOnce, ClaimedBeforeRun
  <1>4. OwnerRuns'
    <2>1. \A g \in Handlers : pc'[g] \in Owning =>
            pc[g] \in Owning /\ req'[g] = req[g] /\ attempt'[g] = attempt[g]
      BY <1>2, Zenon
    <2> QED
      BY <1>1, <2>1, OwnersKept, Zenon DEF SafeInv
  <1>5. ClaimantAlone' /\ ClaimProgress'
    BY <1>1, <1>2, ClaimantsKept, Zenon DEF SafeInv, Claimant, Claiming
  <1> QED
    BY <1>3, <1>4, <1>5, Zenon DEF SafeInv

\* The inductive step, one case for each action.
LEMMA SafeStep == SafeInv /\ [Next]_vars => SafeInv'
  <1> SUFFICES ASSUME SafeInv, [Next]_vars
               PROVE  SafeInv'
    BY Zenon
  <1>T. TypeOK /\ TypeOK'
    BY TypeStep, Zenon DEF SafeInv
  <1>V. /\ pc \in [Handlers -> States] /\ attempt \in [Handlers -> Nat]
        /\ req \in [Handlers -> Requests \cup {NoRequest}]
        /\ journal \in [IDs -> Files(Records)] /\ runs \in [IDs -> Nat]
        /\ ranFor \in [IDs -> Prints \cup {NoPrint}]
    BY <1>T, Zenon DEF TypeOK
  <1> USE DEF Claiming, Storing, Owning, Claimant, ID, Seen, Claim
  <1>1. ASSUME NEW p \in Processes, OpenJournal(p) \/ CloseJournal(p)
        PROVE  SafeInv'
    <2>1. UNCHANGED <<journal, runs, ranFor, pc, req, attempt>>
      BY <1>1, Zenon DEF OpenJournal, CloseJournal, storeVars, history
    <2>2. SeenSurvives' /\ AtMostOnce' /\ ClaimedBeforeRun'
      BY <2>1, Zenon DEF SafeInv, SeenSurvives, AtMostOnce, ClaimedBeforeRun
    <2>3. OwnerRuns'
      BY <2>1, OwnersKept, Zenon DEF SafeInv
    <2>4. ClaimantAlone' /\ ClaimProgress'
      BY <2>1, ClaimantsKept, Zenon DEF SafeInv
    <2> QED
      BY <1>T, <2>2, <2>3, <2>4, Zenon DEF SafeInv
  <1>2. ASSUME NEW p \in Processes, Crash(p)
        PROVE  SafeInv'
    <2>1. UNCHANGED <<journal, runs, ranFor>>
      BY <1>2, Zenon DEF Crash, HandlersGone
    <2>2. \A g \in Handlers : pc'[g] # "idle" =>
            pc'[g] = pc[g] /\ req'[g] = req[g] /\ attempt'[g] = attempt[g]
      BY <1>2, <1>V, Zenon DEF Crash, HandlersGone
    <2>3. SeenSurvives' /\ AtMostOnce' /\ ClaimedBeforeRun'
      BY <2>1, Zenon DEF SafeInv, SeenSurvives, AtMostOnce, ClaimedBeforeRun
    <2>4. OwnerRuns'
      BY <2>1, <2>2, OwnersKept, Zenon DEF SafeInv
    <2>5. ClaimantAlone' /\ ClaimProgress'
      BY <2>1, <2>2, ClaimantsKept, Zenon DEF SafeInv
    <2> QED
      BY <1>T, <2>3, <2>4, <2>5, Zenon DEF SafeInv
  <1>3. CASE PowerLoss
    <2>1. PICK kept \in [IDs -> UNION {Survivors(journal[id]) : id \in IDs}] :
            /\ \A id \in IDs : kept[id] \in Survivors(journal[id])
            /\ journal' = [id \in IDs |-> Settled(kept[id])]
      BY <1>3, Zenon DEF PowerLoss
    <2>2. \A h \in Handlers : pc'[h] = "idle"
      BY <1>3, ProcessOfAssumption, Zenon DEF PowerLoss, HandlersGone
    <2>3. runs' = runs
      BY <1>3, Zenon DEF PowerLoss, HandlersGone
    <2>4. SeenSurvives'
      BY <2>1, Zenon DEF SeenSurvives, Settled
    <2>5. ClaimedBeforeRun'
      BY <2>1, <2>3, Zenon DEF SafeInv, ClaimedBeforeRun, Durable, Settled, Survivors
    <2> QED
      BY <1>T, <2>2, <2>3, <2>4, <2>5, Zenon
         DEF SafeInv, ClaimantAlone, ClaimProgress, OwnerRuns, AtMostOnce
  <1>4. ASSUME NEW h \in Handlers, NEW r \in Requests, Execute(h, r)
        PROVE  SafeInv'
    <2>1. UNCHANGED <<journal, runs, ranFor>>
      BY <1>4, Zenon DEF Execute, storeVars, history
    <2>2. \A g \in Handlers : Claimant(g)' \/ pc'[g] \in Owning =>
            pc'[g] = pc[g] /\ req'[g] = req[g] /\ attempt'[g] = attempt[g]
      BY <1>4, <1>V, Zenon DEF Execute, storeVars, history
    <2>3. SeenSurvives' /\ AtMostOnce' /\ ClaimedBeforeRun'
      BY <2>1, Zenon DEF SafeInv, SeenSurvives, AtMostOnce, ClaimedBeforeRun
    <2>4. OwnerRuns'
      BY <2>1, <2>2, OwnersKept, Zenon DEF SafeInv
    <2>5. ClaimantAlone' /\ ClaimProgress'
      BY <2>1, <2>2, ClaimantsKept, Zenon DEF SafeInv
    <2> QED
      BY <1>T, <2>3, <2>4, <2>5, Zenon DEF SafeInv
  <1>5. ASSUME NEW h \in Handlers, Work(h)
        PROVE  SafeInv'
    <2> pc[h] # "idle"
      BY <1>5, Zenon DEF Work, ClaimCreate, ClaimWrite, ClaimSync, ClaimSyncDirectory, ClaimUndo,
                  ClaimReplay, ClaimRefuse, Start, Succeed, Fail, PutReport, PutArtifact,
                  PutLink, PutSync, CompleteRename, CompleteSyncDirectory, CompleteSyncFails
    <2> DEFINE id == req[h].id
    <2>0. /\ id \in IDs /\ req[h].print \in Prints
          /\ Running(req[h].print) \notin {Absent, Torn}
          /\ Complete(req[h].print, attempt[h]) \notin {Absent, Torn}
      BY <1>T, RequestTypes, Zenon DEF Running, Complete, Absent, Torn
    <2>1. CASE ClaimCreate(h)
      <3>1. journal' = [journal EXCEPT ![id] = Created(@)] /\ journal[id].seen = Absent
        BY <2>1, Zenon DEF ClaimCreate
      <3>2. pc' = [pc EXCEPT ![h] = "created"] /\ UNCHANGED <<req, attempt, runs, ranFor>>
        BY <2>1, Zenon DEF ClaimCreate, Goto, history
      <3>3. runs[id] = 0 /\ \A g \in Handlers : Claimant(g) => req[g].id # id
        <4>1. ~Durable(journal[id])
          BY <3>1, DurableMeans, Zenon
        <4>2. runs[id] = 0
          BY <4>1, <2>0, <1>V DEF SafeInv, ClaimedBeforeRun
        <4>3. \A g \in Handlers : Claimant(g) => req[g].id # id
          BY <3>1, Zenon DEF SafeInv, ClaimantAlone
        <4> QED
          BY <4>2, <4>3, Zenon
      <3>4. SeenSurvives'
        BY <3>1, <2>0, <1>V, Zenon DEF SafeInv, SeenSurvives, Created
      <3>5. ClaimantAlone' /\ ClaimProgress'
        <4>1. \A g \in Handlers \ {h} : Claimant(g)' =>
                /\ Claimant(g) /\ pc'[g] = pc[g] /\ req'[g] = req[g] /\ req[g].id # id
                /\ journal'[req[g].id] = journal[req[g].id]
          BY <3>1, <3>2, <3>3, <2>0, <1>T, <1>V, RequestTypes, Zenon
        <4>2. pc'[h] = "created" /\ req'[h] = req[h] /\ journal'[id].seen # Absent
          BY <3>1, <3>2, <2>0, <1>V, Zenon DEF Created, Absent, Torn
        <4>3. ClaimantAlone'
          BY <3>2, <3>3, <4>1, <4>2 DEF SafeInv, ClaimantAlone
        <4>4. ClaimProgress'
          BY <3>2, <4>1, <4>2 DEF SafeInv, ClaimProgress
        <4> QED
          BY <4>3, <4>4, Zenon
      <3>6. OwnerRuns' /\ AtMostOnce'
        BY <3>2, <1>V, Zenon DEF SafeInv, OwnerRuns, AtMostOnce
      <3>7. ClaimedBeforeRun'
        BY <3>1, <3>2, <3>3, <2>0, <1>V DEF SafeInv, ClaimedBeforeRun
      <3> QED
        BY <1>T, <3>4, <3>5, <3>6, <3>7, Zenon DEF SafeInv
    <2>2. CASE ClaimWrite(h) \/ ClaimSync(h)
      <3>1. PICK f : /\ journal' = [journal EXCEPT ![id] = f]
                     /\ f.seen = Running(req[h].print) /\ f.seen \in f.data
                     /\ pc'[h] = "synced" => f.data = {f.seen}
        <4>1. CASE ClaimWrite(h)
          <5> DEFINE f == Written(journal[id], Running(req[h].print))
          <5>1. journal' = [journal EXCEPT ![id] = f] /\ pc'[h] = "written"
            BY <4>1, <1>V, Zenon DEF ClaimWrite, Goto
          <5>2. f.seen = Running(req[h].print) /\ f.seen \in f.data
            BY Zenon DEF Written
          <5> HIDE DEF f
          <5> QED
            BY <5>1, <5>2, Zenon
        <4>2. CASE ClaimSync(h)
          <5> DEFINE f == Synced(journal[id])
          <5>1. journal[id].seen = Running(req[h].print)
            BY <4>2, Zenon DEF ClaimSync, SafeInv, ClaimProgress
          <5>2. journal' = [journal EXCEPT ![id] = f]
            BY <4>2, Zenon DEF ClaimSync
          <5>3. f.seen = Running(req[h].print) /\ f.seen \in f.data /\ f.data = {f.seen}
            BY <5>1, Zenon DEF Synced
          <5> HIDE DEF f
          <5> QED
            BY <5>2, <5>3, Zenon
        <4> QED
          BY <2>2, <4>1, <4>2, Zenon
      <3>2. /\ pc' = [pc EXCEPT ![h] = "written"] \/ pc' = [pc EXCEPT ![h] = "synced"]
            /\ UNCHANGED <<req, attempt, runs, ranFor>>
        BY <2>2, Zenon DEF ClaimWrite, ClaimSync, Goto, history
      <3>3. /\ Claimant(h) /\ runs[id] = 0
            /\ \A g \in Handlers : Claimant(g) /\ req[g].id = id => g = h
        BY <2>2, <1>T, Zenon DEF ClaimWrite, ClaimSync, SafeInv, ClaimantAlone
      <3>4. SeenSurvives'
        BY <3>1, <2>0, <1>V, Zenon DEF SafeInv, SeenSurvives
      <3>5. ClaimantAlone'
        <4>1. \A g \in Handlers : Claimant(g)' =>
                /\ Claimant(g) /\ req'[g] = req[g]
                /\ g # h => journal'[req[g].id] = journal[req[g].id]
          BY <3>1, <3>2, <3>3, <2>0, <1>T, <1>V, RequestTypes, Zenon
        <4>2. journal'[id].seen # Absent
          BY <3>1, <2>0, <1>V, Zenon
        <4> QED
          BY <3>2, <4>1, <4>2, Zenon DEF SafeInv, ClaimantAlone
      <3>6. ClaimProgress'
        <4>1. \A g \in Handlers \ {h} : Claimant(g)' =>
                /\ pc'[g] = pc[g] /\ req'[g] = req[g]
                /\ journal'[req[g].id] = journal[req[g].id]
          BY <3>1, <3>2, <3>3, <2>0, <1>T, <1>V, RequestTypes, Zenon
        <4>2. pc'[h] \in {"written", "synced"} /\ req'[h] = req[h] /\ journal'[id] = f
          BY <3>1, <3>2, <2>0, <1>V, Zenon
        <4> QED
          BY <3>1, <3>2, <4>1, <4>2 DEF SafeInv, ClaimProgress
      <3>7. OwnerRuns' /\ AtMostOnce'
        BY <3>2, <1>V DEF SafeInv, OwnerRuns, AtMostOnce
      <3>8. ClaimedBeforeRun'
        BY <3>1, <3>2, <3>3, <2>0, <1>V DEF SafeInv, ClaimedBeforeRun
      <3> QED
        BY <1>T, <3>4, <3>5, <3>6, <3>7, <3>8, Zenon DEF SafeInv
    <2>3. CASE ClaimSyncDirectory(h)
      <3>1. journal' = [i \in IDs |-> DirSynced(journal[i])] /\ pc[h] = "synced"
        BY <2>3, Zenon DEF ClaimSyncDirectory
      <3>2. pc' = [pc EXCEPT ![h] = "leased"] /\ UNCHANGED <<req, attempt, runs, ranFor>>
        BY <2>3, Zenon DEF ClaimSyncDirectory, Goto, history
      <3>3. Durable(DirSynced(journal[id]))
        BY <3>1, <2>0, <1>T, DurableKept, Zenon DEF SafeInv, ClaimProgress
      <3>4. \A i \in IDs : /\ Durable(journal[i]) => Durable(journal'[i])
                           /\ journal'[i].seen = journal[i].seen
                           /\ journal'[i].data = journal[i].data
        BY <3>1, <2>0, DurableKept, Zenon DEF DirSynced
      <3>5. SeenSurvives' /\ ClaimedBeforeRun' /\ AtMostOnce'
        BY <3>4, <3>2, Zenon DEF SafeInv, SeenSurvives, ClaimedBeforeRun, AtMostOnce
      <3>6. ClaimantAlone'
        <4>1. \A g \in Handlers : Claimant(g)' =>
                Claimant(g) /\ req'[g] = req[g] /\ req[g].id \in IDs
          BY <3>1, <3>2, <1>T, <1>V, RequestTypes, Zenon
        <4> QED
          BY <3>2, <3>4, <4>1 DEF SafeInv, ClaimantAlone
      <3>7. ClaimProgress'
        <4>1. \A g \in Handlers \ {h} : Claimant(g)' =>
                pc'[g] = pc[g] /\ req'[g] = req[g] /\ req[g].id \in IDs
          BY <3>2, <1>T, <1>V, RequestTypes, Zenon
        <4>2. pc'[h] = "leased" /\ req'[h] = req[h] /\ Durable(journal'[id])
          BY <3>1, <3>2, <3>3, <2>0, <1>V, Zenon
        <4> QED
          BY <3>4, <4>1, <4>2 DEF SafeInv, ClaimProgress
      <3>8. OwnerRuns'
        BY <3>2, <1>V, Zenon DEF SafeInv, OwnerRuns
      <3> QED
        BY <1>T, <3>5, <3>6, <3>7, <3>8, Zenon DEF SafeInv
    <2>4. CASE ClaimUndo(h)
      <3>1. journal' \in {journal, [journal EXCEPT ![id] = Removed(@)]}
        BY <2>4, Zenon DEF ClaimUndo
      <3>2. pc' = [pc EXCEPT ![h] = "idle"] /\ UNCHANGED <<runs, ranFor>>
            /\ \A g \in Handlers \ {h} : req'[g] = req[g] /\ attempt'[g] = attempt[g]
        BY <2>4, <1>V, Zenon DEF ClaimUndo, Return, history
      <3>3. /\ runs[id] = 0
            /\ \A g \in Handlers : Claimant(g) /\ req[g].id = id => g = h
        BY <2>4, <1>T, Zenon DEF ClaimUndo, SafeInv, ClaimantAlone
      <3>4. SeenSurvives'
        BY <3>1, <2>0, <1>V DEF SafeInv, SeenSurvives, Removed
      <3>5. ClaimantAlone' /\ ClaimProgress'
        <4>1. \A g \in Handlers : Claimant(g)' =>
                /\ Claimant(g) /\ pc'[g] = pc[g] /\ req'[g] = req[g]
                /\ journal'[req[g].id] = journal[req[g].id]
          BY <3>1, <3>2, <3>3, <2>0, <1>T, <1>V, RequestTypes, Zenon
        <4> QED
          BY <3>2, <4>1, ClaimantsKept, Zenon DEF SafeInv
      <3>6. OwnerRuns' /\ AtMostOnce'
        BY <3>2, <1>V DEF SafeInv, OwnerRuns, AtMostOnce
      <3>7. ClaimedBeforeRun'
        <4>1. \A i \in IDs \ {id} : journal'[i] = journal[i]
          BY <3>1, <2>0, <1>V, Zenon
        <4> QED
          BY <3>2, <3>3, <4>1 DEF SafeInv, ClaimedBeforeRun
      <3> QED
        BY <1>T, <3>4, <3>5, <3>6, <3>7, Zenon DEF SafeInv
    <2>5. CASE Start(h)
      <3>1. /\ pc[h] = "leased" /\ UNCHANGED <<journal, req>>
            /\ pc' = [pc EXCEPT ![h] = "executing"]
            /\ attempt' = [attempt EXCEPT ![h] = runs[id] + 1]
            /\ runs' = [runs EXCEPT ![id] = @ + 1]
            /\ ranFor' = [ranFor EXCEPT ![id] = req[h].print]
        BY <2>5, Zenon DEF Start
      <3>2. /\ runs[id] = 0 /\ Durable(journal[id])
            /\ \A g \in Handlers : Claimant(g) /\ req[g].id = id => g = h
        BY <3>1, Zenon DEF SafeInv, ClaimantAlone, ClaimProgress
      <3>3. SeenSurvives' /\ AtMostOnce' /\ ClaimedBeforeRun'
        <4>1. runs'[id] = 1 /\ \A i \in IDs \ {id} : runs'[i] = runs[i]
          BY <3>1, <3>2, <2>0, <1>V
        <4>2. SeenSurvives'
          BY <3>1, Zenon DEF SafeInv, SeenSurvives
        <4>3. AtMostOnce'
          BY <4>1 DEF SafeInv, AtMostOnce
        <4>4. ClaimedBeforeRun'
          BY <3>1, <3>2, <4>1, Zenon DEF SafeInv, ClaimedBeforeRun
        <4> QED
          BY <4>2, <4>3, <4>4, Zenon
      <3>4. ClaimantAlone' /\ ClaimProgress'
        <4>1. \A g \in Handlers : Claimant(g)' =>
                /\ Claimant(g) /\ pc'[g] = pc[g] /\ req'[g] = req[g]
                /\ req[g].id # id /\ req[g].id \in IDs
          BY <3>1, <3>2, <1>T, <1>V, RequestTypes, Zenon
        <4>2. \A i \in IDs \ {id} : runs'[i] = runs[i]
          BY <3>1, <2>0, <1>V, Zenon
        <4> QED
          BY <3>1, <4>1, <4>2, ClaimantsKept, Zenon DEF SafeInv
      <3>5. OwnerRuns'
        BY <3>1, <3>2, <2>0, <1>V DEF SafeInv, OwnerRuns
      <3> QED
        BY <1>T, <3>3, <3>4, <3>5, Zenon DEF SafeInv
    <2>6. CASE CompleteRename(h)
      <3> DEFINE r == Complete(req[h].print, attempt[h])
      <3>1. /\ journal' = [journal EXCEPT ![id] = Replaced(@, r)]
            /\ pc[h] = "complete" /\ pc' = [pc EXCEPT ![h] = "renamed"]
            /\ UNCHANGED <<req, attempt, runs, ranFor>>
        BY <2>6, Zenon DEF CompleteRename, Goto, history
      <3>2. /\ runs[id] = 1 /\ Durable(Replaced(journal[id], r))
            /\ \A g \in Handlers : Claimant(g) => req[g].id # id
        <4>1. runs[id] = 1
          BY <3>1, Zenon DEF SafeInv, OwnerRuns
        <4>2. Durable(journal[id])
          BY <4>1, <2>0 DEF SafeInv, ClaimedBeforeRun
        <4>3. Durable(Replaced(journal[id], r))
          BY <4>2, <2>0, DurableKept, Zenon
        <4>4. \A g \in Handlers : Claimant(g) => req[g].id # id
          BY <4>1 DEF SafeInv, ClaimantAlone
        <4> QED
          BY <4>1, <4>3, <4>4, Zenon
      <3>3. SeenSurvives'
        BY <3>1, <2>0, <1>V, Zenon DEF SafeInv, SeenSurvives, Replaced
      <3>4. ClaimantAlone' /\ ClaimProgress'
        <4>1. \A g \in Handlers : Claimant(g)' =>
                /\ Claimant(g) /\ pc'[g] = pc[g] /\ req'[g] = req[g]
                /\ req[g].id # id /\ req[g].id \in IDs
          BY <3>1, <3>2, <1>T, <1>V, RequestTypes, Zenon
        <4>2. \A i \in IDs \ {id} : journal'[i] = journal[i]
          BY <3>1, <2>0, <1>V, Zenon
        <4> QED
          BY <3>1, <4>1, <4>2, ClaimantsKept, Zenon DEF SafeInv
      <3>5. OwnerRuns' /\ AtMostOnce'
        BY <3>1, <1>V, Zenon DEF SafeInv, OwnerRuns, AtMostOnce
      <3>6. ClaimedBeforeRun'
        BY <3>1, <3>2, <2>0, <1>V, Zenon DEF SafeInv, ClaimedBeforeRun
      <3> QED
        BY <1>T, <3>3, <3>4, <3>5, <3>6, Zenon DEF SafeInv
    <2>7. CASE CompleteSyncDirectory(h)
      <3>1. /\ journal' = [i \in IDs |-> DirSynced(journal[i])] /\ UNCHANGED <<runs, ranFor>>
            /\ pc' = [pc EXCEPT ![h] = "idle"]
            /\ \A g \in Handlers \ {h} : req'[g] = req[g] /\ attempt'[g] = attempt[g]
        BY <2>7, <1>V, Zenon DEF CompleteSyncDirectory, Return
      <3>2. \A i \in IDs : /\ Durable(journal[i]) => Durable(journal'[i])
                           /\ journal'[i].seen = journal[i].seen
                           /\ journal'[i].data = journal[i].data
        BY <3>1, <2>0, DurableKept, Zenon DEF DirSynced
      <3>3. SeenSurvives' /\ ClaimedBeforeRun' /\ AtMostOnce'
        BY <3>1, <3>2, Zenon DEF SafeInv, SeenSurvives, ClaimedBeforeRun, AtMostOnce
      <3>4. ClaimantAlone' /\ ClaimProgress'
        <4>1. \A g \in Handlers : Claimant(g)' =>
                pc'[g] = pc[g] /\ req'[g] = req[g] /\ req[g].id \in IDs
          BY <3>1, <1>T, <1>V, RequestTypes, Zenon
        <4> QED
          BY <3>1, <3>2, <4>1, ClaimantsKept, Zenon DEF SafeInv
      <3>5. OwnerRuns'
        <4>1. \A g \in Handlers : pc'[g] # "idle" =>
                pc'[g] = pc[g] /\ req'[g] = req[g] /\ attempt'[g] = attempt[g]
          BY <3>1, <1>V, Zenon
        <4> QED
          BY <3>1, <4>1, OwnersKept, Zenon DEF SafeInv
      <3> QED
        BY <1>T, <3>3, <3>4, <3>5, Zenon DEF SafeInv
    <2>8. CASE \/ ClaimReplay(h) \/ ClaimRefuse(h) \/ Succeed(h) \/ Fail(h)
               \/ PutReport(h) \/ PutArtifact(h) \/ CompleteSyncFails(h)
      BY <2>8, <1>T, QuietSteps, QuietSafe, Zenon
    <2> QED
      BY <1>5, <2>1, <2>2, <2>3, <2>4, <2>5, <2>6, <2>7, <2>8, Zenon DEF Work
  <1>6. CASE UNCHANGED vars
    BY <1>6, <1>T, Zenon DEF SafeInv, SeenSurvives, ClaimantAlone, ClaimProgress, OwnerRuns,
                AtMostOnce, ClaimedBeforeRun, vars
  <1> QED
    BY <1>1, <1>2, <1>3, <1>4, <1>5, <1>6, Zenon DEF Next

\* The inductive invariant of Runner.Execute and the journal holds in every behaviour.
THEOREM SafeInvariant == Spec => []SafeInv
  BY SafeInit, SafeStep, PTL DEF Spec

\* Runner.Execute enters the executor at most once for an execution ID, for any
\* number of processes and handlers and any sequence of faults.
THEOREM RunsAtMostOnce == Spec => []AtMostOnce
  BY SafeInvariant, PTL DEF SafeInv

\* The executor is entered only behind a claim that no power loss can undo.
THEOREM RunsOnlyClaimed == Spec => []ClaimedBeforeRun
  BY SafeInvariant, PTL DEF SafeInv

-----------------------------------------------------------------------------
(* The answers.  A second invariant, on top of the first: it follows the    *)
(* two objects of a run into the store, and the outcome into the journal.   *)

\* How far the objects of an owner have got: linked, then synced (Store.Put).
StoreProgress ==
  /\ durable \subseteq visible
  /\ \A h \in Handlers :
       /\ pc[h] = "reportLinked" => Object(ID(h), attempt[h], "report") \in visible
       /\ pc[h] \in {"artifact", "artifactLinked"}
            => Object(ID(h), attempt[h], "report") \in durable
       /\ pc[h] = "artifactLinked" => Object(ID(h), attempt[h], "artifact") \in visible
       /\ pc[h] \in {"complete", "renamed"} => ObjectsOf(ID(h), attempt[h]) \subseteq durable

\* A completed record, wherever a power loss may bring it up, is the outcome of the
\* one run of its ID, for the request it ran for, and its objects are there to stay.
CompleteBacked ==
  \A id \in IDs : \A r \in Survivors(journal[id]) :
    r.kind = "complete" =>
      /\ runs[id] = 1 /\ r.out = 1 /\ ranFor[id] = r.print
      /\ ObjectsOf(id, 1) \subseteq durable

\* A record that reads "running" hides no completed one.
RunningAlone ==
  \A id \in IDs : journal[id].seen.kind = "running" =>
    \A r \in Survivors(journal[id]) : r.kind # "complete"

\* Between its rename and its directory sync an owner's outcome is what is read, and
\* nobody replaces it.
RenamedStays ==
  \A h \in Handlers : pc[h] = "renamed" =>
    /\ Seen(h) = Complete(req[h].print, attempt[h])
    /\ journal[ID(h)].data = {Complete(req[h].print, attempt[h])}

AnswerInv ==
  /\ StoreProgress
  /\ CompleteBacked
  /\ RunningAlone
  /\ RenamedStays
  /\ AnswersBacked
  /\ OwnerAnswerKept

\* What one step may do to the record of an ID: nothing, or a sync of the directory; a
\* claim or its undoing, before any run; the rename of Complete; or a power loss.
Untouched(id) ==
  /\ journal'[id].seen = journal[id].seen /\ journal'[id].data = journal[id].data
  /\ Survivors(journal'[id]) \subseteq Survivors(journal[id])
Claimed(id) ==
  /\ runs[id] = 0
  /\ journal'[id].seen.kind # "complete"
  /\ \A r \in Survivors(journal'[id]) : r.kind = "complete" => r \in Survivors(journal[id])
Completed(id) ==
  \E h \in Handlers :
    /\ CompleteRename(h) /\ ID(h) = id
    /\ journal'[id] = Replaced(journal[id], Complete(req[h].print, attempt[h]))
Settling(id) ==
  /\ \E c \in Survivors(journal[id]) : journal'[id] = Settled(c)
  /\ \A h \in Handlers : pc'[h] = "idle"

\* Every step does one of the four to the record of an ID.
LEMMA JournalStep ==
  ASSUME SafeInv, [Next]_vars, NEW id \in IDs
  PROVE  Untouched(id) \/ Claimed(id) \/ Completed(id) \/ Settling(id)
  <1>T. TypeOK
    BY Zenon DEF SafeInv
  <1>V. journal \in [IDs -> Files(Records)] /\ runs \in [IDs -> Nat]
    BY <1>T, Zenon DEF TypeOK
  <1>1. ASSUME UNCHANGED journal PROVE Untouched(id)
    BY <1>1, Zenon DEF Untouched
  <1>2. ASSUME journal' = [i \in IDs |-> DirSynced(journal[i])] PROVE Untouched(id)
    BY <1>2, Zenon DEF Untouched, DirSynced, Survivors
  <1>3. ASSUME NEW p \in Processes, OpenJournal(p) \/ CloseJournal(p) \/ Crash(p)
        PROVE  Untouched(id)
    BY <1>3, <1>1, Zenon DEF OpenJournal, CloseJournal, Crash
  <1>4. CASE PowerLoss
    <2>1. \A h \in Handlers : pc'[h] = "idle"
      BY <1>4, ProcessOfAssumption, Zenon DEF PowerLoss, HandlersGone
    <2> QED
      BY <1>4, <2>1, Zenon DEF PowerLoss, Settling
  <1>5. ASSUME NEW h \in Handlers, NEW r \in Requests, Execute(h, r)
        PROVE  Untouched(id)
    BY <1>5, <1>1, Zenon DEF Execute
  <1>6. ASSUME NEW h \in Handlers, Work(h)
        PROVE  Untouched(id) \/ Claimed(id) \/ Completed(id)
    <2> USE DEF ID, Seen, Claim
    <2>1. CASE ClaimSyncDirectory(h) \/ CompleteSyncDirectory(h)
      BY <2>1, <1>2, Zenon DEF ClaimSyncDirectory, CompleteSyncDirectory
    <2>2. CASE \/ ClaimReplay(h) \/ ClaimRefuse(h) \/ Start(h) \/ Succeed(h) \/ Fail(h)
               \/ PutReport(h) \/ PutArtifact(h) \/ CompleteSyncFails(h)
      BY <2>2, <1>1, Zenon DEF ClaimReplay, ClaimRefuse, Start, Succeed, Fail, PutReport, PutArtifact,
                        PutLink, PutSync, CompleteSyncFails
    <2>3. CASE CompleteRename(h)
      <3>1. journal' = [journal EXCEPT ![req[h].id] = Replaced(@, Complete(req[h].print, attempt[h]))]
        BY <2>3, Zenon DEF CompleteRename
      <3>2. CASE req[h].id = id
        BY <2>3, <3>1, <3>2, <1>V, Zenon DEF Completed
      <3>3. CASE req[h].id # id
        BY <3>1, <3>3, <1>V, Zenon DEF Untouched
      <3> QED
        BY <3>2, <3>3, Zenon
    <2>4. ASSUME NEW f, journal' = [journal EXCEPT ![req[h].id] = f], runs[req[h].id] = 0,
                 f.seen.kind # "complete",
                 \A r \in Survivors(f) : r.kind = "complete" => r \in Survivors(journal[req[h].id])
          PROVE  Untouched(id) \/ Claimed(id)
      <3>1. CASE req[h].id = id
        BY <2>4, <3>1, <1>V, Zenon DEF Claimed
      <3>2. CASE req[h].id # id
        BY <2>4, <3>2, <1>V, Zenon DEF Untouched
      <3> QED
        BY <3>1, <3>2, Zenon
    <2>5. CASE ClaimCreate(h)
      <3> DEFINE f == Created(journal[req[h].id])
      <3>1. journal' = [journal EXCEPT ![req[h].id] = f] /\ journal[req[h].id].seen = Absent
        BY <2>5, Zenon DEF ClaimCreate
      <3>2. runs[req[h].id] = 0
        <4>1. req[h].id \in IDs /\ ~Durable(journal[req[h].id])
          BY <2>5, <3>1, <1>T, RequestTypes, DurableMeans, Zenon DEF ClaimCreate
        <4> QED
          BY <4>1, <1>V DEF SafeInv, ClaimedBeforeRun
      <3>3. f.seen.kind # "complete" /\ \A r \in Survivors(f) :
              r.kind = "complete" => r \in Survivors(journal[req[h].id])
        BY DEF Created, Survivors, Torn
      <3> HIDE DEF f
      <3> QED
        BY <3>1, <3>2, <3>3, <2>4, Zenon
    <2>6. CASE ClaimWrite(h) \/ ClaimSync(h) \/ ClaimUndo(h)
      <3>1. runs[req[h].id] = 0
        BY <2>6, Zenon DEF ClaimWrite, ClaimSync, ClaimUndo, Claiming, Claimant, SafeInv, ClaimantAlone
      <3>2. CASE ClaimWrite(h)
        <4> DEFINE f == Written(journal[req[h].id], Running(req[h].print))
        <4>1. journal' = [journal EXCEPT ![req[h].id] = f]
          BY <3>2, Zenon DEF ClaimWrite
        <4>2. f.seen.kind # "complete" /\ \A r \in Survivors(f) :
                r.kind = "complete" => r \in Survivors(journal[req[h].id])
          BY DEF Written, Survivors, Running
        <4> HIDE DEF f
        <4> QED
          BY <3>1, <4>1, <4>2, <2>4, Zenon
      <3>3. CASE ClaimSync(h)
        <4> DEFINE f == Synced(journal[req[h].id])
        <4>1. journal' = [journal EXCEPT ![req[h].id] = f]
              /\ journal[req[h].id].seen = Running(req[h].print)
          BY <3>3, Zenon DEF ClaimSync, SafeInv, ClaimProgress
        <4>2. f.seen.kind # "complete" /\ \A r \in Survivors(f) :
                r.kind = "complete" => r \in Survivors(journal[req[h].id])
          BY <4>1 DEF Synced, Survivors, Running
        <4> HIDE DEF f
        <4> QED
          BY <3>1, <4>1, <4>2, <2>4, Zenon
      <3>4. CASE ClaimUndo(h)
        <4> DEFINE f == Removed(journal[req[h].id])
        <4>1. journal' = journal \/ journal' = [journal EXCEPT ![req[h].id] = f]
          BY <3>4, Zenon DEF ClaimUndo
        <4>2. f.seen.kind # "complete" /\ \A r \in Survivors(f) :
                r.kind = "complete" => r \in Survivors(journal[req[h].id])
          BY DEF Removed, Survivors, Absent
        <4> HIDE DEF f
        <4> QED
          BY <3>1, <4>1, <4>2, <2>4, <1>1, Zenon
      <3> QED
        BY <2>6, <3>2, <3>3, <3>4, Zenon
    <2> QED
      BY <1>6, <2>1, <2>2, <2>3, <2>5, <2>6, Zenon DEF Work
  <1> QED
    BY <1>3, <1>4, <1>5, <1>6, <1>1, Zenon DEF Next, vars

\* A handler that owns a run after a step owned it before and did nothing, or made the
\* step itself.
LEMMA OwnerStep ==
  ASSUME TypeOK, [Next]_vars, NEW g \in Handlers, pc'[g] \in Owning
  PROVE  \/ pc'[g] = pc[g] /\ req'[g] = req[g] /\ attempt'[g] = attempt[g]
         \/ Start(g) \/ Succeed(g) \/ PutReport(g) \/ PutArtifact(g) \/ CompleteRename(g)
  <1>V. /\ pc \in [Handlers -> States] /\ attempt \in [Handlers -> Nat]
        /\ req \in [Handlers -> Requests \cup {NoRequest}]
    BY Zenon DEF TypeOK
  <1> USE DEF Owning, Storing
  <1>1. ASSUME NEW p \in Processes, OpenJournal(p) \/ CloseJournal(p)
        PROVE  pc'[g] = pc[g] /\ req'[g] = req[g] /\ attempt'[g] = attempt[g]
    BY <1>1, Zenon DEF OpenJournal, CloseJournal
  <1>2. ASSUME NEW P, HandlersGone(P)
        PROVE  pc'[g] = pc[g] /\ req'[g] = req[g] /\ attempt'[g] = attempt[g]
    BY <1>2, Zenon DEF HandlersGone
  <1>3. ASSUME NEW h \in Handlers, NEW r \in Requests, Execute(h, r)
        PROVE  pc'[g] = pc[g] /\ req'[g] = req[g] /\ attempt'[g] = attempt[g]
    BY <1>3, <1>V, Zenon DEF Execute
  <1>4. ASSUME NEW h \in Handlers, Work(h)
        PROVE  \/ pc'[g] = pc[g] /\ req'[g] = req[g] /\ attempt'[g] = attempt[g]
               \/ Start(g) \/ Succeed(g) \/ PutReport(g) \/ PutArtifact(g) \/ CompleteRename(g)
    <2>1. CASE \/ ClaimCreate(h) \/ ClaimWrite(h) \/ ClaimSync(h) \/ ClaimSyncDirectory(h)
               \/ ClaimUndo(h) \/ ClaimReplay(h) \/ ClaimRefuse(h) \/ Fail(h)
               \/ CompleteSyncDirectory(h) \/ CompleteSyncFails(h)
      BY <2>1, <1>V, ZenonT(60) DEF ClaimCreate, ClaimWrite, ClaimSync, ClaimSyncDirectory, ClaimUndo,
                        ClaimReplay, ClaimRefuse, Fail, CompleteSyncDirectory, CompleteSyncFails,
                        Goto, Return
    <2>2. CASE \/ Start(h) \/ Succeed(h) \/ PutReport(h) \/ PutArtifact(h) \/ CompleteRename(h)
      <3>1. CASE g # h
        BY <2>2, <3>1, <1>V, Zenon DEF Start, Succeed, PutReport, PutArtifact, PutLink, PutSync,
                                CompleteRename, Goto
      <3> QED
        BY <2>2, <3>1, Zenon
    <2> QED
      BY <1>4, <2>1, <2>2, Zenon DEF Work
  <1> QED
    BY <1>1, <1>2, <1>3, <1>4, Zenon DEF Next, Crash, PowerLoss, vars

\* No step forgets a run, the request it was for, or an object that is durable.
LEMMA HistoryStep ==
  ASSUME SafeInv, StoreProgress, [Next]_vars
  PROVE  /\ durable \subseteq durable' /\ durable' \subseteq visible'
         /\ visible \subseteq visible' \/ \A h \in Handlers : pc'[h] = "idle"
         /\ \A id \in IDs : runs[id] = 1 => runs'[id] = 1 /\ ranFor'[id] = ranFor[id]
  <1>T. TypeOK
    BY Zenon DEF SafeInv
  <1>V. runs \in [IDs -> Nat] /\ ranFor \in [IDs -> Prints \cup {NoPrint}]
    BY <1>T, Zenon DEF TypeOK
  <1>S. durable \subseteq visible
    BY Zenon DEF StoreProgress
  <1>1. CASE PowerLoss
    BY <1>1, <1>S, ProcessOfAssumption, Zenon DEF PowerLoss, HandlersGone
  <1>2. ASSUME NEW h \in Handlers, Start(h)
        PROVE  /\ UNCHANGED <<visible, durable>>
               /\ \A id \in IDs : runs[id] = 1 => runs'[id] = 1 /\ ranFor'[id] = ranFor[id]
    <2>1. runs[ID(h)] = 0
      BY <1>2, Zenon DEF Start, SafeInv, ClaimantAlone, Claimant
    <2> QED
      BY <1>2, <2>1, <1>V DEF Start, storeVars
  <1>3. ASSUME NEW h \in Handlers, PutReport(h) \/ PutArtifact(h)
        PROVE  /\ durable \subseteq durable' /\ durable' \subseteq visible' /\ visible \subseteq visible'
               /\ UNCHANGED <<runs, ranFor>>
    BY <1>3, <1>S, Zenon DEF PutReport, PutArtifact, PutLink, PutSync, history
  <1>4. ASSUME NEW h \in Handlers, Work(h), ~Start(h), ~PutReport(h), ~PutArtifact(h)
        PROVE  UNCHANGED <<visible, durable, runs, ranFor>>
    BY <1>4, Zenon DEF Work, ClaimCreate, ClaimWrite, ClaimSync, ClaimSyncDirectory, ClaimUndo, ClaimReplay,
                ClaimRefuse, Succeed, Fail, CompleteRename, CompleteSyncDirectory,
                CompleteSyncFails, storeVars, history
  <1>5. ASSUME NEW p \in Processes, OpenJournal(p) \/ CloseJournal(p) \/ Crash(p)
        PROVE  UNCHANGED <<visible, durable, runs, ranFor>>
    BY <1>5, Zenon DEF OpenJournal, CloseJournal, Crash, HandlersGone
  <1>6. ASSUME NEW h \in Handlers, NEW r \in Requests, Execute(h, r)
        PROVE  UNCHANGED <<visible, durable, runs, ranFor>>
    BY <1>6, Zenon DEF Execute, storeVars, history
  <1>7. CASE UNCHANGED <<visible, durable, runs, ranFor>>
    BY <1>7, <1>S, Zenon
  <1> QED
    BY <1>S, <1>1, <1>2, <1>3, <1>4, <1>5, <1>6, <1>7, Zenon DEF Next, vars

\* Store.Put moves an owner's objects on, and nothing moves them back.
LEMMA StoreStep ==
  ASSUME SafeInv, StoreProgress, [Next]_vars
  PROVE  StoreProgress'
  <1>T. TypeOK
    BY Zenon DEF SafeInv
  <1>V. pc \in [Handlers -> States] /\ attempt \in [Handlers -> Nat]
    BY <1>T, Zenon DEF TypeOK
  <1>H. /\ durable \subseteq durable' /\ durable' \subseteq visible'
        /\ visible \subseteq visible' \/ \A h \in Handlers : pc'[h] = "idle"
    BY HistoryStep, Zenon
  <1> USE DEF Owning, Storing, ID
  <1>1. SUFFICES ASSUME NEW g \in Handlers, pc'[g] \in Owning
                 PROVE  /\ pc'[g] = "reportLinked" => Object(req'[g].id, attempt'[g], "report") \in visible'
                        /\ pc'[g] \in {"artifact", "artifactLinked"}
                             => Object(req'[g].id, attempt'[g], "report") \in durable'
                        /\ pc'[g] = "artifactLinked" => Object(req'[g].id, attempt'[g], "artifact") \in visible'
                        /\ pc'[g] \in {"complete", "renamed"}
                             => ObjectsOf(req'[g].id, attempt'[g]) \subseteq durable'
    BY <1>H, Zenon DEF StoreProgress
  <1>2. visible \subseteq visible'
    BY <1>H, <1>1, Zenon
  <1>3. CASE pc'[g] = pc[g] /\ req'[g] = req[g] /\ attempt'[g] = attempt[g]
    BY <1>3, <1>2, <1>H, Zenon DEF StoreProgress
  <1>4. CASE Start(g) \/ Succeed(g)
    BY <1>4, <1>V, Zenon DEF Start, Succeed, Goto
  <1>5. CASE PutReport(g)
    BY <1>5, <1>V, Zenon DEF PutReport, PutLink, PutSync, Goto, StoreProgress
  <1>6. CASE PutArtifact(g)
    BY <1>6, <1>V, Zenon DEF PutArtifact, PutLink, PutSync, Goto, StoreProgress, ObjectsOf
  <1>7. CASE CompleteRename(g)
    BY <1>7, <1>V, <1>H, Zenon DEF CompleteRename, Goto, StoreProgress
  <1> QED
    BY <1>3, <1>4, <1>5, <1>6, <1>7, <1>T, <1>1, OwnerStep, Zenon

\* What Complete records is backed, and no step brings up a completed record that is not.
LEMMA CompletedStep ==
  ASSUME SafeInv, AnswerInv, [Next]_vars
  PROVE  CompleteBacked' /\ RunningAlone'
  <1>T. TypeOK
    BY Zenon DEF SafeInv
  <1>V. runs \in [IDs -> Nat]
    BY <1>T, Zenon DEF TypeOK
  <1>H. /\ durable \subseteq durable'
        /\ \A id \in IDs : runs[id] = 1 => runs'[id] = 1 /\ ranFor'[id] = ranFor[id]
    BY HistoryStep, Zenon DEF AnswerInv
  <1> SUFFICES ASSUME NEW id \in IDs
               PROVE  /\ \A r \in Survivors(journal'[id]) : r.kind = "complete" =>
                           /\ runs'[id] = 1 /\ r.out = 1 /\ ranFor'[id] = r.print
                           /\ ObjectsOf(id, 1) \subseteq durable'
                      /\ journal'[id].seen.kind = "running" =>
                           \A r \in Survivors(journal'[id]) : r.kind # "complete"
    BY Zenon DEF CompleteBacked, RunningAlone
  <1>1. \A r \in Survivors(journal[id]) : r.kind = "complete" =>
          /\ runs[id] = 1 /\ r.out = 1 /\ ranFor[id] = r.print
          /\ runs'[id] = 1 /\ ranFor'[id] = r.print
          /\ ObjectsOf(id, 1) \subseteq durable'
    BY <1>H, Zenon DEF AnswerInv, CompleteBacked
  <1>2. CASE Untouched(id)
    BY <1>1, <1>2, Zenon DEF Untouched, AnswerInv, RunningAlone
  <1>3. CASE Claimed(id)
    BY <1>1, <1>3 DEF Claimed
  <1>4. CASE Completed(id)
    <2>1. PICK h \in Handlers :
            /\ CompleteRename(h) /\ ID(h) = id
            /\ journal'[id] = Replaced(journal[id], Complete(req[h].print, attempt[h]))
      BY <1>4, Zenon DEF Completed
    <2>2. /\ runs[id] = 1 /\ attempt[h] = 1 /\ ranFor[id] = req[h].print
          /\ ObjectsOf(id, attempt[h]) \subseteq durable
      BY <2>1, Zenon DEF CompleteRename, SafeInv, OwnerRuns, Owning, Storing, AnswerInv, StoreProgress
    <2> DEFINE c == Complete(req[h].print, attempt[h])
    <2>3. c.kind = "complete" /\ c.out = 1 /\ c.print = req[h].print
      BY <2>2, Zenon DEF Complete
    <2>4. journal'[id].seen = c /\ Survivors(journal'[id]) = {c} \cup Survivors(journal[id])
      BY <2>1 DEF Replaced, Survivors
    <2> HIDE DEF c
    <2> QED
      BY <1>1, <1>H, <2>2, <2>3, <2>4, Zenon
  <1>5. CASE Settling(id)
    <2>1. PICK c \in Survivors(journal[id]) : journal'[id] = Settled(c)
      BY <1>5, Zenon DEF Settling
    <2>2. journal'[id].seen = c /\ Survivors(journal'[id]) = {c}
      BY <2>1 DEF Settled, Survivors
    <2> QED
      BY <1>1, <2>2, Zenon
  <1> QED
    BY <1>2, <1>3, <1>4, <1>5, JournalStep, Zenon

\* An outcome that was renamed into place is not replaced before it is synced.
LEMMA RenamedStep ==
  ASSUME SafeInv, AnswerInv, [Next]_vars
  PROVE  RenamedStays'
  <1>T. TypeOK
    BY Zenon DEF SafeInv
  <1>V. /\ pc \in [Handlers -> States] /\ attempt \in [Handlers -> Nat]
        /\ req \in [Handlers -> Requests \cup {NoRequest}]
        /\ journal \in [IDs -> Files(Records)]
    BY <1>T, Zenon DEF TypeOK
  <1> USE DEF ID, Seen
  <1>1. SUFFICES ASSUME NEW g \in Handlers, pc'[g] = "renamed"
                 PROVE  /\ journal'[req'[g].id].seen = Complete(req'[g].print, attempt'[g])
                        /\ journal'[req'[g].id].data = {Complete(req'[g].print, attempt'[g])}
    BY Zenon DEF RenamedStays
  <1>2. CASE CompleteRename(g)
    <2>1. /\ UNCHANGED <<req, attempt>> /\ req[g].id \in IDs
          /\ journal' = [journal EXCEPT ![req[g].id] = Replaced(@, Complete(req[g].print, attempt[g]))]
      BY <1>2, <1>T, RequestTypes, Zenon DEF CompleteRename, Goto
    <2> QED
      BY <2>1, <1>V, Zenon DEF Replaced
  <1>3. CASE pc'[g] = pc[g] /\ req'[g] = req[g] /\ attempt'[g] = attempt[g]
    <2> DEFINE id == req[g].id
               c == Complete(req[g].print, attempt[g])
    <2>1. id \in IDs /\ runs[id] = 1 /\ journal[id].seen = c /\ journal[id].data = {c}
      BY <1>1, <1>3, <1>T, RequestTypes, Zenon DEF SafeInv, OwnerRuns, Owning, AnswerInv, RenamedStays
    <2>2. c.kind = "complete"
      BY Zenon DEF Complete
    <2> HIDE DEF c
    <2>3. ~Claimed(id) /\ ~Settling(id)
      BY <1>1, <2>1 DEF Claimed, Settling
    <2>4. ~Completed(id)
      <3>1. SUFFICES ASSUME NEW h \in Handlers, CompleteRename(h), req[h].id = id
                     PROVE  FALSE
        BY Zenon DEF Completed
      <3>2. journal[id].seen.kind = "running"
        BY <3>1 DEF CompleteRename, Claim, Running
      <3> QED
        BY <2>1, <2>2, <3>2, Zenon
    <2>5. Untouched(id)
      BY <2>1, <2>3, <2>4, JournalStep, Zenon
    <2> QED
      BY <1>3, <2>1, <2>5, Zenon DEF Untouched, c
  <1>4. ~Start(g) /\ ~Succeed(g) /\ ~PutReport(g) /\ ~PutArtifact(g)
    BY <1>1, <1>V, Zenon DEF Start, Succeed, PutReport, PutArtifact, PutLink, PutSync, Goto
  <1> QED
    BY <1>1, <1>2, <1>3, <1>4, <1>T, OwnerStep, Zenon DEF Owning

\* An answer is the outcome of a handler's own run, once its record is synced, or of the
\* completed record it read.
LEMMA AnswerStep ==
  ASSUME [Next]_vars, answers' # answers
  PROVE  \E h \in Handlers :
           \/ ClaimReplay(h) /\ answers' = answers \cup {Answered(req[h], Seen(h).out, "replay")}
           \/ /\ CompleteSyncDirectory(h)
              /\ answers' = answers \cup {Answered(req[h], attempt[h], "owner")}
  <1>1. ASSUME NEW h \in Handlers, Work(h), ~ClaimReplay(h), ~CompleteSyncDirectory(h)
        PROVE  UNCHANGED answers
    BY <1>1, Zenon DEF Work, ClaimCreate, ClaimWrite, ClaimSync, ClaimSyncDirectory, ClaimUndo,
                ClaimRefuse, Start, Succeed, Fail, PutReport, PutArtifact, PutLink, PutSync,
                CompleteRename, CompleteSyncFails, history
  <1>2. ASSUME NEW p \in Processes, OpenJournal(p) \/ CloseJournal(p) \/ Crash(p)
        PROVE  UNCHANGED answers
    BY <1>2, Zenon DEF OpenJournal, CloseJournal, Crash, HandlersGone
  <1>3. ASSUME NEW h \in Handlers, NEW r \in Requests, Execute(h, r)
        PROVE  UNCHANGED answers
    BY <1>3, Zenon DEF Execute, history
  <1>4. ASSUME PowerLoss PROVE UNCHANGED answers
    BY <1>4, Zenon DEF PowerLoss, HandlersGone
  <1>5. PICK h \in Handlers : ClaimReplay(h) \/ CompleteSyncDirectory(h)
    BY <1>1, <1>2, <1>3, <1>4, Zenon DEF Next, vars
  <1> QED
    BY <1>5, Zenon DEF ClaimReplay, CompleteSyncDirectory

\* The one run that a handler answers for: it is the first, it ran for the request of the
\* handler, and both its objects are durable.
LEMMA AnswerOfRun ==
  ASSUME SafeInv, AnswerInv, NEW h \in Handlers
  PROVE  /\ ClaimReplay(h) =>
              /\ ID(h) \in IDs /\ req[h].print \in Prints
              /\ runs[ID(h)] = 1 /\ ranFor[ID(h)] = req[h].print /\ Seen(h).out = 1
              /\ ObjectsOf(ID(h), 1) \subseteq durable
         /\ CompleteSyncDirectory(h) =>
              /\ ID(h) \in IDs /\ req[h].print \in Prints
              /\ runs[ID(h)] = 1 /\ ranFor[ID(h)] = req[h].print /\ attempt[h] = 1
              /\ ObjectsOf(ID(h), 1) \subseteq durable
  <1>T. TypeOK
    BY Zenon DEF SafeInv
  <1>1. ASSUME ClaimReplay(h)
        PROVE  /\ ID(h) \in IDs /\ req[h].print \in Prints
               /\ runs[ID(h)] = 1 /\ ranFor[ID(h)] = req[h].print /\ Seen(h).out = 1
               /\ ObjectsOf(ID(h), 1) \subseteq durable
    <2>1. ID(h) \in IDs /\ req[h].print \in Prints
      BY <1>1, <1>T, RequestTypes, Zenon DEF ClaimReplay
    <2>2. Seen(h) \in Survivors(journal[ID(h)])
      BY <2>1, Zenon DEF SafeInv, SeenSurvives, Survivors, Seen
    <2> QED
      BY <1>1, <2>1, <2>2, Zenon DEF ClaimReplay, AnswerInv, CompleteBacked
  <1>2. ASSUME CompleteSyncDirectory(h)
        PROVE  /\ ID(h) \in IDs /\ req[h].print \in Prints
               /\ runs[ID(h)] = 1 /\ ranFor[ID(h)] = req[h].print /\ attempt[h] = 1
               /\ ObjectsOf(ID(h), 1) \subseteq durable
    <2>1. ID(h) \in IDs /\ req[h].print \in Prints /\ pc[h] = "renamed"
      BY <1>2, <1>T, RequestTypes, Zenon DEF CompleteSyncDirectory
    <2> QED
      BY <2>1, Zenon DEF SafeInv, OwnerRuns, Owning, AnswerInv, StoreProgress
  <1> QED
    BY <1>1, <1>2, Zenon

\* A step gives only answers that are backed, and keeps the record of an owner's.
LEMMA AnswersStep ==
  ASSUME SafeInv, AnswerInv, [Next]_vars
  PROVE  AnswersBacked' /\ OwnerAnswerKept'
  <1>T. TypeOK
    BY Zenon DEF SafeInv
  <1>H. durable \subseteq durable'
    BY HistoryStep, Zenon DEF AnswerInv
  <1>1. \A a \in answers : ObjectsOf(a.id, a.out) \subseteq durable'
    BY <1>H, Zenon DEF AnswerInv, AnswersBacked
  <1>2. ASSUME NEW a \in answers, a.via = "owner"
        PROVE  Survivors(journal'[a.id]) = {Complete(a.print, a.out)}
    <2> DEFINE id == a.id
               c == Complete(a.print, a.out)
    <2>1. id \in IDs /\ Survivors(journal[id]) = {c}
      BY <1>2, <1>T, Zenon DEF AnswerInv, OwnerAnswerKept, TypeOK, Answers
    <2>2. c.kind = "complete"
      BY Zenon DEF Complete
    <2> HIDE DEF c
    <2>3. journal[id].seen = c /\ runs[id] = 1
      BY <2>1, <2>2, Zenon DEF SafeInv, SeenSurvives, Survivors, AnswerInv, CompleteBacked
    <2>4. ~Claimed(id)
      BY <2>3 DEF Claimed
    <2>5. ~Completed(id)
      <3>1. SUFFICES ASSUME NEW h \in Handlers, CompleteRename(h), ID(h) = id
                     PROVE  FALSE
        BY Zenon DEF Completed
      <3>2. journal[id].seen.kind = "running"
        BY <3>1 DEF CompleteRename, Claim, Running, Seen
      <3> QED
        BY <2>2, <2>3, <3>2, Zenon
    <2>6. CASE Untouched(id)
      <3>1. c \in Survivors(journal'[id])
        BY <2>1, <2>3, <2>6, Zenon DEF Untouched, Survivors, SafeInv, SeenSurvives
      <3> QED
        BY <2>1, <2>6, <3>1, Zenon DEF Untouched, c
    <2>7. CASE Settling(id)
      BY <2>1, <2>7 DEF Settling, Settled, Survivors, c
    <2> QED
      BY <2>1, <2>4, <2>5, <2>6, <2>7, JournalStep, Zenon
  <1>3. CASE answers' = answers
    BY <1>1, <1>2, <1>3, Zenon DEF AnswersBacked, OwnerAnswerKept
  <1>4. CASE answers' # answers
    <2>1. PICK h \in Handlers :
            \/ ClaimReplay(h) /\ answers' = answers \cup {Answered(req[h], Seen(h).out, "replay")}
            \/ /\ CompleteSyncDirectory(h)
               /\ answers' = answers \cup {Answered(req[h], attempt[h], "owner")}
      BY <1>4, AnswerStep, Zenon
    <2>2. CASE ClaimReplay(h) /\ answers' = answers \cup {Answered(req[h], Seen(h).out, "replay")}
      <3> DEFINE b == Answered(req[h], Seen(h).out, "replay")
      <3>1. b.id = ID(h) /\ b.out = 1 /\ b.via # "owner"
        BY <2>2, AnswerOfRun, Zenon DEF Answered, ID
      <3>2. ObjectsOf(b.id, b.out) \subseteq durable'
        BY <2>2, <3>1, <1>H, AnswerOfRun, Zenon
      <3> HIDE DEF b
      <3>3. answers' = answers \cup {b}
        BY <2>2, Zenon DEF b
      <3> QED
        BY <1>1, <1>2, <3>1, <3>2, <3>3, Zenon DEF AnswersBacked, OwnerAnswerKept
    <2>3. CASE CompleteSyncDirectory(h) /\ answers' = answers \cup {Answered(req[h], attempt[h], "owner")}
      <3> DEFINE b == Answered(req[h], attempt[h], "owner")
      <3>1. b.id = ID(h) /\ b.print = req[h].print /\ b.out = attempt[h] /\ attempt[h] = 1
        BY <2>3, AnswerOfRun, Zenon DEF Answered, ID
      <3>2. ObjectsOf(b.id, b.out) \subseteq durable'
        BY <2>3, <3>1, <1>H, AnswerOfRun, Zenon
      <3>3. Survivors(journal'[b.id]) = {Complete(b.print, b.out)}
        <4>1. /\ journal' = [i \in IDs |-> DirSynced(journal[i])] /\ ID(h) \in IDs
              /\ journal[ID(h)].data = {Complete(req[h].print, attempt[h])}
          BY <2>3, AnswerOfRun, Zenon DEF CompleteSyncDirectory, AnswerInv, RenamedStays
        <4> QED
          BY <3>1, <4>1, Zenon DEF DirSynced, Survivors
      <3> HIDE DEF b
      <3>4. answers' = answers \cup {b}
        BY <2>3, Zenon DEF b
      <3> QED
        BY <1>1, <1>2, <3>2, <3>3, <3>4, Zenon DEF AnswersBacked, OwnerAnswerKept
    <2> QED
      BY <2>1, <2>2, <2>3, Zenon
  <1> QED
    BY <1>3, <1>4, Zenon

\* Before any answer is given there is nothing to keep.
LEMMA AnswerInit == Init => AnswerInv
  <1> SUFFICES ASSUME Init PROVE AnswerInv
    BY Zenon
  <1>1. \A id \in IDs : Survivors(journal[id]) = {Absent} /\ journal[id].seen = Absent
    BY Zenon DEF Init, NoFile, Survivors
  <1>2. CompleteBacked /\ RunningAlone
    BY <1>1 DEF CompleteBacked, RunningAlone, Absent
  <1> QED
    BY <1>2, Zenon DEF Init, AnswerInv, StoreProgress, RenamedStays, AnswersBacked, OwnerAnswerKept

\* Both invariants hold together in every behaviour of the runner.
THEOREM AnswerInvariant == Spec => [](SafeInv /\ AnswerInv)
  <1>1. SafeInv /\ AnswerInv /\ [Next]_vars => SafeInv' /\ AnswerInv'
    BY SafeStep, StoreStep, CompletedStep, RenamedStep, AnswersStep, Zenon DEF AnswerInv
  <1> QED
    BY SafeInit, AnswerInit, <1>1, PTL DEF Spec

\* Every outcome that Execute returned, from its own run or replayed from the journal,
\* has both its objects in the store, whatever power losses follow.
THEOREM AnswersAreBacked == Spec => []AnswersBacked
  BY AnswerInvariant, PTL DEF AnswerInv

\* The record of an outcome that Execute returned from its own run is never lost.
THEOREM OwnerAnswersAreKept == Spec => []OwnerAnswerKept
  BY AnswerInvariant, PTL DEF AnswerInv

\* An execution ID whose run ended without a completed record is never run or answered
\* again: Claim finds "running" under the name, now and after every power loss.
THEOREM StrandedStays == Spec => StrandedForever
  <1>1. ASSUME SafeInv, AnswerInv, [Next]_vars, NEW id \in IDs, Stranded(id)
        PROVE  Stranded(id)'
    <2>T. TypeOK
      BY <1>1, Zenon DEF SafeInv
    <2>V. pc \in [Handlers -> States] /\ runs \in [IDs -> Nat] /\ journal \in [IDs -> Files(Records)]
      BY <2>T, Zenon DEF TypeOK
    <2>1. runs[id] = 1
      BY <1>1, <2>V DEF Stranded, SafeInv, AtMostOnce
    <2>2. runs'[id] = 1
      BY <1>1, <2>1, HistoryStep, Zenon DEF AnswerInv
    <2>3. journal'[id].seen.kind = "running"
      <3>1. ~Claimed(id)
        BY <2>1 DEF Claimed
      <3>2. ~Completed(id)
        BY <1>1, Zenon DEF Completed, CompleteRename, Stranded, AtWork, Storing, ID
      <3>3. CASE Untouched(id)
        BY <1>1, <3>3, Zenon DEF Untouched, Stranded
      <3>4. CASE Settling(id)
        <4>1. PICK c \in Survivors(journal[id]) : journal'[id] = Settled(c)
          BY <3>4, Zenon DEF Settling
        <4>2. c \in Records \cup {Absent, Torn} /\ journal'[id].seen = c
          BY <4>1, <2>V DEF Files, Survivors, Settled
        <4>3. Durable(journal[id])
          BY <1>1, <2>1 DEF SafeInv, ClaimedBeforeRun
        <4>4. c # Absent /\ c # Torn
          BY <4>3, DurableMeans, Zenon DEF Survivors
        <4>5. c.kind # "complete"
          BY <1>1, Zenon DEF Stranded, AnswerInv, RunningAlone
        <4>6. c.kind \in {"running", "complete"}
          BY <4>2, <4>4, Zenon DEF Records
        <4> QED
          BY <4>2, <4>5, <4>6, Zenon
      <3> QED
        BY <1>1, <3>1, <3>2, <3>3, <3>4, JournalStep, Zenon
    <2>4. \A h \in Handlers : ~AtWork(h, id)'
      <3>1. SUFFICES ASSUME NEW h \in Handlers, pc'[h] \in Owning, req'[h].id = id
                     PROVE  FALSE
        BY Zenon DEF AtWork, Owning
      <3>2. CASE Start(h)
        <4>1. req[h].id = id /\ runs[id] = 0
          BY <3>1, <3>2, <1>1, Zenon DEF Start, SafeInv, ClaimantAlone, Claimant, ID
        <4> QED
          BY <4>1, <2>1
      <3>3. CASE Succeed(h) \/ PutReport(h) \/ PutArtifact(h) \/ CompleteRename(h)
        <4>1. pc[h] \in Owning /\ req'[h] = req[h]
          BY <3>3, Zenon DEF Succeed, PutReport, PutArtifact, PutLink, PutSync, CompleteRename, Goto, Owning, Storing
        <4> QED
          BY <1>1, <3>1, <4>1, Zenon DEF Stranded, AtWork, Owning
      <3>4. CASE pc'[h] = pc[h] /\ req'[h] = req[h]
        BY <1>1, <3>1, <3>4, Zenon DEF Stranded, AtWork, Owning
      <3> QED
        BY <1>1, <2>T, <3>1, <3>2, <3>3, <3>4, OwnerStep, Zenon
    <2> QED
      BY <2>2, <2>3, <2>4 DEF Stranded
  <1>2. SafeInv /\ AnswerInv /\ [Next]_vars => [\A id \in IDs : Stranded(id) => Stranded(id)']_vars
    BY <1>1, Zenon
  <1> QED
    BY AnswerInvariant, <1>2, PTL DEF Spec, StrandedForever

-----------------------------------------------------------------------------
(* The runner implements ExecutionPromise: of its steps only Start, ClaimReplay and  *)
(* CompleteSyncDirectory change what the promise is about.                           *)

\* A step of the runner is a step of the promise, or one that the promise does not see.
LEMMA PromiseStep ==
  ASSUME SafeInv, AnswerInv, [Next]_vars
  PROVE  [Promise!Next]_(Promise!vars)
  <1>T. TypeOK
    BY Zenon DEF SafeInv
  <1>V. runs \in [IDs -> Nat]
    BY <1>T, Zenon DEF TypeOK
  <1>1. ASSUME NEW h \in Handlers, Start(h)
        PROVE  Promise!Next
    <2>1. ID(h) \in IDs /\ req[h].print \in Prints /\ runs[ID(h)] = 0
      BY <1>1, <1>T, RequestTypes, Zenon DEF Start, SafeInv, ClaimantAlone, Claimant
    <2>2. Promise!Start(ID(h), req[h].print)
      BY <1>1, <2>1, <1>V DEF Start, Promise!Start
    <2> QED
      BY <2>1, <2>2, Zenon DEF Promise!Next
  <1>2. ASSUME NEW h \in Handlers, Work(h), ~Start(h)
        PROVE  UNCHANGED <<runs, ranFor>>
    BY <1>2, Zenon DEF Work, ClaimCreate, ClaimWrite, ClaimSync, ClaimSyncDirectory, ClaimUndo, ClaimReplay,
                ClaimRefuse, Succeed, Fail, PutReport, PutArtifact, PutLink, PutSync, CompleteRename,
                CompleteSyncDirectory, CompleteSyncFails, history
  <1>3. ASSUME NEW p \in Processes, OpenJournal(p) \/ CloseJournal(p) \/ Crash(p)
        PROVE  UNCHANGED <<runs, ranFor>>
    BY <1>3, Zenon DEF OpenJournal, CloseJournal, Crash, HandlersGone
  <1>4. ASSUME NEW h \in Handlers, NEW r \in Requests, Execute(h, r)
        PROVE  UNCHANGED <<runs, ranFor>>
    BY <1>4, Zenon DEF Execute, history
  <1>5. ASSUME PowerLoss PROVE UNCHANGED <<runs, ranFor>>
    BY <1>5, Zenon DEF PowerLoss, HandlersGone
  <1>6. (\E h \in Handlers : Start(h)) \/ UNCHANGED <<runs, ranFor>>
    BY <1>2, <1>3, <1>4, <1>5, Zenon DEF Next, vars
  <1>7. CASE answers' = answers /\ UNCHANGED <<runs, ranFor>>
    BY <1>7, Zenon DEF Promise!vars
  <1>8. CASE answers' # answers /\ UNCHANGED <<runs, ranFor>>
    <2>1. PICK h \in Handlers :
            \/ ClaimReplay(h) /\ answers' = answers \cup {Answered(req[h], Seen(h).out, "replay")}
            \/ /\ CompleteSyncDirectory(h)
               /\ answers' = answers \cup {Answered(req[h], attempt[h], "owner")}
      BY <1>8, AnswerStep, Zenon
    <2>2. /\ ID(h) \in IDs /\ req[h].print \in Prints
          /\ runs[ID(h)] = 1 /\ ranFor[ID(h)] = req[h].print
          /\ ClaimReplay(h) => Seen(h).out = 1
          /\ CompleteSyncDirectory(h) => attempt[h] = 1
      BY <2>1, AnswerOfRun, Zenon
    <2>3. \E via \in {"owner", "replay"} : Promise!Answer(ID(h), req[h].print, via)
      BY <1>8, <2>1, <2>2, Zenon DEF Promise!Answer, Answered, ID
    <2> QED
      BY <2>2, <2>3, Zenon DEF Promise!Next
  <1>9. CASE answers' # answers /\ \E h \in Handlers : Start(h)
    BY <1>9, Zenon DEF Start
  <1> QED
    BY <1>1, <1>6, <1>7, <1>8, <1>9, Zenon

\* Runner.Execute, with its journal, its store, its failures and its restarts, implements
\* the abstract promise: one run for an ID, and answers that are its outcome, given to
\* the request it was for.
THEOREM ImplementsPromise == Spec => KeepsPromise
  <1>1. Init => Promise!Init
    BY Zenon DEF Init, Promise!Init
  <1>2. SafeInv /\ AnswerInv /\ [Next]_vars => [Promise!Next]_(Promise!vars)
    BY PromiseStep, Zenon
  <1> QED
    BY <1>1, <1>2, AnswerInvariant, PTL DEF Spec, KeepsPromise, Promise!Spec
=============================================================================
