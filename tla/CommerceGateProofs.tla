------------------------- MODULE CommerceGateProofs -------------------------
(***************************************************************************)
(* Proofs about CommerceGate, for any number of execution slots, processes  *)
(* and calls, and any number of faults.  They assume what the run assumes:  *)
(* Close is called when no call of its process is running.                  *)
(***************************************************************************)
EXTENDS CommerceGate, TLAPS

\* The time limits, in seconds, of the leaves that name no prover.
USE SMTT(30), ZenonT(20)

\* The caller of Gate.Close waits for its calls.
CarefulClose == "close" \notin Faults

-----------------------------------------------------------------------------
(* The inductive invariant of the control. *)

\* Arguments that a call may have, by its operation: Complete records an end, and a call
\* on a launch has the secret of one that its process holds.
CallOK ==
  \A c \in Calls : pc[c] # "idle" =>
    /\ call[c] \in CallsOf
    /\ call[c].op = "complete" => call[c].to \in Terminal
    /\ call[c].op \in {"markRunning", "complete", "effect"} =>
         [x |-> X(c), secret |-> call[c].secret, proc |-> P(c)] \in held

\* What a call in a place is doing.
PlaceOK ==
  \A c \in Calls :
    /\ pc[c] \in {"created", "written", "synced"} => call[c].op = "prepare"
    /\ pc[c] \in {"replacing", "renamed"} => call[c].op \in {"start", "markRunning", "complete", "effect"}
    /\ pc[c] \in {"brokering", "sent", "responding", "terminalizing"} => call[c].op = "effect"
    /\ pc[c] \in Locked => entry[c] \in Records

\* Gate.mu: the mutex of a Gate is taken exactly by the call of its process that is
\* between Lock and Unlock.
MutexOK == \A c \in Calls : pc[c] \in Locked <=> mu[P(c)] = c

\* The directory lock: the process inside Open or with an open Gate holds it, and only
\* a process with an open Gate has calls.
GateOwned ==
  /\ \A p \in Processes : gate[p] \in {"recovering", "syncing", "open"} => owner = p
  /\ \A c \in Calls : pc[c] # "idle" => gate[P(c)] = "open"

Control == TypeOK /\ CallOK /\ PlaceOK /\ MutexOK /\ GateOwned

\* How far createRecord has got.
CreateAt(c) ==
  /\ pc[c] = "created" => Seen(X(c)) = Torn
  /\ pc[c] \in {"written", "synced"} => Seen(X(c)) = entry[c]
  /\ pc[c] = "synced" => slot[X(c)].data = {entry[c]}
  /\ pc[c] \in {"created", "written", "synced"} =>
       entry[c].kind = "PREPARED" /\ entry[c].effect = "none"
CreateProgress == \A c \in Calls : CreateAt(c)

\* The record that replaceRecord is about to put in place follows from the one that is
\* still there: the mutex is held from the read to the rename.
Follows(c, r) ==
  \/ call[c].op = "start" /\ r.kind = "PREPARED" /\ entry[c] = With(r, "STARTING")
  \/ call[c].op = "markRunning" /\ r.kind = "STARTING" /\ entry[c] = With(r, "RUNNING")
  \/ call[c].op = "complete" /\ r.kind = "RUNNING" /\ entry[c] = With(r, call[c].to)
  \/ /\ call[c].op = "effect" /\ r.kind = "RUNNING" /\ r.effect = "none"
     /\ entry[c] = WithEffect(r, "submitted")
  \/ call[c].op = "effect" /\ r.effect = "submitted" /\ entry[c] = WithEffect(r, "terminal")

ReplaceAt(c) ==
  /\ pc[c] = "replacing" =>
       /\ IsRecord(Seen(X(c))) /\ Follows(c, Seen(X(c)))
       /\ call[c].op # "effect" => Seen(X(c)).secret = call[c].secret
  /\ pc[c] = "renamed" =>
       /\ Seen(X(c)) = entry[c] /\ slot[X(c)].data = {entry[c]}
       /\ call[c].op = "start" => entry[c].kind = "STARTING" /\ launched[X(c)] = 0
       /\ call[c].op = "complete" => entry[c].kind = call[c].to
ReplaceProgress == \A c \in Calls : ReplaceAt(c)

\* An execution that was launched reads as started, now and after any power loss.
LaunchedStarted ==
  \A x \in Executions : launched[x] > 0 =>
    \A r \in Readable(slot[x]) : IsRecord(r) /\ r.kind # "PREPARED"

-----------------------------------------------------------------------------
(* The steps of a call. *)

CallStep(c) ==
  \/ Begin(c) \/ Prepare(c) \/ Perform(c) \/ Export(c) \/ AssertOutcome(c)
  \/ Admit(c) \/ Refuse(c) \/ ReplaceRename(c) \/ ReplaceSync(c) \/ FileFails(c)

\* A step of call c changes no other call, closes or opens no Gate, and takes no launch
\* from the process that holds it.
Only(c) ==
  /\ \A d \in Calls \ {c} : pc'[d] = pc[d] /\ call'[d] = call[d] /\ entry'[d] = entry[d]
  /\ UNCHANGED <<gate, owner>>
  /\ held \subseteq held'

\* The file operators of DurableFile keep the type of a file.
LEMMA FileTypes ==
  ASSUME NEW R, NEW f \in Files(R), NEW r \in R
  PROVE  /\ NoFile \in Files(R)
         /\ Created(f) \in Files(R)
         /\ Written(f, r) \in Files(R)
         /\ Synced(f) \in Files(R)
         /\ DirSynced(f) \in Files(R)
         /\ Removed(f) \in Files(R)
         /\ Replaced(f, r) \in Files(R)
  BY Zenon DEF Files, NoFile, Created, Written, Synced, DirSynced, Removed, Replaced, Survivors,
         Absent, Torn

\* So does a power loss.
LEMMA SettledType ==
  ASSUME NEW R, NEW f \in Files(R), NEW c \in Survivors(f)
  PROVE  Settled(c) \in Files(R)
  BY Zenon DEF Files, Settled, Survivors

\* Every step of a call is of that form.
LEMMA CallFrame ==
  ASSUME TypeOK, NEW c \in Calls, CallStep(c)
  PROVE  Only(c)
  <1>V. /\ pc \in [Calls -> Locked \cup Unlocked] /\ call \in [Calls -> CallsOf \cup {NoCall}]
        /\ entry \in [Calls -> Records \cup {Absent}]
    BY Zenon DEF TypeOK
  <1> USE DEF Only, process, Goto, Return
  <1>1. CASE Begin(c)
    <2>1. \A d \in Calls \ {c} : call'[d] = call[d]
      BY <1>1, <1>V, Zenon DEF Begin
    <2> QED
      BY <1>1, <2>1, <1>V, Zenon DEF Begin
  <1>2. CASE Prepare(c)
    BY <1>2, <1>V, Zenon DEF Prepare, PrepareReturns, PrepareCreate, CreateWrite, CreateSync, CreateSyncDirectory
  <1>3. CASE Perform(c)
    BY <1>3, <1>V, Zenon DEF Perform, Submit, EffectFails, ResponseRename, ResponseSync, Terminalize
  <1>4. CASE Export(c) \/ AssertOutcome(c) \/ Admit(c) \/ Refuse(c) \/ ReplaceRename(c) \/ FileFails(c)
    BY <1>4, <1>V, Zenon DEF Export, AssertOutcome, Admit, Refuse, ReplaceRename, FileFails
  <1>5. CASE ReplaceSync(c)
    BY <1>5, <1>V, Zenon DEF ReplaceSync
  <1> QED
    BY <1>1, <1>2, <1>3, <1>4, <1>5, Zenon DEF CallStep

-----------------------------------------------------------------------------
(* Types, places, the mutex and the directory lock. *)

\* The slot of a call that is under way.
LEMMA CallTypes ==
  ASSUME TypeOK, CallOK, NEW c \in Calls, pc[c] # "idle"
  PROVE  /\ call[c] \in CallsOf /\ X(c) \in Executions
         /\ slot[X(c)] \in Files(Records) /\ response[X(c)] \in Files({Body})
         /\ Seen(X(c)) \in Records \cup {Absent, Torn}
         /\ IsRecord(Seen(X(c))) => Seen(X(c)) \in Records
  <1>1. call[c] \in CallsOf /\ X(c) \in Executions
    BY Zenon DEF CallOK, X, CallsOf
  <1>2. slot[X(c)] \in Files(Records) /\ response[X(c)] \in Files({Body})
    BY <1>1, Zenon DEF TypeOK
  <1>3. Seen(X(c)) \in Records \cup {Absent, Torn}
    BY <1>2, Zenon DEF Files, Seen
  <1> QED
    BY <1>1, <1>2, <1>3 DEF IsRecord, States, Ambiguous, Terminal, Absent, Torn

\* The records that the operations write are records.
LEMMA EntryTypes ==
  ASSUME NEW r \in Records
  PROVE  /\ \A k \in States : With(r, k) \in Records
         /\ \A e \in {"none", "submitted", "terminal"} : WithEffect(r, e) \in Records
  BY Zenon DEF Records, With, WithEffect, Record

\* The record of an admitted call, and of one that ends its effect.
LEMMA AdmitTypes ==
  ASSUME TypeOK, CallOK, NEW c \in Calls
  PROVE  /\ Admit(c) => Entry(c) \in Records
         /\ Terminalize(c) => WithEffect(Seen(X(c)), "terminal") \in Records
  <1>1. ASSUME Admit(c) PROVE Entry(c) \in Records
    <2>1. pc[c] # "idle"
      BY <1>1, Zenon DEF Admit
    <2>2. Seen(X(c)) \in Records
      BY <1>1, <2>1, CallTypes, Zenon DEF Admit, StartPermitted, TransitionPermitted, EffectPermitted, Matches
    <2>3. call[c].op = "complete" => call[c].to \in States
      BY <2>1, Zenon DEF CallOK, States
    <2>4. call[c].op \in {"start", "markRunning", "complete", "effect"}
      BY <1>1, Zenon DEF Admit, StartPermitted, TransitionPermitted, EffectPermitted
    <2> QED
      BY <2>2, <2>3, <2>4, EntryTypes, Zenon DEF Entry, States
  <1>2. ASSUME Terminalize(c) PROVE WithEffect(Seen(X(c)), "terminal") \in Records
    BY <1>2, CallTypes, EntryTypes, Zenon DEF Terminalize, Submitted
  <1> QED
    BY <1>1, <1>2, Zenon

\* Syncing the directory, and losing power, keep the types of the files.
LEMMA DirectoryTypes ==
  ASSUME TypeOK
  PROVE  /\ [x \in Executions |-> DirSynced(slot[x])] \in [Executions -> Files(Records)]
         /\ [x \in Executions |-> DirSynced(response[x])] \in [Executions -> Files({Body})]
         /\ PowerLoss => slot' \in [Executions -> Files(Records)] /\ response' \in [Executions -> Files({Body})]
  <1>V. slot \in [Executions -> Files(Records)] /\ response \in [Executions -> Files({Body})]
    BY Zenon DEF TypeOK
  <1>1. \A x \in Executions : DirSynced(slot[x]) \in Files(Records) /\ DirSynced(response[x]) \in Files({Body})
    BY <1>V, Zenon DEF Files, DirSynced
  <1>2. ASSUME PowerLoss
        PROVE  slot' \in [Executions -> Files(Records)] /\ response' \in [Executions -> Files({Body})]
    <2>1. PICK kept \in [Executions -> UNION {Survivors(slot[x]) : x \in Executions}] :
            /\ \A x \in Executions : kept[x] \in Survivors(slot[x])
            /\ slot' = [x \in Executions |-> Settled(kept[x])]
      BY <1>2, Zenon DEF PowerLoss
    <2>2. PICK kept2 \in [Executions -> UNION {Survivors(response[x]) : x \in Executions}] :
            /\ \A x \in Executions : kept2[x] \in Survivors(response[x])
            /\ response' = [x \in Executions |-> Settled(kept2[x])]
      BY <1>2, Zenon DEF PowerLoss
    <2>3. \A x \in Executions : Settled(kept[x]) \in Files(Records)
      BY <2>1, <1>V, SettledType, Zenon
    <2>4. \A x \in Executions : Settled(kept2[x]) \in Files({Body})
      BY <2>2, <1>V, SettledType, Zenon
    <2> QED
      BY <2>1, <2>2, <2>3, <2>4, Zenon
  <1> QED
    BY <1>1, <1>2, Zenon

\* Every variable keeps its type.
LEMMA TypeStep == TypeOK /\ CallOK /\ PlaceOK /\ [Next]_vars => TypeOK'
  <1> SUFFICES ASSUME TypeOK, CallOK, PlaceOK, [Next]_vars
               PROVE  TypeOK'
    BY Zenon
  <1> USE DEF Locked, Unlocked, process, files, world, history
  <1>0. ASSUME NEW Q, ProcessesGone(Q),
               slot' \in [Executions -> Files(Records)], response' \in [Executions -> Files({Body})]
        PROVE  TypeOK'
    <2>1. faults' \in 0..MaxFaults
      BY <1>0, BoundsAssumption DEF TypeOK, ProcessesGone
    <2>2. held' \subseteq [x : Executions, secret : Secrets, proc : Processes]
      BY <1>0, Zenon DEF TypeOK, ProcessesGone
    <2>3. /\ gate' \in [Processes -> {"none", "recovering", "syncing", "open", "closed"}]
          /\ owner' \in Processes \cup {Nobody}
          /\ mu' \in [Processes -> Calls \cup {Nobody}]
      BY <1>0, Zenon DEF TypeOK, ProcessesGone
    <2>4. /\ pc' \in [Calls -> Locked \cup Unlocked] /\ call' \in [Calls -> CallsOf \cup {NoCall}]
          /\ entry' \in [Calls -> Records \cup {Absent}]
      BY <1>0, Zenon DEF TypeOK, ProcessesGone
    <2> QED
      BY <1>0, <2>1, <2>2, <2>3, <2>4, Zenon DEF TypeOK, ProcessesGone
  <1>1. ASSUME NEW p \in Processes, Gates(p)
        PROVE  TypeOK'
    <2>1. CASE Open(p) \/ Opened(p) \/ OpenFails(p) \/ Close(p)
      BY <2>1, Zenon DEF TypeOK, Open, Opened, OpenFails, Close, Acquire, Release
    <2>2. CASE RecoverSync(p)
      BY <2>2, DirectoryTypes, Zenon DEF TypeOK, RecoverSync, DirectorySynced
    <2>3. CASE Crash(p)
      BY <2>3, <1>0, Zenon DEF TypeOK, Crash
    <2> QED
      BY <1>1, <2>1, <2>2, <2>3, Zenon DEF Gates
  <1>2. ASSUME NEW p \in Processes, NEW x \in Executions, RecoverRename(p, x)
        PROVE  TypeOK'
    <2>1. PICK k \in Ambiguous : slot' = [slot EXCEPT ![x] = Replaced(@, With(@.seen, k))]
      BY <1>2, Zenon DEF RecoverRename, Ambiguous
    <2>2. slot[x] \in Files(Records)
      BY Zenon DEF TypeOK
    <2>3. Seen(x) \in Records
      BY <1>2, <2>2 DEF RecoverRename, Seen, Files, Absent, Torn
    <2>4. Replaced(slot[x], With(Seen(x), k)) \in Files(Records)
      BY <2>2, <2>3, EntryTypes, FileTypes, Zenon DEF States
    <2>5. slot' \in [Executions -> Files(Records)]
      BY <2>1, <2>4, Zenon DEF TypeOK, Seen
    <2> QED
      BY <1>2, <2>5, Zenon DEF TypeOK, RecoverRename
  <1>3. CASE PowerLoss
    BY <1>3, <1>0, DirectoryTypes, Zenon DEF PowerLoss
  <1>4. CASE Takeover \/ \E x \in Executions : Expire(x)
    <2>1. generation' \in Generations /\ late' \subseteq Executions
      BY <1>4, BoundsAssumption DEF TypeOK, Takeover, Expire, Generations
    <2> QED
      BY <1>4, <2>1, ZenonT(60) DEF TypeOK, Takeover, Expire
  <1>5. ASSUME NEW c \in Calls, CallStep(c)
        PROVE  TypeOK'
    <2>1. CASE Begin(c)
      <3>1. call' \in [Calls -> CallsOf \cup {NoCall}]
        <4>1. \A g \in 1..generation : g \in Generations
          BY BoundsAssumption DEF TypeOK, Generations
        <4>2. PICK cl \in CallsOf : call' = [call EXCEPT ![c] = cl]
          BY <2>1, <4>1 DEF Begin, TypeOK, Call, CallsOf, Operations, Tickets
        <4> QED
          BY <4>2, Zenon DEF TypeOK
      <3> QED
        BY <2>1, <3>1, Zenon DEF TypeOK, Begin
    <2> SUFFICES ASSUME CallStep(c), ~Begin(c)
                 PROVE  TypeOK'
      BY <1>5, <2>1, Zenon
    <2>2. pc[c] # "idle"
      BY Zenon DEF CallStep, Prepare, PrepareReturns, PrepareCreate, CreateWrite, CreateSync, CreateSyncDirectory,
             Perform, Submit, EffectFails, Abandons, ResponseRename, ResponseSync, Terminalize,
             Export, AssertOutcome, Admit, Refuse, ReplaceRename, ReplaceSync, FileFails
    <2>3. /\ call[c] \in CallsOf /\ X(c) \in Executions
          /\ slot[X(c)] \in Files(Records) /\ response[X(c)] \in Files({Body})
          /\ IsRecord(Seen(X(c))) => Seen(X(c)) \in Records
      BY <2>2, CallTypes, Zenon
    <2>4. \A f \in Files(Records) : [slot EXCEPT ![X(c)] = f] \in [Executions -> Files(Records)]
      BY <2>3, Zenon DEF TypeOK
    <2>5. CASE PrepareReturns(c)
      <3>1. Seen(X(c)) \in Records
        BY <2>5, <2>3, Zenon DEF PrepareReturns, IsRecord, States
      <3>2. tickets' \subseteq Tickets
        BY <2>5, <2>3, <3>1 DEF TypeOK, PrepareReturns, Ticket, Tickets, Records
      <3> QED
        BY <2>5, <3>2, Zenon DEF TypeOK, PrepareReturns, Return
    <2>6. CASE PrepareCreate(c)
      <3>1. Created(slot[X(c)]) \in Files(Records)
        BY <2>3, Zenon DEF Files, Created, Survivors
      <3>2. secrets[X(c)] + 1 \in Secrets /\ secrets[X(c)] + 1 \in 0..MaxSecrets
        BY <2>6, <2>3, BoundsAssumption DEF TypeOK, PrepareCreate, Secrets
      <3>3. Record("PREPARED", call[c].gen, secrets[X(c)] + 1, "none") \in Records
        BY <2>6, <3>2, Zenon DEF TypeOK, PrepareCreate, Current, Record, Records, States
      <3>4. mu' \in [Processes -> Calls \cup {Nobody}] /\ slot' \in [Executions -> Files(Records)]
        BY <2>6, <2>4, <3>1, Zenon DEF TypeOK, PrepareCreate, Lock
      <3> QED
        BY <2>6, <2>3, <3>2, <3>3, <3>4, Zenon DEF TypeOK, PrepareCreate, Goto
    <2>7. CASE CreateWrite(c) \/ CreateSync(c) \/ ReplaceRename(c)
      <3>1. entry[c] \in Records
        BY <2>7, Zenon DEF CreateWrite, CreateSync, ReplaceRename, PlaceOK
      <3>2. slot' \in [Executions -> Files(Records)]
        BY <2>7, <2>3, <2>4, <3>1, FileTypes, ZenonT(60) DEF CreateWrite, CreateSync, ReplaceRename
      <3> QED
        BY <2>7, <3>2, ZenonT(60) DEF TypeOK, CreateWrite, CreateSync, ReplaceRename, Goto
    <2>8. CASE CreateSyncDirectory(c)
      <3>1. entry[c] \in Records
        BY <2>8, Zenon DEF CreateSyncDirectory, PlaceOK
      <3>2. tickets' \subseteq Tickets
        BY <2>8, <2>3, <3>1 DEF TypeOK, CreateSyncDirectory, Ticket, Tickets, Records
      <3> QED
        BY <2>8, <3>2, DirectoryTypes, Zenon DEF TypeOK, CreateSyncDirectory, DirectorySynced, Return, Unlock
    <2>9. CASE FileFails(c) \/ Refuse(c) \/ EffectFails(c) \/ AssertOutcome(c)
      BY <2>9, Zenon DEF TypeOK, FileFails, Refuse, EffectFails, AssertOutcome, Return, Unlock
    <2>10. CASE Admit(c) \/ Terminalize(c)
      <3>1. PICK r \in Records : entry' = [entry EXCEPT ![c] = r]
        BY <2>10, AdmitTypes, Zenon DEF Admit, Terminalize
      <3>2. entry' \in [Calls -> Records \cup {Absent}]
        BY <3>1, Zenon DEF TypeOK
      <3>3. mu' \in [Processes -> Calls \cup {Nobody}] /\ pc' \in [Calls -> Locked \cup Unlocked]
        BY <2>10 DEF TypeOK, Admit, Terminalize, Lock, Goto
      <3> QED
        BY <2>10, <3>2, <3>3, ZenonT(60) DEF TypeOK, Admit, Terminalize
    <2>11. CASE Export(c)
      BY <2>11, <2>3, Zenon DEF TypeOK, Export, Goto
    <2>12. CASE ReplaceSync(c)
      <3>1. entry[c] \in Records
        BY <2>12, Zenon DEF ReplaceSync, PlaceOK
      <3>2. P(c) \in Processes
        BY ProcessOfAssumption, Zenon DEF P
      <3>3. /\ held' \subseteq [x : Executions, secret : Secrets, proc : Processes]
            /\ launched' \in [Executions -> Nat] /\ completed' \subseteq [x : Executions, state : Terminal]
        <4>1. held' \subseteq [x : Executions, secret : Secrets, proc : Processes]
          <5>1. [x |-> X(c), secret |-> entry[c].secret, proc |-> P(c)]
                  \in [x : Executions, secret : Secrets, proc : Processes]
            BY <2>3, <3>1, <3>2, Zenon DEF Records
          <5> QED
            BY <2>12, <5>1, Zenon DEF TypeOK, ReplaceSync
        <4>2. launched' \in [Executions -> Nat]
          BY <2>12, <2>3 DEF TypeOK, ReplaceSync
        <4>3. completed' \subseteq [x : Executions, state : Terminal]
          <5>1. call[c].op = "complete" => [x |-> X(c), state |-> call[c].to] \in [x : Executions, state : Terminal]
            BY <2>2, <2>3, Zenon DEF CallOK
          <5> QED
            BY <2>12, <5>1, Zenon DEF TypeOK, ReplaceSync
        <4> QED
          BY <4>1, <4>2, <4>3, Zenon
      <3>4. /\ pc' \in [Calls -> Locked \cup Unlocked] /\ call' \in [Calls -> CallsOf \cup {NoCall}]
            /\ entry' \in [Calls -> Records \cup {Absent}]
        BY <2>12, Zenon DEF TypeOK, ReplaceSync, Return, Goto
      <3>5. mu' \in [Processes -> Calls \cup {Nobody}]
        BY <2>12, Zenon DEF TypeOK, ReplaceSync, Unlock
      <3> QED
        BY <2>12, <3>3, <3>4, <3>5, DirectoryTypes, Zenon DEF TypeOK, ReplaceSync, DirectorySynced
    <2>13. CASE Submit(c)
      <3>1. sockets' \in [Executions -> Nat]
        BY <2>13, <2>3 DEF TypeOK, Submit
      <3> QED
        BY <2>13, <3>1, Zenon DEF TypeOK, Submit, Goto
    <2>14. CASE ResponseRename(c)
      <3>1. Replaced(response[X(c)], Body) \in Files({Body})
        BY <2>3, FileTypes, Zenon
      <3> QED
        BY <2>14, <3>1, Zenon DEF TypeOK, ResponseRename, Goto
    <2>15. CASE ResponseSync(c)
      BY <2>15, DirectoryTypes, Zenon DEF TypeOK, ResponseSync, DirectorySynced, Goto
    <2> QED
      BY <2>5, <2>6, <2>7, <2>8, <2>9, <2>10, <2>11, <2>12, <2>13, <2>14, <2>15, Zenon DEF CallStep, Prepare, Perform
  <1>6. CASE UNCHANGED vars
    BY <1>6, Zenon DEF TypeOK, vars
  <1> QED
    BY <1>1, <1>2, <1>3, <1>4, <1>5, <1>6, Zenon DEF Next, CallStep

\* A call that is under way keeps its arguments until it returns.
LEMMA CallMoves ==
  ASSUME TypeOK, NEW c \in Calls, CallStep(c)
  PROVE  Begin(c) \/ pc'[c] = "idle" \/ (pc[c] # "idle" /\ call'[c] = call[c])
  <1>V. pc \in [Calls -> Locked \cup Unlocked]
    BY Zenon DEF TypeOK
  <1> USE DEF Goto, Return
  <1>1. CASE Prepare(c)
    BY <1>1, <1>V, Zenon DEF Prepare, PrepareReturns, PrepareCreate, CreateWrite, CreateSync, CreateSyncDirectory
  <1>2. CASE Perform(c)
    BY <1>2, <1>V, Zenon DEF Perform, Submit, EffectFails, ResponseRename, ResponseSync, Terminalize
  <1>3. CASE Export(c) \/ AssertOutcome(c) \/ Admit(c) \/ Refuse(c) \/ ReplaceRename(c) \/ FileFails(c)
    BY <1>3, <1>V, Zenon DEF Export, AssertOutcome, Admit, Refuse, ReplaceRename, FileFails
  <1>4. CASE ReplaceSync(c)
    BY <1>4, <1>V, Zenon DEF ReplaceSync
  <1> QED
    BY <1>1, <1>2, <1>3, <1>4, Zenon DEF CallStep

\* A step that is no call's own changes no call but to end it, with its process.
LEMMA OtherFrame ==
  ASSUME TypeOK, [Next]_vars, \A c \in Calls : ~CallStep(c), NEW d \in Calls, pc'[d] # "idle"
  PROVE  /\ pc'[d] = pc[d] /\ call'[d] = call[d] /\ entry'[d] = entry[d]
         /\ \A l \in held : l.proc = P(d) => l \in held'
  <1>1. ASSUME NEW Q, ProcessesGone(Q)
        PROVE  /\ pc'[d] = pc[d] /\ call'[d] = call[d] /\ entry'[d] = entry[d]
               /\ \A l \in held : l.proc = P(d) => l \in held'
    BY <1>1, Zenon DEF ProcessesGone
  <1>2. CASE UNCHANGED <<pc, call, entry, held>>
    BY <1>2, Zenon
  <1>3. ASSUME NEW p \in Processes, Gates(p), ~Crash(p)
        PROVE  UNCHANGED <<pc, call, entry, held>>
    BY <1>3, Zenon DEF Gates, Open, RecoverSync, Opened, OpenFails, Close
  <1>4. ASSUME NEW p \in Processes, NEW x \in Executions, RecoverRename(p, x)
        PROVE  UNCHANGED <<pc, call, entry, held>>
    BY <1>4, Zenon DEF RecoverRename
  <1>5. ASSUME Takeover \/ \E x \in Executions : Expire(x)
        PROVE  UNCHANGED <<pc, call, entry, held>>
    BY <1>5, Zenon DEF Takeover, Expire
  <1> QED
    BY <1>1, <1>2, <1>3, <1>4, <1>5, Zenon DEF Next, CallStep, Crash, PowerLoss, vars

\* The arguments of the calls stay what they were.
LEMMA CallOKStep == TypeOK /\ CallOK /\ [Next]_vars => CallOK'
  <1> SUFFICES ASSUME TypeOK, CallOK, [Next]_vars, NEW d \in Calls, pc'[d] # "idle"
               PROVE  /\ call'[d] \in CallsOf
                      /\ call'[d].op = "complete" => call'[d].to \in Terminal
                      /\ call'[d].op \in {"markRunning", "complete", "effect"} =>
                           [x |-> call'[d].x, secret |-> call'[d].secret, proc |-> P(d)] \in held'
    BY Zenon DEF CallOK, X, P
  <1>1. ASSUME pc[d] # "idle", call'[d] = call[d], \A l \in held : l.proc = P(d) => l \in held'
        PROVE  /\ call'[d] \in CallsOf
               /\ call'[d].op = "complete" => call'[d].to \in Terminal
               /\ call'[d].op \in {"markRunning", "complete", "effect"} =>
                    [x |-> call'[d].x, secret |-> call'[d].secret, proc |-> P(d)] \in held'
    BY <1>1, Zenon DEF CallOK, X
  <1>2. CASE \A c \in Calls : ~CallStep(c)
    BY <1>1, <1>2, OtherFrame, Zenon
  <1>3. ASSUME NEW c \in Calls, CallStep(c), c # d
        PROVE  pc[d] # "idle" /\ call'[d] = call[d] /\ held \subseteq held'
    BY <1>3, CallFrame, Zenon DEF Only
  <1>4. ASSUME CallStep(d), ~Begin(d)
        PROVE  pc[d] # "idle" /\ call'[d] = call[d] /\ held \subseteq held'
    BY <1>4, CallFrame, CallMoves, Zenon DEF Only
  <1>5. ASSUME Begin(d)
        PROVE  /\ call'[d] \in CallsOf
               /\ call'[d].op = "complete" => call'[d].to \in Terminal
               /\ call'[d].op \in {"markRunning", "complete", "effect"} =>
                    [x |-> call'[d].x, secret |-> call'[d].secret, proc |-> P(d)] \in held'
    <2>1. call \in [Calls -> CallsOf \cup {NoCall}] /\ held' = held
      BY <1>5, Zenon DEF TypeOK, Begin
    <2>2. \A g \in 1..generation : g \in Generations
      BY BoundsAssumption DEF TypeOK, Generations
    <2>3. CASE \E g \in 1..generation :
                 \/ \E x \in Executions : call' = [call EXCEPT ![d] = Call("prepare", x, g, 0, "none")]
                 \/ \E x \in Executions : call' = [call EXCEPT ![d] = Call("export", x, 0, 0, "none")]
                 \/ \E t \in tickets : call' = [call EXCEPT ![d] = Call("start", t.x, g, t.secret, "none")]
      BY <2>1, <2>2, <2>3 DEF TypeOK, Call, CallsOf, Operations, Tickets
    <2>4. ASSUME NEW g \in 1..generation, NEW l \in held, l.proc = P(d),
                 \/ call' = [call EXCEPT ![d] = Call("markRunning", l.x, 0, l.secret, "none")]
                 \/ \E to \in Terminal :
                      call' = [call EXCEPT ![d] = Call("complete", l.x, 0, l.secret, to)]
                 \/ call' = [call EXCEPT ![d] = Call("effect", l.x, g, l.secret, "none")]
          PROVE  /\ call'[d] \in CallsOf
                 /\ call'[d].op = "complete" => call'[d].to \in Terminal
                 /\ [x |-> call'[d].x, secret |-> call'[d].secret, proc |-> P(d)] \in held'
      <3>1. l \in [x : Executions, secret : Secrets, proc : Processes] /\ g \in Generations
        BY <2>2, Zenon DEF TypeOK
      <3>2. [x |-> l.x, secret |-> l.secret, proc |-> P(d)] = l
        BY <2>4, <3>1, Zenon
      <3>3. /\ call'[d] \in CallsOf /\ call'[d].x = l.x /\ call'[d].secret = l.secret
            /\ call'[d].op = "complete" => call'[d].to \in Terminal
        BY <2>1, <2>4, <3>1 DEF Call, CallsOf, Operations
      <3> QED
        BY <2>1, <3>2, <3>3, Zenon
    <2> QED
      BY <1>5, <2>3, <2>4, Zenon DEF Begin
  <1> QED
    BY <1>1, <1>2, <1>3, <1>4, <1>5, Zenon

\* A call is in the places of its operation.
LEMMA PlaceStep == TypeOK /\ CallOK /\ PlaceOK /\ [Next]_vars => PlaceOK'
  <1> SUFFICES ASSUME TypeOK, CallOK, PlaceOK, [Next]_vars, NEW d \in Calls, pc'[d] # "idle"
               PROVE  /\ pc'[d] \in {"created", "written", "synced"} => call'[d].op = "prepare"
                      /\ pc'[d] \in {"replacing", "renamed"} =>
                           call'[d].op \in {"start", "markRunning", "complete", "effect"}
                      /\ pc'[d] \in {"brokering", "sent", "responding", "terminalizing"} => call'[d].op = "effect"
                      /\ pc'[d] \in Locked => entry'[d] \in Records
    BY Zenon DEF PlaceOK, Locked
  <1>V. /\ pc \in [Calls -> Locked \cup Unlocked] /\ entry \in [Calls -> Records \cup {Absent}]
    BY Zenon DEF TypeOK
  <1> USE DEF Locked
  <1>1. CASE pc'[d] = pc[d] /\ call'[d] = call[d] /\ entry'[d] = entry[d]
    BY <1>1, Zenon DEF PlaceOK
  <1>2. CASE \A c \in Calls : ~CallStep(c)
    BY <1>1, <1>2, OtherFrame, Zenon
  <1>3. ASSUME NEW c \in Calls, CallStep(c), c # d
        PROVE  pc'[d] = pc[d] /\ call'[d] = call[d] /\ entry'[d] = entry[d]
    BY <1>3, CallFrame, Zenon DEF Only
  <1>4. CASE Begin(d)
    BY <1>4, <1>V, Zenon DEF Begin
  <1>5. CASE Prepare(d)
    <2>1. CASE PrepareCreate(d)
      <3>0. X(d) \in Executions
        BY <2>1, CallTypes, Zenon DEF PrepareCreate
      <3>1. secrets[X(d)] + 1 \in Secrets
        BY <2>1, <3>0, BoundsAssumption DEF TypeOK, PrepareCreate, Secrets
      <3>2. Record("PREPARED", call[d].gen, secrets[X(d)] + 1, "none") \in Records
        BY <2>1, <3>1, Zenon DEF TypeOK, PrepareCreate, Current, Record, Records, States
      <3> QED
        BY <2>1, <3>2, <1>V, Zenon DEF PrepareCreate, Goto
    <2> QED
      BY <1>5, <2>1, <1>V, Zenon DEF Prepare, PrepareReturns, CreateWrite, CreateSync, CreateSyncDirectory,
                              Goto, Return, PlaceOK
  <1>6. CASE Perform(d)
    <2>1. CASE Terminalize(d)
      BY <2>1, <1>V, AdmitTypes, Zenon DEF Terminalize, Goto, PlaceOK
    <2> QED
      BY <1>6, <2>1, <1>V, Zenon DEF Perform, Submit, EffectFails, ResponseRename, ResponseSync, Goto, Return, PlaceOK
  <1>7. CASE Admit(d)
    BY <1>7, <1>V, AdmitTypes, Zenon
       DEF Admit, StartPermitted, TransitionPermitted, EffectPermitted, Goto
  <1>8. CASE Export(d) \/ AssertOutcome(d) \/ Refuse(d) \/ ReplaceRename(d) \/ FileFails(d)
    BY <1>8, <1>V, Zenon DEF Export, AssertOutcome, Refuse, ReplaceRename, FileFails, Goto, Return, PlaceOK
  <1>9. CASE ReplaceSync(d)
    BY <1>9, <1>V, Zenon DEF ReplaceSync, Goto, Return
  <1> QED
    BY <1>1, <1>2, <1>3, <1>4, <1>5, <1>6, <1>7, <1>8, <1>9, Zenon DEF CallStep

\* Lock, Unlock and the end of a process keep the mutex with the call that is inside.
LEMMA MutexStep == TypeOK /\ MutexOK /\ [Next]_vars => MutexOK'
  <1> SUFFICES ASSUME TypeOK, MutexOK, [Next]_vars
               PROVE  MutexOK'
    BY Zenon
  <1>V. /\ pc \in [Calls -> Locked \cup Unlocked] /\ mu \in [Processes -> Calls \cup {Nobody}]
        /\ \A c \in Calls : P(c) \in Processes /\ c # Nobody
    BY ProcessOfAssumption, Zenon DEF TypeOK, P
  <1> USE DEF Locked, Unlocked
  <1>1. CASE UNCHANGED <<pc, mu>>
    BY <1>1, Zenon DEF MutexOK, P
  <1>2. ASSUME NEW Q, ProcessesGone(Q) PROVE MutexOK'
    BY <1>2, <1>V, Zenon DEF MutexOK, ProcessesGone, P
  <1>3. ASSUME NEW c \in Calls, NEW s \in Locked, Goto(c, s), Lock(c), pc[c] \notin Locked
        PROVE  MutexOK'
    BY <1>3, <1>V DEF MutexOK, Goto, Lock, P
  <1>4. ASSUME NEW c \in Calls, NEW s \in Unlocked, pc' = [pc EXCEPT ![c] = s], Unlock(c), pc[c] \in Locked
        PROVE  MutexOK'
    BY <1>4, <1>V DEF MutexOK, Unlock, P
  <1>5. ASSUME NEW c \in Calls, NEW s \in Locked \cup Unlocked, pc' = [pc EXCEPT ![c] = s], UNCHANGED mu,
               pc[c] \in Locked <=> s \in Locked
        PROVE  MutexOK'
    BY <1>5, <1>V DEF MutexOK, P
  <1>6. ASSUME NEW c \in Calls, CallStep(c)
        PROVE  MutexOK'
    <2>1. CASE PrepareCreate(c) \/ Admit(c) \/ Terminalize(c)
      BY <2>1, <1>3, Zenon DEF PrepareCreate, Admit, Terminalize
    <2>2. CASE CreateSyncDirectory(c) \/ FileFails(c) \/ ReplaceSync(c)
      BY <2>2, <1>4, Zenon DEF CreateSyncDirectory, FileFails, ReplaceSync, Return, Goto
    <2>3. CASE \/ Begin(c) \/ PrepareReturns(c) \/ CreateWrite(c) \/ CreateSync(c) \/ Submit(c) \/ EffectFails(c)
               \/ ResponseRename(c) \/ ResponseSync(c)
      BY <2>3, <1>5, Zenon DEF Begin, PrepareReturns, CreateWrite, CreateSync, Submit, EffectFails, Abandons,
                        ResponseRename, ResponseSync, Return, Goto
    <2>4. CASE Export(c) \/ AssertOutcome(c) \/ Refuse(c) \/ ReplaceRename(c)
      BY <2>4, <1>5, Zenon DEF Export, AssertOutcome, Refuse, ReplaceRename, Return, Goto
    <2> QED
      BY <1>6, <2>1, <2>2, <2>3, <2>4, Zenon DEF CallStep, Prepare, Perform
  <1>7. ASSUME NEW p \in Processes, Gates(p) \/ \E x \in Executions : RecoverRename(p, x)
        PROVE  MutexOK'
    BY <1>7, <1>1, <1>2, Zenon DEF Gates, Open, RecoverSync, Opened, OpenFails, Close, Crash, RecoverRename
  <1>8. CASE Takeover \/ PowerLoss \/ \E x \in Executions : Expire(x)
    BY <1>8, <1>1, <1>2, Zenon DEF Takeover, PowerLoss, Expire
  <1> QED
    BY <1>1, <1>6, <1>7, <1>8, Zenon DEF Next, CallStep, vars

\* Open, Close and the end of a process keep the directory lock with the one Gate that
\* works.
LEMMA GateStep == CarefulClose /\ TypeOK /\ GateOwned /\ [Next]_vars => GateOwned'
  <1> SUFFICES ASSUME CarefulClose, TypeOK, GateOwned, [Next]_vars
               PROVE  GateOwned'
    BY Zenon
  <1>V. /\ gate \in [Processes -> {"none", "recovering", "syncing", "open", "closed"}]
        /\ Nobody \notin Processes /\ \A c \in Calls : P(c) \in Processes
    BY ProcessOfAssumption, Zenon DEF TypeOK, P
  <1>1. ASSUME NEW Q, ProcessesGone(Q) PROVE GateOwned'
    BY <1>1, <1>V DEF GateOwned, ProcessesGone, P
  <1>2. ASSUME NEW p \in Processes, Open(p) PROVE GateOwned'
    BY <1>2, <1>V, Zenon DEF GateOwned, Open, Acquire, P
  <1>3. ASSUME NEW p \in Processes, RecoverSync(p) \/ Opened(p) \/ \E x \in Executions : RecoverRename(p, x)
        PROVE  GateOwned'
    BY <1>3, <1>V DEF GateOwned, RecoverSync, Opened, RecoverRename, P
  <1>4. ASSUME NEW p \in Processes, OpenFails(p) PROVE GateOwned'
    BY <1>4, <1>V, Zenon DEF GateOwned, OpenFails, Release, P
  <1>5. ASSUME NEW p \in Processes, Close(p) PROVE GateOwned'
    BY <1>5, <1>V, Zenon DEF GateOwned, Close, Release, CarefulClose, P
  <1>6. CASE UNCHANGED <<gate, owner, pc>>
    BY <1>6, Zenon DEF GateOwned, P
  <1>7. ASSUME NEW c \in Calls, CallStep(c) PROVE GateOwned'
    <2>1. UNCHANGED <<gate, owner>> /\ \A d \in Calls \ {c} : pc'[d] = pc[d]
      BY <1>7, CallFrame, Zenon DEF Only
    <2>2. pc'[c] # "idle" => gate[P(c)] = "open"
      BY <1>7, CallMoves, Zenon DEF Begin, GateOwned
    <2> QED
      BY <2>1, <2>2, Zenon DEF GateOwned, P
  <1>8. CASE Takeover \/ \E x \in Executions : Expire(x)
    BY <1>8, <1>6, Zenon DEF Takeover, Expire, process
  <1> QED
    BY <1>1, <1>2, <1>3, <1>4, <1>5, <1>6, <1>7, <1>8, Zenon
       DEF Next, CallStep, Gates, Crash, PowerLoss, vars

\* The control of the Gate is as described, in every step.
LEMMA ControlStep == CarefulClose /\ Control /\ [Next]_vars => Control'
  BY TypeStep, CallOKStep, PlaceStep, MutexStep, GateStep, Zenon DEF Control

-----------------------------------------------------------------------------
(* What a step may do to a slot. *)

\* A call inside the mutex is alone there, in the only process that has calls; nobody is
\* inside, and no call is under way, while a process recovers.
LEMMA OneLocked ==
  ASSUME Control, NEW c \in Calls, NEW d \in Calls, pc[c] # "idle", pc[d] # "idle"
  PROVE  /\ P(c) = P(d)
         /\ pc[c] \in Locked /\ pc[d] \in Locked => c = d
         /\ pc[c] \in Locked => ~Lock(d)
         /\ \A p \in Processes : gate[p] \notin {"recovering", "syncing"}
  <1>1. P(c) = P(d)
    BY ProcessOfAssumption, Zenon DEF Control, GateOwned, P
  <1>2. pc[c] \in Locked => mu[P(c)] = c
    BY Zenon DEF Control, MutexOK
  <1>3. pc[d] \in Locked => mu[P(d)] = d
    BY Zenon DEF Control, MutexOK
  <1>4. pc[c] \in Locked => ~Lock(d)
    BY <1>1, <1>2, ProcessOfAssumption, Zenon DEF Lock
  <1>5. \A p \in Processes : gate[p] \notin {"recovering", "syncing"}
    BY ProcessOfAssumption, Zenon DEF Control, GateOwned, P
  <1> QED
    BY <1>1, <1>2, <1>3, <1>4, <1>5, Zenon

\* A call that is not idle after a step made the step, or nothing happened to it.
LEMMA CallKept ==
  ASSUME TypeOK, [Next]_vars, NEW d \in Calls, pc'[d] # "idle"
  PROVE  CallStep(d) \/ (pc'[d] = pc[d] /\ call'[d] = call[d] /\ entry'[d] = entry[d])
  <1>1. ASSUME NEW c \in Calls, CallStep(c), c # d
        PROVE  pc'[d] = pc[d] /\ call'[d] = call[d] /\ entry'[d] = entry[d]
    BY <1>1, CallFrame, Zenon DEF Only
  <1> QED
    BY <1>1, OtherFrame, Zenon

\* The slot is left as it is, or the directory is synced.
SlotKept(x) ==
  /\ slot'[x].seen = slot[x].seen /\ slot'[x].data = slot[x].data
  /\ Survivors(slot'[x]) \subseteq Survivors(slot[x])

\* A record that says nothing of a start or an effect, or no record at all.
Fresh(r) == ~IsRecord(r) \/ (r.kind = "PREPARED" /\ r.effect = "none")

\* createRecord: what is read, and what it writes, is fresh.
SlotCreated(x) ==
  /\ Fresh(Seen(x)) /\ Fresh(slot'[x].seen)
  /\ slot'[x].seen.kind \in {"torn", "PREPARED"}
  /\ \A r \in Survivors(slot'[x]) :
       r \in Readable(slot[x]) \/ r = Torn \/ (r.kind = "PREPARED" /\ r.effect = "none")
  /\ IsRecord(Seen(x)) => slot'[x].seen = Seen(x)
  /\ \E c \in Calls : PrepareCreate(c) \/ CreateWrite(c) \/ CreateSync(c)

\* replaceRecord, by a call.
SlotReplaced(x, c) ==
  /\ ReplaceRename(c) /\ X(c) = x
  /\ slot'[x] = Replaced(slot[x], entry[c])

\* recoverInterruptedStates.
SlotRecovered(x, p) ==
  /\ RecoverRename(p, x)
  /\ \E k \in Ambiguous : slot'[x] = Replaced(slot[x], With(Seen(x), k))

SlotSettled(x) ==
  /\ PowerLoss
  /\ \E r \in Survivors(slot[x]) : slot'[x] = Settled(r)

\* Every step does one of the five to a slot.
LEMMA SlotStep ==
  ASSUME Control, CreateProgress, [Next]_vars, NEW x \in Executions
  PROVE  \/ SlotKept(x) \/ SlotCreated(x) \/ SlotSettled(x)
         \/ \E c \in Calls : SlotReplaced(x, c)
         \/ \E p \in Processes : SlotRecovered(x, p)
  <1>V. slot \in [Executions -> Files(Records)]
    BY Zenon DEF Control, TypeOK
  <1>1. ASSUME UNCHANGED slot PROVE SlotKept(x)
    BY <1>1, Zenon DEF SlotKept
  <1>2. ASSUME DirectorySynced PROVE SlotKept(x)
    BY <1>2, Zenon DEF SlotKept, DirectorySynced, DirSynced, Survivors
  <1>3. ASSUME NEW p \in Processes, Gates(p) PROVE SlotKept(x)
    BY <1>3, <1>1, <1>2, Zenon DEF Gates, Open, RecoverSync, Opened, OpenFails, Close, Crash, files
  <1>4. ASSUME NEW p \in Processes, NEW y \in Executions, RecoverRename(p, y)
        PROVE  SlotKept(x) \/ SlotRecovered(x, p)
    <2>1. PICK k \in Ambiguous : slot' = [slot EXCEPT ![y] = Replaced(@, With(@.seen, k))]
      BY <1>4, Zenon DEF RecoverRename, Ambiguous
    <2>2. CASE x = y
      BY <1>4, <2>1, <2>2, <1>V, Zenon DEF SlotRecovered, Seen
    <2>3. CASE x # y
      BY <2>1, <2>3, <1>V, Zenon DEF SlotKept
    <2> QED
      BY <2>2, <2>3, Zenon
  <1>5. ASSUME PowerLoss PROVE SlotSettled(x)
    BY <1>5, Zenon DEF PowerLoss, SlotSettled
  <1>6. ASSUME Takeover \/ \E y \in Executions : Expire(y) PROVE SlotKept(x)
    BY <1>6, <1>1, Zenon DEF Takeover, Expire, files
  <1>7. ASSUME NEW c \in Calls, ReplaceRename(c)
        PROVE  SlotKept(x) \/ SlotReplaced(x, c)
    <2>1. CASE x = X(c)
      BY <1>7, <2>1, <1>V, Zenon DEF ReplaceRename, SlotReplaced
    <2>2. CASE x # X(c)
      BY <1>7, <2>2, <1>V, Zenon DEF ReplaceRename, SlotKept
    <2> QED
      BY <2>1, <2>2, Zenon
  <1>8. ASSUME NEW c \in Calls, PrepareCreate(c) \/ CreateWrite(c) \/ CreateSync(c)
        PROVE  SlotKept(x) \/ SlotCreated(x)
    <2>1. CASE x # X(c)
      BY <1>8, <2>1, <1>V, Zenon DEF PrepareCreate, CreateWrite, CreateSync, SlotKept
    <2>2. CASE x = X(c) /\ PrepareCreate(c)
      <3>1. slot'[x] = Created(slot[x]) /\ Seen(x) = Absent
        BY <2>2, <1>V, Zenon DEF PrepareCreate
      <3>2. slot'[x].seen = Torn /\ Survivors(slot'[x]) = {Torn} \cup Survivors(slot[x])
        BY <3>1 DEF Created, Survivors
      <3>3. ~IsRecord(Absent) /\ ~IsRecord(Torn) /\ Torn.kind = "torn"
        BY Zenon DEF IsRecord, States, Ambiguous, Terminal, Absent, Torn
      <3> QED
        BY <2>2, <3>1, <3>2, <3>3, Zenon DEF SlotCreated, Fresh, Readable
    <2>3. CASE x = X(c) /\ CreateWrite(c)
      <3>1. slot'[x] = Written(slot[x], entry[c]) /\ Seen(x) = Torn
        BY <2>3, <1>V, Zenon DEF CreateWrite, CreateProgress, CreateAt
      <3>2. entry[c].kind = "PREPARED" /\ entry[c].effect = "none"
        BY <2>3, Zenon DEF CreateWrite, CreateProgress, CreateAt
      <3>3. slot'[x].seen = entry[c] /\ Survivors(slot'[x]) = {entry[c]} \cup Survivors(slot[x])
        BY <3>1 DEF Written, Survivors
      <3>4. ~IsRecord(Torn)
        BY Zenon DEF IsRecord, States, Ambiguous, Terminal, Torn
      <3> QED
        BY <2>3, <3>1, <3>2, <3>3, <3>4, Zenon DEF SlotCreated, Fresh, Readable
    <2>4. CASE x = X(c) /\ CreateSync(c)
      <3>1. slot'[x] = Synced(slot[x]) /\ Seen(x) = entry[c]
        BY <2>4, <1>V, Zenon DEF CreateSync, CreateProgress, CreateAt
      <3>2. entry[c].kind = "PREPARED" /\ entry[c].effect = "none"
        BY <2>4, Zenon DEF CreateSync, CreateProgress, CreateAt
      <3>3. slot'[x].seen = entry[c] /\ Survivors(slot'[x]) \subseteq {entry[c]} \cup Survivors(slot[x])
        BY <3>1 DEF Synced, Survivors, Seen
      <3> QED
        BY <2>4, <3>1, <3>2, <3>3, Zenon DEF SlotCreated, Fresh, Readable
    <2> QED
      BY <1>8, <2>1, <2>2, <2>3, <2>4, Zenon
  <1>9. ASSUME NEW c \in Calls, CallStep(c), ~ReplaceRename(c), ~PrepareCreate(c), ~CreateWrite(c), ~CreateSync(c)
        PROVE  SlotKept(x)
    BY <1>9, <1>1, <1>2, Zenon
       DEF CallStep, Begin, Prepare, PrepareReturns, CreateSyncDirectory,
           Perform, Submit, EffectFails, ResponseRename, ResponseSync, Terminalize,
           Export, AssertOutcome, Admit, Refuse, ReplaceSync, FileFails, files
  <1> QED
    BY <1>1, <1>3, <1>4, <1>5, <1>6, <1>7, <1>8, <1>9, Zenon DEF Next, CallStep, vars

\* What is read in a slot that a call has just replaced.
LEMMA ReplacedMeans ==
  ASSUME NEW x, NEW c \in Calls, SlotReplaced(x, c)
  PROVE  slot'[x].seen = entry[c] /\ pc[c] = "replacing" /\ X(c) = x
  <1>1. slot'[x] = Replaced(slot[x], entry[c]) /\ X(c) = x
    BY Zenon DEF SlotReplaced
  <1>2. pc[c] = "replacing"
    BY Zenon DEF SlotReplaced, ReplaceRename
  <1> QED
    BY <1>1, <1>2 DEF Replaced

\* Nobody touches the slot of a call inside the mutex but the call itself.
LEMMA LockedSlot ==
  ASSUME Control, CreateProgress, [Next]_vars, NEW d \in Calls, pc[d] \in Locked, pc'[d] # "idle", ~CallStep(d)
  PROVE  SlotKept(X(d))
  <1>1. pc[d] # "idle" /\ X(d) \in Executions /\ pc'[d] = pc[d]
    BY CallTypes, CallKept, Zenon DEF Control, Locked
  <1>2. ASSUME NEW c \in Calls, c # d
        PROVE  ~PrepareCreate(c) /\ ~CreateWrite(c) /\ ~CreateSync(c) /\ ~ReplaceRename(c)
    BY <1>1, <1>2, OneLocked, Zenon DEF PrepareCreate, CreateWrite, CreateSync, ReplaceRename, Locked
  <1>3. ~PrepareCreate(d) /\ ~CreateWrite(d) /\ ~CreateSync(d) /\ ~ReplaceRename(d)
    BY Zenon DEF CallStep, Prepare
  <1>4. ~SlotSettled(X(d))
    BY <1>1, ProcessOfAssumption, Zenon DEF SlotSettled, PowerLoss, ProcessesGone, P
  <1>5. \A p \in Processes : ~SlotRecovered(X(d), p)
    BY <1>1, OneLocked, Zenon DEF SlotRecovered, RecoverRename
  <1> QED
    BY <1>1, <1>2, <1>3, <1>4, <1>5, SlotStep, Zenon DEF SlotCreated, SlotReplaced

-----------------------------------------------------------------------------
(* createRecord and replaceRecord. *)

\* The step that brought a call to its place.
LEMMA Arrival ==
  ASSUME TypeOK, NEW d \in Calls, CallStep(d)
  PROVE  /\ pc'[d] = "created" => PrepareCreate(d)
         /\ pc'[d] = "written" => CreateWrite(d)
         /\ pc'[d] = "synced" => CreateSync(d)
         /\ pc'[d] = "replacing" => Admit(d) \/ Terminalize(d)
         /\ pc'[d] = "renamed" => ReplaceRename(d)
         /\ pc'[d] = "brokering" => ReplaceSync(d)
         /\ pc'[d] = "responding" => ResponseRename(d)
         /\ pc'[d] = "terminalizing" => ResponseSync(d)
         /\ pc'[d] = "exported" => Export(d)
         /\ pc'[d] \in {"idle", "waiting"} \/ (call'[d] = call[d] /\ pc[d] # "idle")
  <1>V. pc \in [Calls -> Locked \cup Unlocked]
    BY Zenon DEF TypeOK
  <1>0. pc'[d] \in {"idle", "waiting"} \/ (call'[d] = call[d] /\ pc[d] # "idle")
    BY <1>V, CallMoves, Zenon DEF Begin
  <1> USE DEF Goto, Return
  <1>1. CASE Begin(d)
    BY <1>1, <1>0, <1>V, Zenon DEF Begin
  <1>2. CASE Prepare(d)
    BY <1>2, <1>0, <1>V, Zenon DEF Prepare, PrepareReturns, PrepareCreate, CreateWrite, CreateSync, CreateSyncDirectory
  <1>3. CASE Perform(d)
    BY <1>3, <1>0, <1>V, Zenon DEF Perform, Submit, EffectFails, ResponseRename, ResponseSync, Terminalize
  <1>4. CASE Export(d) \/ AssertOutcome(d) \/ Admit(d) \/ Refuse(d) \/ ReplaceRename(d) \/ FileFails(d)
    BY <1>4, <1>0, <1>V, Zenon DEF Export, AssertOutcome, Admit, Refuse, ReplaceRename, FileFails
  <1>5. CASE ReplaceSync(d)
    BY <1>5, <1>0, <1>V, Zenon DEF ReplaceSync
  <1> QED
    BY <1>1, <1>2, <1>3, <1>4, <1>5, Zenon DEF CallStep

\* Only Start's last step counts a launch.
LEMMA LaunchStep ==
  ASSUME TypeOK, [Next]_vars, NEW x \in Executions
  PROVE  \/ launched'[x] = launched[x]
         \/ \E c \in Calls : /\ ReplaceSync(c) /\ call[c].op = "start" /\ X(c) = x
                             /\ launched'[x] = launched[x] + 1
  <1>V. launched \in [Executions -> Nat]
    BY Zenon DEF TypeOK
  <1>1. ASSUME NEW c \in Calls, CallStep(c), ~ReplaceSync(c) PROVE launched' = launched
    BY <1>1, Zenon DEF CallStep, Begin, Prepare, PrepareReturns, PrepareCreate, CreateWrite, CreateSync,
                CreateSyncDirectory, Perform, Submit, EffectFails, ResponseRename, ResponseSync, Terminalize,
                Export, AssertOutcome, Admit, Refuse, ReplaceRename, FileFails, history
  <1>2. ASSUME NEW c \in Calls, ReplaceSync(c)
        PROVE  \/ launched'[x] = launched[x]
               \/ call[c].op = "start" /\ X(c) = x /\ launched'[x] = launched[x] + 1
    BY <1>2, <1>V, Zenon DEF ReplaceSync
  <1>3. ASSUME NEW p \in Processes, Gates(p) \/ \E y \in Executions : RecoverRename(p, y)
        PROVE  launched' = launched
    BY <1>3, Zenon DEF Gates, Open, RecoverSync, Opened, OpenFails, Close, Crash, ProcessesGone, RecoverRename, history
  <1>4. ASSUME Takeover \/ PowerLoss \/ \E y \in Executions : Expire(y)
        PROVE  launched' = launched
    BY <1>4, Zenon DEF Takeover, PowerLoss, ProcessesGone, Expire, history
  <1> QED
    BY <1>1, <1>2, <1>3, <1>4, Zenon DEF Next, CallStep, vars

\* createRecord goes its way undisturbed.
LEMMA CreateStep == Control /\ CreateProgress /\ [Next]_vars => CreateProgress'
  <1> SUFFICES ASSUME Control, CreateProgress, [Next]_vars, NEW d \in Calls,
                      pc'[d] \in {"created", "written", "synced"}
               PROVE  CreateAt(d)'
    BY Zenon DEF CreateProgress, CreateAt
  <1>1. CASE ~CallStep(d)
    <2>1. pc'[d] = pc[d] /\ call'[d] = call[d] /\ entry'[d] = entry[d]
      BY <1>1, CallKept, Zenon DEF Control
    <2>2. SlotKept(X(d))
      BY <1>1, <2>1, LockedSlot, Zenon DEF Locked
    <2> QED
      BY <2>1, <2>2, Zenon DEF CreateProgress, CreateAt, SlotKept, Seen, X
  <1>2. CASE CallStep(d)
    <2>1. pc[d] # "idle" /\ call'[d] = call[d] /\ X(d) \in Executions
      BY <1>2, Arrival, CallTypes, Zenon DEF Control
    <2>V. slot \in [Executions -> Files(Records)] /\ entry \in [Calls -> Records \cup {Absent}]
      BY Zenon DEF Control, TypeOK
    <2>2. CASE pc'[d] = "created"
      <3>1. PrepareCreate(d)
        BY <1>2, <2>2, Arrival, Zenon DEF Control
      <3> QED
        BY <2>1, <2>2, <3>1, <2>V, Zenon DEF PrepareCreate, CreateAt, Created, Seen, X, Record
    <2>3. CASE pc'[d] = "written"
      <3>1. CreateWrite(d)
        BY <1>2, <2>3, Arrival, Zenon DEF Control
      <3> QED
        BY <2>1, <2>3, <3>1, <2>V, Zenon DEF CreateWrite, CreateProgress, CreateAt, Written, Seen, X
    <2>4. CASE pc'[d] = "synced"
      <3>1. CreateSync(d)
        BY <1>2, <2>4, Arrival, Zenon DEF Control
      <3> QED
        BY <2>1, <2>4, <3>1, <2>V, Zenon DEF CreateSync, CreateProgress, CreateAt, Synced, Seen, X
    <2> QED
      BY <2>2, <2>3, <2>4, Zenon
  <1> QED
    BY <1>1, <1>2, Zenon

\* What follows from a record.
LEMMA FollowsMeans ==
  ASSUME NEW c \in Calls, NEW r, Follows(c, r)
  PROVE  /\ entry[c].secret = r.secret
         /\ call[c].op = "start" => r.kind = "PREPARED" /\ entry[c].kind = "STARTING"
         /\ call[c].op = "markRunning" => r.kind = "STARTING" /\ entry[c].kind = "RUNNING"
         /\ call[c].op = "complete" => r.kind = "RUNNING" /\ entry[c].kind = call[c].to
         /\ call[c].op # "effect" => entry[c].effect = r.effect
         /\ call[c].op = "effect" =>
              /\ entry[c].kind = r.kind
              /\ \/ entry[c].effect = "submitted" /\ r.effect = "none" /\ r.kind = "RUNNING"
                 \/ entry[c].effect = "terminal" /\ r.effect = "submitted"
  <1>1. ASSUME NEW k PROVE With(r, k).kind = k /\ With(r, k).secret = r.secret /\ With(r, k).effect = r.effect
    BY Zenon DEF With, Record
  <1>2. ASSUME NEW e
        PROVE  WithEffect(r, e).kind = r.kind /\ WithEffect(r, e).secret = r.secret /\ WithEffect(r, e).effect = e
    BY Zenon DEF WithEffect, Record
  <1>3. CASE call[c].op \in {"start", "markRunning", "complete"}
    BY <1>1, <1>3 DEF Follows
  <1>4. CASE call[c].op = "effect"
    BY <1>2, <1>4 DEF Follows
  <1> QED
    BY <1>3, <1>4, Zenon DEF Follows

\* replaceRecord puts in place what follows from what is there.
LEMMA ReplaceStep ==
  Control /\ CreateProgress /\ ReplaceProgress /\ LaunchedStarted /\ [Next]_vars => ReplaceProgress'
  <1> SUFFICES ASSUME Control, CreateProgress, ReplaceProgress, LaunchedStarted, [Next]_vars, NEW d \in Calls,
                      pc'[d] \in {"replacing", "renamed"}
               PROVE  ReplaceAt(d)'
    BY Zenon DEF ReplaceProgress, ReplaceAt
  <1>V. slot \in [Executions -> Files(Records)] /\ entry \in [Calls -> Records \cup {Absent}]
    BY Zenon DEF Control, TypeOK
  <1>1. CASE ~CallStep(d)
    <2>1. pc'[d] = pc[d] /\ call'[d] = call[d] /\ entry'[d] = entry[d]
      BY <1>1, CallKept, Zenon DEF Control
    <2>2. SlotKept(X(d))
      BY <1>1, <2>1, LockedSlot, Zenon DEF Locked
    <2>3. X(d) \in Executions
      BY <2>1, CallTypes, Zenon DEF Control
    <2>4. launched'[X(d)] = launched[X(d)]
      <3>1. ASSUME NEW c \in Calls, ReplaceSync(c) PROVE FALSE
        <4>1. c # d
          BY <1>1, <3>1, Zenon DEF CallStep
        <4> QED
          BY <2>1, <3>1, <4>1, OneLocked, Zenon DEF ReplaceSync, Locked
      <3> QED
        BY <2>3, <3>1, LaunchStep, Zenon DEF Control
    <2>5. /\ X(d)' = X(d) /\ Seen(X(d))' = Seen(X(d)) /\ (slot[X(d)].data)' = slot[X(d)].data
          /\ launched[X(d)]' = launched[X(d)]
      BY <2>1, <2>2, <2>4, Zenon DEF SlotKept, Seen, X
    <2>6. ReplaceAt(d)
      BY Zenon DEF ReplaceProgress
    <2> QED
      BY <2>1, <2>5, <2>6, Zenon DEF ReplaceAt, Follows
  <1>2. CASE CallStep(d)
    <2>1. pc[d] # "idle" /\ call'[d] = call[d] /\ X(d) \in Executions
      BY <1>2, Arrival, CallTypes, Zenon DEF Control
    <2>2. CASE Admit(d)
      <3>1. /\ slot' = slot /\ entry'[d] = Entry(d) /\ pc'[d] = "replacing"
        BY <2>2, <1>V, Zenon DEF Admit, files, Goto, Control, TypeOK
      <3>2. IsRecord(Seen(X(d))) /\ Seen(X(d)).secret = call[d].secret
        BY <2>2, Zenon DEF Admit, StartPermitted, TransitionPermitted, EffectPermitted, Matches
      <3>3. Follows(d, Seen(X(d)))'
        BY <2>1, <2>2, <3>1, Zenon DEF Admit, StartPermitted, TransitionPermitted, EffectPermitted, Entry, Follows, Seen, X
      <3> QED
        BY <2>1, <3>1, <3>2, <3>3, Zenon DEF ReplaceAt, Seen, X
    <2>3. CASE Terminalize(d)
      <3>1. /\ slot' = slot /\ entry'[d] = WithEffect(Seen(X(d)), "terminal") /\ pc'[d] = "replacing"
        BY <2>3, <1>V, Zenon DEF Terminalize, files, Goto, Control, TypeOK
      <3>2. IsRecord(Seen(X(d))) /\ Seen(X(d)).effect = "submitted" /\ call[d].op = "effect"
        BY <2>3, Zenon DEF Terminalize, Submitted, Control, PlaceOK
      <3> QED
        BY <2>1, <3>1, <3>2, Zenon DEF ReplaceAt, Follows, Seen, X
    <2>4. CASE ReplaceRename(d)
      <3>1. /\ slot'[X(d)] = Replaced(slot[X(d)], entry[d]) /\ entry' = entry /\ launched' = launched
            /\ pc'[d] = "renamed" /\ pc[d] = "replacing"
        BY <2>1, <2>4, <1>V, Zenon DEF ReplaceRename, Goto, Control, TypeOK, history
      <3>2. call[d].op = "start" => Seen(X(d)).kind = "PREPARED" /\ entry[d].kind = "STARTING"
        BY <3>1, FollowsMeans, Zenon DEF ReplaceProgress, ReplaceAt
      <3>3. call[d].op = "complete" => entry[d].kind = call[d].to
        BY <3>1, FollowsMeans, Zenon DEF ReplaceProgress, ReplaceAt
      <3>4. call[d].op = "start" => launched[X(d)] = 0
        <4>1. launched[X(d)] \in Nat
          BY <2>1, Zenon DEF Control, TypeOK
        <4>2. launched[X(d)] > 0 => Seen(X(d)).kind # "PREPARED"
          BY <2>1, Zenon DEF LaunchedStarted, Readable, Seen
        <4> QED
          BY <3>2, <4>1, <4>2
      <3>5. X(d)' = X(d) /\ Seen(X(d))' = entry[d] /\ (slot[X(d)].data)' = {entry[d]}
        BY <2>1, <3>1 DEF Replaced, Seen, X
      <3> QED
        BY <2>1, <3>1, <3>2, <3>3, <3>4, <3>5, Zenon DEF ReplaceAt
    <2> QED
      BY <1>2, <2>2, <2>3, <2>4, Arrival, Zenon DEF Control
  <1> QED
    BY <1>1, <1>2, Zenon
-----------------------------------------------------------------------------
(* The inductive invariant, on top of the control. *)

\* Every record that may be read shows the effect as submitted.
EffectShown(x) == \A r \in Readable(slot[x]) : IsRecord(r) /\ r.effect # "none"

\* Call c is on its way to the network.
Submitting(c) ==
  \/ pc[c] = "brokering"
  \/ /\ pc[c] \in {"replacing", "renamed"}
     /\ call[c].op = "effect" /\ entry[c].effect = "submitted"

EffectOnce ==
  /\ \A x \in Executions : sockets[x] > 0 => EffectShown(x)
  /\ \A c \in Calls : Submitting(c) =>
       /\ sockets[X(c)] = 0
       /\ pc[c] = "brokering" => EffectShown(X(c))
       /\ \A d \in Calls : Submitting(d) /\ X(d) = X(c) => d = c

\* Responses are synced before the record that needs them is written.
Answerable(x) == Readable(response[x]) = {Body}
ResponseAt(c) ==
  /\ pc[c] = "responding" => response[X(c)].seen = Body /\ response[X(c)].data = {Body}
  /\ pc[c] = "terminalizing" => Answerable(X(c))
  /\ pc[c] \in {"replacing", "renamed"} /\ entry[c].effect = "terminal" => Answerable(X(c))
ResponseProgress == \A c \in Calls : ResponseAt(c)

\* An end that a power loss may bring up is the one that is read.
EndSeen ==
  \A x \in Executions : \A r \in Survivors(slot[x]) : r.kind \in Terminal => Seen(x).kind = r.kind

\* The record of an export in progress has not gone back.
ExportFollows ==
  \A c \in Calls : pc[c] = "exported" =>
    /\ IsRecord(Seen(X(c))) /\ entry[c] \in Records
    /\ Stage(entry[c].kind) <= Stage(Seen(X(c)).kind)
    /\ Stage(entry[c].kind) = 3 => Seen(X(c)).kind = entry[c].kind

GateInv ==
  /\ Control
  /\ CreateProgress /\ ReplaceProgress
  /\ LaunchedStarted /\ OneLaunch
  /\ EffectOnce /\ OneEffect
  /\ ResponseProgress /\ TerminalBacked
  /\ CompletionKept /\ EndSeen /\ RunningHeld /\ ExportFollows

-----------------------------------------------------------------------------
(* One launch. *)

\* What a step leaves to be read in a slot: what was there, what was put there.
LEMMA ReadableStep ==
  ASSUME NEW x
  PROVE  /\ SlotKept(x) => Readable(slot'[x]) \subseteq Readable(slot[x])
         /\ SlotSettled(x) => Readable(slot'[x]) \subseteq Readable(slot[x])
         /\ SlotCreated(x) => \A r \in Readable(slot'[x]) : r \in Readable(slot[x]) \/ Fresh(r)
         /\ \A c \in Calls : SlotReplaced(x, c) => Readable(slot'[x]) \subseteq Readable(slot[x]) \cup {entry[c]}
         /\ \A p \in Processes : SlotRecovered(x, p) =>
              \E k \in Ambiguous : Readable(slot'[x]) \subseteq Readable(slot[x]) \cup {With(Seen(x), k)}
  <1>1. SlotKept(x) => Readable(slot'[x]) \subseteq Readable(slot[x])
    BY Zenon DEF SlotKept, Readable
  <1>2. SlotSettled(x) => Readable(slot'[x]) \subseteq Readable(slot[x])
    BY DEF SlotSettled, Settled, Readable, Survivors
  <1>3. ~IsRecord(Torn)
    BY Zenon DEF IsRecord, States, Ambiguous, Terminal, Torn
  <1>4. SlotCreated(x) => \A r \in Readable(slot'[x]) : r \in Readable(slot[x]) \/ Fresh(r)
    BY <1>3, Zenon DEF SlotCreated, Readable, Fresh
  <1>5. \A c \in Calls : SlotReplaced(x, c) => Readable(slot'[x]) \subseteq Readable(slot[x]) \cup {entry[c]}
    BY DEF SlotReplaced, Replaced, Readable, Survivors
  <1>6. \A p \in Processes : SlotRecovered(x, p) =>
          \E k \in Ambiguous : Readable(slot'[x]) \subseteq Readable(slot[x]) \cup {With(Seen(x), k)}
    BY DEF SlotRecovered, Replaced, Readable, Survivors
  <1> QED
    BY <1>1, <1>2, <1>4, <1>5, <1>6, Zenon

\* A launched execution reads as started for ever.
LEMMA StartedStep ==
  Control /\ CreateProgress /\ ReplaceProgress /\ LaunchedStarted /\ [Next]_vars => LaunchedStarted'
  <1> SUFFICES ASSUME Control, CreateProgress, ReplaceProgress, LaunchedStarted, [Next]_vars,
                      NEW x \in Executions, launched'[x] > 0, NEW r \in Readable(slot'[x])
               PROVE  IsRecord(r) /\ r.kind # "PREPARED"
    BY Zenon DEF LaunchedStarted
  <1>1. CASE launched'[x] = launched[x]
    <2>1. \A q \in Readable(slot[x]) : IsRecord(q) /\ q.kind # "PREPARED"
      BY <1>1, Zenon DEF LaunchedStarted
    <2>2. IsRecord(Seen(x)) /\ Seen(x).kind # "PREPARED"
      BY <2>1, Zenon DEF Seen, Readable
    <2>3. CASE SlotKept(x) \/ SlotSettled(x)
      BY <2>1, <2>3, ReadableStep, Zenon
    <2>4. CASE SlotCreated(x)
      BY <2>2, <2>4, Zenon DEF SlotCreated, Fresh
    <2>5. ASSUME NEW c \in Calls, SlotReplaced(x, c) PROVE IsRecord(r) /\ r.kind # "PREPARED"
      <3>1. pc[c] = "replacing" /\ X(c) = x
        BY <2>5, ReplacedMeans, Zenon
      <3>2. Follows(c, Seen(x)) /\ entry[c] \in Records
        BY <3>1, Zenon DEF ReplaceProgress, ReplaceAt, Control, PlaceOK, Locked
      <3>3. entry[c].kind # "PREPARED" /\ IsRecord(entry[c])
        BY <2>2, <3>1, <3>2, FollowsMeans, ZenonT(60) DEF Control, PlaceOK, CallOK, Terminal, Records, IsRecord
      <3> QED
        BY <2>1, <2>5, <3>3, ReadableStep, Zenon
    <2>6. ASSUME NEW p \in Processes, SlotRecovered(x, p) PROVE IsRecord(r) /\ r.kind # "PREPARED"
      <3>1. PICK k \in Ambiguous : Readable(slot'[x]) \subseteq Readable(slot[x]) \cup {With(Seen(x), k)}
        BY <2>6, ReadableStep, Zenon
      <3>2. With(Seen(x), k).kind = k
        BY Zenon DEF With, Record
      <3> QED
        BY <2>1, <3>1, <3>2, Zenon DEF Ambiguous, IsRecord, States
    <2> QED
      BY <2>3, <2>4, <2>5, <2>6, SlotStep, Zenon
  <1>2. ASSUME NEW c \in Calls, ReplaceSync(c), call[c].op = "start", X(c) = x
        PROVE  IsRecord(r) /\ r.kind # "PREPARED"
    <2>1. slot'[x] = DirSynced(slot[x])
      BY <1>2, Zenon DEF ReplaceSync, DirectorySynced
    <2>2. slot[x].seen = entry[c] /\ slot[x].data = {entry[c]} /\ entry[c].kind = "STARTING"
      BY <1>2, Zenon DEF ReplaceSync, ReplaceProgress, ReplaceAt, Seen
    <2> QED
      BY <2>1, <2>2 DEF Readable, Survivors, DirSynced, IsRecord, States
  <1> QED
    BY <1>1, <1>2, LaunchStep, Zenon DEF Control

\* Start counts a launch only when there was none.
LEMMA OneLaunchStep ==
  Control /\ ReplaceProgress /\ OneLaunch /\ [Next]_vars => OneLaunch'
  <1> SUFFICES ASSUME Control, ReplaceProgress, OneLaunch, [Next]_vars, NEW x \in Executions
               PROVE  launched'[x] <= 1
    BY Zenon DEF OneLaunch
  <1>1. ASSUME NEW c \in Calls, ReplaceSync(c), call[c].op = "start", X(c) = x
        PROVE  launched[x] = 0
    BY <1>1, Zenon DEF ReplaceSync, ReplaceProgress, ReplaceAt
  <1> QED
    BY <1>1, LaunchStep DEF Control, OneLaunch

-----------------------------------------------------------------------------
(* One effect. *)

\* Only Submit counts a submission.
LEMMA SocketStep ==
  ASSUME TypeOK, [Next]_vars, NEW x \in Executions
  PROVE  \/ sockets'[x] = sockets[x]
         \/ \E c \in Calls : Submit(c) /\ X(c) = x /\ sockets'[x] = sockets[x] + 1
  <1>V. sockets \in [Executions -> Nat]
    BY Zenon DEF TypeOK
  <1>1. ASSUME NEW c \in Calls, CallStep(c), ~Submit(c) PROVE sockets' = sockets
    BY <1>1, Zenon DEF CallStep, Begin, Prepare, PrepareReturns, PrepareCreate, CreateWrite, CreateSync,
                CreateSyncDirectory, Perform, EffectFails, ResponseRename, ResponseSync, Terminalize,
                Export, AssertOutcome, Admit, Refuse, ReplaceRename, ReplaceSync, FileFails, history
  <1>2. ASSUME NEW c \in Calls, Submit(c)
        PROVE  sockets'[x] = sockets[x] \/ (X(c) = x /\ sockets'[x] = sockets[x] + 1)
    BY <1>2, <1>V, Zenon DEF Submit
  <1>3. ASSUME NEW p \in Processes, Gates(p) \/ \E y \in Executions : RecoverRename(p, y)
        PROVE  sockets' = sockets
    BY <1>3, Zenon DEF Gates, Open, RecoverSync, Opened, OpenFails, Close, Crash, ProcessesGone, RecoverRename, history
  <1>4. ASSUME Takeover \/ PowerLoss \/ \E y \in Executions : Expire(y)
        PROVE  sockets' = sockets
    BY <1>4, Zenon DEF Takeover, PowerLoss, ProcessesGone, Expire, history
  <1> QED
    BY <1>1, <1>2, <1>3, <1>4, Zenon DEF Next, CallStep, vars

\* A submitted effect reads as submitted for ever.
LEMMA ShownKept ==
  ASSUME Control, CreateProgress, ReplaceProgress, [Next]_vars, NEW x \in Executions, EffectShown(x)
  PROVE  EffectShown(x)'
  <1> SUFFICES ASSUME NEW r \in Readable(slot'[x])
               PROVE  IsRecord(r) /\ r.effect # "none"
    BY Zenon DEF EffectShown
  <1>1. \A q \in Readable(slot[x]) : IsRecord(q) /\ q.effect # "none"
    BY Zenon DEF EffectShown
  <1>2. IsRecord(Seen(x)) /\ Seen(x).effect # "none"
    BY <1>1, Zenon DEF Seen, Readable
  <1>3. CASE SlotKept(x) \/ SlotSettled(x)
    BY <1>1, <1>3, ReadableStep, Zenon
  <1>4. CASE SlotCreated(x)
    BY <1>2, <1>4, Zenon DEF SlotCreated, Fresh
  <1>5. ASSUME NEW c \in Calls, SlotReplaced(x, c) PROVE IsRecord(r) /\ r.effect # "none"
    <2>1. pc[c] = "replacing" /\ X(c) = x
      BY <1>5, ReplacedMeans, Zenon
    <2>2. Follows(c, Seen(x)) /\ entry[c] \in Records
      BY <2>1, Zenon DEF ReplaceProgress, ReplaceAt, Control, PlaceOK, Locked
    <2>3. entry[c].effect # "none" /\ IsRecord(entry[c])
      BY <1>2, <2>1, <2>2, FollowsMeans DEF Control, PlaceOK, Records, IsRecord
    <2> QED
      BY <1>1, <1>5, <2>3, ReadableStep, Zenon
  <1>6. ASSUME NEW p \in Processes, SlotRecovered(x, p) PROVE IsRecord(r) /\ r.effect # "none"
    <2>1. PICK k \in Ambiguous : Readable(slot'[x]) \subseteq Readable(slot[x]) \cup {With(Seen(x), k)}
      BY <1>6, ReadableStep, Zenon
    <2>2. With(Seen(x), k).kind = k /\ With(Seen(x), k).effect = Seen(x).effect
      BY Zenon DEF With, Record
    <2> QED
      BY <1>1, <1>2, <2>1, <2>2, Zenon DEF IsRecord, States
  <1> QED
    BY <1>3, <1>4, <1>5, <1>6, SlotStep, Zenon

\* How a call comes to be on its way to the network.
LEMMA SubmittingFrom ==
  ASSUME Control, ReplaceProgress, [Next]_vars, NEW d \in Calls, Submitting(d)'
  PROVE  /\ call'[d] = call[d] /\ X(d) \in Executions
         /\ ~Submit(d)
         /\ Submitting(d) \/ (Admit(d) /\ Seen(X(d)).effect = "none")
         /\ pc'[d] = "brokering" => (pc[d] = "brokering" /\ pc'[d] = pc[d]) \/ ReplaceSync(d)
  <1>V. entry \in [Calls -> Records \cup {Absent}] /\ pc \in [Calls -> Locked \cup Unlocked]
    BY Zenon DEF Control, TypeOK
  <1>0. pc'[d] \in {"replacing", "renamed", "brokering"}
    BY Zenon DEF Submitting
  <1>1. CASE ~CallStep(d)
    <2>1. pc'[d] = pc[d] /\ call'[d] = call[d] /\ entry'[d] = entry[d]
      BY <1>0, <1>1, CallKept, Zenon DEF Control
    <2> QED
      BY <1>0, <1>1, <2>1, CallTypes, Zenon DEF Submitting, Control, CallStep, Perform
  <1>2. CASE CallStep(d)
    <2>1. pc[d] # "idle" /\ call'[d] = call[d] /\ X(d) \in Executions
      BY <1>0, <1>2, Arrival, CallTypes, Zenon DEF Control
    <2>2. ~Submit(d)
      BY <1>0, <1>V, Zenon DEF Submit, Goto
    <2>3. CASE Admit(d)
      <3>1. entry'[d] = Entry(d) /\ pc'[d] = "replacing"
        BY <2>3, <1>V, Zenon DEF Admit, Goto
      <3>2. call[d].op = "effect"
        BY <2>1, <3>1, Zenon DEF Submitting
      <3> QED
        BY <2>1, <2>2, <2>3, <3>1, <3>2, Zenon DEF Admit, StartPermitted, TransitionPermitted, EffectPermitted
    <2>4. CASE Terminalize(d)
      <3>1. entry'[d] = WithEffect(Seen(X(d)), "terminal") /\ pc'[d] = "replacing"
        BY <2>4, <1>V, Zenon DEF Terminalize, Goto
      <3> QED
        BY <3>1 DEF Submitting, WithEffect, Record
    <2>5. CASE ReplaceRename(d)
      <3>1. entry' = entry /\ pc'[d] = "renamed" /\ pc[d] = "replacing"
        BY <2>5, <1>V, Zenon DEF ReplaceRename, Goto
      <3> QED
        BY <2>1, <2>2, <3>1, Zenon DEF Submitting
    <2>6. CASE ReplaceSync(d)
      <3>1. pc[d] = "renamed" /\ call[d].op = "effect" /\ entry[d].effect = "submitted"
        BY <1>0, <2>6, <1>V, Zenon DEF ReplaceSync, Return
      <3> QED
        BY <1>0, <2>1, <2>2, <2>6, <3>1, Zenon DEF Submitting
    <2> QED
      BY <1>0, <1>2, <2>3, <2>4, <2>5, <2>6, Arrival, Zenon DEF Control
  <1> QED
    BY <1>1, <1>2, Zenon

\* The effect goes out at most once, and only one call is about to send it.
LEMMA EffectStep ==
  Control /\ CreateProgress /\ ReplaceProgress /\ EffectOnce /\ [Next]_vars => EffectOnce'
  <1> SUFFICES ASSUME Control, CreateProgress, ReplaceProgress, EffectOnce, [Next]_vars
               PROVE  EffectOnce'
    BY Zenon
  <1>V. sockets \in [Executions -> Nat]
    BY Zenon DEF Control, TypeOK
  <1>1. ASSUME NEW x \in Executions, sockets'[x] > 0 PROVE EffectShown(x)'
    <2>1. CASE sockets'[x] = sockets[x]
      BY <1>1, <2>1, ShownKept, Zenon DEF EffectOnce
    <2>2. ASSUME NEW c \in Calls, Submit(c), X(c) = x PROVE EffectShown(x)
      BY <2>2, Zenon DEF Submit, EffectOnce, Submitting
    <2> QED
      BY <2>1, <2>2, SocketStep, ShownKept, Zenon DEF Control
  <1>2. ASSUME NEW d \in Calls, Submitting(d)'
        PROVE  /\ sockets'[X(d)] = 0
               /\ pc'[d] = "brokering" => EffectShown(X(d))'
               /\ call'[d] = call[d]
    <2>1. /\ call'[d] = call[d] /\ X(d) \in Executions /\ ~Submit(d)
          /\ Submitting(d) \/ (Admit(d) /\ Seen(X(d)).effect = "none")
          /\ pc'[d] = "brokering" => (pc[d] = "brokering" /\ pc'[d] = pc[d]) \/ ReplaceSync(d)
      BY <1>2, SubmittingFrom, Zenon
    <2>2. sockets[X(d)] = 0
      BY <2>1, <1>V DEF EffectOnce, EffectShown, Readable, Seen
    <2>3. ASSUME NEW c \in Calls, Submit(c), X(c) = X(d) PROVE FALSE
      <3>1. Submitting(c) /\ c # d /\ EffectShown(X(d))
        BY <2>1, <2>3, Zenon DEF Submit, Submitting, EffectOnce
      <3>2. Submitting(d)
        BY <2>1, <3>1, Zenon DEF EffectShown, Readable, Seen
      <3> QED
        BY <2>3, <3>1, <3>2, Zenon DEF EffectOnce
    <2>4. sockets'[X(d)] = 0
      BY <2>1, <2>2, <2>3, SocketStep, Zenon DEF Control
    <2>5. CASE pc[d] = "brokering"
      BY <2>1, <2>4, <2>5, ShownKept, Zenon DEF EffectOnce, Submitting, X, EffectShown
    <2>6. CASE ReplaceSync(d) /\ pc'[d] = "brokering"
      <3>1. slot'[X(d)] = DirSynced(slot[X(d)])
        BY <2>1, <2>6, Zenon DEF ReplaceSync, DirectorySynced
      <3>2. slot[X(d)].seen = entry[d] /\ slot[X(d)].data = {entry[d]} /\ entry[d] \in Records
        BY <2>6, Zenon DEF ReplaceSync, ReplaceProgress, ReplaceAt, Seen, Control, PlaceOK, Locked
      <3>3. entry[d].effect = "submitted"
        BY <2>6, <2>1, Zenon DEF Submitting, ReplaceSync, Admit
      <3>4. Readable(slot'[X(d)]) = {entry[d]}
        BY <3>1, <3>2 DEF Readable, Survivors, DirSynced
      <3> QED
        BY <2>1, <2>4, <3>2, <3>3, <3>4, Zenon DEF EffectShown, Records, IsRecord, X
    <2> QED
      BY <2>1, <2>4, <2>5, <2>6, Zenon
  <1>3. ASSUME NEW d \in Calls, NEW c \in Calls, Submitting(d)', Submitting(c)', X(c) = X(d), c # d
        PROVE  FALSE
    <2>1. ASSUME NEW a \in Calls, NEW b \in Calls, a # b, X(a) = X(b), Admit(a), Seen(X(a)).effect = "none", Submitting(b)
          PROVE  FALSE
      <3>1. pc[b] = "brokering" => EffectShown(X(b))
        BY <2>1, Zenon DEF EffectOnce
      <3>2. pc[b] # "brokering"
        BY <2>1, <3>1, Zenon DEF EffectShown, Readable, Seen
      <3>3. pc[b] \in Locked /\ pc[a] # "idle"
        BY <2>1, <3>2, Zenon DEF Submitting, Locked, Admit
      <3> QED
        BY <2>1, <3>3, OneLocked, Zenon DEF Admit, Locked
    <2>2. ASSUME Admit(c), Admit(d) PROVE FALSE
      <3>1. pc'[c] = "replacing" /\ pc[c] = "waiting"
        BY <2>2, Zenon DEF Admit, Goto, Control, TypeOK
      <3>2. pc'[c] = pc[c]
        BY <1>3, <2>2, CallFrame, Zenon DEF Control, CallStep, Only
      <3> QED
        BY <3>1, <3>2, Zenon
    <2> QED
      BY <1>3, <2>1, <2>2, SubmittingFrom, Zenon DEF EffectOnce
  <1>4. \A d \in Calls, c \in Calls : Submitting(d)' /\ Submitting(c)' /\ X(c)' = X(d)' => c = d
    BY <1>2, <1>3, Zenon DEF X
  <1> QED
    BY <1>1, <1>2, <1>4, Zenon DEF EffectOnce, X

\* A call that sends the effect is the first to do so.
LEMMA OneEffectStep == Control /\ EffectOnce /\ OneEffect /\ [Next]_vars => OneEffect'
  <1> SUFFICES ASSUME Control, EffectOnce, OneEffect, [Next]_vars, NEW x \in Executions
               PROVE  sockets'[x] <= 1
    BY Zenon DEF OneEffect
  <1>1. ASSUME NEW c \in Calls, Submit(c), X(c) = x PROVE sockets[x] = 0
    BY <1>1, Zenon DEF Submit, EffectOnce, Submitting
  <1> QED
    BY <1>1, SocketStep DEF Control, OneEffect

-----------------------------------------------------------------------------
(* The response before the record. *)

\* What a step may do to a response file.
LEMMA ResponseFile ==
  ASSUME TypeOK, CallOK, [Next]_vars, NEW x \in Executions
  PROVE  \/ response'[x] \in {response[x], DirSynced(response[x]), Replaced(response[x], Body)}
         \/ PowerLoss /\ \E r \in Survivors(response[x]) : response'[x] = Settled(r)
  <1>V. response \in [Executions -> Files({Body})]
    BY Zenon DEF TypeOK
  <1>1. ASSUME DirectorySynced PROVE response'[x] = DirSynced(response[x])
    BY <1>1, Zenon DEF DirectorySynced
  <1>2. ASSUME NEW c \in Calls, CallStep(c), ~ResponseRename(c)
        PROVE  response' = response \/ DirectorySynced
    BY <1>2, Zenon DEF CallStep, Begin, Prepare, PrepareReturns, PrepareCreate, CreateWrite, CreateSync,
                CreateSyncDirectory, Perform, Submit, EffectFails, ResponseSync, Terminalize,
                Export, AssertOutcome, Admit, Refuse, ReplaceRename, ReplaceSync, FileFails, files
  <1>3. ASSUME NEW c \in Calls, ResponseRename(c)
        PROVE  response'[x] \in {response[x], Replaced(response[x], Body)}
    BY <1>3, <1>V, Zenon DEF ResponseRename
  <1>4. ASSUME NEW p \in Processes, Gates(p) \/ \E y \in Executions : RecoverRename(p, y)
        PROVE  response' = response \/ DirectorySynced
    BY <1>4, Zenon DEF Gates, Open, RecoverSync, Opened, OpenFails, Close, Crash, RecoverRename, files
  <1>5. ASSUME Takeover \/ \E y \in Executions : Expire(y)
        PROVE  response' = response
    BY <1>5, Zenon DEF Takeover, Expire, files
  <1>6. ASSUME PowerLoss
        PROVE  \E r \in Survivors(response[x]) : response'[x] = Settled(r)
    BY <1>6, Zenon DEF PowerLoss
  <1> QED
    BY <1>1, <1>2, <1>3, <1>4, <1>5, <1>6, Zenon DEF Next, CallStep, vars

\* A response that is durable stays.
LEMMA AnswerableKept ==
  ASSUME TypeOK, CallOK, [Next]_vars, NEW x \in Executions, Answerable(x)
  PROVE  Answerable(x)'
  <1>1. response[x].seen = Body /\ Survivors(response[x]) \subseteq {Body}
    BY Zenon DEF Answerable, Readable
  <1>2. CASE response'[x] \in {response[x], DirSynced(response[x]), Replaced(response[x], Body)}
    BY <1>1, <1>2 DEF Answerable, Readable, Survivors, DirSynced, Replaced
  <1>3. CASE \E r \in Survivors(response[x]) : response'[x] = Settled(r)
    BY <1>1, <1>3 DEF Answerable, Readable, Survivors, Settled
  <1> QED
    BY <1>2, <1>3, ResponseFile, Zenon

\* The response of an effect is durable before the record that cites it is written.
LEMMA ResponseStep ==
  Control /\ ResponseProgress /\ TerminalBacked /\ [Next]_vars => ResponseProgress'
  <1> SUFFICES ASSUME Control, ResponseProgress, TerminalBacked, [Next]_vars, NEW d \in Calls,
                      pc'[d] \in {"responding", "terminalizing", "replacing", "renamed"}
               PROVE  ResponseAt(d)'
    BY Zenon DEF ResponseProgress, ResponseAt
  <1>V. /\ response \in [Executions -> Files({Body})] /\ entry \in [Calls -> Records \cup {Absent}]
        /\ pc \in [Calls -> Locked \cup Unlocked] /\ TypeOK /\ CallOK
    BY Zenon DEF Control, TypeOK
  <1>0. pc[d] # "idle" /\ call'[d] = call[d] /\ X(d) \in Executions
    BY <1>V, Arrival, CallKept, CallTypes, Zenon
  <1>A. Answerable(X(d)) => Answerable(X(d))'
    BY <1>0, <1>V, AnswerableKept, Zenon DEF Answerable, X
  <1>1. CASE ~CallStep(d)
    <2>1. pc'[d] = pc[d] /\ entry'[d] = entry[d]
      BY <1>1, <1>V, CallKept, Zenon
    <2>2. ~PowerLoss
      BY <2>1, <1>0, ProcessOfAssumption, Zenon DEF PowerLoss, ProcessesGone, P
    <2>3. ASSUME pc[d] = "responding"
          PROVE  response'[X(d)].seen = Body /\ response'[X(d)].data = {Body}
      BY <2>2, <2>3, <1>0, <1>V, ResponseFile DEF ResponseProgress, ResponseAt, DirSynced, Replaced
    <2> QED
      BY <1>0, <1>A, <2>1, <2>3, Zenon DEF ResponseProgress, ResponseAt, X
  <1>2. CASE ResponseRename(d)
    <2>1. response'[X(d)] = Replaced(response[X(d)], Body) /\ pc'[d] = "responding"
      BY <1>0, <1>2, <1>V, Zenon DEF ResponseRename, Goto
    <2> QED
      BY <1>0, <2>1 DEF ResponseAt, Replaced, X
  <1>3. CASE ResponseSync(d)
    <2>1. response'[X(d)] = DirSynced(response[X(d)]) /\ pc'[d] = "terminalizing"
      BY <1>0, <1>3, <1>V, Zenon DEF ResponseSync, Goto, DirectorySynced
    <2>2. response[X(d)].seen = Body /\ response[X(d)].data = {Body}
      BY <1>3, Zenon DEF ResponseSync, ResponseProgress, ResponseAt
    <2> QED
      BY <1>0, <2>1, <2>2 DEF ResponseAt, Answerable, Readable, Survivors, DirSynced, X
  <1>4. CASE Admit(d)
    <2>1. entry'[d] = Entry(d) /\ pc'[d] = "replacing"
      BY <1>4, <1>V, Zenon DEF Admit, Goto
    <2>2. IsRecord(Seen(X(d))) /\ call[d].op \in {"start", "markRunning", "complete", "effect"}
      BY <1>4, Zenon DEF Admit, StartPermitted, TransitionPermitted, EffectPermitted, Matches
    <2>3. Entry(d).effect = "terminal" => Seen(X(d)).effect = "terminal"
      BY <2>2, Zenon DEF Entry, With, WithEffect, Record
    <2>4. Entry(d).effect = "terminal" => Answerable(X(d))
      BY <1>0, <2>2, <2>3, Zenon DEF TerminalBacked, Answerable, Readable, Seen
    <2> QED
      BY <1>A, <2>1, <2>4, Zenon DEF ResponseAt
  <1>5. CASE Terminalize(d)
    <2>1. Answerable(X(d)) /\ pc'[d] = "replacing"
      BY <1>5, <1>V, Zenon DEF Terminalize, Goto, ResponseProgress, ResponseAt
    <2> QED
      BY <1>A, <2>1, Zenon DEF ResponseAt
  <1>6. CASE ReplaceRename(d)
    <2>1. pc[d] = "replacing" /\ pc'[d] = "renamed" /\ entry' = entry
      BY <1>6, <1>V, Zenon DEF ReplaceRename, Goto
    <2> QED
      BY <1>A, <2>1, Zenon DEF ResponseProgress, ResponseAt
  <1> QED
    BY <1>1, <1>2, <1>3, <1>4, <1>5, <1>6, <1>V, Arrival, Zenon

\* A record that shows the effect as terminal is put in place only over a durable
\* response.
LEMMA TerminalStep ==
  Control /\ CreateProgress /\ ReplaceProgress /\ ResponseProgress /\ TerminalBacked /\ [Next]_vars
    => TerminalBacked'
  <1> SUFFICES ASSUME Control, CreateProgress, ReplaceProgress, ResponseProgress, TerminalBacked, [Next]_vars,
                      NEW x \in Executions, NEW r \in Readable(slot'[x]), IsRecord(r), r.effect = "terminal"
               PROVE  Answerable(x)'
    BY Zenon DEF TerminalBacked, Answerable
  <1> SUFFICES Answerable(x)
    BY AnswerableKept, Zenon DEF Control
  <1>1. CASE r \in Readable(slot[x])
    BY <1>1, Zenon DEF TerminalBacked, Answerable
  <1>2. ~Fresh(r)
    BY Zenon DEF Fresh
  <1>3. ASSUME NEW c \in Calls, SlotReplaced(x, c), r = entry[c] PROVE Answerable(x)
    BY <1>3, Zenon DEF SlotReplaced, ReplaceRename, ResponseProgress, ResponseAt
  <1>4. ASSUME NEW p \in Processes, SlotRecovered(x, p), NEW k, r = With(Seen(x), k) PROVE Answerable(x)
    <2>1. Seen(x).effect = "terminal" /\ IsRecord(Seen(x))
      BY <1>4, Zenon DEF With, Record, SlotRecovered, RecoverRename, IsRecord, States
    <2> QED
      BY <2>1, Zenon DEF TerminalBacked, Answerable, Readable, Seen
  <1> QED
    BY <1>1, <1>2, <1>3, <1>4, SlotStep, ReadableStep, Zenon

-----------------------------------------------------------------------------
(* The end of an execution. *)

\* The only record that may replace an end is the same end, with its effect.
LEMMA EndReplaced ==
  ASSUME Control, ReplaceProgress, NEW x, NEW c \in Calls, SlotReplaced(x, c), Seen(x).kind \in Terminal
  PROVE  entry[c].kind = Seen(x).kind
  <1>1. pc[c] = "replacing" /\ Follows(c, Seen(x))
    BY Zenon DEF SlotReplaced, ReplaceRename, ReplaceProgress, ReplaceAt
  <1> QED
    BY <1>1, FollowsMeans, Zenon DEF Control, PlaceOK, Terminal

\* Only Complete's last step reports an end.
LEMMA CompletedStep ==
  ASSUME [Next]_vars
  PROVE  \/ completed' = completed
         \/ \E c \in Calls : /\ ReplaceSync(c) /\ call[c].op = "complete"
                             /\ completed' = completed \cup {[x |-> X(c), state |-> call[c].to]}
  <1>1. ASSUME NEW c \in Calls, CallStep(c), ~ReplaceSync(c) PROVE completed' = completed
    BY <1>1, Zenon DEF CallStep, Begin, Prepare, PrepareReturns, PrepareCreate, CreateWrite, CreateSync,
                CreateSyncDirectory, Perform, Submit, EffectFails, ResponseRename, ResponseSync, Terminalize,
                Export, AssertOutcome, Admit, Refuse, ReplaceRename, FileFails, history
  <1>2. ASSUME NEW c \in Calls, ReplaceSync(c)
        PROVE  \/ completed' = completed
               \/ /\ call[c].op = "complete"
                  /\ completed' = completed \cup {[x |-> X(c), state |-> call[c].to]}
    BY <1>2, Zenon DEF ReplaceSync
  <1>3. ASSUME NEW p \in Processes, Gates(p) \/ \E y \in Executions : RecoverRename(p, y)
        PROVE  completed' = completed
    BY <1>3, Zenon DEF Gates, Open, RecoverSync, Opened, OpenFails, Close, Crash, ProcessesGone, RecoverRename, history
  <1>4. ASSUME Takeover \/ PowerLoss \/ \E y \in Executions : Expire(y)
        PROVE  completed' = completed
    BY <1>4, Zenon DEF Takeover, PowerLoss, ProcessesGone, Expire, history
  <1> QED
    BY <1>1, <1>2, <1>3, <1>4, Zenon DEF Next, CallStep, vars

\* An end that was reported is all that can be read.
LEMMA CompletionStep ==
  Control /\ CreateProgress /\ ReplaceProgress /\ CompletionKept /\ [Next]_vars => CompletionKept'
  <1> SUFFICES ASSUME Control, CreateProgress, ReplaceProgress, CompletionKept, [Next]_vars,
                      NEW e \in completed', NEW r \in Readable(slot'[e.x])
               PROVE  r.kind = e.state
    BY Zenon DEF CompletionKept
  <1>1. CASE e \in completed
    <2>1. e.x \in Executions /\ e.state \in Terminal
      BY <1>1, Zenon DEF Control, TypeOK
    <2>2. \A q \in Readable(slot[e.x]) : q.kind = e.state
      BY <1>1, Zenon DEF CompletionKept
    <2>3. Seen(e.x).kind = e.state
      BY <2>2, Zenon DEF Readable, Seen
    <2>4. CASE SlotKept(e.x) \/ SlotSettled(e.x)
      <3>1. CASE SlotKept(e.x)
        BY <2>2, <3>1, ReadableStep, Zenon
      <3>2. CASE SlotSettled(e.x)
        BY <2>2, <3>2, ReadableStep, Zenon
      <3> QED
        BY <2>4, <3>1, <3>2, Zenon
    <2>5. CASE SlotCreated(e.x)
      BY <2>1, <2>3, <2>5, Zenon DEF SlotCreated, Fresh, IsRecord, States, Terminal
    <2>6. ASSUME NEW c \in Calls, SlotReplaced(e.x, c) PROVE r.kind = e.state
      BY <2>1, <2>2, <2>3, <2>6, EndReplaced, ReadableStep
    <2>7. ASSUME NEW p \in Processes, SlotRecovered(e.x, p) PROVE FALSE
      BY <2>1, <2>3, <2>7, Zenon DEF SlotRecovered, RecoverRename, Terminal
    <2> QED
      BY <2>1, <2>4, <2>5, <2>6, <2>7, SlotStep, Zenon
  <1>2. ASSUME NEW c \in Calls, ReplaceSync(c), call[c].op = "complete", e.x = X(c), e.state = call[c].to
        PROVE  r.kind = e.state
    <2>1. pc[c] = "renamed" /\ X(c) \in Executions
      BY <1>2, CallTypes, Zenon DEF Control, ReplaceSync
    <2>2. slot'[e.x] = DirSynced(slot[e.x])
      BY <1>2, <2>1, Zenon DEF ReplaceSync, DirectorySynced
    <2>3. slot[e.x].seen = entry[c] /\ slot[e.x].data = {entry[c]} /\ entry[c].kind = call[c].to
      BY <1>2, <2>1, Zenon DEF ReplaceProgress, ReplaceAt, Seen
    <2> QED
      BY <1>2, <2>2, <2>3 DEF Readable, Survivors, DirSynced
  <1>3. ASSUME NEW c \in Calls, e \in completed \cup {[x |-> X(c), state |-> call[c].to]}, e \notin completed
        PROVE  e.x = X(c) /\ e.state = call[c].to
    BY <1>3
  <1> QED
    BY <1>1, <1>2, <1>3, CompletedStep, Zenon

\* An end that a power loss may bring up was never replaced by anything else.
LEMMA EndSeenStep ==
  Control /\ CreateProgress /\ ReplaceProgress /\ EndSeen /\ [Next]_vars => EndSeen'
  <1> SUFFICES ASSUME Control, CreateProgress, ReplaceProgress, EndSeen, [Next]_vars,
                      NEW x \in Executions, NEW r \in Survivors(slot'[x]), r.kind \in Terminal
               PROVE  slot'[x].seen.kind = r.kind
    BY Zenon DEF EndSeen, Seen
  <1>1. r \in Survivors(slot[x]) => Seen(x).kind = r.kind
    BY Zenon DEF EndSeen
  <1>2. CASE SlotKept(x)
    BY <1>1, <1>2, Zenon DEF SlotKept, Seen
  <1>3. CASE SlotSettled(x)
    BY <1>3 DEF SlotSettled, Settled, Survivors
  <1>4. CASE SlotCreated(x)
    <2>1. r.kind # "torn" /\ r.kind # "PREPARED"
      BY Zenon DEF Terminal
    <2>2. r \in Readable(slot[x])
      BY <1>4, <2>1 DEF SlotCreated, Torn
    <2>3. Seen(x).kind = r.kind
      BY <1>1, <2>2, Zenon DEF Readable, Seen
    <2> QED
      BY <1>4, <2>3, Zenon DEF SlotCreated, Fresh, IsRecord, States, Terminal
  <1>5. ASSUME NEW c \in Calls, SlotReplaced(x, c) PROVE slot'[x].seen.kind = r.kind
    <2>1. slot'[x].seen = entry[c] /\ Survivors(slot'[x]) = {entry[c]} \cup Survivors(slot[x])
      BY <1>5 DEF SlotReplaced, Replaced, Survivors
    <2> QED
      BY <1>1, <1>5, <2>1, EndReplaced, Zenon
  <1>6. ASSUME NEW p \in Processes, SlotRecovered(x, p) PROVE slot'[x].seen.kind = r.kind
    <2>1. PICK q : slot'[x].seen = q /\ Survivors(slot'[x]) = {q} \cup Survivors(slot[x])
      BY <1>6 DEF SlotRecovered, Replaced, Survivors
    <2> QED
      BY <1>1, <1>6, <2>1, Zenon DEF SlotRecovered, RecoverRename, Terminal
  <1> QED
    BY <1>2, <1>3, <1>4, <1>5, <1>6, SlotStep, Zenon

-----------------------------------------------------------------------------
(* Running executions and exports. *)

\* A process whose Gate stays open loses no launch.
LEMMA HeldStep ==
  ASSUME TypeOK, [Next]_vars, NEW p \in Processes, gate'[p] = "open"
  PROVE  \/ Opened(p)
         \/ gate[p] = "open" /\ \A l \in held : l.proc = p => l \in held'
  <1>V. gate \in [Processes -> {"none", "recovering", "syncing", "open", "closed"}]
    BY Zenon DEF TypeOK
  <1>1. ASSUME NEW c \in Calls, CallStep(c) PROVE gate' = gate /\ held \subseteq held'
    BY <1>1, CallFrame, Zenon DEF Only
  <1>2. ASSUME NEW Q, ProcessesGone(Q) PROVE gate[p] = "open" /\ \A l \in held : l.proc = p => l \in held'
    BY <1>2, Zenon DEF ProcessesGone
  <1>3. ASSUME NEW q \in Processes, Gates(q), ~Crash(q), ~Opened(p)
        PROVE  gate[p] = "open" /\ held' = held
    BY <1>3, <1>V, Zenon DEF Gates, Open, RecoverSync, Opened, OpenFails, Close
  <1>4. ASSUME NEW q \in Processes, NEW x \in Executions, RecoverRename(q, x)
        PROVE  gate[p] = "open" /\ held' = held
    BY <1>4, <1>V, Zenon DEF RecoverRename
  <1>5. ASSUME Takeover \/ \E x \in Executions : Expire(x)
        PROVE  gate[p] = "open" /\ held' = held
    BY <1>5, Zenon DEF Takeover, Expire, process
  <1> QED
    BY <1>1, <1>2, <1>3, <1>4, <1>5, Zenon DEF Next, CallStep, Crash, PowerLoss, vars

\* MarkRunning is called with a launch that the process of the open Gate holds.
LEMMA RunningStep ==
  Control /\ CreateProgress /\ ReplaceProgress /\ RunningHeld /\ [Next]_vars => RunningHeld'
  <1> SUFFICES ASSUME Control, CreateProgress, ReplaceProgress, RunningHeld, [Next]_vars,
                      NEW p \in Processes, NEW x \in Executions, gate'[p] = "open", slot'[x].seen.kind = "RUNNING"
               PROVE  [x |-> x, secret |-> slot'[x].seen.secret, proc |-> p] \in held'
    BY Zenon DEF RunningHeld, Seen
  <1>1. ~Opened(p)
    BY Zenon DEF Opened, files, Seen
  <1>2. gate[p] = "open" /\ \A l \in held : l.proc = p => l \in held'
    BY <1>1, HeldStep, Zenon DEF Control
  <1>3. ASSUME Seen(x).kind = "RUNNING" PROVE [x |-> x, secret |-> Seen(x).secret, proc |-> p] \in held'
    BY <1>2, <1>3, Zenon DEF RunningHeld
  <1>4. CASE SlotKept(x)
    BY <1>3, <1>4, Zenon DEF SlotKept, Seen
  <1>5. CASE SlotCreated(x)
    BY <1>5, Zenon DEF SlotCreated
  <1>6. CASE SlotSettled(x)
    BY <1>6, Zenon DEF SlotSettled, PowerLoss, ProcessesGone
  <1>7. ASSUME NEW q \in Processes, SlotRecovered(x, q) PROVE FALSE
    BY <1>7 DEF SlotRecovered, Replaced, With, Record, Ambiguous
  <1>8. ASSUME NEW c \in Calls, SlotReplaced(x, c)
        PROVE  [x |-> x, secret |-> slot'[x].seen.secret, proc |-> p] \in held'
    <2>1. slot'[x].seen = entry[c] /\ pc[c] = "replacing" /\ X(c) = x
      BY <1>8, ReplacedMeans, Zenon
    <2>2. Follows(c, Seen(x)) /\ (call[c].op # "effect" => Seen(x).secret = call[c].secret)
      BY <2>1, Zenon DEF ReplaceProgress, ReplaceAt
    <2>3. entry[c].secret = Seen(x).secret
      BY <2>2, FollowsMeans, Zenon
    <2>4. CASE call[c].op = "effect"
      <3>1. Seen(x).kind = "RUNNING"
        BY <2>1, <2>2, <2>4, FollowsMeans
      <3> QED
        BY <1>3, <2>1, <2>3, <3>1, Zenon
    <2>5. CASE call[c].op = "markRunning"
      <3>1. P(c) = p
        BY <1>2, <2>1, ProcessOfAssumption, Zenon DEF Control, GateOwned, P
      <3>2. [x |-> x, secret |-> call[c].secret, proc |-> p] \in held
        BY <2>1, <2>5, <3>1, Zenon DEF Control, CallOK
      <3> QED
        BY <1>2, <2>1, <2>2, <2>3, <2>5, <3>2, Zenon
    <2>6. call[c].op \in {"effect", "markRunning"}
      <3>1. call[c].op \in {"start", "markRunning", "complete", "effect"}
        BY <2>1, Zenon DEF Control, PlaceOK
      <3>2. call[c].op = "complete" => call[c].to \in Terminal
        BY <2>1, Zenon DEF Control, CallOK
      <3>3. entry[c].kind = "RUNNING"
        BY <2>1, Zenon
      <3> QED
        BY <2>2, <3>1, <3>2, <3>3, FollowsMeans, Zenon DEF Terminal
    <2> QED
      BY <2>4, <2>5, <2>6, Zenon
  <1> QED
    BY <1>4, <1>5, <1>6, <1>7, <1>8, SlotStep, Zenon

\* While an export is under way, the record goes forward only.
LEMMA ExportStep ==
  Control /\ CreateProgress /\ ReplaceProgress /\ ExportFollows /\ [Next]_vars => ExportFollows'
  <1> SUFFICES ASSUME Control, CreateProgress, ReplaceProgress, ExportFollows, [Next]_vars,
                      NEW d \in Calls, pc'[d] = "exported"
               PROVE  /\ IsRecord(slot'[X(d)].seen) /\ entry'[d] \in Records
                      /\ Stage(entry'[d].kind) <= Stage(slot'[X(d)].seen.kind)
                      /\ Stage(entry'[d].kind) = 3 => slot'[X(d)].seen.kind = entry'[d].kind
                      /\ call'[d] = call[d]
    BY Zenon DEF ExportFollows, Seen, X
  <1>V. entry \in [Calls -> Records \cup {Absent}] /\ TypeOK /\ CallOK
    BY Zenon DEF Control, TypeOK
  <1>S. /\ Stage("PREPARED") = 0 /\ Stage("STARTING") = 1 /\ Stage("RUNNING") = 2
        /\ \A k \in States : Stage(k) \in 0..3
        /\ \A k \in Terminal \cup Ambiguous : Stage(k) = 3
    BY DEF Stage, States, Terminal, Ambiguous
  <1>0. pc[d] # "idle" /\ X(d) \in Executions /\ call'[d] = call[d]
    BY <1>V, Arrival, CallKept, CallTypes, Zenon
  <1>1. CASE CallStep(d)
    <2>1. Export(d)
      BY <1>1, <1>V, Arrival, Zenon
    <2>2. slot' = slot /\ entry'[d] = Seen(X(d)) /\ IsRecord(Seen(X(d)))
      BY <2>1, <1>V, Zenon DEF Export, files
    <2>3. Seen(X(d)) \in Records
      BY <1>0, <1>V, <2>2, CallTypes, Zenon
    <2> QED
      BY <1>0, <1>S, <2>2, <2>3 DEF Seen, IsRecord
  <1>2. CASE ~CallStep(d)
    <2>1. pc[d] = "exported" /\ entry'[d] = entry[d]
      BY <1>2, <1>V, CallKept, Zenon
    <2>2. /\ IsRecord(Seen(X(d))) /\ entry[d] \in Records
          /\ Stage(entry[d].kind) <= Stage(Seen(X(d)).kind)
          /\ Stage(entry[d].kind) = 3 => Seen(X(d)).kind = entry[d].kind
      BY <2>1, Zenon DEF ExportFollows
    <2>3. CASE slot'[X(d)].seen = Seen(X(d))
      BY <1>0, <2>1, <2>2, <2>3, Zenon
    <2>4. ~SlotSettled(X(d))
      BY <1>0, ProcessOfAssumption, Zenon DEF SlotSettled, PowerLoss, ProcessesGone, P
    <2>5. \A p \in Processes : ~SlotRecovered(X(d), p)
      BY <1>0, OneLocked, Zenon DEF SlotRecovered, RecoverRename
    <2>6. ASSUME NEW c \in Calls, SlotReplaced(X(d), c)
          PROVE  /\ IsRecord(slot'[X(d)].seen)
                 /\ Stage(entry[d].kind) <= Stage(slot'[X(d)].seen.kind)
                 /\ Stage(entry[d].kind) = 3 => slot'[X(d)].seen.kind = entry[d].kind
      <3>1. slot'[X(d)].seen = entry[c] /\ pc[c] = "replacing"
        BY <2>6, ReplacedMeans, Zenon
      <3>2. Follows(c, Seen(X(d))) /\ entry[c] \in Records
        BY <2>6, <3>1, Zenon DEF SlotReplaced, ReplaceProgress, ReplaceAt, Control, PlaceOK, Locked
      <3>3. IsRecord(entry[c]) /\ entry[c].kind \in States /\ entry[d].kind \in States
        BY <2>2, <3>2, Zenon DEF IsRecord, Records
      <3>4. \/ entry[c].kind = Seen(X(d)).kind
            \/ Seen(X(d)).kind = "PREPARED" /\ entry[c].kind = "STARTING"
            \/ Seen(X(d)).kind = "STARTING" /\ entry[c].kind = "RUNNING"
            \/ Seen(X(d)).kind = "RUNNING" /\ entry[c].kind \in Terminal
        BY <3>1, <3>2, FollowsMeans, ZenonT(60) DEF Control, PlaceOK, CallOK
      <3>5. Stage(entry[d].kind) \in 0..3
        BY <3>3, <1>S, Zenon
      <3> HIDE DEF Stage
      <3> QED
        BY <2>2, <3>1, <3>3, <3>4, <3>5, <1>S
    <2> QED
      BY <1>0, <2>1, <2>2, <2>3, <2>4, <2>5, <2>6, SlotStep, Zenon DEF SlotKept, SlotCreated, Seen
  <1> QED
    BY <1>1, <1>2, Zenon

-----------------------------------------------------------------------------
(* The theorems. *)

\* Before anything is opened, there is nothing to be wrong.
LEMMA GateInit == Init => GateInv
  <1> SUFFICES ASSUME Init PROVE GateInv
    BY Zenon
  <1>1. /\ \A c \in Calls : pc[c] = "idle" /\ entry[c] = Absent /\ call[c] = NoCall
        /\ \A x \in Executions : slot[x] = NoFile /\ response[x] = NoFile
        /\ \A x \in Executions : launched[x] = 0 /\ sockets[x] = 0
        /\ \A p \in Processes : gate[p] = "none" /\ mu[p] = Nobody
    BY Zenon DEF Init
  <1>2. TypeOK
    <2>1. NoFile \in Files(Records) /\ NoFile \in Files({Body})
      BY Zenon DEF Files, NoFile
    <2>2. 1 \in Generations /\ 0 \in Nat /\ 0 \in 0..MaxSecrets /\ 0 \in 0..MaxFaults
      BY BoundsAssumption DEF Generations
    <2>3. "idle" \in Locked \cup Unlocked
      BY Zenon DEF Unlocked
    <2> QED
      BY <2>1, <2>2, <2>3, Zenon DEF Init, TypeOK
  <1>3. CallOK /\ PlaceOK /\ GateOwned
    BY <1>1, ProcessOfAssumption, Zenon DEF CallOK, PlaceOK, GateOwned, Locked, P
  <1>4. MutexOK
    BY <1>1, ProcessOfAssumption DEF MutexOK, Locked, P
  <1>5. CreateProgress /\ ReplaceProgress /\ ResponseProgress /\ ExportFollows
    BY <1>1, Zenon DEF CreateProgress, CreateAt, ReplaceProgress, ReplaceAt, ResponseProgress, ResponseAt, ExportFollows
  <1>6. LaunchedStarted /\ OneLaunch /\ OneEffect /\ EffectOnce
    BY <1>1 DEF LaunchedStarted, OneLaunch, OneEffect, EffectOnce, Submitting
  <1>7. \A x \in Executions : Readable(slot[x]) = {Absent} /\ Seen(x) = Absent
    BY <1>1 DEF Readable, Survivors, NoFile, Seen
  <1>8. Absent.kind \notin States \cup Terminal /\ Absent.kind # "RUNNING"
    BY Zenon DEF Absent, States, Ambiguous, Terminal
  <1>9. TerminalBacked /\ RunningHeld
    BY <1>1, <1>7, <1>8 DEF TerminalBacked, RunningHeld, IsRecord
  <1>10. EndSeen /\ CompletionKept
    BY <1>7, <1>8, Zenon DEF EndSeen, CompletionKept, Readable, Init
  <1> QED
    BY <1>2, <1>3, <1>4, <1>5, <1>6, <1>9, <1>10, Zenon DEF GateInv, Control

\* Every step of calls, processes, writers and faults keeps the invariant.
LEMMA GateInvStep == CarefulClose /\ GateInv /\ [Next]_vars => GateInv'
  BY ControlStep, CreateStep, ReplaceStep, StartedStep, OneLaunchStep, EffectStep, OneEffectStep,
     ResponseStep, TerminalStep, CompletionStep, EndSeenStep, RunningStep, ExportStep, Zenon
     DEF GateInv

\* The inductive invariant holds: it relates what each call is about to write, the
\* records that can be read now and after a power loss, and what was launched, sent
\* and reported.
THEOREM GateInvariant == CarefulClose => (Spec => []GateInv)
  <1> SUFFICES ASSUME CarefulClose PROVE Spec => []GateInv
    BY Zenon
  <1>1. GateInv /\ [Next]_vars => GateInv'
    BY GateInvStep, Zenon
  <1> QED
    BY <1>1, GateInit, PTL DEF Spec

\* Start hands out one launch of an execution, whatever the retries, takeovers,
\* crashes and power losses.
THEOREM LaunchesOnce == CarefulClose => (Spec => []OneLaunch)
  BY GateInvariant, PTL DEF GateInv

\* PerformHTTPS sends an effect once.
THEOREM SubmitsOnce == CarefulClose => (Spec => []OneEffect)
  BY GateInvariant, PTL DEF GateInv

\* A terminal effect has its response, now and after a power loss.
THEOREM TerminalHasResponse == CarefulClose => (Spec => []TerminalBacked)
  BY GateInvariant, PTL DEF GateInv

\* What Complete reported stays.
THEOREM CompletionStays == CarefulClose => (Spec => []CompletionKept)
  BY GateInvariant, PTL DEF GateInv

\* An open Gate shows as running only what its own process runs.
THEOREM RunningIsHeld == CarefulClose => (Spec => []RunningHeld)
  BY GateInvariant, PTL DEF GateInv

\* An outcome assertion is never behind the evidence that it cites.
THEOREM AssertionsFollow == CarefulClose => (Spec => []AssertionFollows)
  <1>1. GateInv => AssertionFollows
    BY Zenon DEF GateInv, AssertionFollows, Asserting, ExportFollows
  <1> QED
    BY <1>1, GateInvariant, PTL

\* The record of an execution whose launch nobody holds is not turned into an end:
\* Complete needs the launch, recovery makes it ambiguous, and a power loss brings up
\* no end that was not there to be read.
LEMMA OrphanStep ==
  ASSUME GateInv, [Next]_vars, NEW x \in Executions,
         launched[x] > 0, \A l \in held : l.x # x, slot'[x].seen.kind \in Terminal
  PROVE  Seen(x).kind = slot'[x].seen.kind
  <1>0. Control /\ CreateProgress /\ ReplaceProgress /\ EndSeen
    BY Zenon DEF GateInv
  <1>1. CASE SlotKept(x)
    BY <1>1, Zenon DEF SlotKept, Seen
  <1>2. CASE SlotCreated(x)
    BY <1>2, Zenon DEF SlotCreated, Terminal
  <1>3. CASE SlotSettled(x)
    <2>1. PICK r \in Survivors(slot[x]) : slot'[x] = Settled(r)
      BY <1>3, Zenon DEF SlotSettled
    <2>2. slot'[x].seen = r
      BY <2>1 DEF Settled
    <2> QED
      BY <1>0, <2>2, Zenon DEF EndSeen
  <1>4. ASSUME NEW p \in Processes, SlotRecovered(x, p) PROVE FALSE
    <2>1. PICK k \in Ambiguous : slot'[x] = Replaced(slot[x], With(Seen(x), k))
      BY <1>4, Zenon DEF SlotRecovered
    <2>2. slot'[x].seen.kind = k
      BY <2>1 DEF Replaced, With, Record
    <2> QED
      BY <2>2, Zenon DEF Ambiguous, Terminal
  <1>5. ASSUME NEW c \in Calls, SlotReplaced(x, c) PROVE Seen(x).kind = slot'[x].seen.kind
    <2>1. pc[c] = "replacing" /\ X(c) = x /\ slot'[x].seen = entry[c]
      BY <1>5, ReplacedMeans, Zenon
    <2>2. Follows(c, Seen(x))
      BY <1>0, <2>1, Zenon DEF ReplaceProgress, ReplaceAt
    <2>3. call[c].op # "complete"
      <3>1. call[c].op = "complete" => [x |-> X(c), secret |-> call[c].secret, proc |-> P(c)] \in held
        BY <1>0, <2>1, Zenon DEF Control, CallOK
      <3> QED
        BY <2>1, <3>1, Zenon
    <2>4. call[c].op \in {"start", "markRunning", "complete", "effect"}
      BY <1>0, <2>1, Zenon DEF Control, PlaceOK
    <2> QED
      BY <2>1, <2>2, <2>3, <2>4, FollowsMeans DEF Terminal
  <1> QED
    BY <1>0, <1>1, <1>2, <1>3, <1>4, <1>5, SlotStep, Zenon

\* An execution that outlives its process is never reported to have ended.
THEOREM OrphansNeverEnd == CarefulClose => (Spec => OrphanNeverEnds)
  <1>1. GateInv /\ [Next]_vars =>
          [\A x \in Executions :
             /\ launched[x] > 0 /\ \A l \in held : l.x # x
             /\ Seen(x)'.kind \in Terminal
             => Seen(x).kind = Seen(x)'.kind]_vars
    BY OrphanStep, Zenon DEF Seen
  <1> QED
    BY <1>1, GateInvariant, PTL DEF Spec, OrphanNeverEnds
=============================================================================
