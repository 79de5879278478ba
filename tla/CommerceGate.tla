---------------------------- MODULE CommerceGate ----------------------------
(***************************************************************************)
(* pkg/commercegate: the gate that admits the start of a planned execution, *)
(* follows it to its end and brokers its HTTPS effects, over one record     *)
(* file for each execution slot.                                            *)
(*                                                                         *)
(* A call is one invocation of Prepare, Start, MarkRunning, Complete,       *)
(* PerformHTTPS or BuildOperationOutcomeArtifacts.  Calls of one process share its Gate and so its mutex; the *)
(* directory lock keeps other processes out from Open to Close.  Close      *)
(* takes no mutex.  A plan has one effect.  The owner's signatures are      *)
(* external: the calls modelled are those with a valid fence and action.    *)
(***************************************************************************)
EXTENDS Naturals, DurableFile

CONSTANTS Executions,     \* execution slots (plans, up to their writer generation)
          Processes,
          Calls,
          ProcessOf,      \* ProcessOf[c]: the process call c is made in
          Nobody,
          NoCall,
          Faults,         \* what may happen, of "crash", "power", "disk" (a call on a
                          \* file fails), "close" (Close while calls are running)
          MaxGeneration,  \* bound: takeovers
          MaxSecrets,     \* bound: records created for one slot
          MaxFaults       \* bound: crashes and power losses

ASSUME ProcessOfAssumption == ProcessOf \in [Calls -> Processes] /\ Nobody \notin Processes \cup Calls
ASSUME BoundsAssumption == MaxGeneration \in Nat \ {0} /\ {MaxSecrets, MaxFaults} \subseteq Nat

VARIABLES
  gate,        \* gate[p]: "none", "recovering", "syncing" (inside Open), "open", "closed"
  owner,       \* the process that holds the directory lock, or Nobody
  mu,          \* mu[p]: the call inside the mutex of p's Gate, or Nobody
  pc,          \* pc[c]: where call c is
  call,        \* call[c]: the call and its arguments
  entry,       \* entry[c]: the record it is about to write, or Absent
  slot,        \* slot[x]: the record file of x
  response,    \* response[x]: the response file of the effect of x
  generation,  \* the current writer generation, as the WriterAuthority knows it
  late,        \* slots whose start deadline has passed
  secrets,     \* secrets[x]: how many ticket secrets were drawn for x
  tickets,     \* tickets returned by Prepare
  held,        \* launches returned by Start, in the processes that hold them
  launched,    \* launched[x]: how often Start returned a launch of x
  sockets,     \* sockets[x]: how often the effect of x was submitted to the network
  completed,   \* executions that Complete ended, with the state
  faults

vars == <<gate, owner, mu, pc, call, entry, slot, response, generation, late, secrets, tickets,
          held, launched, sockets, completed, faults>>

-----------------------------------------------------------------------------
(* Data *)

\* CANCELLED and KILLED are treated as FAILED is, everywhere.
Terminal == {"SUCCEEDED", "FAILED"}
Ambiguous == {"AMBIGUOUS_START", "AMBIGUOUS_RUN"}
States == {"PREPARED", "STARTING", "RUNNING"} \cup Ambiguous \cup Terminal
Generations == 1..MaxGeneration
Secrets == 1..MaxSecrets

\* record: its state, the writer generation of the plan bound into its digest, the
\* ticket secret, and the effect's state.
Record(state, g, s, e) == [kind |-> state, gen |-> g, secret |-> s, effect |-> e]
Records == [kind : States, gen : Generations, secret : Secrets,
            effect : {"none", "submitted", "terminal"}]
With(r, state) == Record(state, r.gen, r.secret, r.effect)
WithEffect(r, e) == Record(r.kind, r.gen, r.secret, e)

Body == [kind |-> "body"]

Ticket(x, s) == [x |-> x, secret |-> s]
Tickets == [x : Executions, secret : Secrets]

\* Arguments of a call: gen is the generation of the fence it presents, secret the
\* one of its ticket or launch, to the state Complete is to record.
Operations == {"prepare", "start", "markRunning", "complete", "effect", "export"}
Call(op, x, g, s, to) == [op |-> op, x |-> x, gen |-> g, secret |-> s, to |-> to]
CallsOf == [op : Operations, x : Executions, gen : Generations \cup {0},
            secret : Secrets \cup {0}, to : Terminal \cup {"none"}]

Seen(x) == slot[x].seen
IsRecord(r) == r.kind \in States
X(c) == call[c].x
P(c) == ProcessOf[c]

\* Places inside the mutex, and outside it.
Locked == {"created", "written", "synced", "replacing", "renamed"}
Unlocked == {"idle", "waiting", "brokering", "sent", "responding", "terminalizing", "exported"}

-----------------------------------------------------------------------------

Init ==
  /\ gate = [p \in Processes |-> "none"]
  /\ owner = Nobody
  /\ mu = [p \in Processes |-> Nobody]
  /\ pc = [c \in Calls |-> "idle"]
  /\ call = [c \in Calls |-> NoCall]
  /\ entry = [c \in Calls |-> Absent]
  /\ slot = [x \in Executions |-> NoFile]
  /\ response = [x \in Executions |-> NoFile]
  /\ generation = 1
  /\ late = {}
  /\ secrets = [x \in Executions |-> 0]
  /\ tickets = {} /\ held = {} /\ completed = {}
  /\ launched = [x \in Executions |-> 0]
  /\ sockets = [x \in Executions |-> 0]
  /\ faults = 0

process == <<gate, owner>>
files == <<slot, response>>
world == <<generation, late>>
history == <<launched, sockets, completed>>

\* Mutant: syncParentDirectory does nothing.
DirectoryNotSynced == UNCHANGED files

\* syncParentDirectory covers records and responses: they share the directory.
DirectorySynced ==
  /\ slot' = [x \in Executions |-> DirSynced(slot[x])]
  /\ response' = [x \in Executions |-> DirSynced(response[x])]

-----------------------------------------------------------------------------
(* The process: Open, Close, and its end *)

\* The directory lock: openAndLock refuses a directory that another process holds.
Acquire(p) == owner = Nobody /\ owner' = p
Release == owner' = Nobody

\* Open takes the directory lock and then recovers.  A process that opens a second
\* Gate has no call of its first one left.
Open(p) ==
  /\ gate[p] \in {"none", "closed"}
  /\ \A c \in Calls : P(c) = p => pc[c] = "idle"
  /\ Acquire(p)
  /\ gate' = [gate EXCEPT ![p] = "recovering"]
  /\ UNCHANGED <<mu, pc, call, entry, files, world, secrets, tickets, held, history, faults>>

\* Mutant: an interrupted run is recorded as failed.
RecoverAsFailed(p, x) ==
  /\ gate[p] = "recovering"
  /\ Seen(x).kind \in {"STARTING", "RUNNING"}
  /\ slot' = [slot EXCEPT ![x] = Replaced(@, With(@.seen,
                IF @.seen.kind = "STARTING" THEN "AMBIGUOUS_START" ELSE "FAILED"))]
  /\ gate' = [gate EXCEPT ![p] = "syncing"]
  /\ UNCHANGED <<owner, mu, pc, call, entry, response, world, secrets, tickets, held, history, faults>>

\* recoverInterruptedStates: an interrupted start or run becomes ambiguous (the lock
\* keeps every other writer away between the read and the rename),
RecoverRename(p, x) ==
  /\ gate[p] = "recovering"
  /\ Seen(x).kind \in {"STARTING", "RUNNING"}
  /\ slot' = [slot EXCEPT ![x] = Replaced(@, With(@.seen,
                IF @.seen.kind = "STARTING" THEN "AMBIGUOUS_START" ELSE "AMBIGUOUS_RUN"))]
  /\ gate' = [gate EXCEPT ![p] = "syncing"]
  /\ UNCHANGED <<owner, mu, pc, call, entry, response, world, secrets, tickets, held, history, faults>>

RecoverSync(p) ==
  /\ gate[p] = "syncing"
  /\ DirectorySynced
  /\ gate' = [gate EXCEPT ![p] = "recovering"]
  /\ UNCHANGED <<owner, mu, pc, call, entry, world, secrets, tickets, held, history, faults>>

\* Mutant: an interrupted run is left as it is.
OpenedEarly(p) ==
  /\ gate[p] = "recovering"
  /\ \A x \in Executions : Seen(x).kind \notin {"STARTING", "torn"}
  /\ gate' = [gate EXCEPT ![p] = "open"]
  /\ UNCHANGED <<owner, mu, pc, call, entry, files, world, secrets, tickets, held, history, faults>>

\* and when nothing is left to recover, the Gate is open.
Opened(p) ==
  /\ gate[p] = "recovering"
  /\ \A x \in Executions : Seen(x).kind \notin {"STARTING", "RUNNING", "torn"}
  /\ gate' = [gate EXCEPT ![p] = "open"]
  /\ UNCHANGED <<owner, mu, pc, call, entry, files, world, secrets, tickets, held, history, faults>>

\* A record cannot be read or written: Open fails.
OpenFails(p) ==
  /\ gate[p] \in {"recovering", "syncing"}
  /\ "disk" \in Faults \/ \E x \in Executions : Seen(x) = Torn
  /\ gate' = [gate EXCEPT ![p] = "none"]
  /\ Release
  /\ UNCHANGED <<mu, pc, call, entry, files, world, secrets, tickets, held, history, faults>>

\* Close lets go of the directory and waits for no call; a careful caller does.
Close(p) ==
  /\ gate[p] = "open"
  /\ "close" \in Faults \/ \A c \in Calls : P(c) = p => pc[c] = "idle"
  /\ gate' = [gate EXCEPT ![p] = "closed"]
  /\ Release
  /\ UNCHANGED <<mu, pc, call, entry, files, world, secrets, tickets, held, history, faults>>

\* The processes Q end, with their calls and the launches they hold.
ProcessesGone(Q) ==
  /\ faults < MaxFaults
  /\ faults' = faults + 1
  /\ gate' = [p \in Processes |-> IF p \in Q THEN "none" ELSE gate[p]]
  /\ owner' = IF owner \in Q THEN Nobody ELSE owner
  /\ mu' = [p \in Processes |-> IF p \in Q THEN Nobody ELSE mu[p]]
  /\ pc' = [c \in Calls |-> IF P(c) \in Q THEN "idle" ELSE pc[c]]
  /\ call' = [c \in Calls |-> IF P(c) \in Q THEN NoCall ELSE call[c]]
  /\ entry' = [c \in Calls |-> IF P(c) \in Q THEN Absent ELSE entry[c]]
  /\ held' = {l \in held : l.proc \notin Q}
  /\ UNCHANGED <<world, secrets, tickets, history>>

Crash(p) ==
  /\ "crash" \in Faults
  /\ gate[p] # "none"
  /\ ProcessesGone({p})
  /\ UNCHANGED files

PowerLoss ==
  /\ "power" \in Faults
  /\ ProcessesGone(Processes)
  /\ \E kept \in [Executions -> UNION {Survivors(slot[x]) : x \in Executions}] :
       /\ \A x \in Executions : kept[x] \in Survivors(slot[x])
       /\ slot' = [x \in Executions |-> Settled(kept[x])]
  /\ \E kept \in [Executions -> UNION {Survivors(response[x]) : x \in Executions}] :
       /\ \A x \in Executions : kept[x] \in Survivors(response[x])
       /\ response' = [x \in Executions |-> Settled(kept[x])]

-----------------------------------------------------------------------------
(* The world *)

\* Another writer takes over: fences of the generation before are stale.
Takeover ==
  /\ generation < MaxGeneration
  /\ generation' = generation + 1
  /\ UNCHANGED <<process, mu, pc, call, entry, files, late, secrets, tickets, held, history, faults>>

\* The start deadline of a prepared execution passes.
Expire(x) ==
  /\ Seen(x).kind = "PREPARED"
  /\ x \notin late
  /\ late' = late \cup {x}
  /\ UNCHANGED <<process, mu, pc, call, entry, files, generation, secrets, tickets, held, history, faults>>

-----------------------------------------------------------------------------
(* A call *)

\* It finds gate.lock set, before it takes the mutex.  A caller may present an
\* older fence than the current one, and any ticket or launch it was given.
Begin(c) ==
  /\ pc[c] = "idle"
  /\ gate[P(c)] = "open"
  /\ \E g \in 1..generation :
       \/ \E x \in Executions : call' = [call EXCEPT ![c] = Call("prepare", x, g, 0, "none")]
       \/ \E x \in Executions : call' = [call EXCEPT ![c] = Call("export", x, 0, 0, "none")]
       \/ \E t \in tickets : call' = [call EXCEPT ![c] = Call("start", t.x, g, t.secret, "none")]
       \/ \E l \in held :
            /\ l.proc = P(c)
            /\ \/ call' = [call EXCEPT ![c] = Call("markRunning", l.x, 0, l.secret, "none")]
               \/ \E to \in Terminal :
                    call' = [call EXCEPT ![c] = Call("complete", l.x, 0, l.secret, to)]
               \/ call' = [call EXCEPT ![c] = Call("effect", l.x, g, l.secret, "none")]
  /\ pc' = [pc EXCEPT ![c] = "waiting"]
  /\ UNCHANGED <<process, mu, entry, files, world, secrets, tickets, held, history, faults>>

Lock(c) == mu[P(c)] = Nobody /\ mu' = [mu EXCEPT ![P(c)] = c]
Free(c) == mu[P(c)] = Nobody
Unlock(c) == mu' = [mu EXCEPT ![P(c)] = Nobody]

Goto(c, place) == pc' = [pc EXCEPT ![c] = place]

\* The call returns.
Return(c) ==
  /\ pc' = [pc EXCEPT ![c] = "idle"]
  /\ call' = [call EXCEPT ![c] = NoCall]
  /\ entry' = [entry EXCEPT ![c] = Absent]

\* ConfirmCurrentWriterFence: the authority knows of no later writer.
Current(c) == call[c].gen = generation

\* What the record must be for the call to go on.
Matches(c) == IsRecord(Seen(X(c))) /\ Seen(X(c)).secret = call[c].secret

PrepareReturns(c) ==
  /\ pc[c] = "waiting" /\ call[c].op = "prepare" /\ Free(c)
  /\ Current(c)
  /\ Seen(X(c)).kind = "PREPARED" /\ Seen(X(c)).gen = call[c].gen
  /\ X(c) \notin late
  /\ tickets' = tickets \cup {Ticket(X(c), Seen(X(c)).secret)}
  /\ Return(c)
  /\ UNCHANGED <<process, mu, files, world, secrets, held, history, faults>>

\* createRecord, with a fresh secret and deadline.
PrepareCreate(c) ==
  /\ pc[c] = "waiting" /\ call[c].op = "prepare" /\ Lock(c)
  /\ Current(c)
  /\ Seen(X(c)) = Absent
  /\ secrets[X(c)] < MaxSecrets
  /\ secrets' = [secrets EXCEPT ![X(c)] = @ + 1]
  /\ entry' = [entry EXCEPT ![c] = Record("PREPARED", call[c].gen, secrets[X(c)] + 1, "none")]
  /\ late' = late \ {X(c)}
  /\ slot' = [slot EXCEPT ![X(c)] = Created(@)]
  /\ Goto(c, "created")
  /\ UNCHANGED <<process, call, response, generation, tickets, held, history, faults>>

CreateWrite(c) ==
  /\ pc[c] = "created"
  /\ slot' = [slot EXCEPT ![X(c)] = Written(@, entry[c])]
  /\ Goto(c, "written")
  /\ UNCHANGED <<process, mu, call, entry, response, world, secrets, tickets, held, history, faults>>

CreateSync(c) ==
  /\ pc[c] = "written"
  /\ slot' = [slot EXCEPT ![X(c)] = Synced(@)]
  /\ Goto(c, "synced")
  /\ UNCHANGED <<process, mu, call, entry, response, world, secrets, tickets, held, history, faults>>

CreateSyncDirectory(c) ==
  /\ pc[c] = "synced"
  /\ DirectorySynced
  /\ tickets' = tickets \cup {Ticket(X(c), entry[c].secret)}
  /\ Return(c) /\ Unlock(c)
  /\ UNCHANGED <<process, world, secrets, held, history, faults>>

\* A file call fails: the call returns the error and leaves the files as they are.
FileFails(c) ==
  /\ pc[c] \in Locked
  /\ "disk" \in Faults
  /\ Return(c) /\ Unlock(c)
  /\ UNCHANGED <<process, files, world, secrets, tickets, held, history, faults>>

\* Start: the current writer holds a ticket of a prepared, unexpired execution.
StartPermitted(c) ==
  /\ call[c].op = "start"
  /\ Current(c) /\ Matches(c)
  /\ Seen(X(c)).gen = call[c].gen
  /\ Seen(X(c)).kind = "PREPARED" /\ X(c) \notin late

\* Mutant: a transition does not look at the state it starts from.
TransitionFromAny(c) ==
  /\ Matches(c)
  /\ call[c].op \in {"markRunning", "complete"}

\* transition: MarkRunning takes STARTING to RUNNING, Complete RUNNING to its end.
TransitionPermitted(c) ==
  /\ Matches(c)
  /\ \/ call[c].op = "markRunning" /\ Seen(X(c)).kind = "STARTING"
     \/ call[c].op = "complete" /\ Seen(X(c)).kind = "RUNNING"

\* Mutant: a submitted effect may be submitted again.
EffectRetried(c) ==
  /\ call[c].op = "effect"
  /\ Current(c) /\ Matches(c)
  /\ Seen(X(c)).kind = "RUNNING" /\ Seen(X(c)).effect # "terminal"

\* PerformHTTPS: a running launch whose effect has no record yet.
EffectPermitted(c) ==
  /\ call[c].op = "effect"
  /\ Current(c) /\ Matches(c)
  /\ Seen(X(c)).kind = "RUNNING" /\ Seen(X(c)).effect = "none"

\* The record the call writes.
Entry(c) ==
  LET r == Seen(X(c))
  IN  CASE call[c].op = "start"       -> With(r, "STARTING")
        [] call[c].op = "markRunning" -> With(r, "RUNNING")
        [] call[c].op = "complete"    -> With(r, call[c].to)
        [] call[c].op = "effect"      -> WithEffect(r, "submitted")

\* The call reads the record, finds it in order and prepares the next one.
Admit(c) ==
  /\ pc[c] = "waiting" /\ Lock(c)
  /\ StartPermitted(c) \/ TransitionPermitted(c) \/ EffectPermitted(c)
  /\ entry' = [entry EXCEPT ![c] = Entry(c)]
  /\ Goto(c, "replacing")
  /\ UNCHANGED <<process, call, files, world, secrets, tickets, held, history, faults>>

\* It does not, or the fence, the action or a bound file is not what it should be
\* (all of which the callers of MarkRunning and Complete do not present); or an
\* effect has a record, and its response is returned if it is terminal.
Refuse(c) ==
  /\ pc[c] = "waiting" /\ Free(c)
  /\ \/ call[c].op \in {"prepare", "start", "effect"}
     \/ call[c].op \in {"markRunning", "complete"} /\ ~TransitionPermitted(c)
     \/ call[c].op = "export" /\ ~IsRecord(Seen(X(c)))
  /\ Return(c)
  /\ UNCHANGED <<process, mu, files, world, secrets, tickets, held, history, faults>>

\* replaceRecord, once the temporary file is synced: the rename,
ReplaceRename(c) ==
  /\ pc[c] = "replacing"
  /\ slot' = [slot EXCEPT ![X(c)] = Replaced(@, entry[c])]
  /\ Goto(c, "renamed")
  /\ UNCHANGED <<process, mu, call, entry, response, world, secrets, tickets, held, history, faults>>

\* and the directory.  Only now does Start hand out its launch, and PerformHTTPS
\* leave the mutex for the network.
ReplaceSync(c) ==
  /\ pc[c] = "renamed"
  /\ DirectorySynced
  /\ Unlock(c)
  /\ \/ /\ call[c].op = "start"
        /\ launched' = [launched EXCEPT ![X(c)] = @ + 1]
        /\ held' = held \cup {[x |-> X(c), secret |-> entry[c].secret, proc |-> P(c)]}
        /\ Return(c) /\ UNCHANGED completed
     \/ /\ call[c].op = "markRunning" \/ (call[c].op = "effect" /\ entry[c].effect = "terminal")
        /\ Return(c) /\ UNCHANGED <<held, launched, completed>>
     \/ /\ call[c].op = "complete"
        /\ completed' = completed \cup {[x |-> X(c), state |-> call[c].to]}
        /\ Return(c) /\ UNCHANGED <<held, launched>>
     \/ /\ call[c].op = "effect" /\ entry[c].effect = "submitted"
        /\ Goto(c, "brokering")
        /\ UNCHANGED <<call, entry, held, launched, completed>>
  /\ UNCHANGED <<process, world, secrets, tickets, sockets, faults>>

-----------------------------------------------------------------------------
(* The network half of PerformHTTPS, outside the mutex *)

Submitted(c) == IsRecord(Seen(X(c))) /\ Seen(X(c)).effect = "submitted"

\* The credential and the last capability check allow it: the request goes out.
Submit(c) ==
  /\ pc[c] = "brokering"
  /\ sockets' = [sockets EXCEPT ![X(c)] = @ + 1]
  /\ Goto(c, "sent")
  /\ UNCHANGED <<process, mu, call, entry, files, world, secrets, tickets, held, launched, completed, faults>>

\* They do not, the request fails or times out, the response is too large or cannot
\* be written, or (when a Gate is closed under its calls) the record is not as it was
\* left: the effect stays submitted.
Abandons(c) ==
  \/ pc[c] \in {"brokering", "sent"}
  \/ pc[c] = "responding" /\ "disk" \in Faults
  \/ pc[c] = "terminalizing" /\ Free(c) /\ ~Submitted(c)

EffectFails(c) ==
  /\ Abandons(c)
  /\ Return(c)
  /\ UNCHANGED <<process, mu, files, world, secrets, tickets, held, history, faults>>

\* Mutant: the directory is not synced after the response.
ResponseSkipsSync(c) ==
  /\ pc[c] = "responding"
  /\ Goto(c, "terminalizing")
  /\ UNCHANGED <<process, mu, call, entry, files, world, secrets, tickets, held, history, faults>>

\* writeEffectResponse: a synced temporary file, renamed; then the directory.
ResponseRename(c) ==
  /\ pc[c] = "sent"
  /\ response' = [response EXCEPT ![X(c)] = Replaced(@, Body)]
  /\ Goto(c, "responding")
  /\ UNCHANGED <<process, mu, call, entry, slot, world, secrets, tickets, held, history, faults>>

ResponseSync(c) ==
  /\ pc[c] = "responding"
  /\ DirectorySynced
  /\ Goto(c, "terminalizing")
  /\ UNCHANGED <<process, mu, call, entry, world, secrets, tickets, held, history, faults>>

\* Mutant: the record read before the mutex was released is written back.
TerminalizeStale(c) ==
  /\ pc[c] = "terminalizing" /\ Lock(c)
  /\ Submitted(c)
  /\ entry' = [entry EXCEPT ![c] = WithEffect(entry[c], "terminal")]
  /\ Goto(c, "replacing")
  /\ UNCHANGED <<process, call, files, world, secrets, tickets, held, history, faults>>

\* The record is read again under the mutex: the execution may have ended meanwhile.
Terminalize(c) ==
  /\ pc[c] = "terminalizing" /\ Lock(c)
  /\ Submitted(c)
  /\ entry' = [entry EXCEPT ![c] = WithEffect(Seen(X(c)), "terminal")]
  /\ Goto(c, "replacing")
  /\ UNCHANGED <<process, call, files, world, secrets, tickets, held, history, faults>>

-----------------------------------------------------------------------------
(* BuildOperationOutcomeArtifacts *)

\* ExportOutcomeEvidence: the record as it is becomes the evidence;
Export(c) ==
  /\ pc[c] = "waiting" /\ call[c].op = "export" /\ Free(c)
  /\ IsRecord(Seen(X(c)))
  /\ entry' = [entry EXCEPT ![c] = Seen(X(c))]
  /\ Goto(c, "exported")
  /\ UNCHANGED <<process, mu, call, files, world, secrets, tickets, held, history, faults>>

\* the mutex is released, and the assertion is made of the record read again.
AssertOutcome(c) ==
  /\ pc[c] = "exported" /\ Free(c)
  /\ Return(c)
  /\ UNCHANGED <<process, mu, files, world, secrets, tickets, held, history, faults>>

-----------------------------------------------------------------------------

Gates(p) == Open(p) \/ RecoverSync(p) \/ Opened(p) \/ OpenFails(p) \/ Close(p) \/ Crash(p)

Prepare(c) ==
  \/ PrepareReturns(c) \/ PrepareCreate(c) \/ CreateWrite(c) \/ CreateSync(c)
  \/ CreateSyncDirectory(c)

Perform(c) ==
  \/ Submit(c) \/ EffectFails(c) \/ ResponseRename(c) \/ ResponseSync(c)
  \/ Terminalize(c)

Next ==
  \/ \E p \in Processes : Gates(p) \/ \E x \in Executions : RecoverRename(p, x)
  \/ \E c \in Calls :
       \/ Begin(c) \/ Prepare(c) \/ Perform(c) \/ Export(c) \/ AssertOutcome(c)
       \/ Admit(c) \/ Refuse(c) \/ ReplaceRename(c) \/ ReplaceSync(c) \/ FileFails(c)
  \/ Takeover \/ PowerLoss \/ \E x \in Executions : Expire(x)

Spec == Init /\ [][Next]_vars

-----------------------------------------------------------------------------
(* Properties *)

\* Every variable holds values of its kind.
TypeOK ==
  /\ gate \in [Processes -> {"none", "recovering", "syncing", "open", "closed"}]
  /\ owner \in Processes \cup {Nobody}
  /\ mu \in [Processes -> Calls \cup {Nobody}]
  /\ pc \in [Calls -> Locked \cup Unlocked]
  /\ call \in [Calls -> CallsOf \cup {NoCall}]
  /\ entry \in [Calls -> Records \cup {Absent}]
  /\ slot \in [Executions -> Files(Records)]
  /\ response \in [Executions -> Files({Body})]
  /\ generation \in Generations /\ late \subseteq Executions
  /\ secrets \in [Executions -> 0..MaxSecrets] /\ tickets \subseteq Tickets
  /\ held \subseteq [x : Executions, secret : Secrets, proc : Processes]
  /\ launched \in [Executions -> Nat] /\ sockets \in [Executions -> Nat]
  /\ completed \subseteq [x : Executions, state : Terminal]
  /\ faults \in 0..MaxFaults

\* Start hands out at most one launch of an execution, ever: whatever the retries,
\* the takeovers, the restarts and the power losses ("never admits the same
\* execution again").
OneLaunch == \A x \in Executions : launched[x] <= 1

\* PerformHTTPS submits an effect to the network at most once, ever ("a crash or
\* timeout thereafter remains ambiguous and cannot be retried").
OneEffect == \A x \in Executions : sockets[x] <= 1

\* The files that may be read later.
Readable(f) == {f.seen} \cup Survivors(f)

\* An effect that is recorded as terminal, now or after a power loss, has its
\* response: "terminal effect response is unavailable" is never the answer to a
\* retry (PerformHTTPS writes the response before the record).
TerminalBacked ==
  \A x \in Executions :
    (\E r \in Readable(slot[x]) : IsRecord(r) /\ r.effect = "terminal")
      => Readable(response[x]) = {Body}

\* What Complete reported stays: no restart, power loss or late terminalization of an
\* effect brings another state back.
CompletionKept ==
  \A d \in completed : \A r \in Readable(slot[d.x]) : r.kind = d.state

\* An open Gate shows RUNNING only for an execution whose launch its own process
\* holds: what a process before it ran is ambiguous (recoverInterruptedStates).
RunningHeld ==
  \A p \in Processes, x \in Executions :
    gate[p] = "open" /\ Seen(x).kind = "RUNNING"
      => [x |-> x, secret |-> Seen(x).secret, proc |-> p] \in held

\* An execution whose process is gone is never reported to have ended by a later
\* one: no restart, retry or power loss turns it into a success or a failure
\* (recoverInterruptedStates makes "that uncertainty explicit").
OrphanNeverEnds ==
  [][\A x \in Executions :
       /\ launched[x] > 0 /\ \A l \in held : l.x # x
       /\ Seen(x)'.kind \in Terminal
       => Seen(x).kind = Seen(x)'.kind]_vars

\* Before, during and after the run.
Stage(k) == CASE k = "PREPARED" -> 0 [] k = "STARTING" -> 1 [] k = "RUNNING" -> 2 [] OTHER -> 3

\* Call c is about to make an assertion of state k from evidence of state e.
Asserting(c, e, k) ==
  pc[c] = "exported" /\ Free(c) /\ e = entry[c].kind /\ k = Seen(X(c)).kind

\* An assertion is never older than the evidence it cites, and says what the evidence
\* says of an execution that has ended.  The two are read one after the other, with the
\* mutex released between them: of a run in progress they may say different things.
AssertionFollows ==
  \A c \in Calls, e, k \in States :
    Asserting(c, e, k) => Stage(e) <= Stage(k) /\ (Stage(e) = 3 => k = e)
=============================================================================
