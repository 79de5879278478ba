----------------------------- MODULE DurableFile -----------------------------
(***************************************************************************)
(* One name of a private directory, as the journals of this repository use *)
(* the POSIX file system: O_EXCL create, write, File.Sync, rename over the  *)
(* name, os.Remove, and an fsync of the directory.  The file system is not  *)
(* part of the repository; its contract is modelled from those calls.       *)
(*                                                                         *)
(*   seen   what a process reads under the name now (the page cache);       *)
(*   data   what the blocks of that file may hold after a power loss;       *)
(*   old    what the directory on disk may name instead, because the        *)
(*          directory has not been synced since the name last changed.      *)
(*                                                                         *)
(* A process crash loses nothing of this.  A power loss keeps exactly one   *)
(* of the survivors.                                                       *)
(***************************************************************************)

\* No file has the name.
Absent == [kind |-> "absent"]

\* A file that no reader accepts: empty, or cut off inside its JSON document.
Torn == [kind |-> "torn"]

NoFile == [seen |-> Absent, data |-> {Absent}, old |-> {}]

Files(Records) ==
  LET Content == Records \cup {Absent, Torn}
  IN  [seen : Content, data : SUBSET Content, old : SUBSET Content]

\* What may be found under the name after a power loss.
Survivors(f) == f.data \cup f.old

\* os.OpenFile(O_CREATE|O_EXCL) on a name that is absent.
Created(f) == [seen |-> Torn, data |-> {Torn}, old |-> Survivors(f)]

\* File.Write of one whole record into the created file.
Written(f, r) == [seen |-> r, data |-> f.data \cup {r}, old |-> f.old]

\* File.Sync.
Synced(f) == [seen |-> f.seen, data |-> {f.seen}, old |-> f.old]

\* fsync of the directory that holds the name.
DirSynced(f) == [seen |-> f.seen, data |-> f.data, old |-> {}]

\* os.Remove.
Removed(f) == [seen |-> Absent, data |-> {Absent}, old |-> Survivors(f)]

\* os.Rename of a temporary file, written and synced, over the name.
Replaced(f, r) == [seen |-> r, data |-> {r}, old |-> Survivors(f)]

\* The file after a power loss that kept content c.
Settled(c) == [seen |-> c, data |-> {c}, old |-> {}]

\* The name holds a readable record, and will after any power loss.
Durable(f) == {Absent, Torn} \cap ({f.seen} \cup Survivors(f)) = {}
=============================================================================
