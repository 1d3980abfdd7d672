------------------------------ MODULE NfsMount -------------------------------
(***************************************************************************)
(* NfsBackend of crates/mk-vfs/src/nfs.rs: the slot that holds its mount,   *)
(* the operations, each of which looks into the slot, takes the mount out   *)
(* and calls the server through it, and the readers and writers, which go   *)
(* to the slot for every block.  A disconnect empties the slot at any time; *)
(* calls under way keep their mount (an Arc).                               *)
(* A file is its number of blocks; a call of the server is one step.        *)
(***************************************************************************)
EXTENDS Integers, Sequences

CONSTANTS
  Tasks,
  Paths,     \* the paths asked for, sequences of names
  Root,      \* the exported directory
  MaxSize    \* the largest number of blocks of a file

VARIABLES
  slot,      \* NfsBackend.mount: the number of a mount, 0 for none
  mounts,    \* mounts made so far
  size,      \* of each name on the server: its blocks, Missing or Dir
  task

vars == <<slot, mounts, size, task>>
-----------------------------------------------------------------------------
\* rel: what is not under the root is taken to be relative to it.
Under(p) == Len(p) >= Len(Root) /\ SubSeq(p, 1, Len(Root)) = Root
Rel(p) == IF Under(p) THEN SubSeq(p, Len(Root) + 1, Len(p)) ELSE p

Names == {Rel(p) : p \in Paths \cup {Root}}

Missing == -1
Dir == -2
File(n) == size[n] >= 0

Ops == {"stat", "list", "read_range", "mkdir", "chmod", "statfs", "rename", "remove",
        "open_read", "open_write", "probe"}

Steps == {"idle", "ensure", "take", "call", "rmdir", "unlink", "reader", "writer"}

\* name and to are the names of the call, bound the oldest mount it may use.
States ==
  [pc : Steps, op : Ops, name : Names, to : Names, mount : Nat, bound : Nat, pos : Nat]
Idle == [pc |-> "idle", op |-> "stat", name |-> Rel(Root), to |-> Rel(Root),
         mount |-> 0, bound |-> 0, pos |-> 0]

Go(t, pc) == task' = [task EXCEPT ![t].pc = pc]
Leave(t) == task' = [task EXCEPT ![t] = Idle]

Begin(t, op, p, q) ==
  /\ task[t].pc = "idle"
  /\ task' = [task EXCEPT ![t] =
       [pc |-> "ensure", op |-> op, name |-> Rel(p), to |-> Rel(q), mount |-> 0,
        bound |-> IF slot = 0 THEN mounts + 1 ELSE slot, pos |-> 0]]
  /\ UNCHANGED <<slot, mounts, size>>

\* ensure, under the slot's mutex; probe is nothing else.
After(t) == IF task[t].op = "probe" THEN Leave(t) ELSE Go(t, "take")

Ensure(t) ==
  /\ task[t].pc = "ensure"
  /\ IF slot # 0 THEN UNCHANGED <<slot, mounts>>
     ELSE slot' = mounts + 1 /\ mounts' = mounts + 1
  /\ After(t)
  /\ UNCHANGED size

EnsureFails(t) ==
  /\ task[t].pc = "ensure" /\ slot = 0
  /\ Leave(t) /\ UNCHANGED <<slot, mounts, size>>

\* mount: the slot may be empty again ("not mounted").  open_read does no more.
Take(t) ==
  /\ task[t].pc = "take"
  /\ IF slot = 0 THEN Leave(t)
     ELSE task' = [task EXCEPT ![t].mount = slot,
                    ![t].pc = IF task[t].op = "open_read" THEN "reader" ELSE "call"]
  /\ UNCHANGED <<slot, mounts, size>>

Disconnect == slot' = 0 /\ UNCHANGED <<mounts, size, task>>
-----------------------------------------------------------------------------
(* The operations.                                                          *)

Calling(t, ops) == task[t].pc = "call" /\ task[t].op \in ops

\* Calls that change no file, and any call that fails.
Look(t) ==
  /\ Calling(t, {"stat", "list", "read_range", "chmod", "statfs"})
  /\ Leave(t) /\ UNCHANGED <<slot, mounts, size>>
Fails(t) ==
  /\ task[t].pc \in {"call", "rmdir", "unlink", "reader", "writer"}
  /\ Leave(t) /\ UNCHANGED <<slot, mounts, size>>

\* open_write sets the length of a file, which must exist, to 0.
OpenWrite(t) ==
  /\ Calling(t, {"open_write"}) /\ File(task[t].name)
  /\ size' = [size EXCEPT ![task[t].name] = 0]
  /\ Go(t, "writer") /\ UNCHANGED <<slot, mounts>>

Mkdir(t) ==
  /\ Calling(t, {"mkdir"}) /\ size[task[t].name] = Missing
  /\ size' = [size EXCEPT ![task[t].name] = Dir]
  /\ Leave(t) /\ UNCHANGED <<slot, mounts>>

Rename(t) ==
  /\ Calling(t, {"rename"}) /\ size[task[t].name] # Missing
  /\ size' = [size EXCEPT ![task[t].name] = Missing, ![task[t].to] = size[task[t].name]]
  /\ Leave(t) /\ UNCHANGED <<slot, mounts>>

\* remove asks what the name is, and then removes a directory or a file.
RemoveLooks(t) ==
  /\ Calling(t, {"remove"}) /\ size[task[t].name] # Missing
  /\ Go(t, IF size[task[t].name] = Dir THEN "rmdir" ELSE "unlink")
  /\ UNCHANGED <<slot, mounts, size>>

\* The server refuses the call for the other kind.
Remove(t) ==
  /\ \/ task[t].pc = "rmdir" /\ size[task[t].name] = Dir
     \/ task[t].pc = "unlink" /\ File(task[t].name)
  /\ size' = [size EXCEPT ![task[t].name] = Missing]
  /\ Leave(t) /\ UNCHANGED <<slot, mounts>>
-----------------------------------------------------------------------------
(* Readers and writers: a block at a time, by name.                         *)

Read(t) ==
  /\ task[t].pc = "reader" /\ slot # 0
  /\ File(task[t].name) /\ task[t].pos < size[task[t].name]
  /\ task' = [task EXCEPT ![t].mount = slot, ![t].pos = @ + 1]
  /\ UNCHANGED <<slot, mounts, size>>

Write(t) ==
  /\ task[t].pc = "writer" /\ slot # 0
  /\ File(task[t].name) /\ task[t].pos < MaxSize
  /\ task' = [task EXCEPT ![t].mount = slot, ![t].pos = @ + 1]
  /\ size' = [size EXCEPT ![task[t].name] = IF @ > task[t].pos THEN @ ELSE task[t].pos + 1]
  /\ UNCHANGED <<slot, mounts>>

\* The caller is done with it.
Close(t) ==
  /\ task[t].pc \in {"reader", "writer"}
  /\ Leave(t) /\ UNCHANGED <<slot, mounts, size>>

\* Other clients of the server.
Foreign(n, s) == size' = [size EXCEPT ![n] = s] /\ UNCHANGED <<slot, mounts, task>>
-----------------------------------------------------------------------------
Init ==
  /\ slot = 0 /\ mounts = 0
  /\ size \in [Names -> Missing .. MaxSize \cup {Dir}]
  /\ task = [t \in Tasks |-> Idle]

Own ==
  \/ \E t \in Tasks :
       \/ \E op \in Ops, p \in Paths, q \in Paths : Begin(t, op, p, q)
       \/ Ensure(t) \/ EnsureFails(t) \/ Take(t)
       \/ Look(t) \/ Fails(t) \/ OpenWrite(t) \/ Mkdir(t) \/ Rename(t)
       \/ RemoveLooks(t) \/ Remove(t)
       \/ Read(t) \/ Write(t) \/ Close(t)
  \/ Disconnect

Next == Own \/ \E n \in Names, s \in Missing .. MaxSize \cup {Dir} : Foreign(n, s)

Spec == Init /\ [][Next]_vars

\* Without other clients.
OwnSpec == Init /\ [][Own]_vars
-----------------------------------------------------------------------------
(* Properties.                                                              *)

TypeOK ==
  /\ slot \in Nat /\ mounts \in Nat
  /\ size \in [Names -> Int] /\ task \in [Tasks -> States]

(* No call goes through a mount that was dropped before it was begun; of a  *)
(* reader or writer, no block does (mount, NfsReader::read, NfsWriter::write). *)
FreshMount ==
  \A t \in Tasks : task[t].mount # 0 => task[t].mount >= task[t].bound

(* The backend makes no files: only the rename of one puts a file where none *)
(* was.  An upload, which opens a part file of its own for writing, can      *)
(* therefore not succeed over NFS unless the part is already there           *)
(* (open_write).                                                             *)
MakesNoFiles ==
  [][\A n \in Names : size[n] = Missing /\ size'[n] >= 0 =>
       \E t \in Tasks : task[t].pc = "call" /\ task[t].op = "rename" /\ task[t].to = n]_vars
-----------------------------------------------------------------------------
(* What the documents say and the code does not do.                         *)

(* "Truncate the target (matching File::create / SFTP create)" (nfs.rs:202): *)
(* create makes the file that is missing, so a write to it goes on.          *)
CreatesFile ==
  \A t \in Tasks : Calling(t, {"open_write"}) /\ size[task[t].name] = Missing
                     => ENABLED OpenWrite(t)

(* "Only treat as under the root when the prefix ends at a path boundary, so *)
(* a sibling ... isn't mistaken" (nfs.rs:83-85): two paths, two files.        *)
PathsApart == \A p, q \in Paths : p # q => Rel(p) # Rel(q)
-----------------------------------------------------------------------------
(* The invariant behind the theorems (ServiceProofs).                       *)

\* The mount in the slot is the newest, and none that a task may not use.
Newest ==
  /\ slot <= mounts
  /\ \A t \in Tasks : task[t].pc # "idle" =>
       task[t].bound <= mounts + 1 /\ (slot # 0 => slot >= task[t].bound)

IInv == TypeOK /\ Newest /\ FreshMount
=============================================================================
