------------------------------ MODULE Download ------------------------------
(***************************************************************************)
(* The attempts of file downloads to one destination (app/src/transfer.rs, *)
(* download): the policy for an existing file, the .mkpart file and its    *)
(* resumption, the copy loop, the rename into place and the verification,  *)
(* with failures at every call, a source that changes at any moment, and   *)
(* relaunches of the app.                                                  *)
(*                                                                         *)
(* Name 0 is the resolved destination, name k the k-th candidate of        *)
(* find_available_name.  An attempt belongs to a worker; two workers are   *)
(* two jobs for the same file (the queue gives one job one worker at a     *)
(* time, OneTaskPerJob of TransferQueue).  Every await of the code that    *)
(* another actor can slip into ends a step.                                *)
(***************************************************************************)
EXTENDS FileContents

CONSTANTS
  Workers,
  MaxName   \* bound: candidates of find_available_name

ASSUME DownloadAssumption == MaxName \in Nat

VARIABLES
  remote,  \* the version the remote file is at
  dest,    \* the local files: name -> content
  part,    \* their .mkpart files: name -> content
  task     \* the workers

vars == <<remote, dest, part, task>>

Names    == 0 .. MaxName
Policies == {"Ask", "Overwrite", "Skip", "Resume", "Rename", "NewerOnly"}
Results  == {"none", "ok", "verified", "skipped", "err"}
Places   == {"part", "dest", "gone"}
-----------------------------------------------------------------------------
(* An attempt.  `place` is where the file its handle writes to is linked    *)
(* now; `since` is a history variable, the remote version it began with.    *)

IdleTask(result) ==
  [pc |-> "idle", name |-> 0, resume |-> FALSE, policy |-> "Ask", size |-> 0,
   done |-> 0, append |-> FALSE, place |-> "gone", reader |-> 1, since |-> 1,
   result |-> result]

End(w, result) == task' = [task EXCEPT ![w] = IdleTask(result)]

\* The handles on a file of name n follow it when it is unlinked or renamed.
Unlink == [part |-> "gone", dest |-> "dest", gone |-> "gone"]
Rename == [part |-> "dest", dest |-> "gone", gone |-> "gone"]

Moved(n, to) ==
  [w \in Workers |->
     IF task[w].pc # "idle" /\ task[w].name = n
     THEN [task[w] EXCEPT !.place = to[@]] ELSE task[w]]

\* Faulty variant: the first candidate is taken unseen.
GoalsUnseen(policy, seen, newer) ==
  IF 0 \notin DOMAIN dest THEN {0}
  ELSE CASE policy \in {"Overwrite", "Resume"} -> {0}
         [] policy = "NewerOnly" -> IF seen /\ ~newer THEN {} ELSE {0}
         [] policy = "Rename" -> {1}
         [] OTHER -> {}

\* The names an attempt may write to, none when it stops at an existing file.
Goals(policy, seen, newer) ==
  IF 0 \notin DOMAIN dest THEN {0}
  ELSE CASE policy \in {"Overwrite", "Resume"} -> {0}
         [] policy = "NewerOnly" -> IF seen /\ ~newer THEN {} ELSE {0}
         [] policy = "Rename" ->
              {n \in Names \ DOMAIN dest : \A m \in 1 .. n - 1 : m \in DOMAIN dest}
         [] OTHER -> {}

\* The part file is longer than the remote file was when it was stat'ed.
Outgrown(n, size) == n \in DOMAIN part /\ size > 0 /\ Len(part[n]) > size

\* Faulty variant: the handle is opened at the start of the old part file.
OpenPartUntruncated(w, n, resume, policy, size) ==
  LET old    == IF n \in DOMAIN part THEN part[n] ELSE <<>>
      resumed == resume /\ n \in DOMAIN part /\ ~Outgrown(n, size)
  IN  /\ part' = Put(part, n, old)
      /\ task' = [task EXCEPT ![w] =
           [pc |-> "open", name |-> n, resume |-> resume, policy |-> policy,
            size |-> size, done |-> IF resumed THEN Len(part[n]) ELSE 0,
            append |-> resumed, place |-> "part", reader |-> 1, since |-> remote,
            result |-> "none"]]

\* Faulty variant: a resumed download counts from 0.
OpenPartFromZero(w, n, resume, policy, size) ==
  LET resumed == resume /\ n \in DOMAIN part /\ ~Outgrown(n, size)
  IN  /\ part' = IF resumed THEN part ELSE Put(part, n, <<>>)
      /\ task' = [task EXCEPT ![w] =
           [pc |-> "open", name |-> n, resume |-> resume, policy |-> policy,
            size |-> size, done |-> 0,
            append |-> resumed, place |-> "part", reader |-> 1, since |-> remote,
            result |-> "none"]]

\* The part file is appended to, or removed or truncated and written anew.
OpenPart(w, n, resume, policy, size) ==
  LET resumed == resume /\ n \in DOMAIN part /\ ~Outgrown(n, size)
      others  == IF resume /\ Outgrown(n, size) THEN Moved(n, Unlink) ELSE task
  IN  /\ part' = IF resumed THEN part ELSE Put(part, n, <<>>)
      /\ task' = [others EXCEPT ![w] =
           [pc |-> "open", name |-> n, resume |-> resume, policy |-> policy,
            size |-> size, done |-> IF resumed THEN Len(part[n]) ELSE 0,
            append |-> resumed, place |-> "part", reader |-> 1, since |-> remote,
            result |-> "none"]]

\* From the stat of the source to the open part file.  (A removal followed by
\* a failing create is DiscardPartial and the last case here.)
Begin(w, resume, policy, seen, newer) ==
  LET size  == IF seen THEN Size[remote] ELSE 0
      goals == Goals(policy, seen, newer)
  IN  /\ task[w].pc = "idle"
      /\ \/ /\ goals = {} /\ policy # "Rename"
            /\ End(w, IF policy = "Ask" THEN "err" ELSE "skipped")
            /\ UNCHANGED part
         \/ \E n \in goals : OpenPart(w, n, resume, policy, size)
         \/ goals # {} /\ End(w, "err") /\ UNCHANGED part  \* a failing create
      /\ UNCHANGED <<remote, dest>>

\* The reader is opened and moved to the end of what is there already.
OpenRead(w) ==
  LET n == task[w].name
  IN  /\ task[w].pc = "open"
      /\ \/ /\ task' = [task EXCEPT ![w].pc = "copy", ![w].reader = remote]
            /\ UNCHANGED part
         \/ \* the seek fails
            /\ task[w].done > 0
            /\ part' = Put(part, n, <<>>)
            /\ task' = [Moved(n, Unlink) EXCEPT
                 ![w] = [task[w] EXCEPT !.pc = "copy", !.reader = remote, !.done = 0,
                                        !.append = FALSE, !.place = "part"]]
         \/ \* open_read fails
            End(w, "err") /\ UNCHANGED part
      /\ UNCHANGED <<remote, dest>>

\* One round of the loop: the next block goes where the handle's file is.
Copy(w) ==
  LET n     == task[w].name
      at    == task[w].done + 1
      block == <<task[w].reader, at>>
      Written(c) == IF task[w].append THEN Append(c, block) ELSE WriteBlock(c, at, block)
  IN  /\ task[w].pc = "copy"
      /\ at <= Size[task[w].reader]
      /\ part' = IF task[w].place = "part" THEN Put(part, n, Written(part[n])) ELSE part
      /\ dest' = IF task[w].place = "dest" THEN Put(dest, n, Written(dest[n])) ELSE dest
      /\ task' = [task EXCEPT ![w].done = at]
      /\ UNCHANGED remote

\* The read fails; the part file stays.
ReadFails(w) ==
  /\ task[w].pc = "copy"
  /\ End(w, "err")
  /\ UNCHANGED <<remote, dest, part>>

\* The job was cancelled, or a write failed.
StopEarly(w) ==
  LET n == task[w].name
      stopped == IF task[w].resume THEN task ELSE Moved(n, Unlink)
  IN  /\ task[w].pc = "copy"
      /\ part' = IF task[w].resume THEN part ELSE Drop(part, n)
      /\ task' = [stopped EXCEPT ![w] = IdleTask("err")]
      /\ UNCHANGED <<remote, dest>>

\* Faulty variant: the result of the rename is not looked at.
PublishUnchecked(w, verify) ==
  LET n == task[w].name
  IN  /\ task[w].pc = "copy"
      /\ task[w].done >= Size[task[w].reader]
      /\ dest' = IF n \in DOMAIN part THEN Put(dest, n, part[n]) ELSE dest
      /\ part' = Drop(part, n)
      /\ task' = [Moved(n, Rename) EXCEPT
           ![w] = IF verify THEN [task[w] EXCEPT !.pc = "verify"]
                  ELSE IdleTask("ok")]
      /\ UNCHANGED remote

\* End of file: flush, sync and rename, each of which may fail.
Publish(w, verify) ==
  LET n == task[w].name
  IN  /\ task[w].pc = "copy"
      /\ task[w].done >= Size[task[w].reader]
      /\ \/ End(w, "err") /\ UNCHANGED <<dest, part>>
         \/ /\ n \in DOMAIN part
            /\ dest' = Put(dest, n, part[n])
            /\ part' = Drop(part, n)
            /\ task' = [Moved(n, Rename) EXCEPT
                 ![w] = IF verify THEN [task[w] EXCEPT !.pc = "verify"]
                        ELSE IdleTask("ok")]
      /\ UNCHANGED remote

\* verify_pair: a digest of the remote file if there is one (by command or by
\* reading it back), else the sizes.
Verify(w) ==
  LET copied   == dest[task[w].name]
      expected == IF task[w].size > task[w].done THEN task[w].size ELSE task[w].done
  IN  /\ task[w].pc = "verify"
      /\ \/ End(w, IF copied = Content(remote) THEN "verified" ELSE "err")
         \/ End(w, IF Len(copied) = expected THEN "ok" ELSE "err")
         \/ End(w, "err")
      /\ UNCHANGED <<remote, dest, part>>
-----------------------------------------------------------------------------
(* The rest of the world.                                                   *)

\* Someone writes a new version of the remote file.
RemoteChange(inPlace) ==
  /\ remote + 1 \in Versions
  /\ remote' = remote + 1
  /\ task' = IF inPlace
             THEN [w \in Workers |->
                     IF task[w].pc = "copy" THEN [task[w] EXCEPT !.reader = remote + 1]
                     ELSE task[w]]
             ELSE task
  /\ UNCHANGED <<dest, part>>

\* DISCARD in the orphan dialog, which may stay open while jobs run.
DiscardPartial(n) ==
  /\ n \in DOMAIN part
  /\ part' = Drop(part, n)
  /\ task' = Moved(n, Unlink)
  /\ UNCHANGED <<remote, dest>>

\* The app ends; the block in the file's write buffer may be lost.  The next
\* launch keeps the part files or, when resuming is off, removes them.
Relaunch ==
  /\ part' \in {NoFiles, part} \cup
       {Put(part, task[w].name, SubSeq(part[task[w].name], 1, Len(part[task[w].name]) - 1)) :
          w \in {x \in Workers : /\ task[x].pc = "copy" /\ task[x].place = "part"
                                 /\ part[task[x].name] # <<>>}}
  /\ task' = [w \in Workers |-> IdleTask("none")]
  /\ UNCHANGED <<remote, dest>>
-----------------------------------------------------------------------------
Init ==
  /\ remote = 1
  /\ dest \in {NoFiles, Put(NoFiles, 0, Old)}
  /\ part = NoFiles
  /\ task = [w \in Workers |-> IdleTask("none")]

Attempt(w) ==
  \/ \E resume, seen, newer \in BOOLEAN, policy \in Policies :
       Begin(w, resume, policy, seen, newer)
  \/ OpenRead(w)
  \/ Copy(w)
  \/ ReadFails(w)
  \/ StopEarly(w)
  \/ \E verify \in BOOLEAN : Publish(w, verify)
  \/ Verify(w)

Next ==
  \/ \E w \in Workers : Attempt(w)
  \/ \E inPlace \in BOOLEAN : RemoteChange(inPlace)
  \/ \E n \in Names : DiscardPartial(n)
  \/ Relaunch

Spec == Init /\ [][Next]_vars
-----------------------------------------------------------------------------
(* Properties.                                                              *)

Files(dir) ==
  /\ DOMAIN dir \subseteq Names
  /\ \A n \in DOMAIN dir : dir[n] \in Seq(Blocks)

Tasks ==
  [pc: {"idle", "open", "copy", "verify"}, name: Names, resume: BOOLEAN,
   policy: Policies, size: Nat, done: Nat, append: BOOLEAN, place: Places,
   reader: Versions, since: Versions, result: Results]

Linked(t, files, parts) ==
  /\ t.pc \in {"open", "copy"} =>
       /\ t.place = "part" => t.name \in DOMAIN parts
       /\ t.place = "dest" => t.name \in DOMAIN files
  /\ t.pc = "verify" => t.name \in DOMAIN files

\* The variables have their types; what a handle writes to and what is verified
\* is there.
TypeOK ==
  /\ remote \in Versions
  /\ Files(dest) /\ Files(part)
  /\ task \in [Workers -> Tasks]
  /\ \A w \in Workers : Linked(task[w], dest, part)

\* Through failures, resumptions, renames and relaunches the destination only
\* ever changes from one complete copy to another, in one step (302-402).
Atomic == INSTANCE AtomicCopy WITH source <- remote, MayLose <- FALSE

AtomicSpec == Atomic!Spec

\* A file that exists is replaced only when the policy says so; Skip, Rename
\* and Ask never cost a file (267-296).
NoClobber ==
  [][\A n \in DOMAIN dest :
       dest'[n] # dest[n] =>
         \E w \in Workers : /\ task[w].pc = "copy" /\ task[w].name = n
                           /\ task[w].policy \in {"Overwrite", "Resume", "NewerOnly"}]_vars

\* Without resuming, no byte that an earlier attempt fetched is put in place
\* (326-349): every block is of a version the attempt itself may have read.
NoStaleBytes ==
  [][\A w \in Workers :
       task[w].pc = "copy" /\ task'[w].pc # "copy" /\ dest' # dest /\ ~task[w].resume =>
         LET c == dest'[task[w].name]
         IN  \A i \in DOMAIN c : c[i][1] >= task[w].since]_vars

\* Success is never reported without the file: as long as the source has not
\* changed, an attempt that ends well leaves a copy of it at its name.
DoneMeansCopied ==
  [][\A w \in Workers :
       task[w].pc # "idle" /\ task'[w].result \in {"ok", "verified"} /\ remote = 1 =>
         task[w].name \in DOMAIN dest' /\ dest'[task[w].name] = Content(1)]_vars

\* backlog.md B-5: "Length/mtime sanity check before resuming; restart with an
\* explicit notice when the remote changed"; a resumed attempt never mixes two
\* versions of a file that is not being written to meanwhile.
RestartsWhenChanged ==
  [][\A w \in Workers :
       /\ task[w].pc = "copy" /\ task'[w].pc # "copy" /\ dest' # dest
       /\ task[w].since = remote
       => dest'[task[w].name] = Content(remote)]_vars
=============================================================================
