------------------------------- MODULE Upload -------------------------------
(***************************************************************************)
(* The attempts of one job to upload a file (app/src/transfer.rs, upload). *)
(* The destination is on a server: every request may fail, a request that  *)
(* failed may have been carried out all the same (only its reply was       *)
(* lost), and a writer may write less than it is given (SftpWriter returns *)
(* the count of one write call).  A server that does not rename over a     *)
(* file fails the first rename.  The local file may change at any moment.  *)
(*                                                                         *)
(* Name 0 is the job's remote path, name k the k-th candidate of           *)
(* find_available_remote.                                                  *)
(***************************************************************************)
EXTENDS FileContents

CONSTANTS
  MaxName,     \* bound: candidates of find_available_remote
  Chunk,       \* blocks that one read of the source returns
  WriteMax     \* blocks that one write sends

ASSUME UploadAssumption ==
  /\ MaxName \in Nat
  /\ Chunk \in Nat \ {0} /\ WriteMax \in Nat \ {0}

VARIABLES
  local,  \* the version the local file is at
  dest,   \* the remote files: name -> content
  part,   \* their .mkpart files: name -> content
  task    \* the attempt

vars == <<local, dest, part, task>>

Names    == 0 .. MaxName
Policies == {"Ask", "Overwrite", "Skip", "Resume", "Rename", "NewerOnly"}
Results  == {"none", "ok", "verified", "skipped", "err"}
-----------------------------------------------------------------------------
\* `size` is the local size when the attempt began, `reader` the version the
\* open local file shows, `done` the position of the reader, `pos` that of the
\* writer, `since` (a history variable) the version the attempt began with.
IdleTask(result) ==
  [pc |-> "idle", name |-> 0, resume |-> FALSE, policy |-> "Ask", size |-> 0,
   done |-> 0, pos |-> 0, reader |-> 1, since |-> 1, result |-> result]

End(result) == task' = IdleTask(result)

\* The first n blocks of c, then the blocks of version v from `from` to `to`,
\* then what c has beyond.
Spliced(c, n, v, from, to) ==
  [i \in 1 .. (IF n + to - from + 1 > Len(c) THEN n + to - from + 1 ELSE Len(c)) |->
     IF n < i /\ i <= n + to - from + 1 THEN <<v, from + i - n - 1>>
     ELSE IF i <= Len(c) THEN c[i] ELSE Hole]

\* The names the attempt may write to.  A name whose stat fails (it is not in
\* `seen`) counts as free.
Goals(policy, seen, newer) ==
  IF 0 \notin seen THEN {0}
  ELSE CASE policy \in {"Overwrite", "Resume"} -> {0}
         [] policy = "NewerOnly" -> IF newer THEN {0} ELSE {}
         [] policy = "Rename" ->
              {n \in Names \ seen : n # 0 /\ \A m \in 1 .. n - 1 : m \in seen}
         [] OTHER -> {}

\* Faulty variant: the part file of another version is taken for this one.
OffsetUnchecked(n, resume, seenPart) ==
  IF resume /\ seenPart /\ n \in DOMAIN part THEN Len(part[n]) + 1 ELSE 0

\* Where the upload goes on: at the end of a part file that is not too long.
Offset(n, resume, seenPart) ==
  IF resume /\ seenPart /\ n \in DOMAIN part /\ Len(part[n]) <= Size[local]
  THEN Len(part[n]) ELSE 0

\* Faulty variant: the part file is never truncated.
OpenPartUntruncated(n, resume, policy, seenPart) ==
  LET at == Offset(n, resume, seenPart)
  IN  /\ part' = IF n \in DOMAIN part THEN part ELSE Put(part, n, <<>>)
      /\ task' = [pc |-> "open", name |-> n, resume |-> resume, policy |-> policy,
                  size |-> Size[local], done |-> at, pos |-> at, reader |-> local,
                  since |-> local, result |-> "none"]

\* open_write_at truncates the file at offset 0 (a part file that is too long
\* was removed before, with the same effect) and creates it if need be.
OpenPart(n, resume, policy, seenPart) ==
  LET at == Offset(n, resume, seenPart)
  IN  /\ part' = IF at = 0 THEN Put(part, n, <<>>) ELSE part
      /\ task' = [pc |-> "open", name |-> n, resume |-> resume, policy |-> policy,
                  size |-> Size[local], done |-> at, pos |-> at, reader |-> local,
                  since |-> local, result |-> "none"]

\* From the stat of the local file to the open writer.
Begin(resume, policy, seen, seenPart, newer) ==
  /\ task.pc = "idle"
  /\ \/ /\ 0 \in seen /\ Goals(policy, seen, newer) = {} /\ policy # "Rename"
        /\ End(IF policy = "Ask" THEN "err" ELSE "skipped")
        /\ UNCHANGED part
     \/ \E n \in Goals(policy, seen, newer) : OpenPart(n, resume, policy, seenPart)
     \/ \E n \in Goals(policy, seen, newer) :  \* some call fails
          /\ part' \in {part, Drop(part, n), Put(part, n, <<>>)}
          /\ part' # part => Offset(n, resume, seenPart) = 0
          /\ End("err")
  /\ UNCHANGED <<local, dest>>

\* The local reader moves to the offset, or both sides start over.
Seek ==
  /\ task.pc = "open"
  /\ \/ task' = [task EXCEPT !.pc = "copy"] /\ UNCHANGED part
     \/ /\ task.done > 0
        /\ part' = Put(part, task.name, <<>>)
        /\ task' = [task EXCEPT !.pc = "copy", !.done = 0, !.pos = 0]
     \/ /\ task.done > 0
        /\ part' \in {part, Put(part, task.name, <<>>)}
        /\ End("err")
  /\ UNCHANGED <<local, dest>>

\* The blocks that one round of the loop reads and writes.
Read == IF task.done + Chunk < Size[task.reader] THEN Chunk ELSE Size[task.reader] - task.done
Sent == IF Read < WriteMax THEN Read ELSE WriteMax

WrittenPart ==
  Put(part, task.name,
      Spliced(part[task.name], task.pos, task.reader, task.done + 1, task.done + Sent))

\* One round of the loop.  The number of bytes written is not looked at.
Copy ==
  /\ task.pc = "copy"
  /\ task.done < Size[task.reader]
  /\ part' = WrittenPart
  /\ task' = [task EXCEPT !.done = @ + Read, !.pos = @ + Sent]
  /\ UNCHANGED <<local, dest>>

\* The local read fails; the part file stays.
ReadFails ==
  /\ task.pc = "copy"
  /\ End("err")
  /\ UNCHANGED <<local, dest, part>>

\* The job was cancelled, or a write (maybe carried out) or the final flush
\* failed.  The removal may fail.
StopEarly ==
  /\ task.pc = "copy"
  /\ part' \in {part} \cup (IF task.done < Size[task.reader] THEN {WrittenPart} ELSE {})
                      \cup (IF task.resume THEN {} ELSE {Drop(part, task.name)})
  /\ End("err")
  /\ UNCHANGED <<local, dest>>

\* End of file, and the flush went well.
Finish ==
  /\ task.pc = "copy"
  /\ task.done >= Size[task.reader]
  /\ task' = [task EXCEPT !.pc = "rename"]
  /\ UNCHANGED <<local, dest, part>>
-----------------------------------------------------------------------------
(* The rename into place.                                                   *)

AfterRename(verify) == IF verify THEN [task EXCEPT !.pc = "verify"] ELSE IdleTask("ok")

\* The server carries out the rename.
Renamed ==
  LET n == task.name
  IN  /\ n \in DOMAIN part
      /\ dest' = Put(dest, n, part[n])
      /\ part' = Drop(part, n)

\* The first rename: done and answered, or reported as failed.
FirstRename(verify) ==
  /\ task.pc = "rename"
  /\ \/ Renamed /\ task' = AfterRename(verify)
     \/ /\ Renamed \/ UNCHANGED <<dest, part>>
        /\ task' = [task EXCEPT !.pc = "remove"]
  /\ UNCHANGED local

\* What is at the destination is removed, if the request gets through.
RemoveDest ==
  /\ task.pc = "remove"
  /\ dest' \in {dest, Drop(dest, task.name)}
  /\ task' = [task EXCEPT !.pc = "again"]
  /\ UNCHANGED <<local, part>>

\* Faulty variant: the error of the second rename is not returned.
SecondRenameIgnored(verify) ==
  /\ task.pc = "again"
  /\ Renamed \/ UNCHANGED <<dest, part>>
  /\ task' = AfterRename(verify)
  /\ UNCHANGED local

SecondRename(verify) ==
  /\ task.pc = "again"
  /\ \/ Renamed /\ task' = AfterRename(verify)
     \/ (Renamed \/ UNCHANGED <<dest, part>>) /\ End("err")
  /\ UNCHANGED local

\* verify_pair: a digest of the remote file, or the size of the local file.
Verify ==
  /\ task.pc = "verify"
  /\ \/ End(IF dest[task.name] = Content(local) THEN "verified" ELSE "err")
     \/ End(IF Size[local] = task.size THEN "ok" ELSE "err")
     \/ End("err")
  /\ UNCHANGED <<local, dest, part>>

\* Someone writes a new version of the local file, into the open file or as a
\* file of its own.
LocalChange(inPlace) ==
  /\ local + 1 \in Versions
  /\ local' = local + 1
  /\ task' = IF inPlace /\ task.pc \in {"open", "copy"}
             THEN [task EXCEPT !.reader = local + 1] ELSE task
  /\ UNCHANGED <<dest, part>>

\* The app ends between two requests, or while one is carried out.
Relaunch ==
  /\ task' = IdleTask("none")
  /\ \/ UNCHANGED <<dest, part>>
     \/ /\ task.pc = "copy" /\ task.done < Size[task.reader]
        /\ part' = WrittenPart
        /\ UNCHANGED dest
     \/ task.pc \in {"rename", "again"} /\ Renamed
  /\ UNCHANGED local
-----------------------------------------------------------------------------
Init ==
  /\ local = 1
  /\ dest \in {NoFiles, Put(NoFiles, 0, Old)}
  /\ part = NoFiles
  /\ task = IdleTask("none")

Next ==
  \/ \E resume, seenPart, newer \in BOOLEAN, policy \in Policies,
        seen \in SUBSET DOMAIN dest : Begin(resume, policy, seen, seenPart, newer)
  \/ Seek
  \/ Copy
  \/ ReadFails
  \/ StopEarly
  \/ Finish
  \/ \E verify \in BOOLEAN : FirstRename(verify)
  \/ RemoveDest
  \/ \E verify \in BOOLEAN : SecondRename(verify)
  \/ Verify
  \/ \E inPlace \in BOOLEAN : LocalChange(inPlace)
  \/ Relaunch

Spec == Init /\ [][Next]_vars
-----------------------------------------------------------------------------
(* Properties.                                                              *)

Files(dir) ==
  /\ DOMAIN dir \subseteq Names
  /\ \A n \in DOMAIN dir : dir[n] \in Seq(Blocks)

Tasks ==
  [pc: {"idle", "open", "copy", "rename", "remove", "again", "verify"},
   name: Names, resume: BOOLEAN, policy: Policies, size: Nat, done: Nat,
   pos: Nat, reader: Versions, since: Versions, result: Results]

\* The variables have their types; the open writer is never beyond the end of
\* the part file, and what is verified is there.
TypeOK ==
  /\ local \in Versions
  /\ Files(dest) /\ Files(part)
  /\ task \in Tasks
  /\ task.pc \in {"open", "copy"} =>
       task.name \in DOMAIN part /\ task.pos <= Len(part[task.name])
  /\ task.pc = "verify" => task.name \in DOMAIN dest

\* As long as writers write all they are given: whatever fails, and wherever
\* the app ends, a remote file is a complete copy, the old file, or gone
\* (471-545); no half-written file is ever at its name.
CompleteOrGone == INSTANCE AtomicCopy WITH source <- local, MayLose <- TRUE

CompleteSpec == CompleteOrGone!Spec

\* backlog.md B-4, "Atomic writes": a failed upload leaves the destination as
\* it was.
Atomic == INSTANCE AtomicCopy WITH source <- local, MayLose <- FALSE

AtomicSpec == Atomic!Spec

\* Without resuming, no byte of an earlier attempt is put in place (492-508).
NoStaleBytes ==
  [][~task.resume /\ task.pc \in {"rename", "again"} /\ task.name \in DOMAIN dest'
     /\ dest' # dest =>
       \A i \in DOMAIN dest'[task.name] : dest'[task.name][i][1] >= task.since]_vars

\* Success is never reported without the file: as long as the source has not
\* changed, an attempt that ends well leaves a copy of it at its name, however
\* often its renames had to be repeated (538-545).
DoneMeansCopied ==
  [][task.pc # "idle" /\ task'.result \in {"ok", "verified"} /\ local = 1 =>
       task.name \in DOMAIN dest' /\ dest'[task.name] = Content(1)]_vars
=============================================================================
