------------------------------ MODULE TreeWalk ------------------------------
(***************************************************************************)
(* The recursive transfer of a directory (app/src/tree.rs): download_tree  *)
(* walks a remote tree and upload_tree a local one, with a stack of the    *)
(* directories to visit and a set of those that were visited.  One task    *)
(* walks; the cancel flag is set by another one between any two steps.      *)
(*                                                                         *)
(* A node is a directory, a file or a link, and a path the sequence of the *)
(* nodes below the top by whose names it goes.  The transfer of a file is  *)
(* a step that begins and one that ends (see Download and Upload).  Which   *)
(* bytes, digests and notices the outcome has is left out.                  *)
(***************************************************************************)
EXTENDS Integers, Sequences, FiniteSets, SequencesExt

CONSTANTS
  Dirs, Files, Links,
  Top,        \* the directory that is transferred
  Broken,     \* where a link leads whose target is missing
  Trees,      \* the trees that are tried: kids of each directory, target of each link
  MaxFaults   \* bound: operations that fail

Nodes == Dirs \cup Files \cup Links

Shapes == [kids : [Dirs -> SUBSET Nodes],
           target : [Links -> Dirs \cup Files \cup {Broken}]]

\* A directory is in at most one other, Top in none, and none is below itself.
Deepens(kids, depth) == \A d \in Dirs : \A k \in kids[d] \cap Dirs : depth[d] < depth[k]

IsForest(kids) ==
  /\ \A d, e \in Dirs : kids[d] \cap kids[e] \cap Dirs # {} => d = e
  /\ \A d \in Dirs : Top \notin kids[d]
  /\ \E depth \in [Dirs -> 0 .. Cardinality(Dirs)] : Deepens(kids, depth)

ASSUME TreeAssumption ==
  /\ Top \in Dirs /\ Broken \notin Nodes /\ MaxFaults \in Nat
  /\ IsFiniteSet(Nodes)
  /\ Dirs \cap Files = {} /\ Links \cap (Dirs \cup Files) = {}
  /\ \A t \in Trees : t \in Shapes /\ IsForest(t.kids)

Policies == {"skip", "recreate", "follow"}
Jobs     == [download : BOOLEAN, policy : Policies, statFollows : BOOLEAN]

VARIABLES
  job,      \* direction, symlink_policy, and whether stat resolves a link (SFTP does)
  tree,
  dirs,     \* dirs_to_visit, its top last
  visited,  \* remote paths for a download, canonical directories for an upload
  at,       \* the directory whose entries are gone through
  entries,  \* those that are left
  busy,     \* the file that is being transferred, if any
  cancel,
  result,
  outcome,  \* files_total, files_done, files_failed
  made,     \* directories made at the destination
  got,      \* files transferred
  lost,     \* history variable: what was counted as failed
  silent,   \* history variable: an error was ignored
  faults

walkVars == <<job, tree, dirs, visited, at, entries, busy, cancel, result, outcome,
          made, got, lost, silent, faults>>

Real(n)   == IF n \in Links THEN tree.target[n] ELSE n
NodeOf(p) == IF p = <<>> THEN Top ELSE Real(Last(p))
Kids(p)   == tree.kids[NodeOf(p)]

\* What the set of visited directories holds: the remote path itself, or
\* the canonical local one, which is the node, or the path if it is broken.
Key(p) == IF job.download \/ NodeOf(p) = Broken THEN p ELSE <<NodeOf(p)>>

Fault == faults < MaxFaults /\ faults' = faults + 1
Works == UNCHANGED faults

Running == result = "running"
Idle    == Running /\ busy = {}

Fail(p) ==
  /\ outcome' = [outcome EXCEPT !.failed = @ + 1]
  /\ lost' = lost \cup {p}
-----------------------------------------------------------------------------
(* The outer loop.                                                          *)

\* Faulty variant: a directory that was visited before stays on the stack.
RestKept(ds) == IF Key(Last(ds)) \in visited THEN ds ELSE Front(ds)

Rest(ds) == Front(ds)

SkipVisited ==
  /\ Idle /\ entries = {} /\ dirs # <<>> /\ ~cancel
  /\ Key(Last(dirs)) \in visited
  /\ dirs' = Rest(dirs)
  /\ UNCHANGED <<job, tree, visited, at, entries, busy, cancel, result, outcome,
                 made, got, lost, silent, faults>>

\* create_dir_all and list of a download; mkdir, whose error is ignored, and
\* read_dir of an upload.
Opened(p) ==
  /\ at' = p /\ entries' = Kids(p)
  /\ \/ made' = made \cup {p} /\ Works /\ UNCHANGED silent
     \/ ~job.download /\ Fault /\ silent' = TRUE /\ UNCHANGED made
  /\ UNCHANGED <<outcome, lost>>

\* Faulty variant: a directory that cannot be listed is passed over.
UnreadableUncounted(p) ==
  /\ Fault /\ made' \in {made, made \cup {p}}
  /\ UNCHANGED <<at, entries, silent, outcome, lost>>

Unreadable(p) ==
  /\ Fault /\ Fail(p) /\ made' \in {made, made \cup {p}}
  /\ UNCHANGED <<at, entries, silent>>

Visit ==
  /\ Idle /\ entries = {} /\ dirs # <<>> /\ ~cancel
  /\ LET p == Last(dirs) IN
     /\ Key(p) \notin visited
     /\ visited' = visited \cup {Key(p)} /\ dirs' = Rest(dirs)
     /\ Opened(p) \/ Unreadable(p)
  /\ UNCHANGED <<job, tree, busy, cancel, result, got>>

Finish ==
  /\ Idle /\ entries = {} /\ dirs = <<>> /\ result' = "done"
  /\ UNCHANGED <<job, tree, dirs, visited, at, entries, busy, cancel, outcome,
                 made, got, lost, silent, faults>>

\* The flag is looked at before each directory and each entry.
Cancelled ==
  /\ Idle /\ cancel /\ (entries # {} \/ dirs # <<>>)
  /\ result' = "cancelled"
  /\ UNCHANGED <<job, tree, dirs, visited, at, entries, busy, cancel, outcome,
                 made, got, lost, silent, faults>>
-----------------------------------------------------------------------------
(* The entries of a directory.                                              *)

Take(n) == Idle /\ ~cancel /\ n \in entries /\ entries' = entries \ {n}

\* An upload also makes the directory, for the first time, and ignores the error.
Mkdir(p) ==
  \/ made' = made \cup (IF job.download THEN {} ELSE {p}) /\ Works
  \/ ~job.download /\ Fault /\ UNCHANGED made

TakeDir(n) ==
  /\ Take(n) /\ n \in Dirs
  /\ dirs' = Append(dirs, Append(at, n)) /\ Mkdir(Append(at, n))
  /\ UNCHANGED <<job, tree, visited, at, busy, cancel, result, outcome, got, lost, silent>>

\* An upload cannot tell what the entry is.
Untyped(n) ==
  /\ ~job.download /\ Take(n) /\ Fault /\ Fail(Append(at, n))
  /\ UNCHANGED <<job, tree, dirs, visited, at, busy, cancel, result, made, got, silent>>

\* transfer_file.
Begin(p) == busy' = {p} /\ outcome' = [outcome EXCEPT !.total = @ + 1]

TakeFile(n) ==
  /\ Take(n) /\ n \in Files /\ Begin(Append(at, n))
  /\ UNCHANGED <<job, tree, dirs, visited, at, cancel, result, made, got, lost,
                 silent, faults>>

\* A transfer ends well, or with an error, as it does when it is cancelled.
FileDone(p) ==
  /\ Running /\ p \in busy /\ busy' = {}
  /\ outcome' = [outcome EXCEPT !.done = @ + 1] /\ got' = got \cup {p}
  /\ UNCHANGED <<job, tree, dirs, visited, at, entries, cancel, result, made, lost,
                 silent, faults>>

FileFailed(p) ==
  /\ Running /\ p \in busy /\ busy' = {} /\ Fail(p)
  /\ Fault \/ (cancel /\ Works)
  /\ UNCHANGED <<job, tree, dirs, visited, at, entries, cancel, result, made, got, silent>>

\* Skip, and Recreate, whose link nothing here reads.
LeaveLink(n) ==
  /\ Take(n) /\ n \in Links /\ job.policy # "follow"
  /\ UNCHANGED <<job, tree, dirs, visited, at, busy, cancel, result, outcome, made,
                 got, lost, silent, faults>>

\* The link is missing, broken or unreadable, was followed before, or stat
\* says that it is a link.
FollowNothing(n) ==
  /\ Take(n) /\ n \in Links /\ job.policy = "follow"
  /\ LET p == Append(at, n) IN
     \/ /\ Key(p) \in visited \/ NodeOf(p) = Broken
        /\ Works /\ UNCHANGED silent
        /\ visited' = IF job.download THEN visited ELSE visited \cup {Key(p)}
     \/ job.download /\ ~job.statFollows /\ visited' = visited \cup {p} /\ Works /\ UNCHANGED silent
     \/ job.download /\ Fault /\ silent' = TRUE /\ UNCHANGED visited
  /\ UNCHANGED <<job, tree, dirs, at, busy, cancel, result, outcome, made, got, lost>>

\* Faulty variant: a link that is followed is not marked, so that the
\* directory it leads to is walked.
MarkNothing(p) == UNCHANGED visited

\* handle_remote_symlink and handle_local_symlink mark what they push.
Mark(p) == visited' = visited \cup {Key(p)}

FollowLink(n) ==
  /\ Take(n) /\ n \in Links /\ job.policy = "follow" /\ (job.download => job.statFollows)
  /\ LET p == Append(at, n) IN
     /\ Key(p) \notin visited /\ NodeOf(p) # Broken /\ Mark(p)
     /\ IF NodeOf(p) \in Dirs
        THEN dirs' = Append(dirs, p) /\ Mkdir(p) /\ UNCHANGED <<busy, outcome>>
        ELSE Begin(p) /\ UNCHANGED <<dirs, made, faults>>
  /\ UNCHANGED <<job, tree, at, cancel, result, got, lost, silent>>

\* read_dir of an upload ends with an error: the loop ends as if it were over.
EntriesCut ==
  /\ Idle /\ ~job.download /\ entries # {} /\ Fault
  /\ entries' = {} /\ silent' = TRUE
  /\ UNCHANGED <<job, tree, dirs, visited, at, busy, cancel, result, outcome, made,
                 got, lost>>

Cancel ==
  /\ Running /\ ~cancel /\ cancel' = TRUE
  /\ UNCHANGED <<job, tree, dirs, visited, at, entries, busy, result, outcome, made,
                 got, lost, silent, faults>>
-----------------------------------------------------------------------------
WalkInit ==
  /\ job \in Jobs /\ tree \in Trees
  /\ dirs = <<<<>>>> /\ visited = {} /\ at = <<>> /\ entries = {} /\ busy = {}
  /\ cancel = FALSE /\ result = "running"
  /\ outcome = [total |-> 0, done |-> 0, failed |-> 0]
  /\ made = {} /\ got = {} /\ lost = {} /\ silent = FALSE /\ faults = 0

Walk ==
  \/ SkipVisited \/ Visit \/ Finish \/ Cancelled \/ EntriesCut
  \/ \E n \in entries : TakeDir(n) \/ TakeFile(n) \/ Untyped(n) \/ LeaveLink(n)
                          \/ FollowNothing(n) \/ FollowLink(n)
  \/ \E p \in busy : FileDone(p) \/ FileFailed(p)

\* The job is over: the engine reads the outcome.
Over == ~Running /\ UNCHANGED walkVars

WalkNext == Walk \/ Cancel \/ Over

WalkSpec == WalkInit /\ [][WalkNext]_walkVars

\* The task runs on, and each operation of the backend ends, by a timeout
\* if nothing else.
LiveSpec == WalkSpec /\ WF_walkVars(Walk)
-----------------------------------------------------------------------------
(* Properties.                                                              *)

(* Every variable has its type, and what is counted adds up: files_total   *)
(* has each file that is done or under way, and no more than those and the  *)
(* ones that failed; files_failed counts directories as well                *)
(* (transfer_file, download_tree, upload_tree).                              *)
WalkTypeOK ==
  /\ job \in Jobs /\ tree \in Trees /\ dirs \in Seq(Seq(Nodes)) /\ at \in Seq(Nodes)
  /\ entries \in SUBSET Nodes /\ Cardinality(busy) <= 1
  /\ cancel \in BOOLEAN /\ silent \in BOOLEAN
  /\ result \in {"running", "done", "cancelled"}
  /\ outcome.done = Cardinality(got) /\ outcome.failed = Cardinality(lost)
  /\ outcome.total >= Cardinality(got \cup busy)
  /\ outcome.total <= Cardinality(got \cup busy \cup {p \in lost : NodeOf(p) \in Files})

(* What was walked is there: of every directory that was made and listed,  *)
(* each directory and each file in it is at the destination, or has failed  *)
(* and is counted.                                                          *)
Accounted ==
  \A p \in ({<<>>} \cup made) \ lost : \A n \in Kids(p) \ Links :
    Append(p, n) \in made \cup got \cup lost

(* A walk that ends loses nothing without counting it: what is missing at   *)
(* the destination has failed, or lies below what has.  An upload keeps     *)
(* this only while no error is ignored and no link is followed              *)
(* (download_tree, upload_tree).                                            *)
NothingLost ==
  (result = "done" /\ (job.download \/ (~silent /\ job.policy # "follow"))) =>
    <<>> \in made \cup lost /\ Accounted

(* The types and the counts; and the walk never goes into a directory from *)
(* inside itself, whatever the links are: visited holds what has been       *)
(* followed (handle_remote_symlink).                                         *)
NoLoop ==
  /\ WalkTypeOK
  /\ \A i, j \in 0..Len(at) : i # j => NodeOf(SubSeq(at, 1, i)) # NodeOf(SubSeq(at, 1, j))

(* The walk ends, with a tree whose links lead back up, and with failures   *)
(* (download_tree, upload_tree).                                            *)
Ends == <>~Running
-----------------------------------------------------------------------------
(* What the documents say and the code does not do.                         *)

(* "walk a remote or local directory tree and transfer all files, creating  *)
(* directories as needed on the destination" (tree.rs:1): with the policy    *)
(* to follow links, and nothing that failed, the files of a directory that   *)
(* a link leads to are transferred as well.                                  *)
FollowedToo ==
  (result = "done" /\ job.policy = "follow" /\ job.statFollows
     /\ outcome.failed = 0 /\ ~silent) =>
    \A p \in made : \A n \in Kids(p) :
      Real(n) # Broken => \E q \in made \cup got : NodeOf(q) = Real(n)

(* The message "{failed} of {total} failed" (store.rs:835): no more files   *)
(* fail than there are.                                                      *)
FailedOfTotal == outcome.failed <= outcome.total
=============================================================================
