------------------------------ MODULE FileProofs ------------------------------
(***************************************************************************)
(* Theorems about files and directories: the recursive transfer of a        *)
(* directory (TreeWalk) and the file operations of the UI (FileOps).  The   *)
(* two have no state in common.                                             *)
(***************************************************************************)
EXTENDS TreeWalk, FileOps, FiniteSetTheorems, TLAPS

-----------------------------------------------------------------------------
(* The walk.  What is proved of it: that the counts add up, that it never   *)
(* goes in a circle, and that it loses nothing without counting it.  Steps  *)
(* sorts its steps by what they do to its stack and its sets; each part of  *)
(* the invariant TreeInv has a lemma with a case for each kind of step.     *)

TreePaths == Seq(Nodes)

\* No element of a sequence comes twice.
Distinct(s) == \A i, j \in DOMAIN s : s[i] = s[j] => i = j

LEMMA Pushed ==
  ASSUME NEW S, NEW s \in Seq(S), NEW e \in S
  PROVE  /\ Append(s, e) \in Seq(S) /\ Append(s, e) # <<>> /\ Last(Append(s, e)) = e
         /\ Len(Append(s, e)) = Len(s) + 1 /\ Append(s, e)[Len(s) + 1] = e
         /\ \A i \in 1 .. Len(s) : Append(s, e)[i] = s[i]
         /\ ToSet(Append(s, e)) = ToSet(s) \cup {e}
         /\ Distinct(s) /\ e \notin ToSet(s) => Distinct(Append(s, e))
<1> DEFINE t == Append(s, e)
<1>1. /\ t \in Seq(S) /\ Len(t) = Len(s) + 1 /\ t[Len(s) + 1] = e
      /\ \A i \in 1 .. Len(s) : t[i] = s[i]
  OBVIOUS
<1>2. Len(s) \in Nat /\ DOMAIN s = 1 .. Len(s) /\ DOMAIN t = 1 .. Len(s) + 1
  BY <1>1
<1> HIDE DEF t
<1>3. t # <<>> /\ Last(t) = e
  BY <1>1, <1>2 DEF Last
<1>4. ToSet(t) = ToSet(s) \cup {e}
  <2>1. ASSUME NEW x \in ToSet(t) PROVE x \in ToSet(s) \cup {e}
    <3>1. PICK i \in DOMAIN t : x = t[i]
      BY <2>1 DEF ToSet
    <3>2. i \in 1 .. Len(s) \/ i = Len(s) + 1
      BY <1>2
    <3> QED  BY <1>1, <1>2, <3>1, <3>2 DEF ToSet
  <2>2. ASSUME NEW x \in ToSet(s) \cup {e} PROVE x \in ToSet(t)
    <3>1. CASE x \in ToSet(s)
      <4>1. PICK i \in DOMAIN s : x = s[i]
        BY <3>1 DEF ToSet
      <4>2. i \in DOMAIN t /\ x = t[i]
        BY <1>1, <1>2, <4>1
      <4> QED  BY <4>2 DEF ToSet
    <3>2. CASE x = e
      <4>1. Len(s) + 1 \in DOMAIN t /\ x = t[Len(s) + 1]
        BY <1>1, <1>2, <3>2
      <4> QED  BY <4>1 DEF ToSet
    <3> QED  BY <2>2, <3>1, <3>2
  <2> QED  BY <2>1, <2>2
<1>5. ASSUME Distinct(s), e \notin ToSet(s) PROVE Distinct(t)
  <2> SUFFICES ASSUME NEW i \in DOMAIN t, NEW j \in DOMAIN t, t[i] = t[j] PROVE i = j
    BY DEF Distinct
  <2>1. \A k \in DOMAIN s : s[k] # e
    BY <1>5 DEF ToSet
  <2>2. (i \in DOMAIN s \/ i = Len(s) + 1) /\ (j \in DOMAIN s \/ j = Len(s) + 1)
    BY <1>2
  <2> QED  BY <1>1, <1>2, <1>5, <2>1, <2>2 DEF Distinct
<1> QED  BY <1>1, <1>3, <1>4, <1>5 DEF t

LEMMA Popped ==
  ASSUME NEW S, NEW s \in Seq(S), s # <<>>
  PROVE  /\ Front(s) \in Seq(S) /\ Last(s) \in S
         /\ ToSet(s) = ToSet(Front(s)) \cup {Last(s)} /\ Last(s) \in ToSet(s)
         /\ Distinct(s) => Distinct(Front(s)) /\ Last(s) \notin ToSet(Front(s))
<1> DEFINE n == Len(s) - 1
           t == SubSeq(s, 1, n)
<1>1. n \in Nat /\ DOMAIN s = 1 .. n + 1 /\ Len(s) = n + 1
  OBVIOUS
<1> HIDE DEF n
<1>2. t \in Seq(S) /\ Len(t) = n /\ \A i \in 1 .. n : t[i] = s[i]
  BY <1>1
<1>3. DOMAIN t = 1 .. n
  BY <1>1, <1>2
<1>4. Front(s) = t /\ Last(s) = s[n + 1] /\ s[n + 1] \in S
  BY <1>1 DEF Front, Last, n
<1> HIDE DEF t
<1>5. ToSet(s) = ToSet(t) \cup {s[n + 1]}
  <2>1. \A i \in DOMAIN s : i \in 1 .. n \/ i = n + 1
    BY <1>1
  <2>2. n + 1 \in DOMAIN s /\ 1 .. n \subseteq DOMAIN s
    BY <1>1
  <2>3. \A x \in ToSet(s) : x \in ToSet(t) \cup {s[n + 1]}
    BY <1>2, <1>3, <2>1 DEF ToSet
  <2>4. \A x \in ToSet(t) \cup {s[n + 1]} : x \in ToSet(s)
    BY <1>2, <1>3, <2>2 DEF ToSet
  <2> QED  BY <2>3, <2>4
<1>6. ASSUME Distinct(s) PROVE Distinct(t) /\ s[n + 1] \notin ToSet(t)
  <2>1. \A i \in DOMAIN t : i \in DOMAIN s /\ i # n + 1 /\ n + 1 \in DOMAIN s
    BY <1>1, <1>3
  <2> QED  BY <1>2, <1>3, <1>6, <2>1 DEF Distinct, ToSet
<1> QED  BY <1>2, <1>4, <1>5, <1>6

\* A path is told by its last node and what is before it.
LEMMA AppendSame ==
  ASSUME NEW S, NEW q \in Seq(S), NEW p \in Seq(S), NEW m \in S, NEW n \in S,
         Append(q, m) = Append(p, n)
  PROVE  q = p /\ m = n
<1>1. Len(Append(q, m)) = Len(q) + 1 /\ Len(Append(p, n)) = Len(p) + 1
      /\ Len(q) \in Nat /\ Len(p) \in Nat
  OBVIOUS
<1>2. Len(q) = Len(p)
  BY <1>1
<1>3. \A i \in 1 .. Len(q) : Append(q, m)[i] = q[i] /\ Append(p, n)[i] = p[i]
  BY <1>2, Pushed
<1>4. Append(q, m)[Len(q) + 1] = m /\ Append(p, n)[Len(q) + 1] = n
  BY <1>2, Pushed
<1>5. q = p
  BY <1>2, <1>3
<1> QED  BY <1>4, <1>5
-----------------------------------------------------------------------------
(* The steps of the walk, by what they do to its stack and its sets.        *)

\* What an upload keeps to while no error is ignored and no link followed.
Promised == job.download \/ (~silent /\ job.policy # "follow")

\* The paths that the walk has come to.
Taken == got \cup busy \cup lost \cup ToSet(dirs)

Typed ==
  /\ job \in Jobs /\ tree \in Trees /\ dirs \in Seq(TreePaths) /\ at \in TreePaths
  /\ \A p \in ToSet(dirs) : NodeOf(p) \in Dirs
  /\ NodeOf(at) \in Dirs /\ entries \subseteq Kids(at)
  /\ entries # {} => Key(at) \in visited
  /\ made \subseteq TreePaths /\ \A p \in made : NodeOf(p) \in Dirs
  /\ busy \subseteq TreePaths /\ \A p \in busy : NodeOf(p) \in Files
  /\ \A p, q \in busy : p = q
  /\ cancel \in BOOLEAN /\ silent \in BOOLEAN
  /\ result \in {"running", "done", "cancelled"}

Flags == cancel' \in BOOLEAN /\ silent' \in BOOLEAN
         /\ result' \in {"running", "done", "cancelled"}

\* No path is taken or left; entries that are passed over are links, or else
\* nothing is promised any more.
Passes ==
  /\ UNCHANGED <<job, tree, dirs, at, busy, outcome, made, got, lost>> /\ Flags
  /\ entries' \subseteq entries /\ visited \subseteq visited'
  /\ job.policy # "follow" => visited' = visited
  /\ job.download => \A p \in visited' \ visited : p # <<>> /\ Last(p) \in Links
  /\ Promised' => Promised /\ entries \ entries' \subseteq Links
  /\ result' = "done" => result = "done" \/ (dirs = <<>> /\ entries = {} /\ busy = {})

\* A directory that was visited is taken off the stack.
Drops ==
  /\ UNCHANGED <<job, tree, visited, at, entries, busy, outcome, made, got, lost, silent>>
  /\ Flags /\ result' = "running"
  /\ entries = {} /\ dirs # <<>> /\ Key(Last(dirs)) \in visited /\ dirs' = Front(dirs)

\* The directory p is taken off the stack and opened, or has failed.
Visits(p) ==
  /\ UNCHANGED <<job, tree, busy, got>> /\ Flags /\ result' = "running"
  /\ entries = {} /\ dirs # <<>> /\ p = Last(dirs) /\ dirs' = Front(dirs)
  /\ Key(p) \notin visited /\ visited' = visited \cup {Key(p)}
  /\ Promised' => Promised
  /\ \/ /\ at' = p /\ entries' = Kids(p) /\ UNCHANGED <<outcome, lost>>
        /\ made' = made \cup {p} \/ (made' = made /\ ~Promised')
     \/ /\ UNCHANGED <<at, entries, silent>> /\ Fail(p)
        /\ made' \in {made, made \cup {p}}

\* A link that is followed is marked.
Marks(n) ==
  \/ n \notin Links /\ visited' = visited
  \/ /\ n \in Links /\ job.policy = "follow" /\ visited' = visited \cup {Key(Append(at, n))}

\* The entry n is pushed, or transferred, or has failed.
Takes(n) ==
  /\ UNCHANGED <<job, tree, at, got, silent>> /\ Flags /\ result' = "running"
  /\ busy = {} /\ n \in entries /\ entries' = entries \ {n}

Pushes(n) ==
  /\ Takes(n) /\ Marks(n) /\ NodeOf(Append(at, n)) \in Dirs
  /\ dirs' = Append(dirs, Append(at, n)) /\ UNCHANGED <<busy, outcome, lost>>
  /\ made' = made \/ (~job.download /\ made' = made \cup {Append(at, n)})

Begins(n) ==
  /\ Takes(n) /\ Marks(n) /\ NodeOf(Append(at, n)) \in Files
  /\ Begin(Append(at, n)) /\ UNCHANGED <<dirs, made, lost>>

Loses(n) ==
  /\ Takes(n) /\ Fail(Append(at, n)) /\ UNCHANGED <<dirs, visited, busy, made>>

\* The transfer of p ends.
Leaves(p) ==
  /\ UNCHANGED <<job, tree, dirs, visited, at, entries, made, silent>> /\ Flags
  /\ result' = "running" /\ p \in busy /\ busy' = {}
  /\ \/ /\ outcome' = [outcome EXCEPT !.done = @ + 1] /\ got' = got \cup {p}
        /\ UNCHANGED lost
     \/ Fail(p) /\ UNCHANGED got

LEMMA SameTree ==
  ASSUME UNCHANGED <<job, tree>>
  PROVE  \A p : NodeOf(p)' = NodeOf(p) /\ Kids(p)' = Kids(p) /\ Key(p)' = Key(p)
BY DEF NodeOf, Real, Kids, Key

LEMMA TreeTyped ==
  ASSUME tree \in Trees
  PROVE  /\ \A n \in Links : tree.target[n] \in Dirs \cup Files \cup {Broken}
         /\ \A d \in Dirs : tree.kids[d] \subseteq Nodes
         /\ IsForest(tree.kids)
BY TreeAssumption DEF Shapes

\* An entry of the directory that is gone through.
LEMMA Entry ==
  ASSUME Typed, NEW n \in entries
  PROVE  /\ n \in Nodes /\ Append(at, n) \in TreePaths /\ Append(at, n) # <<>>
         /\ Last(Append(at, n)) = n /\ Key(at) \in visited
         /\ NodeOf(Append(at, n)) = Real(n)
         /\ n \notin Links => NodeOf(Append(at, n)) = n
         /\ n \in Links => NodeOf(Append(at, n)) \in Dirs \cup Files \cup {Broken}
<1>1. n \in tree.kids[NodeOf(at)]
  BY DEF Typed, Kids
<1>2. n \in Nodes
  BY <1>1, TreeTyped DEF Typed
<1>3. /\ Append(at, n) \in TreePaths /\ Append(at, n) # <<>> /\ Last(Append(at, n)) = n
  BY <1>2, Pushed DEF Typed, TreePaths
<1>4. NodeOf(Append(at, n)) = Real(n)
  BY <1>3 DEF NodeOf
<1> QED  BY <1>2, <1>3, <1>4, TreeTyped DEF Typed, Real

Steps ==
  \/ Passes \/ Drops \/ \E p \in ToSet(dirs) : Visits(p)
  \/ \E n \in entries : Pushes(n) \/ Begins(n) \/ Loses(n)
  \/ \E p \in busy : Leaves(p)

LEMMA StepsOfNext == Typed /\ [WalkNext]_walkVars => Steps
<1> SUFFICES ASSUME Typed, [WalkNext]_walkVars PROVE Steps
  OBVIOUS
<1> USE DEF Flags
<1>1. CASE Finish
  BY <1>1 DEF Finish, Idle, Running, Typed, Passes, Steps, Promised
<1>2. CASE Cancelled
  BY <1>2 DEF Cancelled, Idle, Running, Typed, Passes, Steps, Promised
<1>3. CASE EntriesCut
  BY <1>3 DEF EntriesCut, Idle, Running, Typed, Passes, Steps, Promised
<1>4. CASE Cancel
  BY <1>4 DEF Cancel, Running, Typed, Passes, Steps, Promised
<1>5. CASE UNCHANGED walkVars
  BY <1>5 DEF walkVars, Typed, Passes, Steps, Promised
<1>6. CASE SkipVisited
  BY <1>6 DEF SkipVisited, Idle, Running, Rest, Typed, Drops, Steps
<1>7. CASE Visit
  <2> DEFINE p == Last(dirs)
  <2>0. dirs \in Seq(TreePaths) /\ dirs # <<>>
    BY <1>7 DEF Visit, Typed
  <2>1. p \in ToSet(dirs)
    BY <2>0, Popped, Zenon
  <2>2. Visits(p)
    <3>1. CASE Opened(p)
      <4>1. \/ made' = made \cup {p} /\ UNCHANGED silent
            \/ made' = made /\ ~job.download /\ silent' = TRUE
        BY <3>1 DEF Opened
      <4>2. (Promised' => Promised) /\ (made' = made \cup {p} \/ (made' = made /\ ~Promised'))
        BY <1>7, <4>1 DEF Visit, Promised
      <4>3. silent' \in BOOLEAN
        BY <4>1 DEF Typed
      <4> QED
        BY <1>7, <3>1, <4>2, <4>3 DEF Visit, Opened, Idle, Running, Rest, Typed, Visits
    <3>2. CASE Unreadable(p)
      BY <1>7, <3>2 DEF Visit, Unreadable, Idle, Running, Rest, Typed, Visits, Promised
    <3> QED  BY <1>7, <3>1, <3>2 DEF Visit
  <2> QED  BY <2>1, <2>2 DEF Steps
<1>8. ASSUME NEW n \in entries,
             TakeDir(n) \/ TakeFile(n) \/ Untyped(n) \/ LeaveLink(n) \/ FollowNothing(n)
               \/ FollowLink(n)
      PROVE  Steps
  <2> DEFINE p == Append(at, n)
  <2>0. /\ n \in Nodes /\ p # <<>> /\ Last(p) = n /\ NodeOf(p) = Real(n)
        /\ n \notin Links => NodeOf(p) = n
        /\ n \in Links => NodeOf(p) \in Dirs \cup Files \cup {Broken}
    BY Entry
  <2> HIDE DEF p
  <2>1. CASE TakeDir(n)
    <3>1. Takes(n) /\ dirs' = Append(dirs, p) /\ UNCHANGED <<visited, busy, outcome, lost>>
          /\ (made' = made \/ (~job.download /\ made' = made \cup {p}))
      BY <2>1 DEF TakeDir, Take, Idle, Running, Mkdir, Typed, Takes, p
    <3>2. n \notin Links /\ NodeOf(p) \in Dirs
      BY <2>0, <2>1, TreeAssumption DEF TakeDir
    <3>3. Pushes(n)
      BY <3>1, <3>2 DEF Pushes, Marks, p
    <3> QED  BY <3>3 DEF Steps
  <2>2. CASE TakeFile(n)
    <3>1. Takes(n) /\ Begin(p) /\ UNCHANGED <<dirs, visited, made, lost>>
      BY <2>2 DEF TakeFile, Take, Idle, Running, Typed, Takes, p
    <3>2. n \notin Links /\ NodeOf(p) \in Files
      BY <2>0, <2>2, TreeAssumption DEF TakeFile
    <3>3. Begins(n)
      BY <3>1, <3>2 DEF Begins, Marks, p
    <3> QED  BY <3>3 DEF Steps
  <2>3. CASE Untyped(n)
    <3>1. Loses(n)
      BY <2>3 DEF Untyped, Take, Idle, Running, Typed, Takes, Loses
    <3> QED  BY <3>1 DEF Steps
  <2>4. CASE LeaveLink(n)
    <3>1. Passes
      BY <2>4 DEF LeaveLink, Take, Idle, Running, Typed, Passes, Promised
    <3> QED  BY <3>1 DEF Steps
  <2>5. CASE FollowNothing(n)
    <3>1. /\ UNCHANGED <<job, tree, dirs, at, busy, cancel, result, outcome, made, got, lost>>
          /\ n \in Links /\ job.policy = "follow" /\ result = "running"
          /\ entries' = entries \ {n} /\ silent' \in BOOLEAN
      BY <2>5 DEF FollowNothing, Take, Idle, Running, Typed
    <3>2. visited \subseteq visited' /\ (job.download => visited' \subseteq visited \cup {p})
      BY <2>5, Zenon DEF FollowNothing, p
    <3>3. Promised' => Promised
      BY <3>1 DEF Promised
    <3>4. Passes
      BY <2>0, <3>1, <3>2, <3>3 DEF Passes, Typed
    <3> QED  BY <3>4 DEF Steps
  <2>6. CASE FollowLink(n)
    <3>1. Takes(n) /\ n \in Links /\ job.policy = "follow" /\ UNCHANGED lost
      BY <2>6 DEF FollowLink, Take, Idle, Running, Typed, Takes
    <3>2. visited' = visited \cup {Key(p)} /\ NodeOf(p) # Broken
      BY <2>6 DEF FollowLink, Mark, p
    <3>3. Marks(n)
      BY <3>1, <3>2 DEF Marks, p
    <3>4. CASE NodeOf(p) \in Dirs
      <4>1. dirs' = Append(dirs, p) /\ UNCHANGED <<busy, outcome>> /\ Mkdir(p)
        BY <2>6, <3>4 DEF FollowLink, p
      <4>2. Pushes(n)
        BY <3>1, <3>3, <3>4, <4>1 DEF Pushes, Mkdir, p
      <4> QED  BY <4>2 DEF Steps
    <3>5. CASE NodeOf(p) \notin Dirs
      <4>1. Begin(p) /\ UNCHANGED <<dirs, made>>
        BY <2>6, <3>5 DEF FollowLink, p
      <4>2. NodeOf(p) \in Files
        BY <2>0, <3>1, <3>2, <3>5
      <4>3. Begins(n)
        BY <3>1, <3>3, <4>1, <4>2 DEF Begins, p
      <4> QED  BY <4>3 DEF Steps
    <3> QED  BY <3>4, <3>5
  <2> QED  BY <1>8, <2>1, <2>2, <2>3, <2>4, <2>5, <2>6
<1>9. ASSUME NEW p \in busy, FileDone(p) \/ FileFailed(p) PROVE Steps
  <2>1. Leaves(p)
    BY <1>9 DEF FileDone, FileFailed, Running, Typed, Leaves
  <2> QED  BY <2>1 DEF Steps
<1> QED
  BY <1>1, <1>2, <1>3, <1>4, <1>5, <1>6, <1>7, <1>8, <1>9 DEF WalkNext, Walk, Over
-----------------------------------------------------------------------------
(* Every path is taken once, and counted once.                              *)

Apart ==
  /\ Distinct(dirs) /\ got \cap busy = {} /\ got \cap lost = {} /\ busy \cap lost = {}
  /\ ToSet(dirs) \cap (got \cup busy \cup lost) = {}

\* A path is taken by going through the directory before it, which is visited once.
Once ==
  \A q \in TreePaths, n \in Nodes :
    Append(q, n) \in Taken => Key(q) \in visited /\ ~(q = at /\ n \in entries)

LostFiles == {p \in lost : NodeOf(p) \in Files}

Counted ==
  /\ IsFiniteSet(got) /\ IsFiniteSet(lost)
  /\ outcome \in [total : Nat, done : Nat, failed : Nat]
  /\ outcome.done = Cardinality(got) /\ outcome.failed = Cardinality(lost)
  /\ outcome.total >= Cardinality(got \cup busy)
  /\ outcome.total <= Cardinality(got \cup busy \cup LostFiles)

Sound == Typed /\ Apart /\ Once /\ Counted

\* An entry that is left was not taken before.
LEMMA NewEntry ==
  ASSUME Typed, Once, NEW n \in entries PROVE Append(at, n) \notin Taken
BY Entry DEF Typed, Once

LEMMA TypedKept == Typed /\ [WalkNext]_walkVars => Typed'
<1> SUFFICES ASSUME Typed, Steps PROVE Typed'
  BY StepsOfNext
<1> USE DEF Flags
<1>0. UNCHANGED <<job, tree>>
  BY DEF Steps, Passes, Drops, Visits, Pushes, Begins, Loses, Takes, Leaves
<1>1. \A p : NodeOf(p)' = NodeOf(p) /\ Kids(p)' = Kids(p) /\ Key(p)' = Key(p)
  BY <1>0, SameTree
<1>2. CASE Passes
  BY <1>1, <1>2 DEF Typed, Passes
<1>3. CASE Drops
  <2>1. dirs' \in Seq(TreePaths) /\ ToSet(dirs') \subseteq ToSet(dirs)
    BY <1>3, Popped DEF Drops, Typed
  <2> QED  BY <1>1, <1>3, <2>1 DEF Typed, Drops
<1>4. ASSUME NEW p \in ToSet(dirs), Visits(p) PROVE Typed'
  <2>1. dirs' \in Seq(TreePaths) /\ ToSet(dirs') \subseteq ToSet(dirs) /\ p \in TreePaths
    BY <1>4, Popped DEF Visits, Typed
  <2>2. at' \in TreePaths /\ NodeOf(at') \in Dirs /\ entries' \subseteq Kids(at')
        /\ (entries' # {} => Key(at') \in visited')
    BY <1>4, <2>1 DEF Visits, Typed
  <2>3. made' \subseteq made \cup {p} /\ NodeOf(p) \in Dirs
    BY <1>4 DEF Visits, Typed
  <2> QED  BY <1>1, <1>4, <2>1, <2>2, <2>3 DEF Typed, Visits
<1>5. ASSUME NEW n \in entries, Pushes(n) \/ Begins(n) \/ Loses(n) PROVE Typed'
  <2> DEFINE p == Append(at, n)
  <2>1. p \in TreePaths
    BY Entry
  <2> HIDE DEF p
  <2>2. visited \subseteq visited'
    BY <1>5 DEF Pushes, Begins, Loses, Marks
  <2>3. /\ UNCHANGED <<job, tree, at, silent>> /\ entries' \subseteq entries
        /\ Flags /\ busy = {} /\ result' = "running"
    BY <1>5 DEF Pushes, Begins, Loses, Takes
  <2>4. /\ dirs' \in Seq(TreePaths)
        /\ \A q \in ToSet(dirs') : q \in ToSet(dirs) \/ NodeOf(q) \in Dirs
    <3>1. CASE Pushes(n)
      BY <2>1, <3>1, Pushed DEF Pushes, Typed, p
    <3>2. CASE dirs' = dirs
      BY <3>2 DEF Typed
    <3> QED  BY <1>5, <3>1, <3>2 DEF Begins, Loses
  <2>5. busy' = {} \/ (busy' = {p} /\ NodeOf(p) \in Files)
    BY <1>5, <2>3 DEF Pushes, Begins, Loses, Begin, p
  <2>6. made' = made \/ (made' = made \cup {p} /\ NodeOf(p) \in Dirs)
    BY <1>5 DEF Pushes, Begins, Loses, p
  <2> QED  BY <1>1, <2>1, <2>2, <2>3, <2>4, <2>5, <2>6 DEF Typed
<1>6. ASSUME NEW p \in busy, Leaves(p) PROVE Typed'
  BY <1>1, <1>6 DEF Typed, Leaves
<1> QED  BY <1>2, <1>3, <1>4, <1>5, <1>6 DEF Steps

LEMMA ApartKept == Typed /\ Apart /\ Once /\ [WalkNext]_walkVars => Apart'
<1> SUFFICES ASSUME Typed, Apart, Once, Steps PROVE Apart'
  BY StepsOfNext
<1>2. CASE Passes
  BY <1>2 DEF Apart, Passes
<1>3. CASE Drops
  <2>1. Distinct(dirs') /\ ToSet(dirs') \subseteq ToSet(dirs)
    BY <1>3, Popped DEF Drops, Typed, Apart
  <2> QED  BY <1>3, <2>1 DEF Apart, Drops
<1>4. ASSUME NEW p \in ToSet(dirs), Visits(p) PROVE Apart'
  <2>1. Distinct(dirs') /\ ToSet(dirs') \subseteq ToSet(dirs) /\ p \notin ToSet(dirs')
    BY <1>4, Popped DEF Visits, Typed, Apart
  <2>2. lost' \subseteq lost \cup {p} /\ UNCHANGED <<got, busy>>
    BY <1>4 DEF Visits, Fail
  <2> QED  BY <2>1, <2>2 DEF Apart
<1>5. ASSUME NEW n \in entries, Pushes(n) \/ Begins(n) \/ Loses(n) PROVE Apart'
  <2> DEFINE p == Append(at, n)
  <2>1. p \in TreePaths /\ p \notin Taken
    BY Entry, NewEntry
  <2> HIDE DEF p
  <2>2. CASE Pushes(n)
    <3>1. dirs' = Append(dirs, p) /\ UNCHANGED <<got, busy, lost>>
      BY <2>2 DEF Pushes, Takes, p
    <3>2. Distinct(dirs') /\ ToSet(dirs') = ToSet(dirs) \cup {p}
      BY <2>1, <3>1, Pushed DEF Typed, Apart, Taken
    <3> QED  BY <2>1, <3>1, <3>2 DEF Apart, Taken
  <2>3. CASE Begins(n)
    <3>1. busy' = {p} /\ UNCHANGED <<got, dirs, lost>>
      BY <2>3 DEF Begins, Begin, Takes, p
    <3> QED  BY <2>1, <3>1 DEF Apart, Taken
  <2>4. CASE Loses(n)
    <3>1. lost' = lost \cup {p} /\ UNCHANGED <<got, dirs, busy>>
      BY <2>4 DEF Loses, Fail, Takes, p
    <3> QED  BY <2>1, <3>1 DEF Apart, Taken
  <2> QED  BY <1>5, <2>2, <2>3, <2>4
<1>6. ASSUME NEW p \in busy, Leaves(p) PROVE Apart'
  BY <1>6 DEF Apart, Leaves, Fail
<1> QED  BY <1>2, <1>3, <1>4, <1>5, <1>6 DEF Steps

LEMMA OnceKept == Typed /\ Once /\ [WalkNext]_walkVars => Once'
<1> SUFFICES ASSUME Typed, Once, Steps PROVE Once'
  BY StepsOfNext
<1>0. UNCHANGED <<job, tree>>
  BY DEF Steps, Passes, Drops, Visits, Pushes, Begins, Loses, Takes, Leaves
<1>1. \A p : NodeOf(p)' = NodeOf(p) /\ Kids(p)' = Kids(p) /\ Key(p)' = Key(p)
  BY <1>0, SameTree
<1>2. CASE visited \subseteq visited' /\ Taken' \subseteq Taken /\ at' = at
           /\ entries' \subseteq entries
  BY <1>1, <1>2 DEF Once
<1>3. CASE Passes
  BY <1>2, <1>3 DEF Passes, Taken
<1>4. CASE Drops
  <2>1. ToSet(dirs') \subseteq ToSet(dirs)
    BY <1>4, Popped DEF Drops, Typed
  <2> QED  BY <1>2, <1>4, <2>1 DEF Drops, Taken
<1>5. ASSUME NEW p \in ToSet(dirs), Visits(p) PROVE Once'
  <2>1. ToSet(dirs') \subseteq ToSet(dirs)
    BY <1>5, Popped DEF Visits, Typed
  <2>2. lost' \subseteq lost \cup {p} /\ UNCHANGED <<got, busy>> /\ visited \subseteq visited'
    BY <1>5 DEF Visits, Fail
  <2>3. Taken' \subseteq Taken
    BY <2>1, <2>2 DEF Taken
  <2>4. CASE at' = at /\ entries' = entries
    BY <1>2, <2>2, <2>3, <2>4
  <2>5. CASE at' = p /\ Key(p) \notin visited
    BY <1>1, <2>2, <2>3, <2>5 DEF Once
  <2> QED  BY <1>5, <2>4, <2>5 DEF Visits
<1>6. ASSUME NEW n \in entries, Pushes(n) \/ Begins(n) \/ Loses(n) PROVE Once'
  <2> DEFINE p == Append(at, n)
  <2>1. p \in TreePaths /\ n \in Nodes /\ at \in TreePaths /\ Key(at) \in visited
    BY Entry DEF Typed
  <2>2. \A q \in TreePaths, m \in Nodes : Append(q, m) = p => q = at /\ m = n
    BY <2>1, AppendSame DEF TreePaths
  <2> HIDE DEF p
  <2>3. visited \subseteq visited' /\ at' = at /\ entries' = entries \ {n}
    BY <1>6 DEF Pushes, Begins, Loses, Takes, Marks
  <2>4. Taken' \subseteq Taken \cup {p}
    <3>1. CASE Pushes(n)
      <4>1. dirs' = Append(dirs, p) /\ dirs \in Seq(TreePaths)
        BY <3>1 DEF Pushes, Typed, p
      <4>2. ToSet(dirs') = ToSet(dirs) \cup {p}
        BY <2>1, <4>1, Pushed
      <4> QED  BY <3>1, <4>2 DEF Pushes, Takes, Taken
    <3> QED  BY <1>6, <3>1 DEF Begins, Begin, Loses, Fail, Takes, Taken, p
  <2> QED  BY <1>1, <2>1, <2>2, <2>3, <2>4 DEF Once
<1>7. ASSUME NEW p \in busy, Leaves(p) PROVE Once'
  <2>1. Taken' \subseteq Taken
    BY <1>7 DEF Leaves, Fail, Taken
  <2> QED  BY <1>2, <1>7, <2>1 DEF Leaves
<1> QED  BY <1>3, <1>4, <1>5, <1>6, <1>7 DEF Steps

LEMMA OneMore ==
  ASSUME NEW S, IsFiniteSet(S), NEW x, x \notin S
  PROVE  IsFiniteSet(S \cup {x}) /\ Cardinality(S \cup {x}) = Cardinality(S) + 1
BY FS_AddElement

LEMMA NoMore ==
  ASSUME NEW S, NEW T, IsFiniteSet(S), T \subseteq S
  PROVE  /\ IsFiniteSet(T) /\ Cardinality(T) <= Cardinality(S)
         /\ Cardinality(T) \in Nat /\ Cardinality(S) \in Nat
BY FS_Subset, FS_CardinalityType

LEMMA CountedKept == Sound /\ [WalkNext]_walkVars => Counted'
<1> SUFFICES ASSUME Sound, Steps PROVE Counted'
  BY StepsOfNext DEF Sound
<1> USE DEF Sound
<1> DEFINE under == got \cup busy
           over  == got \cup busy \cup LostFiles
<1>0. UNCHANGED <<job, tree>>
  BY DEF Steps, Passes, Drops, Visits, Pushes, Begins, Loses, Takes, Leaves
<1>1. \A p : NodeOf(p)' = NodeOf(p)
  BY <1>0, SameTree
<1>2. IsFiniteSet(under) /\ IsFiniteSet(over)
  <2>1. IsFiniteSet(LostFiles)
    BY NoMore DEF Counted, LostFiles
  <2>2. busy = {} \/ \E p : busy = {p}
    <3>1. ASSUME NEW p \in busy PROVE busy = {p}
      BY DEF Typed
    <3> QED  BY <3>1
  <2>3. IsFiniteSet(got \cup busy)
    <3>1. CASE busy = {}
      <4>1. got \cup busy = got
        BY <3>1
      <4> QED  BY <4>1 DEF Counted
    <3>2. ASSUME NEW p, busy = {p} PROVE IsFiniteSet(got \cup busy)
      BY <3>2, FS_AddElement DEF Counted
    <3> QED  BY <2>2, <3>1, <3>2
  <2>4. IsFiniteSet(got \cup LostFiles)
    BY <2>1, FS_Union DEF Counted
  <2>5. IsFiniteSet((got \cup LostFiles) \cup busy)
    BY <2>2, <2>4, FS_AddElement
  <2>6. (got \cup LostFiles) \cup busy = over
    OBVIOUS
  <2> QED  BY <2>3, <2>5, <2>6
<1>3. /\ Cardinality(under) \in Nat /\ Cardinality(over) \in Nat
      /\ Cardinality(got) \in Nat /\ Cardinality(lost) \in Nat
  BY <1>2, FS_CardinalityType DEF Counted
<1>4. LostFiles' = {p \in lost' : NodeOf(p) \in Files}
  BY <1>1 DEF LostFiles
\* One path more is lost.
<1>5. ASSUME NEW p, p \notin lost, Fail(p), UNCHANGED got, busy' \subseteq busy,
             busy \subseteq busy' \cup {p}, p \in busy => NodeOf(p) \in Files
      PROVE  Counted'
  <2>1. lost' = lost \cup {p} /\ IsFiniteSet(lost') /\ Cardinality(lost') = Cardinality(lost) + 1
    BY <1>5, OneMore DEF Fail, Counted
  <2>2. /\ outcome' \in [total : Nat, done : Nat, failed : Nat]
        /\ outcome'.total = outcome.total /\ outcome'.done = outcome.done
        /\ outcome'.failed = outcome.failed + 1
    BY <1>5 DEF Fail, Counted
  <2>3. under' \subseteq under
    BY <1>5
  <2>4. over \subseteq over'
    <3>1. LostFiles \subseteq LostFiles'
      BY <1>4, <2>1 DEF LostFiles
    <3>2. busy \subseteq busy' \cup LostFiles'
      BY <1>4, <1>5, <2>1
    <3> QED  BY <1>5, <3>1, <3>2
  <2>5. IsFiniteSet(over')
    <3>1. over' \subseteq over \cup {p}
      BY <1>4, <1>5, <2>1 DEF LostFiles
    <3>2. IsFiniteSet(over \cup {p})
      BY <1>2, FS_AddElement
    <3> QED  BY <3>1, <3>2, NoMore
  <2>6. /\ Cardinality(under') <= Cardinality(under) /\ Cardinality(under') \in Nat
        /\ Cardinality(over) <= Cardinality(over') /\ Cardinality(over') \in Nat
    BY <1>2, <2>3, <2>4, <2>5, NoMore
  <2> HIDE DEF under, over
  <2>7. outcome'.total >= Cardinality(under') /\ outcome'.total <= Cardinality(over')
    <3>1. outcome.total >= Cardinality(under) /\ outcome.total <= Cardinality(over)
          /\ outcome.total \in Nat
      BY DEF Counted, under, over
    <3> QED  BY <1>3, <2>2, <2>6, <3>1
  <2> QED  BY <1>5, <2>1, <2>2, <2>7 DEF Counted, under, over
<1>6. CASE UNCHANGED <<got, busy, lost, outcome>>
  BY <1>4, <1>6 DEF Counted, LostFiles
<1>7. CASE Passes
  BY <1>6, <1>7 DEF Passes
<1>8. CASE Drops
  BY <1>6, <1>8 DEF Drops
<1>9. ASSUME NEW p \in ToSet(dirs), Visits(p) PROVE Counted'
  <2>1. CASE UNCHANGED <<outcome, lost>>
    BY <1>6, <1>9, <2>1 DEF Visits
  <2>2. CASE Fail(p)
    <3>1. p \notin lost /\ p \notin busy
      BY DEF Apart
    <3> QED  BY <1>5, <1>9, <2>2, <3>1 DEF Visits
  <2> QED  BY <1>9, <2>1, <2>2 DEF Visits
<1>10. ASSUME NEW n \in entries, Pushes(n) \/ Begins(n) \/ Loses(n) PROVE Counted'
  <2> DEFINE p == Append(at, n)
  <2>1. p \notin Taken
    BY NewEntry
  <2> HIDE DEF p
  <2>2. CASE Pushes(n)
    BY <1>6, <2>2 DEF Pushes, Takes
  <2>3. CASE Begins(n)
    <3>1. /\ busy = {} /\ busy' = {p} /\ UNCHANGED <<got, lost>>
          /\ outcome' = [outcome EXCEPT !.total = @ + 1]
      BY <2>3 DEF Begins, Begin, Takes, p
    <3>2. /\ outcome' \in [total : Nat, done : Nat, failed : Nat]
          /\ outcome'.total = outcome.total + 1 /\ outcome'.done = outcome.done
          /\ outcome'.failed = outcome.failed
      BY <3>1 DEF Counted
    <3>3. LostFiles' = LostFiles
      BY <1>4, <3>1 DEF LostFiles
    <3>4. under' = under \cup {p} /\ over' = over \cup {p}
      BY <3>1, <3>3
    <3>5. p \notin under /\ p \notin over
      BY <2>1 DEF Taken, LostFiles
    <3>6. /\ Cardinality(under') = Cardinality(under) + 1
          /\ Cardinality(over') = Cardinality(over) + 1
      BY <1>2, <3>4, <3>5, OneMore
    <3> HIDE DEF under, over
    <3>7. outcome.total >= Cardinality(under) /\ outcome.total <= Cardinality(over)
          /\ outcome.total \in Nat
      BY DEF Counted, under, over
    <3>8. outcome'.total >= Cardinality(under') /\ outcome'.total <= Cardinality(over')
      BY <1>3, <3>2, <3>6, <3>7
    <3> QED  BY <3>1, <3>2, <3>8 DEF Counted, under, over
  <2>4. CASE Loses(n)
    <3>1. Fail(p) /\ UNCHANGED <<got, busy>>
      BY <2>4 DEF Loses, Takes, p
    <3> QED  BY <1>5, <2>1, <3>1 DEF Taken
  <2> QED  BY <1>10, <2>2, <2>3, <2>4
<1>11. ASSUME NEW p \in busy, Leaves(p) PROVE Counted'
  <2>1. busy = {p} /\ busy' = {} /\ p \notin got /\ p \notin lost /\ NodeOf(p) \in Files
    BY <1>11 DEF Leaves, Typed, Apart
  <2>2. CASE Fail(p) /\ UNCHANGED got
    BY <1>5, <2>1, <2>2
  <2>3. CASE /\ outcome' = [outcome EXCEPT !.done = @ + 1] /\ got' = got \cup {p}
             /\ UNCHANGED lost
    <3>1. IsFiniteSet(got') /\ Cardinality(got') = Cardinality(got) + 1
      BY <2>1, <2>3, OneMore DEF Counted
    <3>2. /\ outcome' \in [total : Nat, done : Nat, failed : Nat]
          /\ outcome'.total = outcome.total /\ outcome'.done = outcome.done + 1
          /\ outcome'.failed = outcome.failed
      BY <2>3 DEF Counted
    <3>3. LostFiles' = LostFiles
      BY <1>4, <2>3 DEF LostFiles
    <3>4. under' = under /\ over' = over
      BY <2>1, <2>3, <3>3
    <3> HIDE DEF under, over
    <3>5. outcome.total >= Cardinality(under) /\ outcome.total <= Cardinality(over)
      BY DEF Counted, under, over
    <3>6. outcome'.total >= Cardinality(under') /\ outcome'.total <= Cardinality(over')
      BY <3>2, <3>4, <3>5
    <3> QED  BY <2>3, <3>1, <3>2, <3>6 DEF Counted, under, over
  <2> QED  BY <1>11, <2>2, <2>3 DEF Leaves
<1> QED  BY <1>7, <1>8, <1>9, <1>10, <1>11 DEF Steps
-----------------------------------------------------------------------------
(* The walk goes down, whatever the links are.                              *)

\* p leads down, from directory to directory, by no link.
Rising(p, depth) ==
  \A i \in DOMAIN p :
    /\ p[i] \in Dirs /\ depth[Top] < depth[p[i]]
    /\ \A j \in DOMAIN p : i < j => depth[p[i]] < depth[p[j]]

Depths == {depth \in [Dirs -> 0 .. Cardinality(Dirs)] : Deepens(tree.kids, depth)}

\* A directory that is not walked for the first time is walked no more: that
\* one only may have been come to by a link.
Straight ==
  \A depth \in Depths :
    Rising(at, depth) /\ \A p \in ToSet(dirs) : Key(p) \in visited \/ Rising(p, depth)

LEMMA RisingNode ==
  ASSUME NEW depth \in Depths, NEW p \in TreePaths, Rising(p, depth)
  PROVE  NodeOf(p) = IF p = <<>> THEN Top ELSE p[Len(p)]
<1>1. ASSUME p # <<>> PROVE Real(p[Len(p)]) = p[Len(p)]
  <2>1. Len(p) \in DOMAIN p
    BY <1>1 DEF TreePaths
  <2>2. p[Len(p)] \in Dirs
    BY <2>1 DEF Rising
  <2> QED  BY <2>2, TreeAssumption DEF Real
<1> QED  BY <1>1 DEF NodeOf, Last

LEMMA RisingAppend ==
  ASSUME NEW depth \in Depths, NEW p \in TreePaths, Rising(p, depth),
         NEW n \in Kids(p) \cap Dirs
  PROVE  Rising(Append(p, n), depth)
<1> DEFINE q == Append(p, n)
<1>1. n \in Nodes /\ Top \in Dirs
  BY TreeAssumption DEF Nodes
<1>2. /\ q \in TreePaths /\ Len(q) = Len(p) + 1 /\ q[Len(p) + 1] = n
      /\ \A i \in 1 .. Len(p) : q[i] = p[i]
  BY <1>1, Pushed DEF TreePaths
<1>3. Len(p) \in Nat /\ DOMAIN p = 1 .. Len(p) /\ DOMAIN q = 1 .. Len(p) + 1
  BY <1>2 DEF TreePaths
<1>4. NodeOf(p) = IF p = <<>> THEN Top ELSE p[Len(p)]
  BY RisingNode
<1>5. NodeOf(p) \in Dirs
  <2>1. CASE p = <<>>
    BY <1>1, <1>4, <2>1
  <2>2. CASE p # <<>>
    <3>1. Len(p) \in DOMAIN p
      BY <1>3, <2>2 DEF TreePaths
    <3> QED  BY <1>4, <2>2, <3>1 DEF Rising
  <2> QED  BY <2>1, <2>2
<1>6. depth[NodeOf(p)] < depth[n]
  BY <1>5 DEF Depths, Deepens, Kids
<1>7. \A d \in Dirs : depth[d] \in Int
  BY DEF Depths
<1> HIDE DEF q
<1>8. \A i \in DOMAIN p : p[i] \in Dirs /\ depth[Top] < depth[p[i]] /\ depth[p[i]] < depth[n]
  <2> SUFFICES ASSUME NEW i \in DOMAIN p
               PROVE  p[i] \in Dirs /\ depth[Top] < depth[p[i]] /\ depth[p[i]] < depth[n]
    OBVIOUS
  <2>1. p[i] \in Dirs /\ depth[Top] < depth[p[i]]
    BY DEF Rising
  <2>2. p # <<>> /\ Len(p) \in DOMAIN p /\ (i = Len(p) \/ i < Len(p))
    BY <1>3
  <2>3. depth[p[i]] < depth[n]
    <3>1. CASE i = Len(p)
      BY <1>4, <1>6, <2>2, <3>1
    <3>2. CASE i < Len(p)
      <4>1. depth[p[i]] < depth[p[Len(p)]] /\ depth[p[Len(p)]] < depth[n] /\ p[Len(p)] \in Dirs
        BY <1>4, <1>6, <2>2, <3>2 DEF Rising
      <4> QED  BY <1>1, <1>7, <2>1, <4>1
    <3> QED  BY <2>2, <3>1, <3>2
  <2> QED  BY <2>1, <2>3
<1>9. depth[Top] < depth[n]
  <2>1. CASE p = <<>>
    BY <1>4, <1>6, <2>1
  <2>2. CASE p # <<>>
    <3>1. Len(p) \in DOMAIN p
      BY <1>3, <2>2 DEF TreePaths
    <3> QED  BY <1>1, <1>7, <1>8, <3>1
  <2> QED  BY <2>1, <2>2
<1>10. Rising(q, depth)
  <2>1. \A i \in DOMAIN q : (i \in DOMAIN p /\ q[i] = p[i]) \/ (i = Len(p) + 1 /\ q[i] = n)
    BY <1>2, <1>3
  <2>2. \A i \in DOMAIN q : q[i] \in Dirs /\ depth[Top] < depth[q[i]]
    BY <1>8, <1>9, <2>1
  <2>3. \A i, j \in DOMAIN q : i < j => depth[q[i]] < depth[q[j]]
    <3> SUFFICES ASSUME NEW i \in DOMAIN q, NEW j \in DOMAIN q, i < j
                 PROVE  depth[q[i]] < depth[q[j]]
      OBVIOUS
    <3>1. i \in DOMAIN p /\ q[i] = p[i]
      BY <1>2, <1>3
    <3> QED  BY <1>8, <2>1, <3>1 DEF Rising
  <2> QED  BY <2>2, <2>3 DEF Rising
<1> QED  BY <1>10 DEF q

LEMMA StraightKept == Typed /\ Straight /\ [WalkNext]_walkVars => Straight'
<1> SUFFICES ASSUME Typed, Straight, Steps PROVE Straight'
  BY StepsOfNext
<1>0. UNCHANGED <<job, tree>>
  BY DEF Steps, Passes, Drops, Visits, Pushes, Begins, Loses, Takes, Leaves
<1>1. (\A p : Key(p)' = Key(p)) /\ Depths' = Depths
  BY <1>0, SameTree DEF Depths
<1>2. CASE at' = at /\ ToSet(dirs') \subseteq ToSet(dirs) /\ visited \subseteq visited'
  BY <1>1, <1>2 DEF Straight
<1>3. CASE Passes
  BY <1>2, <1>3 DEF Passes
<1>4. CASE Drops
  <2>1. ToSet(dirs') \subseteq ToSet(dirs)
    BY <1>4, Popped DEF Drops, Typed
  <2> QED  BY <1>2, <1>4, <2>1 DEF Drops
<1>5. ASSUME NEW p \in ToSet(dirs), Visits(p) PROVE Straight'
  <2>1. ToSet(dirs') \subseteq ToSet(dirs)
    BY <1>5, Popped DEF Visits, Typed
  <2>2. visited \subseteq visited' /\ Key(p) \notin visited /\ (at' = p \/ at' = at)
    BY <1>5 DEF Visits
  <2> QED  BY <1>1, <2>1, <2>2 DEF Straight
<1>6. ASSUME NEW n \in entries, Pushes(n) PROVE Straight'
  <2> DEFINE p == Append(at, n)
  <2>1. p \in TreePaths /\ (n \notin Links => n \in Dirs)
    BY <1>6, Entry DEF Pushes
  <2>2. \A depth \in Depths : Key(p) \in visited' \/ Rising(p, depth)
    <3>1. CASE n \in Links
      BY <1>6, <3>1 DEF Pushes, Marks
    <3>2. CASE n \notin Links
      <4>1. n \in Kids(at) \cap Dirs /\ at \in TreePaths
        BY <2>1, <3>2 DEF Typed
      <4>2. \A depth \in Depths : Rising(at, depth)
        BY DEF Straight
      <4> QED  BY <4>1, <4>2, RisingAppend
    <3> QED  BY <3>1, <3>2
  <2> HIDE DEF p
  <2>3. dirs' = Append(dirs, p) /\ dirs \in Seq(TreePaths) /\ at' = at /\ visited \subseteq visited'
    BY <1>6 DEF Pushes, Takes, Marks, Typed, p
  <2>4. ToSet(dirs') = ToSet(dirs) \cup {p}
    BY <2>1, <2>3, Pushed
  <2> QED  BY <1>1, <2>2, <2>3, <2>4 DEF Straight
<1>7. ASSUME NEW n \in entries, Begins(n) \/ Loses(n) PROVE Straight'
  BY <1>2, <1>7 DEF Begins, Loses, Takes, Marks
<1>8. ASSUME NEW p \in busy, Leaves(p) PROVE Straight'
  BY <1>2, <1>8 DEF Leaves
<1> QED  BY <1>3, <1>4, <1>5, <1>6, <1>7, <1>8 DEF Steps

\* A path that leads down comes to no directory twice.
LEMMA DownIsNoLoop ==
  ASSUME NEW depth \in Depths, NEW p \in TreePaths, Rising(p, depth)
  PROVE  \A i, j \in 0 .. Len(p) : i # j => NodeOf(SubSeq(p, 1, i)) # NodeOf(SubSeq(p, 1, j))
<1> DEFINE node(i) == IF i = 0 THEN Top ELSE p[i]
<1>1. \A i \in 0 .. Len(p) : NodeOf(SubSeq(p, 1, i)) = node(i)
  <2> SUFFICES ASSUME NEW i \in 0 .. Len(p) PROVE NodeOf(SubSeq(p, 1, i)) = node(i)
    OBVIOUS
  <2> DEFINE q == SubSeq(p, 1, i)
  <2>1. q \in TreePaths /\ Len(q) = i /\ \A j \in 1 .. i : q[j] = p[j]
    BY DEF TreePaths
  <2>2. 1 .. i \subseteq DOMAIN p /\ DOMAIN q = 1 .. i
    BY <2>1 DEF TreePaths
  <2> HIDE DEF q
  <2>3. Rising(q, depth)
    BY <2>1, <2>2 DEF Rising
  <2>4. NodeOf(q) = IF q = <<>> THEN Top ELSE q[Len(q)]
    BY <2>1, <2>3, RisingNode
  <2>5. q = <<>> <=> i = 0
    BY <2>1 DEF TreePaths
  <2>6. i # 0 => q[i] = p[i]
    BY <2>1
  <2> QED  BY <2>1, <2>4, <2>5, <2>6 DEF q
<1>2. \A i, j \in 0 .. Len(p) : i < j => node(i) # node(j)
  <2> SUFFICES ASSUME NEW i \in 0 .. Len(p), NEW j \in 0 .. Len(p), i < j
               PROVE  node(i) # node(j)
    OBVIOUS
  <2>1. j \in DOMAIN p /\ j # 0 /\ (i = 0 \/ i \in DOMAIN p)
    BY DEF TreePaths
  <2>2. depth[Top] < depth[p[j]] /\ (i # 0 => depth[p[i]] < depth[p[j]])
    BY <2>1 DEF Rising
  <2>3. depth[Top] \in Int /\ depth[p[j]] \in Int
    BY <2>1, TreeAssumption DEF Depths, Rising
  <2> QED  BY <2>1, <2>2, <2>3
<1> HIDE DEF node
<1>3. \A i, j \in 0 .. Len(p) : i # j => node(i) # node(j)
  <2> SUFFICES ASSUME NEW i \in 0 .. Len(p), NEW j \in 0 .. Len(p), i # j
               PROVE  node(i) # node(j)
    OBVIOUS
  <2>1. i < j \/ j < i
    OBVIOUS
  <2> QED  BY <1>2, <2>1
<1> QED  BY <1>1, <1>3
-----------------------------------------------------------------------------
(* What is walked is accounted for.                                         *)

Plain == ~job.download /\ job.policy # "follow"

\* A download has visited what it made, what failed, and links.
Marked ==
  job.download => \A p \in visited : p \in made \cup lost \/ (p # <<>> /\ Last(p) \in Links)

\* The directory x was visited, or is to be.
Met(x) == <<x>> \in visited \/ \E p \in ToSet(dirs) : NodeOf(p) = x

\* An upload that follows no link meets each directory once, after the one that it is in.
NodesOnce ==
  Plain =>
    /\ \A p \in ToSet(dirs) : <<NodeOf(p)>> \notin visited
    /\ \A p, q \in ToSet(dirs) : NodeOf(p) = NodeOf(q) => p = q
    /\ \A d \in Dirs : \A x \in tree.kids[d] \cap Dirs :
         Met(x) => <<d>> \in visited /\ ~(d = NodeOf(at) /\ x \in entries)

\* The node n of the directory p has been dealt with, or is about to be.
Covered(p, n) == Append(p, n) \in made \cup Taken \/ (p = at /\ n \in entries)

Account ==
  Promised =>
    /\ <<>> \in made \cup lost \cup ToSet(dirs)
    /\ \A p \in made \ lost :
         (~job.download /\ p \in ToSet(dirs)) \/ \A n \in Kids(p) \ Links : Covered(p, n)

Ended == result = "done" => dirs = <<>> /\ entries = {} /\ busy = {}

LEMMA PlainKey ==
  ASSUME Typed, Plain, NEW p, NodeOf(p) \in Dirs PROVE Key(p) = <<NodeOf(p)>>
BY TreeAssumption DEF Plain, Key, Nodes

LEMMA MarkedKept == Typed /\ Marked /\ [WalkNext]_walkVars => Marked'
<1> SUFFICES ASSUME Typed, Marked, Steps, job'.download PROVE Marked'
  BY StepsOfNext DEF Marked
<1>0. UNCHANGED <<job, tree>>
  BY DEF Steps, Passes, Drops, Visits, Pushes, Begins, Loses, Takes, Leaves
<1>1. job.download /\ \A p : Key(p) = p
  BY <1>0 DEF Key
<1>2. CASE Passes
  BY <1>1, <1>2 DEF Passes, Marked
<1>3. CASE Drops
  BY <1>1, <1>3 DEF Drops, Marked
<1>4. ASSUME NEW p \in ToSet(dirs), Visits(p) PROVE Marked'
  <2>1. p \in made' \cup lost' /\ made \subseteq made' /\ lost \subseteq lost'
        /\ visited' = visited \cup {p}
    BY <1>1, <1>4 DEF Visits, Fail, Promised
  <2> QED  BY <1>1, <2>1 DEF Marked
<1>5. ASSUME NEW n \in entries, Pushes(n) \/ Begins(n) \/ Loses(n) PROVE Marked'
  <2>1. made \subseteq made' /\ lost \subseteq lost'
    BY <1>5 DEF Pushes, Begins, Loses, Fail, Takes
  <2>2. visited' = visited \/ (n \in Links /\ visited' = visited \cup {Append(at, n)})
    BY <1>1, <1>5 DEF Pushes, Begins, Loses, Marks
  <2>3. Append(at, n) # <<>> /\ Last(Append(at, n)) = n
    BY Entry
  <2> QED  BY <1>1, <2>1, <2>2, <2>3 DEF Marked
<1>6. ASSUME NEW p \in busy, Leaves(p) PROVE Marked'
  BY <1>1, <1>6 DEF Leaves, Fail, Marked
<1> QED  BY <1>2, <1>3, <1>4, <1>5, <1>6 DEF Steps

LEMMA NodesOnceKept == Typed /\ Apart /\ NodesOnce /\ [WalkNext]_walkVars => NodesOnce'
<1> SUFFICES ASSUME Typed, Apart, NodesOnce, Steps, Plain' PROVE NodesOnce'
  BY StepsOfNext DEF NodesOnce
<1>0. UNCHANGED <<job, tree>>
  BY DEF Steps, Passes, Drops, Visits, Pushes, Begins, Loses, Takes, Leaves
<1>1. Plain /\ \A p : NodeOf(p)' = NodeOf(p) /\ Kids(p)' = Kids(p)
  BY <1>0, SameTree DEF Plain
<1>2. /\ \A p \in ToSet(dirs) : <<NodeOf(p)>> \notin visited
      /\ \A p, q \in ToSet(dirs) : NodeOf(p) = NodeOf(q) => p = q
      /\ \A d \in Dirs : \A x \in tree.kids[d] \cap Dirs :
           Met(x) => <<d>> \in visited /\ ~(d = NodeOf(at) /\ x \in entries)
  BY <1>1 DEF NodesOnce
<1>3. \A x : Met(x)' <=> <<x>> \in visited' \/ \E p \in ToSet(dirs') : NodeOf(p) = x
  BY <1>1 DEF Met
<1>4. CASE visited' = visited /\ dirs' = dirs /\ at' = at /\ entries' \subseteq entries
  <2>1. \A x : Met(x)' <=> Met(x)
    BY <1>3, <1>4 DEF Met
  <2> QED  BY <1>0, <1>1, <1>2, <1>4, <2>1 DEF NodesOnce
<1>5. CASE Passes
  BY <1>1, <1>4, <1>5 DEF Passes, Plain
<1>6. CASE Drops
  <2>1. Last(dirs) \in ToSet(dirs)
    BY <1>6, Popped DEF Drops, Typed
  <2>2. Key(Last(dirs)) = <<NodeOf(Last(dirs))>>
    BY <1>1, <2>1, PlainKey DEF Typed
  <2> QED  BY <1>2, <1>6, <2>1, <2>2 DEF Drops
<1>7. ASSUME NEW p \in ToSet(dirs), Visits(p) PROVE NodesOnce'
  <2>1. /\ ToSet(dirs') \subseteq ToSet(dirs) /\ p \notin ToSet(dirs')
        /\ ToSet(dirs) = ToSet(dirs') \cup {p}
    BY <1>7, Popped DEF Visits, Typed, Apart
  <2>2. visited' = visited \cup {<<NodeOf(p)>>} /\ <<NodeOf(p)>> \notin visited
    BY <1>1, <1>7, PlainKey DEF Visits, Typed
  <2>3. \A q \in ToSet(dirs') : <<NodeOf(q)>> \notin visited'
    <3> SUFFICES ASSUME NEW q \in ToSet(dirs') PROVE <<NodeOf(q)>> \notin visited'
      OBVIOUS
    <3>1. NodeOf(q) # NodeOf(p)
      BY <1>2, <2>1
    <3>2. <<NodeOf(q)>> # <<NodeOf(p)>>
      BY <3>1
    <3> QED  BY <1>2, <2>1, <2>2, <3>2
  <2>4. \A x : Met(x)' => Met(x)
    <3> SUFFICES ASSUME NEW x, Met(x)' PROVE Met(x)
      OBVIOUS
    <3>1. <<x>> \in visited \/ <<x>> = <<NodeOf(p)>> \/ \E q \in ToSet(dirs) : NodeOf(q) = x
      BY <1>3, <2>1, <2>2
    <3>2. <<x>> = <<NodeOf(p)>> => x = NodeOf(p)
      OBVIOUS
    <3> QED  BY <3>1, <3>2 DEF Met
  <2>5. ASSUME NEW d \in Dirs, NEW x \in tree.kids[d] \cap Dirs, Met(x)'
        PROVE  <<d>> \in visited' /\ ~(d = NodeOf(at') /\ x \in entries')
    <3>1. Met(x)
      BY <2>4, <2>5
    <3>2. <<d>> \in visited /\ ~(d = NodeOf(at) /\ x \in entries)
      BY <1>2, <3>1
    <3>3. d # NodeOf(p)
      BY <2>2, <3>2
    <3> QED  BY <1>7, <2>2, <3>2, <3>3 DEF Visits
  <2>6. \A q, r \in ToSet(dirs') : NodeOf(q) = NodeOf(r) => q = r
    BY <1>2, <2>1
  <2> QED  BY <1>0, <1>1, <2>3, <2>5, <2>6 DEF NodesOnce
<1>8. ASSUME NEW n \in entries, Pushes(n) PROVE NodesOnce'
  <2> DEFINE p == Append(at, n)
  <2>1. n \notin Links /\ visited' = visited
    BY <1>1, <1>8 DEF Pushes, Marks, Plain
  <2>2. p \in TreePaths /\ NodeOf(p) = n /\ n \in Dirs
    BY <1>8, <2>1, Entry DEF Pushes
  <2>3. n \in tree.kids[NodeOf(at)] \cap Dirs /\ NodeOf(at) \in Dirs
    BY <2>2 DEF Typed, Kids
  <2>4. ~Met(n)
    BY <1>2, <2>3
  <2>5. <<NodeOf(at)>> \in visited
    <3>1. Key(at) \in visited
      BY DEF Typed
    <3> QED  BY <1>1, <2>3, <3>1, PlainKey
  <2> HIDE DEF p
  <2>6. ToSet(dirs') = ToSet(dirs) \cup {p}
    <3>1. dirs' = Append(dirs, p) /\ dirs \in Seq(TreePaths)
      BY <1>8 DEF Pushes, Typed, p
    <3> QED  BY <2>2, <3>1, Pushed
  <2>7. \A x : Met(x)' <=> Met(x) \/ x = n
    BY <1>3, <2>1, <2>2, <2>6 DEF Met
  <2>8. at' = at /\ entries' = entries \ {n}
    BY <1>8 DEF Pushes, Takes
  <2>9. ASSUME NEW d \in Dirs, NEW x \in tree.kids[d] \cap Dirs, Met(x)'
        PROVE  <<d>> \in visited' /\ ~(d = NodeOf(at') /\ x \in entries')
    <3>1. CASE Met(x)
      BY <1>2, <2>1, <2>8, <3>1
    <3>2. CASE x = n
      <4>1. d = NodeOf(at)
        BY <2>3, <3>2, TreeTyped DEF IsForest, Typed
      <4> QED  BY <2>1, <2>5, <2>8, <3>2, <4>1
    <3> QED  BY <2>7, <2>9, <3>1, <3>2
  <2>10. \A q \in ToSet(dirs) : NodeOf(q) # n
    BY <2>4 DEF Met
  <2>11. <<n>> \notin visited
    BY <2>4 DEF Met
  <2>12. \A q \in ToSet(dirs') : <<NodeOf(q)>> \notin visited'
    BY <1>2, <2>1, <2>2, <2>6, <2>11
  <2>13. \A q, r \in ToSet(dirs') : NodeOf(q) = NodeOf(r) => q = r
    BY <1>2, <2>2, <2>6, <2>10
  <2> QED  BY <1>0, <1>1, <2>9, <2>12, <2>13 DEF NodesOnce
<1>9. ASSUME NEW n \in entries, Begins(n) \/ Loses(n) PROVE NodesOnce'
  BY <1>1, <1>4, <1>9 DEF Begins, Loses, Takes, Marks, Plain
<1>10. ASSUME NEW p \in busy, Leaves(p) PROVE NodesOnce'
  BY <1>4, <1>10 DEF Leaves
<1> QED  BY <1>5, <1>6, <1>7, <1>8, <1>9, <1>10 DEF Steps

\* A step that takes nothing back keeps what is accounted for.
LEMMA AccountGrows ==
  ASSUME Account, Promised, UNCHANGED <<job, tree>>, made \subseteq made', lost \subseteq lost',
         ToSet(dirs) \subseteq made' \cup lost' \cup ToSet(dirs'),
         got \cup busy \subseteq Taken',
         \A n \in entries \ Links : (at' = at /\ n \in entries') \/ Append(at, n) \in Taken',
         \A p \in made' \ lost' :
           \/ p \in made /\ (p \in ToSet(dirs) => p \in ToSet(dirs'))
           \/ ~job.download /\ p \in ToSet(dirs')
           \/ p = at' /\ entries' = Kids(p)
  PROVE  Account'
<1>1. \A p : Kids(p)' = Kids(p)
  BY SameTree
<1>2. made \cup Taken \subseteq made' \cup Taken'
  BY DEF Taken
<1>3. <<>> \in made' \cup lost' \cup ToSet(dirs')
  BY DEF Account
<1>4. ASSUME NEW p \in made' \ lost', ~(~job'.download /\ p \in ToSet(dirs')),
             NEW n \in Kids(p) \ Links
      PROVE  Covered(p, n)'
  <2>1. CASE p = at' /\ entries' = Kids(p)
    BY <1>4, <2>1 DEF Covered
  <2>2. CASE p \in made /\ (p \in ToSet(dirs) => p \in ToSet(dirs'))
    <3>1. Covered(p, n)
      BY <1>4, <2>2 DEF Account
    <3> QED  BY <1>2, <1>4, <3>1 DEF Covered
  <2> QED  BY <1>4, <2>1, <2>2
<1> QED  BY <1>1, <1>3, <1>4 DEF Account

LEMMA AccountKept ==
  Typed /\ Apart /\ Marked /\ NodesOnce /\ Account /\ [WalkNext]_walkVars => Account'
<1> SUFFICES ASSUME Typed, Apart, Marked, NodesOnce, Account, Steps, Promised'
             PROVE  Account'
  BY StepsOfNext DEF Account
<1>0. UNCHANGED <<job, tree>>
  BY DEF Steps, Passes, Drops, Visits, Pushes, Begins, Loses, Takes, Leaves
<1>1. Promised
  BY <1>0 DEF Steps, Passes, Drops, Visits, Pushes, Begins, Loses, Takes, Leaves, Promised
<1>2. CASE Passes
  <2>1. entries \ entries' \subseteq Links /\ UNCHANGED <<at, dirs, made, got, busy, lost>>
    BY <1>2 DEF Passes
  <2> QED  BY <1>0, <1>1, <2>1, AccountGrows DEF Taken
<1>3. CASE Drops
  <2> DEFINE p == Last(dirs)
  <2>1. /\ ToSet(dirs) = ToSet(dirs') \cup {p} /\ p \in ToSet(dirs) /\ NodeOf(p) \in Dirs
        /\ Key(p) \in visited
    BY <1>3, Popped DEF Drops, Typed
  <2> HIDE DEF p
  <2>2. job.download
    <3>1. CASE Plain
      <4>1. <<NodeOf(p)>> \in visited
        BY <2>1, <3>1, PlainKey
      <4> QED  BY <2>1, <3>1, <4>1 DEF NodesOnce
    <3> QED  BY <1>1, <3>1 DEF Promised, Plain
  <2>3. p \in made \cup lost \/ (p # <<>> /\ Last(p) \in Links)
    BY <2>1, <2>2 DEF Marked, Key
  <2>4. UNCHANGED <<job, tree, at, entries, made, got, busy, lost>>
    BY <1>3 DEF Drops
  <2>5. \A q : Kids(q)' = Kids(q)
    BY <1>0, SameTree
  <2>6. <<>> \in made \cup lost \cup ToSet(dirs')
    BY <1>1, <2>1, <2>3 DEF Account
  <2>7. ASSUME NEW q \in made \ lost, NEW n \in Kids(q) \ Links PROVE Covered(q, n)'
    <3>1. Covered(q, n)
      BY <1>1, <2>2 DEF Account
    <3>2. q \in TreePaths /\ n \in Nodes
      BY TreeTyped DEF Typed, Kids
    <3>3. Last(Append(q, n)) = n
      BY <3>2, Pushed DEF TreePaths
    <3>4. Append(q, n) = p => p \in made \cup lost
      BY <2>3, <3>3
    <3> QED  BY <2>1, <2>4, <3>1, <3>4 DEF Covered, Taken
  <2> QED  BY <2>4, <2>5, <2>6, <2>7 DEF Account
<1>4. ASSUME NEW p \in ToSet(dirs), Visits(p) PROVE Account'
  <2>1. /\ ToSet(dirs) = ToSet(dirs') \cup {p}
    BY <1>4, Popped DEF Visits, Typed
  <2>2. /\ UNCHANGED <<got, busy>> /\ entries = {} /\ lost \subseteq lost'
        /\ made \subseteq made' /\ made' \subseteq made \cup {p} /\ p \in made' \cup lost'
    BY <1>4 DEF Visits, Fail
  <2>3. p \in lost' \/ (p = at' /\ entries' = Kids(p))
    BY <1>4 DEF Visits, Fail
  <2> QED  BY <1>0, <1>1, <2>1, <2>2, <2>3, AccountGrows DEF Taken
<1>5. ASSUME NEW n \in entries, Pushes(n) \/ Begins(n) \/ Loses(n) PROVE Account'
  <2> DEFINE p == Append(at, n)
  <2>1. p \in TreePaths
    BY Entry
  <2> HIDE DEF p
  <2>2. /\ busy = {} /\ got' = got /\ at' = at /\ entries' = entries \ {n}
        /\ lost \subseteq lost' /\ made \subseteq made'
    BY <1>5 DEF Pushes, Begins, Loses, Fail, Takes
  <2>3. ToSet(dirs) \subseteq ToSet(dirs') /\ p \in Taken'
        /\ (made' = made \/ (~job.download /\ made' = made \cup {p} /\ p \in ToSet(dirs')))
    <3>1. CASE Pushes(n)
      <4>1. dirs' = Append(dirs, p) /\ dirs \in Seq(TreePaths)
        BY <3>1 DEF Pushes, Typed, p
      <4>2. ToSet(dirs') = ToSet(dirs) \cup {p}
        BY <2>1, <4>1, Pushed
      <4> QED  BY <3>1, <4>2 DEF Pushes, Taken, p
    <3>2. CASE Begins(n)
      BY <3>2 DEF Begins, Begin, Taken, p
    <3>3. CASE Loses(n)
      BY <3>3 DEF Loses, Fail, Taken, p
    <3> QED  BY <1>5, <3>1, <3>2, <3>3
  <2>4. \A m \in entries \ Links : (at' = at /\ m \in entries') \/ Append(at, m) \in Taken'
    BY <2>2, <2>3 DEF p
  <2> QED  BY <1>0, <1>1, <2>2, <2>3, <2>4, AccountGrows DEF Taken
<1>6. ASSUME NEW p \in busy, Leaves(p) PROVE Account'
  <2>1. UNCHANGED <<dirs, at, entries, made>>
    BY <1>6 DEF Leaves
  <2>2. lost \subseteq lost' /\ got \cup busy \subseteq got' \cup lost'
    BY <1>6 DEF Leaves, Fail, Typed
  <2> QED  BY <1>0, <1>1, <2>1, <2>2, AccountGrows DEF Taken
<1> QED  BY <1>2, <1>3, <1>4, <1>5, <1>6 DEF Steps

LEMMA EndedKept == Typed /\ Ended /\ [WalkNext]_walkVars => Ended'
<1> SUFFICES ASSUME Typed, Ended, Steps, result' = "done" PROVE Ended'
  BY StepsOfNext DEF Ended
<1>1. Passes
  BY DEF Steps, Drops, Visits, Pushes, Begins, Loses, Takes, Leaves
<1> QED  BY <1>1 DEF Passes, Ended
-----------------------------------------------------------------------------
TreeInv == Sound /\ Straight /\ Marked /\ NodesOnce /\ Account /\ Ended

LEMMA InitTreeInv == WalkInit => TreeInv
<1> SUFFICES ASSUME WalkInit PROVE TreeInv
  OBVIOUS
<1>1. /\ dirs \in Seq(TreePaths) /\ Distinct(dirs) /\ ToSet(dirs) = {<<>>} /\ at \in TreePaths
      /\ at = <<>> /\ entries = {} /\ busy = {} /\ got = {} /\ lost = {} /\ made = {}
      /\ visited = {}
  BY DEF WalkInit, Distinct, ToSet, TreePaths
<1>2. NodeOf(<<>>) = Top /\ Top \in Dirs
  BY TreeAssumption DEF NodeOf
<1>3. Typed
  BY <1>1, <1>2 DEF WalkInit, Typed
<1>4. Apart /\ Marked /\ Ended
  BY <1>1 DEF WalkInit, Apart, Marked, Ended
<1>5. Once
  <2> SUFFICES ASSUME NEW q \in TreePaths, NEW n \in Nodes PROVE Append(q, n) \notin Taken
    BY DEF Once
  <2>1. Append(q, n) # <<>>
    BY Pushed DEF TreePaths
  <2> QED  BY <1>1, <2>1 DEF Taken
<1>6. Counted
  <2>1. LostFiles = {}
    BY <1>1 DEF LostFiles
  <2>2. got \cup busy = {} /\ got \cup busy \cup LostFiles = {}
    BY <1>1, <2>1
  <2>3. IsFiniteSet({}) /\ Cardinality({}) = 0
    BY FS_EmptySet
  <2>4. outcome = [total |-> 0, done |-> 0, failed |-> 0]
    BY DEF WalkInit
  <2>5. /\ outcome \in [total : Nat, done : Nat, failed : Nat]
        /\ outcome.total = 0 /\ outcome.done = 0 /\ outcome.failed = 0
    BY <2>4
  <2>6. /\ Cardinality(got) = 0 /\ Cardinality(lost) = 0 /\ Cardinality(got \cup busy) = 0
        /\ Cardinality(got \cup busy \cup LostFiles) = 0
    BY <1>1, <2>2, <2>3, Zenon
  <2>7. IsFiniteSet(got) /\ IsFiniteSet(lost)
    BY <1>1, <2>3
  <2> QED  BY <2>5, <2>6, <2>7 DEF Counted
<1>7. Straight
  BY <1>1 DEF Straight, Rising
<1>8. NodesOnce
  <2>1. \A x : Met(x) => x = Top
    BY <1>1, <1>2 DEF Met
  <2>2. \A d \in Dirs : Top \notin tree.kids[d]
    BY <1>3, TreeTyped DEF Typed, IsForest
  <2> QED  BY <1>1, <2>1, <2>2 DEF NodesOnce
<1>9. Account
  BY <1>1 DEF Account
<1> QED  BY <1>3, <1>4, <1>5, <1>6, <1>7, <1>8, <1>9 DEF TreeInv, Sound

LEMMA NextTreeInv == TreeInv /\ [WalkNext]_walkVars => TreeInv'
BY TypedKept, ApartKept, OnceKept, CountedKept, StraightKept, MarkedKept, NodesOnceKept,
   AccountKept, EndedKept DEF TreeInv, Sound

LEMMA TreeInvHolds == WalkSpec => []TreeInv
BY InitTreeInv, NextTreeInv, PTL DEF WalkSpec

(* A walk that ends has counted what it did not transfer: every directory  *)
(* and file of a directory that was walked is at the destination or among   *)
(* the failures (download_tree, upload_tree).                                *)
THEOREM NoSilentLoss == WalkSpec => []NothingLost
<1>1. TreeInv => NothingLost
  <2> SUFFICES ASSUME TreeInv, result = "done", Promised
               PROVE  <<>> \in made \cup lost /\ Accounted
    BY DEF NothingLost, Promised
  <2>1. dirs = <<>> /\ entries = {} /\ busy = {}
    BY DEF TreeInv, Ended
  <2>2. ToSet(dirs) = {}
    BY <2>1 DEF ToSet
  <2>3. <<>> \in made \cup lost
    BY <2>2 DEF TreeInv, Account
  <2>4. \A p \in ({<<>>} \cup made) \ lost : p \in made \ lost
    BY <2>3
  <2>5. \A p \in made \ lost : \A n \in Kids(p) \ Links : Append(p, n) \in made \cup got \cup lost
    BY <2>1, <2>2 DEF TreeInv, Account, Covered, Taken
  <2> QED  BY <2>3, <2>4, <2>5 DEF Accounted
<1> QED  BY <1>1, TreeInvHolds, PTL

(* The counts add up, and the walk never goes into a directory from inside  *)
(* itself, wherever the links lead (handle_remote_symlink,                   *)
(* handle_local_symlink).                                                    *)
THEOREM NeverInACircle == WalkSpec => []NoLoop
<1>1. TreeInv => WalkTypeOK
  <2> SUFFICES ASSUME TreeInv PROVE WalkTypeOK
    OBVIOUS
  <2>1. Cardinality(busy) <= 1
    <3>1. CASE busy = {}
      BY <3>1, FS_EmptySet
    <3>2. ASSUME NEW p \in busy PROVE Cardinality(busy) <= 1
      <4>1. busy = {p}
        BY DEF TreeInv, Sound, Typed
      <4>2. Cardinality({p}) = 1
        BY FS_Singleton
      <4> QED  BY <4>1, <4>2
    <3> QED  BY <3>1, <3>2
  <2>2. entries \in SUBSET Nodes
    BY TreeTyped DEF TreeInv, Sound, Typed, Kids
  <2> QED  BY <2>1, <2>2 DEF WalkTypeOK, TreeInv, Sound, Typed, Counted, LostFiles, TreePaths
<1>2. TreeInv => \A i, j \in 0 .. Len(at) :
                   i # j => NodeOf(SubSeq(at, 1, i)) # NodeOf(SubSeq(at, 1, j))
  <2> SUFFICES ASSUME TreeInv
               PROVE  \A i, j \in 0 .. Len(at) :
                        i # j => NodeOf(SubSeq(at, 1, i)) # NodeOf(SubSeq(at, 1, j))
    OBVIOUS
  <2>1. \E depth \in [Dirs -> 0 .. Cardinality(Dirs)] : Deepens(tree.kids, depth)
    BY TreeTyped DEF TreeInv, Sound, Typed, IsForest
  <2>2. PICK depth \in Depths : TRUE
    BY <2>1 DEF Depths
  <2>3. Rising(at, depth) /\ at \in TreePaths
    BY <2>2 DEF TreeInv, Straight, Sound, Typed
  <2> QED  BY <2>2, <2>3, DownIsNoLoop
<1> QED  BY <1>1, <1>2, TreeInvHolds, PTL DEF NoLoop

-----------------------------------------------------------------------------
(* The file operations: ActsWhereShown for any hosts, names and paths, and  *)
(* any number of calls under way.  It is not inductive: what a patient user *)
(* has chosen stays good from step to step because it belongs to the place  *)
(* the browser is at, and what that means depends on the one call that is   *)
(* under way.                                                               *)

\* What is chosen is of the place the browser is at.
Kept ==
  /\ want = NoName /\ \A i \in selection : i.at = Here
  /\ selected \in idle => selection = {}
  /\ dialog.kind \in {"actions", "op", "conflict"} => dialog.seen = Here
  /\ dialog.kind = "conflict" => dialog.path = cwd

\* And so are the rows.
AtRest == Kept /\ rows.at = Here /\ (selected \in idle => rows.names = {})

Only(s) == \A t \in Calls : t # s => call[t] = NoCall

\* The browser lists the place it is at.
Loading(s) == Loads(s) /\ call[s].at = Here /\ Kept

\* It may move; if it does not, the rows are still good, unless the host has
\* changed or a file is awaited.
Moving(s) ==
  /\ call[s].kind = "commit" /\ call[s].at.host = selected /\ dialog = NoDialog
  /\ rows.at.host = selected /\ want = NoName => AtRest

Operating(s) == call[s].kind \in {"op", "bulk"} /\ AtRest

Steady ==
  sure => \/ Quiet /\ AtRest
          \/ \E s \in Calls : Only(s) /\ (Loading(s) \/ Moving(s) \/ Operating(s))

IInv == TypeOK /\ Steady /\ ActsWhereShown
-----------------------------------------------------------------------------
(* Types.                                                                   *)

(* A spawned call takes a slot, and the other slots stay as they are.       *)
LEMMA SpawnTyped ==
  ASSUME TypeOK, NEW c \in CallRecords, Spawn(c)
  PROVE  call' \in [Calls -> CallRecords]
BY DEF TypeOK, Spawn

(* Turning to a place keeps the types (Turn).                                *)
LEMMA TurnTyped == TypeOK /\ Turn => TypeOK'
<1> SUFFICES ASSUME TypeOK, Turn PROVE TypeOK'
  OBVIOUS
<1> USE FileOpsAssumption DEF TypeOK, Places, Acts, ActsOnNothing, Waited, Quiet
<1>1. ASSUME NEW h \in Hosts, SelectOther(h) PROVE TypeOK'
  <2>1. To("reload", [host |-> h, path |-> Root[h]]) \in CallRecords
    BY DEF To, CallRecords
  <2> QED  BY <1>1, <2>1, SpawnTyped DEF SelectOther, TurnTo
<1>2. CASE SelectSame
  <2>1. To("reload", [host |-> selected, path |-> Root[selected]]) \in CallRecords
    BY DEF To, CallRecords
  <2>2. [kind |-> "disconnect"] \in Dialogs
    BY DEF Dialogs
  <2> QED  BY <1>2, <2>1, <2>2, SpawnTyped DEF SelectSame, TurnTo
<1>3. ASSUME NEW r \in Recents, OpenRecent(r) PROVE TypeOK'
  <2>1. To("load", r) \in CallRecords
    BY DEF To, CallRecords
  <2> QED  BY <1>3, <2>1, SpawnTyped DEF OpenRecent, Blank, Shown
<1>4. ASSUME NEW b \in Bookmarks, OpenBookmark(b) PROVE TypeOK'
  <2>1. To("commit", b.at) \in CallRecords
    BY DEF To, CallRecords
  <2>2. b.at \in Places /\ b.file \in Names \cup {NoName}
    OBVIOUS
  <2>3. call' \in [Calls -> CallRecords]
    BY <1>4, <2>1, SpawnTyped DEF OpenBookmark
  <2>4. selection' \subseteq [name : Names, at : Places]
    BY <1>4, <2>2 DEF OpenBookmark
  <2>5. sure' \in BOOLEAN
    BY <1>4 DEF OpenBookmark
  <2>6. selected' \in Hosts /\ want' \in Names \cup {NoName} /\ acted' \in SUBSET Acts
    BY <1>4, <2>2 DEF OpenBookmark
  <2> QED  BY <1>4, <2>3, <2>4, <2>5, <2>6 DEF OpenBookmark
<1>5. ASSUME NEW p \in Paths, Move(p) PROVE TypeOK'
  <2>1. To("commit", [host |-> selected, path |-> p]) \in CallRecords
    BY DEF To, CallRecords
  <2> QED  BY <1>5, <2>1, SpawnTyped DEF Move, CommitCwd
<1> QED  BY <1>1, <1>2, <1>3, <1>4, <1>5 DEF Turn, OpenDir, NavigateTo

(* Selecting keeps the types (Select).                                       *)
LEMMA SelectTyped == TypeOK /\ Select => TypeOK'
<1> SUFFICES ASSUME TypeOK, Select PROVE TypeOK'
  OBVIOUS
<1> USE DEF TypeOK, Places, Acts, ActsOnNothing, Waited, Quiet, Chosen, CallRecords, Dialogs
<1>1. CASE ClearSelection
  BY <1>1 DEF ClearSelection
<1>2. ASSUME NEW n \in Names, Toggle(n) PROVE TypeOK'
  BY <1>2 DEF Toggle
<1>3. ASSUME NEW n \in Names, Tap(n) PROVE TypeOK'
  BY <1>3 DEF Tap
<1>4. ASSUME NEW n \in Names, LongPress(n) PROVE TypeOK'
  BY <1>4 DEF LongPress
<1> QED  BY <1>1, <1>2, <1>3, <1>4 DEF Select

(* Operating keeps the types (Operate).                                      *)
LEMMA OperateTyped == TypeOK /\ Operate => TypeOK'
<1> SUFFICES ASSUME TypeOK, Operate PROVE TypeOK'
  OBVIOUS
<1> USE FileOpsAssumption
    DEF TypeOK, Places, Acts, Act, ActsOnNothing, Waited, Quiet, Entries, Here, NoDialog
<1>1. CASE OpenMkdir
  BY <1>1 DEF OpenMkdir, OpenDialog, Dialogs
<1>2. CASE SheetVerb
  BY <1>2 DEF SheetVerb, OpenDialog, Dialogs
<1>3. CASE SubmitOperation
  <2>1. [kind |-> "op"] \in CallRecords /\ dialog.seen \in Places
    BY <1>3 DEF CallRecords, SubmitOperation, Dialogs
  <2> QED  BY <1>3, <2>1, SpawnTyped DEF SubmitOperation
<1>4. CASE SubmitConflict
  <2>1. dialog.seen \in Places /\ dialog.path \in Paths
    BY <1>4 DEF SubmitConflict, Dialogs
  <2> QED  BY <1>4, <2>1 DEF SubmitConflict, Dialogs
<1>5. CASE BulkEnqueue
  BY <1>5 DEF BulkEnqueue
<1>6. CASE BulkRemove
  <2>1. [kind |-> "bulk"] \in CallRecords
    BY DEF CallRecords
  <2> QED  BY <1>6, <2>1, SpawnTyped DEF BulkRemove
<1>7. CASE CloseDialog
  BY <1>7 DEF CloseDialog, Dialogs
<1>8. CASE SubmitDisconnect
  BY <1>8 DEF SubmitDisconnect, Dialogs, Blank, Shown
<1>9. CASE SubmitTrust
  <2>1. To("reload", Here) \in CallRecords
    BY DEF To, CallRecords
  <2> QED  BY <1>9, <2>1, SpawnTyped DEF SubmitTrust, Dialogs
<1>10. ASSUME NEW i \in selection, OpenVerb(i) PROVE TypeOK'
  BY <1>10 DEF OpenVerb, OpenDialog, Dialogs
<1>11. ASSUME NEW i \in selection, Enqueue(i) PROVE TypeOK'
  BY <1>11 DEF Enqueue, Dialogs
<1> QED  BY <1>1, <1>2, <1>3, <1>4, <1>5, <1>6, <1>7, <1>8, <1>9, <1>10, <1>11 DEF Operate

(* An answer keeps the types (Answer).                                       *)
LEMMA AnswerTyped == ASSUME TypeOK, NEW s \in Calls, Answer(s) PROVE TypeOK'
<1> USE DEF TypeOK, Places, Acts, ActsOnNothing, Done, Shown, Blank, Picked
<1>1. NoCall \in CallRecords /\ call[s] \in CallRecords
  BY DEF CallRecords
<1>2. call[s].kind \in {"load", "reload", "commit"} => call[s].at \in Places
  BY <1>1 DEF CallRecords, NoCall
<1>3. CASE Listed(s)
  BY <1>1, <1>2, <1>3 DEF Listed, Loads
<1>4. CASE NotListed(s)
  <2>1. [kind |-> "trust"] \in Dialogs
    BY DEF Dialogs
  <2> QED  BY <1>1, <1>2, <1>4, <2>1 DEF NotListed, Loads
<1>5. CASE Committed(s)
  BY <1>1, <1>2, <1>5 DEF Committed
<1>6. CASE NotCommitted(s)
  BY <1>1, <1>6 DEF NotCommitted
<1>7. CASE Operated(s)
  <2>1. To("reload", Here) \in CallRecords /\ NoDialog \in Dialogs
    BY DEF To, Here, CallRecords, Dialogs
  <2> QED  BY <1>7, <2>1 DEF Operated
<1>8. CASE NotOperated(s)
  BY <1>1, <1>8 DEF NotOperated
<1> QED  BY <1>3, <1>4, <1>5, <1>6, <1>7, <1>8 DEF Answer
-----------------------------------------------------------------------------
(* What a patient user has before an action.                                 *)
LEMMA Patient == ASSUME Steady, Waited, sure' PROVE sure /\ Quiet /\ AtRest
<1>1. sure /\ Quiet
  BY DEF Waited
<1>2. \A s \in Calls : ~Loading(s) /\ ~Moving(s) /\ ~Operating(s)
  BY <1>1 DEF Quiet, NoCall, Loading, Loads, Moving, Operating
<1> QED  BY <1>1, <1>2 DEF Steady

(* The call that is spawned is the only one.                                 *)
LEMMA SpawnOne ==
  ASSUME TypeOK, Quiet, NEW c, Spawn(c)
  PROVE  \E s \in Calls : call'[s] = c /\ Only(s)'
BY DEF TypeOK, Quiet, Spawn, Only

(* A step that leaves a patient user's choices alone, and no call behind.    *)
LEMMA Steadily ==
  ASSUME Quiet, AtRest, UNCHANGED <<selected, cwd, rows, want, idle, call>>,
         selection' = {} \/ (selected \notin idle /\ \A i \in selection' : i.at = Here),
         dialog'.kind \in {"actions", "op", "conflict"} => dialog'.seen = Here,
         dialog'.kind = "conflict" => dialog'.path = cwd
  PROVE  Steady'
BY DEF Steady, Quiet, AtRest, Kept, Here

(* Turning to a place (Turn).                                                *)
LEMMA TurnSteady == TypeOK /\ Steady /\ Turn => Steady'
<1> SUFFICES ASSUME TypeOK, Steady, Turn, sure' PROVE Steady'
  BY DEF Steady
<1>1. ASSUME NEW h \in Hosts, SelectOther(h) PROVE Steady'
  <2>1. Quiet /\ AtRest
    BY <1>1, Patient DEF SelectOther
  <2>2. PICK s \in Calls : call'[s] = To("reload", [host |-> h, path |-> Root[h]]) /\ Only(s)'
    BY <1>1, <2>1, SpawnOne DEF SelectOther, TurnTo
  <2>3. Loading(s)'
    BY <1>1, <2>1, <2>2
    DEF SelectOther, TurnTo, Loading, Loads, To, Here, Kept, AtRest, NoDialog
  <2> QED  BY <2>2, <2>3 DEF Steady
<1>2. CASE SelectSame /\ selected \in idle
  <2>1. Quiet /\ AtRest
    BY <1>2, Patient DEF SelectSame
  <2>2. PICK s \in Calls :
          call'[s] = To("reload", [host |-> selected, path |-> Root[selected]]) /\ Only(s)'
    BY <1>2, <2>1, SpawnOne DEF SelectSame, TurnTo
  <2>3. Loading(s)'
    BY <1>2, <2>1, <2>2
    DEF SelectSame, TurnTo, Loading, Loads, To, Here, Kept, AtRest, NoDialog
  <2> QED  BY <2>2, <2>3 DEF Steady
<1>3. CASE SelectSame /\ selected \notin idle
  <2>1. Quiet /\ AtRest
    BY <1>3, Patient DEF SelectSame
  <2> QED  BY <1>3, <2>1, Steadily DEF SelectSame, AtRest, Kept
<1>4. ASSUME NEW r \in Recents, OpenRecent(r) PROVE Steady'
  <2>1. Quiet /\ AtRest
    BY <1>4, Patient DEF OpenRecent
  <2>2. PICK s \in Calls : call'[s] = To("load", r) /\ Only(s)'
    BY <1>4, <2>1, SpawnOne DEF OpenRecent
  <2>3. r = [host |-> r.host, path |-> r.path]
    BY FileOpsAssumption DEF Places
  <2>4. Loading(s)'
    BY <1>4, <2>1, <2>2, <2>3
    DEF OpenRecent, Loading, Loads, To, Here, Kept, AtRest, NoDialog
  <2> QED  BY <2>2, <2>4 DEF Steady
<1>5. ASSUME NEW b \in Bookmarks, OpenBookmark(b), b.at.path = cwd PROVE Steady'
  <2>1. Waited /\ b.at.host = selected /\ sure
    BY <1>5 DEF OpenBookmark, Waited
  <2>2. Quiet /\ AtRest
    BY <2>1, Patient
  <2>3. b.at = Here
    <3>1. b.at = [host |-> b.at.host, path |-> b.at.path]
      BY FileOpsAssumption DEF Places
    <3> QED  BY <1>5, <2>1, <3>1 DEF Here
  <2>4. want' = want /\ UNCHANGED <<selected, cwd, rows, idle, call, dialog>>
    BY <1>5, <2>1, <2>2 DEF OpenBookmark, AtRest, Kept
  <2>5. CASE b.file = NoName
    BY <1>5, <2>2, <2>4, <2>5, Steadily DEF OpenBookmark, AtRest, Kept
  <2>6. CASE b.file # NoName
    <3>1. selection' = {[name |-> b.file, at |-> Here]} /\ b.file \in rows.names
      BY <1>5, <2>1, <2>3, <2>6 DEF OpenBookmark
    <3> QED  BY <2>2, <2>4, <3>1, Steadily DEF AtRest, Kept
  <2> QED  BY <2>5, <2>6
<1>6. ASSUME NEW b \in Bookmarks, OpenBookmark(b), b.at.path # cwd PROVE Steady'
  <2>1. Quiet /\ AtRest
    BY <1>6, Patient DEF OpenBookmark
  <2>2. PICK s \in Calls : call'[s] = To("commit", b.at) /\ Only(s)'
    BY <1>6, <2>1, SpawnOne DEF OpenBookmark
  <2>3. rows'.at.host = selected' /\ want' = NoName => AtRest'
    BY <1>6, <2>1 DEF OpenBookmark, AtRest, Kept, Here
  <2>4. Moving(s)'
    BY <1>6, <2>2, <2>3 DEF OpenBookmark, Moving, To
  <2> QED  BY <2>2, <2>4 DEF Steady
<1>7. ASSUME NEW p \in Paths, Move(p) PROVE Steady'
  <2>1. Quiet /\ AtRest
    BY <1>7, Patient DEF Move
  <2>2. PICK s \in Calls :
          call'[s] = To("commit", [host |-> selected, path |-> p]) /\ Only(s)'
    BY <1>7, <2>1, SpawnOne DEF Move, CommitCwd
  <2>3. AtRest'
    BY <1>7, <2>1 DEF Move, AtRest, Kept, Here
  <2>4. Moving(s)'
    BY <1>7, <2>2, <2>3 DEF Move, Moving, To
  <2> QED  BY <2>2, <2>4 DEF Steady
<1> QED
  BY <1>1, <1>2, <1>3, <1>4, <1>5, <1>6, <1>7 DEF Turn, OpenDir, NavigateTo

(* Selecting (Select): rows are of the place the browser is at.              *)
LEMMA SelectSteady == TypeOK /\ Steady /\ Select => Steady'
<1> SUFFICES ASSUME TypeOK, Steady, Select, sure' PROVE Steady'
  BY DEF Steady
<1>1. Quiet /\ AtRest
  <2>1. Waited
    BY DEF Select, ClearSelection, Toggle, Tap, LongPress
  <2> QED  BY <2>1, Patient
<1> USE <1>1 DEF AtRest, Kept, Chosen
<1>2. CASE ClearSelection
  BY <1>2, Steadily DEF ClearSelection
<1>3. ASSUME NEW n \in Names, Toggle(n) PROVE Steady'
  <2>1. selected \notin idle
    BY <1>3 DEF Toggle
  <2>2. \A i \in selection' : i.at = Here
    BY <1>3 DEF Toggle
  <2> QED  BY <1>3, <2>1, <2>2, Steadily DEF Toggle
<1>4. ASSUME NEW n \in Names, Tap(n) PROVE Steady'
  BY <1>4, Steadily DEF Tap
<1>5. ASSUME NEW n \in Names, LongPress(n) PROVE Steady'
  BY <1>5, Steadily DEF LongPress
<1> QED  BY <1>2, <1>3, <1>4, <1>5 DEF Select

(* Operating (Operate): what is chosen belongs to the place it acts at.      *)
LEMMA OperateSteady == TypeOK /\ Steady /\ Operate => Steady' /\ ActsWhereShown'
<1> SUFFICES ASSUME TypeOK, Steady, Operate, sure' PROVE Steady' /\ ActsWhereShown'
  BY DEF Steady, ActsWhereShown
<1>1. Quiet /\ AtRest
  <2>1. Waited
    BY DEF Operate, OpenMkdir, SheetVerb, SubmitOperation, SubmitConflict, BulkEnqueue,
           BulkRemove, CloseDialog, SubmitDisconnect, SubmitTrust, OpenVerb, Enqueue
  <2> QED  BY <2>1, Patient
<1>2. Kept /\ rows.at = Here /\ (selection = {} \/ selected \notin idle)
  BY <1>1 DEF AtRest, Kept
<1> USE DEF Kept, Act, ActsOnNothing, ActsWhereShown
<1>3. CASE OpenMkdir
  BY <1>1, <1>2, <1>3, Steadily DEF OpenMkdir, OpenDialog
<1>4. CASE SheetVerb
  BY <1>1, <1>2, <1>4, Steadily DEF SheetVerb, OpenDialog
<1>5. CASE SubmitOperation
  <2>1. PICK s \in Calls : call'[s] = [kind |-> "op"] /\ Only(s)'
    BY <1>1, <1>5, SpawnOne DEF SubmitOperation
  <2>2. AtRest'
    BY <1>1, <1>5 DEF SubmitOperation, AtRest, Here
  <2>3. Operating(s)'
    BY <2>1, <2>2 DEF Operating
  <2> QED  BY <1>2, <1>5, <2>1, <2>3 DEF SubmitOperation, Steady
<1>6. CASE SubmitConflict
  <2>1. Steady'
    BY <1>1, <1>2, <1>6, Steadily DEF SubmitConflict, NoDialog
  <2>2. dialog.seen = [host |-> selected, path |-> dialog.path]
    BY <1>2, <1>6 DEF SubmitConflict, Here
  <2> QED  BY <1>6, <2>1, <2>2 DEF SubmitConflict
<1>7. CASE BulkEnqueue
  <2>1. Steady'
    BY <1>1, <1>2, <1>7, Steadily DEF BulkEnqueue
  <2> QED  BY <1>2, <1>7, <2>1 DEF BulkEnqueue, Entries
<1>8. CASE BulkRemove
  <2>1. PICK s \in Calls : call'[s] = [kind |-> "bulk"] /\ Only(s)'
    BY <1>1, <1>8, SpawnOne DEF BulkRemove
  <2>2. AtRest'
    BY <1>1, <1>8 DEF BulkRemove, AtRest, Here
  <2>3. Operating(s)'
    BY <2>1, <2>2 DEF Operating
  <2> QED  BY <1>2, <1>8, <2>1, <2>3 DEF BulkRemove, Steady, Entries
<1>9. CASE CloseDialog
  BY <1>1, <1>2, <1>9, Steadily DEF CloseDialog, NoDialog
<1>10. CASE SubmitDisconnect
  <2>1. Quiet'
    BY <1>1, <1>10 DEF SubmitDisconnect, Quiet
  <2>2. AtRest'
    BY <1>2, <1>10 DEF SubmitDisconnect, AtRest, Here, Blank, Shown, NoDialog
  <2> QED  BY <1>10, <2>1, <2>2 DEF SubmitDisconnect, Steady
<1>11. CASE SubmitTrust
  <2>1. PICK s \in Calls : call'[s] = To("reload", Here) /\ Only(s)'
    BY <1>1, <1>11, SpawnOne DEF SubmitTrust
  <2>2. Loading(s)'
    BY <1>2, <1>11, <2>1 DEF SubmitTrust, Loading, Loads, To, Here, NoDialog
  <2> QED  BY <1>11, <2>1, <2>2 DEF SubmitTrust, Steady
<1>12. ASSUME NEW i \in selection, OpenVerb(i) PROVE Steady' /\ ActsWhereShown'
  BY <1>1, <1>2, <1>12, Steadily DEF OpenVerb, OpenDialog
<1>13. ASSUME NEW i \in selection, Enqueue(i) PROVE Steady' /\ ActsWhereShown'
  <2>1. Steady'
    BY <1>1, <1>2, <1>13, Steadily DEF Enqueue, NoDialog
  <2> QED  BY <1>2, <1>13, <2>1 DEF Enqueue
<1> QED
  BY <1>3, <1>4, <1>5, <1>6, <1>7, <1>8, <1>9, <1>10, <1>11, <1>12, <1>13 DEF Operate

(* The call that is answered is the only one, of a patient user.             *)
LEMMA Answered ==
  ASSUME Steady, sure, NEW s \in Calls, call[s].kind # "none"
  PROVE  Only(s) /\ (Loading(s) \/ Moving(s) \/ Operating(s))
<1>1. ~Quiet
  BY DEF Quiet, NoCall
<1>2. PICK t \in Calls : Only(t) /\ (Loading(t) \/ Moving(t) \/ Operating(t))
  BY <1>1 DEF Steady
<1>3. t = s
  BY <1>2 DEF Only, NoCall
<1> QED  BY <1>2, <1>3

(* Nothing is under way after the only answer.                               *)
LEMMA DoneQuiet ==
  ASSUME TypeOK, NEW s \in Calls, Only(s), Done(s) PROVE Quiet'
BY DEF TypeOK, Only, Done, Quiet

(* An answer (Answer): the rows that come are those of the place.            *)
LEMMA AnswerSteady ==
  ASSUME TypeOK, Steady, NEW s \in Calls, Answer(s) PROVE Steady'
<1> SUFFICES ASSUME sure' PROVE Steady'
  BY DEF Steady
<1>1. sure /\ call[s].kind # "none"
  BY DEF Answer, Listed, NotListed, Committed, NotCommitted, Operated, NotOperated, Loads
<1>2. Only(s) /\ (Loading(s) \/ Moving(s) \/ Operating(s))
  BY <1>1, Answered
<1> USE DEF Here, Kept
<1>3. CASE Listed(s)
  <2>1. Loading(s)
    BY <1>2, <1>3 DEF Listed, Loads, Moving, Operating
  <2>2. Quiet'
    BY <1>2, <1>3, DoneQuiet DEF Listed
  <2>3. want' = want /\ selection' = selection
    BY <1>3, <2>1 DEF Listed, Loading, Picked
  <2>4. AtRest'
    BY <1>3, <2>1, <2>3 DEF Listed, Loading, AtRest, Shown
  <2> QED  BY <2>2, <2>4 DEF Steady
<1>4. CASE NotListed(s)
  <2>1. Loading(s)
    BY <1>2, <1>4 DEF NotListed, Loads, Moving, Operating
  <2>2. Quiet'
    BY <1>2, <1>4, DoneQuiet DEF NotListed
  <2>3. want' = want /\ selection' = selection
    BY <1>4, <2>1 DEF NotListed, Loading, Picked
  <2>4. AtRest'
    BY <1>4, <2>1, <2>3 DEF NotListed, Loading, AtRest, Blank, Shown
  <2> QED  BY <2>2, <2>4 DEF Steady
<1>5. CASE Committed(s)
  <2>1. Moving(s)
    BY <1>2, <1>5 DEF Committed, Loading, Loads, Operating
  <2>2. Quiet'
    BY <1>2, <1>5, DoneQuiet DEF Committed
  <2>3. call[s].at = Here'
    <3>1. call[s] \in CallRecords
      BY DEF TypeOK
    <3>2. call[s].at = [host |-> call[s].at.host, path |-> call[s].at.path]
      BY <2>1, <3>1 DEF Moving, CallRecords, NoCall, Places
    <3> QED  BY <1>5, <2>1, <3>2 DEF Committed, Moving
  <2>4. AtRest'
    BY <1>5, <2>1, <2>3 DEF Committed, Moving, Picked, AtRest, Shown, NoDialog
  <2> QED  BY <2>2, <2>4 DEF Steady
<1>6. CASE NotCommitted(s)
  <2>1. AtRest
    BY <1>2, <1>6 DEF NotCommitted, Loading, Loads, Operating, Moving
  <2>2. Quiet'
    BY <1>2, <1>6, DoneQuiet DEF NotCommitted
  <2>3. AtRest'
    BY <1>6, <2>1 DEF NotCommitted, AtRest
  <2> QED  BY <2>2, <2>3 DEF Steady
<1>7. CASE Operated(s)
  <2>1. Operating(s)
    BY <1>2, <1>7 DEF Operated, Loading, Loads, Moving
  <2>2. call'[s] = To("reload", Here) /\ Only(s)'
    BY <1>2, <1>7 DEF TypeOK, Operated, Only
  <2>3. Loading(s)'
    BY <1>7, <2>1, <2>2 DEF Operated, Operating, AtRest, Loading, Loads, To, NoDialog
  <2> QED  BY <2>2, <2>3 DEF Steady
<1>8. CASE NotOperated(s)
  <2>1. AtRest
    BY <1>2, <1>8 DEF NotOperated, Loading, Loads, Operating, Moving
  <2>2. Quiet'
    BY <1>2, <1>8, DoneQuiet DEF NotOperated
  <2>3. AtRest'
    BY <1>8, <2>1 DEF NotOperated, AtRest
  <2> QED  BY <2>2, <2>3 DEF Steady
<1> QED  BY <1>3, <1>4, <1>5, <1>6, <1>7, <1>8 DEF Answer
-----------------------------------------------------------------------------
(* The inductive invariant: it holds at the start and in every step.         *)
LEMMA Invariant == Spec => []IInv
<1>1. Init => IInv
  <2> SUFFICES ASSUME Init PROVE IInv
    OBVIOUS
  <2>1. TypeOK
    BY DEF Init, TypeOK, Blank, Shown, Here, Places, To, CallRecords, NoCall, NoDialog, Dialogs
  <2>2. PICK s \in Calls : call = [t \in Calls |-> IF t = s THEN To("reload", Here) ELSE NoCall]
    BY DEF Init
  <2>3. Only(s) /\ Loading(s)
    BY <2>2 DEF Init, Only, Loading, Loads, To, Kept, NoDialog
  <2> QED  BY <2>1, <2>3 DEF Init, IInv, Steady, ActsWhereShown
<1>2. IInv /\ [Next]_vars => IInv'
  <2> SUFFICES ASSUME IInv, [Next]_vars PROVE IInv'
    OBVIOUS
  <2> USE DEF IInv
  <2>1. CASE Turn
    <3>1. ActsWhereShown'
      BY <2>1 DEF Turn, SelectOther, SelectSame, OpenRecent, OpenBookmark, OpenDir,
                  NavigateTo, Move, ActsOnNothing, ActsWhereShown
    <3> QED  BY <2>1, <3>1, TurnTyped, TurnSteady
  <2>2. CASE Select
    <3>1. ActsWhereShown'
      BY <2>2 DEF Select, ClearSelection, Toggle, Tap, LongPress, ActsOnNothing, ActsWhereShown
    <3> QED  BY <2>2, <3>1, SelectTyped, SelectSteady
  <2>3. CASE Operate
    BY <2>3, OperateTyped, OperateSteady
  <2>4. ASSUME NEW s \in Calls, Answer(s) PROVE IInv'
    <3>1. ActsWhereShown'
      BY <2>4 DEF Answer, Listed, NotListed, Committed, NotCommitted, Operated, NotOperated,
                  ActsOnNothing, ActsWhereShown
    <3> QED  BY <2>4, <3>1, AnswerTyped, AnswerSteady
  <2>5. CASE UNCHANGED vars
    <3>1. TypeOK'
      BY <2>5 DEF vars, TypeOK
    <3>2. Steady'
      BY <2>5 DEF vars, Steady, Quiet, Only, Loading, Loads, Moving, Operating, AtRest, Kept, Here
    <3> QED  BY <2>5, <3>1, <3>2 DEF vars, ActsWhereShown
  <2> QED  BY <2>1, <2>2, <2>3, <2>4, <2>5 DEF Next
<1> QED  BY <1>1, <1>2, PTL DEF Spec

(* The calls, the dialog and what is shown of a directory keep their types, *)
(* whoever asks and whatever the backends answer (store.rs, on_event).       *)
THEOREM FilesTyped == Spec => []TypeOK
BY Invariant, PTL DEF IInv

(* An operation of a patient user is done where its row was listed from,    *)
(* whatever the hosts, the directories and the calls under way              *)
(* (submit_dialog, bulk_remove, bulk_enqueue, push_job).                     *)
THEOREM FilesWhereShown == Spec => []ActsWhereShown
BY Invariant, PTL DEF IInv
=============================================================================
