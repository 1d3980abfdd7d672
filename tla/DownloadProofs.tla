--------------------------- MODULE DownloadProofs ---------------------------
(***************************************************************************)
(* Theorems of Download, for every value of its constants.                 *)
(***************************************************************************)
EXTENDS Download, TLAPS

-----------------------------------------------------------------------------
(* Contents.                                                                *)

\* There is a first version, and sizes are numbers.
LEMMA OneVersion ==
  1 \in Versions /\ Versions \subseteq Nat /\ \A v \in Versions : v >= 1 /\ Size[v] \in Nat
BY SizeAssumption DEF Versions

LEMMA ContentBlocks ==
  ASSUME NEW v \in Versions
  PROVE  /\ Content(v) \in Seq(Blocks) /\ Len(Content(v)) = Size[v]
         /\ \A i \in 1 .. Size[v] : Content(v)[i] = <<v, i>>
<1>1. Size[v] \in Nat
  BY OneVersion
<1>2. \A i \in 1 .. Size[v] : <<v, i>> \in Blocks
  BY DEF Blocks
<1>3. Content(v) \in [1 .. Size[v] -> Blocks] /\ \A i \in 1 .. Size[v] : Content(v)[i] = <<v, i>>
  BY <1>2 DEF Content
<1> QED  BY <1>1, <1>3

\* Contents with the same blocks are the same.
LEMMA SameBlocks ==
  ASSUME NEW c \in Seq(Blocks), NEW d \in Seq(Blocks), Len(c) = Len(d),
         \A i \in 1 .. Len(c) : c[i] = d[i]
  PROVE  c = d
OBVIOUS

\* A write leaves a content, with holes if it is beyond the end.
LEMMA WriteBlocks ==
  ASSUME NEW c \in Seq(Blocks), NEW i \in Nat \ {0}, NEW b \in Blocks
  PROVE  WriteBlock(c, i, b) \in Seq(Blocks)
<1>1. Hole \in Blocks
  BY DEF Hole, Blocks
<1>2. \A k \in 1 .. Len(c) : c[k] \in Blocks
  OBVIOUS
<1> DEFINE m == IF i > Len(c) THEN i ELSE Len(c)
<1>3. m \in Nat
  OBVIOUS
<1>4. WriteBlock(c, i, b) \in [1 .. m -> Blocks]
  BY <1>1, <1>2 DEF WriteBlock
<1> QED  BY <1>3, <1>4

\* What a content is with one block more.
LEMMA AppendBlocks ==
  ASSUME NEW c \in Seq(Blocks), NEW b \in Blocks
  PROVE  /\ Append(c, b) \in Seq(Blocks)
         /\ Len(Append(c, b)) = Len(c) + 1
         /\ \A i \in 1 .. Len(c) : Append(c, b)[i] = c[i]
         /\ Append(c, b)[Len(c) + 1] = b
OBVIOUS

\* What is left when the last block is lost.
LEMMA ShortBlocks ==
  ASSUME NEW c \in Seq(Blocks), c # <<>>
  PROVE  /\ SubSeq(c, 1, Len(c) - 1) \in Seq(Blocks)
         /\ Len(SubSeq(c, 1, Len(c) - 1)) = Len(c) - 1
         /\ \A i \in 1 .. Len(c) - 1 : SubSeq(c, 1, Len(c) - 1)[i] = c[i]
<1> DEFINE n == Len(c) - 1
<1>1. n \in 0 .. Len(c)
  OBVIOUS
<1> HIDE DEF n
<1>2. SubSeq(c, 1, n) \in Seq(Blocks)
  BY <1>1
<1>3. Len(SubSeq(c, 1, n)) = n
  BY <1>1
<1>4. \A i \in 1 .. n : SubSeq(c, 1, n)[i] = c[i]
  BY <1>1
<1> QED  BY <1>2, <1>3, <1>4, Zenon DEF n

\* A block written right behind the last one is appended.
LEMMA WriteAtEnd ==
  ASSUME NEW c \in Seq(Blocks), NEW b \in Blocks
  PROVE  WriteBlock(c, Len(c) + 1, b) = Append(c, b)
<1>1. /\ WriteBlock(c, Len(c) + 1, b) \in Seq(Blocks)
      /\ Len(WriteBlock(c, Len(c) + 1, b)) = Len(c) + 1
      /\ \A i \in 1 .. Len(c) : WriteBlock(c, Len(c) + 1, b)[i] = c[i]
      /\ WriteBlock(c, Len(c) + 1, b)[Len(c) + 1] = b
  BY WriteBlocks DEF WriteBlock
<1> QED  BY <1>1, AppendBlocks, SameBlocks
-----------------------------------------------------------------------------
(* The beginning of a copy.                                                 *)

\* c is the beginning of a copy made of the versions up to v.
Prefix(c, v) ==
  /\ \A i \in DOMAIN c : c[i][1] \in 1 .. v /\ c[i][2] = i
  /\ v = 1 => Len(c) <= Size[1]

Partial(parts, v) == \A n \in DOMAIN parts : Prefix(parts[n], v)

\* An empty file is a beginning of every version.
LEMMA PrefixEmpty ==
  ASSUME NEW v \in Versions PROVE Prefix(<<>>, v)
BY OneVersion DEF Prefix

LEMMA PrefixLater ==
  ASSUME NEW c, NEW v \in Versions, Prefix(c, v) PROVE Prefix(c, v + 1)
BY OneVersion DEF Prefix

\* The next block of a version makes a longer prefix.
LEMMA PrefixAppend ==
  ASSUME NEW c \in Seq(Blocks), NEW v \in Versions, NEW r \in Versions, r <= v,
         Prefix(c, v), Len(c) + 1 <= Size[r]
  PROVE  Prefix(Append(c, <<r, Len(c) + 1>>), v)
<1> DEFINE b == <<r, Len(c) + 1>>
           d == Append(c, b)
<1>1. b \in Blocks /\ b[1] = r /\ b[2] = Len(c) + 1 /\ r \in 1 .. v
  BY OneVersion DEF Blocks
<1> HIDE DEF b
<1>2. /\ d \in Seq(Blocks) /\ Len(d) = Len(c) + 1 /\ d[Len(c) + 1] = b
      /\ \A i \in 1 .. Len(c) : d[i] = c[i]
  BY <1>1, AppendBlocks
<1> HIDE DEF d
<1>3. v = 1 => r = 1
  BY OneVersion
<1>4. \A i \in DOMAIN d : d[i][1] \in 1 .. v /\ d[i][2] = i
  <2> SUFFICES ASSUME NEW i \in 1 .. Len(c) + 1 PROVE d[i][1] \in 1 .. v /\ d[i][2] = i
    BY <1>2
  <2>1. CASE i \in 1 .. Len(c)
    BY <1>2, <2>1 DEF Prefix
  <2>2. CASE i = Len(c) + 1
    BY <1>1, <1>2, <2>2
  <2> QED  BY <2>1, <2>2
<1>5. Prefix(d, v)
  BY <1>2, <1>3, <1>4 DEF Prefix
<1> QED  BY <1>5 DEF b, d

\* A prefix stays one when the last block is lost.
LEMMA PrefixShort ==
  ASSUME NEW c \in Seq(Blocks), c # <<>>, NEW v \in Versions, Prefix(c, v)
  PROVE  Prefix(SubSeq(c, 1, Len(c) - 1), v)
<1> DEFINE d == SubSeq(c, 1, Len(c) - 1)
<1>1. /\ d \in Seq(Blocks) /\ Len(d) = Len(c) - 1
      /\ \A i \in 1 .. Len(c) - 1 : d[i] = c[i]
  BY ShortBlocks
<1> HIDE DEF d
<1>2. \A i \in DOMAIN d : d[i][1] \in 1 .. v /\ d[i][2] = i
  <2> SUFFICES ASSUME NEW i \in 1 .. Len(c) - 1 PROVE d[i][1] \in 1 .. v /\ d[i][2] = i
    BY <1>1
  <2> QED  BY <1>1 DEF Prefix
<1>3. v = 1 => Len(d) <= Size[1]
  BY <1>1, OneVersion DEF Prefix
<1> QED  BY <1>2, <1>3 DEF d, Prefix

\* A prefix as long as its version is a copy.
LEMMA PrefixWhole ==
  ASSUME NEW c \in Seq(Blocks), NEW v \in Versions, Prefix(c, v), v = 1 => Len(c) >= Size[1]
  PROVE  IsCopy(c, v)
<1>1. ASSUME v = 1 PROVE c = Content(1)
  <2>1. Len(c) = Size[1] /\ Len(c) \in Nat
    BY <1>1, OneVersion DEF Prefix
  <2>2. \A i \in 1 .. Len(c) : c[i] = <<1, i>>
    <3> SUFFICES ASSUME NEW i \in 1 .. Len(c) PROVE c[i] = <<1, i>>
      OBVIOUS
    <3>1. c[i] \in Blocks /\ c[i][1] = 1 /\ c[i][2] = i
      BY <1>1 DEF Prefix
    <3> QED  BY <3>1 DEF Blocks
  <2> DEFINE d == Content(1)
  <2>3. d \in Seq(Blocks) /\ Len(d) = Len(c) /\ \A i \in 1 .. Len(c) : d[i] = <<1, i>>
    BY <2>1, OneVersion, ContentBlocks
  <2> HIDE DEF d
  <2>4. c = d
    BY <2>2, <2>3, SameBlocks
  <2> QED  BY <2>4 DEF d
<1> QED  BY <1>1 DEF Prefix, IsCopy

\* A directory of prefixes with one more, or one less.
LEMMA PutPartial ==
  ASSUME NEW dir, NEW v, Partial(dir, v), NEW n, NEW c, Prefix(c, v)
  PROVE  Partial(Put(dir, n, c), v)
BY DEF Partial, Put

LEMMA DropPartial ==
  ASSUME NEW dir, NEW v, Partial(dir, v), NEW n PROVE Partial(Drop(dir, n), v)
BY DEF Partial, Drop
-----------------------------------------------------------------------------
(* Directories.                                                             *)

\* A directory with one more file, or one less.
LEMMA PutFiles ==
  ASSUME NEW dir, Files(dir), NEW n \in Names, NEW c \in Seq(Blocks)
  PROVE  Files(Put(dir, n, c)) /\ DOMAIN Put(dir, n, c) = DOMAIN dir \cup {n}
BY DEF Files, Put

LEMMA DropFiles ==
  ASSUME NEW dir, Files(dir), NEW n
  PROVE  Files(Drop(dir, n)) /\ DOMAIN Drop(dir, n) = DOMAIN dir \ {n}
BY DEF Files, Drop

LEMMA NoFilesTyped == Files(NoFiles)
BY DEF Files, NoFiles

LEMMA IdleTyped ==
  ASSUME NEW r \in Results PROVE IdleTask(r) \in Tasks /\ \A f, p : Linked(IdleTask(r), f, p)
BY OneVersion, DownloadAssumption DEF IdleTask, Tasks, Linked, Names, Policies, Places, Results

\* A handle that moves changes the place of its attempt only.
LEMMA MovedTyped ==
  ASSUME task \in [Workers -> Tasks], NEW n, NEW to \in {Unlink, Rename}
  PROVE  /\ Moved(n, to) \in [Workers -> Tasks]
         /\ \A w \in Workers :
              LET t == task[w]
                  u == Moved(n, to)[w]
              IN  /\ u.pc = t.pc /\ u.name = t.name
                  /\ u.place = IF t.pc # "idle" /\ t.name = n THEN to[t.place] ELSE t.place
<1>1. \A p \in Places : to[p] \in Places
  BY DEF Unlink, Rename, Places
<1>2. ASSUME NEW w \in Workers
      PROVE  LET u == [task[w] EXCEPT !.place = to[@]]
             IN  u \in Tasks /\ u.pc = task[w].pc /\ u.name = task[w].name /\ u.place = to[task[w].place]
  <2>1. task[w] \in Tasks /\ to[task[w].place] \in Places
    BY <1>1 DEF Tasks
  <2> QED  BY <2>1 DEF Tasks
<1> QED  BY <1>2 DEF Moved
-----------------------------------------------------------------------------
(* The variables keep their types.                                          *)

LEMMA GoalsNames ==
  ASSUME NEW policy, NEW seen, NEW newer PROVE Goals(policy, seen, newer) \subseteq Names
BY DownloadAssumption DEF Goals, Names

\* The attempts stay linked to the files when one is unlinked, or renamed.
LEMMA UnlinkLinked ==
  ASSUME TypeOK, NEW n, NEW q, DOMAIN part \ {n} \subseteq DOMAIN q
  PROVE  \A x \in Workers : Linked(Moved(n, Unlink)[x], dest, q)
<1> SUFFICES ASSUME NEW x \in Workers PROVE Linked(Moved(n, Unlink)[x], dest, q)
  OBVIOUS
<1> DEFINE t == task[x]
           u == Moved(n, Unlink)[x]
<1>1. /\ u.pc = t.pc /\ u.name = t.name
      /\ u.place = IF t.pc # "idle" /\ t.name = n THEN Unlink[t.place] ELSE t.place
  BY MovedTyped DEF TypeOK
<1>2. t \in Tasks /\ Linked(t, dest, part)
  BY DEF TypeOK
<1>3. t.place \in Places
  BY <1>2 DEF Tasks
<1> HIDE DEF t, u
<1>4. Linked(u, dest, q)
  <2>1. CASE t.pc # "idle" /\ t.name = n
    BY <1>1, <1>2, <1>3, <2>1 DEF Linked, Unlink, Places
  <2>2. CASE ~(t.pc # "idle" /\ t.name = n)
    BY <1>1, <1>2, <2>2 DEF Linked
  <2> QED  BY <2>1, <2>2
<1> QED  BY <1>4 DEF u

LEMMA RenameLinked ==
  ASSUME TypeOK, NEW n, NEW d, NEW q,
         DOMAIN part \ {n} \subseteq DOMAIN q, DOMAIN d = DOMAIN dest \cup {n}
  PROVE  \A x \in Workers : Linked(Moved(n, Rename)[x], d, q)
<1> SUFFICES ASSUME NEW x \in Workers PROVE Linked(Moved(n, Rename)[x], d, q)
  OBVIOUS
<1> DEFINE t == task[x]
           u == Moved(n, Rename)[x]
<1>1. /\ u.pc = t.pc /\ u.name = t.name
      /\ u.place = IF t.pc # "idle" /\ t.name = n THEN Rename[t.place] ELSE t.place
  BY MovedTyped DEF TypeOK
<1>2. t \in Tasks /\ Linked(t, dest, part)
  BY DEF TypeOK
<1>3. t.place \in Places
  BY <1>2 DEF Tasks
<1> HIDE DEF t, u
<1>4. Linked(u, d, q)
  <2>1. CASE t.pc # "idle" /\ t.name = n
    BY <1>1, <1>2, <1>3, <2>1 DEF Linked, Rename, Places
  <2>2. CASE ~(t.pc # "idle" /\ t.name = n)
    BY <1>1, <1>2, <2>2 DEF Linked
  <2> QED  BY <2>1, <2>2
<1> QED  BY <1>4 DEF u

LEMMA OpenPartTyped ==
  ASSUME TypeOK, NEW w \in Workers, NEW n \in Names, NEW resume \in BOOLEAN,
         NEW policy \in Policies, NEW size \in Nat, UNCHANGED <<remote, dest>>,
         OpenPart(w, n, resume, policy, size)
  PROVE  TypeOK'
<1> DEFINE resumed == resume /\ n \in DOMAIN part /\ ~Outgrown(n, size)
           others  == IF resume /\ Outgrown(n, size) THEN Moved(n, Unlink) ELSE task
           new     == [pc |-> "open", name |-> n, resume |-> resume, policy |-> policy,
                       size |-> size, done |-> IF resumed THEN Len(part[n]) ELSE 0,
                       append |-> resumed, place |-> "part", reader |-> 1, since |-> remote,
                       result |-> "none"]
<1>1. part' = (IF resumed THEN part ELSE Put(part, n, <<>>)) /\ task' = [others EXCEPT ![w] = new]
  BY DEF OpenPart
<1>2. Files(part') /\ DOMAIN part' = DOMAIN part \cup {n}
  <2>1. <<>> \in Seq(Blocks)
    OBVIOUS
  <2> QED  BY <1>1, <2>1, PutFiles DEF TypeOK
<1>3. new \in Tasks
  <2>1. resumed => Len(part[n]) \in Nat
    BY DEF TypeOK, Files
  <2> QED  BY <2>1, OneVersion DEF TypeOK, Tasks, Places, Results
<1>4. others \in [Workers -> Tasks]
  BY MovedTyped DEF TypeOK
<1>5. \A x \in Workers : Linked(others[x], dest', part')
  <2>1. \A x \in Workers : Linked(task[x], dest', part')
    BY <1>2 DEF TypeOK, Linked
  <2>2. \A x \in Workers : Linked(Moved(n, Unlink)[x], dest', part')
    BY <1>2, UnlinkLinked
  <2> QED  BY <2>1, <2>2
<1>6. Linked(new, dest', part')
  BY <1>2 DEF Linked
<1> HIDE DEF resumed, others, new
<1> QED  BY <1>1, <1>2, <1>3, <1>4, <1>5, <1>6 DEF TypeOK

\* An attempt that ends.
LEMMA EndTyped ==
  ASSUME TypeOK, NEW w \in Workers, NEW r \in Results, End(w, r), UNCHANGED <<remote, dest, part>>
  PROVE  TypeOK'
BY IdleTyped DEF TypeOK, End

LEMMA BeginTyped ==
  ASSUME TypeOK, NEW w \in Workers, NEW resume \in BOOLEAN, NEW policy \in Policies,
         NEW seen \in BOOLEAN, NEW newer \in BOOLEAN, Begin(w, resume, policy, seen, newer)
  PROVE  TypeOK'
<1> DEFINE size == IF seen THEN Size[remote] ELSE 0
<1>1. UNCHANGED <<remote, dest>>
  BY DEF Begin
<1>2. size \in Nat
  BY OneVersion DEF TypeOK
<1>3. ASSUME NEW n \in Goals(policy, seen, newer), OpenPart(w, n, resume, policy, size)
      PROVE  TypeOK'
  BY <1>1, <1>2, <1>3, GoalsNames, OpenPartTyped
<1>4. ASSUME NEW r \in {"err", "skipped"}, End(w, r), UNCHANGED part PROVE TypeOK'
  BY <1>1, <1>4, EndTyped DEF Results
<1> QED  BY <1>3, <1>4 DEF Begin

LEMMA OpenReadTyped ==
  ASSUME TypeOK, NEW w \in Workers, OpenRead(w) PROVE TypeOK'
<1> DEFINE n == task[w].name
           again == [task[w] EXCEPT !.pc = "copy", !.reader = remote, !.done = 0,
                                    !.append = FALSE, !.place = "part"]
<1>1. UNCHANGED <<remote, dest>> /\ task[w].pc = "open" /\ task[w] \in Tasks
  BY DEF OpenRead, TypeOK
<1>2. CASE task' = [task EXCEPT ![w].pc = "copy", ![w].reader = remote] /\ UNCHANGED part
  BY <1>1, <1>2 DEF TypeOK, Tasks, Linked
<1>3. CASE /\ part' = Put(part, n, <<>>)
           /\ task' = [Moved(n, Unlink) EXCEPT ![w] = again]
  <2>1. Files(part') /\ DOMAIN part' = DOMAIN part \cup {n}
    <3>1. <<>> \in Seq(Blocks) /\ n \in Names
      BY <1>1 DEF Tasks
    <3> QED  BY <1>3, <3>1, PutFiles DEF TypeOK
  <2>2. again \in Tasks /\ Linked(again, dest', part')
    BY <1>1, <2>1 DEF Tasks, TypeOK, Places, Linked
  <2>3. \A x \in Workers : Linked(Moved(n, Unlink)[x], dest', part')
    BY <1>1, <2>1, UnlinkLinked
  <2>4. Moved(n, Unlink) \in [Workers -> Tasks]
    BY MovedTyped DEF TypeOK
  <2> HIDE DEF again, n
  <2> QED  BY <1>1, <1>3, <2>1, <2>2, <2>3, <2>4 DEF TypeOK
<1>4. CASE End(w, "err") /\ UNCHANGED part
  BY <1>1, <1>4, EndTyped DEF Results
<1> QED  BY <1>2, <1>3, <1>4 DEF OpenRead

LEMMA CopyTyped ==
  ASSUME TypeOK, NEW w \in Workers, Copy(w) PROVE TypeOK'
<1> DEFINE n     == task[w].name
           at    == task[w].done + 1
           block == <<task[w].reader, at>>
           Written(c) == IF task[w].append THEN Append(c, block) ELSE WriteBlock(c, at, block)
<1>1. task[w] \in Tasks /\ n \in Names /\ at \in Nat \ {0} /\ block \in Blocks
  BY DEF TypeOK, Tasks, Blocks
<1>2. \A c \in Seq(Blocks) : Written(c) \in Seq(Blocks)
  BY <1>1, AppendBlocks, WriteBlocks
<1>3. /\ task[w].pc = "copy" /\ Linked(task[w], dest, part)
      /\ part' = IF task[w].place = "part" THEN Put(part, n, Written(part[n])) ELSE part
      /\ dest' = IF task[w].place = "dest" THEN Put(dest, n, Written(dest[n])) ELSE dest
      /\ task' = [task EXCEPT ![w].done = at]
      /\ UNCHANGED remote
  BY DEF Copy, TypeOK
<1> HIDE DEF n, at, block, Written
<1>4. Files(part') /\ DOMAIN part \subseteq DOMAIN part'
  <2>1. CASE task[w].place = "part"
    <3>1. part[n] \in Seq(Blocks)
      BY <1>3, <2>1 DEF Linked, TypeOK, Files, n
    <3> DEFINE c == Written(part[n])
    <3>2. c \in Seq(Blocks) /\ part' = Put(part, n, c)
      BY <1>2, <1>3, <2>1, <3>1
    <3> HIDE DEF c
    <3>3. Files(Put(part, n, c)) /\ DOMAIN Put(part, n, c) = DOMAIN part \cup {n}
      BY <1>1, <3>2, PutFiles DEF TypeOK
    <3> QED  BY <3>2, <3>3
  <2> QED  BY <1>3, <2>1 DEF TypeOK
<1>5. Files(dest') /\ DOMAIN dest \subseteq DOMAIN dest'
  <2>1. CASE task[w].place = "dest"
    <3>1. dest[n] \in Seq(Blocks)
      BY <1>3, <2>1 DEF Linked, TypeOK, Files, n
    <3> DEFINE c == Written(dest[n])
    <3>2. c \in Seq(Blocks) /\ dest' = Put(dest, n, c)
      BY <1>2, <1>3, <2>1, <3>1
    <3> HIDE DEF c
    <3>3. Files(Put(dest, n, c)) /\ DOMAIN Put(dest, n, c) = DOMAIN dest \cup {n}
      BY <1>1, <3>2, PutFiles DEF TypeOK
    <3> QED  BY <3>2, <3>3
  <2> QED  BY <1>3, <2>1 DEF TypeOK
<1>6. task' \in [Workers -> Tasks]
  BY <1>1, <1>3 DEF TypeOK, Tasks
<1>7. \A x \in Workers : Linked(task'[x], dest', part')
  <2>1. \A x \in Workers : /\ task'[x].pc = task[x].pc /\ task'[x].name = task[x].name
                            /\ task'[x].place = task[x].place
    BY <1>3 DEF TypeOK, Tasks
  <2> QED  BY <1>4, <1>5, <2>1 DEF TypeOK, Linked
<1> QED  BY <1>3, <1>4, <1>5, <1>6, <1>7 DEF TypeOK

LEMMA StopEarlyTyped ==
  ASSUME TypeOK, NEW w \in Workers, StopEarly(w) PROVE TypeOK'
<1> DEFINE n == task[w].name
           stopped == IF task[w].resume THEN task ELSE Moved(n, Unlink)
<1>1. /\ UNCHANGED <<remote, dest>>
      /\ part' = IF task[w].resume THEN part ELSE Drop(part, n)
      /\ task' = [stopped EXCEPT ![w] = IdleTask("err")]
  BY DEF StopEarly
<1>2. Files(part') /\ DOMAIN part \ {n} \subseteq DOMAIN part'
  BY <1>1, DropFiles DEF TypeOK
<1>3. stopped \in [Workers -> Tasks]
  BY MovedTyped DEF TypeOK
<1>4. \A x \in Workers : Linked(stopped[x], dest', part')
  <2>1. \A x \in Workers : Linked(Moved(n, Unlink)[x], dest', part')
    BY <1>1, <1>2, UnlinkLinked
  <2>2. task[w].resume => \A x \in Workers : Linked(task[x], dest', part')
    BY <1>1 DEF TypeOK
  <2> QED  BY <2>1, <2>2
<1>5. IdleTask("err") \in Tasks /\ Linked(IdleTask("err"), dest', part')
  BY IdleTyped DEF Results
<1> HIDE DEF stopped, n
<1> QED  BY <1>1, <1>2, <1>3, <1>4, <1>5 DEF TypeOK

LEMMA PublishTyped ==
  ASSUME TypeOK, NEW w \in Workers, NEW verify \in BOOLEAN, Publish(w, verify) PROVE TypeOK'
<1> DEFINE n == task[w].name
           new == IF verify THEN [task[w] EXCEPT !.pc = "verify"] ELSE IdleTask("ok")
<1>1. CASE End(w, "err") /\ UNCHANGED <<dest, part>>
  BY <1>1, EndTyped DEF Publish, Results
<1>2. CASE /\ n \in DOMAIN part
           /\ dest' = Put(dest, n, part[n])
           /\ part' = Drop(part, n)
           /\ task' = [Moved(n, Rename) EXCEPT ![w] = new]
  <2>1. task[w] \in Tasks /\ n \in Names /\ part[n] \in Seq(Blocks) /\ remote' = remote
    BY <1>2 DEF TypeOK, Tasks, Files, Publish
  <2>2. Files(Put(dest, n, part[n])) /\ DOMAIN Put(dest, n, part[n]) = DOMAIN dest \cup {n}
    BY <2>1, PutFiles DEF TypeOK
  <2>3. Files(Drop(part, n)) /\ DOMAIN Drop(part, n) = DOMAIN part \ {n}
    BY DropFiles DEF TypeOK
  <2>4. Moved(n, Rename) \in [Workers -> Tasks]
    BY MovedTyped DEF TypeOK
  <2>5. \A x \in Workers : Linked(Moved(n, Rename)[x], dest', part')
    BY <1>2, <2>2, <2>3, RenameLinked
  <2>6. new \in Tasks /\ Linked(new, dest', part')
    <3>1. CASE verify
      BY <1>2, <2>1, <2>2, <3>1 DEF Tasks, Linked
    <3>2. CASE ~verify
      BY <3>2, IdleTyped DEF Results
    <3> QED  BY <3>1, <3>2
  <2> HIDE DEF n, new
  <2> QED  BY <1>2, <2>1, <2>2, <2>3, <2>4, <2>5, <2>6 DEF TypeOK
<1> QED  BY <1>1, <1>2 DEF Publish

LEMMA RemoteChangeTyped ==
  ASSUME TypeOK, NEW inPlace \in BOOLEAN, RemoteChange(inPlace) PROVE TypeOK'
<1>1. remote' \in Versions /\ UNCHANGED <<dest, part>>
  BY DEF RemoteChange
<1>2. \A w \in Workers : /\ task'[w] \in Tasks
                          /\ task'[w].pc = task[w].pc /\ task'[w].name = task[w].name
                          /\ task'[w].place = task[w].place
  BY DEF RemoteChange, TypeOK, Tasks
<1>3. task' \in [Workers -> Tasks]
  BY <1>2 DEF RemoteChange, TypeOK
<1> QED  BY <1>1, <1>2, <1>3 DEF TypeOK, Linked

LEMMA DiscardTyped ==
  ASSUME TypeOK, NEW n \in Names, DiscardPartial(n) PROVE TypeOK'
<1>1. Files(part') /\ DOMAIN part' = DOMAIN part \ {n}
  BY DropFiles DEF TypeOK, DiscardPartial
<1>2. task' \in [Workers -> Tasks]
  BY MovedTyped DEF TypeOK, DiscardPartial
<1>3. \A x \in Workers : Linked(task'[x], dest', part')
  BY <1>1, UnlinkLinked DEF DiscardPartial
<1> QED  BY <1>1, <1>2, <1>3 DEF TypeOK, DiscardPartial

\* The part files that a relaunch finds.
LEMMA RelaunchParts ==
  ASSUME TypeOK, Relaunch
  PROVE  \/ part' = NoFiles
         \/ part' = part
         \/ \E w \in Workers :
              /\ task[w].pc = "copy" /\ task[w].place = "part"
              /\ task[w].name \in DOMAIN part /\ task[w].name \in Names
              /\ part[task[w].name] \in Seq(Blocks) /\ part[task[w].name] # <<>>
              /\ part' = Put(part, task[w].name,
                             SubSeq(part[task[w].name], 1, Len(part[task[w].name]) - 1))
<1> SUFFICES ASSUME part' # NoFiles, part' # part
             PROVE  \E w \in Workers :
                      /\ task[w].pc = "copy" /\ task[w].place = "part"
                      /\ task[w].name \in DOMAIN part /\ task[w].name \in Names
                      /\ part[task[w].name] \in Seq(Blocks) /\ part[task[w].name] # <<>>
                      /\ part' = Put(part, task[w].name,
                             SubSeq(part[task[w].name], 1, Len(part[task[w].name]) - 1))
  OBVIOUS
<1>1. PICK w \in Workers :
        /\ task[w].pc = "copy" /\ task[w].place = "part"
        /\ part[task[w].name] # <<>>
        /\ part' = Put(part, task[w].name,
                       SubSeq(part[task[w].name], 1, Len(part[task[w].name]) - 1))
  BY Zenon DEF Relaunch
<1>2. task[w].name \in DOMAIN part /\ task[w].name \in Names
  BY <1>1 DEF TypeOK, Linked, Files
<1>3. part[task[w].name] \in Seq(Blocks)
  BY <1>2 DEF TypeOK, Files
<1> QED  BY <1>1, <1>2, <1>3

LEMMA RelaunchTyped ==
  ASSUME TypeOK, Relaunch PROVE TypeOK'
<1>1. Files(part')
  <2>1. ASSUME NEW w \in Workers, task[w].name \in Names,
               part[task[w].name] \in Seq(Blocks), part[task[w].name] # <<>>,
               part' = Put(part, task[w].name,
                           SubSeq(part[task[w].name], 1, Len(part[task[w].name]) - 1))
        PROVE  Files(part')
    <3> DEFINE c == SubSeq(part[task[w].name], 1, Len(part[task[w].name]) - 1)
    <3>1. c \in Seq(Blocks)
      BY <2>1, ShortBlocks
    <3> HIDE DEF c
    <3>2. Files(Put(part, task[w].name, c))
      BY <2>1, <3>1, PutFiles DEF TypeOK
    <3> QED  BY <2>1, <3>2 DEF c
  <2> QED  BY <2>1, RelaunchParts, NoFilesTyped DEF TypeOK
<1>2. /\ task' \in [Workers -> Tasks]
      /\ \A w \in Workers : task'[w] = IdleTask("none")
  BY IdleTyped DEF Relaunch, Results
<1>3. IdleTask("none") \in Tasks /\ Linked(IdleTask("none"), dest', part')
  BY IdleTyped DEF Results
<1> QED  BY <1>1, <1>2, <1>3 DEF TypeOK, Relaunch

LEMMA InitTyped == ASSUME Init PROVE TypeOK
<1>1. Files(dest)
  <2>1. Old \in Seq(Blocks) /\ 0 \in Names
    BY DownloadAssumption DEF Old, Blocks, Names
  <2>2. Files(Put(NoFiles, 0, Old))
    BY <2>1, NoFilesTyped, PutFiles
  <2> QED  BY <2>2, NoFilesTyped DEF Init
<1> QED  BY <1>1, NoFilesTyped, IdleTyped, OneVersion DEF Init, TypeOK, Results

\* What the handles of the attempts write to is there, and the files are made
\* of blocks, for any number of workers on one destination (302-402).
THEOREM TypeCorrect == Spec => []TypeOK
<1>1. Init => TypeOK
  BY InitTyped
<1>2. TypeOK /\ [Next]_vars => TypeOK'
  <2> SUFFICES ASSUME TypeOK, [Next]_vars PROVE TypeOK'
    OBVIOUS
  <2>1. ASSUME NEW w \in Workers, Attempt(w) PROVE TypeOK'
    <3>1. CASE ReadFails(w)
      BY <3>1, EndTyped DEF ReadFails, Results
    <3>2. CASE Verify(w)
      <4>1. UNCHANGED <<remote, dest, part>> /\ \E r \in Results : End(w, r)
        BY <3>2 DEF Verify, Results
      <4> QED  BY <4>1, EndTyped
    <3> QED  BY <2>1, <3>1, <3>2, BeginTyped, OpenReadTyped, CopyTyped, StopEarlyTyped,
                PublishTyped DEF Attempt
  <2>2. CASE UNCHANGED vars
    BY <2>2 DEF vars, TypeOK
  <2> QED  BY <2>1, <2>2, RemoteChangeTyped, DiscardTyped, RelaunchTyped DEF Next
<1> QED  BY <1>1, <1>2, PTL DEF Spec
-----------------------------------------------------------------------------
(* One worker: what a part file holds, and what an attempt knows of it.     *)

\* The queue gives a job to one worker at a time; two jobs for one destination
\* are what the theorems below exclude.
SingleWorker == \A v, w \in Workers : v = w

Replacing == {"Overwrite", "Resume", "NewerOnly"}

\* An open attempt counts the blocks of its part file, if nobody discarded it;
\* it has been allowed to replace the file at its name; unless it resumes, the
\* blocks are its own.
Sound(t, files, parts, v) ==
  /\ t.reader <= v /\ t.since <= v
  /\ t.pc # "idle" => t.result = "none"
  /\ t.pc \in {"open", "copy"} =>
       /\ \/ t.place = "part" /\ t.name \in DOMAIN parts /\ t.done = Len(parts[t.name])
          \/ t.place = "gone" /\ t.name \notin DOMAIN parts
       /\ t.name \in DOMAIN files => t.policy \in Replacing
       /\ ~t.resume /\ t.name \in DOMAIN parts =>
            \A i \in DOMAIN parts[t.name] : parts[t.name][i][1] >= t.since
  /\ t.pc = "copy" => t.reader >= t.since
  /\ t.pc = "verify" /\ v = 1 => files[t.name] = Content(1)

IInv ==
  /\ TypeOK
  /\ Partial(part, remote)
  /\ \A w \in Workers : Sound(task[w], dest, part, remote)

LEMMA IdleSound ==
  ASSUME NEW r, NEW f, NEW q, NEW v \in Versions PROVE Sound(IdleTask(r), f, q, v)
BY OneVersion DEF IdleTask, Sound

\* With one worker, its attempt is all there is to look at.
LEMMA SoundOne ==
  ASSUME SingleWorker, NEW w \in Workers, TypeOK', Partial(part', remote'),
         Sound(task'[w], dest', part', remote')
  PROVE  IInv'
<1>1. \A x \in Workers : x = w
  BY DEF SingleWorker
<1> QED  BY <1>1 DEF IInv

LEMMA EndSound ==
  ASSUME SingleWorker, IInv, NEW w \in Workers, NEW r \in Results, End(w, r),
         UNCHANGED <<remote, dest>>, Partial(part', remote), TypeOK'
  PROVE  IInv'
<1>1. task'[w] = IdleTask(r)
  BY DEF End, IInv, TypeOK
<1> QED  BY <1>1, IdleSound, SoundOne DEF IInv, TypeOK

LEMMA BeginSound ==
  ASSUME SingleWorker, IInv, NEW w \in Workers, NEW resume \in BOOLEAN, NEW policy \in Policies,
         NEW seen \in BOOLEAN, NEW newer \in BOOLEAN, Begin(w, resume, policy, seen, newer)
  PROVE  IInv'
<1> DEFINE size == IF seen THEN Size[remote] ELSE 0
<1>1. UNCHANGED <<remote, dest>> /\ TypeOK /\ TypeOK' /\ remote \in Versions
  BY BeginTyped DEF Begin, IInv, TypeOK
<1>2. ASSUME NEW n \in Goals(policy, seen, newer), OpenPart(w, n, resume, policy, size)
      PROVE  IInv'
  <2> DEFINE resumed == resume /\ n \in DOMAIN part /\ ~Outgrown(n, size)
             new == [pc |-> "open", name |-> n, resume |-> resume, policy |-> policy,
                     size |-> size, done |-> IF resumed THEN Len(part[n]) ELSE 0,
                     append |-> resumed, place |-> "part", reader |-> 1, since |-> remote,
                     result |-> "none"]
  <2>1. part' = (IF resumed THEN part ELSE Put(part, n, <<>>)) /\ task'[w] = new
    <3>1. Moved(n, Unlink) \in [Workers -> Tasks]
      BY <1>1, MovedTyped DEF TypeOK
    <3> QED  BY <1>1, <1>2, <3>1 DEF OpenPart, TypeOK
  <2>2. n \in DOMAIN dest => policy \in Replacing
    BY <1>2, DownloadAssumption DEF Goals, Replacing, Policies
  <2>3. Partial(part', remote)
    BY <1>1, <2>1, PrefixEmpty, PutPartial DEF IInv
  <2>4. n \in DOMAIN part' /\ (~resumed => part'[n] = <<>>)
    BY <2>1 DEF Put
  <2>5. new.done = Len(part'[n])
    BY <2>1, <2>4
  <2>6. Sound(new, dest', part', remote')
    BY <1>1, <2>2, <2>4, <2>5, OneVersion DEF Sound
  <2> QED  BY <1>1, <2>1, <2>3, <2>6, SoundOne
<1>3. ASSUME NEW r \in {"err", "skipped"}, End(w, r), UNCHANGED part PROVE IInv'
  BY <1>1, <1>3, EndSound DEF Results, IInv
<1> QED  BY <1>2, <1>3 DEF Begin

LEMMA OpenReadSound ==
  ASSUME SingleWorker, IInv, NEW w \in Workers, OpenRead(w) PROVE IInv'
<1> DEFINE n == task[w].name
           again == [task[w] EXCEPT !.pc = "copy", !.reader = remote, !.done = 0,
                                    !.append = FALSE, !.place = "part"]
<1>1. /\ UNCHANGED <<remote, dest>> /\ TypeOK /\ TypeOK' /\ remote \in Versions
      /\ task[w].pc = "open" /\ task[w] \in Tasks /\ Sound(task[w], dest, part, remote)
  BY OpenReadTyped DEF OpenRead, IInv, TypeOK
<1>2. CASE task' = [task EXCEPT ![w].pc = "copy", ![w].reader = remote] /\ UNCHANGED part
  <2>1. task'[w] = [task[w] EXCEPT !.pc = "copy", !.reader = remote]
    BY <1>1, <1>2 DEF TypeOK
  <2> DEFINE t == task[w]
             u == task'[w]
  <2>2. /\ u.pc = "copy" /\ u.reader = remote /\ u.done = t.done /\ u.place = t.place
        /\ u.name = t.name /\ u.since = t.since /\ u.result = t.result
        /\ u.policy = t.policy /\ u.resume = t.resume /\ t.since \in Versions
    BY <1>1, <2>1 DEF Tasks
  <2>3. Sound(t, dest', part', remote) /\ t.pc = "open"
    BY <1>1, <1>2
  <2> HIDE DEF t, u
  <2>4. Sound(u, dest', part', remote')
    BY <1>1, <2>2, <2>3, OneVersion DEF Sound
  <2> QED  BY <1>1, <1>2, <2>4, SoundOne DEF IInv, u
<1>3. CASE /\ part' = Put(part, n, <<>>)
           /\ task' = [Moved(n, Unlink) EXCEPT ![w] = again]
  <2>1. task'[w] = again
    <3>1. Moved(n, Unlink) \in [Workers -> Tasks]
      BY <1>1, MovedTyped DEF TypeOK
    <3> QED  BY <1>3, <3>1
  <2>2. n \in DOMAIN part' /\ part'[n] = <<>>
    BY <1>3 DEF Put
  <2>3. Partial(part', remote')
    BY <1>1, <1>3, PrefixEmpty, PutPartial DEF IInv
  <2>4. /\ again.pc = "copy" /\ again.reader = remote /\ again.done = 0 /\ again.place = "part"
        /\ again.name = n /\ again.since = task[w].since /\ again.result = task[w].result
        /\ again.policy = task[w].policy /\ again.resume = task[w].resume
    BY <1>1 DEF Tasks
  <2> HIDE DEF again
  <2>5. Sound(again, dest', part', remote')
    BY <1>1, <2>2, <2>4, OneVersion DEF Sound
  <2> QED  BY <1>1, <2>1, <2>3, <2>5, SoundOne
<1>4. CASE End(w, "err") /\ UNCHANGED part
  BY <1>1, <1>4, EndSound DEF Results, IInv
<1> QED  BY <1>2, <1>3, <1>4 DEF OpenRead

LEMMA CopySound ==
  ASSUME SingleWorker, IInv, NEW w \in Workers, Copy(w) PROVE IInv'
<1> DEFINE n     == task[w].name
           at    == task[w].done + 1
           block == <<task[w].reader, at>>
           t     == task[w]
           u     == task'[w]
<1>1. /\ TypeOK /\ TypeOK' /\ remote \in Versions /\ remote' = remote
      /\ t \in Tasks /\ Sound(t, dest, part, remote)
  BY CopyTyped DEF Copy, IInv, TypeOK
<1>2. /\ u.pc = "copy" /\ u.reader = t.reader /\ u.done = at /\ u.place = t.place
      /\ u.name = n /\ u.since = t.since /\ u.result = t.result
      /\ u.policy = t.policy /\ u.resume = t.resume
      /\ t.pc = "copy" /\ t.name = n /\ at <= Size[t.reader]
  BY <1>1 DEF Copy, TypeOK, Tasks
<1>3. /\ t.reader \in Versions /\ t.since \in Versions /\ t.done \in Nat
      /\ block \in Blocks /\ block[1] = t.reader /\ t.reader <= remote
  BY <1>1 DEF Tasks, Blocks, Sound
<1>4. CASE t.place = "part" /\ n \in DOMAIN part /\ t.done = Len(part[n])
  <2> DEFINE c == part[n]
             d == Append(c, block)
  <2>1. c \in Seq(Blocks)
    BY <1>1, <1>4 DEF TypeOK, Files
  <2>2. part' = Put(part, n, d) /\ dest' = dest
    BY <1>3, <1>4, <2>1, WriteAtEnd DEF Copy
  <2>3. Prefix(d, remote)
    BY <1>1, <1>2, <1>3, <1>4, <2>1, PrefixAppend DEF IInv, Partial
  <2>4. Partial(part', remote)
    BY <1>1, <2>2, <2>3, PutPartial DEF IInv
  <2>5. Len(d) = at /\ \A i \in DOMAIN d : d[i] = block \/ (i \in DOMAIN c /\ d[i] = c[i])
    BY <1>3, <1>4, <2>1, AppendBlocks
  <2>6. n \in DOMAIN part' /\ part'[n] = d
    BY <2>2 DEF Put
  <2>7. ~t.resume => \A i \in DOMAIN d : d[i][1] >= t.since
    BY <1>1, <1>2, <1>3, <1>4, <2>5 DEF Sound
  <2> HIDE DEF n, at, block, t, u, c, d
  <2>8. Sound(u, dest', part', remote')
    BY <1>1, <1>2, <1>4, <2>2, <2>5, <2>6, <2>7 DEF Sound
  <2> QED  BY <1>1, <2>4, <2>8, SoundOne DEF u
<1>5. CASE t.place = "gone" /\ n \notin DOMAIN part
  <2>1. UNCHANGED <<dest, part>>
    BY <1>5 DEF Copy
  <2> HIDE DEF at, block, t, u
  <2>2. Sound(u, dest', part', remote')
    BY <1>1, <1>2, <1>5, <2>1 DEF Sound, t
  <2> QED  BY <1>1, <2>1, <2>2, SoundOne DEF u, IInv
<1> QED  BY <1>1, <1>2, <1>4, <1>5 DEF Sound

LEMMA StopEarlySound ==
  ASSUME SingleWorker, IInv, NEW w \in Workers, StopEarly(w) PROVE IInv'
<1>1. /\ TypeOK /\ TypeOK' /\ remote \in Versions /\ UNCHANGED <<remote, dest>>
  BY StopEarlyTyped DEF StopEarly, IInv, TypeOK
<1>2. Partial(part', remote')
  BY <1>1, DropPartial DEF StopEarly, IInv
<1>3. task'[w] = IdleTask("err")
  <2>1. Moved(task[w].name, Unlink) \in [Workers -> Tasks]
    BY <1>1, MovedTyped DEF TypeOK
  <2> QED  BY <1>1, <2>1 DEF StopEarly, TypeOK
<1> QED  BY <1>1, <1>2, <1>3, IdleSound, SoundOne

\* What a worker publishes is a copy, and the source itself if it has not changed.
LEMMA PublishCopy ==
  ASSUME IInv, NEW w \in Workers, task[w].pc = "copy",
         task[w].done >= Size[task[w].reader], task[w].name \in DOMAIN part
  PROVE  IsCopy(part[task[w].name], remote)
<1> DEFINE c == part[task[w].name]
<1>1. /\ c \in Seq(Blocks) /\ Prefix(c, remote) /\ remote \in Versions
      /\ task[w] \in Tasks /\ Sound(task[w], dest, part, remote)
  BY DEF IInv, TypeOK, Files, Partial
<1>2. task[w].done = Len(c) /\ task[w].reader \in Versions /\ task[w].reader <= remote
  BY <1>1 DEF Sound, Tasks
<1>3. remote = 1 => task[w].reader = 1
  <2>1. task[w].reader \in Nat /\ task[w].reader >= 1
    BY <1>2, OneVersion
  <2> QED  BY <1>2, <2>1
<1> HIDE DEF c
<1>4. IsCopy(c, remote)
  BY <1>1, <1>2, <1>3, PrefixWhole
<1> QED  BY <1>4 DEF c

LEMMA PublishSound ==
  ASSUME SingleWorker, IInv, NEW w \in Workers, NEW verify \in BOOLEAN, Publish(w, verify)
  PROVE  IInv'
<1> DEFINE n == task[w].name
           new == IF verify THEN [task[w] EXCEPT !.pc = "verify"] ELSE IdleTask("ok")
<1>1. /\ TypeOK /\ TypeOK' /\ remote \in Versions /\ remote' = remote
      /\ task[w] \in Tasks /\ Sound(task[w], dest, part, remote)
      /\ task[w].pc = "copy" /\ task[w].done >= Size[task[w].reader]
  BY PublishTyped DEF Publish, IInv, TypeOK
<1>2. CASE End(w, "err") /\ UNCHANGED <<dest, part>>
  BY <1>1, <1>2, EndSound DEF Results, IInv
<1>3. CASE /\ n \in DOMAIN part
           /\ dest' = Put(dest, n, part[n])
           /\ part' = Drop(part, n)
           /\ task' = [Moved(n, Rename) EXCEPT ![w] = new]
  <2>1. Partial(part', remote')
    BY <1>1, <1>3, DropPartial DEF IInv
  <2>2. task'[w] = new
    <3>1. Moved(n, Rename) \in [Workers -> Tasks]
      BY <1>1, MovedTyped DEF TypeOK
    <3> QED  BY <1>3, <3>1
  <2>3. dest'[n] = part[n] /\ IsCopy(part[n], remote)
    BY <1>1, <1>3, PublishCopy DEF Put
  <2>4. CASE verify
    <3>1. /\ new.pc = "verify" /\ new.name = n /\ new.result = task[w].result
          /\ new.reader = task[w].reader /\ new.since = task[w].since
      BY <1>1, <2>4 DEF Tasks
    <3> HIDE DEF new
    <3>2. Sound(new, dest', part', remote')
      BY <1>1, <2>3, <3>1 DEF Sound, IsCopy
    <3> QED  BY <1>1, <2>1, <2>2, <3>2, SoundOne
  <2>5. CASE ~verify
    BY <1>1, <2>1, <2>2, <2>5, IdleSound, SoundOne
  <2> QED  BY <2>4, <2>5
<1> QED  BY <1>2, <1>3 DEF Publish

LEMMA RemoteChangeSound ==
  ASSUME IInv, NEW inPlace \in BOOLEAN, RemoteChange(inPlace) PROVE IInv'
<1>1. /\ TypeOK /\ TypeOK' /\ remote \in Versions /\ UNCHANGED <<dest, part>>
      /\ remote' = remote + 1 /\ remote' \in Versions
  BY RemoteChangeTyped DEF RemoteChange, IInv, TypeOK
<1>2. Partial(part', remote')
  BY <1>1, PrefixLater DEF Partial, IInv
<1>3. ASSUME NEW w \in Workers PROVE Sound(task'[w], dest', part', remote')
  <2> DEFINE t == task[w]
             u == task'[w]
  <2>1. /\ u.pc = t.pc /\ u.done = t.done /\ u.place = t.place
        /\ u.name = t.name /\ u.since = t.since /\ u.result = t.result
        /\ u.policy = t.policy /\ u.resume = t.resume
        /\ u.reader = t.reader \/ u.reader = remote + 1
        /\ t.since \in Versions /\ t.reader \in Versions
    BY <1>1 DEF RemoteChange, TypeOK, Tasks
  <2>2. Sound(t, dest, part, remote)
    BY DEF IInv
  <2> HIDE DEF t, u
  <2>3. Sound(u, dest', part', remote')
    BY <1>1, <2>1, <2>2, OneVersion DEF Sound
  <2> QED  BY <2>3 DEF u
<1> QED  BY <1>1, <1>2, <1>3 DEF IInv

LEMMA VerifySound ==
  ASSUME SingleWorker, IInv, NEW w \in Workers, Verify(w) PROVE IInv'
<1>1. UNCHANGED <<remote, dest, part>> /\ \E r \in Results : End(w, r)
  BY DEF Verify, Results
<1>2. TypeOK'
  BY <1>1, EndTyped DEF IInv
<1> QED  BY <1>1, <1>2, EndSound DEF IInv

LEMMA DiscardSound ==
  ASSUME IInv, NEW n \in Names, DiscardPartial(n) PROVE IInv'
<1>1. /\ TypeOK /\ TypeOK' /\ UNCHANGED <<remote, dest>>
      /\ part' = Drop(part, n) /\ task' = Moved(n, Unlink)
  BY DiscardTyped DEF DiscardPartial, IInv
<1>2. Partial(part', remote')
  BY <1>1, DropPartial DEF IInv
<1>3. ASSUME NEW w \in Workers PROVE Sound(task'[w], dest', part', remote')
  <2> DEFINE t == task[w]
             u == task'[w]
  <2>1. Sound(t, dest, part, remote) /\ t \in Tasks
    BY <1>1 DEF IInv, TypeOK
  <2>2. CASE t.pc # "idle" /\ t.name = n
    <3>1. /\ u.pc = t.pc /\ u.name = n /\ u.since = t.since /\ u.result = t.result
          /\ u.policy = t.policy /\ u.resume = t.resume /\ u.reader = t.reader
          /\ u.place = Unlink[t.place]
      BY <1>1, <2>1, <2>2 DEF Moved, Tasks
    <3>2. t.pc \in {"open", "copy"} => u.place = "gone"
      BY <2>1, <3>1 DEF Sound, Unlink
    <3>3. n \notin DOMAIN part'
      BY <1>1 DEF Drop
    <3>4. t.name = n
      BY <2>2
    <3> HIDE DEF t, u
    <3>5. Sound(u, dest', part', remote')
      BY <1>1, <2>1, <3>1, <3>2, <3>3, <3>4 DEF Sound
    <3> QED  BY <3>5 DEF u
  <2>3. CASE ~(t.pc # "idle" /\ t.name = n)
    <3>1. u = t
      BY <1>1, <2>3 DEF Moved
    <3>2. t.pc # "idle" => (t.name \in DOMAIN part' <=> t.name \in DOMAIN part)
      BY <1>1, <2>3 DEF Drop
    <3>3. \A m \in DOMAIN part' : part'[m] = part[m]
      BY <1>1 DEF Drop
    <3> HIDE DEF t, u
    <3>4. Sound(t, dest', part', remote')
      BY <1>1, <2>1, <3>2, <3>3 DEF Sound
    <3> QED  BY <3>1, <3>4 DEF u
  <2> QED  BY <2>2, <2>3
<1> QED  BY <1>1, <1>2, <1>3 DEF IInv

LEMMA RelaunchSound ==
  ASSUME IInv, Relaunch PROVE IInv'
<1>1. /\ TypeOK /\ TypeOK' /\ UNCHANGED <<remote, dest>> /\ remote \in Versions
      /\ task' = [w \in Workers |-> IdleTask("none")]
  BY RelaunchTyped DEF Relaunch, IInv, TypeOK
<1>2. Partial(part', remote)
  <2>1. ASSUME NEW w \in Workers, task[w].name \in DOMAIN part,
               part[task[w].name] \in Seq(Blocks), part[task[w].name] # <<>>,
               part' = Put(part, task[w].name,
                           SubSeq(part[task[w].name], 1, Len(part[task[w].name]) - 1))
        PROVE  Partial(part', remote)
    <3> DEFINE c == SubSeq(part[task[w].name], 1, Len(part[task[w].name]) - 1)
    <3>1. Prefix(c, remote)
      BY <1>1, <2>1, PrefixShort DEF IInv, Partial
    <3> HIDE DEF c
    <3>2. Partial(Put(part, task[w].name, c), remote)
      BY <3>1, PutPartial DEF IInv
    <3> QED  BY <2>1, <3>2 DEF c
  <2>2. Partial(NoFiles, remote)
    BY DEF Partial, NoFiles
  <2> QED  BY <1>1, <2>1, <2>2, RelaunchParts DEF IInv
<1>3. \A w \in Workers : Sound(task'[w], dest', part', remote')
  BY <1>1, IdleSound
<1> QED  BY <1>1, <1>2, <1>3 DEF IInv

LEMMA StepSound ==
  ASSUME SingleWorker, IInv, [Next]_vars PROVE IInv'
<1>1. ASSUME NEW w \in Workers, Attempt(w) PROVE IInv'
  <2>1. CASE ReadFails(w)
    BY <2>1, EndTyped, EndSound DEF ReadFails, Results, IInv
  <2> QED  BY <1>1, <2>1, BeginSound, OpenReadSound, CopySound, StopEarlySound,
              PublishSound, VerifySound DEF Attempt
<1>2. CASE UNCHANGED vars
  BY <1>2 DEF vars, IInv, TypeOK
<1> QED  BY <1>1, <1>2, RemoteChangeSound, DiscardSound, RelaunchSound DEF Next

LEMMA Invariant == ASSUME SingleWorker PROVE Spec => []IInv
<1>1. Init => IInv
  <2> SUFFICES ASSUME Init PROVE IInv
    OBVIOUS
  <2>1. TypeOK
    BY InitTyped
  <2>2. Partial(part, remote)
    BY DEF Init, Partial, NoFiles
  <2>3. \A w \in Workers : Sound(task[w], dest, part, remote)
    BY IdleSound, OneVersion DEF Init
  <2> QED  BY <2>1, <2>2, <2>3 DEF IInv
<1>2. IInv /\ [Next]_vars => IInv'
  BY StepSound
<1> QED  BY <1>1, <1>2, PTL DEF Spec
-----------------------------------------------------------------------------
(* The theorems of one worker.                                              *)

\* The destination only changes when an attempt publishes its part file.
LEMMA DestChanges ==
  ASSUME IInv, [Next]_vars, dest' # dest
  PROVE  \E w \in Workers :
           /\ task[w].pc = "copy" /\ task[w].done >= Size[task[w].reader]
           /\ task[w].name \in DOMAIN part
           /\ dest' = Put(dest, task[w].name, part[task[w].name])
           /\ UNCHANGED remote
<1>1. PICK w \in Workers : Attempt(w)
  BY DEF Next, vars, RemoteChange, DiscardPartial, Relaunch
<1>2. CASE \E verify \in BOOLEAN : Publish(w, verify)
  BY <1>2 DEF Publish
<1>3. ~Copy(w)
  <2>1. task[w].pc = "copy" => task[w].place # "dest"
    BY DEF IInv, Sound
  <2> QED  BY <2>1 DEF Copy
<1> QED
  BY <1>1, <1>2, <1>3 DEF Attempt, Begin, OpenRead, ReadFails, StopEarly, Verify

\* Files appear at the destination complete and in one step, and change from
\* one complete copy to another, whatever fails, whenever the app is ended and
\* relaunched, and however the source changes (302-402).
THEOREM Atomicity == ASSUME SingleWorker PROVE Spec => AtomicSpec
<1>1. Init => Atomic!Init
  BY DEF Init, Atomic!Init, NoFiles, Put, Old, Atomic!Old
<1>2. IInv /\ [Next]_vars => [Atomic!Next]_<<remote, dest>>
  <2> SUFFICES ASSUME IInv, [Next]_vars PROVE [Atomic!Next]_<<remote, dest>>
    OBVIOUS
  <2>1. CASE dest' # dest
    <3>1. PICK w \in Workers :
            /\ task[w].pc = "copy" /\ task[w].done >= Size[task[w].reader]
            /\ task[w].name \in DOMAIN part
            /\ dest' = Put(dest, task[w].name, part[task[w].name])
            /\ UNCHANGED remote
      BY <2>1, DestChanges
    <3> DEFINE n == task[w].name
               c == part[n]
    <3>2. IsCopy(c, remote)
      BY <3>1, PublishCopy
    <3> HIDE DEF n, c
    <3>3. n \in DOMAIN dest' /\ dest'[n] = c /\ dest' = Put(dest, n, c) /\ UNCHANGED remote
      BY <3>1 DEF Put, n, c
    <3>4. Atomic!Publish(n)
      BY <3>2, <3>3 DEF Atomic!Publish, Atomic!IsCopy, IsCopy, Atomic!Content, Content,
                        Atomic!Put, Put
    <3> QED  BY <3>3, <3>4 DEF Atomic!Next
  <2>2. CASE dest' = dest /\ remote' # remote
    <3>1. remote' \in Versions /\ remote' = remote + 1 /\ remote \in Nat
      BY <2>2, OneVersion DEF Next, Attempt, Begin, OpenRead, Copy, ReadFails, StopEarly, Publish,
                  Verify, RemoteChange, DiscardPartial, Relaunch, vars, IInv, TypeOK
    <3>2. Atomic!Modify
      BY <2>2, <3>1 DEF Atomic!Modify, Atomic!Versions, Versions
    <3> QED  BY <3>2 DEF Atomic!Next
  <2> QED  BY <2>1, <2>2
<1> QED  BY <1>1, <1>2, Invariant, PTL DEF Spec, AtomicSpec, Atomic!Spec

\* A file that exists at the destination is replaced only by an attempt whose
\* policy says so (267-296).
THEOREM NothingClobbered == ASSUME SingleWorker PROVE Spec => NoClobber
<1>1. IInv /\ [Next]_vars =>
        [\A n \in DOMAIN dest :
           dest'[n] # dest[n] =>
             \E w \in Workers : /\ task[w].pc = "copy" /\ task[w].name = n
                               /\ task[w].policy \in {"Overwrite", "Resume", "NewerOnly"}]_vars
  <2> SUFFICES ASSUME IInv, [Next]_vars, NEW n \in DOMAIN dest, dest'[n] # dest[n]
               PROVE  \E w \in Workers : /\ task[w].pc = "copy" /\ task[w].name = n
                               /\ task[w].policy \in {"Overwrite", "Resume", "NewerOnly"}
    OBVIOUS
  <2>1. PICK w \in Workers : /\ task[w].pc = "copy"
                             /\ dest' = Put(dest, task[w].name, part[task[w].name])
    BY DestChanges
  <2>2. task[w].name = n
    BY <2>1 DEF Put
  <2> QED  BY <2>1, <2>2 DEF IInv, Sound, Replacing
<1> QED  BY <1>1, Invariant, PTL DEF Spec, NoClobber

\* Without resuming, an attempt puts only blocks in place that it has read
\* itself, whatever an earlier attempt left in the part file (326-349).
THEOREM OwnBytesOnly == ASSUME SingleWorker PROVE Spec => NoStaleBytes
<1>1. IInv /\ [Next]_vars =>
        [\A w \in Workers :
           task[w].pc = "copy" /\ task'[w].pc # "copy" /\ dest' # dest /\ ~task[w].resume =>
             LET c == dest'[task[w].name]
             IN  \A i \in DOMAIN c : c[i][1] >= task[w].since]_vars
  <2> SUFFICES ASSUME IInv, [Next]_vars, NEW w \in Workers, task[w].pc = "copy", dest' # dest,
                      ~task[w].resume
               PROVE  \A i \in DOMAIN dest'[task[w].name] :
                        dest'[task[w].name][i][1] >= task[w].since
    OBVIOUS
  <2>1. PICK x \in Workers : /\ task[x].name \in DOMAIN part
                             /\ dest' = Put(dest, task[x].name, part[task[x].name])
    BY DestChanges
  <2>2. x = w
    BY DEF SingleWorker
  <2>3. dest'[task[w].name] = part[task[w].name]
    BY <2>1, <2>2 DEF Put
  <2> QED  BY <2>1, <2>2, <2>3 DEF IInv, Sound
<1> QED  BY <1>1, Invariant, PTL DEF Spec, NoStaleBytes

\* As long as the source has not changed, an attempt that is reported as done
\* or verified leaves a copy of the source at its name (382-402, 620-700).
THEOREM DoneIsCopied == ASSUME SingleWorker PROVE Spec => DoneMeansCopied
<1>1. IInv /\ [Next]_vars =>
        [\A w \in Workers :
           task[w].pc # "idle" /\ task'[w].result \in {"ok", "verified"} /\ remote = 1 =>
             task[w].name \in DOMAIN dest' /\ dest'[task[w].name] = Content(1)]_vars
  <2> SUFFICES ASSUME IInv, [Next]_vars, NEW w \in Workers, task[w].pc # "idle",
                      task'[w].result \in {"ok", "verified"}, remote = 1
               PROVE  task[w].name \in DOMAIN dest' /\ dest'[task[w].name] = Content(1)
    OBVIOUS
  <2>1. /\ task \in [Workers -> Tasks] /\ Linked(task[w], dest, part)
        /\ Sound(task[w], dest, part, remote)
    BY DEF IInv, TypeOK
  <2>2. task[w].result = "none" /\ \A x \in Workers : x = w
    BY <2>1 DEF Sound, SingleWorker
  <2>3. CASE Verify(w)
    BY <2>1, <2>3 DEF Verify, Linked, Sound
  <2>4. ASSUME NEW verify \in BOOLEAN, Publish(w, verify)
        PROVE  task[w].name \in DOMAIN dest' /\ dest'[task[w].name] = Content(1)
    <3>1. task'[w].result # "err"
      OBVIOUS
    <3>2. /\ task[w].pc = "copy" /\ task[w].done >= Size[task[w].reader]
          /\ task[w].name \in DOMAIN part
          /\ dest' = Put(dest, task[w].name, part[task[w].name])
      BY <2>1, <2>4, <3>1 DEF Publish, End, IdleTask
    <3>3. IsCopy(part[task[w].name], 1)
      BY <3>2, PublishCopy
    <3> QED  BY <3>2, <3>3 DEF Put, IsCopy
  <2>5. task'[w].result = "none" \/ task'[w].result = "err"
          \/ Verify(w) \/ \E verify \in BOOLEAN : Publish(w, verify)
    <3>1. CASE UNCHANGED vars
      BY <2>2, <3>1 DEF vars
    <3>2. CASE Attempt(w)
      <4>1. CASE End(w, "err")
        BY <2>1, <4>1 DEF End, IdleTask
      <4>2. CASE OpenRead(w) /\ ~End(w, "err")
        <5>1. Moved(task[w].name, Unlink) \in [Workers -> Tasks]
          BY <2>1, MovedTyped
        <5>2. \/ task'[w] = [task[w] EXCEPT !.pc = "copy", !.reader = remote]
              \/ task'[w] = [task[w] EXCEPT !.pc = "copy", !.reader = remote, !.done = 0,
                                            !.append = FALSE, !.place = "part"]
          BY <2>1, <4>2, <5>1 DEF OpenRead
        <5>3. task[w] \in Tasks
          BY <2>1
        <5> QED  BY <2>2, <5>2, <5>3 DEF Tasks
      <4>3. CASE Copy(w)
        BY <2>1, <2>2, <4>3 DEF Copy, Tasks
      <4>4. CASE StopEarly(w)
        <5>1. Moved(task[w].name, Unlink) \in [Workers -> Tasks]
          BY <2>1, MovedTyped
        <5> QED  BY <2>1, <4>4, <5>1 DEF StopEarly, IdleTask
      <4>5. \A resume, seen, newer \in BOOLEAN, policy \in Policies :
              ~Begin(w, resume, policy, seen, newer)
        BY DEF Begin
      <4> QED  BY <3>2, <4>1, <4>2, <4>3, <4>4, <4>5 DEF Attempt, ReadFails
    <3>3. ASSUME NEW inPlace \in BOOLEAN, RemoteChange(inPlace) PROVE task'[w].result = "none"
      BY <2>1, <2>2, <3>3 DEF RemoteChange, Tasks
    <3>4. ASSUME NEW n \in Names, DiscardPartial(n) PROVE task'[w].result = "none"
      BY <2>1, <2>2, <3>4 DEF DiscardPartial, Moved, Tasks
    <3>5. CASE Relaunch
      BY <3>5 DEF Relaunch, IdleTask
    <3> QED  BY <2>2, <3>1, <3>2, <3>3, <3>4, <3>5 DEF Next
  <2> QED  BY <2>3, <2>4, <2>5
<1> QED  BY <1>1, Invariant, PTL DEF Spec, DoneMeansCopied
=============================================================================
