---------------------------- MODULE UploadProofs ----------------------------
(***************************************************************************)
(* Theorems of Upload, for every value of its constants.                   *)
(***************************************************************************)
EXTENDS Upload, TLAPS

-----------------------------------------------------------------------------
(* Contents.  DownloadProofs has these lemmas as well: it cannot be extended *)
(* here, because it has the states of the other worker.                      *)

\* There is a first version, and sizes are numbers.
LEMMA OneVersion ==
  1 \in Versions /\ Versions \subseteq Nat /\ \A v \in Versions : v >= 1 /\ Size[v] \in Nat
BY SizeAssumption DEF Versions

LEMMA ContentBlocks ==
  ASSUME NEW v \in Versions
  PROVE  /\ Content(v) \in Seq(Blocks) /\ Len(Content(v)) = Size[v]
         /\ \A i \in 1 .. Size[v] : Content(v)[i] = <<v, i>>
<1>1. Size[v] \in Nat
  BY OneVersion
<1>2. \A i \in 1 .. Size[v] : <<v, i>> \in Blocks
  BY DEF Blocks
<1>3. Content(v) \in [1 .. Size[v] -> Blocks] /\ \A i \in 1 .. Size[v] : Content(v)[i] = <<v, i>>
  BY <1>2 DEF Content
<1> QED  BY <1>1, <1>3

\* Contents with the same blocks are the same.
LEMMA SameBlocks ==
  ASSUME NEW c \in Seq(Blocks), NEW d \in Seq(Blocks), Len(c) = Len(d),
         \A i \in 1 .. Len(c) : c[i] = d[i]
  PROVE  c = d
OBVIOUS

-----------------------------------------------------------------------------
(* The beginning of a copy.                                                 *)

\* c is the beginning of a copy made of the versions up to v.
Prefix(c, v) ==
  /\ \A i \in DOMAIN c : c[i][1] \in 1 .. v /\ c[i][2] = i
  /\ v = 1 => Len(c) <= Size[1]

Partial(parts, v) == \A n \in DOMAIN parts : Prefix(parts[n], v)

\* An empty file is a beginning of every version.
LEMMA PrefixEmpty ==
  ASSUME NEW v \in Versions PROVE Prefix(<<>>, v)
BY OneVersion DEF Prefix

LEMMA PrefixLater ==
  ASSUME NEW c, NEW v \in Versions, Prefix(c, v) PROVE Prefix(c, v + 1)
BY OneVersion DEF Prefix

\* A prefix as long as its version is a copy.
LEMMA PrefixWhole ==
  ASSUME NEW c \in Seq(Blocks), NEW v \in Versions, Prefix(c, v), v = 1 => Len(c) >= Size[1]
  PROVE  IsCopy(c, v)
<1>1. ASSUME v = 1 PROVE c = Content(1)
  <2>1. Len(c) = Size[1] /\ Len(c) \in Nat
    BY <1>1, OneVersion DEF Prefix
  <2>2. \A i \in 1 .. Len(c) : c[i] = <<1, i>>
    <3> SUFFICES ASSUME NEW i \in 1 .. Len(c) PROVE c[i] = <<1, i>>
      OBVIOUS
    <3>1. c[i] \in Blocks /\ c[i][1] = 1 /\ c[i][2] = i
      BY <1>1 DEF Prefix
    <3> QED  BY <3>1 DEF Blocks
  <2> DEFINE d == Content(1)
  <2>3. d \in Seq(Blocks) /\ Len(d) = Len(c) /\ \A i \in 1 .. Len(c) : d[i] = <<1, i>>
    BY <2>1, OneVersion, ContentBlocks
  <2> HIDE DEF d
  <2>4. c = d
    BY <2>2, <2>3, SameBlocks
  <2> QED  BY <2>4 DEF d
<1> QED  BY <1>1 DEF Prefix, IsCopy

\* A directory of prefixes with one more, or one less.
LEMMA PutPartial ==
  ASSUME NEW dir, NEW v, Partial(dir, v), NEW n, NEW c, Prefix(c, v)
  PROVE  Partial(Put(dir, n, c), v)
BY DEF Partial, Put

LEMMA DropPartial ==
  ASSUME NEW dir, NEW v, Partial(dir, v), NEW n PROVE Partial(Drop(dir, n), v)
BY DEF Partial, Drop
-----------------------------------------------------------------------------
(* Directories.                                                             *)

\* A directory with one more file, or one less.
LEMMA PutFiles ==
  ASSUME NEW dir, Files(dir), NEW n \in Names, NEW c \in Seq(Blocks)
  PROVE  Files(Put(dir, n, c)) /\ DOMAIN Put(dir, n, c) = DOMAIN dir \cup {n}
BY DEF Files, Put

LEMMA DropFiles ==
  ASSUME NEW dir, Files(dir), NEW n
  PROVE  Files(Drop(dir, n)) /\ DOMAIN Drop(dir, n) = DOMAIN dir \ {n}
BY DEF Files, Drop

LEMMA NoFilesTyped == Files(NoFiles)
BY DEF Files, NoFiles

\* d is c and then k blocks of version v, the first of them block `from`.
Appended(d, c, v, from, k) ==
  /\ d \in Seq(Blocks) /\ Len(d) = Len(c) + k
  /\ \A i \in 1 .. Len(c) : d[i] = c[i]
  /\ \A i \in Len(c) + 1 .. Len(c) + k : d[i] = <<v, from + i - Len(c) - 1>>

\* Blocks written at the end of a content are appended to it.
LEMMA SpliceAtEnd ==
  ASSUME NEW c \in Seq(Blocks), NEW v \in Versions, NEW from \in Nat \ {0}, NEW k \in Nat,
         NEW d, d = Spliced(c, Len(c), v, from, from + k - 1)
  PROVE  Appended(d, c, v, from, k)
<1> DEFINE m == Len(c) + k
<1>1. Len(c) \in Nat /\ m \in Nat /\ Len(c) + (from + k - 1) - from + 1 = m
  OBVIOUS
<1>2. d = [i \in 1 .. m |-> IF i <= Len(c) THEN c[i] ELSE <<v, from + i - Len(c) - 1>>]
  BY <1>1 DEF Spliced
<1>3. ASSUME NEW i \in 1 .. Len(c) PROVE d[i] = c[i]
  BY <1>1, <1>2
<1>4. ASSUME NEW i \in Len(c) + 1 .. Len(c) + k PROVE d[i] = <<v, from + i - Len(c) - 1>>
  BY <1>1, <1>2
<1>5. ASSUME NEW i \in 1 .. m PROVE d[i] \in Blocks
  <2>1. CASE i \in 1 .. Len(c)
    BY <1>3, <2>1
  <2>2. CASE i \in Len(c) + 1 .. Len(c) + k
    <3>1. from + i - Len(c) - 1 \in Nat
      BY <1>1, <2>2
    <3>2. <<v, from + i - Len(c) - 1>> \in Blocks
      BY <3>1 DEF Blocks
    <3> QED  BY <1>4, <2>2, <3>2
  <2> QED  BY <1>1, <2>1, <2>2
<1>6. d \in Seq(Blocks) /\ Len(d) = m
  <2>1. DOMAIN d = 1 .. m /\ d = [i \in 1 .. m |-> d[i]]
    BY <1>2
  <2> HIDE DEF m
  <2>2. d \in [1 .. m -> Blocks]
    BY <1>5, <2>1
  <2> QED  BY <1>1, <2>2
<1> QED  BY <1>3, <1>4, <1>6 DEF Appended
-----------------------------------------------------------------------------
(* The types, and what the writer knows of the part file: it writes at the  *)
(* end, and unless the attempt resumes, the blocks are its own.             *)

Own ==
  /\ task.since <= local
  /\ task.pc \in {"open", "copy"} => task.pos = Len(part[task.name]) /\ task.reader >= task.since
  /\ task.pc \in {"open", "copy", "rename", "remove", "again"} /\ ~task.resume
       /\ task.name \in DOMAIN part =>
       \A i \in DOMAIN part[task.name] : part[task.name][i][1] >= task.since

IInv == TypeOK /\ Own

\* The version an attempt began with is not beyond that of the source.
LEMMA SinceKnown == ASSUME IInv PROVE local \in Nat /\ task.since \in Nat /\ task.since <= local
BY OneVersion DEF IInv, TypeOK, Own, Tasks

LEMMA IdleTyped == ASSUME NEW r \in Results PROVE IdleTask(r) \in Tasks
BY OneVersion, UploadAssumption DEF IdleTask, Tasks, Names, Policies, Results

\* An attempt that ends, whatever it leaves in the directories.
LEMMA EndKeeps ==
  ASSUME local' \in Versions, Files(dest'), Files(part'), NEW r \in Results, End(r)
  PROVE  IInv'
BY IdleTyped, OneVersion DEF End, IdleTask, IInv, TypeOK, Own

LEMMA EmptyFile == <<>> \in Seq(Blocks) /\ Len(<<>>) = 0
OBVIOUS

LEMMA GoalsNames ==
  ASSUME NEW policy, NEW seen, NEW newer PROVE Goals(policy, seen, newer) \subseteq Names
BY UploadAssumption DEF Goals, Names

LEMMA BeginKeeps ==
  ASSUME IInv, NEW resume \in BOOLEAN, NEW policy \in Policies, NEW seen,
         NEW seenPart \in BOOLEAN, NEW newer \in BOOLEAN,
         Begin(resume, policy, seen, seenPart, newer)
  PROVE  IInv'
<1>1. UNCHANGED <<local, dest>> /\ local \in Versions /\ Files(dest) /\ Files(part)
  BY DEF Begin, IInv, TypeOK
<1>2. ASSUME NEW r \in {"err", "skipped"}, End(r), UNCHANGED part PROVE IInv'
  BY <1>1, <1>2, EndKeeps DEF Results
<1>3. ASSUME NEW n \in Goals(policy, seen, newer), OpenPart(n, resume, policy, seenPart)
      PROVE  IInv'
  <2> DEFINE at == Offset(n, resume, seenPart)
  <2>1. n \in Names
    BY GoalsNames
  <2>2. at = 0 \/ (resume /\ n \in DOMAIN part /\ at = Len(part[n]))
    BY DEF Offset
  <2>3. at \in Nat
    BY <1>1, <2>2 DEF Files
  <2>4. /\ part' = IF at = 0 THEN Put(part, n, <<>>) ELSE part
        /\ task' = [pc |-> "open", name |-> n, resume |-> resume, policy |-> policy,
                    size |-> Size[local], done |-> at, pos |-> at, reader |-> local,
                    since |-> local, result |-> "none"]
    BY <1>3 DEF OpenPart
  <2> HIDE DEF at
  <2>5. Files(part')
    BY <1>1, <2>1, <2>4, PutFiles, EmptyFile
  <2>6. n \in DOMAIN part' /\ at = Len(part'[n]) /\ (~resume => part'[n] = <<>>)
    BY <2>2, <2>4 DEF Put
  <2>7. task' \in Tasks
    BY <1>1, <2>1, <2>3, <2>4, OneVersion DEF Tasks, Results
  <2>8. local >= local /\ local <= local /\ local' = local
    BY <1>1, OneVersion
  <2>9. TypeOK'
    BY <1>1, <2>3, <2>4, <2>5, <2>6, <2>7 DEF TypeOK
  <2>10. /\ task'.since = local /\ task'.reader = local /\ task'.name = n
         /\ task'.pos = at /\ task'.resume = resume
    BY <2>4
  <2>11. Own'
    BY <2>6, <2>8, <2>10, EmptyFile DEF Own
  <2> QED  BY <2>9, <2>11 DEF IInv
<1>4. ASSUME NEW n \in Goals(policy, seen, newer),
             part' \in {part, Drop(part, n), Put(part, n, <<>>)}, End("err")
      PROVE  IInv'
  <2>1. Files(Put(part, n, <<>>)) /\ Files(Drop(part, n))
    BY <1>1, GoalsNames, PutFiles, DropFiles, EmptyFile
  <2>2. Files(part')
    BY <1>1, <1>4, <2>1
  <2> QED  BY <1>1, <1>4, <2>2, EndKeeps DEF Results
<1> QED  BY <1>2, <1>3, <1>4 DEF Begin

LEMMA SeekKeeps == ASSUME IInv, Seek PROVE IInv'
<1>1. /\ UNCHANGED <<local, dest>> /\ local \in Versions /\ Files(dest) /\ Files(part)
      /\ task \in Tasks /\ task.name \in Names /\ task.pc = "open"
  BY DEF Seek, IInv, TypeOK, Tasks
<1>2. Files(Put(part, task.name, <<>>))
  BY <1>1, PutFiles, EmptyFile
<1>3. CASE task' = [task EXCEPT !.pc = "copy"] /\ UNCHANGED part
  BY <1>1, <1>3 DEF IInv, TypeOK, Own, Tasks
<1>4. CASE /\ part' = Put(part, task.name, <<>>)
           /\ task' = [task EXCEPT !.pc = "copy", !.done = 0, !.pos = 0]
  <2>1. /\ task' \in Tasks /\ task'.pc = "copy" /\ task'.pos = 0 /\ task'.name = task.name
        /\ task'.reader = task.reader /\ task'.since = task.since
    BY <1>1, <1>4 DEF Tasks
  <2>2. task.name \in DOMAIN part' /\ part'[task.name] = <<>>
    BY <1>4 DEF Put
  <2>3. task.reader >= task.since
    BY <1>1 DEF IInv, Own
  <2>4. TypeOK'
    BY <1>1, <1>2, <1>4, <2>1, <2>2, EmptyFile DEF TypeOK
  <2>5. Own'
    BY <1>1, <2>1, <2>2, <2>3, SinceKnown, EmptyFile DEF Own
  <2> QED  BY <2>4, <2>5 DEF IInv
<1>5. CASE part' \in {part, Put(part, task.name, <<>>)} /\ End("err")
  <2>1. Files(part')
    BY <1>1, <1>2, <1>5
  <2> QED  BY <1>1, <1>5, <2>1, EndKeeps DEF Results
<1> QED  BY <1>3, <1>4, <1>5 DEF Seek

\* What one write leaves in the part file.
LEMMA WrittenFile ==
  ASSUME IInv, task.pc = "copy", task.done < Size[task.reader]
  PROVE  LET c == part[task.name]
             d == Spliced(c, task.pos, task.reader, task.done + 1, task.done + Sent)
         IN  /\ c \in Seq(Blocks) /\ d \in Seq(Blocks)
             /\ WrittenPart = Put(part, task.name, d) /\ Files(WrittenPart)
             /\ Len(d) = Len(c) + Sent /\ Sent \in Nat /\ Read \in Nat /\ Sent <= Read
             /\ task.done + Read <= Size[task.reader] /\ (Chunk <= WriteMax => Sent = Read)
             /\ \A i \in 1 .. Len(c) : d[i] = c[i]
             /\ \A i \in Len(c) + 1 .. Len(c) + Sent :
                  d[i] = <<task.reader, task.done + i - Len(c)>>
<1> DEFINE c == part[task.name]
           d == Spliced(c, task.pos, task.reader, task.done + 1, task.done + Sent)
<1>1. /\ task \in Tasks /\ task.name \in Names /\ task.reader \in Versions /\ task.done \in Nat
      /\ task.name \in DOMAIN part /\ task.pos = Len(c) /\ Files(part)
  BY DEF IInv, TypeOK, Own, Tasks
<1>2. c \in Seq(Blocks)
  BY <1>1 DEF Files
<1>3. /\ Read \in Nat /\ Sent \in Nat /\ Sent <= Read
      /\ task.done + Read <= Size[task.reader] /\ (Chunk <= WriteMax => Sent = Read)
  <2>1. Size[task.reader] \in Nat /\ Chunk \in Nat /\ WriteMax \in Nat
    BY <1>1, OneVersion, UploadAssumption
  <2>2. /\ Read \in Nat /\ Read <= Chunk /\ task.done + Read <= Size[task.reader]
    BY <1>1, <2>1 DEF Read
  <2> QED  BY <2>1, <2>2 DEF Sent
<1>4. d = Spliced(c, Len(c), task.reader, task.done + 1, (task.done + 1) + Sent - 1)
  <2>1. (task.done + 1) + Sent - 1 = task.done + Sent
    BY <1>1, <1>3
  <2> QED  BY <1>1, <2>1
<1>5. task.done + 1 \in Nat \ {0}
  BY <1>1
<1> HIDE DEF c, d
<1>6. /\ d \in Seq(Blocks) /\ Len(d) = Len(c) + Sent
      /\ \A i \in 1 .. Len(c) : d[i] = c[i]
      /\ \A i \in Len(c) + 1 .. Len(c) + Sent :
           d[i] = <<task.reader, (task.done + 1) + i - Len(c) - 1>>
  <2>1. Appended(d, c, task.reader, task.done + 1, Sent)
    BY <1>1, <1>2, <1>3, <1>4, <1>5, SpliceAtEnd
  <2> QED  BY <2>1 DEF Appended
<1>7. ASSUME NEW i \in Len(c) + 1 .. Len(c) + Sent
      PROVE  d[i] = <<task.reader, task.done + i - Len(c)>>
  <2>1. (task.done + 1) + i - Len(c) - 1 = task.done + i - Len(c)
    BY <1>1, <1>2, <1>3
  <2> QED  BY <1>6, <2>1
<1>8. WrittenPart = Put(part, task.name, d)
  BY DEF WrittenPart, c, d
<1>9. Files(WrittenPart)
  BY <1>1, <1>6, <1>8, PutFiles
<1> QED  BY <1>2, <1>3, <1>6, <1>7, <1>8, <1>9, Zenon DEF c, d

LEMMA CopyKeeps == ASSUME IInv, Copy PROVE IInv'
<1> DEFINE n == task.name
           c == part[n]
           d == Spliced(c, task.pos, task.reader, task.done + 1, task.done + Sent)
<1>1. /\ task.pc = "copy" /\ task.done < Size[task.reader] /\ UNCHANGED <<local, dest>>
      /\ part' = WrittenPart /\ task' = [task EXCEPT !.done = @ + Read, !.pos = @ + Sent]
  BY DEF Copy
<1>2. /\ c \in Seq(Blocks) /\ part' = Put(part, n, d) /\ Files(part')
      /\ Len(d) = Len(c) + Sent /\ Sent \in Nat /\ Read \in Nat
  BY <1>1, WrittenFile
<1>3. \A i \in DOMAIN d : \/ i \in DOMAIN c /\ d[i] = c[i]
                          \/ d[i][1] = task.reader
  <2>1. /\ d \in Seq(Blocks) /\ Len(d) = Len(c) + Sent
        /\ \A i \in 1 .. Len(c) : d[i] = c[i]
        /\ \A i \in Len(c) + 1 .. Len(c) + Sent : d[i] = <<task.reader, task.done + i - Len(c)>>
    BY <1>1, WrittenFile, Zenon
  <2> HIDE DEF c, d
  <2> SUFFICES ASSUME NEW i \in 1 .. Len(c) + Sent
               PROVE  (i \in 1 .. Len(c) /\ d[i] = c[i]) \/ d[i][1] = task.reader
    BY <1>2, <2>1
  <2>2. CASE i \in 1 .. Len(c)
    BY <2>1, <2>2
  <2>3. CASE i \in Len(c) + 1 .. Len(c) + Sent
    BY <2>1, <2>3
  <2> QED  BY <1>2, <2>2, <2>3
<1>4. /\ task' \in Tasks /\ task'.pc = "copy" /\ task'.name = n /\ task'.resume = task.resume
      /\ task'.pos = task.pos + Sent /\ task'.reader = task.reader /\ task'.since = task.since
  <2>1. task \in Tasks /\ Sent \in Nat /\ Read \in Nat
    BY <1>2 DEF IInv, TypeOK
  <2>2. task.done + Read \in Nat /\ task.pos + Sent \in Nat
    BY <2>1 DEF Tasks
  <2>3. task' = [task EXCEPT !.done = task.done + Read, !.pos = task.pos + Sent]
    BY <1>1
  <2> QED  BY <1>1, <2>1, <2>2, <2>3 DEF Tasks
<1>5. n \in DOMAIN part' /\ part'[n] = d
  BY <1>2 DEF Put
<1>6. /\ task.pos = Len(c) /\ task.reader >= task.since /\ local \in Versions /\ Files(dest)
      /\ ~task.resume => \A i \in DOMAIN c : c[i][1] >= task.since
  BY <1>1 DEF IInv, Own, TypeOK
<1>9. task.since <= local /\ local' = local
  BY <1>1, SinceKnown
<1> HIDE DEF n, c, d
<1>7. TypeOK'
  BY <1>1, <1>2, <1>4, <1>5, <1>6 DEF TypeOK
<1>8. Own'
  BY <1>2, <1>3, <1>4, <1>5, <1>6, <1>9 DEF Own
<1> QED  BY <1>7, <1>8 DEF IInv

LEMMA StopEarlyKeeps == ASSUME IInv, StopEarly PROVE IInv'
<1>1. /\ UNCHANGED <<local, dest>> /\ local \in Versions /\ Files(dest) /\ Files(part)
      /\ End("err") /\ task.pc = "copy"
  BY DEF StopEarly, IInv, TypeOK
<1>2. task.done < Size[task.reader] => Files(WrittenPart)
  BY <1>1, WrittenFile
<1>3. Files(Drop(part, task.name))
  BY <1>1, DropFiles
<1>4. Files(part')
  BY <1>1, <1>2, <1>3 DEF StopEarly
<1> QED  BY <1>1, <1>4, EndKeeps DEF Results

LEMMA RenamedFiles ==
  ASSUME IInv, Renamed
  PROVE  /\ Files(dest') /\ Files(part') /\ task.name \in DOMAIN dest' /\ DOMAIN dest \subseteq DOMAIN dest'
         /\ task.name \notin DOMAIN part'
<1>1. /\ Files(dest) /\ Files(part) /\ task.name \in Names /\ task.name \in DOMAIN part
  BY DEF IInv, TypeOK, Tasks, Renamed
<1>2. part[task.name] \in Seq(Blocks)
  BY <1>1 DEF Files
<1>3. /\ Files(Put(dest, task.name, part[task.name]))
      /\ DOMAIN Put(dest, task.name, part[task.name]) = DOMAIN dest \cup {task.name}
  BY <1>1, <1>2, PutFiles
<1>4. Files(Drop(part, task.name)) /\ DOMAIN Drop(part, task.name) = DOMAIN part \ {task.name}
  BY <1>1, DropFiles
<1> QED  BY <1>3, <1>4 DEF Renamed

\* The steps from the end of the file to the end of the attempt.
LEMMA FinishKeeps == ASSUME IInv, Finish PROVE IInv'
BY DEF IInv, Finish, TypeOK, Own, Tasks

LEMMA RenamesKeep ==
  ASSUME IInv, NEW verify \in BOOLEAN, FirstRename(verify) \/ RemoveDest \/ SecondRename(verify)
  PROVE  IInv'
<1>1. /\ local' = local /\ local \in Versions /\ Files(dest) /\ Files(part) /\ task \in Tasks
      /\ task.pc \in {"rename", "remove", "again"}
  BY DEF FirstRename, RemoveDest, SecondRename, IInv, TypeOK
<1>2. CASE Renamed /\ task' = AfterRename(verify)
  <2>1. Files(dest') /\ Files(part') /\ task.name \in DOMAIN dest'
    BY <1>2, RenamedFiles
  <2>2. CASE verify
    BY <1>1, <1>2, <2>1, <2>2 DEF AfterRename, IInv, TypeOK, Own, Tasks
  <2>3. CASE ~verify
    BY <1>1, <1>2, <2>1, <2>3, EndKeeps DEF AfterRename, End, Results
  <2> QED  BY <2>2, <2>3
<1>3. CASE (Renamed \/ UNCHANGED <<dest, part>>) /\ End("err")
  <2>1. Files(dest') /\ Files(part')
    BY <1>1, <1>3, RenamedFiles
  <2> QED  BY <1>1, <1>3, <2>1, EndKeeps DEF Results
<1>4. ASSUME NEW s \in {"remove", "again"}, task' = [task EXCEPT !.pc = s],
             Files(dest'), Files(part'),
             task.name \in DOMAIN part' => task.name \in DOMAIN part /\ part'[task.name] = part[task.name]
      PROVE  IInv'
  <2>1. /\ task' \in Tasks /\ task'.pc = s /\ task'.name = task.name
        /\ task'.resume = task.resume /\ task'.since = task.since
    BY <1>1, <1>4 DEF Tasks
  <2>2. TypeOK'
    BY <1>1, <1>4, <2>1 DEF TypeOK
  <2>3. Own'
    BY <1>1, <1>4, <2>1 DEF IInv, Own
  <2> QED  BY <2>2, <2>3 DEF IInv
<1>5. CASE (Renamed \/ UNCHANGED <<dest, part>>) /\ task' = [task EXCEPT !.pc = "remove"]
  <2>1. Files(dest') /\ Files(part')
    BY <1>1, <1>5, RenamedFiles
  <2>2. task.name \in DOMAIN part' => part' = part
    BY <1>5, RenamedFiles
  <2> QED  BY <1>4, <1>5, <2>1, <2>2
<1>6. CASE /\ dest' \in {dest, Drop(dest, task.name)}
           /\ task' = [task EXCEPT !.pc = "again"] /\ UNCHANGED part
  <2>1. Files(Drop(dest, task.name))
    BY <1>1, DropFiles
  <2>2. Files(dest')
    BY <1>1, <1>6, <2>1
  <2> QED  BY <1>1, <1>4, <1>6, <2>2
<1> QED  BY <1>2, <1>3, <1>5, <1>6 DEF FirstRename, RemoveDest, SecondRename

LEMMA LocalChangeKeeps == ASSUME IInv, NEW inPlace \in BOOLEAN, LocalChange(inPlace) PROVE IInv'
<1>1. /\ local' \in Versions /\ local' = local + 1 /\ local \in Nat /\ UNCHANGED <<dest, part>>
  BY OneVersion DEF LocalChange, IInv, TypeOK
<1>4. task.since \in Nat /\ task.since <= local + 1 /\ local + 1 >= task.since
  BY <1>1, SinceKnown
<1>2. CASE task' = task
  BY <1>1, <1>2, <1>4 DEF IInv, TypeOK, Own
<1>3. CASE task' = [task EXCEPT !.reader = local + 1]
  <2>1. /\ task' \in Tasks /\ task'.pc = task.pc /\ task'.name = task.name
        /\ task'.resume = task.resume /\ task'.since = task.since /\ task'.pos = task.pos
        /\ task'.reader = local + 1
    BY <1>1, <1>3 DEF IInv, TypeOK, Tasks
  <2> QED  BY <1>1, <1>4, <2>1 DEF IInv, TypeOK, Own
<1> QED  BY <1>2, <1>3 DEF LocalChange

LEMMA RelaunchKeeps == ASSUME IInv, Relaunch PROVE IInv'
<1>1. /\ local' = local /\ local \in Versions /\ Files(dest) /\ Files(part) /\ End("none")
  BY DEF Relaunch, End, IInv, TypeOK
<1>2. CASE UNCHANGED <<dest, part>>
  BY <1>1, <1>2, EndKeeps DEF Results
<1>3. CASE task.pc = "copy" /\ task.done < Size[task.reader] /\ part' = WrittenPart /\ UNCHANGED dest
  <2>1. Files(part')
    BY <1>3, WrittenFile
  <2> QED  BY <1>1, <1>3, <2>1, EndKeeps DEF Results
<1>4. CASE Renamed
  BY <1>1, <1>4, RenamedFiles, EndKeeps DEF Results
<1> QED  BY <1>2, <1>3, <1>4 DEF Relaunch

\* The steps that only end the attempt.
LEMMA EndsKeep == ASSUME IInv, ReadFails \/ Verify PROVE IInv'
<1>1. /\ UNCHANGED <<local, dest, part>> /\ local \in Versions /\ Files(dest) /\ Files(part)
      /\ \E r \in Results : End(r)
  BY DEF ReadFails, Verify, Results, IInv, TypeOK
<1> QED  BY <1>1, EndKeeps

LEMMA InitKeeps == ASSUME Init PROVE IInv
<1>1. Old \in Seq(Blocks) /\ 0 \in Names
  BY UploadAssumption DEF Old, Blocks, Names
<1>2. Files(Put(NoFiles, 0, Old)) /\ Files(NoFiles)
  BY <1>1, NoFilesTyped, PutFiles
<1>3. Files(dest) /\ Files(part) /\ local \in Versions
  BY <1>2, OneVersion DEF Init
<1>4. task \in Tasks /\ task.pc = "idle" /\ task.since = 1 /\ local = 1
  BY IdleTyped DEF Init, Results, IdleTask
<1> QED  BY <1>3, <1>4 DEF IInv, TypeOK, Own

LEMMA StepKeeps == ASSUME IInv, [Next]_vars PROVE IInv'
<1>1. CASE UNCHANGED vars
  BY <1>1 DEF vars, IInv, TypeOK, Own
<1> QED  BY <1>1, BeginKeeps, SeekKeeps, CopyKeeps, EndsKeep, StopEarlyKeeps, FinishKeeps, RenamesKeep,
            LocalChangeKeeps, RelaunchKeeps DEF Next

LEMMA Invariant == Spec => []IInv
<1>1. Init => IInv
  BY InitKeeps
<1>2. IInv /\ [Next]_vars => IInv'
  BY StepKeeps
<1> QED  BY <1>1, <1>2, PTL DEF Spec

\* The types; the open writer is never beyond the end of the part file, and
\* what is verified is there (504-545).
THEOREM TypeCorrect == Spec => []TypeOK
BY Invariant, PTL DEF IInv

\* The destination changes by a rename of the part file, or its removal.
LEMMA DestChanges ==
  ASSUME [Next]_vars, dest' # dest
  PROVE  \/ task.pc \in {"rename", "again"} /\ Renamed /\ UNCHANGED local
         \/ task.pc = "remove" /\ dest' = Drop(dest, task.name) /\ UNCHANGED local
BY DEF Next, vars, Begin, Seek, Copy, ReadFails, StopEarly, Finish, FirstRename, RemoveDest,
       SecondRename, Verify, LocalChange, Relaunch

\* Whatever was written and lost before, and however much of it a writer took:
\* without resuming, no byte of an earlier attempt is put in place (492-508).
THEOREM OwnBytesOnly == Spec => NoStaleBytes
<1>1. IInv /\ [Next]_vars =>
        [~task.resume /\ task.pc \in {"rename", "again"} /\ task.name \in DOMAIN dest'
         /\ dest' # dest =>
           \A i \in DOMAIN dest'[task.name] : dest'[task.name][i][1] >= task.since]_vars
  <2> SUFFICES ASSUME IInv, [Next]_vars, ~task.resume, task.pc \in {"rename", "again"}, dest' # dest
               PROVE  \A i \in DOMAIN dest'[task.name] : dest'[task.name][i][1] >= task.since
    OBVIOUS
  <2>1. task.name \in DOMAIN part /\ dest' = Put(dest, task.name, part[task.name])
    BY DestChanges DEF Renamed
  <2>2. dest'[task.name] = part[task.name]
    BY <2>1 DEF Put
  <2> QED  BY <2>1, <2>2 DEF IInv, Own
<1> QED  BY <1>1, Invariant, PTL DEF Spec, NoStaleBytes
-----------------------------------------------------------------------------
(* Writers that write all they are given: what a part file holds.           *)

\* No write takes less than one read returned.  The run upload_short shows
\* what happens without it.
FullWrites == Chunk <= WriteMax

IsDirectory(dir) == dir = [n \in DOMAIN dir |-> dir[n]]

Whole ==
  /\ IsDirectory(dest)
  /\ Partial(part, local)
  /\ task.reader <= local
  /\ task.pc # "idle" => task.result = "none"
  /\ task.pc \in {"open", "copy"} => task.done = task.pos
  /\ task.pc \in {"rename", "remove", "again"} /\ task.name \in DOMAIN part /\ local = 1 =>
       Len(part[task.name]) >= Size[1]
  /\ task.pc = "verify" /\ local = 1 => dest[task.name] = Content(1)

LEMMA PutDirectory ==
  ASSUME NEW dir, NEW n, NEW c
  PROVE  IsDirectory(Put(dir, n, c)) /\ IsDirectory(Drop(dir, n))
BY DEF IsDirectory, Put, Drop

LEMMA EndWhole ==
  ASSUME IInv, local' = local, IsDirectory(dest'), Partial(part', local'), NEW r, End(r)
  PROVE  Whole'
BY OneVersion DEF IInv, TypeOK, End, IdleTask, Whole

\* The end of a prefix is the place for the next blocks of a version.
LEMMA AppendedPrefix ==
  ASSUME NEW c \in Seq(Blocks), NEW v \in Versions, NEW r \in Versions, r <= v, Prefix(c, v),
         NEW k \in Nat, NEW d \in Seq(Blocks), Len(d) = Len(c) + k, Len(c) + k <= Size[r],
         \A i \in 1 .. Len(c) : d[i] = c[i],
         \A i \in Len(c) + 1 .. Len(c) + k : d[i] = <<r, i>>
  PROVE  Prefix(d, v)
<1>1. \A i \in DOMAIN d : d[i][1] \in 1 .. v /\ d[i][2] = i
  <2> SUFFICES ASSUME NEW i \in 1 .. Len(c) + k PROVE d[i][1] \in 1 .. v /\ d[i][2] = i
    OBVIOUS
  <2>1. CASE i \in 1 .. Len(c)
    BY <2>1 DEF Prefix
  <2>2. CASE i \in Len(c) + 1 .. Len(c) + k
    <3>1. r \in 1 .. v
      BY OneVersion
    <3>2. d[i] = <<r, i>>
      BY <2>2
    <3> QED  BY <3>1, <3>2
  <2> QED  BY <2>1, <2>2
<1>2. v = 1 => Len(d) <= Size[1]
  <2>1. v = 1 => r = 1
    BY OneVersion
  <2> QED  BY <2>1
<1> QED  BY <1>1, <1>2 DEF Prefix

LEMMA WrittenPartial ==
  ASSUME IInv, Whole, task.pc = "copy", task.done < Size[task.reader]
  PROVE  Partial(WrittenPart, local)
<1> DEFINE c == part[task.name]
           d == Spliced(c, task.pos, task.reader, task.done + 1, task.done + Sent)
<1>1. /\ task.name \in DOMAIN part /\ task.pos = Len(c) /\ task.done = Len(c)
      /\ task.reader \in Versions /\ task.reader <= local /\ local \in Versions
      /\ Partial(part, local) /\ task.done \in Nat
  BY DEF IInv, TypeOK, Own, Tasks, Whole
<1>2. /\ c \in Seq(Blocks) /\ d \in Seq(Blocks)
      /\ WrittenPart = Put(part, task.name, d)
      /\ Len(d) = Len(c) + Sent /\ Sent \in Nat /\ Read \in Nat /\ Sent <= Read
      /\ task.done + Read <= Size[task.reader]
      /\ \A i \in 1 .. Len(c) : d[i] = c[i]
      /\ \A i \in Len(c) + 1 .. Len(c) + Sent : d[i] = <<task.reader, task.done + i - Len(c)>>
  BY WrittenFile, Zenon
<1>3. Prefix(c, local)
  BY <1>1 DEF Partial
<1> HIDE DEF c, d
<1>4. ASSUME NEW i \in Len(c) + 1 .. Len(c) + Sent PROVE d[i] = <<task.reader, i>>
  <2>1. task.done + i - Len(c) = i
    BY <1>1, <1>2
  <2> QED  BY <1>2, <2>1
<1>5. Len(c) + Sent <= Size[task.reader]
  <2>1. Size[task.reader] \in Nat /\ Len(c) \in Nat
    BY <1>1, OneVersion
  <2> QED  BY <1>1, <1>2, <2>1
<1>6. Prefix(d, local)
  BY <1>1, <1>2, <1>3, <1>4, <1>5, AppendedPrefix
<1> QED  BY <1>1, <1>2, <1>6, PutPartial

LEMMA BeginWhole ==
  ASSUME IInv, Whole, NEW resume \in BOOLEAN, NEW policy \in Policies, NEW seen,
         NEW seenPart \in BOOLEAN, NEW newer \in BOOLEAN,
         Begin(resume, policy, seen, seenPart, newer)
  PROVE  Whole'
<1>1. /\ UNCHANGED <<local, dest>> /\ local \in Versions
      /\ IsDirectory(dest') /\ Partial(part, local')
  BY DEF Begin, IInv, TypeOK, Whole
<1>2. \A n : Partial(Put(part, n, <<>>), local') /\ Partial(Drop(part, n), local')
  BY <1>1, PrefixEmpty, PutPartial, DropPartial
<1>3. ASSUME NEW n, OpenPart(n, resume, policy, seenPart) PROVE Whole'
  <2> DEFINE at == Offset(n, resume, seenPart)
  <2>1. /\ part' = IF at = 0 THEN Put(part, n, <<>>) ELSE part
        /\ task' = [pc |-> "open", name |-> n, resume |-> resume, policy |-> policy,
                    size |-> Size[local], done |-> at, pos |-> at, reader |-> local,
                    since |-> local, result |-> "none"]
    BY <1>3 DEF OpenPart
  <2> HIDE DEF at
  <2>2. Partial(part', local')
    BY <1>1, <1>2, <2>1
  <2>3. local <= local
    BY <1>1, OneVersion
  <2> QED  BY <1>1, <2>1, <2>2, <2>3 DEF Whole
<1>4. ASSUME NEW n, part' \in {part, Drop(part, n), Put(part, n, <<>>)}, NEW r, End(r) PROVE Whole'
  <2>1. Partial(part', local')
    BY <1>1, <1>2, <1>4
  <2> QED  BY <1>1, <1>4, <2>1, EndWhole
<1> QED  BY <1>3, <1>4 DEF Begin

LEMMA SeekWhole == ASSUME IInv, Whole, Seek PROVE Whole'
<1>1. /\ UNCHANGED <<local, dest>> /\ local \in Versions /\ task \in Tasks /\ task.pc = "open"
      /\ IsDirectory(dest') /\ Partial(part, local')
  BY DEF Seek, IInv, TypeOK, Whole
<1>2. Partial(Put(part, task.name, <<>>), local')
  BY <1>1, PrefixEmpty, PutPartial
<1>3. CASE task' = [task EXCEPT !.pc = "copy"] /\ UNCHANGED part
  BY <1>1, <1>3 DEF Whole, Tasks
<1>4. CASE /\ part' = Put(part, task.name, <<>>)
           /\ task' = [task EXCEPT !.pc = "copy", !.done = 0, !.pos = 0]
  <2>1. /\ task'.pc = "copy" /\ task'.pos = 0 /\ task'.done = 0
        /\ task'.reader = task.reader /\ task'.result = task.result
    BY <1>1, <1>4 DEF Tasks
  <2> QED  BY <1>1, <1>2, <1>4, <2>1 DEF Whole
<1>5. CASE part' \in {part, Put(part, task.name, <<>>)} /\ End("err")
  BY <1>1, <1>2, <1>5, EndWhole
<1> QED  BY <1>3, <1>4, <1>5 DEF Seek

LEMMA CopyWhole == ASSUME FullWrites, IInv, Whole, Copy PROVE Whole'
<1>1. /\ UNCHANGED <<local, dest>> /\ task \in Tasks /\ task.pc = "copy" /\ part' = WrittenPart
      /\ IsDirectory(dest') /\ task.done < Size[task.reader]
      /\ task' = [task EXCEPT !.done = @ + Read, !.pos = @ + Sent]
  BY DEF Copy, IInv, TypeOK, Whole
<1>2. Partial(part', local')
  BY <1>1, WrittenPartial
<1>3. Sent = Read /\ Read \in Nat
  BY <1>1, WrittenFile DEF FullWrites
<1>4. /\ task'.pc = "copy" /\ task'.done = task.done + Read /\ task'.pos = task.pos + Read
      /\ task'.reader = task.reader /\ task'.result = task.result
  BY <1>1, <1>3 DEF Tasks
<1>5. task.done = task.pos /\ task.reader <= local /\ task.result = "none"
  BY <1>1 DEF Whole
<1> QED  BY <1>1, <1>2, <1>4, <1>5 DEF Whole

LEMMA StopEarlyWhole == ASSUME IInv, Whole, StopEarly PROVE Whole'
<1>1. /\ UNCHANGED <<local, dest>> /\ IsDirectory(dest') /\ Partial(part, local')
      /\ End("err") /\ task.pc = "copy"
  BY DEF StopEarly, Whole
<1>2. task.done < Size[task.reader] => Partial(WrittenPart, local')
  BY <1>1, WrittenPartial
<1>3. Partial(Drop(part, task.name), local')
  BY <1>1, DropPartial
<1>4. Partial(part', local')
  BY <1>1, <1>2, <1>3 DEF StopEarly
<1> QED  BY <1>1, <1>4, EndWhole

LEMMA FinishWhole == ASSUME IInv, Whole, Finish PROVE Whole'
<1>1. /\ UNCHANGED <<local, dest, part>> /\ task \in Tasks /\ task.pc = "copy" /\ local \in Versions
      /\ task.done >= Size[task.reader] /\ task' = [task EXCEPT !.pc = "rename"]
      /\ task.pos = Len(part[task.name]) /\ task.done = task.pos /\ task.reader <= local
  BY DEF Finish, IInv, TypeOK, Own, Whole
<1>2. local = 1 => Len(part[task.name]) >= Size[1]
  <2>1. local = 1 => task.reader = 1
    BY <1>1, OneVersion DEF Tasks
  <2> QED  BY <1>1, <2>1
<1>3. /\ task'.pc = "rename" /\ task'.name = task.name /\ task'.reader = task.reader
      /\ task'.result = task.result
  BY <1>1 DEF Tasks
<1> QED  BY <1>1, <1>2, <1>3 DEF Whole
-----------------------------------------------------------------------------
(* The renames, and what they put in place.                                 *)

\* A part file that is renamed into place is a copy.
LEMMA RenamedCopy ==
  ASSUME IInv, Whole, Renamed, task.pc \in {"rename", "again"}
  PROVE  /\ IsCopy(part[task.name], local)
         /\ dest' = Put(dest, task.name, part[task.name]) /\ dest'[task.name] = part[task.name]
         /\ Partial(part', local) /\ IsDirectory(dest')
         /\ task.name \in DOMAIN dest' /\ task.name \notin DOMAIN part'
<1>1. /\ task.name \in DOMAIN part /\ dest' = Put(dest, task.name, part[task.name])
      /\ part' = Drop(part, task.name)
  BY DEF Renamed
<1>2. /\ part[task.name] \in Seq(Blocks) /\ Prefix(part[task.name], local) /\ local \in Versions
      /\ local = 1 => Len(part[task.name]) >= Size[1]
  BY <1>1 DEF IInv, TypeOK, Files, Whole, Partial
<1>3. IsCopy(part[task.name], local)
  BY <1>2, PrefixWhole
<1>4. Partial(part', local) /\ IsDirectory(dest')
  BY <1>1, DropPartial, PutDirectory DEF Whole
<1>5. /\ dest'[task.name] = part[task.name] /\ task.name \in DOMAIN dest'
      /\ task.name \notin DOMAIN part'
  BY <1>1 DEF Put, Drop
<1> QED  BY <1>1, <1>3, <1>4, <1>5

LEMMA RenamesWhole ==
  ASSUME IInv, Whole, NEW verify \in BOOLEAN,
         FirstRename(verify) \/ RemoveDest \/ SecondRename(verify)
  PROVE  Whole'
<1>1. /\ local' = local /\ task \in Tasks /\ task.pc \in {"rename", "remove", "again"}
      /\ task.reader <= local /\ task.result = "none"
      /\ IsDirectory(dest) /\ Partial(part, local)
  BY DEF FirstRename, RemoveDest, SecondRename, IInv, TypeOK, Whole
<1>2. CASE task.pc \in {"rename", "again"} /\ Renamed /\ task' = AfterRename(verify)
  <2>1. /\ IsDirectory(dest') /\ Partial(part', local')
        /\ local = 1 => dest'[task.name] = Content(1)
    BY <1>1, <1>2, RenamedCopy DEF IsCopy
  <2>2. CASE verify
    <3>1. /\ task'.pc = "verify" /\ task'.name = task.name /\ task'.reader = task.reader
          /\ task'.result = task.result
      BY <1>1, <1>2, <2>2 DEF AfterRename, Tasks
    <3> QED  BY <1>1, <2>1, <3>1 DEF Whole
  <2>3. CASE ~verify
    BY <1>1, <1>2, <2>1, <2>3, EndWhole DEF AfterRename, End
  <2> QED  BY <2>2, <2>3
<1>3. CASE /\ task.pc = "again" /\ (Renamed \/ UNCHANGED <<dest, part>>) /\ End("err")
  <2>1. IsDirectory(dest') /\ Partial(part', local')
    BY <1>1, <1>3, RenamedCopy
  <2> QED  BY <1>1, <1>3, <2>1, EndWhole
<1>4. ASSUME NEW s \in {"remove", "again"}, task' = [task EXCEPT !.pc = s],
             IsDirectory(dest'), Partial(part', local),
             task.name \in DOMAIN part' => part' = part
      PROVE  Whole'
  <2>1. /\ task'.pc = s /\ task'.name = task.name /\ task'.reader = task.reader
        /\ task'.result = task.result
    BY <1>1, <1>4 DEF Tasks
  <2>2. task.name \in DOMAIN part' /\ local = 1 => Len(part'[task.name]) >= Size[1]
    BY <1>1, <1>4 DEF Whole
  <2> QED  BY <1>1, <1>4, <2>1, <2>2 DEF Whole
<1>5. CASE /\ task.pc = "rename" /\ (Renamed \/ UNCHANGED <<dest, part>>)
           /\ task' = [task EXCEPT !.pc = "remove"]
  <2>1. IsDirectory(dest') /\ Partial(part', local)
    BY <1>1, <1>5, RenamedCopy
  <2>2. task.name \in DOMAIN part' => part' = part
    BY <1>5, RenamedCopy
  <2> QED  BY <1>4, <1>5, <2>1, <2>2
<1>6. CASE /\ dest' \in {dest, Drop(dest, task.name)}
           /\ task' = [task EXCEPT !.pc = "again"] /\ UNCHANGED part
  <2>1. IsDirectory(dest')
    BY <1>1, <1>6, PutDirectory
  <2> QED  BY <1>1, <1>4, <1>6, <2>1
<1> QED  BY <1>2, <1>3, <1>5, <1>6 DEF FirstRename, RemoveDest, SecondRename

LEMMA LocalChangeWhole ==
  ASSUME IInv, Whole, NEW inPlace \in BOOLEAN, LocalChange(inPlace) PROVE Whole'
<1>1. /\ local' = local + 1 /\ local \in Versions /\ local \in Nat /\ local >= 1
      /\ UNCHANGED <<dest, part>> /\ task \in Tasks /\ task.reader \in Nat
      /\ task.reader <= local /\ IsDirectory(dest')
  BY OneVersion DEF LocalChange, IInv, TypeOK, Whole, Tasks
<1>2. Partial(part', local') /\ local' # 1 /\ task.reader <= local' /\ local + 1 <= local'
  BY <1>1, PrefixLater DEF Whole, Partial
<1>3. CASE task' = task
  BY <1>1, <1>2, <1>3 DEF Whole
<1>4. CASE task' = [task EXCEPT !.reader = local + 1]
  <2>1. /\ task'.pc = task.pc /\ task'.result = task.result /\ task'.reader = local + 1
        /\ task'.done = task.done /\ task'.pos = task.pos
    BY <1>1, <1>4 DEF Tasks
  <2> QED  BY <1>1, <1>2, <2>1 DEF Whole
<1> QED  BY <1>3, <1>4 DEF LocalChange

LEMMA RelaunchWhole == ASSUME IInv, Whole, Relaunch PROVE Whole'
<1>1. local' = local /\ End("none") /\ IsDirectory(dest) /\ Partial(part, local)
  BY DEF Relaunch, End, Whole
<1>2. IsDirectory(dest') /\ Partial(part', local')
  BY <1>1, WrittenPartial, RenamedCopy DEF Relaunch
<1> QED  BY <1>1, <1>2, EndWhole

LEMMA EndsWhole == ASSUME IInv, Whole, ReadFails \/ Verify PROVE Whole'
<1>1. /\ UNCHANGED <<local, dest, part>> /\ \E r \in Results : End(r)
      /\ IsDirectory(dest') /\ Partial(part', local')
  BY DEF ReadFails, Verify, Results, Whole
<1> QED  BY <1>1, EndWhole

LEMMA InitWhole == ASSUME Init PROVE Whole
<1>1. IsDirectory(NoFiles) /\ IsDirectory(Put(NoFiles, 0, Old))
  BY PutDirectory DEF IsDirectory, NoFiles
<1>2. Partial(NoFiles, 1) /\ (1 <= 1)
  BY DEF Partial, NoFiles
<1> QED  BY <1>1, <1>2 DEF Init, IdleTask, Whole

LEMMA WholeInvariant == ASSUME FullWrites PROVE Spec => [](IInv /\ Whole)
<1>1. Init => IInv /\ Whole
  BY InitKeeps, InitWhole
<1>2. IInv /\ Whole /\ [Next]_vars => (IInv /\ Whole)'
  <2> SUFFICES ASSUME IInv, Whole, [Next]_vars PROVE Whole'
    BY StepKeeps
  <2>1. CASE UNCHANGED vars
    BY <2>1 DEF vars, Whole
  <2> QED  BY <2>1, BeginWhole, SeekWhole, CopyWhole, EndsWhole, StopEarlyWhole, FinishWhole,
              RenamesWhole, LocalChangeWhole, RelaunchWhole DEF Next
<1> QED  BY <1>1, <1>2, PTL DEF Spec

\* Whatever fails, and wherever the app ends, the file at a destination is a
\* complete copy, the old one, or gone: what a client sees of the uploads is a
\* behaviour of AtomicCopy that may lose a file (471-545).
THEOREM Completeness == ASSUME FullWrites PROVE Spec => CompleteSpec
<1>1. Init => CompleteOrGone!Init
  BY DEF Init, CompleteOrGone!Init, NoFiles, Put, Old, CompleteOrGone!Old
<1>2. IInv /\ Whole /\ [Next]_vars => [CompleteOrGone!Next]_<<local, dest>>
  <2> SUFFICES ASSUME IInv, Whole, [Next]_vars PROVE [CompleteOrGone!Next]_<<local, dest>>
    OBVIOUS
  <2> DEFINE n == task.name
             c == part[n]
  <2>1. CASE task.pc \in {"rename", "again"} /\ Renamed /\ UNCHANGED local
    <3>1. IsCopy(c, local) /\ n \in DOMAIN dest' /\ dest'[n] = c /\ dest' = Put(dest, n, c)
      BY <2>1, RenamedCopy
    <3> HIDE DEF n, c
    <3>2. CompleteOrGone!Publish(n)
      BY <2>1, <3>1 DEF CompleteOrGone!Publish, CompleteOrGone!IsCopy, IsCopy,
                        CompleteOrGone!Content, Content, CompleteOrGone!Put, Put
    <3> QED  BY <3>1, <3>2 DEF CompleteOrGone!Next
  <2>2. CASE dest' # dest /\ dest' = Drop(dest, n) /\ UNCHANGED local
    <3>1. n \in DOMAIN dest
      BY <2>2 DEF Whole, IsDirectory, Drop
    <3> HIDE DEF n
    <3>2. CompleteOrGone!Lose(n)
      BY <2>2 DEF CompleteOrGone!Lose, CompleteOrGone!Drop, Drop
    <3> QED  BY <3>1, <3>2 DEF CompleteOrGone!Next
  <2>3. CASE dest' = dest /\ local' # local
    <3>1. local' \in Versions /\ local' = local + 1 /\ local \in Nat
      BY <2>3, OneVersion DEF Next, Begin, Seek, Copy, ReadFails, StopEarly, Finish, FirstRename,
                  RemoveDest, SecondRename, Verify, LocalChange, Relaunch, vars, IInv, TypeOK
    <3>2. CompleteOrGone!Modify
      BY <2>3, <3>1 DEF CompleteOrGone!Modify, CompleteOrGone!Versions, Versions
    <3> QED  BY <3>2 DEF CompleteOrGone!Next
  <2> QED  BY <2>1, <2>2, <2>3, DestChanges
<1> QED  BY <1>1, <1>2, WholeInvariant, PTL DEF Spec, CompleteSpec, CompleteOrGone!Spec

\* An attempt that reports success leaves a copy at its name, as long as the
\* source has not changed, however often its renames had to be repeated
\* (538-545).
THEOREM DoneIsCopied == ASSUME FullWrites PROVE Spec => DoneMeansCopied
<1>1. IInv /\ Whole /\ [Next]_vars =>
        [task.pc # "idle" /\ task'.result \in {"ok", "verified"} /\ local = 1 =>
           task.name \in DOMAIN dest' /\ dest'[task.name] = Content(1)]_vars
  <2> SUFFICES ASSUME IInv, Whole, Next, task.pc # "idle",
                      task'.result \in {"ok", "verified"}, local = 1
               PROVE  task.name \in DOMAIN dest' /\ dest'[task.name] = Content(1)
    OBVIOUS
  <2>1. task \in Tasks /\ task.result = "none"
    BY DEF IInv, TypeOK, Whole
  <2>2. \/ Verify
        \/ /\ task.pc \in {"rename", "again"} /\ Renamed
           /\ \E verify \in BOOLEAN : task' = AfterRename(verify)
    <3>1. ASSUME NEW r \in {"none", "err", "skipped"}, End(r) PROVE FALSE
      BY <3>1 DEF End, IdleTask
    <3>2. ASSUME task'.result = task.result PROVE FALSE
      BY <2>1, <3>2
    <3>3. ~Seek /\ ~Copy /\ ~Finish /\ ~RemoveDest /\ ~StopEarly /\ ~ReadFails /\ ~Relaunch
      BY <2>1, <3>1, <3>2 DEF Seek, Copy, Finish, RemoveDest, StopEarly, ReadFails, Relaunch, End, Tasks
    <3>4. ASSUME NEW resume, NEW policy, NEW seen, NEW seenPart, NEW newer,
                 Begin(resume, policy, seen, seenPart, newer)
          PROVE  FALSE
      BY <3>4 DEF Begin
    <3>5. ASSUME NEW inPlace, LocalChange(inPlace) PROVE FALSE
      BY <2>1, <3>2, <3>5 DEF LocalChange, Tasks
    <3>6. ASSUME NEW verify \in BOOLEAN, FirstRename(verify)
          PROVE  task.pc = "rename" /\ Renamed /\ task' = AfterRename(verify)
      BY <2>1, <3>2, <3>6 DEF FirstRename, Tasks
    <3>7. ASSUME NEW verify \in BOOLEAN, SecondRename(verify)
          PROVE  task.pc = "again" /\ Renamed /\ task' = AfterRename(verify)
      BY <3>1, <3>7 DEF SecondRename
    <3> QED  BY <3>3, <3>4, <3>5, <3>6, <3>7 DEF Next
  <2>3. CASE Verify
    BY <2>3 DEF Verify, IInv, TypeOK, Whole
  <2>4. CASE task.pc \in {"rename", "again"} /\ Renamed
    BY <2>4, RenamedCopy DEF IsCopy
  <2> QED  BY <2>2, <2>3, <2>4
<1> QED  BY <1>1, WholeInvariant, PTL DEF Spec, DoneMeansCopied
=============================================================================
