---------------------------- MODULE FileContents ----------------------------
(***************************************************************************)
(* File contents and directories, as the transfer workers of               *)
(* app/src/transfer.rs see them.  A chunk is one block; block <<v, i>> is  *)
(* the i-th block of version v of the source file.  A directory is a       *)
(* partial function from names to contents.                                *)
(***************************************************************************)
EXTENDS Integers, Sequences

CONSTANT Size  \* Size[v]: the number of blocks of version v of the source

ASSUME SizeAssumption == Size \in Seq(Nat) /\ Size # <<>>

Versions == DOMAIN Size

\* Version 0 stands for what was at the destination before; a hole is what a
\* write beyond the end of a file leaves.
Blocks == ({0} \cup Versions) \X Nat
Hole   == <<0, 0>>
Old    == <<  <<0, 1>> >>

Content(v) == [i \in 1 .. Size[v] |-> <<v, i>>]

\* The content after block i is written.
WriteBlock(c, i, block) ==
  [k \in 1 .. (IF i > Len(c) THEN i ELSE Len(c)) |->
     IF k = i THEN block ELSE IF k <= Len(c) THEN c[k] ELSE Hole]

NoFiles == [n \in {} |-> <<>>]

Put(dir, n, c) == [m \in DOMAIN dir \cup {n} |-> IF m = n THEN c ELSE dir[m]]

Drop(dir, n) == [m \in DOMAIN dir \ {n} |-> dir[m]]

\* c is a copy made of the versions up to v: no block is missing in the
\* middle, repeated or moved, and if there has been one version only, c is
\* that version.
IsCopy(c, v) ==
  /\ \A i \in DOMAIN c : c[i][1] \in 1 .. v /\ c[i][2] = i
  /\ v = 1 => c = Content(1)
=============================================================================
