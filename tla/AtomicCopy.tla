----------------------------- MODULE AtomicCopy -----------------------------
(***************************************************************************)
(* What a file transfer promises about its destination: a file appears     *)
(* there, or is replaced, in one step and as a complete copy; nothing else *)
(* changes it (backlog.md B-4, "Atomic writes").  A weaker promise allows  *)
(* that it is lost.                                                        *)
(***************************************************************************)
EXTENDS FileContents

CONSTANT MayLose  \* a file at the destination may disappear

VARIABLES source,  \* the version the source file is at
          dest     \* the destination directory

Init ==
  /\ source = 1
  /\ dest = [n \in DOMAIN dest |-> Old]

Modify == source' \in Versions /\ source' > source /\ UNCHANGED dest

Publish(n) ==
  /\ n \in DOMAIN dest'
  /\ IsCopy(dest'[n], source)
  /\ dest' = Put(dest, n, dest'[n])
  /\ UNCHANGED source

Lose(n) ==
  /\ MayLose
  /\ dest' = Drop(dest, n)
  /\ UNCHANGED source

Next ==
  \/ Modify
  \/ \E n \in DOMAIN dest' : Publish(n)
  \/ \E n \in DOMAIN dest : Lose(n)

Spec == Init /\ [][Next]_<<source, dest>>
=============================================================================
