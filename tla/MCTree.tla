------------------------------- MODULE MCTree -------------------------------
(* A directory with a file, a directory in it with another, and a third     *)
(* directory outside; a link in each of the first two, to anything.          *)
EXTENDS TreeWalk, TLC

CONSTANTS r, d, e, f, g, h, k, l, none
AllDirs  == {r, d, e}
AllFiles == {f, g, h}
TwoLinks == {k, l}
Shape    == (r :> {d, f, k}) @@ (d :> {g, l}) @@ (e :> {h})
AllTrees == {[kids |-> Shape, target |-> t] : t \in [TwoLinks -> {r, d, e, f, none}]}
=============================================================================
