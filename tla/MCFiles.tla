------------------------------- MODULE MCFiles -------------------------------
(* Two hosts mounted at /, each with a folder and a file: the folder is     *)
(* bookmarked on one, the file in it on the other.                           *)
EXTENDS FileOps, TLC

CONSTANTS h1, h2, c1, c2, none
TwoHosts == {h1, h2}
TwoCalls == {c1, c2}
TwoPaths == {<<>>, <<"dir">>}
TwoNames == {"dir", "file"}
OneFolder == {"dir"}
Mounts   == [h \in TwoHosts |-> <<>>]
Visited  == {[host |-> h1, path |-> <<"dir">>], [host |-> h2, path |-> <<>>]}
Marked   == {[at |-> [host |-> h1, path |-> <<"dir">>], file |-> none],
             [at |-> [host |-> h2, path |-> <<"dir">>], file |-> "file"]}
=============================================================================
