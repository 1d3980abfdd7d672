------------------------------ MODULE MCBrowser ------------------------------
(* Two hosts that share a path: one is mounted at /, the other, which asks  *)
(* for a password, at /n.                                                   *)
EXTENDS Browser, TLC

CONSTANTS h1, h2, c1, c2
TwoHosts  == {h1, h2}
OneLocked == {h2}
TwoPaths  == {<<>>, <<"n">>}
Mounts    == (h1 :> <<>>) @@ (h2 :> <<"n">>)
Marked    == {[host |-> h, path |-> <<"n">>] : h \in TwoHosts}
TwoCalls  == {c1, c2}
=============================================================================
