------------------------------- MODULE MCQueue -------------------------------
(* Instances of TransferQueue for TLC.                                       *)
EXTENDS TransferQueue, TLC

CONSTANTS a, b

NoNames == {}
OnlyA == {a}
OnlyB == {b}
Both == {a, b}
FirstOfA == {<<a, 0>>}
=============================================================================
