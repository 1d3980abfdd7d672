----------------------------- MODULE MCDownload -----------------------------
(* Instances of Download for TLC.                                            *)
EXTENDS Download, TLC

CONSTANTS w1, w2

OneWorker  == {w1}
TwoWorkers == {w1, w2}
TwoBlocks  == <<2>>
Growing    == <<1, 2>>
Varying    == <<2, 1, 2>>
=============================================================================
