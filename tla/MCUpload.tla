------------------------------ MODULE MCUpload ------------------------------
(* Instances of Upload for TLC.                                              *)
EXTENDS Upload, TLC

OneBlock  == <<1>>
TwoBlocks == <<2>>
Varying   == <<2, 1, 2>>
=============================================================================
