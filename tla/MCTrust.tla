------------------------------ MODULE MCTrust ------------------------------
(* Two keys and one address with two ports.  Every key may come as a host  *)
(* certificate, so that the two keys are interchangeable.                  *)
EXTENDS HostTrust, TLC

CONSTANTS a, k1, k2
OneAddr  == {a}
TwoKeys  == {k1, k2}
Plain    == [addr |-> a, port |-> 22]
OtherPort == {[addr |-> a, port |-> 2222]}
AnyPort  == {Domain}
ChangedRecord(k, p) == [record |-> [ep |-> Plain, fp |-> k, pending |-> p], setting |-> FALSE]
TwoBundles == {ChangedRecord(k1, k2), ChangedRecord(k2, k1)}
KeySymmetry == Permutations(TwoKeys)
=============================================================================
