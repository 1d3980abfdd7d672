------------------------------- MODULE MCPool -------------------------------
(* Instances of ConnectionPool for TLC.                                      *)
EXTENDS ConnectionPool, TLC

CONSTANTS s, r, n, t1, t2

OneSftp  == {s}
OneNfs   == {n}
BothHosts == {s, n}
ThreeHosts == {s, r, n}
NoHost   == {}
OneTask  == {t1}
TwoTasks == {t1, t2}

\* Tasks differ in their names only.
TaskSymmetry == Permutations(TwoTasks)
=============================================================================
