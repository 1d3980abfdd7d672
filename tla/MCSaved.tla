------------------------------ MODULE MCSaved -------------------------------
(* Two hosts at two endpoints, a first launch with a fixture, and a bundle   *)
(* in which another device knows the endpoints by the other ids.            *)
EXTENDS SavedState

CONSTANTS a, b, x, y, d, p, q, none
TwoIds   == {a, b}
TwoEnds  == {x, y}
OnePath  == {d}
TwoWords == {p, q}
Fixture  == [id |-> a, ep |-> x, status |-> "idle", real |-> FALSE]
FirstRun == [hosts |-> <<Fixture>>, bookmarks |-> <<>>, limit |-> 20]
Swapped  == {[hosts |-> <<[Fixture EXCEPT !.id = b], [Fixture EXCEPT !.ep = y]>>,
              bookmarks |-> <<[host |-> b, path |-> d]>>, limit |-> 5]}
=============================================================================
