----------------------------- MODULE SavedProofs -----------------------------
(***************************************************************************)
(* Theorems of SavedState, for every value of its constants: lists of any   *)
(* length, any bundles, and any number of edits, kills and faults.          *)
(*                                                                         *)
(* Lists are merged and filtered element by element, by recursive           *)
(* functions.  The first section proves induction over numbers, in terms of *)
(* sets, and that a recursion has a solution; the second, what each of the  *)
(* three recursions computes.  The invariant and the theorems follow.       *)
(***************************************************************************)
EXTENDS SavedState, FiniteSetTheorems, TLAPS

-----------------------------------------------------------------------------
(* Induction and recursion.                                                 *)

\* Every set of numbers that is not empty has a least element.
LEMMA LeastExists ==
  ASSUME NEW T \in SUBSET Nat, T # {}
  PROVE  \E m \in T : \A n \in T : m <= n
<1> DEFINE R == StrictSubsetOrdering(Nat)
           U == {1 .. n : n \in T}
<1>1. IsWellFoundedOn(R, FiniteSubsetsOf(Nat))
  BY FS_StrictSubsetOrderingWellFounded
<1>2. U \subseteq FiniteSubsetsOf(Nat) /\ U # {}
  <2>1. \A n \in Nat : IsFiniteSet(1 .. n) /\ (1 .. n) \in SUBSET Nat
    BY FS_Interval
  <2>2. QED
    BY <2>1 DEF FiniteSubsetsOf
<1>3. PICK x \in U : \A y \in U : ~(<<y, x>> \in R)
  <2> HIDE DEF R, U
  <2>1. QED
    BY <1>1, <1>2, WFMin
<1>4. PICK m \in T : x = 1 .. m
  OBVIOUS
<1>5. \A n \in T : ~(n < m)
  <2> SUFFICES ASSUME NEW n \in T, n < m
               PROVE  FALSE
    OBVIOUS
  <2>1. n \in Nat /\ m \in Nat
    OBVIOUS
  <2>2. (1 .. n) \subseteq (1 .. m) /\ (1 .. n) # (1 .. m)
    <3>1. m \in 1 .. m /\ m \notin 1 .. n
      BY <2>1
    <3>2. QED
      BY <2>1, <3>1
  <2>3. <<1 .. n, 1 .. m>> \in R
    <3>1. (1 .. n) \in SUBSET Nat /\ (1 .. m) \in SUBSET Nat
      BY <2>1
    <3>2. QED
      BY <2>2, <3>1 DEF StrictSubsetOrdering
  <2>4. QED
    BY <1>3, <1>4, <2>3
<1>6. QED
  BY <1>5

\* Induction up to a bound.
LEMMA CountUp ==
  ASSUME NEW N \in Nat, NEW S, 0 \in S,
         \A n \in 0 .. N : n + 1 \in 0 .. N /\ n \in S => n + 1 \in S
  PROVE  \A n \in 0 .. N : n \in S
<1> DEFINE T == {n \in 0 .. N : n \notin S}
<1> SUFFICES ASSUME T # {}
             PROVE  FALSE
  OBVIOUS
<1>1. PICK m \in T : \A n \in T : m <= n
  <2>1. T \in SUBSET Nat
    OBVIOUS
  <2> HIDE DEF T
  <2>2. QED
    BY <2>1, LeastExists
<1>2. m \in 1 .. N /\ m - 1 \in 0 .. N /\ (m - 1) + 1 = m /\ ~(m <= m - 1)
  OBVIOUS
<1>3. m - 1 \in S
  BY <1>1, <1>2
<1>4. QED
  BY <1>2, <1>3

\* The solutions of the recursion from x over 1 .. N.
Runs(N, X, x, step) ==
  {f \in [0 .. N -> X] : f[0] = x /\ \A n \in 1 .. N : f[n] = step[n][f[n - 1]]}

\* A recursion whose steps stay in X has a solution in X.
LEMMA Recursion ==
  ASSUME NEW N \in Nat, NEW X, NEW x \in X, NEW step \in [1 .. N -> [X -> X]]
  PROVE  Runs(N, X, x, step) # {}
<1> DEFINE Solves(f, n) == f[0] = x /\ \A k \in 1 .. n : f[k] = step[k][f[k - 1]]
           S == {n \in 0 .. N : \E f \in [0 .. n -> X] : Solves(f, n)}
<1>1. 0 \in S
  <2>1. [k \in 0 .. 0 |-> x] \in [0 .. 0 -> X] /\ Solves([k \in 0 .. 0 |-> x], 0)
    OBVIOUS
  <2> HIDE DEF Solves
  <2>2. QED
    BY <2>1
<1>2. ASSUME NEW n \in 0 .. N, n + 1 \in 0 .. N, n \in S
      PROVE  n + 1 \in S
  <2>1. PICK f \in [0 .. n -> X] : Solves(f, n)
    BY <1>2
  <2> DEFINE g == [k \in 0 .. (n + 1) |-> IF k = n + 1 THEN step[n + 1][f[n]] ELSE f[k]]
  <2>2. n \in 0 .. n /\ n + 1 \in 1 .. N /\ f[n] \in X
    BY <1>2
  <2>3. step[n + 1][f[n]] \in X
    BY <2>2
  <2>4. \A k \in 0 .. (n + 1) : k # n + 1 => k \in 0 .. n
    OBVIOUS
  <2>5. g \in [0 .. (n + 1) -> X]
    BY <2>3, <2>4
  <2>6. g[0] = x
    BY <2>1
  <2>7. \A k \in 1 .. (n + 1) : g[k] = step[k][g[k - 1]]
    <3> TAKE k \in 1 .. (n + 1)
    <3>1. CASE k = n + 1
      <4>1. g[k] = step[n + 1][f[n]] /\ g[k - 1] = f[n]
        BY <3>1
      <4>2. QED
        BY <3>1, <4>1
    <3>2. CASE k # n + 1
      <4>1. k \in 1 .. n /\ k \in 0 .. n + 1 /\ k - 1 \in 0 .. n + 1 /\ k - 1 # n + 1
        BY <3>2
      <4>2. g[k] = f[k] /\ g[k - 1] = f[k - 1]
        BY <3>2, <4>1
      <4>3. QED
        BY <2>1, <4>1, <4>2
    <3>3. QED
      BY <3>1, <3>2
  <2>8. Solves(g, n + 1)
    BY <2>6, <2>7
  <2> HIDE DEF Solves, g
  <2>9. QED
    BY <1>2, <2>5, <2>8
<1>3. N \in S
  <2> HIDE DEF S
  <2>1. \A n \in 0 .. N : n \in S
    BY <1>1, <1>2, CountUp
  <2>2. QED
    BY <2>1
<1>4. QED
  BY <1>3 DEF Runs
-----------------------------------------------------------------------------
(* What the operators on lists compute.                                     *)

\* No two hosts of a list share an id.
OneEach(hs) == \A m, n \in DOMAIN hs : hs[m].id = hs[n].id => m = n

\* hs is what has become of the hosts of old: none is lost, and none has
\* another id or another status.
GrownFrom(old, hs) ==
  \A n \in DOMAIN old :
    n \in DOMAIN hs /\ hs[n].id = old[n].id /\ hs[n].status = old[n].status

\* First returns an element, or 0.
LEMMA FirstIs ==
  ASSUME NEW S \in SUBSET (Nat \ {0})
  PROVE  IF S = {} THEN First(S) = 0 ELSE First(S) \in S
<1>1. CASE S = {}
  BY <1>1 DEF First
<1>2. CASE S # {}
  <2>1. S \in SUBSET Nat
    OBVIOUS
  <2>2. \E m \in S : \A n \in S : m <= n
    BY <1>2, <2>1, LeastExists
  <2>3. Min(S) \in S
    BY <2>2 DEF Min
  <2>4. QED
    BY <1>2, <2>3 DEF First
<1>3. QED
  BY <1>1, <1>2

\* The lookup of a host by its id.
LEMMA HostAtIs ==
  ASSUME NEW hs \in Seq(Hosts), NEW i
  PROVE  /\ HostAt(hs, i) # 0 => HostAt(hs, i) \in DOMAIN hs /\ hs[HostAt(hs, i)].id = i
         /\ HostAt(hs, i) = 0 => \A m \in DOMAIN hs : hs[m].id # i
<1> DEFINE S == {n \in DOMAIN hs : hs[n].id = i}
<1>1. S \in SUBSET (Nat \ {0})
  OBVIOUS
<1>2. IF S = {} THEN First(S) = 0 ELSE First(S) \in S
  <2> HIDE DEF S
  <2>1. QED
    BY <1>1, FirstIs
<1>3. 0 \notin S
  BY <1>1
<1>4. HostAt(hs, i) = First(S)
  BY DEF HostAt
<1>5. QED
  BY <1>2, <1>3, <1>4

\* Appending a host with an id of its own.
LEMMA AppendHost ==
  ASSUME NEW hs \in Seq(Hosts), NEW h \in Hosts, \A m \in DOMAIN hs : hs[m].id # h.id
  PROVE  /\ Append(hs, h) \in Seq(Hosts) /\ GrownFrom(hs, Append(hs, h))
         /\ OneEach(hs) => OneEach(Append(hs, h))
<1>1. /\ Append(hs, h) \in Seq(Hosts) /\ DOMAIN Append(hs, h) = 1 .. Len(hs) + 1
      /\ Append(hs, h)[Len(hs) + 1] = h /\ Len(hs) \in Nat /\ DOMAIN hs = 1 .. Len(hs)
      /\ \A n \in 1 .. Len(hs) : Append(hs, h)[n] = hs[n]
  OBVIOUS
<1>2. \A n \in 1 .. Len(hs) + 1 : n \in 1 .. Len(hs) \/ n = Len(hs) + 1
  BY <1>1
<1>3. OneEach(hs) => OneEach(Append(hs, h))
  BY <1>1, <1>2 DEF OneEach
<1>4. QED
  BY <1>1, <1>3 DEF GrownFrom

\* Changing a host in place, but for its id.
LEMMA ReplaceHost ==
  ASSUME NEW hs \in Seq(Hosts), NEW n \in DOMAIN hs, NEW h \in Hosts, h.id = hs[n].id
  PROVE  LET r == [hs EXCEPT ![n] = h]
         IN  /\ r \in Seq(Hosts) /\ DOMAIN r = DOMAIN hs /\ (OneEach(hs) => OneEach(r))
             /\ h.status = hs[n].status => GrownFrom(hs, r)
<1> DEFINE r == [hs EXCEPT ![n] = h]
<1>1. r \in Seq(Hosts) /\ DOMAIN r = DOMAIN hs
  OBVIOUS
<1>2. \A m \in DOMAIN hs : r[m].id = hs[m].id /\ (m # n => r[m] = hs[m])
  OBVIOUS
<1>3. r[n] = h
  OBVIOUS
<1> HIDE DEF r
<1>4. OneEach(hs) => OneEach(r)
  BY <1>1, <1>2 DEF OneEach
<1>5. h.status = hs[n].status => GrownFrom(hs, r)
  BY <1>1, <1>2, <1>3 DEF GrownFrom
<1>6. QED
  BY <1>1, <1>4, <1>5 DEF r

\* Saving a host keeps ids unique.
LEMMA PutKeeps ==
  ASSUME NEW hs \in Seq(Hosts), OneEach(hs), NEW h \in Hosts
  PROVE  Put(hs, h) \in Seq(Hosts) /\ OneEach(Put(hs, h))
BY HostAtIs, AppendHost, ReplaceHost DEF Put

\* A host of a bundle is one of the user's, idle.
LEMMA PortableType ==
  ASSUME NEW h \in Hosts
  PROVE  Portable(h) \in Hosts
BY DEF Portable, Hosts

\* Merging one host drops none, and changes neither id nor status.
LEMMA MergedKeeps ==
  ASSUME NEW hs \in Seq(Hosts), NEW h \in Hosts
  PROVE  /\ Merged(hs, h) \in Seq(Hosts) /\ GrownFrom(hs, Merged(hs, h))
         /\ OneEach(hs) => OneEach(Merged(hs, h))
<1> DEFINE S == {m \in DOMAIN hs : hs[m].id = h.id \/ hs[m].ep = h.ep}
           n == First(S)
           k == [hs[n] EXCEPT !.ep = h.ep, !.real = TRUE]
<1>1. S \in SUBSET (Nat \ {0}) /\ S \subseteq DOMAIN hs
  OBVIOUS
<1>2. IF S = {} THEN n = 0 ELSE n \in S
  <2> HIDE DEF S
  <2>1. QED
    BY <1>1, FirstIs
<1>3. CASE n = 0
  <2>1. S = {}
    <3> HIDE DEF S, n
    <3>1. QED
      BY <1>1, <1>2, <1>3
  <2>2. Merged(hs, h) = Append(hs, h)
    BY <1>3 DEF Merged
  <2>3. \A m \in DOMAIN hs : hs[m].id # h.id
    BY <2>1
  <2>4. QED
    BY <2>2, <2>3, AppendHost
<1>4. CASE n # 0
  <2>1. n \in DOMAIN hs
    <3> HIDE DEF S, n
    <3>1. QED
      BY <1>1, <1>2, <1>4
  <2>2. Merged(hs, h) = [hs EXCEPT ![n].ep = h.ep, ![n].real = TRUE]
    BY <1>4 DEF Merged
  <2> HIDE DEF n
  <2>3. k \in Hosts /\ k.id = hs[n].id /\ k.status = hs[n].status
    <3>1. hs[n] \in Hosts
      BY <2>1
    <3>2. QED
      BY <3>1 DEF Hosts
  <2>4. [hs EXCEPT ![n].ep = h.ep, ![n].real = TRUE] = [hs EXCEPT ![n] = k]
    OBVIOUS
  <2> HIDE DEF k
  <2>5. Merged(hs, h) = [hs EXCEPT ![n] = k]
    BY <2>2, <2>4
  <2>6. LET r == [hs EXCEPT ![n] = k]
        IN  r \in Seq(Hosts) /\ (OneEach(hs) => OneEach(r)) /\ GrownFrom(hs, r)
    BY <2>1, <2>3, ReplaceHost
  <2>7. QED
    BY <2>5, <2>6
<1>5. QED
  BY <1>3, <1>4

\* Nothing is bookmarked twice.
LEMMA AddedKeeps ==
  ASSUME NEW bs \in Seq(Bookmarks), IsInjective(bs), NEW b \in Bookmarks
  PROVE  Added(bs, b) \in Seq(Bookmarks) /\ IsInjective(Added(bs, b))
<1> DEFINE r == <<b>> \o bs
<1>1. CASE Contains(bs, b)
  BY <1>1 DEF Added
<1>2. CASE ~Contains(bs, b)
  <2>1. /\ r \in Seq(Bookmarks) /\ DOMAIN r = 1 .. Len(bs) + 1 /\ r[1] = b
        /\ Len(bs) \in Nat /\ DOMAIN bs = 1 .. Len(bs)
        /\ \A n \in 1 .. Len(bs) + 1 : n # 1 => n - 1 \in 1 .. Len(bs) /\ r[n] = bs[n - 1]
    OBVIOUS
  <2>2. \A n \in 1 .. Len(bs) : bs[n] # b
    BY <1>2 DEF Contains
  <2>3. Added(bs, b) = r
    BY <1>2 DEF Added
  <2> HIDE DEF r
  <2>4. ASSUME NEW m \in DOMAIN r, NEW n \in DOMAIN r, r[m] = r[n]
        PROVE  m = n
    <3>1. m \in Nat /\ n \in Nat /\ (m = 1 <=> n = 1)
      BY <2>1, <2>2, <2>4
    <3>2. CASE m # 1 /\ n # 1
      <4>1. bs[m - 1] = bs[n - 1] /\ m - 1 \in DOMAIN bs /\ n - 1 \in DOMAIN bs
        BY <2>1, <2>4, <3>2
      <4>2. m - 1 = n - 1
        BY <4>1 DEF IsInjective
      <4>3. QED
        BY <3>1, <4>2
    <3>3. QED
      BY <3>1, <3>2
  <2>5. QED
    BY <2>1, <2>3, <2>4 DEF IsInjective
<1>3. QED
  BY <1>1, <1>2

\* A whole bundle drops no host, gives none another id or status, and keeps
\* ids unique: by induction over the bundle.
LEMMA MergedAllKeeps ==
  ASSUME NEW hs \in Seq(Hosts), NEW new \in Seq(Hosts)
  PROVE  /\ MergedAll(hs, new) \in Seq(Hosts) /\ GrownFrom(hs, MergedAll(hs, new))
         /\ OneEach(hs) => OneEach(MergedAll(hs, new))
<1> DEFINE N == Len(new)
           X == {t \in Seq(Hosts) : GrownFrom(hs, t) /\ (OneEach(hs) => OneEach(t))}
           step == [n \in 1 .. N |-> [t \in X |-> Merged(t, Portable(new[n]))]]
           Solves(f) == f = [n \in 0 .. N |-> IF n = 0 THEN hs
                                              ELSE Merged(f[n - 1], Portable(new[n]))]
           after == CHOOSE f : Solves(f)
<1>1. N \in Nat /\ hs \in X
  BY DEF GrownFrom
<1>2. step \in [1 .. N -> [X -> X]]
  <2>1. ASSUME NEW t \in X, NEW n \in 1 .. N
        PROVE  Merged(t, Portable(new[n])) \in X
    <3>1. t \in Seq(Hosts) /\ Portable(new[n]) \in Hosts
      BY PortableType
    <3>2. GrownFrom(t, Merged(t, Portable(new[n]))) /\ Merged(t, Portable(new[n])) \in Seq(Hosts)
          /\ (OneEach(t) => OneEach(Merged(t, Portable(new[n]))))
      BY <3>1, MergedKeeps
    <3>3. GrownFrom(hs, Merged(t, Portable(new[n])))
      BY <3>2 DEF GrownFrom
    <3>4. QED
      BY <3>2, <3>3
  <2> HIDE DEF X, N
  <2>2. QED
    BY <2>1
<1>3. \E f : Solves(f) /\ f \in [0 .. N -> X]
  <2>1. PICK f \in [0 .. N -> X] : f[0] = hs /\ \A n \in 1 .. N : f[n] = step[n][f[n - 1]]
    <3> HIDE DEF X, N, step
    <3>1. Runs(N, X, hs, step) # {}
      BY <1>1, <1>2, Recursion
    <3>2. QED
      BY <3>1 DEF Runs
  <2>2. \A n \in 1 .. N : f[n] = Merged(f[n - 1], Portable(new[n]))
    <3> TAKE n \in 1 .. N
    <3>1. f[n - 1] \in X
      <4> HIDE DEF X
      <4>1. n - 1 \in 0 .. N
        BY <1>1
      <4>2. QED
        BY <4>1
    <3>2. QED
      BY <2>1, <3>1
  <2> HIDE DEF X
  <2>3. \A n \in 0 .. N : f[n] = IF n = 0 THEN hs ELSE Merged(f[n - 1], Portable(new[n]))
    BY <1>1, <2>1, <2>2
  <2>4. f = [n \in 0 .. N |-> IF n = 0 THEN hs ELSE Merged(f[n - 1], Portable(new[n]))]
    BY <2>3
  <2>5. QED
    BY <2>4
<1>4. Solves(after)
  <2> HIDE DEF Solves
  <2>1. QED
    BY <1>3
<1>5. MergedAll(hs, new) = after[N]
  BY DEF MergedAll
<1> HIDE DEF after
<1>6. after[0] = hs /\ \A n \in 1 .. N : after[n] = Merged(after[n - 1], Portable(new[n]))
  BY <1>1, <1>4
<1>7. after[N] \in X
  <2> DEFINE S == {n \in 0 .. N : after[n] \in X}
  <2>1. 0 \in S
    BY <1>1, <1>6
  <2>2. ASSUME NEW n \in 0 .. N, n + 1 \in 0 .. N, n \in S
        PROVE  n + 1 \in S
    <3>1. n + 1 \in 1 .. N /\ (n + 1) - 1 = n
      BY <2>2
    <3>2. after[n + 1] = step[n + 1][after[n]]
      BY <1>6, <2>2, <3>1
    <3>3. after[n + 1] \in X
      <4> HIDE DEF X, step
      <4>1. QED
        BY <1>2, <2>2, <3>1, <3>2
    <3>4. QED
      BY <2>2, <3>3
  <2> HIDE DEF S
  <2>3. \A n \in 0 .. N : n \in S
    BY <1>1, <2>1, <2>2, CountUp
  <2>4. QED
    BY <1>1, <2>3 DEF S
<1>8. QED
  BY <1>5, <1>7

\* Nothing is bookmarked twice, whatever bookmarks a bundle holds.
LEMMA AddedAllKeeps ==
  ASSUME NEW bs \in Seq(Bookmarks), IsInjective(bs), NEW new \in Seq(Bookmarks)
  PROVE  AddedAll(bs, new) \in Seq(Bookmarks) /\ IsInjective(AddedAll(bs, new))
<1> DEFINE N == Len(new)
           X == {t \in Seq(Bookmarks) : IsInjective(t)}
           step == [n \in 1 .. N |-> [t \in X |-> Added(t, new[n])]]
           Solves(f) == f = [n \in 0 .. N |-> IF n = 0 THEN bs ELSE Added(f[n - 1], new[n])]
           after == CHOOSE f : Solves(f)
<1>1. N \in Nat /\ bs \in X
  OBVIOUS
<1>2. step \in [1 .. N -> [X -> X]]
  <2>1. ASSUME NEW t \in X, NEW n \in 1 .. N
        PROVE  Added(t, new[n]) \in X
    <3>1. new[n] \in Bookmarks
      OBVIOUS
    <3>2. QED
      BY <3>1, AddedKeeps
  <2> HIDE DEF X, N
  <2>2. QED
    BY <2>1
<1>3. \E f : Solves(f) /\ f \in [0 .. N -> X]
  <2>1. PICK f \in [0 .. N -> X] : f[0] = bs /\ \A n \in 1 .. N : f[n] = step[n][f[n - 1]]
    <3> HIDE DEF X, N, step
    <3>1. Runs(N, X, bs, step) # {}
      BY <1>1, <1>2, Recursion
    <3>2. QED
      BY <3>1 DEF Runs
  <2>2. \A n \in 1 .. N : f[n] = Added(f[n - 1], new[n])
    <3> TAKE n \in 1 .. N
    <3>1. f[n - 1] \in X
      <4> HIDE DEF X
      <4>1. n - 1 \in 0 .. N
        BY <1>1
      <4>2. QED
        BY <4>1
    <3>2. QED
      BY <2>1, <3>1
  <2> HIDE DEF X
  <2>3. \A n \in 0 .. N : f[n] = IF n = 0 THEN bs ELSE Added(f[n - 1], new[n])
    BY <1>1, <2>1, <2>2
  <2>4. f = [n \in 0 .. N |-> IF n = 0 THEN bs ELSE Added(f[n - 1], new[n])]
    BY <2>3
  <2>5. QED
    BY <2>4
<1>4. Solves(after)
  <2> HIDE DEF Solves
  <2>1. QED
    BY <1>3
<1>5. AddedAll(bs, new) = after[N]
  BY DEF AddedAll
<1> HIDE DEF after
<1>6. after[0] = bs /\ \A n \in 1 .. N : after[n] = Added(after[n - 1], new[n])
  BY <1>1, <1>4
<1>7. after[N] \in X
  <2> DEFINE S == {n \in 0 .. N : after[n] \in X}
  <2>1. 0 \in S
    BY <1>1, <1>6
  <2>2. ASSUME NEW n \in 0 .. N, n + 1 \in 0 .. N, n \in S
        PROVE  n + 1 \in S
    <3>1. n + 1 \in 1 .. N /\ (n + 1) - 1 = n
      BY <2>2
    <3>2. after[n + 1] = step[n + 1][after[n]]
      BY <1>6, <2>2, <3>1
    <3>3. after[n + 1] \in X
      <4> HIDE DEF X, step
      <4>1. QED
        BY <1>2, <2>2, <3>1, <3>2
    <3>4. QED
      BY <2>2, <3>3
  <2> HIDE DEF S
  <2>3. \A n \in 0 .. N : n \in S
    BY <1>1, <2>1, <2>2, CountUp
  <2>4. QED
    BY <1>1, <2>3 DEF S
<1>8. QED
  BY <1>5, <1>7

\* t is a selection of s from the positions in S: w tells where an element
\* comes from, and no element is taken twice.
Places(t, s, S) ==
  {w \in [1 .. Len(t) -> S] :
     /\ \A k \in 1 .. Len(t) : t[k] = s[w[k]]
     /\ \A k, l \in 1 .. Len(t) : w[k] = w[l] => k = l}

\* A selection that grows by one place.
LEMMA PlacesGrow ==
  ASSUME NEW T, NEW s \in Seq(T), NEW t \in Seq(T), NEW S, NEW n \in DOMAIN s, n \notin S,
         Places(t, s, S) # {}
  PROVE  Places(Append(t, s[n]), s, S \cup {n}) # {}
<1>1. PICK w \in [1 .. Len(t) -> S] :
        /\ \A k \in 1 .. Len(t) : t[k] = s[w[k]]
        /\ \A k, l \in 1 .. Len(t) : w[k] = w[l] => k = l
  BY DEF Places
<1> DEFINE u == Append(t, s[n])
           v == [k \in 1 .. Len(t) + 1 |-> IF k = Len(t) + 1 THEN n ELSE w[k]]
<1>2. /\ Len(t) \in Nat /\ Len(u) = Len(t) + 1 /\ u[Len(t) + 1] = s[n]
      /\ \A k \in 1 .. Len(t) : u[k] = t[k]
  OBVIOUS
<1>3. \A k \in 1 .. Len(t) + 1 : k # Len(t) + 1 => k \in 1 .. Len(t)
  BY <1>2
<1>4. v \in [1 .. Len(t) + 1 -> S \cup {n}]
  BY <1>1, <1>3
<1>5. \A k \in 1 .. Len(t) + 1 : u[k] = s[v[k]]
  BY <1>1, <1>2, <1>3
<1>6. \A k, l \in 1 .. Len(t) + 1 : v[k] = v[l] => k = l
  <2> SUFFICES ASSUME NEW k \in 1 .. Len(t) + 1, NEW l \in 1 .. Len(t) + 1, v[k] = v[l]
               PROVE  k = l
    OBVIOUS
  <2>1. \A j \in 1 .. Len(t) : w[j] \in S /\ w[j] # n
    BY <1>1
  <2>2. QED
    BY <1>1, <1>3, <2>1
<1>7. v \in Places(u, s, S \cup {n})
  <2> HIDE DEF u, v
  <2>1. QED
    BY <1>2, <1>4, <1>5, <1>6 DEF Places
<1>8. QED
  BY <1>7

\* A selection with more places to take from.
LEMMA PlacesWiden ==
  ASSUME NEW t, NEW s, NEW S, NEW R, S \subseteq R, Places(t, s, S) # {}
  PROVE  Places(t, s, R) # {}
BY DEF Places

\* What Chosen computes: a selection from the positions in S, and the whole
\* list when S has all of them.
LEMMA ChosenIs ==
  ASSUME NEW T, NEW s \in Seq(T), NEW S
  PROVE  /\ Chosen(s, S) \in Seq(T) /\ Places(Chosen(s, S), s, S \cap DOMAIN s) # {}
         /\ DOMAIN s \subseteq S => Chosen(s, S) = s
<1> DEFINE N == Len(s)
           X == Seq(T)
           Grow(t, n) == IF n \in S THEN Append(t, s[n]) ELSE t
           step == [n \in 1 .. N |-> [t \in X |-> Grow(t, n)]]
           Solves(f) == f = [n \in 0 .. N |-> IF n = 0 THEN <<>>
                              ELSE IF n \in S THEN Append(f[n - 1], s[n]) ELSE f[n - 1]]
           upTo == CHOOSE f : Solves(f)
<1>1. N \in Nat /\ <<>> \in X /\ DOMAIN s = 1 .. N
  OBVIOUS
<1>2. step \in [1 .. N -> [X -> X]]
  <2>1. ASSUME NEW t \in X, NEW n \in 1 .. N
        PROVE  Grow(t, n) \in X
    OBVIOUS
  <2> HIDE DEF X, N, Grow
  <2>2. QED
    BY <2>1
<1>3. \E f : Solves(f) /\ f \in [0 .. N -> X]
  <2>1. PICK f \in [0 .. N -> X] : f[0] = <<>> /\ \A n \in 1 .. N : f[n] = step[n][f[n - 1]]
    <3> HIDE DEF X, N, step
    <3>1. Runs(N, X, <<>>, step) # {}
      BY <1>1, <1>2, Recursion
    <3>2. QED
      BY <3>1 DEF Runs
  <2>2. \A n \in 1 .. N : f[n] = IF n \in S THEN Append(f[n - 1], s[n]) ELSE f[n - 1]
    <3> TAKE n \in 1 .. N
    <3>1. f[n - 1] \in X
      <4> HIDE DEF X
      <4>1. n - 1 \in 0 .. N
        BY <1>1
      <4>2. QED
        BY <4>1
    <3>2. QED
      BY <2>1, <3>1
  <2> HIDE DEF X
  <2>3. \A n \in 0 .. N : f[n] = IF n = 0 THEN <<>>
                                 ELSE IF n \in S THEN Append(f[n - 1], s[n]) ELSE f[n - 1]
    <3> TAKE n \in 0 .. N
    <3>1. n = 0 \/ n \in 1 .. N
      BY <1>1
    <3>2. QED
      BY <2>1, <2>2, <3>1
  <2>4. f = [n \in 0 .. N |-> IF n = 0 THEN <<>>
                ELSE IF n \in S THEN Append(f[n - 1], s[n]) ELSE f[n - 1]]
    BY <2>3
  <2>5. QED
    BY <2>4
<1>4. Solves(upTo)
  <2> HIDE DEF Solves
  <2>1. QED
    BY <1>3
<1>5. Chosen(s, S) = upTo[N]
  BY DEF Chosen
<1> HIDE DEF upTo
<1>6. /\ upTo[0] = <<>>
      /\ \A n \in 1 .. N : upTo[n] = IF n \in S THEN Append(upTo[n - 1], s[n]) ELSE upTo[n - 1]
  <2>1. 0 \in 0 .. N /\ \A n \in 1 .. N : n \in 0 .. N /\ n # 0
    BY <1>1
  <2>2. DOMAIN upTo = 0 .. N /\ \A n \in 0 .. N : upTo[n] = IF n = 0 THEN <<>>
                              ELSE IF n \in S THEN Append(upTo[n - 1], s[n]) ELSE upTo[n - 1]
    BY <1>4
  <2>3. QED
    BY <2>1, <2>2
<1> DEFINE Sound(n) == /\ upTo[n] \in Seq(T)
                       /\ Places(upTo[n], s, S \cap 1 .. n) # {}
                       /\ DOMAIN s \subseteq S =>
                            Len(upTo[n]) = n /\ \A k \in 1 .. n : upTo[n][k] = s[k]
           R == {n \in 0 .. N : Sound(n)}
<1>7. Sound(0)
  <2>1. <<>> \in Seq(T) /\ Len(<<>>) = 0
    OBVIOUS
  <2>2. [k \in 1 .. 0 |-> 0] \in Places(<<>>, s, S \cap 1 .. 0)
    <3>1. 1 .. Len(<<>>) = {} /\ 1 .. 0 = {}
      BY <2>1
    <3>2. QED
      BY <3>1 DEF Places
  <2>3. QED
    BY <1>6, <2>1, <2>2
<1>8. ASSUME NEW n \in 0 .. N, n + 1 \in 0 .. N, Sound(n)
      PROVE  Sound(n + 1)
  <2>1. n + 1 \in 1 .. N /\ (n + 1) - 1 = n /\ n + 1 \in DOMAIN s /\ n \in Nat
    BY <1>1, <1>8
  <2>2. CASE n + 1 \in S
    <3>1. upTo[n + 1] = Append(upTo[n], s[n + 1])
      BY <1>6, <2>1, <2>2
    <3>2. n + 1 \notin S \cap 1 .. n /\ S \cap 1 .. (n + 1) = (S \cap 1 .. n) \cup {n + 1}
      BY <2>1, <2>2
    <3>3. Places(Append(upTo[n], s[n + 1]), s, (S \cap 1 .. n) \cup {n + 1}) # {}
      <4> DEFINE t == upTo[n]
                 m == n + 1
                 A == S \cap 1 .. n
      <4>1. t \in Seq(T) /\ Places(t, s, A) # {}
        BY <1>8
      <4>2. m \in DOMAIN s /\ m \notin A
        BY <2>1, <3>2
      <4>3. Places(Append(t, s[m]), s, A \cup {m}) # {}
        <5> HIDE DEF Sound, t, m, A
        <5>1. QED
          BY <4>1, <4>2, PlacesGrow
      <4>4. QED
        BY <4>3
    <3>4. upTo[n + 1] \in Seq(T)
      BY <1>8, <2>1, <3>1
    <3>5. ASSUME DOMAIN s \subseteq S
          PROVE  Len(upTo[n + 1]) = n + 1 /\ \A k \in 1 .. n + 1 : upTo[n + 1][k] = s[k]
      <4>1. Len(upTo[n]) = n /\ \A k \in 1 .. n : upTo[n][k] = s[k]
        BY <1>8, <3>5
      <4>2. \A k \in 1 .. n + 1 : k \in 1 .. n \/ k = n + 1
        BY <2>1
      <4>3. QED
        BY <1>8, <2>1, <3>1, <4>1, <4>2
    <3>6. QED
      BY <3>1, <3>2, <3>3, <3>4, <3>5
  <2>3. CASE n + 1 \notin S
    <3>1. upTo[n + 1] = upTo[n] /\ S \cap 1 .. n \subseteq S \cap 1 .. (n + 1)
      BY <1>6, <2>1, <2>3
    <3>2. Places(upTo[n + 1], s, S \cap 1 .. (n + 1)) # {}
      BY <1>8, <3>1, PlacesWiden
    <3>3. QED
      BY <1>8, <2>1, <2>3, <3>1, <3>2
  <2>4. QED
    BY <2>2, <2>3
<1>9. Sound(N)
  <2>1. 0 \in R
    BY <1>1, <1>7
  <2>2. ASSUME NEW n \in 0 .. N, n + 1 \in 0 .. N, n \in R
        PROVE  n + 1 \in R
    BY <1>8, <2>2
  <2> HIDE DEF R, Sound
  <2>3. \A n \in 0 .. N : n \in R
    BY <1>1, <2>1, <2>2, CountUp
  <2>4. QED
    BY <1>1, <2>3 DEF R
<1>10. DOMAIN s \subseteq S => Chosen(s, S) = s
  BY <1>1, <1>5, <1>9
<1>11. QED
  BY <1>1, <1>5, <1>9, <1>10

\* Each element of a selection is one of the list, from a position in S.
LEMMA ChosenFrom ==
  ASSUME NEW T, NEW s \in Seq(T), NEW S \in SUBSET DOMAIN s
  PROVE  LET c == Chosen(s, S)
         IN  /\ c \in Seq(T)
             /\ \A k \in DOMAIN c : \E i \in S : c[k] = s[i]
             /\ IsInjective(s) => IsInjective(c)
<1> DEFINE c == Chosen(s, S)
<1>1. c \in Seq(T) /\ S \cap DOMAIN s = S
  BY ChosenIs
<1>2. PICK w \in Places(c, s, S) : TRUE
  BY <1>1, ChosenIs
<1> HIDE DEF c
<1>3. /\ DOMAIN c = 1 .. Len(c) /\ w \in [1 .. Len(c) -> S]
      /\ \A k \in 1 .. Len(c) : c[k] = s[w[k]] /\ w[k] \in DOMAIN s
      /\ \A k, l \in 1 .. Len(c) : w[k] = w[l] => k = l
  BY <1>1, <1>2 DEF Places
<1>4. IsInjective(s) => IsInjective(c)
  BY <1>3 DEF IsInjective
<1>5. \A k \in DOMAIN c : \E i \in S : c[k] = s[i]
  BY <1>3
<1>6. QED
  BY <1>1, <1>4, <1>5 DEF c

\* A selection of hosts still has unique ids.
LEMMA ChosenOneEach ==
  ASSUME NEW hs \in Seq(Hosts), OneEach(hs), NEW S \in SUBSET DOMAIN hs
  PROVE  OneEach(Chosen(hs, S))
<1> DEFINE c == Chosen(hs, S)
<1>1. c \in Seq(Hosts) /\ S \cap DOMAIN hs = S
  BY ChosenIs
<1>2. PICK w \in Places(c, hs, S) : TRUE
  BY <1>1, ChosenIs
<1> HIDE DEF c
<1>3. /\ DOMAIN c = 1 .. Len(c)
      /\ \A k \in 1 .. Len(c) : c[k] = hs[w[k]] /\ w[k] \in DOMAIN hs
      /\ \A k, l \in 1 .. Len(c) : w[k] = w[l] => k = l
  BY <1>1, <1>2 DEF Places
<1>4. OneEach(c)
  BY <1>3 DEF OneEach
<1>5. QED
  BY <1>4 DEF c

\* What strip_fixtures leaves it would leave again.
LEMMA RealOnlyIs ==
  ASSUME NEW hs \in Seq(Hosts)
  PROVE  /\ RealOnly(hs) \in Seq(Hosts) /\ RealOnly(RealOnly(hs)) = RealOnly(hs)
         /\ OneEach(hs) => OneEach(RealOnly(hs))
<1> DEFINE S == {n \in DOMAIN hs : hs[n].real}
           r == RealOnly(hs)
<1>1. S \in SUBSET DOMAIN hs /\ r = Chosen(hs, S)
  BY DEF RealOnly
<1>2. /\ r \in Seq(Hosts) /\ \A k \in DOMAIN r : \E i \in S : r[k] = hs[i]
  <2> HIDE DEF S
  <2>1. QED
    BY <1>1, ChosenFrom
<1>3. OneEach(hs) => OneEach(r)
  <2> HIDE DEF S, r
  <2>1. QED
    BY <1>1, ChosenOneEach
<1>4. \A k \in DOMAIN r : r[k].real
  BY <1>2
<1> HIDE DEF r
<1>5. RealOnly(r) = r
  <2>1. DOMAIN r \subseteq {n \in DOMAIN r : r[n].real}
    BY <1>4
  <2>2. QED
    BY <1>2, <2>1, ChosenIs DEF RealOnly
<1>6. QED
  BY <1>2, <1>3, <1>5 DEF r

\* The same of the bookmarks.
LEMMA LinkedIs ==
  ASSUME NEW bs \in Seq(Bookmarks), NEW hs
  PROVE  /\ Linked(bs, hs) \in Seq(Bookmarks)
         /\ Linked(Linked(bs, hs), hs) = Linked(bs, hs)
         /\ IsInjective(bs) => IsInjective(Linked(bs, hs))
<1> DEFINE S == {n \in DOMAIN bs : HostAt(hs, bs[n].host) # 0}
           r == Linked(bs, hs)
<1>1. S \in SUBSET DOMAIN bs /\ r = Chosen(bs, S)
  BY DEF Linked
<1>2. /\ r \in Seq(Bookmarks) /\ \A k \in DOMAIN r : \E i \in S : r[k] = bs[i]
      /\ IsInjective(bs) => IsInjective(r)
  <2> HIDE DEF S
  <2>1. QED
    BY <1>1, ChosenFrom
<1>3. \A k \in DOMAIN r : HostAt(hs, r[k].host) # 0
  BY <1>2
<1> HIDE DEF r
<1>4. Linked(r, hs) = r
  <2>1. DOMAIN r \subseteq {n \in DOMAIN r : HostAt(hs, r[n].host) # 0}
    BY <1>3
  <2>2. QED
    BY <1>2, <2>1, ChosenIs DEF Linked
<1>5. QED
  BY <1>2, <1>4 DEF r

\* What a launch keeps of a file: a state with unique ids and bookmarks, of
\* which the next launch would keep everything.
LEMMA KeptIs ==
  ASSUME NEW s \in Snapshots
  PROVE  /\ Kept(s) \in Snapshots /\ Kept(s).limit = s.limit /\ Kept(Kept(s)) = Kept(s)
         /\ Distinct(s.hosts, s.bookmarks) => Distinct(Kept(s).hosts, Kept(s).bookmarks)
<1>1. s.hosts \in Seq(Hosts) /\ s.bookmarks \in Seq(Bookmarks) /\ s.limit \in Limits
  BY DEF Snapshots
<1>2. CASE ~android
  BY <1>2 DEF Kept
<1>3. CASE android
  <2> DEFINE r == RealOnly(s.hosts)
             l == Linked(s.bookmarks, r)
             k == [hosts |-> r, bookmarks |-> l, limit |-> s.limit]
  <2>1. Kept(s) = k
    BY <1>3 DEF Kept
  <2>2. r \in Seq(Hosts) /\ RealOnly(r) = r /\ (OneEach(s.hosts) => OneEach(r))
    BY <1>1, RealOnlyIs
  <2>3. /\ l \in Seq(Bookmarks) /\ Linked(l, r) = l
        /\ IsInjective(s.bookmarks) => IsInjective(l)
    BY <1>1, LinkedIs
  <2> HIDE DEF r, l
  <2>4. k \in Snapshots /\ k.hosts = r /\ k.bookmarks = l /\ k.limit = s.limit
    BY <1>1, <2>2, <2>3 DEF Snapshots
  <2>5. Kept(k) = k
    BY <1>3, <2>2, <2>3 DEF Kept
  <2>6. Distinct(s.hosts, s.bookmarks) => Distinct(k.hosts, k.bookmarks)
    BY <2>2, <2>3, <2>4 DEF Distinct, OneEach
  <2>7. QED
    BY <2>1, <2>4, <2>5, <2>6
<1>4. QED
  BY <1>2, <1>3
-----------------------------------------------------------------------------
(* The invariant.                                                           *)

\* What the UI holds.
UiSound ==
  /\ hosts \in Seq(Hosts) /\ bookmarks \in Seq(Bookmarks) /\ limit \in Limits /\ cap \in Limits
  /\ OneEach(hosts) /\ IsInjective(bookmarks)

\* A state in a file could be on the screen.
Sound(f) == f.kind = "state" => Distinct(f.state.hosts, f.state.bookmarks)

DiskSound ==
  /\ file \in Files /\ tmp \in Files /\ export \in Files
  /\ Sound(file) /\ Sound(tmp) /\ export # Corrupt

PasswordMaps == [Ids -> Passwords \cup {NoPassword}]

SecretsSound == vault \in PasswordMaps /\ durable \in PasswordMaps /\ pending \in PasswordMaps

SavedInv ==
  /\ up \in BOOLEAN /\ android \in BOOLEAN /\ fresh \in {"no", "begun", "saved"}
  /\ UiSound /\ DiskSound /\ SecretsSound

\* What the UI holds can be written.
LEMMA CurrentSound ==
  ASSUME UiSound
  PROVE  Current \in Snapshots /\ Distinct(Current.hosts, Current.bookmarks)
BY DEF UiSound, Current, Snapshots, Distinct, OneEach

\* A file that holds a state.
LEMMA HoldsSound ==
  ASSUME NEW s \in Snapshots
  PROVE  /\ Holds(s) \in Files /\ Holds(s) # Corrupt /\ Holds(s) # NoFile
         /\ Holds(s).kind = "state" /\ Holds(s).state = s
<1>1. Holds(s).kind = "state" /\ NoFile.kind = "missing" /\ Corrupt.kind = "corrupt"
  BY DEF Holds, NoFile, Corrupt
<1>2. Holds(s) \in [kind : {"state"}, state : Snapshots] /\ Holds(s).state = s
  BY DEF Holds
<1>3. QED
  BY <1>1, <1>2 DEF Files

\* A file of kind "state" holds one.
LEMMA HeldState ==
  ASSUME NEW f \in Files, f.kind = "state"
  PROVE  f.state \in Snapshots /\ f = Holds(f.state)
<1>1. NoFile.kind # "state" /\ Corrupt.kind # "state"
  BY DEF NoFile, Corrupt
<1>2. f \in [kind : {"state"}, state : Snapshots]
  BY <1>1 DEF Files
<1>3. QED
  BY <1>2 DEF Holds

\* A bundle, from the export file or from elsewhere, is a state.
LEMMA BundleType ==
  ASSUME DiskSound, NEW b \in Bundles
  PROVE  b \in Snapshots
<1>1. CASE b \in Foreign
  BY <1>1, StateAssumption
<1>2. CASE b = export.state /\ export # NoFile
  <2>1. export \in [kind : {"state"}, state : Snapshots]
    BY <1>2 DEF DiskSound, Files
  <2>2. QED
    BY <1>2, <2>1
<1>3. QED
  BY <1>1, <1>2 DEF Bundles

\* The host and bookmark lists after a launch.
LEMMA StartedSound ==
  ASSUME NEW s \in Snapshots, Distinct(s.hosts, s.bookmarks), NEW stored, SavedInv,
         StartWith(s, stored)
  PROVE  UiSound' /\ SecretsSound'
<1>1. Kept(s) \in Snapshots /\ Distinct(Kept(s).hosts, Kept(s).bookmarks)
  BY KeptIs
<1>2. /\ hosts' = Kept(s).hosts /\ bookmarks' = Kept(s).bookmarks
      /\ limit' = s.limit /\ cap' = DefaultLimit
  BY DEF StartWith
<1>3. UiSound'
  BY <1>1, <1>2, StateAssumption DEF UiSound, Snapshots, Distinct, OneEach
<1>4. vault' \in PasswordMaps
  BY DEF StartWith, SavedInv, SecretsSound, PasswordMaps
<1>5. QED
  BY <1>3, <1>4 DEF StartWith, SavedInv, SecretsSound, secrets

\* The steps of the user keep what the UI holds sound.
LEMMA UserUi ==
  ASSUME SavedInv, User
  PROVE  UiSound'
<1> USE DEF SavedInv
<1>1. ASSUME NEW i \in Ids, NEW e \in Endpoints, NEW p \in Passwords \cup {NoPassword},
             SaveHost(i, e, p)
      PROVE  UiSound'
  <2> DEFINE h == [id |-> i, ep |-> e, status |-> "idle", real |-> TRUE]
  <2>1. h \in Hosts
    BY DEF Hosts
  <2>2. hosts' = Put(hosts, h) /\ UNCHANGED <<bookmarks, limit, cap>>
    BY <1>1 DEF SaveHost
  <2> HIDE DEF h
  <2>3. Put(hosts, h) \in Seq(Hosts) /\ OneEach(Put(hosts, h))
    BY <2>1, PutKeeps DEF UiSound
  <2>4. QED
    BY <2>2, <2>3 DEF UiSound
<1>2. ASSUME NEW i \in Ids, Mount(i)
      PROVE  UiSound'
  <2> DEFINE n == HostAt(hosts, i)
             h == [hosts[n] EXCEPT !.status = "mounted"]
  <2>1. n \in DOMAIN hosts
    BY <1>2, HostAtIs DEF Mount, UiSound
  <2>2. hosts' = [hosts EXCEPT ![n].status = "mounted"] /\ UNCHANGED <<bookmarks, limit, cap>>
    BY <1>2 DEF Mount
  <2> HIDE DEF n
  <2>3. hosts[n] \in Hosts /\ hosts \in Seq(Hosts) /\ OneEach(hosts)
    BY <2>1 DEF UiSound
  <2>4. h \in Hosts /\ h.id = hosts[n].id
    BY <2>3 DEF Hosts
  <2>5. hosts' = [hosts EXCEPT ![n] = h]
    BY <2>2
  <2> HIDE DEF h
  <2>6. hosts' \in Seq(Hosts) /\ OneEach(hosts')
    BY <2>1, <2>3, <2>4, <2>5, ReplaceHost
  <2>7. QED
    BY <2>2, <2>6 DEF UiSound
<1>3. ASSUME NEW b \in Bookmarks, ToggleBookmark(b)
      PROVE  UiSound'
  <2>1. bookmarks \in Seq(Bookmarks) /\ IsInjective(bookmarks)
    BY DEF UiSound
  <2>2. UNCHANGED <<hosts, limit, cap>>
    BY <1>3 DEF ToggleBookmark
  <2>3. CASE Contains(bookmarks, b)
    <3> DEFINE S == {n \in DOMAIN bookmarks : bookmarks[n] # b}
    <3>1. bookmarks' = Chosen(bookmarks, S) /\ S \in SUBSET DOMAIN bookmarks
      BY <1>3, <2>3 DEF ToggleBookmark
    <3> HIDE DEF S
    <3>2. bookmarks' \in Seq(Bookmarks) /\ IsInjective(bookmarks')
      BY <2>1, <3>1, ChosenFrom
    <3>3. QED
      BY <2>2, <3>2 DEF UiSound
  <2>4. CASE ~Contains(bookmarks, b)
    <3>1. bookmarks' = Added(bookmarks, b)
      BY <1>3, <2>4 DEF ToggleBookmark
    <3>2. bookmarks' \in Seq(Bookmarks) /\ IsInjective(bookmarks')
      BY <2>1, <3>1, AddedKeeps
    <3>3. QED
      BY <2>2, <3>2 DEF UiSound
  <2>5. QED
    BY <2>3, <2>4
<1>4. ASSUME NEW v \in Limits, SetLimit(v)
      PROVE  UiSound'
  BY <1>4 DEF SetLimit, UiSound
<1>5. ASSUME NEW b \in Bundles, Import(b)
      PROVE  UiSound'
  <2>1. b.hosts \in Seq(Hosts) /\ b.bookmarks \in Seq(Bookmarks) /\ b.limit \in Limits
    BY BundleType DEF Snapshots
  <2>2. MergedAll(hosts, b.hosts) \in Seq(Hosts) /\ OneEach(MergedAll(hosts, b.hosts))
    BY <2>1, MergedAllKeeps DEF UiSound
  <2>3. /\ AddedAll(bookmarks, b.bookmarks) \in Seq(Bookmarks)
        /\ IsInjective(AddedAll(bookmarks, b.bookmarks))
    BY <2>1, AddedAllKeeps DEF UiSound
  <2>4. QED
    BY <1>5, <2>1, <2>2, <2>3 DEF Import, UiSound
<1>6. CASE UNCHANGED ui
  BY <1>6 DEF ui, UiSound
<1>7. QED
  BY <1>1, <1>2, <1>3, <1>4, <1>5, <1>6 DEF User, EnterPassword, Export

\* The exported bundle is a state.
LEMMA ExportSound ==
  ASSUME UiSound, Export
  PROVE  export' \in Files /\ export' # Corrupt
<1> DEFINE ps == [n \in DOMAIN hosts |-> Portable(hosts[n])]
           s == [Current EXCEPT !.hosts = ps]
<1>1. ps \in Seq(Hosts)
  <2>1. \A n \in DOMAIN hosts : Portable(hosts[n]) \in Hosts
    BY PortableType DEF UiSound
  <2>2. DOMAIN hosts = 1 .. Len(hosts) /\ Len(hosts) \in Nat
    BY DEF UiSound
  <2>3. QED
    BY <2>1, <2>2
<1>2. s \in Snapshots
  <2> HIDE DEF ps
  <2>1. QED
    BY <1>1, CurrentSound DEF Snapshots
<1>3. export' = Holds(s)
  BY DEF Export, Current
<1>4. QED
  BY <1>2, <1>3, HoldsSound

\* What is on disk is sound after every step.
LEMMA DiskStep ==
  ASSUME SavedInv, [Next]_vars
  PROVE  DiskSound'
<1> USE DEF SavedInv
<1>1. NoFile \in Files /\ Corrupt \in Files /\ NoFile # Corrupt /\ Sound(NoFile) /\ Sound(Corrupt)
  <2>1. NoFile.kind = "missing" /\ Corrupt.kind = "corrupt"
    BY DEF NoFile, Corrupt
  <2>2. QED
    BY <2>1 DEF Files, Sound
<1>2. /\ file \in Files /\ tmp \in Files /\ export \in Files
      /\ Sound(file) /\ Sound(tmp) /\ export # Corrupt
  BY DEF DiskSound
<1>3. CASE UNCHANGED disk
  BY <1>2, <1>3 DEF disk, DiskSound, Sound
<1>4. CASE Export
  <2>1. export' \in Files /\ export' # Corrupt /\ file' = file /\ tmp' = tmp
    BY <1>4, ExportSound DEF Export
  <2>2. QED
    BY <1>2, <2>1 DEF DiskSound, Sound
<1>5. CASE BeginSave
  <2>1. tmp' = Holds(Current) /\ file' = file /\ export' = export
    BY <1>5 DEF BeginSave
  <2>2. tmp' \in Files /\ Sound(tmp')
    BY <2>1, CurrentSound, HoldsSound DEF Sound
  <2>3. QED
    BY <1>2, <2>1, <2>2 DEF DiskSound, Sound
<1>6. CASE \E f \in {file, tmp, NoFile, Corrupt}, t \in {tmp, NoFile, Corrupt} :
             file' = f /\ tmp' = t /\ export' = export
  BY <1>1, <1>2, <1>6 DEF DiskSound, Sound
<1>7. CASE Save
  BY <1>5, <1>6, <1>7 DEF Save, EndSave, FailSave
<1>8. CASE Kill \/ Damage \/ Launch
  BY <1>6, <1>8 DEF Kill, Damage, Launch, LaunchStored, LaunchAnew, LaunchUnread, StartWith
<1>9. CASE User
  BY <1>3, <1>4, <1>9 DEF User, SaveHost, EnterPassword, Mount, ToggleBookmark, SetLimit, Import
<1>10. CASE Sync
  BY <1>3, <1>10 DEF Sync, BeginSync, SyncOne
<1>11. CASE UNCHANGED vars
  BY <1>3, <1>11 DEF vars
<1>12. QED
  BY <1>7, <1>8, <1>9, <1>10, <1>11 DEF Next

\* The states a launch starts with.
LEMMA LaunchStarts ==
  ASSUME SavedInv, Launch
  PROVE  \E s \in Snapshots, stored \in BOOLEAN :
           Distinct(s.hosts, s.bookmarks) /\ StartWith(s, stored)
<1>1. CASE LaunchStored
  BY <1>1, HeldState DEF LaunchStored, SavedInv, DiskSound, Sound
<1>2. CASE LaunchAnew \/ LaunchUnread
  BY <1>2, StateAssumption DEF LaunchAnew, LaunchUnread
<1>3. QED
  BY <1>1, <1>2 DEF Launch

\* So are the passwords.
LEMMA SecretsStep ==
  ASSUME SavedInv, [Next]_vars
  PROVE  SecretsSound'
<1> USE DEF SavedInv, SecretsSound, PasswordMaps
<1>1. NoPasswords \in PasswordMaps
  BY DEF NoPasswords
<1>2. CASE UNCHANGED <<vault, durable, pending>>
  BY <1>2
<1>3. ASSUME NEW i \in Ids, NEW p \in Passwords \cup {NoPassword},
             vault' = [vault EXCEPT ![i] = p], UNCHANGED secrets
      PROVE  SecretsSound'
  BY <1>3 DEF secrets
<1>4. CASE User
  BY <1>2, <1>3, <1>4 DEF User, SaveHost, EnterPassword, Mount, ToggleBookmark, SetLimit,
     Export, Import, secrets
<1>5. CASE BeginSync
  BY <1>5 DEF BeginSync
<1>6. ASSUME NEW i \in Ids, SyncOne(i)
      PROVE  SecretsSound'
  BY <1>6 DEF SyncOne, Copied
<1>7. CASE Kill
  BY <1>1, <1>7 DEF Kill
<1>8. CASE Launch
  BY <1>8, LaunchStarts, StartedSound
<1>9. CASE Save \/ Damage \/ UNCHANGED vars
  BY <1>2, <1>9 DEF Save, BeginSave, EndSave, FailSave, Damage, secrets, vars
<1>10. QED
  BY <1>4, <1>5, <1>6, <1>7, <1>8, <1>9 DEF Next, Sync

\* Every step keeps the invariant.
LEMMA SavedStep ==
  ASSUME SavedInv, [Next]_vars
  PROVE  SavedInv'
<1>1. UiSound'
  <2>1. CASE User
    BY <2>1, UserUi
  <2>2. CASE Launch
    BY <2>2, LaunchStarts, StartedSound
  <2>3. CASE UNCHANGED ui
    BY <2>3 DEF SavedInv, UiSound, ui
  <2>4. QED
    BY <2>1, <2>2, <2>3 DEF Next, Save, BeginSave, EndSave, FailSave, Sync, BeginSync, SyncOne,
       Kill, Damage, vars
<1>2. up' \in BOOLEAN /\ android' \in BOOLEAN /\ fresh' \in {"no", "begun", "saved"}
  BY DEF SavedInv, Next, User, SaveHost, EnterPassword, Mount, ToggleBookmark, SetLimit, Export,
     Import, Save, BeginSave, EndSave, FailSave, Sync, BeginSync, SyncOne, Kill, Damage, Launch,
     LaunchStored, LaunchAnew, LaunchUnread, StartWith, vars
<1>3. QED
  BY <1>1, <1>2, DiskStep, SecretsStep DEF SavedInv

\* The invariant holds in every reachable state.
LEMMA SavedAlways == Spec => []SavedInv
<1>1. Init => SavedInv
  <2> SUFFICES ASSUME Init
               PROVE  SavedInv
    OBVIOUS
  <2>1. NoFile \in Files /\ NoFile # Corrupt /\ Sound(NoFile) /\ NoPasswords \in PasswordMaps
    <3>1. NoFile.kind = "missing" /\ Corrupt.kind = "corrupt"
      BY DEF NoFile, Corrupt
    <3>2. QED
      BY <3>1 DEF Files, Sound, NoPasswords, PasswordMaps
  <2>2. UiSound
    BY StateAssumption DEF Init, UiSound, OneEach, IsInjective
  <2>3. QED
    BY <2>1, <2>2 DEF Init, SavedInv, DiskSound, SecretsSound
<1>2. SavedInv /\ [Next]_vars => SavedInv'
  BY SavedStep
<1>3. QED
  BY <1>1, <1>2, PTL DEF Spec

\* For lists of any length, any bundles and any number of steps: the state
\* has its type, ids are unique and nothing is bookmarked twice.
THEOREM SavedTyped == Spec => []TypeOK
<1>1. SavedInv => TypeOK
  BY DEF SavedInv, UiSound, DiskSound, SecretsSound, PasswordMaps, TypeOK, Distinct, OneEach
<1>2. QED
  BY <1>1, SavedAlways, PTL

-----------------------------------------------------------------------------
(* Kills.                                                                   *)

\* While a change is being saved, the temporary file holds what the UI holds;
\* once it is saved, the file holds what the next launch would keep of it.
FreshInv ==
  /\ up /\ tmp.kind = "state" /\ fresh # "no" => tmp.state = Current
  /\ fresh = "saved" /\ file.kind = "state" => Kept(file.state) = Kept(Current)

\* Neither the UI nor the files change.
LEMMA FreshStays ==
  ASSUME FreshInv, UNCHANGED <<hosts, bookmarks, limit, android, file>>,
         fresh' = fresh \/ fresh' = "no",
         (up' = up /\ tmp' = tmp) \/ ~up' \/ tmp'.kind # "state"
  PROVE  FreshInv'
BY DEF FreshInv, Current, Kept

\* Every step keeps the invariant of the saves.
LEMMA FreshStep ==
  ASSUME SavedInv, FreshInv, [Next]_vars
  PROVE  FreshInv'
<1>1. NoFile.kind # "state" /\ Corrupt.kind # "state"
  BY DEF NoFile, Corrupt
<1>2. CASE fresh' = "no"
  BY <1>2 DEF FreshInv
<1>3. CASE BeginSave
  <2>1. tmp'.kind = "state" /\ tmp'.state = Current
    BY <1>3, CurrentSound, HoldsSound DEF BeginSave, SavedInv
  <2>2. Current' = Current /\ fresh' = "saved" => fresh = "saved"
    BY <1>3 DEF BeginSave, ui, Current
  <2>3. QED
    BY <1>3, <2>1, <2>2 DEF FreshInv, BeginSave, ui, Kept, Current
<1>4. CASE EndSave
  <2>1. Current' = Current /\ file' = tmp /\ tmp'.kind # "state" /\ tmp.kind = "state" /\ up
    BY <1>1, <1>4 DEF EndSave, ui, Current
  <2>2. fresh' = "saved" => fresh # "no"
    BY <1>4 DEF EndSave
  <2>3. fresh' = "saved" => file'.state = Current
    BY <2>1, <2>2 DEF FreshInv
  <2>4. QED
    BY <1>4, <2>1, <2>3 DEF FreshInv, EndSave, Kept
<1>5. CASE FailSave
  <2>1. UNCHANGED <<hosts, bookmarks, limit, android, file>> /\ tmp'.kind # "state"
        /\ (fresh' = fresh \/ fresh' = "no")
    BY <1>1, <1>5 DEF FailSave, ui
  <2>2. QED
    BY <2>1, FreshStays
<1>6. CASE User
  <2>1. fresh' = "no" \/ UNCHANGED <<up, android, ui, file, tmp, fresh>>
    BY <1>6 DEF User, SaveHost, EnterPassword, Mount, ToggleBookmark, SetLimit, Export, Import, disk
  <2>2. QED
    BY <1>2, <2>1, FreshStays DEF ui
<1>7. CASE Sync
  BY <1>7, FreshStays DEF Sync, BeginSync, SyncOne, ui, disk
<1>8. CASE Kill
  BY <1>8, FreshStays DEF Kill, ui
<1>9. CASE Damage
  BY <1>1, <1>9 DEF Damage, FreshInv
<1>10. CASE LaunchStored
  <2>1. file.state \in Snapshots
    BY <1>10, HeldState DEF LaunchStored, SavedInv, DiskSound
  <2> DEFINE k == Kept(file.state)
  <2>2. k \in Snapshots /\ k.limit = file.state.limit /\ Kept(k) = k
    BY <2>1, KeptIs
  <2>3. /\ hosts' = k.hosts /\ bookmarks' = k.bookmarks /\ limit' = k.limit
        /\ tmp'.kind # "state" /\ file' = file /\ android' = android
    BY <1>1, <1>10, <2>2 DEF LaunchStored, StartWith
  <2> HIDE DEF k
  <2>4. Current' = k
    BY <2>2, <2>3 DEF Current, Snapshots
  <2>5. Kept(file.state)' = k
    BY <2>3 DEF k, Kept
  <2>6. Kept(Current)' = k
    BY <2>2, <2>3, <2>4 DEF Kept
  <2>7. QED
    BY <2>3, <2>5, <2>6 DEF FreshInv
<1>11. CASE LaunchAnew \/ LaunchUnread
  BY <1>2, <1>11 DEF LaunchAnew, LaunchUnread
<1>12. CASE UNCHANGED vars
  BY <1>12, FreshStays DEF vars, ui, disk
<1>13. QED
  BY <1>3, <1>4, <1>5, <1>6, <1>7, <1>8, <1>9, <1>10, <1>11, <1>12 DEF Next, Save, Launch

\* Whenever the process is killed, failing saves and a second kill during
\* the launch included: what was saved after the last change is what the
\* next launch that can read the file shows.
THEOREM KillSurvived == Spec => SurvivesKill
<1>1. Init => FreshInv
  <2>1. NoFile.kind # "state"
    BY DEF NoFile
  <2>2. QED
    BY <2>1 DEF Init, FreshInv
<1>2. SavedInv /\ FreshInv /\ [Next]_vars => FreshInv'
  BY FreshStep
<1>3. SavedInv /\ FreshInv /\ [Next]_vars =>
        [(LaunchStored /\ fresh = "saved") =>
           LET last == Kept([hosts |-> hosts, bookmarks |-> bookmarks, limit |-> limit])
           IN  hosts' = last.hosts /\ bookmarks' = last.bookmarks /\ limit' = last.limit]_vars
  <2> SUFFICES ASSUME SavedInv, FreshInv, LaunchStored, fresh = "saved"
               PROVE  LET last == Kept(Current)
                      IN  hosts' = last.hosts /\ bookmarks' = last.bookmarks /\ limit' = last.limit
    BY DEF Current
  <2>1. file.kind = "state" /\ file.state \in Snapshots
    BY HeldState DEF LaunchStored, SavedInv, DiskSound
  <2>2. Kept(file.state).limit = file.state.limit /\ Kept(file.state) = Kept(Current)
    BY <2>1, KeptIs DEF FreshInv
  <2>3. QED
    BY <2>2 DEF LaunchStored, StartWith
<1>4. QED
  BY <1>1, <1>2, <1>3, SavedAlways, PTL DEF Spec, SurvivesKill

-----------------------------------------------------------------------------
(* Imports.                                                                 *)

\* An import of a bundle of any length drops no host, gives none another id
\* and leaves mounted what is mounted.
THEOREM ImportsKeepHosts == Spec => ImportKeeps
<1>1. SavedInv /\ [Next]_vars =>
        [(\E b \in Bundles : Import(b)) =>
           \A n \in DOMAIN hosts :
             /\ n \in DOMAIN hosts'
             /\ hosts'[n].id = hosts[n].id /\ hosts'[n].status = hosts[n].status]_vars
  <2> SUFFICES ASSUME SavedInv, NEW b \in Bundles, Import(b)
               PROVE  GrownFrom(hosts, hosts')
    BY DEF GrownFrom
  <2>1. hosts \in Seq(Hosts) /\ b.hosts \in Seq(Hosts)
    BY BundleType DEF SavedInv, UiSound, Snapshots
  <2>2. QED
    BY <2>1, MergedAllKeeps DEF Import
<1>2. QED
  BY <1>1, SavedAlways, PTL DEF Spec, ImportKeeps
=============================================================================
