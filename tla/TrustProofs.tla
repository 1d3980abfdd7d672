---------------------------- MODULE TrustProofs ----------------------------
(***************************************************************************)
(* Host keys, for any servers, keys, patterns, imports and bounds.          *)
(*                                                                         *)
(* First the helpers of the model: the least position of a set, and the     *)
(* elements of a sequence that a condition selects.  Then the inductive     *)
(* invariant TrustInv, one lemma for each way the store, the list and what   *)
(* the user agreed to can change, the step itself, and the theorems.        *)
(***************************************************************************)
EXTENDS HostTrust, FiniteSetTheorems, TLAPS

(* The positions of a set can be counted off: the k-th is there for every k *)
(* up to the size of the set, and each one is the k-th for some k.          *)
LEMMA NthExists ==
  ASSUME NEW n \in Nat, NEW S \in SUBSET (1 .. n)
  PROVE  /\ Cardinality(S) \in Nat
         /\ \A k \in 1 .. Cardinality(S) :
              Nth(S, k) \in S /\ Cardinality({j \in S : j <= Nth(S, k)}) = k
         /\ \A i \in S : \E k \in 1 .. Cardinality(S) : Nth(S, k) = i
  <1> DEFINE Below(i) == {j \in S : j <= i}
             c == Cardinality(S)
             f == [i \in S |-> Cardinality(Below(i))]
  <1>1. IsFiniteSet(S)
        BY FS_Interval, FS_Subset, 1 \in Int, n \in Int
  <1>2. c \in Nat
        BY <1>1, FS_CardinalityType
  <1>3. IsFiniteSet(1 .. c) /\ Cardinality(1 .. c) = c
        BY <1>2, FS_Interval, 1 \in Int, c \in Int
  <1>4. \A i \in S : IsFiniteSet(Below(i)) /\ Cardinality(Below(i)) <= c /\ Cardinality(Below(i)) \in Nat
    <2> SUFFICES ASSUME NEW i \in S PROVE IsFiniteSet(Below(i)) /\ Cardinality(Below(i)) <= c /\ Cardinality(Below(i)) \in Nat
        OBVIOUS
    <2>1. Below(i) \in SUBSET S
          OBVIOUS
    <2> QED BY <1>1, <2>1, FS_Subset, FS_CardinalityType
  <1>5. \A i \in S : Cardinality(Below(i)) \in 1 .. c
    <2> SUFFICES ASSUME NEW i \in S PROVE Cardinality(Below(i)) # 0
        BY <1>2, <1>4
    <2>1. i \in Below(i)
          OBVIOUS
    <2> QED BY <1>4, <2>1, FS_EmptySet
  <1>6. \A a, b \in S : Cardinality(Below(a)) = Cardinality(Below(b)) => a = b
    <2>1. ASSUME NEW a \in S, NEW b \in S, a < b, Cardinality(Below(a)) = Cardinality(Below(b))
          PROVE  FALSE
      <3>0. a \in Nat /\ b \in Nat /\ \A j \in S : j \in Nat
            OBVIOUS
      <3>1. Below(a) \in SUBSET Below(b)
        <4>1. \A j \in S : j <= a => j <= b
          <5> HIDE DEF Below
          <5> QED BY a < b, <3>0
        <4> QED BY <4>1
      <3>2. Below(a) = Below(b)
            BY <1>4, <2>1, <3>1, FS_Subset
      <3>3. b \in Below(b) /\ b \notin Below(a)
            BY <2>1
      <3> QED BY <3>2, <3>3
    <2> QED BY <2>1
  <1> HIDE DEF Below
  <1>7. f \in Injection(S, 1 .. c)
        BY <1>5, <1>6 DEF Injection, IsInjective
  <1>8. f \in Surjection(S, 1 .. c)
        BY <1>3, <1>7, FS_Injection
  <1>9. \A k \in 1 .. c : \E i \in S : Cardinality(Below(i)) = k
        BY <1>8 DEF Surjection
  <1>10. \A k : Nth(S, k) = CHOOSE i \in S : Cardinality(Below(i)) = k
        BY DEF Nth, Below
  <1>11. \A k \in 1 .. c : Nth(S, k) \in S /\ Cardinality(Below(Nth(S, k))) = k
        BY <1>9, <1>10
  <1>12. \A i \in S : Nth(S, Cardinality(Below(i))) = i
    <2> SUFFICES ASSUME NEW i \in S PROVE Nth(S, Cardinality(Below(i))) = i
        OBVIOUS
    <2> DEFINE k == Cardinality(Below(i))
    <2>1. Nth(S, k) \in S /\ Cardinality(Below(Nth(S, k))) = k
          BY <1>10
    <2> QED BY <1>6, <2>1
  <1> QED BY <1>2, <1>5, <1>11, <1>12 DEF Below

(* The least position of a set is one of them.                              *)
LEMMA MinIn ==
  ASSUME NEW n \in Nat, NEW S \in SUBSET (1 .. n), S # {}
  PROVE  Min(S) \in S
  <1> DEFINE m == Nth(S, 1)
             B == {j \in S : j <= m}
  <1>1. Cardinality(S) \in Nat /\ Cardinality(S) # 0
    <2>1. IsFiniteSet(S)
          BY FS_Interval, FS_Subset, 1 \in Int, n \in Int
    <2> QED BY <2>1, FS_EmptySet, FS_CardinalityType
  <1>2. 1 \in 1 .. Cardinality(S)
        BY <1>1
  <1>3. m \in S /\ Cardinality(B) = 1
        BY <1>2, NthExists
  <1>0. \A i \in S : i \in Nat
        OBVIOUS
  <1>4. IsFiniteSet(B)
        BY FS_Interval, FS_Subset, 1 \in Int, n \in Int
  <1>5. {m} \in SUBSET B /\ Cardinality({m}) = 1
    <2> HIDE DEF m
    <2>1. m \in Nat /\ m \in S
          BY <1>0, <1>3
    <2>3. m \in B
          BY <2>1
    <2>2. Cardinality({m}) = 1
          BY FS_Singleton
    <2> QED BY <2>2, <2>3
  <1>6. B = {m}
        BY <1>3, <1>4, <1>5, FS_Subset
  <1>7. \A y \in S : m <= y
    <2>1. \A y \in S : y <= m => y = m
          BY <1>6
    <2> HIDE DEF m
    <2> QED BY <1>0, <1>3, <2>1
  <1> QED BY <1>3, <1>7 DEF Min

(* A selection of a sequence is a sequence of its elements, and all that    *)
(* were selected are in it.                                                 *)
LEMMA ChosenOf ==
  ASSUME NEW T, NEW s \in Seq(T), NEW S \in SUBSET (DOMAIN s)
  PROVE  /\ Chosen(s, S) \in Seq(T)
         /\ \A k \in DOMAIN Chosen(s, S) : \E i \in S : Chosen(s, S)[k] = s[i]
         /\ \A i \in S : \E k \in DOMAIN Chosen(s, S) : Chosen(s, S)[k] = s[i]
  <1>1. Len(s) \in Nat /\ DOMAIN s = 1 .. Len(s) /\ \A i \in DOMAIN s : s[i] \in T
        OBVIOUS
  <1>2. /\ Cardinality(S) \in Nat
        /\ \A k \in 1 .. Cardinality(S) : Nth(S, k) \in S
        /\ \A i \in S : \E k \in 1 .. Cardinality(S) : Nth(S, k) = i
        BY <1>1, NthExists
  <1>3. DOMAIN Chosen(s, S) = 1 .. Cardinality(S)
        BY DEF Chosen
  <1>4. \A k \in 1 .. Cardinality(S) : Chosen(s, S)[k] = s[Nth(S, k)]
        BY DEF Chosen
  <1>5. \A k \in 1 .. Cardinality(S) : s[Nth(S, k)] \in T
        BY <1>1, <1>2
  <1>6. Chosen(s, S) \in [1 .. Cardinality(S) -> T]
        BY <1>5 DEF Chosen
  <1>7. Chosen(s, S) \in Seq(T)
        BY <1>2, <1>6
  <1> QED BY <1>2, <1>3, <1>4, <1>7
-----------------------------------------------------------------------------
(* The inductive invariant: every entry that can make a key acceptable has  *)
(* its key agreed to for each endpoint it matches, in the store and in its  *)
(* file, and so has every record of the list, as each can be merged into    *)
(* the store by a launch; what only waits for a review stays with normal    *)
(* entries, and reviews and deletions reach no others; and while no save    *)
(* has failed, the store and its file hold what was accepted and revoked.   *)
SoundEntry(e, agreed) ==
  /\ e.marker # "revoked" /\ e.fp # NoKey =>
       \A ep \in Endpoints : Covers(e.host, ep) => <<ep.addr, e.fp>> \in agreed
  /\ e.marker # "normal" => e.pending = NoKey /\ ~e.ui

Sound(es, agreed) ==
  es \in Seq(Entries) /\ \A i \in DOMAIN es : SoundEntry(es[i], agreed)

Agreed(rs, agreed) ==
  rs \in Seq(Records) /\ \A i \in DOMAIN rs : <<rs[i].ep.addr, rs[i].fp>> \in agreed

Has(es, marker, x) ==
  \E i \in DOMAIN es : es[i].marker = marker /\ es[i].host = x[1] /\ es[i].fp = x[2]

Keeps(es, accepted, revoked) ==
  /\ \A t \in accepted : Has(es, "normal", t)
  /\ \A r \in revoked : Has(es, "revoked", r)

StoreInv ==
  /\ Sound(entries, consented) /\ Sound(file, consented)
  /\ edits \in 0 .. MaxEdits /\ faults \in 0 .. MaxEdits
  /\ faults = 0 => Keeps(entries, trusted, revocations) /\ Keeps(file, trusted, revocations)

HistoryInv ==
  /\ consented \in SUBSET (Addrs \X Keys)
  /\ trusted \in SUBSET (Endpoints \X Keys)
  /\ revocations \in SUBSET (Patterns \X Keys)

ListInv == Agreed(known, consented) /\ Agreed(saved.known, consented)

ScreenInv ==
  /\ setting \in BOOLEAN /\ strict \in BOOLEAN
  /\ saved \in [known : Seq(Records), setting : BOOLEAN]
  /\ dialog \in Dialogs /\ probes \in SUBSET Probes

TrustInv == StoreInv /\ HistoryInv /\ ListInv /\ ScreenInv

\* The key of an endpoint is agreed to, and nothing is taken back.
Agreeing(ep, k) == consented \cup {<<ep.addr, k>>} \subseteq consented'
-----------------------------------------------------------------------------
(* Lookups.                                                                 *)

(* A pattern that is an endpoint matches this one, and others of its        *)
(* address only.                                                            *)
LEMMA CoversAddr ==
  ASSUME NEW ep \in Endpoints
  PROVE  Covers(ep, ep) /\ \A x \in Endpoints : Covers(ep, x) => x.addr = ep.addr
  <1>1. \A h : ep # [hashed |-> h]
    <2> SUFFICES ASSUME NEW h, ep = [hashed |-> h] PROVE FALSE
        OBVIOUS
    <2>1. DOMAIN ep = {"addr", "port"} /\ DOMAIN [hashed |-> h] = {"hashed"}
          BY DEF Endpoints
    <2> QED BY <2>1
  <1>2. ep # Domain
        BY TrustAssumption
  <1>3. \A x \in Endpoints : x = ep => x.addr = ep.addr
        OBVIOUS
  <1> QED BY <1>1, <1>2, <1>3 DEF Covers

(* What an entry accepts stays agreed to when more is agreed to.            *)
LEMMA SoundGrows ==
  ASSUME NEW es, NEW a, NEW b, a \subseteq b
  PROVE  (Sound(es, a) => Sound(es, b)) /\ (Agreed(es, a) => Agreed(es, b))
  BY DEF Sound, SoundEntry, Agreed

(* An entry that is appended.                                               *)
LEMMA AppendSound ==
  ASSUME NEW es, NEW a, NEW e \in Entries, Sound(es, a), SoundEntry(e, a)
  PROVE  /\ Sound(Append(es, e), a)
         /\ \A m, x : Has(es, m, x) => Has(Append(es, e), m, x)
         /\ \A m, x : e.marker = m /\ e.host = x[1] /\ e.fp = x[2] => Has(Append(es, e), m, x)
  <1> DEFINE new == Append(es, e)
  <1>1. es \in Seq(Entries) /\ Len(es) \in Nat /\ DOMAIN es = 1 .. Len(es)
        BY DEF Sound
  <1>2. new \in Seq(Entries) /\ DOMAIN new = 1 .. Len(es) + 1
        BY <1>1
  <1>3. /\ new[Len(es) + 1] = e /\ Len(es) + 1 \in DOMAIN new
        /\ \A i \in DOMAIN es : new[i] = es[i] /\ i \in DOMAIN new
        /\ \A i \in DOMAIN new : i \in DOMAIN es \/ i = Len(es) + 1
        BY <1>1, <1>2
  <1> HIDE DEF new
  <1>4. Sound(new, a)
        BY <1>2, <1>3 DEF Sound
  <1>5. \A m, x : Has(es, m, x) => Has(new, m, x)
        BY <1>3 DEF Has
  <1>6. \A m, x : e.marker = m /\ e.host = x[1] /\ e.fp = x[2] => Has(new, m, x)
        BY <1>3 DEF Has
  <1> QED BY <1>4, <1>5, <1>6 DEF new

(* An entry that is replaced.                                               *)
LEMMA ExceptSound ==
  ASSUME NEW es, NEW a, NEW n \in DOMAIN es, NEW e \in Entries, Sound(es, a), SoundEntry(e, a)
  PROVE  /\ Sound([es EXCEPT ![n] = e], a)
         /\ \A m, x : Has(es, m, x) /\ ~(es[n].marker = m /\ es[n].host = x[1] /\ es[n].fp = x[2])
              => Has([es EXCEPT ![n] = e], m, x)
         /\ \A m, x : e.marker = m /\ e.host = x[1] /\ e.fp = x[2]
              => Has([es EXCEPT ![n] = e], m, x)
  <1> DEFINE new == [es EXCEPT ![n] = e]
  <1>1. es \in Seq(Entries)
        BY DEF Sound
  <1>2. new \in Seq(Entries) /\ DOMAIN new = DOMAIN es
        BY <1>1
  <1>3. new[n] = e /\ \A i \in DOMAIN es : i # n => new[i] = es[i]
        BY <1>1
  <1> HIDE DEF new
  <1>4. Sound(new, a)
        BY <1>2, <1>3 DEF Sound
  <1>5. \A m, x : Has(es, m, x) /\ ~(es[n].marker = m /\ es[n].host = x[1] /\ es[n].fp = x[2])
              => Has(new, m, x)
        BY <1>2, <1>3 DEF Has
  <1>6. \A m, x : e.marker = m /\ e.host = x[1] /\ e.fp = x[2] => Has(new, m, x)
        BY <1>2, <1>3 DEF Has
  <1> QED BY <1>4, <1>5, <1>6 DEF new

(* A save, whether it succeeds or not.                                      *)
LEMMA SaveStep ==
  ASSUME StoreInv, NEW new, Save(new), consented \subseteq consented',
         Sound(new, consented'), faults = 0 => Keeps(new, trusted', revocations'),
         edits' \in 0 .. MaxEdits
  PROVE  StoreInv'
  <1>1. MaxEdits \in Nat
        BY TrustAssumption
  <1>2. entries' = new /\ Sound(file, consented') /\ Sound(<<>>, consented')
    <2>1. Sound(file, consented')
          BY SoundGrows DEF StoreInv
    <2>2. Sound(<<>>, consented')
          BY DEF Sound
    <2> QED BY <2>1, <2>2 DEF Save
  <1>3. CASE file' = new /\ UNCHANGED faults
        BY <1>2, <1>3 DEF StoreInv
  <1>4. CASE edits + faults < MaxEdits /\ faults' = faults + 1 /\ file' \in {file, <<>>}
    <2>1. faults' \in 0 .. MaxEdits /\ faults' # 0
          BY <1>1, <1>4 DEF StoreInv
    <2> QED BY <1>2, <1>4, <2>1 DEF StoreInv
  <1> QED BY <1>3, <1>4 DEF Save

(* The store is left alone, while endpoints are forgotten or keys agreed to. *)
LEMMA SameStore ==
  ASSUME StoreInv, UNCHANGED store, consented \subseteq consented',
         trusted' \subseteq trusted, revocations' \subseteq revocations, edits' \in 0 .. MaxEdits
  PROVE  StoreInv'
  <1>1. Sound(entries, consented') /\ Sound(file, consented')
        BY SoundGrows DEF StoreInv
  <1>2. UNCHANGED <<entries, file, faults>>
        BY DEF store
  <1> QED BY <1>1, <1>2 DEF StoreInv, Keeps
-----------------------------------------------------------------------------
(* The ways a key enters the store and the list.                            *)

(* Every new entry without a pending key.                                   *)
LEMMA EntryTyped ==
  ASSUME NEW h \in Patterns, NEW k \in Keys \cup {NoKey}, NEW m \in Markers
  PROVE  /\ Entry(h, k, m) \in Entries
         /\ Entry(h, k, m).host = h /\ Entry(h, k, m).fp = k
         /\ Entry(h, k, m).marker = m /\ Entry(h, k, m).pending = NoKey
         /\ ~Entry(h, k, m).ui
  BY DEF Entry, Entries

(* add: the entry that takes the key is a normal one of the endpoint itself, *)
(* so that no other endpoint's key and no marker is lost.                    *)
LEMMA AddStep ==
  ASSUME StoreInv, HistoryInv, NEW ep \in Endpoints, NEW k \in Keys,
         Add(ep, k), Noted(ep, k), edits' \in 0 .. MaxEdits
  PROVE  StoreInv' /\ HistoryInv' /\ Agreeing(ep, k)
  <1> DEFINE same == {i \in DOMAIN entries : entries[i].marker = "normal" /\ entries[i].host = ep}
             m == Min(same)
  <1>1. consented \subseteq consented' /\ Agreeing(ep, k)
        BY DEF Noted, Agreeing
  <1>2. HistoryInv'
    <2>1. ep.addr \in Addrs
          BY DEF Endpoints
    <2> QED BY <2>1 DEF HistoryInv, Noted
  <1>3. Sound(entries, consented')
        BY <1>1, SoundGrows DEF StoreInv
  <1>4. \A x \in Endpoints : Covers(ep, x) => <<x.addr, k>> \in consented'
        BY CoversAddr DEF Noted
  <1>5. revocations' = revocations /\ \A t \in trusted' : (t \in trusted /\ t[1] # ep) \/ t = <<ep, k>>
        BY DEF Noted
  <1>6. ep \in Patterns /\ "normal" \in Markers /\ k \in Keys \cup {NoKey} /\ NoKey \notin Keys
        BY TrustAssumption DEF Patterns, Markers
  <1>7. CASE same = {}
    <2> DEFINE e == Entry(ep, k, "normal")
               new == Append(entries, e)
    <2>1. Save(new)
          BY <1>7 DEF Add, Pushed
    <2>2. /\ e \in Entries /\ e.host = ep /\ e.fp = k
          /\ e.marker = "normal" /\ e.pending = NoKey /\ ~e.ui
          BY <1>6, EntryTyped
    <2> HIDE DEF e
    <2>3. SoundEntry(e, consented')
          BY <1>4, <2>2 DEF SoundEntry
    <2>4. /\ Sound(new, consented')
          /\ \A mk, x : Has(entries, mk, x) => Has(new, mk, x)
          /\ Has(new, "normal", <<ep, k>>)
          BY <1>3, <2>2, <2>3, AppendSound
    <2> HIDE DEF new
    <2>5. faults = 0 => Keeps(new, trusted', revocations')
          BY <1>5, <2>4 DEF StoreInv, Keeps
    <2>6. StoreInv'
          BY <1>1, <2>1, <2>4, <2>5, SaveStep
    <2> QED BY <1>1, <1>2, <2>6
  <1>8. CASE same # {}
    <2> DEFINE e == Taking(entries[m], k)
               new == [entries EXCEPT ![m] = e]
    <2>1. Save(new)
          BY <1>8 DEF Add
    <2>2. m \in same
      <3>1. same \in SUBSET (1 .. Len(entries)) /\ Len(entries) \in Nat
            BY DEF StoreInv, Sound
      <3> QED BY <1>8, <3>1, MinIn
    <2> HIDE DEF m
    <2>3. m \in DOMAIN entries /\ entries[m] \in Entries /\ entries[m].marker = "normal" /\ entries[m].host = ep
          BY <2>2 DEF StoreInv, Sound
    <2>4. e \in Entries /\ e.host = ep /\ e.fp = k /\ e.marker = "normal" /\ e.pending = NoKey
          BY <1>6, <2>3 DEF Taking, Entries
    <2> HIDE DEF e
    <2>5. SoundEntry(e, consented')
          BY <1>4, <2>4 DEF SoundEntry
    <2>6. /\ Sound(new, consented')
          /\ \A mk, x : Has(entries, mk, x) /\ ~(entries[m].marker = mk /\ entries[m].host = x[1] /\ entries[m].fp = x[2])
               => Has(new, mk, x)
          /\ Has(new, "normal", <<ep, k>>)
          BY <1>3, <2>3, <2>4, <2>5, ExceptSound
    <2> HIDE DEF new
    <2>7. faults = 0 => Keeps(new, trusted', revocations')
          BY <1>5, <2>3, <2>6 DEF StoreInv, Keeps
    <2>8. StoreInv'
          BY <1>1, <2>1, <2>6, <2>7, SaveStep
    <2> QED BY <1>1, <1>2, <2>8
  <1> QED BY <1>7, <1>8

(* note_changed: an entry without a key, or one more key to review.          *)
LEMMA NoteStep ==
  ASSUME StoreInv, NEW ep \in Endpoints, NEW k \in Keys, NoteChanged(ep, k),
         UNCHANGED history, UNCHANGED edits
  PROVE  StoreInv'
  <1> DEFINE m == Min(Matches(ep))
  <1>1. /\ consented' = consented /\ trusted' = trusted /\ revocations' = revocations
        /\ edits' \in 0 .. MaxEdits
        BY DEF history, StoreInv
  <1>2. ep \in Patterns /\ "normal" \in Markers /\ NoKey \in Keys \cup {NoKey}
        BY DEF Patterns, Markers
  <1>3. CASE Matches(ep) = {}
    <2> DEFINE e == [Entry(ep, NoKey, "normal") EXCEPT !.pending = k]
               new == Append(entries, e)
    <2>1. Save(new)
          BY <1>3 DEF NoteChanged, Pushed
    <2>2. e \in Entries /\ e.fp = NoKey /\ e.marker = "normal"
          BY <1>2 DEF Entry, Entries
    <2> HIDE DEF e
    <2>3. SoundEntry(e, consented)
          BY <2>2 DEF SoundEntry
    <2>4. /\ Sound(new, consented)
          /\ \A mk, x : Has(entries, mk, x) => Has(new, mk, x)
          BY <2>2, <2>3, AppendSound DEF StoreInv
    <2> HIDE DEF new
    <2>5. faults = 0 => Keeps(new, trusted, revocations)
          BY <2>4 DEF StoreInv, Keeps
    <2> QED BY <1>1, <2>1, <2>4, <2>5, SaveStep
  <1>4. CASE Matches(ep) # {}
    <2> DEFINE e == [entries[m] EXCEPT !.pending = k]
               new == [entries EXCEPT ![m] = e]
    <2>1. Save(new)
          BY <1>4 DEF NoteChanged
    <2>2. m \in Matches(ep)
      <3>1. Matches(ep) \in SUBSET (1 .. Len(entries)) /\ Len(entries) \in Nat
            BY DEF StoreInv, Sound, Matches
      <3> QED BY <1>4, <3>1, MinIn
    <2> HIDE DEF m
    <2>3. m \in DOMAIN entries /\ entries[m] \in Entries /\ entries[m].marker = "normal"
          /\ SoundEntry(entries[m], consented)
          BY <2>2 DEF StoreInv, Sound, Matches
    <2>4. e \in Entries /\ e.host = entries[m].host /\ e.fp = entries[m].fp /\ e.marker = "normal"
          BY <2>3 DEF Entries
    <2> HIDE DEF e
    <2>5. SoundEntry(e, consented)
          BY <2>3, <2>4 DEF SoundEntry
    <2>6. /\ Sound(new, consented)
          /\ \A mk, x : Has(entries, mk, x) => Has(new, mk, x)
      <3>1. /\ Sound(new, consented)
            /\ \A mk, x : Has(entries, mk, x) /\ ~(entries[m].marker = mk /\ entries[m].host = x[1] /\ entries[m].fp = x[2])
                 => Has(new, mk, x)
            /\ \A mk, x : e.marker = mk /\ e.host = x[1] /\ e.fp = x[2] => Has(new, mk, x)
            BY <2>3, <2>4, <2>5, ExceptSound DEF StoreInv
      <3> HIDE DEF new
      <3> QED BY <2>3, <2>4, <3>1
    <2> HIDE DEF new
    <2>7. faults = 0 => Keeps(new, trusted, revocations)
          BY <2>6 DEF StoreInv, Keeps
    <2> QED BY <1>1, <2>1, <2>6, <2>7, SaveStep
  <1> QED BY <1>3, <1>4

(* The record that takes an accepted key has its address.                   *)
LEMMA ListedStep ==
  ASSUME ListInv, NEW ep \in Endpoints, NEW k \in Keys, Listed(ep, k),
         Agreeing(ep, k), UNCHANGED saved
  PROVE  ListInv'
  <1> DEFINE m == Min(Mine(ep))
  <1>1. Agreed(known, consented') /\ Agreed(saved.known, consented') /\ <<ep.addr, k>> \in consented'
        BY SoundGrows DEF ListInv, Agreeing
  <1>2. CASE Mine(ep) = {}
    <2> DEFINE r == [ep |-> ep, fp |-> k, pending |-> NoKey]
    <2>1. r \in Records /\ r.ep = ep /\ r.fp = k
          BY DEF Records
    <2> HIDE DEF r
    <2>2. known' = Append(known, r)
          BY <1>2 DEF Listed, r
    <2>3. Agreed(known', consented')
          BY <1>1, <2>1, <2>2 DEF Agreed
    <2> QED BY <1>1, <2>3 DEF ListInv
  <1>3. CASE Mine(ep) # {}
    <2> DEFINE r == Taking(known[m], k)
    <2>1. known' = [known EXCEPT ![m] = r]
          BY <1>3 DEF Listed
    <2>2. m \in Mine(ep)
      <3>1. Mine(ep) \in SUBSET (1 .. Len(known)) /\ Len(known) \in Nat
            BY DEF ListInv, Agreed, Mine
      <3> QED BY <1>3, <3>1, MinIn
    <2> HIDE DEF m
    <2>3. m \in DOMAIN known /\ known[m] \in Records /\ known[m].ep.addr = ep.addr
          BY <2>2 DEF ListInv, Agreed, Mine
    <2>4. r \in Records /\ r.fp = k /\ r.ep.addr = ep.addr
          BY <2>3 DEF Taking, Records
    <2> HIDE DEF r
    <2>5. known' \in Seq(Records) /\ DOMAIN known' = DOMAIN known
          /\ known'[m] = r /\ \A i \in DOMAIN known : i # m => known'[i] = known[i]
          BY <1>1, <2>1, <2>3, <2>4 DEF Agreed
    <2>6. Agreed(known', consented')
          BY <1>1, <2>4, <2>5 DEF Agreed
    <2> QED BY <1>1, <2>6 DEF ListInv
  <1> QED BY <1>2, <1>3

LEMMA AcceptStep ==
  ASSUME StoreInv, HistoryInv, ListInv, NEW ep \in Endpoints, NEW k \in Keys,
         AcceptHostKey(ep, k), UNCHANGED saved, UNCHANGED edits
  PROVE  StoreInv' /\ HistoryInv' /\ ListInv'
  <1>1. Add(ep, k) /\ Listed(ep, k) /\ Noted(ep, k) /\ edits' \in 0 .. MaxEdits
        BY DEF AcceptHostKey, StoreInv
  <1>2. StoreInv' /\ HistoryInv' /\ Agreeing(ep, k)
        BY <1>1, AddStep
  <1> QED BY <1>1, <1>2, ListedStep
-----------------------------------------------------------------------------
(* Reviews, deletions, imports and launches.                                *)

(* ACCEPT: only entries of the reviewed endpoint, which carry no marker,     *)
(* take their pending key, and each of these is agreed to.                   *)
LEMMA ReviewStep ==
  ASSUME TrustInv, NEW i \in DOMAIN known, Review(i)
  PROVE  StoreInv' /\ HistoryInv' /\ ListInv'
  <1> DEFINE ep    == known[i].ep
             first == Min({j \in DOMAIN known : known[j].ep = ep})
             keys  == ({known[first].pending} \cup {entries[j].pending : j \in SameId(ep)}) \ {NoKey}
  <1>1. /\ known' = [known EXCEPT ![first] = ReviewedRecord(@)]
        /\ IF SameId(ep) = {} THEN UNCHANGED store ELSE Save(Reviewed(ep))
        /\ consented' = consented \cup {<<ep.addr, k>> : k \in keys}
        /\ trusted' = {t \in trusted : t[1].addr # ep.addr}
        /\ revocations' = revocations /\ edits' = edits /\ saved' = saved
        BY DEF Review, settings
  <1>2. known \in Seq(Records) /\ Len(known) \in Nat /\ DOMAIN known = 1 .. Len(known) /\ ep \in Endpoints
    <2>1. known \in Seq(Records)
          BY DEF TrustInv, ListInv, Agreed
    <2>2. known[i] \in Records
          BY <2>1
    <2> QED BY <2>1, <2>2 DEF Records
  <1>3. first \in DOMAIN known /\ known[first] \in Records /\ known[first].ep = ep
    <2>1. {j \in DOMAIN known : known[j].ep = ep} \in SUBSET (1 .. Len(known)) /\ i \in {j \in DOMAIN known : known[j].ep = ep}
          BY <1>2
    <2>2. first \in {j \in DOMAIN known : known[j].ep = ep}
          BY <1>2, <2>1, MinIn
    <2> HIDE DEF first
    <2> QED BY <1>2, <2>2
  <1> HIDE DEF first
  <1>4. entries \in Seq(Entries) /\ \A j \in DOMAIN entries : entries[j] \in Entries /\ SoundEntry(entries[j], consented)
        BY DEF TrustInv, StoreInv, Sound
  <1>5. keys \subseteq Keys
        BY <1>3, <1>4 DEF SameId, Records, Entries
  <1>6. \A k \in keys : <<ep.addr, k>> \in consented'
        BY <1>1
  <1>7. consented \subseteq consented' /\ trusted' \subseteq trusted
        BY <1>1
  <1>8. HistoryInv'
    <2>1. ep.addr \in Addrs
          BY <1>2 DEF Endpoints
    <2> QED BY <1>1, <1>5, <2>1 DEF TrustInv, HistoryInv
  <1>9. ListInv'
    <2> DEFINE r == ReviewedRecord(known[first])
    <2>1. r \in Records /\ r.ep = ep /\ (r.fp = known[first].fp \/ r.fp \in keys)
          BY <1>3 DEF ReviewedRecord, Taking, Records
    <2>2. Agreed(known, consented') /\ Agreed(saved.known, consented')
          BY <1>7, SoundGrows DEF TrustInv, ListInv
    <2>3. known' = [known EXCEPT ![first] = r]
          BY <1>1
    <2> HIDE DEF r
    <2> HIDE DEF keys
    <2>4. <<r.ep.addr, r.fp>> \in consented'
          BY <1>3, <1>6, <2>1, <2>2 DEF Agreed
    <2>5. known' \in Seq(Records) /\ DOMAIN known' = DOMAIN known
          /\ known'[first] = r /\ \A j \in DOMAIN known : j # first => known'[j] = known[j]
          BY <1>2, <1>3, <2>1, <2>3
    <2>6. Agreed(known', consented')
          BY <2>2, <2>4, <2>5 DEF Agreed
    <2> QED BY <1>1, <2>2, <2>6 DEF ListInv
  <1>10. edits' \in 0 .. MaxEdits
         BY <1>1 DEF TrustInv, StoreInv
  <1>11. CASE SameId(ep) = {}
         BY <1>1, <1>7, <1>8, <1>9, <1>10, <1>11, SameStore DEF TrustInv
  <1>12. CASE SameId(ep) # {}
    <2> DEFINE new == Reviewed(ep)
    <2>1. Save(new)
          BY <1>1, <1>12
    <2>2. \A j \in SameId(ep) : j \in DOMAIN entries /\ entries[j].marker = "normal" /\ entries[j].host = ep
          BY <1>4 DEF SameId, SoundEntry
    <2>3. DOMAIN new = DOMAIN entries
          /\ \A j \in DOMAIN entries : j \notin SameId(ep) \/ entries[j].pending = NoKey => new[j] = entries[j]
          BY DEF Reviewed
    <2>4. \A j \in SameId(ep) : entries[j].pending # NoKey => new[j] = Taking(entries[j], entries[j].pending)
          BY <2>2 DEF Reviewed
    <2>5. Sound(entries, consented')
          BY <1>7, SoundGrows DEF TrustInv, StoreInv
    <2>6. \A j \in DOMAIN entries : new[j] \in Entries /\ SoundEntry(new[j], consented')
      <3> SUFFICES ASSUME NEW j \in DOMAIN entries
                   PROVE  new[j] \in Entries /\ SoundEntry(new[j], consented')
          OBVIOUS
      <3>1. CASE j \notin SameId(ep) \/ entries[j].pending = NoKey
            BY <1>4, <2>3, <2>5, <3>1 DEF Sound
      <3>2. CASE j \in SameId(ep) /\ entries[j].pending # NoKey
        <4> DEFINE k == entries[j].pending
        <4>1. k \in keys /\ k \in Keys
              BY <1>4, <3>2 DEF Entries
        <4>2. new[j] = Taking(entries[j], k) /\ entries[j].marker = "normal" /\ entries[j].host = ep /\ entries[j] \in Entries
              BY <1>4, <2>2, <2>4, <3>2
        <4> HIDE DEF k
        <4> HIDE DEF new
        <4>3. new[j] \in Entries /\ new[j].host = ep /\ new[j].fp = k /\ new[j].marker = "normal"
              BY <4>1, <4>2 DEF Taking, Entries
        <4>4. \A x \in Endpoints : Covers(ep, x) => x.addr = ep.addr
              BY <1>2, CoversAddr
        <4>5. <<ep.addr, k>> \in consented'
              BY <1>6, <4>1
        <4> QED BY <4>3, <4>4, <4>5 DEF SoundEntry
      <3> QED BY <3>1, <3>2
    <2>7. Sound(new, consented')
      <3>1. new \in Seq(Entries)
        <4>1. DOMAIN new = 1 .. Len(entries) /\ Len(entries) \in Nat
              BY <1>4, <2>3
        <4>2. new \in [1 .. Len(entries) -> Entries]
              BY <2>6, <4>1 DEF Reviewed
        <4> QED BY <4>1, <4>2
      <3> QED BY <2>3, <2>6, <3>1 DEF Sound
    <2>8. \A mk, x : Has(entries, mk, x) /\ (mk # "normal" \/ x[1].addr # ep.addr) => Has(new, mk, x)
      <3> HIDE DEF new
      <3> SUFFICES ASSUME NEW mk, NEW x, Has(entries, mk, x),
                          mk # "normal" \/ x[1].addr # ep.addr
                   PROVE  Has(new, mk, x)
          OBVIOUS
      <3>1. PICK j \in DOMAIN entries :
              entries[j].marker = mk /\ entries[j].host = x[1] /\ entries[j].fp = x[2]
            BY DEF Has
      <3>2. j \notin SameId(ep)
            BY <2>2, <3>1
      <3>3. j \in DOMAIN new /\ new[j] = entries[j]
            BY <2>3, <3>2
      <3> QED BY <3>1, <3>3 DEF Has
    <2> HIDE DEF new
    <2>9. faults = 0 => Keeps(new, trusted', revocations')
          BY <1>1, <2>8 DEF TrustInv, StoreInv, Keeps
    <2>10. StoreInv'
           BY <1>7, <1>10, <2>1, <2>7, <2>9, SaveStep DEF TrustInv
    <2> QED BY <1>8, <1>9, <2>10
  <1> QED BY <1>11, <1>12

(* DELETE: what is left is what was there for other endpoints, with every    *)
(* marker.                                                                   *)
LEMMA RemoveStep ==
  ASSUME TrustInv, NEW i \in DOMAIN known, RemoveKnownHost(i)
  PROVE  StoreInv' /\ HistoryInv' /\ ListInv'
  <1> DEFINE ep   == known[i].ep
             rest == {j \in DOMAIN known : known[j].ep # ep}
             S    == DOMAIN entries \ SameId(ep)
             new  == Chosen(entries, S)
  <1>1. /\ known' = Chosen(known, rest) /\ Save(new)
        /\ trusted' = {t \in trusted : t[1].addr # ep.addr}
        /\ revocations' = revocations /\ consented' = consented /\ edits' = edits /\ saved' = saved
        BY DEF RemoveKnownHost, settings, Without
  <1>2. entries \in Seq(Entries) /\ known \in Seq(Records) /\ edits' \in 0 .. MaxEdits
        BY <1>1 DEF TrustInv, StoreInv, Sound, ListInv, Agreed
  <1>3. HistoryInv'
        BY <1>1 DEF TrustInv, HistoryInv
  <1>4. ListInv'
    <2>1. /\ known' \in Seq(Records)
          /\ \A k \in DOMAIN known' : \E j \in rest : known'[k] = known[j]
      <3>1. rest \in SUBSET (DOMAIN known)
            OBVIOUS
      <3> QED BY <1>1, <1>2, <3>1, ChosenOf
    <2>2. Agreed(known', consented)
          BY <2>1 DEF TrustInv, ListInv, Agreed
    <2> QED BY <1>1, <2>2 DEF TrustInv, ListInv
  <1>5. /\ new \in Seq(Entries)
        /\ \A k \in DOMAIN new : \E j \in S : new[k] = entries[j]
        /\ \A j \in S : \E k \in DOMAIN new : new[k] = entries[j]
    <2>1. S \in SUBSET (DOMAIN entries)
          OBVIOUS
    <2> QED BY <1>2, <2>1, ChosenOf
  <1>6. \A j \in DOMAIN entries : j \in S \/ (entries[j].marker = "normal" /\ entries[j].host = ep)
        BY DEF SameId, TrustInv, StoreInv, Sound, SoundEntry
  <1>7. S \subseteq DOMAIN entries
        OBVIOUS
  <1> HIDE DEF S
  <1> HIDE DEF new
  <1>8. Sound(new, consented)
        BY <1>5, <1>7 DEF TrustInv, StoreInv, Sound
  <1>9. \A mk, x : Has(entries, mk, x) /\ (mk # "normal" \/ x[1].addr # ep.addr) => Has(new, mk, x)
    <2> SUFFICES ASSUME NEW mk, NEW x, Has(entries, mk, x),
                        mk # "normal" \/ x[1].addr # ep.addr
                 PROVE  Has(new, mk, x)
        OBVIOUS
    <2>1. PICK j \in DOMAIN entries :
            entries[j].marker = mk /\ entries[j].host = x[1] /\ entries[j].fp = x[2]
          BY DEF Has
    <2>2. j \in S
          BY <1>6, <2>1
    <2>3. PICK k \in DOMAIN new : new[k] = entries[j]
          BY <1>5, <2>2
    <2> QED BY <2>1, <2>3 DEF Has
  <1>10. faults = 0 => Keeps(new, trusted', revocations')
         BY <1>1, <1>9 DEF TrustInv, StoreInv, Keeps
  <1>11. StoreInv'
         BY <1>1, <1>2, <1>8, <1>10, SaveStep DEF TrustInv
  <1> QED BY <1>3, <1>4, <1>11

(* An imported entry or a marker.                                           *)
LEMMA PushStep ==
  ASSUME StoreInv, HistoryInv, NEW h \in Patterns, NEW k \in Keys, NEW m \in Markers,
         Pushed(Entry(h, k, m)), Imported(Entry(h, k, m)), trusted' = trusted,
         edits' \in 0 .. MaxEdits
  PROVE  StoreInv' /\ HistoryInv' /\ consented \subseteq consented'
  <1> DEFINE e == Entry(h, k, m)
             new == Append(entries, e)
  <1>1. Save(new)
        BY DEF Pushed
  <1>2. /\ e \in Entries /\ e.host = h /\ e.fp = k
        /\ e.marker = m /\ e.pending = NoKey /\ ~e.ui
        BY EntryTyped
  <1>3. Imported(e)
        OBVIOUS
  <1> HIDE DEF e
  <1>4. /\ consented \subseteq consented'
        /\ m # "revoked" => \A x \in Endpoints : Covers(h, x) => <<x.addr, k>> \in consented'
        /\ consented' \in SUBSET (Addrs \X Keys)
    <2>1. \A x \in Endpoints : x.addr \in Addrs
          BY DEF Endpoints
    <2>2. CASE m = "revoked"
          BY <1>2, <1>3, <2>2 DEF Imported, HistoryInv
    <2>3. CASE m # "revoked"
      <3>1. consented' = consented \cup {<<x.addr, k>> : x \in {y \in Endpoints : Covers(h, y)}}
            BY <1>2, <1>3, <2>3 DEF Imported
      <3> QED BY <2>1, <2>3, <3>1 DEF HistoryInv
    <2> QED BY <2>2, <2>3
  <1>5. revocations' = IF m = "revoked" THEN revocations \cup {<<h, k>>} ELSE revocations
        BY <1>2, <1>3 DEF Imported
  <1>6. HistoryInv'
        BY <1>4, <1>5 DEF HistoryInv
  <1>7. SoundEntry(e, consented')
        BY <1>2, <1>4 DEF SoundEntry
  <1>8. /\ Sound(new, consented')
        /\ \A mk, x : Has(entries, mk, x) => Has(new, mk, x)
        /\ Has(new, m, <<h, k>>)
    <2>1. Sound(entries, consented')
          BY <1>4, SoundGrows DEF StoreInv
    <2> QED BY <1>2, <1>7, <2>1, AppendSound
  <1> HIDE DEF new
  <1>9. faults = 0 => Keeps(new, trusted', revocations')
    <2>1. \A r \in revocations' : r \in revocations \/ (m = "revoked" /\ r = <<h, k>>)
          BY <1>5
    <2> QED BY <1>8, <2>1 DEF StoreInv, Keeps
  <1> QED BY <1>1, <1>4, <1>6, <1>8, <1>9, SaveStep

(* A launch merges records whose keys have been agreed to, and keeps the     *)
(* file's entries.                                                           *)
LEMMA RelaunchStep ==
  ASSUME TrustInv, Relaunch
  PROVE  StoreInv' /\ ListInv'
  <1> DEFINE list == saved.known
             S    == {n \in DOMAIN list :
                       /\ ~\E i \in DOMAIN file : file[i].host = list[n].ep /\ file[i].fp = list[n].fp
                       /\ ~\E m \in 1 .. n - 1 : list[m].ep = list[n].ep /\ list[m].fp = list[n].fp}
             new  == Chosen(list, S)
             add  == [n \in DOMAIN new |-> FromRecord(new[n])]
  <1>1. /\ entries' = file \o add
        /\ known' = list /\ UNCHANGED <<file, saved, edits, faults, consented, trusted, revocations>>
        BY DEF Relaunch, Merged, history
  <1>2. list \in Seq(Records) /\ \A n \in DOMAIN list : <<list[n].ep.addr, list[n].fp>> \in consented
        BY DEF TrustInv, ListInv, Agreed
  <1>3. ListInv'
        BY <1>1 DEF TrustInv, ListInv
  <1>4. /\ new \in Seq(Records)
        /\ \A k \in DOMAIN new : \E n \in DOMAIN list : new[k] = list[n]
    <2>1. S \in SUBSET (DOMAIN list)
          OBVIOUS
    <2> HIDE DEF S
    <2> QED BY <1>2, <2>1, ChosenOf
  <1> HIDE DEF new
  <1>5. \A r \in Records : /\ FromRecord(r) \in Entries
                           /\ FromRecord(r).host = r.ep /\ FromRecord(r).fp = r.fp
                           /\ FromRecord(r).marker = "normal" /\ r.ep \in Endpoints
    <2>1. Endpoints \subseteq Patterns /\ "normal" \in Markers
          BY DEF Patterns, Markers
    <2> QED BY <2>1 DEF FromRecord, Records, Entries
  <1>6. \A n \in DOMAIN new : new[n] \in Records /\ <<new[n].ep.addr, new[n].fp>> \in consented
    <2> HIDE DEF list
    <2> SUFFICES ASSUME NEW k \in DOMAIN new
                 PROVE  new[k] \in Records /\ <<new[k].ep.addr, new[k].fp>> \in consented
        OBVIOUS
    <2>1. PICK n \in DOMAIN list : new[k] = list[n]
          BY <1>4
    <2>2. list[n] \in Records /\ <<list[n].ep.addr, list[n].fp>> \in consented
          BY <1>2
    <2> QED BY <2>1, <2>2
  <1>7. \A n \in DOMAIN new : FromRecord(new[n]) \in Entries /\ SoundEntry(FromRecord(new[n]), consented)
    <2> SUFFICES ASSUME NEW n \in DOMAIN new
                 PROVE  FromRecord(new[n]) \in Entries /\ SoundEntry(FromRecord(new[n]), consented)
        OBVIOUS
    <2> DEFINE e == FromRecord(new[n])
    <2>1. /\ e \in Entries /\ e.host = new[n].ep /\ e.fp = new[n].fp
          /\ e.marker = "normal" /\ new[n].ep \in Endpoints
          BY <1>5, <1>6
    <2> HIDE DEF e
    <2>2. \A x \in Endpoints : Covers(e.host, x) => <<x.addr, e.fp>> \in consented
          BY <1>6, <2>1, CoversAddr
    <2>3. SoundEntry(e, consented)
          BY <2>1, <2>2 DEF SoundEntry
    <2> QED BY <2>1, <2>3 DEF e
  <1>8. add \in Seq(Entries) /\ DOMAIN add = DOMAIN new /\ \A n \in DOMAIN add : SoundEntry(add[n], consented)
    <2>1. DOMAIN new = 1 .. Len(new) /\ Len(new) \in Nat
          BY <1>4
    <2>2. add \in [1 .. Len(new) -> Entries]
          BY <1>7, <2>1
    <2>3. \A n \in DOMAIN new : add[n] = FromRecord(new[n])
          OBVIOUS
    <2> HIDE DEF add
    <2> QED BY <1>7, <2>1, <2>2, <2>3
  <1> HIDE DEF add
  <1>9. file \in Seq(Entries) /\ \A i \in DOMAIN file : SoundEntry(file[i], consented)
        BY DEF TrustInv, StoreInv, Sound
  <1> DEFINE all == file \o add
  <1>10. /\ all \in Seq(Entries) /\ Len(file) \in Nat /\ Len(add) \in Nat
         /\ DOMAIN file = 1 .. Len(file) /\ DOMAIN add = 1 .. Len(add)
         /\ DOMAIN all = 1 .. Len(file) + Len(add)
         /\ \A i \in 1 .. Len(file) : all[i] = file[i]
         /\ \A i \in Len(file) + 1 .. Len(file) + Len(add) : all[i] = add[i - Len(file)]
         BY <1>8, <1>9
  <1> HIDE DEF all
  <1>11. \A i \in DOMAIN all : SoundEntry(all[i], consented)
    <2> SUFFICES ASSUME NEW i \in DOMAIN all PROVE SoundEntry(all[i], consented)
        OBVIOUS
    <2>1. CASE i \in 1 .. Len(file)
          BY <1>9, <1>10, <2>1
    <2>2. CASE i \in Len(file) + 1 .. Len(file) + Len(add)
      <3>1. i - Len(file) \in DOMAIN add
            BY <1>10, <2>2
      <3> QED BY <1>8, <1>10, <2>2, <3>1
    <2> QED BY <1>10, <2>1, <2>2
  <1>12. \A mk, x : Has(file, mk, x) => Has(all, mk, x)
    <2>1. \A i \in DOMAIN file : i \in DOMAIN all /\ all[i] = file[i]
          BY <1>10
    <2> QED BY <2>1 DEF Has
  <1>13. entries' = all
         BY <1>1 DEF all
  <1>14. Sound(all, consented)
         BY <1>10, <1>11 DEF Sound
  <1>15. faults = 0 => Keeps(all, trusted, revocations)
         BY <1>12 DEF TrustInv, StoreInv, Keeps
  <1>16. StoreInv'
         BY <1>1, <1>13, <1>14, <1>15 DEF TrustInv, StoreInv
  <1> QED BY <1>3, <1>16
-----------------------------------------------------------------------------
(* Every step keeps the invariant.                                          *)

Sheets == [kind : {"trust"}, ep : Endpoints, key : Keys]
Drafts == [kind : {"draft"}, ep : Endpoints, probe : {"test", "testing", "success"},
           pending : Keys \cup {NoKey}]

LEMMA DialogKinds ==
  ASSUME dialog \in Dialogs
  PROVE  /\ dialog.kind = "trust" => dialog \in Sheets
         /\ dialog.kind = "draft" => dialog \in Drafts
         /\ NoDialog \in Dialogs /\ Sheets \subseteq Dialogs /\ Drafts \subseteq Dialogs
  BY DEF Dialogs, NoDialog, Sheets, Drafts

LEMMA ProbeKinds ==
  ASSUME NEW p \in Probes
  PROVE  p.ep \in Endpoints /\ (p.result # "dial" => p.key \in Keys)
  BY DEF Probes

(* What a handshake that has looked a key up records.                        *)
LEMMA RecordedStep ==
  ASSUME StoreInv, HistoryInv, NEW ep \in Endpoints, NEW k \in Keys, NEW result,
         Recorded(ep, k, result), UNCHANGED edits
  PROVE  StoreInv' /\ HistoryInv' /\ consented \subseteq consented'
  <1>1. CASE Add(ep, k) /\ Noted(ep, k)
    <2>1. edits' \in 0 .. MaxEdits
          BY DEF StoreInv
    <2> QED BY <1>1, <2>1, AddStep DEF Agreeing
  <1>2. CASE NoteChanged(ep, k) /\ UNCHANGED history
    <2>1. StoreInv'
          BY <1>2, NoteStep
    <2> QED BY <1>2, <2>1 DEF HistoryInv, history
  <1>3. CASE UNCHANGED <<store, history>>
    <2>1. UNCHANGED store /\ consented' = consented /\ trusted' = trusted /\ revocations' = revocations
          BY <1>3 DEF history
    <2>2. edits' \in 0 .. MaxEdits
          BY DEF StoreInv
    <2> QED BY <2>1, <2>2, SameStore DEF HistoryInv
  <1> QED BY <1>1, <1>2, <1>3 DEF Recorded

(* A step that touches neither the store nor the history.                    *)
LEMMA Aside ==
  ASSUME TrustInv, UNCHANGED <<store, history>>, edits' \in 0 .. MaxEdits
  PROVE  StoreInv' /\ HistoryInv'
  <1>1. UNCHANGED store /\ consented' = consented /\ trusted' = trusted /\ revocations' = revocations
        BY DEF history
  <1>2. StoreInv'
        BY <1>1, SameStore DEF TrustInv
  <1> QED BY <1>1, <1>2 DEF TrustInv, HistoryInv

LEMMA SameList ==
  ASSUME ListInv, known' = known, saved' = saved, consented \subseteq consented'
  PROVE  ListInv'
  BY SoundGrows DEF ListInv

LEMMA Initially == Init => TrustInv
  <1> SUFFICES ASSUME Init PROVE TrustInv
      OBVIOUS
  <1>1. MaxEdits \in Nat
        BY TrustAssumption
  <1>2. Sound(<<>>, {}) /\ Agreed(<<>>, {})
        BY DEF Sound, Agreed
  <1>3. StoreInv
        BY <1>1, <1>2 DEF Init, StoreInv, Keeps
  <1>4. HistoryInv /\ ListInv
        BY <1>2 DEF Init, HistoryInv, ListInv
  <1>5. ScreenInv
        BY DEF Init, ScreenInv, Dialogs
  <1> QED BY <1>3, <1>4, <1>5 DEF TrustInv

LEMMA Invariance == TrustInv /\ [Next]_vars => TrustInv'
  <1> SUFFICES ASSUME TrustInv, [Next]_vars PROVE TrustInv'
      OBVIOUS
  <1> USE DEF TrustInv
  <1>0. /\ edits \in 0 .. MaxEdits /\ faults \in 0 .. MaxEdits /\ MaxEdits \in Nat
        /\ dialog \in Dialogs /\ probes \subseteq Probes
        BY TrustAssumption DEF StoreInv, ScreenInv
  <1>1. CASE Trust
    <2>1. dialog.ep \in Endpoints /\ dialog.key \in Keys
          BY <1>0, <1>1, DialogKinds DEF Trust, Sheets
    <2>2. StoreInv' /\ HistoryInv' /\ ListInv'
          BY <1>1, <2>1, AcceptStep DEF Trust, settings
    <2>3. ScreenInv'
          BY <1>0, <1>1, DialogKinds DEF Trust, ScreenInv, settings
    <2> QED BY <2>2, <2>3
  <1>2. CASE CloseDialog
    <2>1. StoreInv' /\ HistoryInv'
          BY <1>2, <1>0, Aside DEF CloseDialog
    <2>2. ListInv'
          BY <1>2, SameList DEF CloseDialog, settings, history
    <2>3. ScreenInv'
          BY <1>0, <1>2, DialogKinds DEF CloseDialog, ScreenInv, settings
    <2> QED BY <2>1, <2>2, <2>3
  <1>3. CASE StartProbe
    <2>1. StoreInv' /\ HistoryInv'
          BY <1>3, <1>0, Aside DEF StartProbe
    <2>2. ListInv'
          BY <1>3, SameList DEF StartProbe, settings, history
    <2>3. dialog \in Drafts
          BY <1>0, <1>3, DialogKinds DEF StartProbe
    <2>4. dialog' \in Drafts
          BY <1>3, <2>3 DEF StartProbe, Drafts
    <2>5. dialog.ep \in Endpoints
          BY <2>3 DEF Drafts
    <2>6. [ep |-> dialog.ep, key |-> NoKey, result |-> "dial"] \in Probes
          BY <2>5 DEF Probes
    <2>7. probes' \subseteq Probes
          BY <1>0, <1>3, <2>6 DEF StartProbe
    <2>8. ScreenInv'
          BY <1>0, <1>3, <2>4, <2>7, DialogKinds DEF StartProbe, ScreenInv, settings
    <2> QED BY <2>1, <2>2, <2>8
  <1>4. CASE SaveDraft
    <2>1. dialog.ep \in Endpoints /\ (dialog.pending # NoKey => dialog.pending \in Keys)
          BY <1>0, <1>4, DialogKinds DEF SaveDraft, Drafts
    <2>2. ScreenInv'
          BY <1>0, <1>4, DialogKinds DEF SaveDraft, ScreenInv, settings
    <2>3. CASE dialog.pending = NoKey
      <3>1. StoreInv' /\ HistoryInv'
            BY <1>4, <1>0, <2>3, Aside DEF SaveDraft
      <3>2. ListInv'
            BY <1>4, <2>3, SameList DEF SaveDraft, settings, history
      <3> QED BY <2>2, <3>1, <3>2
    <2>4. CASE dialog.pending # NoKey
      <3>1. StoreInv' /\ HistoryInv' /\ ListInv'
            BY <1>4, <2>1, <2>4, AcceptStep DEF SaveDraft, settings
      <3> QED BY <2>2, <3>1
    <2> QED BY <2>3, <2>4
  <1>5. ASSUME NEW ep \in Forms, OpenDraft(ep) \/ EditDraft(ep)
        PROVE  TrustInv'
    <2>0. ep \in Endpoints
          BY TrustAssumption
    <2>1. StoreInv' /\ HistoryInv'
          BY <1>5, <1>0, Aside DEF OpenDraft, EditDraft
    <2>2. ListInv'
          BY <1>5, SameList DEF OpenDraft, EditDraft, settings, history
    <2>3. dialog' \in Drafts
      <3>1. CASE OpenDraft(ep)
            BY <2>0, <3>1 DEF OpenDraft, Draft, Drafts
      <3>2. CASE EditDraft(ep)
        <4>1. dialog \in Drafts
              BY <1>0, <3>2, DialogKinds DEF EditDraft
        <4> QED BY <2>0, <3>2, <4>1 DEF EditDraft, Drafts
      <3> QED BY <1>5, <3>1, <3>2
    <2>4. ScreenInv'
          BY <1>0, <1>5, <2>3, DialogKinds DEF OpenDraft, EditDraft, ScreenInv, settings
    <2> QED BY <2>1, <2>2, <2>4
  <1>6. ASSUME NEW ep \in Endpoints, NEW k \in Keys, Connect(ep, k)
        PROVE  TrustInv'
    <2>1. StoreInv' /\ HistoryInv' /\ consented \subseteq consented'
          BY <1>6, RecordedStep DEF Connect
    <2>2. ListInv'
          BY <1>6, <2>1, SameList DEF Connect, settings
    <2>3. Sheet(ep, k) \in Sheets
          BY DEF Sheet, Sheets
    <2>4. dialog' \in Dialogs
          BY <1>0, <1>6, <2>3, DialogKinds DEF Connect
    <2>5. ScreenInv'
          BY <1>6, <2>4 DEF Connect, ScreenInv, settings
    <2> QED BY <2>1, <2>2, <2>5
  <1>7. ASSUME NEW i \in DOMAIN known, Review(i) \/ RemoveKnownHost(i)
        PROVE  TrustInv'
    <2>1. StoreInv' /\ HistoryInv' /\ ListInv'
          BY <1>7, ReviewStep, RemoveStep
    <2>2. ScreenInv'
          BY <1>7 DEF Review, RemoveKnownHost, ScreenInv, settings
    <2> QED BY <2>1, <2>2
  <1>8. CASE WipeCredentials
    <2>1. StoreInv' /\ HistoryInv'
          BY <1>8, <1>0, Aside DEF WipeCredentials
    <2>2. Agreed(<<>>, consented)
          BY DEF Agreed
    <2>3. ListInv'
          BY <1>8, <2>2 DEF WipeCredentials, ListInv, settings, history
    <2>4. ScreenInv'
          BY <1>8 DEF WipeCredentials, ScreenInv, settings
    <2> QED BY <2>1, <2>3, <2>4
  <1>9. CASE ToggleStrict
    <2>0. edits' \in 0 .. MaxEdits
          BY <1>0, <1>9 DEF ToggleStrict
    <2>1. StoreInv' /\ HistoryInv'
          BY <1>9, <2>0, Aside DEF ToggleStrict
    <2>2. ListInv'
          BY <1>9, SameList DEF ToggleStrict, history
    <2>3. ScreenInv'
          BY <1>9 DEF ToggleStrict, ScreenInv
    <2> QED BY <2>1, <2>2, <2>3
  <1>10. ASSUME NEW b \in Bundles, ImportConfig(b)
         PROVE  TrustInv'
    <2> DEFINE r == b.record
    <2>0. edits' \in 0 .. MaxEdits
          BY <1>0, <1>10 DEF ImportConfig
    <2>1. r \in Records /\ b.setting \in BOOLEAN
          BY TrustAssumption
    <2>2. r.ep.addr \in Addrs /\ r.fp \in Keys
          BY <2>1 DEF Records, Endpoints
    <2> HIDE DEF r
    <2>3. \/ known' = known /\ consented' = consented
          \/ known' = Append(known, r) /\ consented' = consented \cup {<<r.ep.addr, r.fp>>}
          BY <1>10 DEF ImportConfig, r
    <2>4. consented \subseteq consented' /\ consented' \in SUBSET (Addrs \X Keys)
          BY <2>2, <2>3 DEF HistoryInv
    <2>5. UNCHANGED <<store, strict, saved, dialog, probes, trusted, revocations>> /\ setting' = b.setting
          BY <1>10 DEF ImportConfig
    <2>6. StoreInv' /\ HistoryInv'
      <3>1. StoreInv'
            BY <2>0, <2>4, <2>5, SameStore
      <3> QED BY <2>4, <2>5, <3>1 DEF HistoryInv
    <2>7. ListInv'
      <3>1. Agreed(known, consented') /\ Agreed(saved.known, consented')
            BY <2>4, SoundGrows DEF ListInv
      <3>2. Agreed(known', consented')
        <4>1. CASE known' = known
              BY <3>1, <4>1
        <4>2. CASE known' = Append(known, r) /\ consented' = consented \cup {<<r.ep.addr, r.fp>>}
          <5>1. known \in Seq(Records) /\ <<r.ep.addr, r.fp>> \in consented'
                BY <3>1, <4>2 DEF Agreed
          <5>2. known' \in Seq(Records) /\ \A i \in DOMAIN known' :
                   (i \in DOMAIN known /\ known'[i] = known[i]) \/ known'[i] = r
                BY <2>1, <4>2, <5>1
          <5> QED BY <3>1, <5>1, <5>2 DEF Agreed
        <4> QED BY <2>3, <4>1, <4>2
      <3> QED BY <2>5, <3>1, <3>2 DEF ListInv
    <2>8. ScreenInv'
          BY <2>1, <2>5 DEF ScreenInv
    <2> QED BY <2>6, <2>7, <2>8
  <1>11. ASSUME NEW h \in Foreign \cup {Star}, NEW k \in Keys, NEW m \in Markers,
                ImportOpenSsh(Entry(h, k, m)) \/ AddMarker(Entry(h, k, m))
         PROVE  TrustInv'
    <2>0. h \in Patterns
          BY TrustAssumption DEF Patterns
    <2>1. edits' \in 0 .. MaxEdits
          BY <1>0, <1>11 DEF ImportOpenSsh, AddMarker
    <2>2. UNCHANGED <<known, settings, dialog, probes, trusted>>
          BY <1>11 DEF ImportOpenSsh, AddMarker
    <2>3. StoreInv' /\ HistoryInv' /\ consented \subseteq consented'
      <3>1. CASE UNCHANGED <<store, consented, revocations>>
        <4>1. UNCHANGED <<store, history>>
              BY <2>2, <3>1 DEF history
        <4> QED BY <2>1, <4>1, Aside DEF history
      <3>2. CASE Pushed(Entry(h, k, m)) /\ Imported(Entry(h, k, m))
            BY <2>0, <2>1, <2>2, <3>2, PushStep
      <3> QED BY <1>11, <3>1, <3>2 DEF ImportOpenSsh, AddMarker
    <2>4. ListInv'
          BY <2>2, <2>3, SameList DEF settings
    <2>5. ScreenInv'
          BY <2>2 DEF ScreenInv, settings
    <2> QED BY <2>3, <2>4, <2>5
  <1>12. ASSUME NEW p \in probes, ProbeRecord(p)
         PROVE  TrustInv'
    <2>1. p \in Probes /\ p.ep \in Endpoints /\ p.key \in Keys
          BY <1>0, <1>12, ProbeKinds DEF ProbeRecord
    <2>2. StoreInv' /\ HistoryInv' /\ consented \subseteq consented'
          BY <1>12, <2>1, RecordedStep DEF ProbeRecord
    <2>3. ListInv'
          BY <1>12, <2>2, SameList DEF ProbeRecord, settings
    <2>4. dialog' \in Dialogs
      <3>1. CASE dialog' = dialog
            BY <1>0, <3>1
      <3>2. CASE dialog.kind = "draft"
        <4>1. dialog \in Drafts
              BY <1>0, <3>2, DialogKinds
        <4>2. \/ dialog' = [dialog EXCEPT !.probe = "success", !.pending = p.key]
              \/ \E r \in {"success", "test"} : dialog' = [dialog EXCEPT !.probe = r]
              BY <1>12, <3>2 DEF ProbeRecord
        <4>3. dialog' \in Drafts
              BY <2>1, <4>1, <4>2 DEF Drafts
        <4> QED BY <1>0, <4>3, DialogKinds
      <3> QED BY <1>12, <3>1, <3>2 DEF ProbeRecord
    <2>5. ScreenInv'
          BY <1>0, <1>12, <2>4 DEF ProbeRecord, ScreenInv, settings
    <2> QED BY <2>2, <2>3, <2>5
  <1>13. ASSUME NEW p \in probes, Unreachable(p)
         PROVE  TrustInv'
    <2>1. StoreInv' /\ HistoryInv'
          BY <1>13, <1>0, Aside DEF Unreachable
    <2>2. ListInv'
          BY <1>13, SameList DEF Unreachable, settings, history
    <2>3. dialog' \in Dialogs
      <3>1. CASE dialog.kind = "draft"
        <4>1. dialog \in Drafts
              BY <1>0, <3>1, DialogKinds
        <4>2. dialog' \in Drafts
              BY <1>13, <3>1, <4>1 DEF Unreachable, Drafts
        <4> QED BY <1>0, <4>2, DialogKinds
      <3> QED BY <1>0, <1>13, <3>1 DEF Unreachable
    <2>4. ScreenInv'
          BY <1>0, <1>13, <2>3 DEF Unreachable, ScreenInv, settings
    <2> QED BY <2>1, <2>2, <2>4
  <1>14. ASSUME NEW p \in probes, NEW k \in Keys, ProbeCheck(p, k)
         PROVE  TrustInv'
    <2>1. StoreInv' /\ HistoryInv'
          BY <1>14, <1>0, Aside DEF ProbeCheck
    <2>2. ListInv'
          BY <1>14, SameList DEF ProbeCheck, settings, history
    <2> DEFINE q == [p EXCEPT !.key = k, !.result = Check(p.ep, k)]
    <2>3. Check(p.ep, k) \in {"trusted", "new", "changed", "revoked"}
          BY DEF Check
    <2>4. q \in Probes
          BY <1>0, <2>3 DEF Probes
    <2>5. probes' = (probes \ {p}) \cup {q}
          BY <1>14 DEF ProbeCheck
    <2> HIDE DEF q
    <2>6. probes' \subseteq Probes
          BY <1>0, <2>4, <2>5
    <2>7. ScreenInv'
          BY <1>14, <2>6 DEF ProbeCheck, ScreenInv, settings
    <2> QED BY <2>1, <2>2, <2>7
  <1>15. CASE Persist
    <2>1. StoreInv' /\ HistoryInv'
          BY <1>15, <1>0, Aside DEF Persist
    <2>2. saved'.known = known /\ saved'.setting = setting
          BY <1>15 DEF Persist
    <2>3. ListInv'
          BY <1>15, <2>2 DEF Persist, ListInv, history
    <2>4. saved' \in [known : Seq(Records), setting : BOOLEAN]
          BY <1>15 DEF Persist, ListInv, Agreed, ScreenInv
    <2>5. ScreenInv'
          BY <1>15, <2>4 DEF Persist, ScreenInv
    <2> QED BY <2>1, <2>3, <2>5
  <1>16. CASE Relaunch
    <2>1. StoreInv' /\ ListInv'
          BY <1>16, RelaunchStep
    <2>2. HistoryInv'
          BY <1>16 DEF Relaunch, history, HistoryInv
    <2>3. ScreenInv'
          BY <1>0, <1>16, DialogKinds DEF Relaunch, ScreenInv
    <2> QED BY <2>1, <2>2, <2>3
  <1>17. CASE UNCHANGED vars
    <2>1. UNCHANGED <<store, history>> /\ UNCHANGED <<known, saved, consented>> /\ edits' \in 0 .. MaxEdits
          BY <1>0, <1>17 DEF vars, store, history
    <2>2. StoreInv' /\ HistoryInv' /\ ListInv'
          BY <2>1, Aside, SameList
    <2>3. ScreenInv'
          BY <1>17 DEF vars, ScreenInv
    <2> QED BY <2>2, <2>3
  <1>18. \A h \in Foreign \cup {Star}, k \in Keys :
           /\ (AddRevoked(h, k) => TrustInv')
           /\ (AddCertAuthority(h, k) => TrustInv')
           /\ \A m \in Markers : ImportOpenSsh(Entry(h, k, m)) => TrustInv'
    <2>1. "revoked" \in Markers /\ "ca" \in Markers
          BY DEF Markers
    <2> QED BY <1>11, <2>1 DEF AddRevoked, AddCertAuthority
  <1> QED BY <1>1, <1>2, <1>3, <1>4, <1>5, <1>6, <1>7, <1>8, <1>9, <1>10, <1>12, <1>13,
             <1>14, <1>15, <1>16, <1>17, <1>18 DEF Next
-----------------------------------------------------------------------------
(* Theorems.                                                                *)

LEMMA Inductive == Spec => []TrustInv
  <1> QED BY Initially, Invariance, PTL DEF Spec

(* check_fingerprint accepts a key when no entry revokes it and a            *)
(* certificate authority or a normal entry for the endpoint has it.          *)
LEMMA WhenTrusted ==
  ASSUME NEW ep \in Endpoints, NEW k \in Keys
  PROVE  Check(ep, k) = "trusted" <=>
           ~Revoked(ep, k) /\ (Certified(ep, k) \/ \E i \in Matches(ep) : entries[i].fp = k)
  BY DEF Check

(* Every variable has its type, for any servers, keys and patterns.         *)
THEOREM TypeCorrect == Spec => []TypeOK
  <1>1. TrustInv => TypeOK
        BY DEF TrustInv, StoreInv, HistoryInv, ListInv, ScreenInv, Sound, Agreed, TypeOK
  <1> QED BY <1>1, Inductive, PTL

(* No key is accepted for an address unless the user has agreed to it, for   *)
(* any servers, imports, markers and launches.                              *)
THEOREM OnlyConsented == Spec => []AcceptsOnlyConsented
  <1>1. TrustInv => AcceptsOnlyConsented
    <2> SUFFICES ASSUME TrustInv, NEW ep \in Endpoints, NEW k \in Accepted(ep)
                 PROVE  <<ep.addr, k>> \in consented
        BY DEF AcceptsOnlyConsented
    <2>1. k \in Keys /\ k # NoKey /\ Check(ep, k) = "trusted"
          BY TrustAssumption DEF Accepted
    <2>2. PICK i \in DOMAIN entries :
            Covers(entries[i].host, ep) /\ entries[i].marker # "revoked"
            /\ (entries[i].fp = k \/ (entries[i].marker # "normal" /\ entries[i].pending = k))
          BY <2>1, WhenTrusted DEF Certified, Matches
    <2>3. SoundEntry(entries[i], consented)
          BY DEF TrustInv, StoreInv, Sound
    <2>4. entries[i].fp = k
          BY <2>1, <2>2, <2>3 DEF SoundEntry
    <2> QED BY <2>1, <2>2, <2>3, <2>4 DEF SoundEntry
  <1> QED BY <1>1, Inductive, PTL

(* A revoked key stays refused, whatever is accepted, reviewed, deleted,     *)
(* imported or merged, as long as saves succeed.                            *)
THEOREM RevocationLasts == Spec => []RevokedRefused
  <1>1. TrustInv => RevokedRefused
    <2> SUFFICES ASSUME TrustInv, faults = 0, NEW r \in revocations, NEW ep \in Endpoints,
                        r[1] = Star \/ Covers(r[1], ep)
                 PROVE  Check(ep, r[2]) = "revoked"
        BY DEF RevokedRefused
    <2>1. Has(entries, "revoked", r)
          BY DEF TrustInv, StoreInv, Keeps
    <2>2. Revoked(ep, r[2])
          BY <2>1 DEF Has, Revoked
    <2> QED BY <2>2 DEF Check
  <1> QED BY <1>1, Inductive, PTL

(* The key accepted last for an endpoint stays accepted until it is          *)
(* reviewed, deleted or revoked, as long as saves succeed.                  *)
THEOREM AcceptedLasts == Spec => []TrustLasts
  <1>1. TrustInv => TrustLasts
    <2> SUFFICES ASSUME TrustInv, faults = 0, NEW t \in trusted
                 PROVE  Check(t[1], t[2]) \in {"trusted", "revoked"}
        BY DEF TrustLasts
    <2>1. Has(entries, "normal", t) /\ t[1] \in Endpoints
          BY DEF TrustInv, StoreInv, HistoryInv, Keeps
    <2>2. \E i \in Matches(t[1]) : entries[i].fp = t[2]
          BY <2>1, CoversAddr DEF Has, Matches
    <2> QED BY <2>2 DEF Check
  <1> QED BY <1>1, Inductive, PTL

(* A changed key that waits for a review changes no verdict of the lookup:   *)
(* each entry still has its pattern, its key and its marker, or is a normal  *)
(* one without a key.                                                        *)
LEMMA NoteKeepsVerdicts ==
  ASSUME TrustInv, NEW e \in Endpoints, NEW c \in Keys, NoteChanged(e, c),
         NEW ep \in Endpoints
  PROVE  Accepted(ep)' = Accepted(ep)
  <1> DEFINE m == Min(Matches(e))
  <1>0. entries \in Seq(Entries) /\ NoKey \notin Keys
        BY TrustAssumption DEF TrustInv, StoreInv, Sound
  <1> DEFINE Like(j) == /\ j \in DOMAIN entries
                        /\ entries'[j].host = entries[j].host
                        /\ entries'[j].fp = entries[j].fp
                        /\ entries'[j].marker = entries[j].marker
                        /\ entries[j].marker = "normal" \/ entries'[j].pending = entries[j].pending
             Keyless(j) == entries'[j].marker = "normal" /\ entries'[j].fp = NoKey
  <1>1. /\ \A j \in DOMAIN entries : j \in DOMAIN entries' /\ Like(j)
        /\ \A j \in DOMAIN entries' : Like(j) \/ Keyless(j)
    <2>1. CASE Matches(e) = {}
      <3> DEFINE x == [Entry(e, NoKey, "normal") EXCEPT !.pending = c]
      <3>1. entries' = Append(entries, x)
            BY <2>1 DEF NoteChanged, Pushed, Save
      <3>2. x.marker = "normal" /\ x.fp = NoKey
            BY DEF Entry
      <3> HIDE DEF x
      <3>3. /\ \A j \in DOMAIN entries : j \in DOMAIN entries' /\ entries'[j] = entries[j]
            /\ \A j \in DOMAIN entries' : j \in DOMAIN entries \/ entries'[j] = x
            BY <1>0, <3>1
      <3> QED BY <3>2, <3>3
    <2>2. CASE Matches(e) # {}
      <3> DEFINE x == [entries[m] EXCEPT !.pending = c]
      <3>1. entries' = [entries EXCEPT ![m] = x]
            BY <2>2 DEF NoteChanged, Save
      <3>2. m \in Matches(e)
        <4>1. Matches(e) \in SUBSET (1 .. Len(entries)) /\ Len(entries) \in Nat
              BY <1>0 DEF Matches
        <4> QED BY <2>2, <4>1, MinIn
      <3> HIDE DEF m
      <3>3. m \in DOMAIN entries /\ entries[m] \in Entries /\ entries[m].marker = "normal"
            BY <1>0, <3>2 DEF Matches
      <3>4. x.host = entries[m].host /\ x.fp = entries[m].fp /\ x.marker = entries[m].marker
            BY <3>3 DEF Entries
      <3> HIDE DEF x
      <3>5. DOMAIN entries' = DOMAIN entries /\ entries'[m] = x
            /\ \A j \in DOMAIN entries : j # m => entries'[j] = entries[j]
            BY <1>0, <3>1, <3>3
      <3> QED BY <3>3, <3>4, <3>5
    <2> QED BY <2>1, <2>2
  <1>2. \A j \in DOMAIN entries' : Like(j) \/ Keyless(j)
        BY <1>1
  <1>3. \A j \in DOMAIN entries : j \in DOMAIN entries' /\ Like(j)
        BY <1>1
  <1>4. \A k \in Keys : Revoked(ep, k)' <=> Revoked(ep, k)
        BY <1>0, <1>2, <1>3 DEF Revoked
  <1>5. \A k \in Keys : Certified(ep, k)' <=> Certified(ep, k)
        BY <1>0, <1>2, <1>3 DEF Certified
  <1>6. \A k \in Keys : (\E i \in Matches(ep) : entries[i].fp = k)' <=> \E i \in Matches(ep) : entries[i].fp = k
        BY <1>0, <1>2, <1>3 DEF Matches
  <1>7. \A k \in Keys : (Check(ep, k) = "trusted")' <=>
          (~Revoked(ep, k) /\ (Certified(ep, k) \/ \E i \in Matches(ep) : entries[i].fp = k))'
        BY DEF Check
  <1>8. \A k \in Keys : (Check(ep, k) = "trusted")' <=> Check(ep, k) = "trusted"
        BY <1>4, <1>5, <1>6, <1>7, WhenTrusted
  <1> QED BY <1>8 DEF Accepted

(* A handshake that ends with a changed, revoked or trusted key leaves what  *)
(* is accepted as it was, for every endpoint.                               *)
THEOREM RefusalIsInert == Spec => RefusalChangesNoTrust
  <1> DEFINE A == (\E p \in probes \ probes' : p.result # "new" /\ ProbeRecord(p)) =>
                    \A ep \in Endpoints : Accepted(ep)' = Accepted(ep)
  <1>1. TrustInv /\ [Next]_vars => [A]_vars
    <2> SUFFICES ASSUME TrustInv, NEW p \in probes \ probes', p.result # "new", ProbeRecord(p),
                        NEW ep \in Endpoints
                 PROVE  Accepted(ep)' = Accepted(ep)
        OBVIOUS
    <2>1. p.ep \in Endpoints /\ p.key \in Keys
          BY ProbeKinds DEF ProbeRecord, TrustInv, ScreenInv
    <2>2. CASE NoteChanged(p.ep, p.key)
          BY <2>1, <2>2, NoteKeepsVerdicts
    <2>3. CASE UNCHANGED <<store, history>>
      <3>1. entries' = entries
            BY <2>3 DEF store
      <3> QED BY <3>1 DEF Accepted, Check, Revoked, Certified, Matches
    <2> QED BY <2>2, <2>3 DEF ProbeRecord, Recorded
  <1>2. RefusalChangesNoTrust <=> [][A]_vars
        BY DEF RefusalChangesNoTrust
  <1> QED BY <1>1, <1>2, Inductive, PTL DEF Spec
=============================================================================
