---------------------------- MODULE ServiceProofs ----------------------------
(***************************************************************************)
(* Theorems of the services that workers and windows share: the pool of    *)
(* connections, the bandwidth limiter, the media server, the NFS backend    *)
(* and the vault of secrets.  They have no state in common: the callers of  *)
(* the NFS backend and the blocks of its files, and the hosts that the      *)
(* media server serves, have names of their own here.                       *)
(***************************************************************************)
EXTENDS ConnectionPool, FiniteSetTheorems, TLAPS

CONSTANTS Workers, Second, Chunks
VARIABLES now, tokens, lastFill, need, until, passed, used, drawn, slept

L == INSTANCE RateLimiter

CONSTANTS W, Word, Checked, Chunk, Served, Sizes, Offsets
VARIABLES hosts, registry, len, phase, header, size, status, first, pos, rem, whole

M == INSTANCE MediaServer WITH Hosts <- Served

CONSTANTS Callers, Paths, Root, MaxSize
VARIABLES slot, mounts, blocks, caller

N == INSTANCE NfsMount WITH Tasks <- Callers, task <- caller, size <- blocks

CONSTANTS Threads, Cached, Uncached, Values, None
VARIABLES kind, data, disk, cut, cache, call, promised, calm

V == INSTANCE SecretVault
-----------------------------------------------------------------------------
(* The pool of connections (ConnectionPool).                                *)

(* While a task makes a backend, it is still asking and the pool has no     *)
(* entry of its host (get).                                                 *)
Making ==
  lock.by \in Tasks => task[lock.by].pc = "want" /\ EntryOf(task[lock.by].host) = {}

PoolInv == PoolSound /\ Making

(* A sequence without its elements i to j, and those elements.              *)
LEMMA CutOut ==
  ASSUME NEW S, NEW s \in Seq(S), NEW i \in 1 .. Len(s) + 1, NEW j \in i - 1 .. Len(s)
  PROVE  LET r == SubSeq(s, 1, i - 1) \o SubSeq(s, j + 1, Len(s))
             c == SubSeq(s, i, j)
             n == j - i + 1
         IN  /\ r \in Seq(S) /\ Len(r) = Len(s) - n
             /\ \A k \in 1 .. Len(s) - n : r[k] = s[IF k < i THEN k ELSE k + n]
             /\ c \in Seq(S) /\ Len(c) = n
             /\ \A k \in 1 .. n : c[k] = s[k + i - 1]
<1> DEFINE a == SubSeq(s, 1, i - 1)
           b == SubSeq(s, j + 1, Len(s))
           r == a \o b
           n == j - i + 1
<1>1. n \in Nat /\ i - 1 \in Nat /\ Len(s) - j \in Nat /\ Len(s) \in Nat
  OBVIOUS
<1>2. a \in Seq(S) /\ Len(a) = i - 1 /\ \A k \in 1 .. i - 1 : a[k] = s[k]
  OBVIOUS
<1>3. b \in Seq(S) /\ Len(b) = Len(s) - j /\ \A k \in 1 .. Len(s) - j : b[k] = s[k + j]
  OBVIOUS
<1>4. /\ SubSeq(s, i, j) \in Seq(S) /\ Len(SubSeq(s, i, j)) = n
      /\ \A k \in 1 .. n : SubSeq(s, i, j)[k] = s[k + i - 1]
  OBVIOUS
<1>7. r = a \o b
  OBVIOUS
<1> HIDE DEF a, b, r
<1>5. r \in Seq(S) /\ Len(r) = Len(s) - n
  <2>1. a \in Seq(S) /\ b \in Seq(S)
    BY <1>2, <1>3
  <2>2. r \in Seq(S) /\ Len(r) = Len(a) + Len(b)
    BY <1>7, <2>1
  <2>. QED BY <1>1, <1>2, <1>3, <2>2
<1>6. ASSUME NEW k \in 1 .. Len(s) - n PROVE r[k] = s[IF k < i THEN k ELSE k + n]
  <2>1. CASE k < i
    BY <1>1, <1>2, <1>3, <1>7, <2>1
  <2>2. CASE k >= i
    <3>1. k - (i - 1) \in 1 .. Len(s) - j /\ (k - (i - 1)) + j = k + n
      BY <1>1, <2>2
    <3>2. r[k] = b[k - (i - 1)]
      BY <1>1, <1>2, <1>3, <1>7, <2>2
    <3>3. b[k - (i - 1)] = s[k + n]
      BY <1>3, <3>1
    <3>. QED BY <2>2, <3>2, <3>3
  <2>. QED BY <2>1, <2>2
<1>. QED BY <1>4, <1>5, <1>6 DEF a, b, r

(* No two entries share a host or a backend.                                *)
Apart(p) ==
  \A i, j \in DOMAIN p : i # j => p[i].host # p[j].host /\ p[i].backend # p[j].backend

(* The pool is left without the entries i to j, which `by` has to close.    *)
Parted(i, j, by) ==
  /\ pool' \in Seq(Entries) /\ Len(pool') = Len(pool) - (j - i + 1)
  /\ idle' \in 0 .. Len(pool')
  /\ lock' = [by |-> by, closing |-> lock'.closing] /\ lock'.closing \in Seq(Entries)
  /\ Apart(pool') /\ (Pooled \cap Closing)' = {}
  /\ \A k \in DOMAIN pool' : \E m \in DOMAIN pool : m \notin i .. j /\ pool'[k] = pool[m]

(* Evict splits the entries between the pool and those to close.            *)
LEMMA Evicted ==
  ASSUME TypeOK, Apart(pool), NEW by, NEW i \in 1 .. Len(pool) + 1, NEW j \in i - 1 .. Len(pool),
         Evict(i, j, by)
  PROVE  Parted(i, j, by)
<1> DEFINE n == j - i + 1
           at(k) == IF k < i THEN k ELSE k + n
<1>1. pool \in Seq(Entries) /\ idle \in 0 .. Len(pool) /\ Len(pool) \in Nat
  BY DEF TypeOK
<1>2. /\ pool' \in Seq(Entries) /\ Len(pool') = Len(pool) - n
      /\ \A k \in 1 .. Len(pool) - n : pool'[k] = pool[at(k)]
  BY <1>1, CutOut DEF Evict
<1>3. /\ lock' = [by |-> by, closing |-> lock'.closing]
      /\ lock'.closing \in Seq(Entries) /\ Len(lock'.closing) = n
      /\ \A k \in 1 .. n : lock'.closing[k] = pool[k + i - 1]
  <2>1. lock' = [by |-> by, closing |-> lock'.closing] /\ lock'.closing = SubSeq(pool, i, j)
    BY DEF Evict
  <2>. QED BY <1>1, <2>1, CutOut
<1>4. n \in Nat /\ i \in Nat /\ j \in Int
  BY <1>1
<1>5. idle' \in 0 .. Len(pool')
  <2>1. idle' = IF idle < i THEN idle ELSE IF idle <= j THEN i - 1 ELSE idle - (j - i + 1)
    BY DEF Evict
  <2>2. j <= Len(pool) /\ j >= i - 1 /\ i >= 1
    BY <1>1
  <2>3. Len(pool') = Len(pool) - (j - i + 1)
    BY <1>2
  <2> HIDE DEF n
  <2>. QED BY <1>1, <1>4, <2>1, <2>2, <2>3
<1>6. \A k \in 1 .. Len(pool) - n : at(k) \in DOMAIN pool /\ at(k) \notin i .. j
  BY <1>1, <1>4
<1>7. \A k, m \in 1 .. Len(pool) - n : at(k) = at(m) => k = m
  BY <1>1, <1>4
<1>8. \A k \in 1 .. n : k + i - 1 \in DOMAIN pool /\ k + i - 1 \in i .. j
  BY <1>1, <1>4
<1>9. DOMAIN pool' = 1 .. Len(pool) - n /\ DOMAIN lock'.closing = 1 .. n
  BY <1>2, <1>3
<1> HIDE DEF at, n
<1>10. Apart(pool')
  BY <1>2, <1>6, <1>7, <1>9 DEF Apart
<1>11. ASSUME NEW k \in DOMAIN pool', NEW m \in DOMAIN lock'.closing
       PROVE  pool'[k].backend # lock'.closing[m].backend
  <2>1. k \in 1 .. Len(pool) - n /\ m \in 1 .. n
    BY <1>9
  <2>2. pool'[k] = pool[at(k)] /\ at(k) \in DOMAIN pool /\ at(k) \notin i .. j
    BY <1>2, <1>6, <2>1
  <2>3. lock'.closing[m] = pool[m + i - 1] /\ m + i - 1 \in DOMAIN pool /\ m + i - 1 \in i .. j
    BY <1>3, <1>8, <2>1
  <2>. QED BY <2>2, <2>3 DEF Apart
<1>12. (Pooled \cap Closing)' = {}
  BY <1>11 DEF Pooled, Closing
<1>. QED BY <1>2, <1>3, <1>5, <1>6, <1>9, <1>10, <1>12 DEF n, Parted

(* There is a number for a new backend: the pool has room for one entry     *)
(* and every task uses one backend at most (get, factory).                  *)
LEMMA FreshBackend ==
  ASSUME TypeOK, Len(pool) + 1 <= MaxSessions
  PROVE  (CHOOSE b \in Backends \ (Pooled \cup Using) : TRUE) \in Backends \ (Pooled \cup Using)
<1> DEFINE using == {u \in Tasks : task[u].pc \notin {"idle", "want"}}
<1>1. Len(pool) \in Nat /\ DOMAIN pool = 1 .. Len(pool)
  BY DEF TypeOK
<1>2. IsFiniteSet(Pooled) /\ Cardinality(Pooled) <= Len(pool)
  <2>1. IsFiniteSet(1 .. Len(pool)) /\ Cardinality(1 .. Len(pool)) = Len(pool)
    <3>1. \A n \in Nat : IsFiniteSet(1 .. n) /\ Cardinality(1 .. n) = n
      BY FS_Interval
    <3>. QED BY <1>1, <3>1
  <2>2. [i \in 1 .. Len(pool) |-> pool[i].backend] \in Surjection(1 .. Len(pool), Pooled)
    BY <1>1 DEF Surjection, Pooled
  <2>. QED BY <2>1, <2>2, FS_Surjection
<1>3. IsFiniteSet(Using) /\ Cardinality(Using) <= Cardinality(Tasks)
  <2>1. IsFiniteSet(using) /\ Cardinality(using) <= Cardinality(Tasks)
    BY PoolAssumption, FS_Subset
  <2>2. [t \in using |-> task[t].backend] \in Surjection(using, Using)
    BY DEF Surjection, Using
  <2>3. IsFiniteSet(Using) /\ Cardinality(Using) <= Cardinality(using)
    BY <2>1, <2>2, FS_Surjection
  <2>4. Cardinality(Using) \in Nat /\ Cardinality(using) \in Nat /\ Cardinality(Tasks) \in Nat
    BY <2>1, <2>3, PoolAssumption, FS_CardinalityType
  <2>. QED BY <2>1, <2>3, <2>4
<1>4. /\ IsFiniteSet(Pooled \cup Using)
      /\ Cardinality(Pooled \cup Using) <= Cardinality(Pooled) + Cardinality(Using)
  <2>1. /\ IsFiniteSet(Pooled \cup Using)
        /\ Cardinality(Pooled \cup Using)
             = Cardinality(Pooled) + Cardinality(Using) - Cardinality(Pooled \cap Using)
    BY <1>2, <1>3, FS_Union
  <2>2. IsFiniteSet(Pooled \cap Using)
    BY <1>2, FS_Subset
  <2>3. /\ Cardinality(Pooled \cap Using) \in Nat /\ Cardinality(Pooled) \in Nat
        /\ Cardinality(Using) \in Nat
    BY <1>2, <1>3, <2>2, FS_CardinalityType
  <2>. QED BY <2>1, <2>3
<1>5. /\ Cardinality(Tasks) \in Nat /\ Cardinality(Pooled) \in Nat
      /\ Cardinality(Using) \in Nat /\ Cardinality(Pooled \cup Using) \in Nat
  BY <1>2, <1>3, <1>4, PoolAssumption, FS_CardinalityType
<1>6. Cardinality(Backends) = MaxSessions + Cardinality(Tasks) + 1
  BY <1>5, PoolAssumption, FS_Interval DEF Backends
<1>7. ~ (Backends \subseteq Pooled \cup Using)
  <2> SUFFICES ASSUME Backends \subseteq Pooled \cup Using PROVE FALSE
    OBVIOUS
  <2>1. Cardinality(Backends) <= Cardinality(Pooled \cup Using)
    BY <1>4, FS_Subset
  <2>. QED BY <1>1, <1>2, <1>3, <1>4, <1>5, <1>6, <2>1, PoolAssumption
<1>. QED BY <1>7

(* What a task is.                                                          *)
TaskRecords == [pc: {"idle", "want", "got", "connect", "ready", "op", "stream"},
                host: Hosts, config: Configs, backend: Backends \cup {0}]

(* A task that is through is typed.                                         *)
LEMMA UnusedTyped == Unused \in TaskRecords
<1>1. 0 \in Configs
  BY PoolAssumption DEF Configs
<1>2. (CHOOSE h \in Hosts : TRUE) \in Hosts
  BY PoolAssumption
<1>. QED BY <1>1, <1>2 DEF Unused, TaskRecords

(* What a task does with its backend leaves the pool, its lock and who is   *)
(* asking alone.                                                            *)
PoolKept ==
  /\ UNCHANGED <<config, pool, idle, lock>>
  /\ session' \in [Backends -> {"none", "live", "dead"}]
  /\ drops' \in 0 .. MaxDrops
  /\ task' \in [Tasks -> TaskRecords]
  /\ \A t \in Tasks : task[t].pc = "want" => task'[t] = task[t]

(* Such a step keeps the invariant.                                         *)
LEMMA KeptInv == ASSUME PoolInv, PoolKept PROVE PoolInv'
<1>1. TypeOK'
  BY DEF PoolInv, PoolSound, TypeOK, PoolKept, TaskRecords
<1>2. PoolSound'
  <2>1. UNCHANGED <<pool, lock>> /\ PoolSound
    BY DEF PoolInv, PoolKept
  <2>2. Pooled' = Pooled /\ Closing' = Closing
    BY <2>1 DEF Pooled, Closing
  <2>. QED BY <1>1, <2>1, <2>2 DEF PoolSound
<1>3. Making'
  BY DEF PoolInv, Making, PoolKept, EntryOf
<1>. QED BY <1>2, <1>3 DEF PoolInv

(* What a task does once it has a backend (establish, lock_session).        *)
LEMMA TaskStep == ASSUME PoolInv, NEW t \in Tasks, Step(t) PROVE PoolKept
<1>1. /\ task \in [Tasks -> TaskRecords] /\ session \in [Backends -> {"none", "live", "dead"}]
      /\ drops \in 0 .. MaxDrops
  BY DEF PoolInv, PoolSound, TypeOK, TaskRecords
<1>2. task[t] \in TaskRecords /\ task[t].pc # "want"
  BY <1>1 DEF Step, Establish, Connected, ConnectFails, Locked, OpSucceeds, OpFails, StreamFails, StreamEnds
<1>3. ASSUME NEW pc \in {"got", "connect", "ready", "op", "stream"}, Go(t, pc)
      PROVE  /\ task' \in [Tasks -> TaskRecords]
             /\ \A u \in Tasks : task[u].pc = "want" => task'[u] = task[u]
  BY <1>1, <1>2, <1>3 DEF Go, TaskRecords
<1>4. ASSUME Leave(t), Settle(t) PROVE PoolKept
  <2>1. /\ task' \in [Tasks -> TaskRecords]
        /\ \A u \in Tasks : task[u].pc = "want" => task'[u] = task[u]
    BY <1>1, <1>2, <1>4, UnusedTyped DEF Leave
  <2>2. session' \in [Backends -> {"none", "live", "dead"}]
    BY <1>1, <1>4 DEF Settle
  <2>. QED BY <1>1, <1>4, <2>1, <2>2 DEF PoolKept, Leave
<1>5. CASE Establish(t)
  BY <1>1, <1>3, <1>5 DEF Establish, PoolKept
<1>6. CASE Connected(t)
  BY <1>1, <1>3, <1>6 DEF Connected, PoolKept
<1>7. CASE Locked(t)
  BY <1>1, <1>3, <1>4, <1>7 DEF Locked, PoolKept
<1>8. CASE OpSucceeds(t)
  BY <1>1, <1>3, <1>4, <1>8 DEF OpSucceeds, PoolKept
<1>9. CASE StreamEnds(t)
  BY <1>1, <1>3, <1>9 DEF StreamEnds, PoolKept
<1>10. CASE ConnectFails(t) \/ OpFails(t) \/ StreamFails(t)
  BY <1>4, <1>10 DEF ConnectFails, OpFails, StreamFails
<1>. QED BY <1>5, <1>6, <1>7, <1>8, <1>9, <1>10 DEF Step

(* The parts of the invariant as the steps below need them.                 *)
LEMMA Parts ==
  ASSUME PoolInv
  PROVE  /\ TypeOK /\ Apart(pool) /\ Making /\ Pooled \cap Closing = {}
         /\ Len(pool) \in Nat /\ DOMAIN pool = 1 .. Len(pool) /\ MaxSessions \in Nat \ {0}
         /\ lock.by \in Tasks => Len(pool) + 1 <= MaxSessions
         /\ Len(pool) <= MaxSessions
         /\ task \in [Tasks -> TaskRecords] /\ pool \in Seq(Entries)
         /\ "nobody" \notin Tasks /\ "user" \notin Tasks /\ "reaper" \notin Tasks
<1>1. TypeOK /\ Apart(pool) /\ Making /\ Pooled \cap Closing = {}
  BY DEF PoolInv, PoolSound, Apart
<1>2. pool \in Seq(Entries) /\ task \in [Tasks -> TaskRecords]
  BY <1>1 DEF TypeOK, TaskRecords
<1>. QED BY <1>1, <1>2, PoolAssumption DEF PoolInv, PoolSound

(* An eviction for `by`, who may be the user or the reaper.                 *)
LEMMA EvictStep ==
  ASSUME PoolInv, lock.by = "nobody", UNCHANGED <<config, session, task, drops>>,
         NEW by \in Tasks \cup {"user", "reaper"},
         NEW i \in 1 .. Len(pool) + 1, NEW j \in i - 1 .. Len(pool), Evict(i, j, by),
         by \in Tasks =>
           /\ task[by].pc = "want"
           /\ \A m \in DOMAIN pool \ (i .. j) : pool[m].host # task[by].host
           /\ j >= i \/ Len(pool) < MaxSessions
  PROVE  PoolInv'
<1>1. Parted(i, j, by)
  BY Parts, Evicted
<1> USE DEF Parted
<1>2. TypeOK'
  <2>1. by # "nobody"
    BY Parts
  <2>2. /\ lock'.by = by /\ lock'.closing \in Seq(Entries)
        /\ lock' \in [by : Tasks \cup {"nobody", "user", "reaper"}, closing : Seq(Entries)]
    BY <1>1
  <2>. QED BY <1>1, <2>1, <2>2, Parts DEF TypeOK
<1>3. Len(pool') + (IF lock'.by \in Tasks THEN 1 ELSE 0) <= MaxSessions
  <2>1. Len(pool') <= Len(pool) /\ (j >= i => Len(pool') + 1 <= Len(pool)) /\ Len(pool') \in Nat
    BY <1>1, Parts
  <2>2. Len(pool) <= MaxSessions /\ Len(pool) \in Nat /\ MaxSessions \in Nat
        /\ "user" \notin Tasks /\ "reaper" \notin Tasks
    BY Parts
  <2>3. CASE by \in Tasks
    BY <1>1, <2>1, <2>2, <2>3
  <2>4. CASE by \notin Tasks
    BY <1>1, <2>1, <2>2, <2>4
  <2>. QED BY <2>3, <2>4
<1>4. Making'
  BY <1>1 DEF Making, EntryOf
<1>. QED BY <1>1, <1>2, <1>3, <1>4 DEF PoolInv, PoolSound, Apart

(* get without an entry that serves.                                        *)
LEMMA GetMissStep == ASSUME PoolInv, NEW t \in Tasks, GetMiss(t) PROVE PoolInv'
<1>1. CASE EntryOf(task[t].host) # {}
  <2>1. PICK i \in EntryOf(task[t].host) : Evict(i, i, t)
    BY <1>1 DEF GetMiss
  <2>2. i \in DOMAIN pool /\ pool[i].host = task[t].host
    BY DEF EntryOf
  <2>3. \A m \in DOMAIN pool \ (i .. i) : pool[m].host # task[t].host
    BY <2>2, Parts DEF Apart
  <2>4. i \in 1 .. Len(pool) + 1 /\ i \in i - 1 .. Len(pool)
    BY <2>2, Parts
  <2>. QED BY <2>1, <2>3, <2>4, EvictStep DEF GetMiss
<1>2. CASE EntryOf(task[t].host) = {}
  <2> DEFINE j == IF Overfull(Len(pool)) THEN 1 ELSE 0
  <2>1. Evict(1, j, t)
    BY <1>2 DEF GetMiss
  <2>2. j \in 1 - 1 .. Len(pool) /\ 1 \in 1 .. Len(pool) + 1 /\ (j >= 1 \/ Len(pool) < MaxSessions)
    BY Parts DEF Overfull
  <2>3. \A m \in DOMAIN pool \ (1 .. j) : pool[m].host # task[t].host
    BY <1>2 DEF EntryOf
  <2> HIDE DEF j
  <2>. QED BY <2>1, <2>2, <2>3, EvictStep DEF GetMiss
<1>. QED BY <1>1, <1>2

(* prune_idle and drop_host.                                                *)
LEMMA DropStep ==
  ASSUME PoolInv, PruneIdle \/ \E h \in Hosts : DropHost(h) PROVE PoolInv'
<1>1. CASE PruneIdle
  <2>1. Expired \in 1 - 1 .. Len(pool) /\ 1 \in 1 .. Len(pool) + 1
    BY Parts DEF Expired, TypeOK
  <2>. QED BY <1>1, <2>1, Parts, EvictStep DEF PruneIdle
<1>2. CASE \E h \in Hosts : DropHost(h)
  <2>1. PICK h \in Hosts : DropHost(h)
    BY <1>2
  <2>2. PICK i \in EntryOf(h) : Evict(i, i, "user")
    BY <2>1 DEF DropHost
  <2>3. i \in 1 .. Len(pool) + 1 /\ i \in i - 1 .. Len(pool)
    BY Parts DEF EntryOf
  <2>. QED BY <2>1, <2>2, <2>3, Parts, EvictStep DEF DropHost
<1>. QED BY <1>1, <1>2

(* A task that is handed a backend.                                          *)
LEMMA HasTyped ==
  ASSUME task \in [Tasks -> TaskRecords], NEW t \in Tasks, NEW b \in Backends, Has(t, b)
  PROVE  /\ task' \in [Tasks -> TaskRecords] /\ task'[t].backend = b
         /\ \A u \in Tasks \ {t} : task'[u] = task[u]
<1> DEFINE e == [task[t] EXCEPT !.pc = "got", !.backend = b]
<1>1. e \in TaskRecords /\ e.backend = b
  <2>1. task[t] \in TaskRecords
    OBVIOUS
  <2>2. [task[t] EXCEPT !.pc = "got"] \in TaskRecords
    BY <2>1 DEF TaskRecords
  <2>3. \A x \in TaskRecords : [x EXCEPT !.backend = b] \in TaskRecords
                             /\ [x EXCEPT !.backend = b].backend = b
    BY DEF TaskRecords
  <2>4. e = [[task[t] EXCEPT !.pc = "got"] EXCEPT !.backend = b]
    OBVIOUS
  <2> HIDE DEF e
  <2>. QED BY <2>2, <2>3, <2>4
<1>2. task' = [task EXCEPT ![t] = e]
  BY DEF Has
<1> HIDE DEF e
<1>. QED BY <1>1, <1>2

(* The backend that t gets was made with the settings of t.                 *)
OwnFor(t) ==
  \E i \in DOMAIN pool' :
    pool'[i] = [host |-> task[t].host, config |-> task[t].config, backend |-> task'[t].backend]

Owns == \A t \in Tasks : task[t].pc = "want" /\ task'[t].pc = "got" => OwnFor(t)

(* get with an entry that serves: it becomes the most recently used one.    *)
LEMMA GetCachedStep ==
  ASSUME PoolInv, NEW t \in Tasks, GetCached(t)
  PROVE  /\ PoolInv'
         /\ OwnFor(t)
<1>1. PICK i \in Hit(t) : /\ pool' = Append(RemoveAt(pool, i), pool[i])
                          /\ idle' = IF i <= idle THEN idle - 1 ELSE idle
                          /\ Has(t, pool[i].backend)
  BY DEF GetCached
<1>2. /\ i \in DOMAIN pool /\ pool[i].host = task[t].host /\ pool[i].config = task[t].config
  BY DEF Hit, EntryOf
<1> DEFINE r == RemoveAt(pool, i)
           n == Len(pool)
           at(k) == IF k < i THEN k ELSE IF k < n THEN k + 1 ELSE i
<1>3. i \in 1 .. n /\ n \in Nat /\ pool[i] \in Entries
  BY <1>2, Parts
<1>4. /\ r \in Seq(Entries) /\ Len(r) = n - 1
      /\ \A k \in 1 .. n - 1 : r[k] = pool[IF k < i THEN k ELSE k + 1]
  <2>1. pool \in Seq(Entries) /\ i \in 1 .. Len(pool) + 1 /\ i \in i - 1 .. Len(pool) /\ i - i + 1 = 1
    BY <1>3, Parts
  <2>2. /\ r \in Seq(Entries) /\ Len(r) = Len(pool) - (i - i + 1)
        /\ \A k \in 1 .. Len(pool) - (i - i + 1) : r[k] = pool[IF k < i THEN k ELSE k + (i - i + 1)]
    BY <2>1, CutOut DEF RemoveAt
  <2> HIDE DEF r
  <2>. QED BY <2>1, <2>2
<1> HIDE DEF r
<1>5. /\ pool' \in Seq(Entries) /\ Len(pool') = n
      /\ \A k \in 1 .. n - 1 : pool'[k] = r[k]
      /\ pool'[n] = pool[i]
  <2>1. pool' = Append(r, pool[i])
    BY <1>1 DEF r
  <2>. QED BY <1>3, <1>4, <2>1
<1> HIDE DEF n
<1>6. \A k \in 1 .. n : pool'[k] = pool[at(k)] /\ at(k) \in 1 .. n
  BY <1>3, <1>4, <1>5
<1>7. \A k, m \in 1 .. n : at(k) = at(m) => k = m
  BY <1>3
<1>8. DOMAIN pool' = 1 .. n /\ DOMAIN pool = 1 .. n
  BY <1>5, Parts DEF n
<1> HIDE DEF at
<1>9. Apart(pool')
  BY <1>6, <1>7, <1>8, Parts DEF Apart
<1>10. lock.by = "nobody" /\ lock' = lock /\ lock.closing = <<>>
  BY Parts DEF GetCached, TypeOK
<1>11. (Pooled \cap Closing)' = {}
  BY <1>10 DEF Closing
<1>12. task' \in [Tasks -> TaskRecords] /\ task'[t].backend = pool[i].backend
  BY <1>1, <1>3, Parts, HasTyped DEF Entries
<1>13. idle' \in 0 .. Len(pool')
  <2>1. idle \in 0 .. n /\ n = Len(pool')
    BY <1>5, Parts DEF TypeOK, n
  <2>. QED BY <1>1, <1>3, <2>1
<1>14. TypeOK'
  BY <1>5, <1>10, <1>12, <1>13, Parts DEF TypeOK, GetCached, TaskRecords
<1>15. Making'
  BY <1>10, Parts DEF Making
<1>16. Len(pool') + (IF lock'.by \in Tasks THEN 1 ELSE 0) <= MaxSessions
  BY <1>5, <1>10, Parts DEF n
<1>17. pool'[n] = [host |-> task[t].host, config |-> task[t].config, backend |-> task'[t].backend]
  BY <1>2, <1>3, <1>5, <1>12 DEF Entries
<1>18. n \in DOMAIN pool'
  BY <1>3, <1>8
<1>. QED BY <1>9, <1>11, <1>14, <1>15, <1>16, <1>17, <1>18
         DEF PoolInv, PoolSound, Apart, OwnFor

(* get, once there is room.                                                 *)
LEMMA GetNewStep ==
  ASSUME PoolInv, NEW t \in Tasks, GetNew(t)
  PROVE  /\ PoolInv'
         /\ OwnFor(t)
<1> DEFINE b == CHOOSE b \in Backends \ (Pooled \cup Using) : TRUE
           e == [host |-> task[t].host, backend |-> b, config |-> task[t].config]
           n == Len(pool)
<1>1. /\ lock.by = t /\ lock.closing = <<>> /\ n \in Nat /\ n + 1 <= MaxSessions
      /\ task[t].pc = "want" /\ EntryOf(task[t].host) = {}
  BY Parts DEF GetNew, Making
<1>2. b \in Backends /\ b \notin Pooled
  BY <1>1, Parts, FreshBackend
<1>3. /\ pool' = Append(pool, e) /\ session' = [session EXCEPT ![b] = "none"]
      /\ Has(t, b) /\ lock' = Free /\ UNCHANGED <<config, idle, drops>>
  BY DEF GetNew
<1> HIDE DEF b
<1>4. /\ e \in Entries /\ e.host = task[t].host /\ e.backend = b
      /\ e = [host |-> task[t].host, config |-> task[t].config, backend |-> b]
  BY <1>2, Parts DEF TaskRecords, Entries
<1>5. task' \in [Tasks -> TaskRecords] /\ task'[t].backend = b
  BY <1>2, <1>3, Parts, HasTyped
<1> HIDE DEF e
<1>6. /\ pool' \in Seq(Entries) /\ Len(pool') = n + 1 /\ DOMAIN pool' = 1 .. n + 1
      /\ pool'[n + 1] = e /\ \A k \in 1 .. n : pool'[k] = pool[k]
  BY <1>1, <1>3, <1>4, Parts
<1> HIDE DEF n
<1>7. \A k \in 1 .. n : pool[k].host # e.host /\ pool[k].backend # e.backend
  <2>1. DOMAIN pool = 1 .. n
    BY Parts DEF n
  <2>. QED BY <1>1, <1>2, <1>4, <2>1 DEF EntryOf, Pooled
<1>8. Apart(pool')
  <2>1. DOMAIN pool = 1 .. n
    BY Parts DEF n
  <2> SUFFICES ASSUME NEW i \in 1 .. n + 1, NEW j \in 1 .. n + 1, i # j
               PROVE  pool'[i].host # pool'[j].host /\ pool'[i].backend # pool'[j].backend
    BY <1>6 DEF Apart
  <2>2. CASE i \in 1 .. n /\ j \in 1 .. n
    BY <1>6, <2>1, <2>2, Parts DEF Apart
  <2>3. CASE i = n + 1 \/ j = n + 1
    BY <1>1, <1>6, <1>7, <2>3
  <2>. QED BY <1>1, <2>2, <2>3
<1>9. lock'.by = "nobody" /\ lock'.closing = <<>>
  BY <1>3 DEF Free
<1>10. idle' \in 0 .. Len(pool')
  BY <1>1, <1>3, <1>6, Parts DEF TypeOK, n
<1>11. TypeOK'
  <2>1. session' \in [Backends -> {"none", "live", "dead"}]
    BY <1>2, <1>3, Parts DEF TypeOK
  <2>2. lock' \in [by : Tasks \cup {"nobody", "user", "reaper"}, closing : Seq(Entries)]
    BY <1>3 DEF Free
  <2>. QED BY <1>3, <1>5, <1>6, <1>9, <1>10, <2>1, <2>2, Parts DEF TypeOK, TaskRecords
<1>12. (Pooled \cap Closing)' = {}
  BY <1>9 DEF Closing
<1>13. Making'
  BY <1>9, Parts DEF Making
<1>14. Len(pool') + (IF lock'.by \in Tasks THEN 1 ELSE 0) <= MaxSessions
  BY <1>1, <1>6, <1>9, Parts
<1>15. n + 1 \in DOMAIN pool'
  BY <1>1, <1>6
<1>. QED BY <1>4, <1>5, <1>6, <1>8, <1>11, <1>12, <1>13, <1>14, <1>15
         DEF PoolInv, PoolSound, Apart, OwnFor

(* An entry is closed, the pool unlocked, or neither task nor pool moves.   *)
LEMMA RestStep ==
  ASSUME PoolInv,
         \/ Disconnect \/ Unlock \/ Ages
         \/ \E h \in Hosts : EditHost(h)
         \/ \E b \in Backends : SessionDies(b)
  PROVE  PoolInv'
<1>1. ASSUME UNCHANGED <<pool, task>>, TypeOK', Closing' \subseteq Closing, lock'.by \in {lock.by, "nobody"}
      PROVE  PoolInv'
  <2>1. PoolSound'
    <3>1. Pooled' = Pooled
      BY <1>1 DEF Pooled
    <3>2. Len(pool') + (IF lock'.by \in Tasks THEN 1 ELSE 0) <= MaxSessions
      BY <1>1, Parts
    <3>. QED BY <1>1, <3>1, <3>2, Parts DEF PoolSound, Apart
  <2>2. Making'
    BY <1>1, Parts DEF Making, EntryOf
  <2>. QED BY <2>1, <2>2 DEF PoolInv
<1>2. CASE Disconnect
  <2> DEFINE c == lock.closing
  <2>1. /\ c \in Seq(Entries) /\ c # <<>> /\ lock' = [by |-> lock.by, closing |-> Tail(c)]
        /\ session' = [session EXCEPT ![Head(c).backend] = "none"]
        /\ UNCHANGED <<config, pool, idle, task, drops>>
    <3>1. c \in Seq(Entries) /\ c # <<>> /\ lock' = [lock EXCEPT !.closing = Tail(@)]
      BY <1>2, Parts DEF Disconnect, TypeOK
    <3>2. lock' = [by |-> lock.by, closing |-> Tail(c)]
      BY <3>1, Parts DEF TypeOK
    <3>. QED BY <1>2, <3>1, <3>2 DEF Disconnect
  <2>2. Tail(c) \in Seq(Entries) /\ \A k \in DOMAIN Tail(c) : k + 1 \in DOMAIN c /\ Tail(c)[k] = c[k + 1]
    BY <2>1
  <2>3. session' \in [Backends -> {"none", "live", "dead"}]
    BY <2>1, Parts DEF TypeOK
  <2>4. Closing' \subseteq Closing
    BY <2>1, <2>2 DEF Closing
  <2>5. TypeOK'
    <3>1. lock.by \in Tasks \cup {"nobody", "user", "reaper"} /\ lock.by # "nobody"
      BY <2>1, Parts DEF TypeOK
    <3>2. /\ lock' \in [by : Tasks \cup {"nobody", "user", "reaper"}, closing : Seq(Entries)]
          /\ lock'.by # "nobody"
      BY <2>1, <2>2, <3>1
    <3>. QED BY <2>1, <2>3, <3>2, Parts DEF TypeOK
  <2>. QED BY <1>1, <2>1, <2>4, <2>5
<1>3. CASE Unlock
  <2>1. /\ lock' \in [by : Tasks \cup {"nobody", "user", "reaper"}, closing : Seq(Entries)]
        /\ lock'.by = "nobody" /\ lock'.closing = <<>>
        /\ UNCHANGED <<config, pool, idle, session, task, drops>>
    BY <1>3 DEF Unlock, Free
  <2>2. TypeOK'
    BY <2>1, Parts DEF TypeOK
  <2>. QED BY <1>1, <2>1, <2>2 DEF Closing
<1>4. CASE Ages
  <2>1. TypeOK'
    BY <1>4, Parts DEF Ages, TypeOK
  <2>. QED BY <1>1, <1>4, <2>1 DEF Ages, Closing
<1>5. CASE \E h \in Hosts : EditHost(h)
  <2>1. config' \in [Hosts -> Configs]
    BY <1>5, Parts, PoolAssumption DEF EditHost, TypeOK, Configs
  <2>2. TypeOK'
    BY <1>5, <2>1, Parts DEF EditHost, TypeOK
  <2>. QED BY <1>1, <1>5, <2>2 DEF EditHost, Closing
<1>6. CASE \E b \in Backends : SessionDies(b)
  <2>1. TypeOK'
    BY <1>6, Parts, PoolAssumption DEF SessionDies, TypeOK
  <2>. QED BY <1>1, <1>6, <2>1 DEF SessionDies, Closing
<1>. QED BY <1>2, <1>3, <1>4, <1>5, <1>6

(* A task that asks.                                                        *)
LEMMA WantStep == ASSUME PoolInv, NEW t \in Tasks, NEW h \in Hosts, Want(t, h) PROVE PoolKept
<1>1. [pc |-> "want", host |-> h, config |-> config[h], backend |-> 0] \in TaskRecords
  BY Parts DEF TypeOK, TaskRecords
<1>. QED BY <1>1, Parts DEF Want, PoolKept, TypeOK

(* The invariant holds, and a task that gets a backend gets one of its own  *)
(* settings.                                                                *)
LEMMA PoolStep == ASSUME PoolInv, [Next]_vars PROVE PoolInv' /\ Owns
<1>1. UNCHANGED task => Owns
  BY DEF Owns
<1>2. ASSUME PoolKept PROVE PoolInv' /\ Owns
  BY <1>2, KeptInv DEF PoolKept, Owns
<1>3. CASE UNCHANGED vars
  <2>1. PoolKept
    BY <1>3, Parts DEF vars, PoolKept, TypeOK
  <2>. QED BY <1>2, <2>1
<1>4. ASSUME NEW t \in Tasks, (\E h \in Hosts : Want(t, h)) \/ Step(t) PROVE PoolInv' /\ Owns
  BY <1>2, <1>4, WantStep, TaskStep
<1>5. ASSUME NEW t \in Tasks, GetCached(t) \/ GetNew(t) PROVE PoolInv' /\ Owns
  <2>1. PoolInv' /\ OwnFor(t)
    BY <1>5, GetCachedStep, GetNewStep
  <2>2. \A u \in Tasks \ {t} : task'[u] = task[u]
    BY <1>5, Parts DEF GetCached, GetNew, Has
  <2>. QED BY <2>1, <2>2 DEF Owns
<1>6. ASSUME NEW t \in Tasks, GetMiss(t) PROVE PoolInv' /\ Owns
  BY <1>1, <1>6, GetMissStep DEF GetMiss
<1>7. CASE PruneIdle \/ \E h \in Hosts : DropHost(h)
  BY <1>1, <1>7, DropStep DEF PruneIdle, DropHost
<1>8. CASE \/ Disconnect \/ Unlock \/ Ages
           \/ \E h \in Hosts : EditHost(h)
           \/ \E b \in Backends : SessionDies(b)
  BY <1>1, <1>8, RestStep DEF Disconnect, Unlock, Ages, EditHost, SessionDies
<1>. QED BY <1>3, <1>4, <1>5, <1>6, <1>7, <1>8 DEF Next, Get

(* The pool is empty at first.                                              *)
LEMMA PoolInit == Init => PoolInv
<1> SUFFICES ASSUME Init PROVE PoolInv
  OBVIOUS
<1>1. TypeOK
  <2>1. task \in [Tasks -> TaskRecords]
    BY UnusedTyped DEF Init
  <2>2. lock \in [by : Tasks \cup {"nobody", "user", "reaper"}, closing : Seq(Entries)]
    BY DEF Init, Free
  <2>. QED BY <2>1, <2>2, PoolAssumption DEF Init, TypeOK, Free, Configs, TaskRecords
<1>2. pool = <<>> /\ lock.by \notin Tasks /\ lock.closing = <<>> /\ Len(pool) = 0
  BY PoolAssumption DEF Init, Free
<1>. QED BY <1>1, <1>2, PoolAssumption DEF PoolInv, PoolSound, Making, Pooled, Closing

(* For any hosts, tasks and limit: the pool keeps its limit, with one entry *)
(* per host, and no two hosts ever share a backend (get, drop_host,         *)
(* prune_idle).                                                              *)
THEOREM PoolStaysSound == Spec => []PoolSound
<1>1. PoolInv /\ [Next]_vars => PoolInv'
  BY PoolStep
<1>2. PoolInv => PoolSound
  BY DEF PoolInv
<1>. QED BY <1>1, <1>2, PoolInit, PTL DEF Spec

(* Whoever is handed a backend has the settings it was made with, whatever  *)
(* is edited, evicted or dropped meanwhile (get, same_connection).           *)
THEOREM OwnBackend == Spec => OwnSettings
<1>1. PoolInv /\ [Next]_vars => PoolInv'
  BY PoolStep
<1>2. PoolInv /\ [Next]_vars => [Owns]_vars
  BY PoolStep
<1>3. OwnSettings <=> [][Owns]_vars
  BY DEF OwnSettings, Owns, OwnFor
<1>. QED BY <1>1, <1>2, <1>3, PoolInit, PTL DEF Spec

-----------------------------------------------------------------------------
(* The bandwidth limiter (RateLimiter).                                     *)

(* A refill adds at most what the elapsed time is worth (wait_for).        *)
LEMMA RefilledWithinTime ==
  ASSUME L!Params, L!Inv
  PROVE  L!Refilled \in Nat /\ used + L!Refilled <= now
BY DEF L!Params, L!Inv, L!TypeOK, L!Refilled

(* A step keeps the invariant.                                             *)
LEMMA LimiterStep == ASSUME L!Params, L!Inv, [L!Next]_(L!vars) PROVE L!Inv'
<1>. USE DEF L!Inv, L!TypeOK
<1>1. CASE UNCHANGED L!vars
  BY <1>1 DEF L!vars, L!Balanced, L!WaitsInProportion, L!Awake
<1>2. CASE L!Tick
  BY <1>2 DEF L!Tick, L!Balanced, L!WaitsInProportion, L!Awake
<1>3. ASSUME NEW w \in Workers, L!Wake(w) PROVE L!Inv'
  <2>1. L!TypeOK'
    BY <1>3 DEF L!Wake
  <2>2. L!Balanced'
    BY <1>3 DEF L!Wake, L!Balanced, L!Awake
  <2>3. L!WaitsInProportion'
    BY <1>3 DEF L!Wake, L!WaitsInProportion, L!Awake
  <2>. QED BY <1>3, <2>1, <2>2, <2>3 DEF L!Wake
<1>4. ASSUME NEW w \in Workers, NEW n \in Chunks, L!PassNow(w, n) PROVE L!Inv'
  <2>1. L!Refilled \in Nat /\ used + L!Refilled <= now /\ n \in Nat
    BY RefilledWithinTime DEF L!Params
  <2>2. L!TypeOK' /\ (lastFill <= now /\ used + tokens <= lastFill)'
    BY <1>4, <2>1 DEF L!PassNow
  <2>3. L!Balanced'
    BY <1>4, <2>1 DEF L!PassNow, L!Balanced, L!Awake
  <2>4. L!WaitsInProportion'
    BY <1>4 DEF L!PassNow, L!WaitsInProportion
  <2>. QED BY <2>2, <2>3, <2>4
<1>5. ASSUME NEW w \in Workers, NEW n \in Chunks, L!Sleep(w, n) PROVE L!Inv'
  <2>1. L!Refilled \in Nat /\ used + L!Refilled <= now /\ n \in Nat
    BY RefilledWithinTime DEF L!Params
  <2>2. n - L!Refilled \in Nat /\ n - L!Refilled <= n /\ n > 0
    BY <1>5, <2>1 DEF L!Sleep
  <2>3. L!TypeOK' /\ (lastFill <= now /\ used + tokens <= lastFill)'
    BY <1>5, <2>1, <2>2 DEF L!Sleep
  <2>4. L!Balanced'
    <3>1. DEFINE d == n - L!Refilled
    <3>2. d \in Nat /\ L!Refilled + d = n
      BY <2>1, <2>2
    <3>3. /\ need'[w] = n /\ until'[w] = now + d /\ slept'[w] = slept[w] + d
          /\ drawn'[w] = drawn[w] + L!Refilled /\ passed' = passed
          /\ used' = used + L!Refilled /\ now' = now
      BY <1>5 DEF L!Sleep
    <3>4. need[w] = 0 /\ slept[w] <= now
      BY <1>5 DEF L!Sleep, L!Balanced, L!Awake
    <3>5. /\ passed[w] = drawn[w] + slept[w] /\ drawn[w] <= used
          /\ {passed[w], drawn[w], slept[w], used, now} \subseteq Nat
      BY <3>4 DEF L!Balanced
    <3>. HIDE DEF d
    <3>6. /\ passed'[w] + need'[w] = drawn'[w] + slept'[w]
          /\ drawn'[w] <= used' /\ slept'[w] <= until'[w] /\ need'[w] # 0
      BY <3>2, <3>3, <3>4, <3>5, <2>1, <2>2
    <3>7. ASSUME NEW v \in Workers, v # w
          PROVE  /\ need'[v] = need[v] /\ until'[v] = until[v] /\ slept'[v] = slept[v]
                 /\ drawn'[v] = drawn[v] /\ passed'[v] = passed[v]
      BY <1>5, <3>7 DEF L!Sleep
    <3>8. ASSUME NEW v \in Workers, v # w
          PROVE  /\ passed[v] + need[v] = drawn[v] + slept[v] /\ drawn[v] <= used'
                 /\ need[v] = 0 => slept[v] <= now'
                 /\ slept[v] <= until[v] \/ slept[v] <= now'
      BY <3>3, <2>1 DEF L!Balanced, L!Awake
    <3>. QED BY <3>6, <3>7, <3>8 DEF L!Balanced, L!Awake
  <2>5. L!WaitsInProportion'
    BY <1>5, <2>1, <2>2 DEF L!Sleep, L!WaitsInProportion, L!Awake
  <2>. QED BY <2>3, <2>4, <2>5
<1>. QED BY <1>1, <1>2, <1>3, <1>4, <1>5 DEF L!Next

(* The invariant says what the theorem does.                               *)
LEMMA LimiterInvariant ==
  ASSUME L!Inv PROVE L!BucketWithinTime /\ L!AtMostTwice
<1>1. L!BucketWithinTime
  BY DEF L!Inv, L!TypeOK, L!BucketWithinTime
<1>2. ASSUME NEW w \in Workers PROVE passed[w] <= 2 * now
  <2>1. used <= now
    BY DEF L!Inv, L!TypeOK
  <2>2. CASE L!Awake(w)
    BY <2>1, <2>2 DEF L!Inv, L!TypeOK, L!Balanced, L!Awake
  <2>3. CASE ~L!Awake(w)
    BY <2>1, <2>3 DEF L!Inv, L!TypeOK, L!Balanced, L!Awake, L!WaitsInProportion
  <2>. QED BY <2>2, <2>3
<1>. QED BY <1>1, <1>2 DEF L!AtMostTwice

(* For any number of workers, any cap and any chunks: what is let through   *)
(* is bounded by the time, and so is every wait (wait_for).                 *)
THEOREM LimiterBounds ==
  ASSUME L!Params
  PROVE  L!Spec => [](L!BucketWithinTime /\ L!AtMostTwice /\ L!WaitsInProportion)
<1>1. L!Init => L!Inv
  BY DEF L!Init, L!Inv, L!TypeOK, L!Balanced, L!WaitsInProportion, L!Awake
<1>2. L!Inv /\ [L!Next]_(L!vars) => L!Inv'
  BY LimiterStep
<1>3. L!Inv => L!BucketWithinTime /\ L!AtMostTwice /\ L!WaitsInProportion
  BY LimiterInvariant DEF L!Inv
<1>. QED BY <1>1, <1>2, <1>3, PTL DEF L!Spec
-----------------------------------------------------------------------------
(* The media server (MediaServer).                                          *)

(* The numbers of a header that parses are numbers (parse_range).          *)
LEMMA HeaderNumbers ==
  ASSUME M!Params, NEW h \in M!Headers, M!Ranged(h)
  PROVE  /\ h.n \in Nat /\ h.n < W
         /\ h.form = "closed" => h.m \in Nat /\ h.m < W
<1>1. \A n \in Offsets : n \in Nat /\ n < W
  BY DEF M!Params
<1>2. CASE h \in [form : {"absent", "malformed"}]
  BY <1>2 DEF M!Ranged
<1>3. CASE h \in [form : {"last", "from"}, n : Offsets]
  <2>1. h.n \in Offsets /\ h.form # "closed"
    BY <1>3
  <2>. QED BY <1>1, <2>1
<1>4. CASE h \in [form : {"closed"}, n : Offsets, m : Offsets]
  <2>1. h.n \in Offsets /\ h.m \in Offsets
    BY <1>4
  <2>. QED BY <1>1, <2>1
<1>. QED BY <1>2, <1>3, <1>4 DEF M!Headers

(* The ends of an accepted range lie within the file; its length leads to    *)
(* its end, or, counted in u64 for a reversed range, beyond any offset       *)
(* (parse_range, stream_file).                                               *)
LEMMA AcceptedRange ==
  ASSUME M!Params, NEW h \in M!Headers, NEW s \in 0 .. W - 1,
         M!Ranged(h), ~M!Rejected(h, s)
  PROVE  /\ M!Start(h, s) \in Nat /\ M!Start(h, s) < s
         /\ M!End(h, s) \in Nat /\ M!End(h, s) < s
         /\ M!Length(h, s) \in Nat /\ M!Length(h, s) < W
         /\ M!Forward(h, s) => M!Start(h, s) + M!Length(h, s) = M!End(h, s) + 1
         /\ ~M!Forward(h, s) => M!Start(h, s) + M!Length(h, s) = W + M!End(h, s) + 1
<1>1. /\ h.n \in Nat /\ h.n < W /\ W \in Nat /\ s \in Nat /\ s < W
      /\ h.form = "closed" => h.m \in Nat /\ h.m < W
  BY HeaderNumbers DEF M!Params
<1>2. M!Start(h, s) \in Nat /\ M!Start(h, s) < s
  BY <1>1 DEF M!Ranged, M!Rejected, M!Start
<1>3. M!LastByte(s) = s - 1 /\ s > 0
  BY <1>1, <1>2 DEF M!LastByte
<1>4. M!End(h, s) \in Nat /\ M!End(h, s) < s
  BY <1>1, <1>3 DEF M!End
<1>5. M!Forward(h, s) <=> M!Start(h, s) <= M!End(h, s) + 1
  BY DEF M!Forward, M!From, M!Upto
<1>. HIDE DEF M!Start, M!End, M!Forward
<1>6. CASE M!Forward(h, s)
  <2>1. M!Length(h, s) = M!End(h, s) + 1 - M!Start(h, s)
    BY <1>5, <1>6 DEF M!Length
  <2>. QED BY <1>1, <1>2, <1>4, <1>5, <1>6, <2>1
<1>7. CASE ~M!Forward(h, s)
  <2>1. M!Length(h, s) = W + M!End(h, s) + 1 - M!Start(h, s)
    BY <1>5, <1>7 DEF M!Length
  <2>. QED BY <1>1, <1>2, <1>4, <1>5, <1>7, <2>1
<1>. QED BY <1>6, <1>7

(* Where arithmetic does not wrap, an accepted range that does not panic is  *)
(* not reversed (parse_range, lib.rs:188).                                   *)
LEMMA PanicsReversed ==
  ASSUME M!Params, Checked, NEW h \in M!Headers, NEW s \in 0 .. W - 1,
         ~M!Rejected(h, s), ~M!Panics(h, s)
  PROVE  M!Forward(h, s)
<1>1. CASE M!Ranged(h)
  <2>1. M!Start(h, s) \in Nat /\ M!End(h, s) \in Nat
    BY <1>1, AcceptedRange
  <2>2. M!Start(h, s) <= M!End(h, s)
    BY <1>1, <2>1 DEF M!Panics
  <2>. QED BY <1>1, <2>1, <2>2 DEF M!Forward, M!From, M!Upto
<1>2. CASE ~M!Ranged(h)
  BY <1>2 DEF M!Forward, M!From, M!Upto, M!Params
<1>. QED BY <1>1, <1>2

(* The ends and the length of a range are u64 (parse_range).               *)
LEMMA RangeNumbers ==
  ASSUME M!Params, NEW h \in M!Headers, NEW s \in 0 .. W - 1, M!Ranged(h)
  PROVE  M!Start(h, s) \in Nat /\ M!Length(h, s) \in Nat
<1>1. /\ h.n \in Nat /\ h.n < W /\ W \in Nat /\ W > 0 /\ s \in Nat /\ s < W
      /\ h.form = "closed" => h.m \in Nat /\ h.m < W
  BY HeaderNumbers DEF M!Params
<1>2. M!Start(h, s) \in Nat /\ M!Start(h, s) < W
  BY <1>1 DEF M!Start
<1>3. M!LastByte(s) \in Nat
  BY <1>1 DEF M!LastByte
<1>4. M!End(h, s) \in Nat
  BY <1>1, <1>3 DEF M!End
<1>. QED BY <1>1, <1>2, <1>4 DEF M!Length

(* A step keeps the types.                                                 *)
LEMMA MediaTypes ==
  ASSUME M!Params, M!TypeOK, [M!Next]_(M!vars) PROVE M!TypeOK'
<1>. USE DEF M!TypeOK, M!Phases
<1>1. CASE UNCHANGED M!vars
  BY <1>1 DEF M!vars
<1>2. ASSUME NEW host \in Served, NEW right \in BOOLEAN, NEW h \in M!Headers, M!Request(host, right, h)
      PROVE  M!TypeOK'
  BY <1>2 DEF M!Request, M!Answer
<1>3. CASE M!Stat \/ M!StatFails \/ M!OpenFails
  BY <1>3 DEF M!Stat, M!StatFails, M!OpenFails, M!Answer, M!Params
<1>4. CASE M!Open
  <2>1. M!Ranged(header) => M!Start(header, size) \in Nat /\ M!Length(header, size) \in Nat
    BY RangeNumbers
  <2>2. size \in Nat
    BY DEF M!Params
  <2>. QED BY <1>4, <2>1, <2>2 DEF M!Open
<1>5. ASSUME NEW n \in 1 .. Chunk, M!Frame(n) PROVE M!TypeOK'
  <2>1. n <= rem
    BY <1>5 DEF M!Frame, M!Want, M!Params
  <2>. QED BY <1>5, <2>1 DEF M!Frame, M!Params
<1>6. CASE M!BodyEnds \/ M!ReadFails
  <2>1. /\ phase' = "done" /\ whole' \in {whole, FALSE}
        /\ UNCHANGED <<len, size, header, status, first, pos, rem>>
    BY <1>6 DEF M!BodyEnds, M!ReadFails
  <2>. QED BY <2>1
<1>7. ASSUME NEW n \in Sizes, M!FileChanges(n) PROVE M!TypeOK'
  BY <1>7 DEF M!FileChanges
<1>8. ASSUME NEW host \in Served, M!AddHost(host) PROVE M!TypeOK'
  BY <1>8 DEF M!AddHost
<1>. QED BY <1>1, <1>2, <1>3, <1>4, <1>5, <1>6, <1>7, <1>8 DEF M!Next

(* A step keeps what is true of a stream once begun (stream_response).     *)
LEMMA MediaBegun ==
  ASSUME M!Params, M!TypeOK, M!Begun, [M!Next]_(M!vars) PROVE M!Begun'
<1>. USE DEF M!TypeOK, M!Begun, M!Answered
<1>1. CASE UNCHANGED M!vars
  BY <1>1 DEF M!vars
<1>2. ASSUME NEW host \in Served, NEW right \in BOOLEAN, NEW h \in M!Headers, M!Request(host, right, h)
      PROVE  M!Begun'
  BY <1>2 DEF M!Request, M!Answer
<1>3. CASE M!Stat
  <2>1. phase' = "open" => ~M!Rejected(header, len) /\ ~M!Panics(header, len)
    BY <1>3 DEF M!Stat, M!Answer
  <2>2. phase' = "open" /\ Checked => M!Forward(header, len)
    BY <2>1, PanicsReversed DEF M!Params
  <2>. QED BY <1>3, <2>1, <2>2 DEF M!Stat, M!Answer, M!Params
<1>4. CASE M!StatFails \/ M!OpenFails
  BY <1>4 DEF M!StatFails, M!OpenFails, M!Answer
<1>9. CASE M!Open
  <2>1. M!Ranged(header) => /\ M!Start(header, size) \in Nat /\ M!Start(header, size) < size
                            /\ M!Length(header, size) \in Nat
    BY <1>9, AcceptedRange DEF M!Open
  <2>2. size \in Nat /\ W \in Nat /\ size < W
    BY DEF M!Params
  <2>. QED BY <1>9, <2>1, <2>2 DEF M!Open
<1>5. ASSUME NEW n \in 1 .. Chunk, M!Frame(n) PROVE M!Begun'
  <2>1. n <= rem
    BY <1>5 DEF M!Frame, M!Want, M!Params
  <2>2. pos' < W
    BY <1>5 DEF M!Frame, M!Params
  <2>. QED BY <1>5, <2>1, <2>2 DEF M!Frame, M!Params
<1>6. CASE M!BodyEnds \/ M!ReadFails
  BY <1>6 DEF M!BodyEnds, M!ReadFails
<1>7. ASSUME NEW n \in Sizes, M!FileChanges(n) PROVE M!Begun'
  BY <1>7 DEF M!FileChanges
<1>8. ASSUME NEW host \in Served, M!AddHost(host) PROVE M!Begun'
  BY <1>8 DEF M!AddHost
<1>. QED BY <1>1, <1>2, <1>3, <1>4, <1>5, <1>6, <1>7, <1>8, <1>9 DEF M!Next

(* The strengthening keeps every chunk within the range.                   *)
LEMMA MediaWithin == ASSUME M!Params, M!TypeOK, M!Begun PROVE M!WithinRange /\ M!RunsOn
<1>. SUFFICES ASSUME M!Answered PROVE M!WithinRange /\ M!RunsOn
  BY DEF M!WithinRange, M!RunsOn
<1>1. /\ first \in Nat /\ pos \in Nat /\ rem \in Nat /\ W \in Nat /\ size \in Nat
      /\ pos < W /\ first <= pos /\ (Checked => M!Forward(header, size))
  BY DEF M!TypeOK, M!Begun, M!Params
<1>2. CASE M!Ranged(header)
  <2>1. first = M!Start(header, size) /\ pos + rem = first + M!Length(header, size)
    BY <1>2 DEF M!Begun
  <2>2. /\ M!From(header, size) = M!Start(header, size)
        /\ M!Upto(header, size) = M!End(header, size) + 1
    BY <1>2 DEF M!From, M!Upto
  <2>3. /\ M!End(header, size) \in Nat /\ M!End(header, size) < size
        /\ M!Forward(header, size) => pos + rem = M!End(header, size) + 1
        /\ ~M!Forward(header, size) => pos + rem = W + M!End(header, size) + 1
    BY <1>2, <2>1, AcceptedRange DEF M!TypeOK, M!Begun
  <2>. QED BY <1>1, <2>1, <2>2, <2>3 DEF M!WithinRange, M!RunsOn
<1>3. CASE ~M!Ranged(header)
  <2>1. M!From(header, size) = 0 /\ M!Upto(header, size) = size /\ M!Forward(header, size)
    BY <1>1, <1>3 DEF M!From, M!Upto, M!Forward
  <2>2. first = 0 /\ pos + rem = size
    BY <1>3 DEF M!Begun
  <2>. QED BY <1>1, <2>1, <2>2 DEF M!WithinRange, M!RunsOn
<1>. QED BY <1>2, <1>3

(* What is left of a body is a u64, and more than nothing is asked of the    *)
(* reader for it where usize is as wide (reader_stream).                     *)
LEMMA MediaWants ==
  ASSUME M!Params, M!TypeOK, M!Begun, M!Answered, W <= Word, rem > 0
  PROVE  M!Want > 0
<1>1. rem < W
  <2>1. CASE M!Ranged(header)
    <3>1. /\ first <= pos /\ pos + rem = first + M!Length(header, size)
          /\ M!Length(header, size) \in Nat /\ M!Length(header, size) < W
      BY <2>1, AcceptedRange DEF M!TypeOK, M!Begun
    <3>. QED BY <3>1 DEF M!TypeOK, M!Params
  <2>2. CASE ~M!Ranged(header)
    BY <2>2 DEF M!Begun, M!TypeOK, M!Params
  <2>. QED BY <2>1, <2>2
<1>. QED BY <1>1 DEF M!Want, M!Params, M!TypeOK

(* A body that ends has sent its range (reader_stream).                    *)
LEMMA MediaEnds ==
  ASSUME M!Params, M!TypeOK, M!Begun, M!SendsAll, [M!Next]_(M!vars) PROVE M!SendsAll'
<1>1. CASE M!BodyEnds
  <2>1. /\ phase' = "done" /\ phase = "body"
        /\ UNCHANGED <<len, size, header, status, first, pos, rem, whole>>
    BY <1>1 DEF M!BodyEnds
  <2>2. SUFFICES ASSUME W <= Word, M!Answered, whole
                 PROVE  IF M!Forward(header, size) THEN rem = 0 ELSE pos >= size
    BY <2>1 DEF M!SendsAll, M!Answered, M!Forward, M!From, M!Upto, M!Ranged, M!Start, M!End,
                M!LastByte
  <2>3. /\ pos \in Nat /\ rem \in Nat /\ size \in Nat /\ len \in Nat /\ len >= size
        /\ first \in Nat
    BY <2>1, <2>2 DEF M!TypeOK, M!Begun, M!Params
  <2>4. rem = 0 \/ pos >= len
    BY <1>1, <2>2, <2>3, MediaWants DEF M!BodyEnds
  <2>5. CASE M!Forward(header, size)
    <3>1. pos >= len => rem = 0
      <4>1. CASE M!Ranged(header)
        BY <2>2, <2>3, <2>5, <4>1, AcceptedRange DEF M!TypeOK, M!Begun
      <4>2. CASE ~M!Ranged(header)
        BY <2>2, <2>3, <4>2 DEF M!Begun
      <4>. QED BY <4>1, <4>2
    <3>. QED BY <2>4, <2>5, <3>1
  <2>6. CASE ~M!Forward(header, size)
    <3>1. rem # 0
      BY <2>2, <2>6, MediaWithin DEF M!RunsOn
    <3>. QED BY <2>3, <2>4, <2>6, <3>1
  <2>. QED BY <2>5, <2>6
<1>2. CASE ~M!BodyEnds
  <2>1. phase' = "done" /\ phase # "done" /\ status' \in {200, 206} => ~whole'
    BY <1>2 DEF M!Next, M!vars, M!Request, M!Stat, M!StatFails, M!Open, M!OpenFails, M!Frame,
                M!ReadFails,
                M!FileChanges, M!AddHost, M!Answer, M!Begun, M!TypeOK
  <2>2. phase = "done" => /\ phase' = phase /\ status' = status /\ size' = size
                          /\ header' = header /\ rem' = rem /\ pos' = pos /\ (whole' => whole)
    BY <1>2 DEF M!Next, M!vars, M!Request, M!Stat, M!StatFails, M!Open, M!OpenFails, M!Frame,
                M!ReadFails,
                M!FileChanges, M!AddHost
  <2>. QED BY <2>1, <2>2 DEF M!SendsAll, M!Answered, M!Forward, M!From, M!Upto, M!Ranged, M!Start,
                             M!End, M!LastByte
<1>. QED BY <1>1, <1>2

(* For every file, header, frame size and course of the reads: a body begins *)
(* where its range does and stays within it, unless the range is reversed;   *)
(* with usize as wide as u64 all of the range is sent.  A reversed range is  *)
(* refused by a panic where arithmetic is checked, and else answered with a  *)
(* length that no body reaches and the rest of the file (parse_range,        *)
(* stream_file, reader_stream).                                              *)
THEOREM StreamsRange ==
  ASSUME M!Params PROVE M!Spec => [](M!WithinRange /\ M!SendsAll /\ M!RunsOn)
<1>1. M!Init => M!IInv
  BY DEF M!Init, M!IInv, M!TypeOK, M!Begun, M!SendsAll, M!Answered, M!Params, M!Headers, M!Phases
<1>2. M!IInv /\ [M!Next]_(M!vars) => M!IInv'
  BY MediaTypes, MediaBegun, MediaEnds DEF M!IInv
<1>3. M!IInv => M!WithinRange /\ M!SendsAll /\ M!RunsOn
  BY MediaWithin DEF M!IInv
<1>. QED BY <1>1, <1>2, <1>3, PTL DEF M!Spec
-----------------------------------------------------------------------------
(* The NFS backend (NfsMount).                                              *)

(* What paths under the mount are called is a name (rel).                  *)
LEMMA RootNamed == N!Idle \in N!States /\ \A p \in Paths : N!Rel(p) \in N!Names
BY DEF N!Names, N!Idle, N!States, N!Steps, N!Ops

(* A step keeps the types.                                                 *)
LEMMA MountTypes == ASSUME N!TypeOK, [N!Next]_(N!vars) PROVE N!TypeOK'
<1>. USE DEF N!TypeOK
<1>1. CASE UNCHANGED N!vars
  BY <1>1 DEF N!vars
<1>2. CASE N!Disconnect
  BY <1>2 DEF N!Disconnect
<1>3. ASSUME NEW n \in N!Names, NEW s \in N!Missing .. MaxSize \cup {N!Dir}, N!Foreign(n, s)
      PROVE  N!TypeOK'
  BY <1>3 DEF N!Foreign, N!Missing, N!Dir
<1>4. ASSUME NEW t \in Callers, NEW op \in N!Ops, NEW p \in Paths, NEW q \in Paths, N!Begin(t, op, p, q)
      PROVE  N!TypeOK'
  BY <1>4, RootNamed DEF N!Begin, N!States, N!Steps
<1>5. ASSUME NEW t \in Callers, N!Ensure(t) PROVE N!TypeOK'
  BY <1>5, RootNamed DEF N!Ensure, N!After, N!Leave, N!Go, N!States, N!Steps
<1>6. ASSUME NEW t \in Callers, N!EnsureFails(t) \/ N!Look(t) \/ N!Fails(t) \/ N!Close(t)
      PROVE  N!TypeOK'
  BY <1>6, RootNamed DEF N!EnsureFails, N!Look, N!Fails, N!Close, N!Leave
<1>7. ASSUME NEW t \in Callers, N!Take(t) PROVE N!TypeOK'
  BY <1>7, RootNamed DEF N!Take, N!Leave, N!States, N!Steps
<1>8. ASSUME NEW t \in Callers, N!OpenWrite(t) \/ N!RemoveLooks(t) PROVE N!TypeOK'
  BY <1>8 DEF N!OpenWrite, N!RemoveLooks, N!Go, N!States, N!Steps
<1>9. ASSUME NEW t \in Callers, N!Mkdir(t) \/ N!Rename(t) \/ N!Remove(t) PROVE N!TypeOK'
  BY <1>9, RootNamed DEF N!Mkdir, N!Rename, N!Remove, N!Leave, N!States, N!Missing, N!Dir
<1>10. ASSUME NEW t \in Callers, N!Read(t) \/ N!Write(t) PROVE N!TypeOK'
  BY <1>10 DEF N!Read, N!Write, N!States
<1>. QED
  BY <1>1, <1>2, <1>3, <1>4, <1>5, <1>6, <1>7, <1>8, <1>9, <1>10 DEF N!Next, N!Own

(* A step keeps calls on a mount that is new enough (mount).               *)
LEMMA MountFresh == ASSUME N!TypeOK, N!Newest, N!FreshMount, [N!Next]_(N!vars)
      PROVE  N!Newest' /\ N!FreshMount'
<1>. USE DEF N!TypeOK, N!Newest, N!FreshMount
<1>1. CASE UNCHANGED <<slot, mounts, caller>>
  BY <1>1
<1>2. CASE N!Disconnect
  BY <1>2 DEF N!Disconnect
<1>3. ASSUME NEW t \in Callers, NEW op \in N!Ops, NEW p \in Paths, NEW q \in Paths, N!Begin(t, op, p, q)
      PROVE  N!Newest' /\ N!FreshMount'
  BY <1>3 DEF N!Begin, N!States
<1>4. ASSUME NEW t \in Callers, N!Ensure(t) PROVE N!Newest' /\ N!FreshMount'
  BY <1>4 DEF N!Ensure, N!After, N!Leave, N!Go, N!States, N!Idle
<1>5. ASSUME NEW t \in Callers, N!Leave(t), UNCHANGED <<slot, mounts>>
      PROVE  N!Newest' /\ N!FreshMount'
  BY <1>5 DEF N!Leave, N!Idle, N!States
<1>6. ASSUME NEW t \in Callers, N!Take(t) \/ N!Read(t) \/ N!Write(t)
      PROVE  N!Newest' /\ N!FreshMount'
  BY <1>6 DEF N!Take, N!Read, N!Write, N!Leave, N!Idle, N!States
<1>7. ASSUME NEW t \in Callers, N!OpenWrite(t) \/ N!RemoveLooks(t) PROVE N!Newest' /\ N!FreshMount'
  BY <1>7 DEF N!OpenWrite, N!RemoveLooks, N!Calling, N!Go, N!States
<1>. QED
  BY <1>1, <1>2, <1>3, <1>4, <1>5, <1>6, <1>7
  DEF N!Next, N!Own, N!vars, N!EnsureFails, N!Look, N!Fails, N!Close, N!Mkdir, N!Rename,
      N!Remove, N!Foreign

(* For any number of tasks and whenever mounts are dropped: a call goes      *)
(* through a mount that was there when it was begun or made later (mount).   *)
THEOREM CallsFresh == N!Spec => []N!FreshMount
<1>1. N!Init => N!IInv
  <2>1. ASSUME N!Init PROVE N!TypeOK
    BY <2>1, RootNamed DEF N!Init, N!TypeOK, N!Missing, N!Dir
  <2>. QED BY <2>1 DEF N!Init, N!IInv, N!Newest, N!FreshMount, N!Idle
<1>2. N!IInv /\ [N!Next]_(N!vars) => N!IInv'
  BY MountTypes, MountFresh DEF N!IInv
<1>. QED BY <1>1, <1>2, PTL DEF N!Spec, N!IInv

(* Only a rename of the caller itself makes a file (open_write, rename).     *)
LEMMA MountFiles ==
  ASSUME N!TypeOK, N!Own, NEW n \in N!Names, blocks[n] = N!Missing, blocks'[n] >= 0
  PROVE  \E t \in Callers : caller[t].pc = "call" /\ caller[t].op = "rename" /\ caller[t].to = n
<1>. USE DEF N!TypeOK, N!Missing
<1>1. CASE blocks' = blocks
  BY <1>1
<1>2. ASSUME NEW t \in Callers, N!OpenWrite(t) \/ N!Write(t) PROVE FALSE
  BY <1>2 DEF N!OpenWrite, N!Write, N!File, N!States
<1>3. ASSUME NEW t \in Callers, N!Mkdir(t) PROVE FALSE
  BY <1>3 DEF N!Mkdir, N!Dir, N!States
<1>4. ASSUME NEW t \in Callers, N!Remove(t) PROVE FALSE
  BY <1>4 DEF N!Remove, N!States
<1>5. ASSUME NEW t \in Callers, N!Rename(t)
      PROVE  caller[t].pc = "call" /\ caller[t].op = "rename" /\ caller[t].to = n
  BY <1>5 DEF N!Rename, N!Calling, N!States
<1>. QED
  BY <1>1, <1>2, <1>3, <1>4, <1>5
  DEF N!Own, N!Begin, N!Ensure, N!EnsureFails, N!Take, N!Disconnect, N!Look, N!Fails,
      N!RemoveLooks, N!Read, N!Close

(* Without other clients a file appears where none was by a rename only,     *)
(* whatever is written and opened for writing (open_write).                  *)
THEOREM OnlyRenameMakesFiles == N!OwnSpec => N!MakesNoFiles
<1>1. N!Init => N!TypeOK
  BY RootNamed DEF N!Init, N!TypeOK, N!Missing, N!Dir
<1>2. N!TypeOK /\ [N!Own]_(N!vars) => N!TypeOK'
  BY MountTypes DEF N!Next, N!vars
<1>3. N!TypeOK /\ [N!Own]_(N!vars) =>
        [\A n \in N!Names : blocks[n] = N!Missing /\ blocks'[n] >= 0 =>
           \E t \in Callers : caller[t].pc = "call" /\ caller[t].op = "rename" /\ caller[t].to = n]_(N!vars)
  BY MountFiles
<1>. QED BY <1>1, <1>2, <1>3, PTL DEF N!OwnSpec, N!MakesNoFiles
-----------------------------------------------------------------------------
(* The vault of secrets (SecretVault).                                      *)

(* What the types say of a call that is under way (CachedVault).            *)
LEMMA VaultReading ==
  ASSUME V!TypeOK, NEW t \in Threads
  PROVE  /\ call[t].todo # "none" => call[t] # V!Idle /\ call[t].key \in V!Keys
         /\ call[t].todo = "put" => call[t].value \in Values
         /\ V!Idle.todo = "none"
BY DEF V!TypeOK, V!Calls, V!Idle

(* A step keeps the types.                                                  *)
LEMMA VaultTypes ==
  ASSUME V!Params, V!TypeOK, [V!Next]_(V!vars) PROVE V!TypeOK'
<1>. USE DEF V!Params, V!TypeOK, V!Keys, V!Answers
<1>1. CASE UNCHANGED V!vars
  BY <1>1 DEF V!vars
<1>2. ASSUME NEW t \in Threads, NEW k \in V!Keys, V!Get(t, k) PROVE V!TypeOK'
  <2>1. cache' \in [Cached -> [value : V!Answers, fresh : BOOLEAN]]
    <3>1. V!NoEntry \in [value : V!Answers, fresh : BOOLEAN]
      BY DEF V!NoEntry
    <3>. QED BY <1>2, <3>1 DEF V!Get
  <2>2. call' \in [Threads -> V!Calls]
    BY <1>2 DEF V!Get, V!Calls
  <2>. QED BY <1>2, <2>1, <2>2 DEF V!Get
<1>3. ASSUME NEW t \in Threads, NEW k \in V!Keys, NEW v \in V!Answers, V!Change(t, k, v)
      PROVE  V!TypeOK'
  <2>1. data' \in [V!Keys -> V!Answers] /\ disk' \in [V!Keys -> V!Answers] /\ cut' \in BOOLEAN
        /\ promised' \in [V!Keys -> V!Answers \cup {"unknown"}]
    BY <1>3 DEF V!Change, V!StoreOk, V!Persist
  <2>2. call' \in [Threads -> V!Calls]
    BY <1>3 DEF V!Change, V!Calls
  <2>3. calm' \in [Cached -> BOOLEAN]
    BY <1>3 DEF V!Change, V!Stirred
  <2>. QED BY <1>3, <2>1, <2>2, <2>3 DEF V!Change
<1>4. ASSUME NEW t \in Threads, NEW k \in V!Keys, NEW v \in V!Answers, V!ChangeFails(t, k, v)
      PROVE  V!TypeOK'
  <2>1. data' \in [V!Keys -> V!Answers] /\ disk' \in [V!Keys -> V!Answers] /\ cut' \in BOOLEAN
        /\ promised' \in [V!Keys -> V!Answers \cup {"unknown"}]
    <3>1. CASE kind = "keyring"
      BY <1>4, <3>1 DEF V!ChangeFails, V!StoreFails
    <3>2. CASE kind = "file"
      <4>1. data' = [data EXCEPT ![k] = v] /\ disk' = disk /\ cut' \in {cut, TRUE}
        BY <1>4, <3>2 DEF V!ChangeFails, V!StoreFails
      <4>2. promised' = [promised EXCEPT ![k] = "unknown"] \/ promised' = [i \in V!Keys |-> "unknown"]
        BY <1>4, <3>2 DEF V!ChangeFails, V!StoreFails
      <4>. QED BY <4>1, <4>2
    <3>. QED BY <1>4, <3>1, <3>2 DEF V!ChangeFails, V!StoreFails
  <2>2. calm' \in [Cached -> BOOLEAN]
    BY <1>4 DEF V!ChangeFails, V!Stirred
  <2>. QED BY <1>4, <2>1, <2>2 DEF V!ChangeFails
<1>5. ASSUME NEW t \in Threads, V!Read(t) \/ V!ReadFails(t) PROVE V!TypeOK'
  BY <1>5 DEF V!Read, V!ReadFails, V!Calls
<1>6. ASSUME NEW t \in Threads, V!CachePut(t) \/ V!CacheDel(t) PROVE V!TypeOK'
  <2>1. call' \in [Threads -> V!Calls]
    BY <1>6 DEF V!CachePut, V!CacheDel, V!Calls
  <2>2. cache' \in [Cached -> [value : V!Answers, fresh : BOOLEAN]]
    <3>1. CASE V!CachePut(t)
      BY <3>1, VaultReading DEF V!CachePut
    <3>2. CASE V!CacheDel(t)
      BY <3>2 DEF V!CacheDel, V!NoEntry
    <3>. QED BY <1>6, <3>1, <3>2
  <2>. QED BY <1>6, <2>1, <2>2 DEF V!CachePut, V!CacheDel
<1>7. ASSUME NEW k \in Cached, V!Expire(k) PROVE V!TypeOK'
  BY <1>7 DEF V!Expire
<1>8. CASE V!Restart
  BY <1>8 DEF V!Restart, V!Kept, V!Opened, V!Empty, V!NoEntry, V!Calls
<1>. QED BY <1>1, <1>2, <1>3, <1>4, <1>5, <1>6, <1>7, <1>8 DEF V!Next

(* A step keeps what is promised in the map (FileStore).                    *)
LEMMA VaultMap ==
  ASSUME V!TypeOK, V!MapKeeps, [V!Next]_(V!vars) PROVE V!MapKeeps'
<1>. USE DEF V!TypeOK, V!MapKeeps, V!Keys, V!Answers
<1>1. CASE UNCHANGED <<kind, data, disk, cut, promised>>
  BY <1>1 DEF V!Opened
<1>2. ASSUME NEW t \in Threads, NEW k \in V!Keys, NEW v \in V!Answers, V!Change(t, k, v)
      PROVE  V!MapKeeps'
  BY <1>2 DEF V!Change, V!StoreOk, V!Persist, V!Opened
<1>3. ASSUME NEW t \in Threads, NEW k \in V!Keys, NEW v \in V!Answers, V!ChangeFails(t, k, v)
      PROVE  V!MapKeeps'
  BY <1>3 DEF V!ChangeFails, V!StoreFails, V!Opened
<1>4. CASE V!Restart
  BY <1>4 DEF V!Restart, V!Kept, V!Opened, V!Empty
<1>. QED
  BY <1>1, <1>2, <1>3, <1>4
  DEF V!Next, V!vars, V!Get, V!Read, V!ReadFails, V!CachePut, V!CacheDel, V!Expire

(* A step keeps the cache following the store (CachedVault).                *)
LEMMA VaultFollowing ==
  ASSUME V!Params, V!TypeOK, V!Following, [V!Next]_(V!vars) PROVE V!Following'
<1>. USE DEF V!Params, V!TypeOK, V!Following, V!Keys, V!Answers
<1>1. CASE UNCHANGED V!vars
  BY <1>1 DEF V!vars
<1>2. ASSUME NEW t \in Threads, NEW k \in V!Keys, V!Get(t, k) PROVE V!Following'
  <2>1. /\ \A u \in Threads : u # t => call'[u] = call[u]
        /\ call'[t].todo \in {"none", "read"} /\ call[t].todo = "none"
        /\ data' = data /\ calm' = calm
    BY <1>2 DEF V!Get, V!Idle
  <2>2. \A c \in Cached : cache'[c].fresh => cache'[c] = cache[c]
    BY <1>2 DEF V!Get, V!NoEntry
  <2>. QED BY <2>1, <2>2
<1>3. ASSUME NEW t \in Threads, NEW k \in V!Keys, NEW v \in V!Answers, V!Change(t, k, v)
      PROVE  V!Following'
  <2>1. data' = [data EXCEPT ![k] = v] /\ cache' = cache
    BY <1>3 DEF V!Change, V!StoreOk
  <2>2. \A c \in Cached : calm'[c] => calm[c] /\ (c = k => ~V!Putting(k))
    BY <1>3 DEF V!Change, V!Stirred
  <2>3. \A u \in Threads : u # t => call'[u] = call[u]
    BY <1>3 DEF V!Change
  <2>4. CASE k \in Uncached
    <3>1. call'[t].todo = "none" /\ call[t].todo = "none"
      BY <1>3, <2>4 DEF V!Change, V!Idle
    <3>. QED BY <2>1, <2>2, <2>3, <2>4, <3>1
  <2>5. CASE k \in Cached
    <3>1. /\ call'[t].key = k /\ call'[t].todo \in {"put", "drop"}
          /\ call'[t].todo = "put" => call'[t].value = v
      BY <1>3, <2>5 DEF V!Change
    <3>2. call[t].todo = "none"
      BY <1>3 DEF V!Change, V!Idle
    <3>3. ASSUME NEW u \in Threads, call'[u].todo = "put", call'[u].key \in Cached,
                 calm'[call'[u].key]
          PROVE  call'[u].value = data'[call'[u].key]
      <4>1. CASE u = t
        BY <2>1, <3>1, <3>3, <4>1
      <4>2. CASE u # t
        <5>1. call[u].key # k
          BY <2>2, <2>3, <3>3, <4>2 DEF V!Putting
        <5>. QED BY <2>1, <2>2, <2>3, <3>3, <4>2, <5>1
      <4>. QED BY <4>1, <4>2
    <3>4. ASSUME NEW c \in Cached, calm'[c], cache'[c].fresh
          PROVE  \/ cache'[c].value = data'[c]
                 \/ \E u \in Threads : call'[u].todo \in {"put", "drop"} /\ call'[u].key = c
      <4>1. CASE c = k
        BY <3>1, <4>1
      <4>2. CASE c # k
        BY <2>1, <2>2, <2>3, <3>2, <3>4, <4>2
      <4>. QED BY <4>1, <4>2
    <3>. QED BY <3>3, <3>4
  <2>. QED BY <2>4, <2>5
<1>4. ASSUME NEW t \in Threads, NEW k \in V!Keys, NEW v \in V!Answers, V!ChangeFails(t, k, v)
      PROVE  V!Following'
  <2>1. cache' = cache /\ call' = call
    BY <1>4 DEF V!ChangeFails
  <2>2. \A c \in Cached : calm'[c] => calm[c] /\ data'[c] = data[c]
    <3>1. CASE kind = "keyring"
      BY <1>4, <3>1 DEF V!ChangeFails, V!StoreFails, V!Stirred
    <3>2. CASE kind = "file"
      BY <1>4, <3>2 DEF V!ChangeFails, V!StoreFails, V!Stirred, V!Diverged
    <3>. QED BY <1>4, <3>1, <3>2 DEF V!ChangeFails, V!StoreFails
  <2>. QED BY <2>1, <2>2
<1>5. ASSUME NEW t \in Threads, V!Read(t) \/ V!ReadFails(t) PROVE V!Following'
  <2>1. /\ \A u \in Threads : u # t => call'[u] = call[u]
        /\ call[t].todo = "read" /\ data' = data /\ cache' = cache /\ calm' = calm
    BY <1>5 DEF V!Read, V!ReadFails
  <2>2. \/ call'[t].todo = "none"
        \/ call'[t].todo = "put" /\ call'[t].value = data[call'[t].key]
    BY <1>5 DEF V!Read, V!ReadFails, V!Idle
  <2>. QED BY <2>1, <2>2
<1>6. ASSUME NEW t \in Threads, V!CachePut(t) PROVE V!Following'
  BY <1>6 DEF V!CachePut, V!Calls, V!Idle
<1>7. ASSUME NEW t \in Threads, V!CacheDel(t) PROVE V!Following'
  BY <1>7 DEF V!CacheDel, V!Calls, V!Idle, V!NoEntry
<1>8. ASSUME NEW k \in Cached, V!Expire(k) PROVE V!Following'
  BY <1>8 DEF V!Expire, V!Putting
<1>9. CASE V!Restart
  BY <1>9 DEF V!Restart, V!NoEntry, V!Idle
<1>. QED BY <1>1, <1>2, <1>3, <1>4, <1>5, <1>6, <1>7, <1>8, <1>9 DEF V!Next

(* For any number of threads, secrets and values: what a call was told is   *)
(* kept survives the process unless a write was cut short, and the cache    *)
(* agrees with the store but for stirred keys (CachedVault, FileStore).     *)
THEOREM VaultKeeps == ASSUME V!Params PROVE V!Spec => [](V!Durable /\ V!CacheAgrees)
<1>1. V!Init => V!IInv
  <2>1. SUFFICES ASSUME V!Init PROVE V!IInv
    OBVIOUS
  <2>2. V!TypeOK
    BY <2>1 DEF V!Init, V!TypeOK, V!Empty, V!NoEntry, V!Calls, V!Answers
  <2>3. V!MapKeeps
    BY <2>1 DEF V!Init, V!MapKeeps, V!Opened, V!Empty
  <2>4. V!Following
    BY <2>1 DEF V!Init, V!Following, V!NoEntry, V!Idle
  <2>. QED BY <2>2, <2>3, <2>4 DEF V!IInv
<1>2. V!IInv /\ [V!Next]_(V!vars) => V!IInv'
  BY VaultTypes, VaultMap, VaultFollowing DEF V!IInv
<1>3. V!IInv => V!Durable
  <2>1. SUFFICES ASSUME V!IInv, kind # "memory", NEW k \in V!Keys
                 PROVE  promised[k] \in {"unknown", V!Kept[k]}
    BY DEF V!Durable
  <2>2. CASE kind = "keyring"
    BY <2>1, <2>2 DEF V!IInv, V!MapKeeps, V!Kept
  <2>3. CASE kind = "file"
    BY <2>1, <2>3 DEF V!IInv, V!MapKeeps, V!Kept
  <2>. QED BY <2>1, <2>2, <2>3 DEF V!IInv, V!TypeOK
<1>4. V!IInv => V!CacheAgrees
  BY DEF V!IInv, V!Following, V!CacheAgrees, V!Idle
<1>. QED BY <1>1, <1>2, <1>3, <1>4, PTL DEF V!Spec
=============================================================================
