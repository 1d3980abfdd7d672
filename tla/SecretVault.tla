----------------------------- MODULE SecretVault -----------------------------
(***************************************************************************)
(* mk-secrets: CachedVault in front of one of three stores, used by several *)
(* threads.  A store's own mutex makes each call of it one step; between    *)
(* the store and the cache the vault holds nothing.                         *)
(*   keyring  KeyringStore: kept by the system, a failing call changes      *)
(*            nothing                                                       *)
(*   file     FileStore: a map in memory, rewritten to its file as a whole  *)
(*   memory   MemoryStore: the map alone                                    *)
(* A write of the file may fail before the file is opened or leave it cut   *)
(* short (fs::write truncates in place); a process killed while it writes is *)
(* the second case followed by Restart.  What the app does with the vault   *)
(* is in SavedState.                                                        *)
(***************************************************************************)
EXTENDS Naturals

CONSTANTS
  Threads,
  Cached,    \* passwords and key passphrases, by kind and id
  Uncached,  \* key paths, which pass by the cache
  Values,
  None

\* Key paths are no kind of their own in the cache.
Params == Cached \cap Uncached = {} /\ None \notin Values

Keys == Cached \cup Uncached
Answers == Values \cup {None}
Empty == [k \in Keys |-> None]

VARIABLES
  kind,      \* which store is behind the vault
  data,      \* its map: FilePayload, the system's keyring or MemoryStore
  disk,      \* the file
  cut,       \* the file does not parse
  cache,     \* CachedVault.cache: value and age of each key's entry
  call,      \* what each thread has still to do
  promised,  \* history: what the last call that wrote a key was told to keep
  calm       \* history: keys whose cache entry no overlap or failure has touched

vars == <<kind, data, disk, cut, cache, call, promised, calm>>

NoEntry == [value |-> None, fresh |-> FALSE]
Idle == [todo |-> "none"]
Calls ==
  {Idle} \cup [todo : {"read", "drop"}, key : Keys]
         \cup [todo : {"put"}, key : Keys, value : Values]

TypeOK ==
  /\ kind \in {"keyring", "file", "memory"} /\ cut \in BOOLEAN
  /\ data \in [Keys -> Answers] /\ disk \in [Keys -> Answers]
  /\ cache \in [Cached -> [value : Answers, fresh : BOOLEAN]]
  /\ call \in [Threads -> Calls]
  /\ promised \in [Keys -> Answers \cup {"unknown"}] /\ calm \in [Cached -> BOOLEAN]

\* A value for key k that is still on its way to the cache.
Putting(k) == \E t \in Threads : call[t].todo = "put" /\ call[t].key = k
-----------------------------------------------------------------------------
(* The stores.                                                              *)

\* FileStore::open: a file that does not parse counts as empty.
Opened == IF cut THEN Empty ELSE disk

\* What the next process finds.
Kept ==
  CASE kind = "keyring" -> data
    [] kind = "file" -> Opened
    [] OTHER -> Empty

\* A failed set or delete whose change stays in the map of this process.
Diverged == kind = "file"

\* persist: the file becomes the map.
Persist(d) == disk' = d /\ cut' = FALSE

\* A call of the store that changes key k to v, and its answer.
StoreOk(k, v) ==
  /\ data' = [data EXCEPT ![k] = v]
  /\ IF kind = "file" THEN Persist(data') ELSE UNCHANGED <<disk, cut>>
  /\ promised' = [promised EXCEPT ![k] = v]

StoreFails(k, v) ==
  \/ kind = "keyring" /\ UNCHANGED <<data, disk, cut, promised>>
  \/ /\ kind = "file"
     /\ data' = [data EXCEPT ![k] = v]
     /\ \/ UNCHANGED <<disk, cut>> /\ promised' = [promised EXCEPT ![k] = "unknown"]
        \/ cut' = TRUE /\ disk' = disk /\ promised' = [i \in Keys |-> "unknown"]
-----------------------------------------------------------------------------
(* The vault.                                                               *)

\* Calm ends for a key whose value changes while an earlier one is on its way
\* to the cache, or whose change fails after it was made in memory.
Stirred(k, failed) ==
  calm' = [c \in Cached |-> calm[c] /\ (c = k => ~Putting(k) /\ ~(failed /\ Diverged))]

\* cache_get: a fresh entry is the answer, an old one is thrown away.
Get(t, k) ==
  /\ call[t] = Idle
  /\ IF k \in Cached /\ cache[k].fresh
     THEN UNCHANGED <<cache, call>>
     ELSE /\ cache' = IF k \in Cached THEN [cache EXCEPT ![k] = NoEntry] ELSE cache
          /\ call' = [call EXCEPT ![t] = [todo |-> "read", key |-> k]]
  /\ UNCHANGED <<kind, data, disk, cut, promised, calm>>

\* The store answers the get, or fails it; a value goes to the cache.
Read(t) ==
  /\ call[t].todo = "read"
  /\ LET k == call[t].key IN
     call' = [call EXCEPT ![t] =
                IF k \in Cached /\ data[k] # None
                THEN [todo |-> "put", key |-> k, value |-> data[k]] ELSE Idle]
  /\ UNCHANGED <<kind, data, disk, cut, cache, promised, calm>>

ReadFails(t) ==
  /\ kind = "keyring" /\ call[t].todo = "read"
  /\ call' = [call EXCEPT ![t] = Idle]
  /\ UNCHANGED <<kind, data, disk, cut, cache, promised, calm>>

\* set and delete: the store first, then the cache.
Change(t, k, v) ==
  /\ call[t] = Idle
  /\ StoreOk(k, v)
  /\ call' = [call EXCEPT ![t] =
                IF k \in Uncached THEN Idle
                ELSE IF v = None THEN [todo |-> "drop", key |-> k]
                ELSE [todo |-> "put", key |-> k, value |-> v]]
  /\ Stirred(k, FALSE)
  /\ UNCHANGED <<kind, cache>>

ChangeFails(t, k, v) ==
  /\ call[t] = Idle
  /\ StoreFails(k, v)
  /\ Stirred(k, TRUE)
  /\ UNCHANGED <<kind, cache, call>>

\* cache_put, at the end of a get or a set.
CachePut(t) ==
  /\ call[t].todo = "put"
  /\ cache' = [cache EXCEPT ![call[t].key] = [value |-> call[t].value, fresh |-> TRUE]]
  /\ call' = [call EXCEPT ![t] = Idle]
  /\ UNCHANGED <<kind, data, disk, cut, promised, calm>>

\* cache_del, at the end of a delete.
CacheDel(t) ==
  /\ call[t].todo = "drop"
  /\ cache' = [cache EXCEPT ![call[t].key] = NoEntry]
  /\ call' = [call EXCEPT ![t] = Idle]
  /\ UNCHANGED <<kind, data, disk, cut, promised, calm>>

\* The ttl of an entry passes; what it held no longer matters.
Expire(k) ==
  /\ cache[k].fresh
  /\ cache' = [cache EXCEPT ![k].fresh = FALSE]
  /\ calm' = [calm EXCEPT ![k] = @ \/ ~Putting(k)]
  /\ UNCHANGED <<kind, data, disk, cut, call, promised>>

\* The process ends, or is killed, and a new one opens the store.
Restart ==
  /\ data' = Kept
  /\ cache' = [k \in Cached |-> NoEntry] /\ call' = [t \in Threads |-> Idle]
  /\ calm' = [k \in Cached |-> TRUE]
  /\ promised' = IF kind = "memory" THEN Empty ELSE promised
  /\ UNCHANGED <<kind, disk, cut>>
-----------------------------------------------------------------------------
Init ==
  /\ kind \in {"keyring", "file", "memory"}
  /\ data = Empty /\ disk = Empty /\ cut = FALSE
  /\ cache = [k \in Cached |-> NoEntry] /\ call = [t \in Threads |-> Idle]
  /\ promised = Empty /\ calm = [k \in Cached |-> TRUE]

Next ==
  \/ \E t \in Threads :
       \/ \E k \in Keys : Get(t, k) \/ \E v \in Answers : Change(t, k, v) \/ ChangeFails(t, k, v)
       \/ Read(t) \/ ReadFails(t) \/ CachePut(t) \/ CacheDel(t)
  \/ \E k \in Cached : Expire(k)
  \/ Restart

Spec == Init /\ [][Next]_vars
-----------------------------------------------------------------------------
(* Properties.                                                              *)

(* The types, and: a fresh cache entry is what the store holds, but for keys *)
(* changed while an earlier value was on its way to the cache and keys whose *)
(* change failed half-way; with them the disagreement ends with the entry's  *)
(* ttl (get, set and delete of CachedVault, FileStore::set_password).        *)
CacheAgrees ==
  /\ TypeOK
  /\ \A k \in Cached :
       calm[k] /\ cache[k].fresh /\ (\A t \in Threads : call[t] = Idle \/ call[t].key # k)
         => cache[k].value = data[k]

(* What a set or delete was told is kept is what the next process finds, as  *)
(* long as no write of the file was cut short: a failed call for one key     *)
(* takes nothing from the others (FileStore::persist, open).                 *)
Durable == kind # "memory" => \A k \in Keys : promised[k] \in {"unknown", Kept[k]}
-----------------------------------------------------------------------------
(* What the documents say and the code does not do.                         *)

(* A password that was deleted is not handed out again: a get that has read  *)
(* it before puts it into the cache after the delete (CachedVault).          *)
DeletedGone ==
  \A k \in Cached :
    promised[k] = None /\ (\A t \in Threads : call[t] = Idle \/ call[t].key # k) => ~cache[k].fresh

(* A failed set of one secret leaves the others in place: the file is       *)
(* truncated before it is written (FileStore::persist).                      *)
OthersKept ==
  [][\A k \in Keys : Kept[k] # None /\ data[k] = data'[k] => Kept'[k] = Kept[k]]_vars
-----------------------------------------------------------------------------
(* The invariant behind the theorems (ServiceProofs).                       *)

\* What is promised is in the map too, so that writing the map keeps it.
MapKeeps ==
  /\ \A k \in Keys : promised[k] \in {"unknown", data[k]}
  /\ kind = "file" => \A k \in Keys : promised[k] \in {"unknown", Opened[k]}

\* Of a calm key only the store's value is on its way to the cache, and what
\* the cache holds is that value or about to be replaced.
Following ==
  /\ \A t \in Threads : call[t].todo = "put" /\ call[t].key \in Cached /\ calm[call[t].key]
       => call[t].value = data[call[t].key]
  /\ \A k \in Cached : calm[k] /\ cache[k].fresh
       => \/ cache[k].value = data[k]
          \/ \E t \in Threads : call[t].todo \in {"put", "drop"} /\ call[t].key = k

IInv == TypeOK /\ MapKeeps /\ Following
=============================================================================
