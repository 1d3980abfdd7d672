--------------------------- MODULE ConnectionPool ---------------------------
(***************************************************************************)
(* The connection pool (crates/mk-vfs/src/pool.rs) with the sessions of    *)
(* its backends (sftp.rs, nfs.rs) and the tasks that use them: listings    *)
(* and file operations, transfers and media streams, each of which gets a  *)
(* backend once and keeps it to its end (app/src/main.rs, BackendAdapter). *)
(*                                                                         *)
(* The pool is a sequence of entries, least recently used first; `idle`    *)
(* counts the leading entries that were used longer ago than idle_timeout. *)
(* A backend is named by a number and is gone when neither the pool nor a  *)
(* task refers to it; its number is used again then.                       *)
(***************************************************************************)
EXTENDS Integers, Sequences, FiniteSets, SequencesExt

CONSTANTS
  Hosts,
  Nfs,          \* the hosts reached by NFS; the others are reached by SFTP
  Tasks,
  MaxSessions,
  MaxEdits,     \* bound: edits of one host; then none is edited any more
  MaxDrops      \* bound: sessions lost to the network

ASSUME PoolAssumption ==
  /\ IsFiniteSet(Hosts) /\ Hosts # {} /\ Nfs \subseteq Hosts
  /\ IsFiniteSet(Tasks) /\ Tasks \cap {"nobody", "user", "reaper"} = {}
  /\ MaxSessions \in Nat \ {0} /\ MaxEdits \in Nat /\ MaxDrops \in Nat

Backends == 1 .. (MaxSessions + Cardinality(Tasks) + 1)
Configs  == 0 .. MaxEdits

VARIABLES
  config,   \* the connection settings of each host, as a version
  pool,     \* the entries [host, backend, config]
  idle,     \* how many of the first entries are past idle_timeout
  lock,     \* the pool's mutex: who holds it, and the removed entries to close
  session,  \* of each backend: "none", "live" or "dead" (the peer is gone)
  task,     \* the tasks
  drops     \* sessions lost so far

vars == <<config, pool, idle, lock, session, task, drops>>

Free    == [by |-> "nobody", closing |-> <<>>]
Unused  == [pc |-> "idle", host |-> CHOOSE h \in Hosts : TRUE, config |-> 0,
            backend |-> 0]
Pooled  == {pool[i].backend : i \in DOMAIN pool}
Using   == {task[t].backend : t \in {u \in Tasks : task[u].pc \notin {"idle", "want"}}}
Closing == {lock.closing[i].backend : i \in DOMAIN lock.closing}

\* A task is inside an operation of b and holds b's session mutex.
Busy(b) ==
  \E t \in Tasks : /\ task[t].backend = b
                   /\ \/ task[t].pc = "connect"
                      \/ task[t].pc = "op" /\ task[t].host \notin Nfs
-----------------------------------------------------------------------------
(* The pool.                                                                *)

\* A task asks for the backend of a host whose settings it has copied.
Want(t, h) ==
  /\ task[t].pc = "idle"
  /\ task' = [task EXCEPT ![t] = [pc |-> "want", host |-> h, config |-> config[h],
                                  backend |-> 0]]
  /\ UNCHANGED <<config, pool, idle, lock, session, drops>>

EntryOf(h) == {i \in DOMAIN pool : pool[i].host = h}

\* Faulty variant: the settings are not compared.
HitAny(t) == EntryOf(task[t].host)

\* The entry that serves t as it is.
Hit(t) == {i \in EntryOf(task[t].host) : pool[i].config = task[t].config}

Has(t, b) == task' = [task EXCEPT ![t].pc = "got", ![t].backend = b]

GetCached(t) ==
  /\ task[t].pc = "want" /\ lock.by = "nobody"
  /\ \E i \in Hit(t) :
       /\ pool' = Append(RemoveAt(pool, i), pool[i])
       /\ idle' = IF i <= idle THEN idle - 1 ELSE idle
       /\ Has(t, pool[i].backend)
  /\ UNCHANGED <<config, lock, session, drops>>

\* Faulty variant: room is made for one entry too few.
OverfullOffByOne(n) == n > MaxSessions

Overfull(n) == n >= MaxSessions

\* Faulty variant: prune_idle takes nothing.
ExpiredNever == 0

\* How many entries prune_idle takes.
Expired == idle

\* The entries from the i-th to the j-th leave the pool; `by` closes them and
\* keeps the pool locked till then.
Evict(i, j, by) ==
  /\ pool' = SubSeq(pool, 1, i - 1) \o SubSeq(pool, j + 1, Len(pool))
  /\ idle' = IF idle < i THEN idle ELSE IF idle <= j THEN i - 1 ELSE idle - (j - i + 1)
  /\ lock' = [by |-> by, closing |-> SubSeq(pool, i, j)]

\* No entry serves t: one with other settings goes, or the least recently used
\* one if there is no room.
GetMiss(t) ==
  /\ task[t].pc = "want" /\ lock.by = "nobody"
  /\ Hit(t) = {}
  /\ \/ \E i \in EntryOf(task[t].host) : Evict(i, i, t)
     \/ EntryOf(task[t].host) = {} /\ Evict(1, IF Overfull(Len(pool)) THEN 1 ELSE 0, t)
  /\ UNCHANGED <<config, session, task, drops>>

\* Faulty variant: it waits for the tasks that still hold the backend.
DisconnectUnused ==
  /\ lock.closing # <<>>
  /\ Head(lock.closing).backend \notin Using
  /\ session' = [session EXCEPT ![Head(lock.closing).backend] = "none"]
  /\ lock' = [lock EXCEPT !.closing = Tail(@)]
  /\ UNCHANGED <<config, pool, idle, task, drops>>

\* disconnect, as soon as no operation of the backend is going on.
Disconnect ==
  /\ lock.closing # <<>>
  /\ ~Busy(Head(lock.closing).backend)
  /\ session' = [session EXCEPT ![Head(lock.closing).backend] = "none"]
  /\ lock' = [lock EXCEPT !.closing = Tail(@)]
  /\ UNCHANGED <<config, pool, idle, task, drops>>

\* The new backend connects when it is used.
GetNew(t) ==
  /\ lock.by = t /\ lock.closing = <<>>
  /\ LET b == CHOOSE b \in Backends \ (Pooled \cup Using) : TRUE
     IN  /\ pool' = Append(pool, [host |-> task[t].host, backend |-> b,
                                  config |-> task[t].config])
         /\ session' = [session EXCEPT ![b] = "none"]
         /\ Has(t, b)
  /\ lock' = Free
  /\ UNCHANGED <<config, idle, drops>>

\* drop_host, by the DISCONNECT button.
DropHost(h) ==
  /\ lock.by = "nobody"
  /\ \E i \in EntryOf(h) : Evict(i, i, "user")
  /\ UNCHANGED <<config, session, task, drops>>

\* prune_idle, by the reaper.
PruneIdle ==
  /\ lock.by = "nobody"
  /\ Expired > 0
  /\ Evict(1, Expired, "reaper")
  /\ UNCHANGED <<config, session, task, drops>>

Unlock ==
  /\ lock.by \in {"user", "reaper"} /\ lock.closing = <<>>
  /\ lock' = Free
  /\ UNCHANGED <<config, pool, idle, session, task, drops>>

\* The oldest entry that is not idle has not been used for idle_timeout.
Ages ==
  /\ idle < Len(pool)
  /\ idle' = idle + 1
  /\ UNCHANGED <<config, pool, lock, session, task, drops>>

\* The user saves other settings for a host.
EditHost(h) ==
  /\ \A k \in Hosts : config[k] < MaxEdits
  /\ config' = [config EXCEPT ![h] = @ + 1]
  /\ UNCHANGED <<pool, idle, lock, session, task, drops>>
-----------------------------------------------------------------------------
(* The backends.                                                            *)

Go(t, pc) == task' = [task EXCEPT ![t].pc = pc]

\* The task is through, by success, error or panic.
Leave(t) ==
  /\ task' = [task EXCEPT ![t] = Unused]
  /\ UNCHANGED <<config, pool, idle, lock, drops>>

\* A backend without references is dropped with its session.
Settle(t) ==
  session' = IF task[t].backend \in Pooled \/ task[t].backend \in Closing
                \/ \E u \in Tasks \ {t} : task[u].pc # "idle"
                                          /\ task[u].backend = task[t].backend
             THEN session ELSE [session EXCEPT ![task[t].backend] = "none"]

\* establish (ensure): connect if there is no session.
Establish(t) ==
  /\ task[t].pc = "got"
  /\ ~Busy(task[t].backend)
  /\ Go(t, IF session[task[t].backend] = "none" THEN "connect" ELSE "ready")
  /\ UNCHANGED <<config, pool, idle, lock, session, drops>>

Connected(t) ==
  /\ task[t].pc = "connect"
  /\ session' = [session EXCEPT ![task[t].backend] = "live"]
  /\ Go(t, "ready")
  /\ UNCHANGED <<config, pool, idle, lock, drops>>

ConnectFails(t) ==
  /\ task[t].pc = "connect"
  /\ Leave(t) /\ Settle(t)

\* lock_session takes the mutex again for the operation.  A session that was
\* closed in between makes the SFTP backend panic (unwrap) and the NFS backend
\* return an error.
Locked(t) ==
  /\ task[t].pc = "ready"
  /\ ~Busy(task[t].backend)
  /\ IF session[task[t].backend] = "none"
     THEN Leave(t) /\ Settle(t)
     ELSE Go(t, "op") /\ UNCHANGED <<config, pool, idle, lock, session, drops>>

\* The operation is done: the task has another one, or reads or writes a file
\* it has opened, or is through.  An NFS operation works on the mount it took,
\* closed or not, and may find a new connection by itself.
OpSucceeds(t) ==
  /\ task[t].pc = "op"
  /\ session[task[t].backend] = "dead" => task[t].host \in Nfs
  /\ \/ \E pc \in {"got", "stream"} :
          Go(t, pc) /\ UNCHANGED <<config, pool, idle, lock, session, drops>>
     \/ Leave(t) /\ Settle(t)

OpFails(t) ==
  /\ task[t].pc = "op"
  /\ session[task[t].backend] = "dead"
  /\ Leave(t) /\ Settle(t)

\* The next block of an open file.  NfsReader and NfsWriter look for the mount
\* again; an SFTP file may outlive the session it was opened in.
StreamFails(t) ==
  /\ task[t].pc = "stream"
  /\ session[task[t].backend] # "live"
  /\ Leave(t) /\ Settle(t)

StreamEnds(t) ==
  /\ task[t].pc = "stream"
  /\ \/ session[task[t].backend] = "live"
     \/ session[task[t].backend] = "none" /\ task[t].host \notin Nfs
  /\ Go(t, "got")
  /\ UNCHANGED <<config, pool, idle, lock, session, drops>>

\* The peer is gone; nobody tells the backend.
SessionDies(b) ==
  /\ drops < MaxDrops
  /\ session[b] = "live"
  /\ session' = [session EXCEPT ![b] = "dead"]
  /\ drops' = drops + 1
  /\ UNCHANGED <<config, pool, idle, lock, task>>
-----------------------------------------------------------------------------
Init ==
  /\ config = [h \in Hosts |-> 0]
  /\ pool = <<>> /\ idle = 0 /\ lock = Free
  /\ session = [b \in Backends |-> "none"]
  /\ task = [t \in Tasks |-> Unused]
  /\ drops = 0

Get(t)  == GetCached(t) \/ GetMiss(t)
Step(t) ==
  \/ Establish(t)
  \/ Connected(t)
  \/ ConnectFails(t)
  \/ Locked(t)
  \/ OpSucceeds(t)
  \/ OpFails(t)
  \/ StreamFails(t)
  \/ StreamEnds(t)

Next ==
  \/ \E t \in Tasks : \E h \in Hosts : Want(t, h)
  \/ \E t \in Tasks : Get(t) \/ GetNew(t) \/ Step(t)
  \/ Disconnect
  \/ Unlock
  \/ \E h \in Hosts : DropHost(h) \/ EditHost(h)
  \/ PruneIdle
  \/ Ages
  \/ \E b \in Backends : SessionDies(b)

Spec == Init /\ [][Next]_vars

\* Time passes for a pool nobody uses.
Quiet == \A t \in Tasks : task[t].pc = "idle"

\* Operations end (SFTP requests time out); whoever waits for a mutex gets it,
\* as tokio's mutexes are fair; the reaper runs, and an unused pool ages.
Fairness ==
  /\ SF_vars(Disconnect) /\ WF_vars(Unlock)
  /\ \A t \in Tasks :
       /\ SF_vars(Get(t)) /\ WF_vars(GetNew(t))
       /\ SF_vars(Establish(t)) /\ WF_vars(Connected(t) \/ ConnectFails(t))
       /\ SF_vars(Locked(t)) /\ WF_vars(OpSucceeds(t) \/ OpFails(t))
       /\ WF_vars(StreamFails(t) \/ StreamEnds(t))
  /\ SF_vars(PruneIdle)
  /\ WF_vars(Quiet /\ Ages)

FairSpec == Spec /\ Fairness
-----------------------------------------------------------------------------
(* Properties.                                                              *)

Entries == [host: Hosts, backend: Backends, config: Configs]

\* The variables have their types.
TypeOK ==
  /\ config \in [Hosts -> Configs]
  /\ pool \in Seq(Entries) /\ idle \in 0 .. Len(pool)
  /\ lock \in [by : Tasks \cup {"nobody", "user", "reaper"}, closing : Seq(Entries)]
  /\ lock.by = "nobody" => lock.closing = <<>>
  /\ session \in [Backends -> {"none", "live", "dead"}]
  /\ task \in [Tasks -> [pc: {"idle", "want", "got", "connect", "ready", "op", "stream"},
                         host: Hosts, config: Configs, backend: Backends \cup {0}]]
  /\ drops \in 0 .. MaxDrops

\* Types; and the pool has room for the backend that is being made, one entry
\* per host, and no two hosts ever share a backend (74-108).
PoolSound ==
  /\ TypeOK
  /\ Len(pool) + (IF lock.by \in Tasks THEN 1 ELSE 0) <= MaxSessions
  /\ \A i, j \in DOMAIN pool :
       i # j => pool[i].host # pool[j].host /\ pool[i].backend # pool[j].backend
  /\ Pooled \cap Closing = {}

\* A task is handed a backend that was made with the settings the task has; the
\* session of an edited host is never used for the new settings (16-34, 77).
OwnSettings ==
  [][\A t \in Tasks :
       task[t].pc = "want" /\ task'[t].pc = "got" =>
         \E i \in DOMAIN pool' :
            pool'[i] = [host |-> task[t].host, config |-> task[t].config,
                        backend |-> task'[t].backend]]_vars

\* Whoever asks for a backend gets one, although the pool stays locked while
\* the evicted backend's operations end (73-109).
GetServed == \A t \in Tasks : task[t].pc = "want" ~> task[t].pc # "want"

Stale(h) == \E i \in 1 .. idle : pool[i].host = h

\* A session that stays unused is closed (119-133).
IdleClosed == \A h \in Hosts : Stale(h) ~> ~Stale(h)

\* pool.rs:119, "Close and drop sessions idle longer than `idle_timeout`": the
\* reaper closes no session that a file is being transferred over.
BusyNotReaped ==
  [][lock'.by = "reaper" /\ lock.by = "nobody" =>
       \A t \in Tasks : task[t].pc = "stream" =>
         \A i \in DOMAIN lock'.closing : lock'.closing[i].backend # task[t].backend]_vars

\* pool.rs:4-5, "Backends reconnect lazily on the next op, so a network blip
\* self-heals without user action": a lost session is replaced.
Heals == \A b \in Backends : session[b] = "dead" ~> session[b] # "dead"
=============================================================================
