----------------------------- MODULE SavedState -----------------------------
(***************************************************************************)
(* What the application keeps between runs: the saved hosts, bookmarks and *)
(* settings of the UI, which a persister writes to one JSON file every few *)
(* seconds (mk-core persistence.rs, config.rs, bookmark.rs, and store.rs), *)
(* and the passwords, which live in a vault in memory and which a thread   *)
(* copies to the durable store of mk-secrets (keyring or file; main.rs).    *)
(* The process may be killed between any two steps.                         *)
(*                                                                         *)
(* A host is its id, its endpoint, its status and whether it is real; the   *)
(* settings are one of them, the bandwidth limit.  Jobs are in              *)
(* TransferQueue, known hosts in HostTrust, recent folders in Browser.      *)
(***************************************************************************)
EXTENDS Integers, Sequences, FiniteSets, FiniteSetsExt, SequencesExt

CONSTANTS
  Ids,        \* host ids; the id of a new host is made from its name
  Endpoints,  \* protocol, address, port and user
  Paths,
  Passwords,
  Limits, DefaultLimit,
  Seed,       \* the state of a first launch: hosts, bookmarks, limit
  Foreign,    \* bundles exported by other devices
  NoPassword,
  MaxEdits, MaxKills, MaxFaults   \* bounds: of the user, of crashes, of failing I/O

Hosts     == [id : Ids, ep : Endpoints, status : {"idle", "mounted"}, real : BOOLEAN]
Bookmarks == [host : Ids, path : Paths]
Snapshots == [hosts : Seq(Hosts), bookmarks : Seq(Bookmarks), limit : Limits]

\* No two hosts share an id, and nothing is bookmarked twice.
Distinct(hs, bs) ==
  /\ \A m, n \in DOMAIN hs : hs[m].id = hs[n].id => m = n
  /\ IsInjective(bs)

ASSUME StateAssumption ==
  /\ DefaultLimit \in Limits /\ NoPassword \notin Passwords
  /\ Seed \in Snapshots /\ Distinct(Seed.hosts, Seed.bookmarks)
  /\ Foreign \subseteq Snapshots
  /\ {MaxEdits, MaxKills, MaxFaults} \subseteq Nat

VARIABLES
  up,         \* whether the process runs
  android,    \* the build: fixtures are stripped, passwords are in a file
  hosts, bookmarks, limit,
  cap,        \* the limit that the transfers keep
  file,       \* the store file
  tmp,        \* the temporary file of a save
  export,     \* the exported bundle
  vault,      \* passwords in memory
  durable,    \* passwords in the durable store
  pending,    \* what the sync thread has yet to copy of its snapshot
  fresh,      \* history variable: the last change is in the file
  edits, kills, faults

ui       == <<hosts, bookmarks, limit, cap>>
disk     == <<file, tmp, export>>
secrets  == <<durable, pending>>
bounds   == <<edits, kills, faults>>
vars == <<up, android, ui, disk, vault, secrets, fresh, bounds>>

NoFile  == [kind |-> "missing"]
Corrupt == [kind |-> "corrupt"]
Holds(s) == [kind |-> "state", state |-> s]

\* Faulty variant: bookmarks are not part of what is saved.
CurrentUnmarked == [hosts |-> hosts, bookmarks |-> <<>>, limit |-> limit]

Current == [hosts |-> hosts, bookmarks |-> bookmarks, limit |-> limit]

NoPasswords == [i \in Ids |-> NoPassword]

\* The first of the positions in S; 0 when there is none.
First(S) == IF S = {} THEN 0 ELSE Min(S)

HostAt(hs, i) == First({n \in DOMAIN hs : hs[n].id = i})

\* The elements of s at the positions in S, in their order.
Chosen(s, S) ==
  LET upTo[n \in 0 .. Len(s)] ==
        IF n = 0 THEN <<>> ELSE IF n \in S THEN Append(upTo[n - 1], s[n]) ELSE upTo[n - 1]
  IN  upTo[Len(s)]

\* bookmark::add.
Added(bs, b) == IF Contains(bs, b) THEN bs ELSE <<b>> \o bs

Edit  == up /\ edits < MaxEdits /\ edits' = edits + 1 /\ UNCHANGED <<kills, faults>>
Fault == faults < MaxFaults /\ faults' = faults + 1
-----------------------------------------------------------------------------
(* The user.                                                                *)

\* Faulty variant: a host is added whether or not its id is known.
PutAlways(hs, h) == Append(hs, h)

\* A host with the id is replaced: the one that was edited, or another one
\* of the same name.
Put(hs, h) ==
  LET n == HostAt(hs, h.id)
  IN  IF n = 0 THEN Append(hs, h) ELSE [hs EXCEPT ![n] = h]

\* save_host_draft.
SaveHost(i, e, p) ==
  /\ Edit
  /\ hosts' = Put(hosts, [id |-> i, ep |-> e, status |-> "idle", real |-> TRUE])
  /\ vault' = IF p = NoPassword THEN vault ELSE [vault EXCEPT ![i] = p]
  /\ fresh' = "no"
  /\ UNCHANGED <<up, android, bookmarks, limit, cap, disk, secrets>>

\* set_password: the prompt, and a probe of a host that may never be saved.
EnterPassword(i, p) ==
  /\ Edit /\ vault' = [vault EXCEPT ![i] = p]
  /\ UNCHANGED <<up, android, ui, disk, secrets, fresh>>

\* mark_host_status.
Mount(i) ==
  LET n == HostAt(hosts, i) IN
  /\ Edit /\ n # 0 /\ hosts' = [hosts EXCEPT ![n].status = "mounted"] /\ fresh' = "no"
  /\ UNCHANGED <<up, android, bookmarks, limit, cap, disk, vault, secrets>>

ToggleBookmark(b) ==
  /\ Edit /\ HostAt(hosts, b.host) # 0 /\ fresh' = "no"
  /\ bookmarks' = IF Contains(bookmarks, b)
                  THEN Chosen(bookmarks, {n \in DOMAIN bookmarks : bookmarks[n] # b})
                  ELSE Added(bookmarks, b)
  /\ UNCHANGED <<up, android, hosts, limit, cap, disk, vault, secrets>>

\* The setters of the settings; the limit is also put into force.
SetLimit(v) ==
  /\ Edit /\ limit' = v /\ cap' = v /\ fresh' = "no"
  /\ UNCHANGED <<up, android, hosts, bookmarks, disk, vault, secrets>>

\* portable_host.
Portable(h) == [h EXCEPT !.status = "idle", !.real = TRUE]

\* export_config writes in place; an error leaves the old file.
Export ==
  /\ Edit
  /\ export' = Holds([Current EXCEPT !.hosts = [n \in DOMAIN @ |-> Portable(@[n])]])
  /\ UNCHANGED <<up, android, ui, file, tmp, vault, secrets, fresh>>

\* Faulty variant: the whole host is taken over.
MergedWhole(hs, h) ==
  LET n == First({m \in DOMAIN hs : hs[m].id = h.id \/ hs[m].ep = h.ep})
  IN  IF n = 0 THEN Append(hs, h) ELSE [hs EXCEPT ![n] = h]

\* The first host with the id or the endpoint takes what the file says, but
\* for its id and its status.
Merged(hs, h) ==
  LET n == First({m \in DOMAIN hs : hs[m].id = h.id \/ hs[m].ep = h.ep})
  IN  IF n = 0 THEN Append(hs, h) ELSE [hs EXCEPT ![n].ep = h.ep, ![n].real = TRUE]

\* Every host of the bundle in turn, and every bookmark.
MergedAll(hs, new) ==
  LET after[n \in 0 .. Len(new)] ==
        IF n = 0 THEN hs ELSE Merged(after[n - 1], Portable(new[n]))
  IN  after[Len(new)]

AddedAll(bs, new) ==
  LET after[n \in 0 .. Len(new)] == IF n = 0 THEN bs ELSE Added(after[n - 1], new[n])
  IN  after[Len(new)]

Bundles == Foreign \cup {f.state : f \in {export} \ {NoFile}}

\* apply_import: a bundle from the export file or from elsewhere.
Import(b) ==
  /\ Edit /\ fresh' = "no"
  /\ hosts' = MergedAll(hosts, b.hosts)
  /\ bookmarks' = AddedAll(bookmarks, b.bookmarks)
  /\ limit' = b.limit
  /\ UNCHANGED <<up, android, cap, disk, vault, secrets>>
-----------------------------------------------------------------------------
(* The persister and the thread that copies the vault.                      *)

\* persistence::save: the temporary file is written, and then renamed.
BeginSave ==
  /\ up /\ tmp = NoFile /\ tmp' = Holds(Current)
  /\ fresh' = IF fresh = "no" THEN "begun" ELSE fresh
  /\ UNCHANGED <<up, android, ui, file, export, vault, secrets, bounds>>

EndSave ==
  /\ up /\ tmp.kind = "state" /\ file' = tmp /\ tmp' = NoFile
  /\ fresh' = IF fresh = "begun" THEN "saved" ELSE fresh
  /\ UNCHANGED <<up, android, ui, export, vault, secrets, bounds>>

\* An error is ignored; the next round writes the temporary file again.
FailSave ==
  /\ up /\ tmp.kind = "state" /\ Fault /\ tmp' = NoFile
  /\ fresh' = IF fresh = "begun" THEN "no" ELSE fresh
  /\ UNCHANGED <<up, android, ui, file, export, vault, secrets, edits, kills>>

BeginSync ==
  /\ up /\ pending = NoPasswords /\ vault # NoPasswords /\ pending' = vault
  /\ UNCHANGED <<up, android, ui, disk, vault, durable, fresh, bounds>>

\* Faulty variant: only what the store does not have yet is copied.
CopiedNew(i) == IF durable[i] = NoPassword THEN pending[i] ELSE durable[i]

\* set_password of CachedVault and of the store behind it.
Copied(i) == pending[i]

SyncOne(i) ==
  /\ up /\ pending[i] # NoPassword /\ pending' = [pending EXCEPT ![i] = NoPassword]
  /\ \/ durable' = [durable EXCEPT ![i] = Copied(i)] /\ UNCHANGED faults
     \/ Fault /\ UNCHANGED durable
  /\ UNCHANGED <<up, android, ui, disk, vault, fresh, edits, kills>>
-----------------------------------------------------------------------------
(* The end of the process and the next launch.                              *)

\* What the UI held is lost; the variables keep it for the properties.
\* FileStore writes its file in place: a kill in the middle of it leaves a
\* file that the next launch cannot read, and takes for an empty one.
Kill ==
  /\ up /\ kills < MaxKills /\ kills' = kills + 1 /\ up' = FALSE
  /\ \/ UNCHANGED durable
     \/ android /\ pending # NoPasswords /\ durable' = NoPasswords
  /\ pending' = NoPasswords
  /\ tmp' \in {tmp} \cup IF tmp.kind = "state" THEN {Corrupt} ELSE {}
  /\ UNCHANGED <<android, ui, file, export, vault, fresh, edits, faults>>

\* Something else damages the file.
Damage ==
  /\ ~up /\ Fault /\ file.kind = "state" /\ file' = Corrupt
  /\ UNCHANGED <<up, android, ui, tmp, export, vault, secrets, fresh, edits, kills>>

\* strip_fixtures, in the builds for Android.
RealOnly(hs)   == Chosen(hs, {n \in DOMAIN hs : hs[n].real})
Linked(bs, hs) == Chosen(bs, {n \in DOMAIN bs : HostAt(hs, bs[n].host) # 0})
Kept(s) ==
  IF ~android THEN s
  ELSE [hosts |-> RealOnly(s.hosts), bookmarks |-> Linked(s.bookmarks, RealOnly(s.hosts)),
        limit |-> s.limit]

\* load, provide_store, and the passwords of the hosts that are saved.  The
\* limit of the transfers starts at its default.
StartWith(s, stored) ==
  /\ up' = TRUE /\ cap' = DefaultLimit /\ tmp' = NoFile
  /\ hosts' = Kept(s).hosts /\ bookmarks' = Kept(s).bookmarks /\ limit' = s.limit
  /\ vault' = [i \in Ids |-> IF stored /\ HostAt(s.hosts, i) # 0 THEN durable[i] ELSE NoPassword]
  /\ UNCHANGED <<android, export, secrets, edits, kills>>

LaunchStored ==
  /\ ~up /\ file.kind = "state" /\ StartWith(file.state, TRUE)
  /\ UNCHANGED <<file, fresh, faults>>

\* A corrupt file is moved aside.
LaunchAnew ==
  /\ ~up /\ file.kind # "state" /\ StartWith(Seed, FALSE)
  /\ file' = NoFile /\ fresh' = "no" /\ UNCHANGED faults

\* A file that cannot be read counts as missing, and is written over later.
LaunchUnread ==
  /\ ~up /\ file.kind = "state" /\ Fault /\ StartWith(Seed, FALSE)
  /\ fresh' = "no" /\ UNCHANGED file
-----------------------------------------------------------------------------
Init ==
  /\ up = FALSE /\ android \in BOOLEAN
  /\ hosts = <<>> /\ bookmarks = <<>> /\ limit = DefaultLimit /\ cap = DefaultLimit
  /\ file = NoFile /\ tmp = NoFile /\ export = NoFile
  /\ vault = NoPasswords /\ durable = NoPasswords /\ pending = NoPasswords
  /\ fresh = "no" /\ edits = 0 /\ kills = 0 /\ faults = 0

User ==
  \/ \E i \in Ids, e \in Endpoints, p \in Passwords \cup {NoPassword} : SaveHost(i, e, p)
  \/ \E i \in Ids, p \in Passwords : EnterPassword(i, p)
  \/ \E i \in Ids : Mount(i)
  \/ \E b \in Bookmarks : ToggleBookmark(b)
  \/ \E v \in Limits : SetLimit(v)
  \/ Export
  \/ \E b \in Bundles : Import(b)

Sync   == BeginSync \/ \E i \in Ids : SyncOne(i)
Launch == LaunchStored \/ LaunchAnew \/ LaunchUnread
Save   == BeginSave \/ EndSave \/ FailSave

Next == User \/ Save \/ Sync \/ Kill \/ Damage \/ Launch

Spec == Init /\ [][Next]_vars

\* The thread sleeps for three seconds and goes on.
LiveSpec == Spec /\ WF_vars(Sync)
-----------------------------------------------------------------------------
(* Properties.                                                              *)

Files == {NoFile, Corrupt} \cup [kind : {"state"}, state : Snapshots]

(* Every variable has its type; no two hosts share an id, and nothing is   *)
(* bookmarked twice (save_host_draft, merge_import, bookmark::add).         *)
TypeOK ==
  /\ {up, android} \subseteq BOOLEAN
  /\ hosts \in Seq(Hosts) /\ bookmarks \in Seq(Bookmarks) /\ {limit, cap} \subseteq Limits
  /\ Distinct(hosts, bookmarks)
  /\ {file, tmp, export} \subseteq Files
  /\ \A f \in {vault, durable, pending} : f \in [Ids -> Passwords \cup {NoPassword}]
  /\ fresh \in {"no", "begun", "saved"}

(* What the user has changed survives a kill, unless it comes before the    *)
(* first save after the change is over: the next launch that can read the   *)
(* file brings back the same hosts, bookmarks and settings, but for the     *)
(* fixtures ("so a crash mid-write doesn't corrupt the previous good         *)
(* store", persistence::save and load).                                      *)
SurvivesKill ==
  [][(LaunchStored /\ fresh = "saved") =>
       LET last == Kept([hosts |-> hosts, bookmarks |-> bookmarks, limit |-> limit])
       IN  hosts' = last.hosts /\ bookmarks' = last.bookmarks /\ limit' = last.limit]_vars

(* A password that has been entered reaches the durable store, unless the  *)
(* user enters another one or the process ends first, whatever is entered   *)
(* while the thread copies its snapshot (main.rs, set_password).            *)
PasswordsKept ==
  \A i \in Ids, p \in Passwords :
    (up /\ vault[i] = p) ~> (durable[i] = p \/ vault[i] # p \/ ~up)

(* An import drops no saved host, gives none another id and leaves mounted  *)
(* what is mounted, whichever way ids and endpoints of the file match       *)
(* ("Existing mount status is kept", merge_import).                          *)
ImportKeeps ==
  [][(\E b \in Bundles : Import(b)) =>
       \A n \in DOMAIN hosts :
         /\ n \in DOMAIN hosts'
         /\ hosts'[n].id = hosts[n].id /\ hosts'[n].status = hosts[n].status]_vars
-----------------------------------------------------------------------------
(* What the documents say and the code does not do.                         *)

(* "Global cap across all jobs" (mk-core settings.rs:71): the transfers     *)
(* keep the limit that the settings show.                                    *)
LimitInForce == up => cap = limit

(* "hosts, settings, and known-host fingerprints" are imported              *)
(* (config.rs:1): no endpoint is lost by it.                                 *)
EndpointsKept ==
  [][(\E b \in Bundles : Import(b)) =>
       \A n \in DOMAIN hosts : \E m \in DOMAIN hosts' : hosts'[m].ep = hosts[n].ep]_vars

(* Every bookmark is of a saved host, so that the list shows it.            *)
BookmarksShown == up => \A n \in DOMAIN bookmarks : HostAt(hosts, bookmarks[n].host) # 0

(* "Hosts, settings, known hosts and queue state survive app restarts"      *)
(* (persistence.rs:3): the file is never written over unread.               *)
NothingForgotten == [][Launch => (file.kind = "state" => Current' = Kept(file.state))]_vars

(* What is in the durable store of passwords stays there.                   *)
SecretsSurvive == [][\A i \in Ids : durable[i] # NoPassword => durable'[i] # NoPassword]_vars
=============================================================================
