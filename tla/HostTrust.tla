----------------------------- MODULE HostTrust -----------------------------
(***************************************************************************)
(* Host keys: the known-hosts store of the transport (mk-vfs/              *)
(* known_hosts.rs), the handshakes that consult it (sftp.rs), the list of  *)
(* known hosts that the settings show and the state file keeps (store.rs), *)
(* the sheets and dialogs that ask the user (dialogs.rs, settings.rs), and *)
(* the launch that puts the store together again (app/src/main.rs).        *)
(*                                                                         *)
(* A key stands for its fingerprint and type. A handshake takes two steps, *)
(* as check_server_key lets go of the store between `check` and the call   *)
(* that records what it found. The store's file is written in place, and   *)
(* every caller ignores a failing save: <<>> is a file that is absent or   *)
(* cannot be parsed. All addresses lie in one domain.                      *)
(***************************************************************************)
EXTENDS Integers, Sequences, FiniteSets, FiniteSetsExt

CONSTANTS
  Addrs,          \* the addresses of servers
  Keys,           \* the keys that servers present
  Certs,          \* those that are host certificates
  NoKey,
  Domain,         \* the pattern `*.domain`, which matches every address
  Star,           \* the pattern `*`
  Forms,          \* the endpoints typed into the form of a host
  Foreign,        \* the patterns of imported entries and markers
  Bundles,        \* the bundles to import: one record, and the strict setting
  MaxEntries,     \* bound: entries of the store
  MaxKnown,       \* bound: records of the settings' list
  MaxProbes,      \* bound: probes in flight
  MaxEdits        \* bound: imports, markers added, switches of the strict
                  \* setting, and saves that fail

Ports     == {22, 2222}
Endpoints == [addr : Addrs, port : Ports]

\* A host pattern is an address with a port (written without it for 22), the
\* hash of one, or a pattern with a star.
Hashed   == [hashed : Endpoints]
Patterns == Endpoints \cup Hashed \cup {Domain, Star}
Markers  == {"normal", "ca", "revoked"}

\* ui: the entry has the id of a record of the settings' list.
Entries == [host : Patterns, fp : Keys \cup {NoKey}, marker : Markers,
            pending : Keys \cup {NoKey}, ui : BOOLEAN]
Records == [ep : Endpoints, fp : Keys, pending : Keys \cup {NoKey}]

ASSUME TrustAssumption ==
  /\ Certs \subseteq Keys /\ NoKey \notin Keys
  /\ Forms \subseteq Endpoints /\ Foreign \subseteq Patterns \ {Star} /\ Bundles \subseteq [record : Records, setting : BOOLEAN]
  /\ {MaxEntries, MaxKnown, MaxProbes, MaxEdits} \subseteq Nat
  /\ {Domain, Star} \cap (Endpoints \cup Hashed) = {} /\ Domain # Star

VARIABLES
  entries,    \* the store, in its order
  file,       \* the store's file
  known,      \* the list of the settings
  setting,    \* `strict host key checking` as the settings show it
  strict,     \* the flag that the transport reads
  saved,      \* the state file: the list and the setting
  dialog,     \* the open dialog
  probes,     \* the probes in flight
  edits,      \* imports, markers and switches so far
  faults,     \* saves that failed so far
  consented,  \* history: pairs of address and key that the user agreed to
  trusted,    \* history: the key last accepted for an endpoint
  revocations \* history: the keys revoked, with their patterns

vars == <<entries, file, known, setting, strict, saved, dialog, probes, edits,
          faults, consented, trusted, revocations>>
store   == <<entries, file, faults>>
history == <<consented, trusted, revocations>>
settings == <<setting, strict, saved>>

\* The elements of s at the positions in S, in their order.
Nth(S, k)    == CHOOSE i \in S : Cardinality({j \in S : j <= i}) = k
Chosen(s, S) == [k \in 1 .. Cardinality(S) |-> s[Nth(S, k)]]

\* An entry, or a record, that takes a key.
Taking(x, k) == [x EXCEPT !.fp = k, !.pending = NoKey]
-----------------------------------------------------------------------------
(* The lookup.                                                              *)

\* host_matches: an entry for an address alone matches each of its ports.
Covers(pattern, ep) ==
  \/ pattern = ep
  \/ pattern \in Endpoints /\ pattern.port = 22 /\ pattern.addr = ep.addr
  \/ \E h \in {ep, [ep EXCEPT !.port = 22]} : pattern = [hashed |-> h]
  \/ pattern = Domain

Revoked(ep, k) ==
  \E i \in DOMAIN entries :
    /\ entries[i].marker = "revoked" /\ entries[i].fp = k
    /\ (entries[i].host = Star \/ Covers(entries[i].host, ep))

Certified(ep, k) ==
  /\ k \in Certs
  /\ \E i \in DOMAIN entries : /\ entries[i].marker = "ca"
                               /\ Covers(entries[i].host, ep)
                               /\ k \in {entries[i].fp, entries[i].pending}

Matches(ep) == {i \in DOMAIN entries : /\ entries[i].marker = "normal"
                                       /\ Covers(entries[i].host, ep)}

\* Faulty variant: revocation is looked up last.
CheckKnownFirst(ep, k) ==
  IF Certified(ep, k) \/ \E i \in Matches(ep) : entries[i].fp = k THEN "trusted"
  ELSE IF Revoked(ep, k) THEN "revoked"
  ELSE IF Matches(ep) = {} THEN "new"
  ELSE "changed"

Check(ep, k) ==
  IF Revoked(ep, k) THEN "revoked"
  ELSE IF Certified(ep, k) THEN "trusted"
  ELSE IF Matches(ep) = {} THEN "new"
  ELSE IF \E i \in Matches(ep) : entries[i].fp = k THEN "trusted"
  ELSE "changed"

Accepted(ep) == {k \in Keys : Check(ep, k) = "trusted"}
-----------------------------------------------------------------------------
(* Writing the store.                                                       *)

Entry(host, k, marker) ==
  [host |-> host, fp |-> k, marker |-> marker, pending |-> NoKey, ui |-> FALSE]

\* The write may fail before it starts, or leave a file that is cut off.
Save(new) ==
  /\ entries' = new
  /\ \/ file' = new /\ UNCHANGED faults
     \/ /\ edits + faults < MaxEdits /\ faults' = faults + 1
        /\ file' \in {file, <<>>}

Pushed(e) == Len(entries) < MaxEntries /\ Save(Append(entries, e))

\* Faulty variant: the entry is not written to the file.
AddUnsaved(ep, k) ==
  LET same == {i \in DOMAIN entries : entries[i].marker = "normal" /\ entries[i].host = ep}
  IN  /\ UNCHANGED <<file, faults>>
      /\ IF same = {} THEN Len(entries) < MaxEntries
                           /\ entries' = Append(entries, Entry(ep, k, "normal"))
         ELSE entries' = [entries EXCEPT ![Min(same)] = Taking(@, k)]

\* The key of an endpoint is accepted.
Add(ep, k) ==
  LET same == {i \in DOMAIN entries : entries[i].marker = "normal" /\ entries[i].host = ep}
  IN  IF same = {} THEN Pushed(Entry(ep, k, "normal"))
      ELSE Save([entries EXCEPT ![Min(same)] = Taking(@, k)])

\* Faulty variant: any entry that matches takes the new key as pending.
NoteChangedAnyMarker(ep, k) ==
  LET any == {i \in DOMAIN entries : Covers(entries[i].host, ep)}
  IN  Save([entries EXCEPT ![Min(any)].pending = k])

\* Faulty variant: the changed key replaces the known one.
NoteChangedTrusting(ep, k) ==
  IF Matches(ep) = {} THEN Pushed(Entry(ep, k, "normal"))
  ELSE Save([entries EXCEPT ![Min(Matches(ep))].fp = k])

\* A changed key waits for a review; an entry that was removed in between is
\* made again, without a key.
NoteChanged(ep, k) ==
  IF Matches(ep) = {}
  THEN Pushed([Entry(ep, NoKey, "normal") EXCEPT !.pending = k])
  ELSE Save([entries EXCEPT ![Min(Matches(ep))].pending = k])

\* The entries with the id of a record: the launch has copied them from the list.
SameId(ep) == {i \in DOMAIN entries : entries[i].ui /\ entries[i].host = ep}

Reviewed(ep) ==
  [i \in DOMAIN entries |->
     IF i \in SameId(ep) /\ entries[i].pending # NoKey
     THEN Taking(entries[i], entries[i].pending)
     ELSE entries[i]]

Without(ep) == Chosen(entries, DOMAIN entries \ SameId(ep))
-----------------------------------------------------------------------------
(* The user accepts a key: the store's entry, and the record of the list.   *)

\* The record that takes the key: the first for the address alone or for the
\* address with this port.
Mine(ep) == {i \in DOMAIN known : known[i].ep.addr = ep.addr /\ known[i].ep.port \in {22, ep.port}}

Listed(ep, k) ==
  IF Mine(ep) = {}
  THEN /\ Len(known) < MaxKnown
       /\ known' = Append(known, [ep |-> ep, fp |-> k, pending |-> NoKey])
  ELSE known' = [known EXCEPT ![Min(Mine(ep))] = Taking(@, k)]

Noted(ep, k) ==
  /\ consented' = consented \cup {<<ep.addr, k>>}
  /\ trusted' = {t \in trusted : t[1] # ep} \cup {<<ep, k>>}
  /\ UNCHANGED revocations

AcceptHostKey(ep, k) == Add(ep, k) /\ Listed(ep, k) /\ Noted(ep, k)

\* probe: what the form's button does next (Idle and Failed both test).
NoDialog   == [kind |-> "none"]
Sheet(ep, k) == [kind |-> "trust", ep |-> ep, key |-> k]
Draft(ep)  == [kind |-> "draft", ep |-> ep, probe |-> "test", pending |-> NoKey]

Trust ==
  /\ dialog.kind = "trust"
  /\ AcceptHostKey(dialog.ep, dialog.key)
  /\ dialog' = NoDialog
  /\ UNCHANGED <<settings, probes, edits>>

CloseDialog ==
  /\ dialog.kind # "none" /\ dialog' = NoDialog
  /\ UNCHANGED <<store, known, settings, probes, edits, history>>

\* NEW HOST or EDIT, and edits of the address and port: what a test has found
\* stays in the form.
OpenDraft(ep) ==
  /\ dialog' = Draft(ep)
  /\ UNCHANGED <<store, known, settings, probes, edits, history>>

EditDraft(ep) ==
  /\ dialog.kind = "draft" /\ dialog' = [dialog EXCEPT !.ep = ep]
  /\ UNCHANGED <<store, known, settings, probes, edits, history>>

\* TEST.
StartProbe ==
  /\ dialog.kind = "draft" /\ dialog.probe = "test"
  /\ Cardinality(probes) < MaxProbes
  /\ dialog' = [dialog EXCEPT !.probe = "testing"]
  /\ probes' = probes \cup {[ep |-> dialog.ep, key |-> NoKey, result |-> "dial"]}
  /\ UNCHANGED <<store, known, settings, edits, history>>

\* Faulty variant: a form without a pending key is taken to have one.
SaveDraftBlindly ==
  /\ dialog.kind = "draft" /\ dialog.probe = "success"
  /\ AcceptHostKey(dialog.ep, dialog.pending)
  /\ dialog' = NoDialog
  /\ UNCHANGED <<settings, probes, edits>>

\* TRUST & SAVE, or SAVE.
SaveDraft ==
  /\ dialog.kind = "draft" /\ dialog.probe = "success"
  /\ IF dialog.pending = NoKey THEN UNCHANGED <<store, known, history>>
     ELSE AcceptHostKey(dialog.ep, dialog.pending)
  /\ dialog' = NoDialog
  /\ UNCHANGED <<settings, probes, edits>>

ReviewedRecord(r) ==
  IF r.pending = NoKey THEN r ELSE Taking(r, r.pending)

\* ACCEPT of a row that is marked as changed: the first record with its id.
Review(i) ==
  LET r     == known[i]
      first == Min({j \in DOMAIN known : known[j].ep = r.ep})
      keys  == ({known[first].pending} \cup {entries[j].pending : j \in SameId(r.ep)}) \ {NoKey}
  IN
  /\ r.pending # NoKey
  /\ known' = [known EXCEPT ![first] = ReviewedRecord(@)]
  /\ IF SameId(r.ep) = {} THEN UNCHANGED store ELSE Save(Reviewed(r.ep))
  /\ consented' = consented \cup {<<r.ep.addr, k>> : k \in keys}
  /\ trusted' = {t \in trusted : t[1].addr # r.ep.addr}
  /\ UNCHANGED <<settings, dialog, probes, edits, revocations>>

\* DELETE of a row that is marked as changed.
RemoveKnownHost(i) ==
  LET r == known[i] IN
  /\ r.pending # NoKey
  /\ known' = Chosen(known, {j \in DOMAIN known : known[j].ep # r.ep})
  /\ Save(Without(r.ep))
  /\ trusted' = {t \in trusted : t[1].addr # r.ep.addr}
  /\ UNCHANGED <<settings, dialog, probes, edits, consented, revocations>>

\* `wipe all credentials`.
WipeCredentials ==
  /\ known # <<>> /\ known' = <<>>
  /\ UNCHANGED <<store, settings, dialog, probes, edits, history>>

ToggleStrict ==
  /\ edits + faults < MaxEdits /\ edits' = edits + 1
  /\ setting' = ~setting /\ strict' = ~setting
  /\ UNCHANGED <<store, known, saved, dialog, probes, history>>

\* A bundle with one known host is imported: its settings replace the app's.
ImportConfig(b) ==
  LET r == b.record IN
  /\ edits + faults < MaxEdits /\ edits' = edits + 1
  /\ setting' = b.setting
  /\ IF \E i \in DOMAIN known : known[i].ep = r.ep /\ known[i].fp = r.fp
     THEN UNCHANGED <<known, consented>>
     ELSE /\ Len(known) < MaxKnown /\ known' = Append(known, r)
          /\ consented' = consented \cup {<<r.ep.addr, r.fp>>}
  /\ UNCHANGED <<store, strict, saved, dialog, probes, trusted, revocations>>
-----------------------------------------------------------------------------
(* The store's operations for OpenSSH files and markers.                    *)

\* Who the entry makes acceptable, and what it revokes.
Imported(e) ==
  LET on == {x \in Endpoints : Covers(e.host, x)} IN
  /\ consented' = IF e.marker = "revoked" THEN consented
                  ELSE consented \cup {<<ep.addr, e.fp>> : ep \in on}
  /\ revocations' = IF e.marker = "revoked" THEN revocations \cup {<<e.host, e.fp>>}
                    ELSE revocations

\* One line of a known_hosts file.
ImportOpenSsh(e) ==
  /\ edits + faults < MaxEdits /\ edits' = edits + 1
  /\ IF \E i \in DOMAIN entries : entries[i].host = e.host /\ entries[i].fp = e.fp
     THEN UNCHANGED <<store, consented, revocations>>
     ELSE Pushed(e) /\ Imported(e)
  /\ UNCHANGED <<known, settings, dialog, probes, trusted>>

AddMarker(e) ==
  /\ edits + faults < MaxEdits /\ edits' = edits + 1
  /\ Pushed(e) /\ Imported(e)
  /\ UNCHANGED <<known, settings, dialog, probes, trusted>>

AddRevoked(host, k)       == AddMarker(Entry(host, k, "revoked"))
AddCertAuthority(host, k) == AddMarker(Entry(host, k, "ca"))
-----------------------------------------------------------------------------
(* Handshakes: check_server_key looks the server's key up, lets go of the  *)
(* store, and then records what it found.  The two steps of a listing or a  *)
(* transfer are taken as one, those of a probe, which runs the same code    *)
(* in the background of an open form, are apart.                            *)

\* Whether the handshake fails for the key.
Refused(result) == result \in {"changed", "revoked"} \cup (IF strict THEN {"new"} ELSE {})

Recorded(ep, k, result) ==
  \/ result = "new" /\ ~strict /\ Add(ep, k) /\ Noted(ep, k)
  \/ result = "changed" /\ NoteChanged(ep, k) /\ UNCHANGED history
  \/ /\ result \in {"trusted", "revoked"} \cup (IF strict THEN {"new"} ELSE {})
     /\ UNCHANGED <<store, history>>

\* A listing that is still shown opens the sheet for a key that is refused,
\* a revoked one too; a transfer just fails.
Connect(ep, k) ==
  /\ Recorded(ep, k, Check(ep, k))
  /\ dialog' \in {dialog} \cup (IF Refused(Check(ep, k)) THEN {Sheet(ep, k)} ELSE {})
  /\ UNCHANGED <<known, settings, probes, edits>>

\* The server presents k to a probe.
ProbeCheck(p, k) ==
  /\ p.result = "dial"
  /\ probes' = (probes \ {p}) \cup {[p EXCEPT !.key = k, !.result = Check(p.ep, k)]}
  /\ UNCHANGED <<store, known, settings, dialog, edits, history>>

\* The answer goes to whichever form is open by now; after the key, a probe
\* can still fail to authenticate.
ProbeRecord(p) ==
  /\ p.result # "dial"
  /\ Recorded(p.ep, p.key, p.result)
  /\ probes' = probes \ {p}
  /\ IF dialog.kind # "draft" THEN UNCHANGED dialog
     ELSE IF Refused(p.result)
     THEN dialog' = [dialog EXCEPT !.probe = "success", !.pending = p.key]
     ELSE \E r \in {"success", "test"} : dialog' = [dialog EXCEPT !.probe = r]
  /\ UNCHANGED <<known, settings, edits>>

Unreachable(p) ==
  /\ p.result = "dial" /\ probes' = probes \ {p}
  /\ dialog' = IF dialog.kind = "draft" THEN [dialog EXCEPT !.probe = "test"] ELSE dialog
  /\ UNCHANGED <<store, known, settings, edits, history>>
-----------------------------------------------------------------------------
(* The state file and the launch.                                           *)

\* The persister, every three seconds.
Persist ==
  /\ saved' = [known |-> known, setting |-> setting]
  /\ UNCHANGED <<store, known, setting, strict, dialog, probes, edits, history>>

\* load, then merge_known_hosts: the records that no entry has.
FromRecord(r) ==
  [host |-> r.ep, fp |-> r.fp, marker |-> "normal", pending |-> r.pending, ui |-> TRUE]

Merged(list) ==
  LET new == Chosen(list, {n \in DOMAIN list :
               /\ ~\E i \in DOMAIN file : file[i].host = list[n].ep /\ file[i].fp = list[n].fp
               /\ ~\E m \in 1 .. n - 1 : list[m].ep = list[n].ep /\ list[m].fp = list[n].fp})
  IN  file \o [n \in DOMAIN new |-> FromRecord(new[n])]

\* The process ends, at any moment, and is started again.
Relaunch ==
  /\ Len(Merged(saved.known)) <= MaxEntries
  /\ entries' = Merged(saved.known)
  /\ known' = saved.known /\ setting' = saved.setting /\ strict' = saved.setting
  /\ dialog' = NoDialog /\ probes' = {}
  /\ UNCHANGED <<file, saved, edits, faults, history>>

\* A first launch.
Init ==
  /\ entries = <<>> /\ file = <<>> /\ known = <<>>
  /\ setting = TRUE /\ strict = TRUE
  /\ saved = [known |-> <<>>, setting |-> TRUE]
  /\ dialog = NoDialog /\ probes = {} /\ edits = 0 /\ faults = 0
  /\ consented = {} /\ trusted = {} /\ revocations = {}

Next ==
  \/ Trust \/ CloseDialog \/ StartProbe \/ SaveDraft
  \/ \E ep \in Forms : OpenDraft(ep) \/ EditDraft(ep)
  \/ \E ep \in Endpoints, k \in Keys : Connect(ep, k)
  \/ \E i \in DOMAIN known : Review(i) \/ RemoveKnownHost(i)
  \/ WipeCredentials \/ ToggleStrict
  \/ \E b \in Bundles : ImportConfig(b)
  \/ \E p \in Foreign, k \in Keys :
       AddCertAuthority(p, k) \/ \E m \in Markers : ImportOpenSsh(Entry(p, k, m))
  \/ \E p \in Foreign \cup {Star}, k \in Keys : AddRevoked(p, k)
  \/ \E p \in probes : \/ ProbeRecord(p) \/ Unreachable(p)
                       \/ \E k \in Keys : ProbeCheck(p, k)
  \/ Persist \/ Relaunch

Spec == Init /\ [][Next]_vars
-----------------------------------------------------------------------------
(* Properties.                                                              *)

Probes  == [ep : Endpoints, key : {NoKey}, result : {"dial"}]
             \cup [ep : Endpoints, key : Keys, result : {"trusted", "new", "changed", "revoked"}]
Dialogs == {NoDialog} \cup [kind : {"trust"}, ep : Endpoints, key : Keys]
             \cup [kind : {"draft"}, ep : Endpoints, probe : {"test", "testing", "success"},
                   pending : Keys \cup {NoKey}]

(* Every variable has its type (KhEntry, KnownHost, Dialog).                *)
TypeOK ==
  /\ entries \in Seq(Entries) /\ file \in Seq(Entries)
  /\ known \in Seq(Records)
  /\ setting \in BOOLEAN /\ strict \in BOOLEAN
  /\ saved \in [known : Seq(Records), setting : BOOLEAN]
  /\ dialog \in Dialogs /\ probes \in SUBSET Probes
  /\ edits \in 0 .. MaxEdits /\ faults \in 0 .. MaxEdits
  /\ consented \in SUBSET (Addrs \X Keys)
  /\ trusted \in SUBSET (Endpoints \X Keys)
  /\ revocations \in SUBSET (Patterns \X Keys)

(* check_fingerprint accepts a key for a server only when the user has     *)
(* agreed to that key for that address: in a sheet, a form, a review, an   *)
(* import, or by turning strict checking off; whatever servers present,    *)
(* changed keys wait for, and launches merge.                               *)
AcceptsOnlyConsented ==
  \A ep \in Endpoints : \A k \in Accepted(ep) : <<ep.addr, k>> \in consented

(* A key that an entry revokes is refused from then on for every            *)
(* endpoint that the pattern matches, whatever is accepted, reviewed,      *)
(* imported or merged later, over launches, as long as saves succeed.      *)
RevokedRefused ==
  faults = 0 =>
    \A r \in revocations : \A ep \in Endpoints :
      (r[1] = Star \/ Covers(r[1], ep)) => Check(ep, r[2]) = "revoked"

(* The key that was accepted last for an endpoint is accepted until it is  *)
(* reviewed, deleted or revoked: `add` reaches the entry that the lookup   *)
(* finds, and the file that the next launch loads.                          *)
TrustLasts ==
  faults = 0 => \A t \in trusted : Check(t[1], t[2]) \in {"trusted", "revoked"}

(* A handshake that ends with a changed, revoked or trusted key makes no   *)
(* key acceptable or unacceptable, for any endpoint: note_changed only     *)
(* marks an entry, even one that has changed since the lookup.              *)
RefusalChangesNoTrust ==
  [][(\E p \in probes \ probes' : p.result # "new" /\ ProbeRecord(p)) =>
       \A ep \in Endpoints : Accepted(ep)' = Accepted(ep)]_vars
-----------------------------------------------------------------------------
(* What the documents say and the code does not do.                         *)

(* "Classic TOFU only when strict checking is off" (sftp.rs:98): no server *)
(* becomes known by connecting while the settings show strict checking.    *)
TofuOnlyWhenOff ==
  [][\A ep \in Endpoints, k \in Keys :
       setting /\ Check(ep, k) = "new" /\ Connect(ep, k) => UNCHANGED entries]_vars

(* "`wipe all credentials`: remove every key, password and known host"     *)
(* (store.rs:2003): afterwards no server's key is accepted.                 *)
WipeForgets ==
  [][WipeCredentials => \A ep \in Endpoints : Accepted(ep)' = {}]_vars
=============================================================================
