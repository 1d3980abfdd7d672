------------------------------- MODULE Browser -------------------------------
(***************************************************************************)
(* The file browser of the UI (crates/mk-ui/src/store.rs, with the         *)
(* handlers of browser.rs, connections.rs and dialogs.rs): the selected    *)
(* host, the current directory, the listing that is shown, the recent      *)
(* folders, and the calls of the backend that are under way.               *)
(* The UI runs on one thread; a handler runs to its first await, and what  *)
(* comes after the await is a step of its own.                              *)
(*                                                                         *)
(* A path is the sequence of its names.  A listing is known by the host    *)
(* and directory it comes from.  Left out: which rows are selected, the    *)
(* filter, the host's free space (a second await of list_dir), and the     *)
(* inspector's delayed details, all of which follow the same pattern.       *)
(***************************************************************************)
EXTENDS Integers, Sequences, FiniteSets, SequencesExt

CONSTANTS
  Hosts,
  Locked,        \* the hosts with password authentication
  Root,          \* the initial path of each host
  Paths,
  Bookmarks,     \* places that are bookmarked, and recent at the launch
  Calls,         \* bound: calls of the backend under way, each in a slot
  RecentLimit    \* RECENT_LIMIT

ASSUME BrowserAssumption ==
  /\ IsFiniteSet(Hosts) /\ Locked \subseteq Hosts
  /\ Root \in [Hosts -> Paths] /\ Bookmarks \subseteq [host : Hosts, path : Paths]
  /\ \A p \in Paths : p \in Seq(ToSet(p)) /\ (p # <<>> => Front(p) \in Paths)
  /\ RecentLimit \in Nat /\ RecentLimit >= 2 /\ Calls # {}

Places   == [host : Hosts, path : Paths]
Statuses == {"mounted", "idle", "unreachable"}

VARIABLES
  selected,   \* the selected host
  cwd,        \* the current directory
  listing,    \* what the main pane shows: state, and where it comes from
  recent,     \* whether Recent or Bookmarks is shown in place of the listing
  recents,    \* the recent folders, newest first
  status,     \* of each host
  vault,      \* hosts whose password is known
  dialog,
  call        \* the calls under way

vars == <<selected, cwd, listing, recent, recents, status, vault, dialog, call>>

NoCall   == [kind |-> "none"]
Load(h, p)         == [kind |-> "load", host |-> h, path |-> p]
Commit(h, p)       == [kind |-> "commit", host |-> h, path |-> p]
Operate(h)         == [kind |-> "op", host |-> h]

\* The skeleton; Unasked is the one of a launch that waits for a password,
\* which looks the same, before any call for it is made.
Loading     == [state |-> "loading"]
Unasked     == [state |-> "unasked"]
Rows(h, p)  == [state |-> "rows", host |-> h, path |-> p]
Blank(p)    == [state |-> "blank", path |-> p]

NoDialog    == [kind |-> "none"]
Ask(kind, h) == [kind |-> kind, host |-> h]
Sheet(kind)  == [kind |-> kind]

Here == [host |-> selected, path |-> cwd]

\* spawn: the call takes a free slot.
Spawn(c) == \E s \in Calls : call[s] = NoCall /\ call' = [call EXCEPT ![s] = c]

UnderMount(p, root) == IsPrefix(root, p)
Parent(p) == IF p = <<>> THEN <<>> ELSE Front(p)
Unlocked(h) == h \notin Locked \/ h \in vault

\* Faulty variant: the folder stays at its old place too.
TouchedTwice(h, p) ==
  SubSeq(<<[host |-> h, path |-> p]>> \o recents, 1,
         IF Len(recents) < RecentLimit THEN Len(recents) + 1 ELSE RecentLimit)

\* The recent folders without a place, which is listed once at most.
Without(place) ==
  IF place \in ToSet(recents)
  THEN RemoveAt(recents, CHOOSE i \in DOMAIN recents : recents[i] = place) ELSE recents

\* recent::touch.
Touched(h, p) ==
  LET place  == [host |-> h, path |-> p]
      others == Without(place)
  IN  SubSeq(<<place>> \o others, 1, IF Len(others) < RecentLimit THEN Len(others) + 1
                                     ELSE RecentLimit)
-----------------------------------------------------------------------------
(* Opening places.                                                          *)

\* The browser turns to h's directory p and lists it, the old rows in view.
\* (The selected host is listed: it is h.)
TurnTo(h, p) ==
  /\ selected' = h /\ cwd' = p /\ recents' = Touched(h, p)
  /\ Spawn(Load(h, p)) /\ listing' = IF listing = Unasked THEN Loading ELSE listing

AskPassword(h) ==
  /\ dialog' = Ask("password", h)
  /\ UNCHANGED <<selected, cwd, listing, recents, call>>

SelectOther(h) ==
  /\ h # selected
  /\ IF ~Unlocked(h) THEN AskPassword(h) /\ UNCHANGED recent
     ELSE TurnTo(h, Root[h]) /\ recent' = FALSE /\ UNCHANGED dialog
  /\ UNCHANGED <<status, vault>>

\* A tap on the host that is selected: leave Recent, or by its status.
SelectSame ==
  /\ recent' = FALSE
  /\ IF recent THEN UNCHANGED <<selected, cwd, listing, recents, call, dialog>>
     ELSE CASE status[selected] \in {"mounted", "unreachable"} ->
                 /\ dialog' = Ask("disconnect", selected)
                 /\ UNCHANGED <<selected, cwd, listing, recents, call>>
            [] OTHER -> TurnTo(selected, Root[selected]) /\ UNCHANGED dialog
  /\ UNCHANGED <<status, vault>>

ShowRecent ==
  /\ recent' = TRUE
  /\ UNCHANGED <<selected, cwd, listing, recents, status, vault, dialog, call>>

\* set_cwd.
SetCwd(h, p) ==
  /\ selected' = h /\ cwd' = p /\ recents' = Touched(h, p)
  /\ listing' = Loading /\ Spawn(Load(h, p))

\* Faulty variant: the password is not asked for.
OpenRecentUnasked(r) ==
  /\ recent' = FALSE
  /\ SetCwd(r.host, r.path)
  /\ UNCHANGED <<dialog, status, vault>>

OpenRecent(r) ==
  /\ recent' = FALSE
  /\ IF r.host # selected /\ ~Unlocked(r.host) THEN AskPassword(r.host)
     ELSE SetCwd(r.host, r.path) /\ UNCHANGED dialog
  /\ UNCHANGED <<status, vault>>

\* commit_cwd_if_readable: list p of the host, and move only then.
CommitCwd(h, p) ==
  /\ selected' = h
  /\ IF p = cwd THEN UNCHANGED call ELSE Spawn(Commit(h, p))
  /\ UNCHANGED <<cwd, listing, recents>>

\* A bookmark of a folder, or of a file in it; nothing checks the mount.
OpenBookmark(b) ==
  /\ recent' = FALSE
  /\ IF b.host # selected /\ ~Unlocked(b.host) THEN AskPassword(b.host)
     ELSE CommitCwd(b.host, b.path) /\ UNCHANGED dialog
  /\ UNCHANGED <<status, vault>>

\* A tap on a row that is a folder: its name is joined to the directory.
OpenDir(name) ==
  /\ ~recent /\ listing.state = "rows" /\ status[selected] # "idle"
  /\ CommitCwd(selected, Append(cwd, name))
  /\ UNCHANGED <<recent, status, vault, dialog>>

\* A crumb, and the row `..`.
NavigateTo(p) ==
  /\ ~recent /\ IsStrictPrefix(p, cwd) /\ UnderMount(p, Root[selected])
  /\ CommitCwd(selected, p)
  /\ UNCHANGED <<recent, status, vault, dialog>>

GoUp == cwd # Root[selected] /\ cwd # <<>> /\ NavigateTo(Parent(cwd))
-----------------------------------------------------------------------------
(* Dialogs.                                                                 *)

\* mkdir, rename, chmod, rm: the verbs below the listing.
OpenOperation ==
  /\ ~recent
  /\ dialog' = Sheet("op")
  /\ UNCHANGED <<selected, cwd, listing, recent, recents, status, vault, call>>

CloseDialog ==
  /\ dialog.kind # "none" /\ dialog' = NoDialog
  /\ UNCHANGED <<selected, cwd, listing, recent, recents, status, vault, call>>

\* The name is joined to the directory when the dialog is submitted; the
\* dialog stays open until the answer.
SubmitOperation ==
  /\ dialog.kind = "op"
  /\ Spawn(Operate(selected))
  /\ UNCHANGED <<selected, cwd, listing, recent, recents, status, vault, dialog>>

SubmitPassword ==
  /\ dialog.kind = "password"
  /\ vault' = vault \cup {dialog.host} /\ dialog' = NoDialog
  /\ TurnTo(dialog.host, Root[dialog.host]) /\ recent' = FALSE
  /\ UNCHANGED status

\* disconnect_host.
SubmitDisconnect ==
  /\ dialog.kind = "disconnect"
  /\ status' = [status EXCEPT ![dialog.host] = "idle"] /\ dialog' = NoDialog
  /\ cwd' = Root[dialog.host] /\ listing' = Blank(Root[dialog.host]) /\ recent' = FALSE
  /\ UNCHANGED <<selected, recents, vault, call>>

\* TRUST in the sheet that a listing has opened.
SubmitTrust ==
  /\ dialog.kind = "trust" /\ dialog' = NoDialog
  /\ Spawn(Load(selected, cwd))
  /\ UNCHANGED <<selected, cwd, listing, recent, recents, status, vault>>
-----------------------------------------------------------------------------
(* Answers of the backend.                                                  *)

Done(s) == call' = [call EXCEPT ![s] = NoCall]

Mounted(h)     == status' = [status EXCEPT ![h] = "mounted"]
Unreachable(h) == status' = IF status[h] = "mounted" THEN [status EXCEPT ![h] = "unreachable"]
                            ELSE status

\* Faulty variant: the directory is not compared.
CurrentAlways(c) == TRUE

\* A late answer for another directory is dropped.
Current(c) == cwd = c.path

\* list_dir, and its callers reload and set_cwd.
Listed(s) ==
  LET c == call[s] IN
  /\ c.kind = "load" /\ Unlocked(c.host) /\ Done(s)
  /\ IF Current(c) THEN Mounted(c.host) /\ listing' = Rows(c.host, c.path)
     ELSE UNCHANGED <<status, listing>>
  /\ UNCHANGED <<selected, cwd, recent, recents, vault, dialog>>

\* Faulty variant: an error leaves the skeleton.
NotListedKept(s) ==
  /\ call[s].kind = "load" /\ Done(s)
  /\ UNCHANGED <<selected, cwd, listing, recent, recents, status, vault, dialog>>

\* A refusal of the key opens the sheet; a denied folder leaves the status.
NotListed(s) ==
  LET c == call[s] IN
  /\ c.kind = "load" /\ Done(s)
  /\ IF Current(c)
     THEN /\ listing' = Blank(c.path)
          /\ \/ UNCHANGED <<status, dialog>>
             \/ Unreachable(c.host) /\ dialog' \in {dialog, Sheet("trust")}
     ELSE UNCHANGED <<listing, status, dialog>>
  /\ UNCHANGED <<selected, cwd, recent, recents, vault>>

Committed(s) ==
  LET c == call[s] IN
  /\ c.kind = "commit" /\ Unlocked(c.host) /\ Done(s)
  /\ cwd' = c.path /\ recents' = Touched(selected, c.path)
  /\ listing' = Rows(c.host, c.path) /\ Mounted(c.host)
  /\ UNCHANGED <<selected, recent, vault, dialog>>

NotCommitted(s) ==
  /\ call[s].kind = "commit" /\ Done(s)
  /\ UNCHANGED <<selected, cwd, listing, recent, recents, status, vault, dialog>>

\* The operation is done: whatever dialog is open closes, and the directory
\* that is current by now is listed, by a call in the same slot.
Operated(s) ==
  /\ call[s].kind = "op" /\ Unlocked(call[s].host)
  /\ dialog' = NoDialog
  /\ call' = [call EXCEPT ![s] = Load(selected, cwd)]
  /\ UNCHANGED <<selected, cwd, listing, recent, recents, status, vault>>

NotOperated(s) ==
  /\ call[s].kind = "op" /\ Done(s)
  /\ UNCHANGED <<selected, cwd, listing, recent, recents, status, vault, dialog>>
-----------------------------------------------------------------------------
\* provide_store: the saved place, if it is under the mount, is listed unless
\* the host's password has to be asked for first.
Init ==
  /\ selected \in Hosts /\ vault = {}
  /\ cwd \in {p \in Paths : UnderMount(p, Root[selected])}
  /\ listing = (IF Unlocked(selected) THEN Loading ELSE Unasked)
  /\ recent = FALSE
  /\ recents \in {<<Here>>} \cup {<<Here, r>> : r \in Bookmarks \ {Here}}
  /\ status \in [Hosts -> Statuses]
  /\ dialog = IF Unlocked(selected) THEN NoDialog ELSE Ask("password", selected)
  /\ LET first == CHOOSE s \in Calls : TRUE
     IN  call = [s \in Calls |-> IF s = first /\ Unlocked(selected) THEN Load(selected, cwd)
                                 ELSE NoCall]

User ==
  \/ \E h \in Hosts : SelectOther(h)
  \/ SelectSame \/ ShowRecent \/ GoUp
  \/ \E r \in ToSet(recents) : OpenRecent(r)
  \/ \E b \in Bookmarks : OpenBookmark(b)
  \/ \E p \in Paths : NavigateTo(p)
  \/ \E p \in Paths : p # <<>> /\ Parent(p) = cwd /\ OpenDir(Last(p))
  \/ OpenOperation \/ CloseDialog \/ SubmitOperation \/ SubmitPassword
  \/ SubmitDisconnect \/ SubmitTrust

Answer(s) ==
  \/ Listed(s) \/ NotListed(s) \/ Committed(s) \/ NotCommitted(s)
  \/ Operated(s) \/ NotOperated(s)

Next == User \/ \E s \in Calls : Answer(s)

Spec == Init /\ [][Next]_vars

\* Every call of the backend is answered, by an error in the end.
LiveSpec == Spec /\ \A s \in Calls : WF_vars(Answer(s))
-----------------------------------------------------------------------------
(* Properties.                                                              *)

CallRecords ==
  {NoCall} \cup [kind : {"load", "commit"}, host : Hosts, path : Paths]
    \cup [kind : {"op"}, host : Hosts]
Listings ==
  {Loading, Unasked} \cup [state : {"rows"}, host : Hosts, path : Paths]
    \cup [state : {"blank"}, path : Paths]
Dialogs ==
  [kind : {"password"}, host : Locked] \cup [kind : {"disconnect"}, host : Hosts]
    \cup [kind : {"none", "op", "trust"}]

(* Every variable has its type (Store), and a recent folder is listed once *)
(* in a list that keeps its limit (recent::touch).                          *)
TypeOK ==
  /\ selected \in Hosts /\ cwd \in Paths /\ listing \in Listings /\ recent \in BOOLEAN
  /\ recents \in Seq(Places) /\ Len(recents) <= RecentLimit /\ IsInjective(recents)
  /\ status \in [Hosts -> Statuses] /\ vault \in SUBSET Locked
  /\ dialog \in Dialogs /\ call \in [Calls -> CallRecords]

Requested == \E s \in Calls : call[s].kind = "load" /\ call[s].path = cwd

(* The pane shows the listing of the current directory, or a call that     *)
(* will show it is under way: an answer that comes late for a directory     *)
(* that has been left is dropped, and no answer that is needed is           *)
(* (list_dir, reload, set_cwd, commit_cwd_if_readable).  Only a launch that *)
(* waits for a password shows nothing.                                      *)
ShowsCwd ==
  \/ Requested
  \/ listing.state \in {"rows", "blank"} /\ listing.path = cwd
  \/ listing = Unasked

(* A host with password authentication is never selected before its        *)
(* password is known, whether from the rail, a recent folder or a bookmark, *)
(* so that the UI does not connect without it.                               *)
PasswordFirst == [][selected' # selected => Unlocked(selected)']_vars

(* The skeleton of a directory that is being listed does not stay forever: *)
(* it ends with the answer, unless the user moves on or the launch waits    *)
(* for a password (set_cwd, provide_store).                                  *)
LoadingEnds ==
  \A p \in Paths : ~<>[](listing = Loading /\ cwd = p)
-----------------------------------------------------------------------------
(* What the documents say and the code does not do.                         *)

(* "the user may have navigated elsewhere while this list was in flight;   *)
(* don't apply stale results to the wrong directory" (store.rs:2405): rows *)
(* that come up are those of the selected host's current directory.         *)
NoStaleRows ==
  [][(listing' # listing /\ listing'.state = "rows") =>
       listing'.host = selected' /\ listing'.path = cwd']_vars
=============================================================================
