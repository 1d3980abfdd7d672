------------------------------- MODULE FileOps -------------------------------
(***************************************************************************)
(* File operations of the UI (crates/mk-ui/src/store.rs, with the handlers *)
(* of browser.rs and dialogs.rs): the rows that are shown, the selection,   *)
(* the dialogs, and the place each operation acts at.  An operation is      *)
(* chosen by the name of a row; the host and the directory are those of the *)
(* moment it is started.  This module asks whether they are those of the    *)
(* row.  The UI runs on one thread; what follows an await is a step.        *)
(*                                                                         *)
(* Left out: passwords, recents and the pane that is in view (see Browser), *)
(* hidden and filtered rows, the half second of a long press, and what an   *)
(* operation does at the backend.  A dialog covers the browser, so that     *)
(* nothing behind it can be tapped.                                         *)
(***************************************************************************)
EXTENDS Sequences, SequencesExt

CONSTANTS
  Hosts,
  Root,       \* the initial path of each host
  Paths,      \* a path is the sequence of its names
  Names,      \* of entries
  Folders,    \* the names that are folders
  Recents,    \* places in the list of recent folders
  Bookmarks,  \* bookmarked places: with a file in it, or NoName
  Calls,      \* bound: calls of the backend under way, each in a slot
  NoName

Places == [host : Hosts, path : Paths]

ASSUME FileOpsAssumption ==
  /\ Root \in [Hosts -> Paths] /\ Recents \subseteq Places /\ NoName \notin Names
  /\ Bookmarks \subseteq [at : Places, file : Names \cup {NoName}]

VARIABLES
  selected,   \* the selected host
  cwd,        \* the current directory
  rows,       \* the rows shown, and where they come from; none while loading
  selection,  \* the names that are selected, and where they were when chosen
  want,       \* pending_select: the file of a bookmark that is being opened
  dialog,
  idle,       \* the hosts that are not mounted
  call,       \* the calls under way
  acted,      \* history: the operations of the last step: at, and where seen
  sure        \* history: the user has waited for each answer (see Waited)

vars == <<selected, cwd, rows, selection, want, dialog, idle, call, acted, sure>>

NoCall   == [kind |-> "none"]
NoDialog == [kind |-> "none"]
Here     == [host |-> selected, path |-> cwd]
Quiet    == \A s \in Calls : call[s] = NoCall

\* spawn: the call takes a free slot.
Spawn(c) == \E s \in Calls : call[s] = NoCall /\ call' = [call EXCEPT ![s] = c]
To(kind, place) == [kind |-> kind, at |-> place]

Shown(place, names) == [at |-> place, names |-> names]
Blank(place)        == Shown(place, {})

\* The user does nothing while a call is under way.
Waited == sure' = (sure /\ Quiet)

Act(seen, at)  == acted' = {[at |-> at, seen |-> s] : s \in seen}
ActsOnNothing  == acted' = {}
-----------------------------------------------------------------------------
(* Turning to another place.  No dialog is in the way.                       *)

\* The directory is listed, the old rows in view.
TurnTo(h, kept) ==
  /\ selected' = h /\ cwd' = Root[h] /\ selection' = kept
  /\ Spawn(To("reload", [host |-> h, path |-> Root[h]]))

SelectOther(h) ==
  /\ h # selected /\ dialog = NoDialog /\ ActsOnNothing /\ Waited
  /\ TurnTo(h, {})
  /\ UNCHANGED <<rows, want, dialog, idle>>

\* A tap on the selected host: it is listed again when it is idle, and what
\* is selected stays selected; otherwise the sheet asks to disconnect.
SelectSame ==
  /\ dialog = NoDialog /\ ActsOnNothing /\ Waited
  /\ IF selected \in idle THEN TurnTo(selected, selection) /\ UNCHANGED dialog
     ELSE dialog' = [kind |-> "disconnect"] /\ UNCHANGED <<selected, cwd, selection, call>>
  /\ UNCHANGED <<rows, want, idle>>

\* set_cwd, from the list of recent folders.
OpenRecent(r) ==
  /\ dialog = NoDialog /\ ActsOnNothing /\ Waited
  /\ selected' = r.host /\ cwd' = r.path
  /\ selection' = {} /\ rows' = Blank(r)
  /\ Spawn(To("load", r))
  /\ UNCHANGED <<want, dialog, idle>>

\* Faulty variant: nothing was waited for, and is selected.
PickedNothing(place, otherwise) ==
  want' = NoName /\ selection' = {[name |-> want, at |-> place]}

\* apply_pending_select: the file becomes the selection, listed or not.
Picked(place, otherwise) ==
  /\ want' = NoName
  /\ selection' = IF want = NoName THEN otherwise ELSE {[name |-> want, at |-> place]}

\* commit_cwd_if_readable, of the selected host.
CommitCwd(p) == Spawn(To("commit", [host |-> selected, path |-> p]))

\* A tap on a folder, a crumb or `..`: the browser moves with the answer.
Move(p) ==
  /\ dialog = NoDialog /\ ActsOnNothing /\ Waited
  /\ p # cwd /\ CommitCwd(p)
  /\ UNCHANGED <<selected, cwd, rows, selection, want, dialog, idle>>

OpenDir(n)    == n \in rows.names \cap Folders /\ Move(Append(cwd, n))
NavigateTo(p) == IsStrictPrefix(p, cwd) /\ IsPrefix(Root[selected], p) /\ Move(p)

\* open_bookmark: the host is selected at once, the directory when it is
\* listed.  A bookmark of the path that is open lists nothing, whatever the
\* host: `sure` ends if the rows are another host's or lack the file.
OpenBookmark(b) ==
  LET picked == IF b.file = NoName THEN want ELSE b.file IN
  /\ dialog = NoDialog /\ ActsOnNothing
  /\ selected' = b.at.host
  /\ IF b.at.path = cwd
     THEN /\ want' = NoName /\ UNCHANGED call
          /\ selection' = IF picked = NoName THEN selection
                          ELSE {[name |-> picked, at |-> b.at]}
          /\ sure' = (sure /\ Quiet /\ b.at.host = selected
                        /\ picked \in rows.names \cup {NoName})
     ELSE /\ want' = picked /\ UNCHANGED selection
          /\ Spawn(To("commit", b.at)) /\ Waited
  /\ UNCHANGED <<cwd, rows, dialog, idle>>
-----------------------------------------------------------------------------
(* Selecting.                                                               *)

Chosen(n) == [name |-> n, at |-> rows.at]

\* The box of a row; a name that is selected is so wherever it comes from.
Toggle(n) ==
  /\ dialog = NoDialog /\ n \in rows.names /\ ActsOnNothing /\ Waited
  /\ selection' = IF \E i \in selection : i.name = n THEN {i \in selection : i.name # n}
                  ELSE selection \cup {Chosen(n)}
  /\ UNCHANGED <<selected, cwd, rows, want, dialog, idle, call>>

\* A tap on a file.
Tap(n) ==
  /\ dialog = NoDialog /\ n \in rows.names \ Folders /\ ActsOnNothing /\ Waited
  /\ selection' = IF \E i \in selection : i.name = n THEN {} ELSE {Chosen(n)}
  /\ UNCHANGED <<selected, cwd, rows, want, dialog, idle, call>>

\* A long press: open_details.
LongPress(n) ==
  /\ dialog = NoDialog /\ n \in rows.names /\ ActsOnNothing /\ Waited
  /\ selection' = {Chosen(n)} /\ dialog' = [kind |-> "actions", seen |-> rows.at]
  /\ UNCHANGED <<selected, cwd, rows, want, idle, call>>

\* show_recent, show_bookmarks.
ClearSelection ==
  /\ dialog = NoDialog /\ ActsOnNothing /\ Waited
  /\ selection' = {}
  /\ UNCHANGED <<selected, cwd, rows, want, dialog, idle, call>>

\* selected_entry: a selected name the rows have; the first in the order of
\* the names, any one here.
Entries == {i \in selection : i.name \in rows.names}
-----------------------------------------------------------------------------
(* Operating.                                                               *)

OpenDialog(seen) ==
  /\ dialog' = [kind |-> "op", seen |-> seen]
  /\ UNCHANGED <<selected, cwd, rows, selection, want, idle, call>>

\* mkdir below the listing.
OpenMkdir == dialog = NoDialog /\ OpenDialog(Here) /\ ActsOnNothing /\ Waited

\* rename and chmod below the listing, rename in the selection bar.
OpenVerb(i) == dialog = NoDialog /\ i \in Entries /\ OpenDialog(i.at) /\ ActsOnNothing /\ Waited

\* Rename and Delete in the sheet of a long press.
SheetVerb == dialog.kind = "actions" /\ OpenDialog(dialog.seen) /\ ActsOnNothing /\ Waited

\* submit_dialog: the name is joined to the directory of this moment, and the
\* dialog stays open until the answer.
SubmitOperation ==
  /\ dialog.kind = "op" /\ Act({dialog.seen}, Here) /\ Waited
  /\ Spawn([kind |-> "op"])
  /\ UNCHANGED <<selected, cwd, rows, selection, want, dialog, idle>>

\* enqueue: a job for an entry, unless its destination exists and the policy
\* is to ask; get and put below the listing, Download in the sheet, which also
\* closes the question it has opened (CloseDialog).  Play and Add bookmark take
\* the same place, and ask nothing.
Enqueue(i) ==
  /\ dialog.kind \in {"none", "actions"} /\ i \in Entries /\ Waited
  /\ \/ Act({i.at}, Here) /\ dialog' = NoDialog
     \/ /\ dialog.kind = "none" /\ i.name \notin Folders /\ ActsOnNothing
        /\ dialog' = [kind |-> "conflict", seen |-> i.at, path |-> cwd]
  /\ UNCHANGED <<selected, cwd, rows, selection, want, idle, call>>

\* The answer to the question: the path of then, the host of now (push_job).
SubmitConflict ==
  /\ dialog.kind = "conflict" /\ Waited
  /\ Act({dialog.seen}, [host |-> selected, path |-> dialog.path]) /\ dialog' = NoDialog
  /\ UNCHANGED <<selected, cwd, rows, selection, want, idle, call>>

\* Download in the selection bar: the selected entries that are files.
BulkEnqueue ==
  /\ dialog = NoDialog /\ selection # {} /\ Waited
  /\ Act({i.at : i \in {e \in Entries : e.name \notin Folders}}, Here) /\ selection' = {}
  /\ UNCHANGED <<selected, cwd, rows, want, dialog, idle, call>>

\* Delete in the selection bar, which asks nothing.
BulkRemove ==
  /\ dialog = NoDialog /\ selection # {} /\ Waited
  /\ Act({i.at : i \in Entries}, Here) /\ selection' = {}
  /\ Spawn([kind |-> "bulk"])
  /\ UNCHANGED <<selected, cwd, rows, want, dialog, idle>>

CloseDialog ==
  /\ dialog # NoDialog /\ dialog' = NoDialog /\ ActsOnNothing /\ Waited
  /\ UNCHANGED <<selected, cwd, rows, selection, want, idle, call>>

\* disconnect_host.
SubmitDisconnect ==
  /\ dialog.kind = "disconnect" /\ dialog' = NoDialog /\ ActsOnNothing /\ Waited
  /\ idle' = idle \cup {selected} /\ selection' = {}
  /\ cwd' = Root[selected] /\ rows' = Blank([host |-> selected, path |-> Root[selected]])
  /\ UNCHANGED <<selected, want, call>>

\* TRUST in the sheet that a refused listing has opened.
SubmitTrust ==
  /\ dialog.kind = "trust" /\ dialog' = NoDialog /\ ActsOnNothing /\ Waited
  /\ Spawn(To("reload", Here))
  /\ UNCHANGED <<selected, cwd, rows, selection, want, idle>>
-----------------------------------------------------------------------------
(* Answers of the backend.                                                  *)

Done(s)  == call' = [call EXCEPT ![s] = NoCall]
Loads(s) == call[s].kind \in {"load", "reload"}

\* list_dir, reload, set_cwd: a late answer for another directory is dropped;
\* only set_cwd looks for the file of a bookmark.
Listed(s) ==
  /\ Loads(s) /\ Done(s) /\ ActsOnNothing
  /\ IF cwd = call[s].at.path
     THEN /\ \E names \in SUBSET Names : rows' = Shown(call[s].at, names)
          /\ idle' = idle \ {call[s].at.host}
          /\ IF call[s].kind = "load" THEN Picked(call[s].at, selection)
             ELSE UNCHANGED <<want, selection>>
     ELSE UNCHANGED <<rows, idle, want, selection>>
  /\ UNCHANGED <<selected, cwd, dialog, sure>>

\* A failure shows no rows; an unknown host key opens a sheet over whatever
\* dialog there is.
NotListed(s) ==
  /\ Loads(s) /\ Done(s) /\ ActsOnNothing
  /\ IF cwd = call[s].at.path
     THEN /\ rows' = Blank(call[s].at) /\ dialog' \in {dialog, [kind |-> "trust"]}
          /\ IF call[s].kind = "load" THEN Picked(call[s].at, selection)
             ELSE UNCHANGED <<want, selection>>
     ELSE UNCHANGED <<rows, dialog, want, selection>>
  /\ UNCHANGED <<selected, cwd, idle, sure>>

\* Faulty variant: what was selected before the move stays selected.
CommittedKept(s) ==
  LET at == call[s].at IN
  /\ call[s].kind = "commit" /\ Done(s) /\ ActsOnNothing
  /\ cwd' = at.path /\ \E names \in SUBSET Names : rows' = Shown(at, names)
  /\ Picked(at, selection) /\ idle' = idle \ {at.host}
  /\ UNCHANGED <<selected, dialog, sure>>

Committed(s) ==
  LET at == call[s].at IN
  /\ call[s].kind = "commit" /\ Done(s) /\ ActsOnNothing
  /\ cwd' = at.path /\ \E names \in SUBSET Names : rows' = Shown(at, names)
  /\ Picked(at, {}) /\ idle' = idle \ {at.host}
  /\ UNCHANGED <<selected, dialog, sure>>

\* Nothing is shown of the refusal.  A bookmark that is refused leaves its host
\* selected over the rows of the old one, and its file waiting for the next
\* listing: `sure` ends.
NotCommitted(s) ==
  /\ call[s].kind = "commit" /\ Done(s) /\ ActsOnNothing
  /\ sure' = (sure /\ rows.at.host = selected /\ want = NoName)
  /\ UNCHANGED <<selected, cwd, rows, selection, want, dialog, idle>>

\* The directory that is current by now is listed, by a call in the same slot;
\* a dialog's operation closes whatever dialog is open.
Operated(s) ==
  /\ call[s].kind \in {"op", "bulk"} /\ ActsOnNothing
  /\ call' = [call EXCEPT ![s] = To("reload", Here)]
  /\ dialog' = IF call[s].kind = "op" THEN NoDialog ELSE dialog
  /\ UNCHANGED <<selected, cwd, rows, selection, want, idle, sure>>

NotOperated(s) ==
  /\ call[s].kind = "op" /\ Done(s) /\ ActsOnNothing
  /\ UNCHANGED <<selected, cwd, rows, selection, want, dialog, idle, sure>>
-----------------------------------------------------------------------------
\* provide_store: the saved place is listed.  The demonstration file that is
\* selected is no entry of it.
Init ==
  /\ selected \in Hosts /\ cwd \in Paths /\ rows = Blank(Here)
  /\ selection = {} /\ want = NoName /\ dialog = NoDialog /\ idle \in SUBSET Hosts
  /\ \E s \in Calls : call = [t \in Calls |-> IF t = s THEN To("reload", Here) ELSE NoCall]
  /\ acted = {} /\ sure = TRUE

Turn ==
  \/ \E h \in Hosts : SelectOther(h)
  \/ SelectSame
  \/ \E r \in Recents : OpenRecent(r)
  \/ \E b \in Bookmarks : OpenBookmark(b)
  \/ \E n \in Names : Append(cwd, n) \in Paths /\ OpenDir(n)
  \/ \E p \in Paths : NavigateTo(p)

Select == ClearSelection \/ \E n \in Names : Toggle(n) \/ Tap(n) \/ LongPress(n)

Operate ==
  \/ OpenMkdir \/ SheetVerb \/ SubmitOperation \/ SubmitConflict
  \/ BulkEnqueue \/ BulkRemove \/ CloseDialog \/ SubmitDisconnect \/ SubmitTrust
  \/ \E i \in selection : OpenVerb(i) \/ Enqueue(i)

Answer(s) ==
  \/ Listed(s) \/ NotListed(s) \/ Committed(s) \/ NotCommitted(s)
  \/ Operated(s) \/ NotOperated(s)

Next == Turn \/ Select \/ Operate \/ \E s \in Calls : Answer(s)

Spec == Init /\ [][Next]_vars
-----------------------------------------------------------------------------
(* Properties.                                                              *)

Acts == [at : Places, seen : Places]
CallRecords ==
  {NoCall} \cup [kind : {"load", "reload", "commit"}, at : Places] \cup [kind : {"op", "bulk"}]
Dialogs ==
  {NoDialog} \cup [kind : {"actions", "op"}, seen : Places] \cup [kind : {"disconnect", "trust"}]
    \cup [kind : {"conflict"}, seen : Places, path : Paths]

(* Every variable has its type (Store).                                     *)
TypeOK ==
  /\ selected \in Hosts /\ cwd \in Paths
  /\ rows \in [at : Places, names : SUBSET Names]
  /\ selection \subseteq [name : Names, at : Places] /\ want \in Names \cup {NoName}
  /\ dialog \in Dialogs /\ idle \in SUBSET Hosts
  /\ call \in [Calls -> CallRecords]
  /\ acted \in SUBSET Acts /\ sure \in BOOLEAN

(* What a user does to a row, from the selection bar, the footer, the sheet *)
(* of a long press or a dialog, is done on the host and in the directory    *)
(* the row was listed from, though the code takes both from the browser     *)
(* when the operation starts: as long as the user has waited for every      *)
(* answer and no bookmark was refused (submit_dialog, bulk_remove,          *)
(* bulk_enqueue, push_job).                                                  *)
ActsWhereShown == sure => \A a \in acted : a.at = a.seen
-----------------------------------------------------------------------------
(* What the documents say and the code does not do.                         *)

(* The same of a user who does not wait, and after a refused bookmark: the  *)
(* operation may remove the entry of that name in another directory, or on  *)
(* another host.                                                             *)
ActsWhereShownAlways == \A a \in acted : a.at = a.seen
=============================================================================
