----------------------------- MODULE BrowserProofs -----------------------------
(***************************************************************************)
(* TypeOK, ShowsCwd and PasswordFirst for any hosts, paths, bookmarks and   *)
(* number of calls under way.  ShowsCwd needs no more than that the calls   *)
(* are kept in slots: an answer leaves the other slots alone, and is needed *)
(* only when it is for the directory that is current.                       *)
(***************************************************************************)
EXTENDS Browser, TLAPS

Slotted == call = [s \in Calls |-> call[s]]

IInv == Slotted /\ ShowsCwd

(* A load that is spawned for the current directory is a request for it,    *)
(* and no spawn takes the slot of another (SetCwd, CommitCwd).              *)
LEMMA SpawnRequests ==
  ASSUME Slotted, NEW c, Spawn(c)
  PROVE  /\ Slotted'
         /\ c.kind = "load" /\ c.path = cwd' => Requested'
         /\ Requested /\ cwd' = cwd => Requested'
<1>1. PICK s \in Calls : call[s] = NoCall /\ call' = [call EXCEPT ![s] = c]
  BY DEF Spawn
<1>2. \A t \in Calls : call'[t] = IF t = s THEN c ELSE call[t]
  BY <1>1 DEF Slotted
<1>3. Slotted'
  BY <1>1 DEF Slotted
<1>. QED BY <1>1, <1>2, <1>3 DEF Requested, NoCall

(* An answer frees its own slot only.                                      *)
LEMMA DoneFrees ==
  ASSUME Slotted, NEW s \in Calls, Done(s)
  PROVE  /\ Slotted'
         /\ \A t \in Calls : t # s => call'[t] = call[t]
BY DEF Slotted, Done

(* What the user does keeps the invariant.                                  *)
LEMMA UserStep == ASSUME IInv, User PROVE IInv'
<1>. USE DEF IInv
<1>1. ASSUME NEW h, NEW p, TurnTo(h, p) PROVE IInv'
  <2>1. Load(h, p).kind = "load" /\ Load(h, p).path = cwd'
    BY <1>1 DEF Load, TurnTo
  <2>. QED BY <1>1, <2>1, SpawnRequests DEF TurnTo, ShowsCwd
<1>2. ASSUME NEW h, NEW p, SetCwd(h, p) PROVE IInv'
  <2>1. Load(h, p).kind = "load" /\ Load(h, p).path = cwd'
    BY <1>2 DEF Load, SetCwd
  <2>. QED BY <1>2, <2>1, SpawnRequests DEF SetCwd, ShowsCwd
<1>3. ASSUME NEW h, NEW p, CommitCwd(h, p) PROVE IInv'
  <2>1. CASE UNCHANGED call
    BY <1>3, <2>1 DEF CommitCwd, Slotted, ShowsCwd, Requested
  <2>2. CASE Spawn(Commit(h, p))
    BY <1>3, <2>2, SpawnRequests DEF CommitCwd, ShowsCwd
  <2>. QED BY <1>3, <2>1, <2>2 DEF CommitCwd
<1>4. ASSUME UNCHANGED <<cwd, listing, call>> PROVE IInv'
  BY <1>4 DEF Slotted, ShowsCwd, Requested
<1>5. CASE \E h \in Hosts : SelectOther(h)
  BY <1>1, <1>4, <1>5 DEF SelectOther, AskPassword
<1>6. CASE SelectSame
  BY <1>1, <1>4, <1>6 DEF SelectSame
<1>7. CASE \E r \in ToSet(recents) : OpenRecent(r)
  BY <1>2, <1>4, <1>7 DEF OpenRecent, AskPassword
<1>8. CASE \E b \in Bookmarks : OpenBookmark(b)
  BY <1>3, <1>4, <1>8 DEF OpenBookmark, AskPassword
<1>9. CASE GoUp \/ (\E p \in Paths : NavigateTo(p))
           \/ (\E p \in Paths : p # <<>> /\ Parent(p) = cwd /\ OpenDir(Last(p)))
  BY <1>3, <1>9 DEF GoUp, NavigateTo, OpenDir
<1>10. CASE SubmitOperation
  BY <1>10, SpawnRequests DEF SubmitOperation, ShowsCwd
<1>11. CASE SubmitPassword
  BY <1>1, <1>11 DEF SubmitPassword
<1>12. CASE SubmitDisconnect
  BY <1>12 DEF SubmitDisconnect, Blank, ShowsCwd, Slotted
<1>13. CASE SubmitTrust
  <2>1. Load(selected, cwd).kind = "load" /\ Load(selected, cwd).path = cwd'
    BY <1>13 DEF Load, SubmitTrust
  <2>. QED BY <1>13, <2>1, SpawnRequests DEF SubmitTrust, ShowsCwd
<1>14. CASE ShowRecent \/ OpenOperation \/ CloseDialog
  BY <1>4, <1>14 DEF ShowRecent, OpenOperation, CloseDialog
<1>. QED BY <1>5, <1>6, <1>7, <1>8, <1>9, <1>10, <1>11, <1>12, <1>13, <1>14 DEF User

(* An answer of the backend keeps the invariant.                            *)
LEMMA AnswerStep == ASSUME IInv, NEW s \in Calls, Answer(s) PROVE IInv'
<1>. USE DEF IInv
<1>1. CASE Listed(s)
  <2>1. Slotted' /\ (\A t \in Calls : t # s => call'[t] = call[t])
    BY <1>1, DoneFrees DEF Listed
  <2>2. CASE Current(call[s])
    BY <1>1, <2>1, <2>2 DEF Listed, Current, Rows, ShowsCwd
  <2>3. CASE ~Current(call[s])
    BY <1>1, <2>1, <2>3 DEF Listed, Current, ShowsCwd, Requested
  <2>. QED BY <2>2, <2>3
<1>2. CASE NotListed(s)
  <2>1. Slotted' /\ (\A t \in Calls : t # s => call'[t] = call[t])
    BY <1>2, DoneFrees DEF NotListed
  <2>2. CASE Current(call[s])
    BY <1>2, <2>1, <2>2 DEF NotListed, Current, Blank, ShowsCwd
  <2>3. CASE ~Current(call[s])
    BY <1>2, <2>1, <2>3 DEF NotListed, Current, ShowsCwd, Requested
  <2>. QED BY <2>2, <2>3
<1>3. CASE Committed(s)
  BY <1>3, DoneFrees DEF Committed, Rows, ShowsCwd
<1>4. CASE NotCommitted(s) \/ NotOperated(s)
  <2>1. /\ Slotted' /\ (\A t \in Calls : t # s => call'[t] = call[t])
        /\ call[s].kind # "load" /\ UNCHANGED <<cwd, listing>>
    BY <1>4, DoneFrees DEF NotCommitted, NotOperated
  <2>. QED BY <2>1 DEF ShowsCwd, Requested
<1>5. CASE Operated(s)
  <2>1. /\ Slotted' /\ (\A t \in Calls : t # s => call'[t] = call[t])
        /\ call[s].kind # "load" /\ UNCHANGED <<cwd, listing>>
    BY <1>5 DEF Operated, Slotted
  <2>. QED BY <2>1 DEF ShowsCwd, Requested
<1>. QED BY <1>1, <1>2, <1>3, <1>4, <1>5 DEF Answer

(* The pane shows the current directory or will, whatever comes late        *)
(* (list_dir, reload, set_cwd, commit_cwd_if_readable).                      *)
THEOREM ShowsCurrent == Spec => []ShowsCwd
<1>1. Init => IInv
  <2>1. SUFFICES ASSUME Init PROVE Slotted /\ ShowsCwd
    BY DEF IInv
  <2>2. Slotted
    BY <2>1 DEF Init, Slotted
  <2>3. CASE Unlocked(selected)
    <3>1. PICK s \in Calls : call[s] = Load(selected, cwd)
      BY <2>1, <2>3, BrowserAssumption DEF Init
    <3>. QED BY <2>2, <3>1 DEF Load, ShowsCwd, Requested
  <2>4. CASE ~Unlocked(selected)
    BY <2>1, <2>2, <2>4 DEF Init, ShowsCwd
  <2>. QED BY <2>2, <2>3, <2>4
<1>2. IInv /\ [Next]_vars => IInv'
  <2>1. CASE UNCHANGED vars
    BY <2>1 DEF vars, IInv, Slotted, ShowsCwd, Requested
  <2>. QED BY <2>1, UserStep, AnswerStep DEF Next
<1>3. IInv => ShowsCwd
  BY DEF IInv
<1>. QED BY <1>1, <1>2, <1>3, PTL DEF Spec

(* Selecting a host never comes before its password (select_host,           *)
(* open_recent, open_bookmark, submit_password).                             *)
THEOREM AsksFirst == Spec => PasswordFirst
<1>1. ASSUME [Next]_vars, selected' # selected PROVE Unlocked(selected)'
  <2>1. ASSUME NEW s \in Calls, Answer(s) PROVE FALSE
    BY <1>1, <2>1 DEF Answer, Listed, NotListed, Committed, NotCommitted, Operated, NotOperated
  <2>2. CASE \E h \in Hosts : SelectOther(h)
    BY <1>1, <2>2 DEF SelectOther, AskPassword, TurnTo, Unlocked
  <2>3. CASE \E r \in ToSet(recents) : OpenRecent(r)
    BY <1>1, <2>3 DEF OpenRecent, AskPassword, SetCwd, Unlocked
  <2>4. CASE \E b \in Bookmarks : OpenBookmark(b)
    BY <1>1, <2>4 DEF OpenBookmark, AskPassword, CommitCwd, Unlocked
  <2>5. CASE SubmitPassword
    BY <2>5 DEF SubmitPassword, TurnTo, Unlocked
  <2>6. CASE \/ SelectSame \/ ShowRecent \/ GoUp \/ (\E p \in Paths : NavigateTo(p))
             \/ (\E p \in Paths : p # <<>> /\ Parent(p) = cwd /\ OpenDir(Last(p)))
             \/ OpenOperation \/ CloseDialog \/ SubmitOperation
             \/ SubmitDisconnect \/ SubmitTrust
    BY <1>1, <2>6 DEF SelectSame, ShowRecent, GoUp, NavigateTo, OpenDir, CommitCwd, TurnTo,
         OpenOperation, CloseDialog, SubmitOperation, SubmitDisconnect, SubmitTrust
  <2>. QED BY <1>1, <2>1, <2>2, <2>3, <2>4, <2>5, <2>6 DEF Next, User, vars
<1>. QED BY <1>1, PTL DEF Spec, PasswordFirst
-----------------------------------------------------------------------------
(* Types.                                                                   *)

(* One entry less is a list of the same kind, without that entry.           *)
LEMMA RemoveOne ==
  ASSUME NEW S, NEW s \in Seq(S), IsInjective(s), NEW n \in 1 .. Len(s)
  PROVE  /\ RemoveAt(s, n) \in Seq(S) /\ IsInjective(RemoveAt(s, n))
         /\ Len(RemoveAt(s, n)) = Len(s) - 1
         /\ \A i \in 1 .. Len(s) - 1 : RemoveAt(s, n)[i] # s[n]
<1> DEFINE r == RemoveAt(s, n)
           a == SubSeq(s, 1, n - 1)
           b == SubSeq(s, n + 1, Len(s))
<1>0. /\ a \in Seq(S) /\ Len(a) = n - 1 /\ \A i \in 1 .. n - 1 : a[i] = s[i]
      /\ b \in Seq(S) /\ Len(b) = Len(s) - n /\ \A i \in 1 .. Len(s) - n : b[i] = s[i + n]
  OBVIOUS
<1>7. r = a \o b
  BY DEF RemoveAt
<1> HIDE DEF a, b, r
<1>1. r \in Seq(S) /\ Len(r) = Len(s) - 1
  BY <1>0, <1>7
<1>2. \A i \in 1 .. Len(s) - 1 : r[i] = IF i < n THEN s[i] ELSE s[i + 1]
  <2> TAKE i \in 1 .. Len(s) - 1
  <2>1. CASE i < n
    BY <1>0, <1>7, <2>1
  <2>2. CASE i >= n
    <3>1. i - (n - 1) \in 1 .. Len(s) - n /\ (i - (n - 1)) + n = i + 1
      BY <2>2
    <3>2. (a \o b)[i] = b[i - (n - 1)]
      BY <1>0, <2>2
    <3>3. b[i - (n - 1)] = s[i + 1]
      BY <1>0, <3>1
    <3>. QED BY <1>7, <2>2, <3>2, <3>3
  <2>. QED BY <2>1, <2>2
<1>3. DOMAIN r = 1 .. Len(s) - 1
  BY <1>1
<1> DEFINE at(i) == IF i < n THEN i ELSE i + 1
<1>4. \A i \in 1 .. Len(s) - 1 : at(i) \in 1 .. Len(s) /\ at(i) # n /\ r[i] = s[at(i)]
  BY <1>2
<1>5. \A i, j \in 1 .. Len(s) - 1 : at(i) = at(j) => i = j
  OBVIOUS
<1>6. \A i, j \in 1 .. Len(s) : s[i] = s[j] => i = j
  BY DEF IsInjective
<1> HIDE DEF at
<1>8. \A i, j \in 1 .. Len(s) - 1 : r[i] = r[j] => i = j
  BY <1>4, <1>5, <1>6
<1>9. \A i \in 1 .. Len(s) - 1 : r[i] # s[n]
  BY <1>4, <1>6
<1>. QED BY <1>1, <1>3, <1>8, <1>9 DEF r, IsInjective

(* touch keeps the recent folders within their limit, each once.            *)
LEMMA TouchedTyped ==
  ASSUME recents \in Seq(Places), Len(recents) <= RecentLimit, IsInjective(recents),
         NEW h \in Hosts, NEW p \in Paths
  PROVE  LET t == Touched(h, p)
         IN  t \in Seq(Places) /\ Len(t) <= RecentLimit /\ IsInjective(t)
<1> DEFINE place == [host |-> h, path |-> p]
           others == Without(place)
           all == <<place>> \o others
           n == IF Len(others) < RecentLimit THEN Len(others) + 1 ELSE RecentLimit
<1>0. place \in Places
  BY DEF Places
<1> HIDE DEF place
<1>1. /\ others \in Seq(Places) /\ Len(others) <= RecentLimit /\ IsInjective(others)
      /\ \A i \in 1 .. Len(others) : others[i] # place
  <2>1. CASE place \in ToSet(recents)
    <3> DEFINE at == CHOOSE i \in DOMAIN recents : recents[i] = place
    <3>1. at \in 1 .. Len(recents) /\ recents[at] = place
      BY <2>1 DEF ToSet
    <3>2. others = RemoveAt(recents, at)
      BY <2>1 DEF Without
    <3> HIDE DEF at, others
    <3>3. Len(recents) \in Nat /\ RecentLimit \in Nat
      BY BrowserAssumption
    <3>4. /\ others \in Seq(Places) /\ IsInjective(others) /\ Len(others) = Len(recents) - 1
          /\ \A i \in 1 .. Len(recents) - 1 : others[i] # recents[at]
      BY <3>1, <3>2, RemoveOne
    <3>. QED BY <3>1, <3>3, <3>4
  <2>2. CASE place \notin ToSet(recents)
    BY <2>2 DEF Without, ToSet
  <2>. QED BY <2>1, <2>2
<1> HIDE DEF others
<1>2. all \in Seq(Places) /\ Len(all) = Len(others) + 1
      /\ \A i \in 1 .. Len(others) + 1 : all[i] = IF i = 1 THEN place ELSE others[i - 1]
  BY <1>0, <1>1
<1> HIDE DEF all
<1>3. n \in Nat /\ n <= RecentLimit /\ n <= Len(all)
  BY <1>1, <1>2, BrowserAssumption
<1> HIDE DEF n
<1>4. /\ SubSeq(all, 1, n) \in Seq(Places) /\ Len(SubSeq(all, 1, n)) = n
      /\ \A i \in 1 .. n : SubSeq(all, 1, n)[i] = all[i]
  BY <1>2, <1>3
<1>5. \A i, j \in 1 .. n : all[i] = all[j] => i = j
  BY <1>1, <1>2, <1>3 DEF IsInjective
<1>6. IsInjective(SubSeq(all, 1, n))
  BY <1>3, <1>4, <1>5 DEF IsInjective
<1>7. Touched(h, p) = SubSeq(all, 1, n)
  BY DEF Touched, place, others, all, n
<1>. QED BY <1>3, <1>4, <1>6, <1>7
(* What a change of place leaves well typed.                                *)
Moved == cwd' \in Paths /\ selected' \in Hosts /\ listing' \in Listings
         /\ recents' \in Seq(Places) /\ Len(recents') <= RecentLimit /\ IsInjective(recents')
         /\ call' \in [Calls -> CallRecords]

(* A spawned call is one of the calls.                                      *)
LEMMA SpawnTyped ==
  ASSUME TypeOK, NEW c \in CallRecords, Spawn(c)
  PROVE  call' \in [Calls -> CallRecords]
BY DEF TypeOK, Spawn

(* The records that are made of a host and a path.                          *)
LEMMA PlacesTyped ==
  ASSUME TypeOK, NEW h \in Hosts, NEW p \in Paths
  PROVE  /\ Load(h, p) \in CallRecords /\ Commit(h, p) \in CallRecords
         /\ Operate(h) \in CallRecords /\ NoCall \in CallRecords
         /\ Rows(h, p) \in Listings /\ Blank(p) \in Listings
         /\ Loading \in Listings /\ Unasked \in Listings
         /\ NoDialog \in Dialogs /\ Ask("disconnect", h) \in Dialogs
         /\ Sheet("op") \in Dialogs /\ Sheet("trust") \in Dialogs
         /\ (h \in Locked => Ask("password", h) \in Dialogs)
<1>1. /\ Load(h, p) \in CallRecords /\ Commit(h, p) \in CallRecords
      /\ Operate(h) \in CallRecords /\ NoCall \in CallRecords
  BY DEF Load, Commit, Operate, NoCall, CallRecords
<1>2. /\ Rows(h, p) \in Listings /\ Blank(p) \in Listings
      /\ Loading \in Listings /\ Unasked \in Listings
  BY DEF Rows, Blank, Loading, Unasked, Listings
<1>3. /\ NoDialog \in Dialogs /\ Ask("disconnect", h) \in Dialogs
      /\ Sheet("op") \in Dialogs /\ Sheet("trust") \in Dialogs
      /\ (h \in Locked => Ask("password", h) \in Dialogs)
  BY DEF NoDialog, Ask, Sheet, Dialogs
<1>. QED BY <1>1, <1>2, <1>3

(* A name joined to a directory, and the directory above (OpenDir, GoUp).   *)
LEMMA PathsJoin ==
  ASSUME NEW p \in Paths, p # <<>>
  PROVE  Append(Parent(p), Last(p)) = p /\ Parent(p) \in Paths
<1>1. p \in Seq(ToSet(p)) /\ Front(p) \in Paths
  BY BrowserAssumption
<1>2. PICK S : p \in Seq(S)
  BY <1>1
<1>3. Append(SubSeq(p, 1, Len(p) - 1), p[Len(p)]) = p
  BY <1>2
<1>. QED BY <1>1, <1>3 DEF Parent, Front, Last

(* What the user does keeps the types.                                      *)
LEMMA UserTyped == ASSUME TypeOK, User PROVE TypeOK'
<1>1. ASSUME NEW h \in Hosts, NEW p \in Paths, TurnTo(h, p) \/ SetCwd(h, p) PROVE Moved
  <2>1. call' \in [Calls -> CallRecords]
    BY <1>1, SpawnTyped, PlacesTyped DEF TurnTo, SetCwd
  <2>2. recents' \in Seq(Places) /\ Len(recents') <= RecentLimit /\ IsInjective(recents')
    BY <1>1, TouchedTyped DEF TypeOK, TurnTo, SetCwd
  <2>3. listing' \in Listings
    BY <1>1, PlacesTyped DEF TypeOK, TurnTo, SetCwd
  <2>. QED BY <1>1, <2>1, <2>2, <2>3 DEF Moved, TurnTo, SetCwd
<1>2. ASSUME NEW h \in Hosts, NEW p \in Paths, CommitCwd(h, p) PROVE Moved
  <2>1. call' \in [Calls -> CallRecords]
    BY <1>2, SpawnTyped, PlacesTyped DEF TypeOK, CommitCwd
  <2>. QED BY <1>2, <2>1 DEF TypeOK, Moved, CommitCwd
<1>3. ASSUME UNCHANGED <<selected, cwd, listing, recents, call>> PROVE Moved
  BY <1>3 DEF TypeOK, Moved
<1>4. ASSUME NEW h \in Hosts, ~Unlocked(h), AskPassword(h) PROVE Moved /\ dialog' \in Dialogs
  BY <1>3, <1>4, PlacesTyped, BrowserAssumption DEF TypeOK, AskPassword, Unlocked
<1>5. ASSUME Moved, recent' \in BOOLEAN, status' \in [Hosts -> Statuses],
             vault' \in SUBSET Locked, dialog' \in Dialogs
      PROVE  TypeOK'
  BY <1>5 DEF Moved, TypeOK
<1>. USE BrowserAssumption
<1>6. CASE \E h \in Hosts : SelectOther(h)
  <2>1. PICK h \in Hosts : SelectOther(h)
    BY <1>6
  <2>2. Moved /\ dialog' \in Dialogs /\ recent' \in BOOLEAN
    BY <1>1, <1>4, <2>1 DEF SelectOther, TypeOK
  <2>. QED BY <1>5, <2>1, <2>2 DEF SelectOther, TypeOK
<1>7. CASE SelectSame
  <2>1. \/ UNCHANGED <<selected, cwd, listing, recents, call>>
        \/ TurnTo(selected, Root[selected]) /\ UNCHANGED dialog
    BY <1>7 DEF SelectSame
  <2>2. dialog' \in Dialogs
    BY <1>7, PlacesTyped DEF SelectSame, TypeOK
  <2>3. Moved /\ dialog' \in Dialogs /\ recent' \in BOOLEAN
    BY <1>1, <1>3, <1>7, <2>1, <2>2 DEF SelectSame, TypeOK
  <2>. QED BY <1>5, <1>7, <2>3 DEF SelectSame, TypeOK
<1>8. CASE \E r \in ToSet(recents) : OpenRecent(r)
  <2>1. PICK r \in ToSet(recents) : OpenRecent(r)
    BY <1>8
  <2>2. r.host \in Hosts /\ r.path \in Paths
    <3>1. PICK i \in DOMAIN recents : r = recents[i]
      BY DEF ToSet
    <3>2. recents[i] \in Places
      BY DEF TypeOK
    <3>. QED BY <3>1, <3>2 DEF Places
  <2>3. Moved /\ dialog' \in Dialogs /\ recent' \in BOOLEAN
    BY <1>1, <1>4, <2>1, <2>2 DEF OpenRecent, TypeOK
  <2>. QED BY <1>5, <2>1, <2>3 DEF OpenRecent, TypeOK
<1>9. CASE \E b \in Bookmarks : OpenBookmark(b)
  <2>1. PICK b \in Bookmarks : OpenBookmark(b)
    BY <1>9
  <2>2. b.host \in Hosts /\ b.path \in Paths
    OBVIOUS
  <2>3. Moved /\ dialog' \in Dialogs /\ recent' \in BOOLEAN
    BY <1>2, <1>4, <2>1, <2>2 DEF OpenBookmark, TypeOK
  <2>. QED BY <1>5, <2>1, <2>3 DEF OpenBookmark, TypeOK
<1>10. CASE \E p \in Paths : NavigateTo(p)
  <2>1. PICK p \in Paths : NavigateTo(p)
    BY <1>10
  <2>2. Moved
    BY <1>2, <2>1 DEF NavigateTo, TypeOK
  <2>. QED BY <1>5, <2>1, <2>2 DEF NavigateTo, TypeOK
<1>11. CASE GoUp
  <2>1. Parent(cwd) \in Paths
    BY <1>11, PathsJoin DEF GoUp, TypeOK
  <2>. QED BY <1>2, <1>5, <1>11, <2>1 DEF GoUp, NavigateTo, TypeOK
<1>12. CASE \E p \in Paths : p # <<>> /\ Parent(p) = cwd /\ OpenDir(Last(p))
  <2>1. PICK p \in Paths : p # <<>> /\ Parent(p) = cwd /\ OpenDir(Last(p))
    BY <1>12
  <2>2. CommitCwd(selected, p)
    BY <2>1, PathsJoin DEF OpenDir
  <2>. QED BY <1>2, <1>5, <2>1, <2>2 DEF OpenDir, TypeOK
<1>13. CASE SubmitOperation
  <2>1. Moved
    BY <1>13, SpawnTyped, PlacesTyped DEF SubmitOperation, TypeOK, Moved
  <2>. QED BY <1>5, <1>13, <2>1 DEF SubmitOperation, TypeOK
<1>14. CASE SubmitPassword
  <2>1. dialog.host \in Locked
    BY <1>14 DEF SubmitPassword, TypeOK, Dialogs
  <2>2. Moved /\ NoDialog \in Dialogs
    BY <1>1, <1>14, <2>1, PlacesTyped DEF SubmitPassword
  <2>. QED BY <1>5, <1>14, <2>1, <2>2 DEF SubmitPassword, TypeOK
<1>15. CASE SubmitDisconnect
  <2>1. dialog.host \in Hosts
    BY <1>15 DEF SubmitDisconnect, TypeOK, Dialogs
  <2>2. Moved /\ NoDialog \in Dialogs
    BY <1>15, <2>1, PlacesTyped DEF SubmitDisconnect, TypeOK, Moved
  <2>. QED BY <1>5, <1>15, <2>1, <2>2 DEF SubmitDisconnect, TypeOK, Statuses
<1>16. CASE SubmitTrust
  <2>1. Moved /\ NoDialog \in Dialogs
    BY <1>16, SpawnTyped, PlacesTyped DEF SubmitTrust, TypeOK, Moved
  <2>. QED BY <1>5, <1>16, <2>1 DEF SubmitTrust, TypeOK
<1>17. CASE ShowRecent \/ OpenOperation \/ CloseDialog
  <2>1. selected \in Hosts /\ cwd \in Paths
    BY DEF TypeOK
  <2>. QED BY <1>3, <1>5, <1>17, <2>1, PlacesTyped
         DEF ShowRecent, OpenOperation, CloseDialog, TypeOK
<1>. QED
  BY <1>6, <1>7, <1>8, <1>9, <1>10, <1>11, <1>12, <1>13, <1>14, <1>15, <1>16, <1>17 DEF User

(* An answer of the backend keeps the types.                                *)
LEMMA AnswerTyped == ASSUME TypeOK, NEW s \in Calls, Answer(s) PROVE TypeOK'
<1>0. selected \in Hosts /\ cwd \in Paths /\ call[s] \in CallRecords
  BY DEF TypeOK
<1>1. call[s].kind \in {"load", "commit"} => call[s].host \in Hosts /\ call[s].path \in Paths
  BY <1>0 DEF CallRecords, NoCall
<1>2. ASSUME NEW h \in Hosts, Mounted(h) \/ Unreachable(h) PROVE status' \in [Hosts -> Statuses]
  BY <1>2 DEF TypeOK, Statuses, Mounted, Unreachable
<1>3. Done(s) => call' \in [Calls -> CallRecords]
  BY <1>0, PlacesTyped DEF TypeOK, Done
<1>4. CASE Listed(s)
  <2>1. listing' \in Listings /\ status' \in [Hosts -> Statuses]
    BY <1>1, <1>2, <1>4, PlacesTyped DEF Listed, TypeOK
  <2>. QED BY <1>3, <1>4, <2>1 DEF Listed, TypeOK
<1>5. CASE NotListed(s)
  <2>1. listing' \in Listings /\ status' \in [Hosts -> Statuses] /\ dialog' \in Dialogs
    BY <1>1, <1>2, <1>5, PlacesTyped DEF NotListed, TypeOK
  <2>. QED BY <1>3, <1>5, <2>1 DEF NotListed, TypeOK
<1>6. CASE Committed(s)
  <2>1. listing' \in Listings /\ status' \in [Hosts -> Statuses] /\ cwd' \in Paths
    BY <1>1, <1>2, <1>6, PlacesTyped DEF Committed
  <2>2. recents' \in Seq(Places) /\ Len(recents') <= RecentLimit /\ IsInjective(recents')
    BY <1>0, <1>1, <1>6, TouchedTyped DEF Committed, TypeOK
  <2>. QED BY <1>3, <1>6, <2>1, <2>2 DEF Committed, TypeOK
<1>7. CASE NotCommitted(s) \/ NotOperated(s)
  BY <1>3, <1>7 DEF NotCommitted, NotOperated, TypeOK
<1>8. CASE Operated(s)
  BY <1>0, <1>8, PlacesTyped DEF Operated, TypeOK
<1>. QED BY <1>4, <1>5, <1>6, <1>7, <1>8 DEF Answer

(* Every variable keeps its type, and the recent folders are each listed    *)
(* once and within their limit (Store, recent::touch).                       *)
THEOREM TypeCorrect == Spec => []TypeOK
<1>1. Init => TypeOK
  <2> SUFFICES ASSUME Init PROVE TypeOK
    OBVIOUS
  <2>1. selected \in Hosts /\ cwd \in Paths /\ Here \in Places
    BY DEF Init, Here, Places
  <2>2. recents \in Seq(Places) /\ Len(recents) <= RecentLimit /\ IsInjective(recents)
    <3>1. CASE recents = <<Here>>
      BY <2>1, <3>1, BrowserAssumption DEF IsInjective
    <3>2. ASSUME NEW r \in Bookmarks \ {Here}, recents = <<Here, r>>
          PROVE  recents \in Seq(Places) /\ Len(recents) <= RecentLimit /\ IsInjective(recents)
      <4>1. r \in Places
        BY BrowserAssumption DEF Places
      <4>. QED BY <2>1, <3>2, <4>1, BrowserAssumption DEF IsInjective
    <3>. QED BY <3>1, <3>2 DEF Init
  <2>3. /\ Load(selected, cwd) \in CallRecords /\ NoCall \in CallRecords
        /\ Loading \in Listings /\ Unasked \in Listings
    BY <2>1 DEF Load, NoCall, CallRecords, Loading, Unasked, Listings
  <2>4. dialog \in Dialogs
    BY <2>1 DEF Init, Unlocked, NoDialog, Ask, Dialogs
  <2>5. call \in [Calls -> CallRecords] /\ listing \in Listings
    BY <2>3 DEF Init
  <2>. QED BY <2>1, <2>2, <2>4, <2>5 DEF Init, TypeOK
<1>2. TypeOK /\ [Next]_vars => TypeOK'
  <2>1. CASE UNCHANGED vars
    BY <2>1 DEF vars, TypeOK
  <2>. QED BY <2>1, UserTyped, AnswerTyped DEF Next
<1>. QED BY <1>1, <1>2, PTL DEF Spec
=============================================================================
