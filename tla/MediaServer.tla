----------------------------- MODULE MediaServer -----------------------------
(***************************************************************************)
(* mk-media: one request to the loopback server that streams a remote file  *)
(* to a player, from the URL to the last frame of the body, while the file  *)
(* may change.  Requests share nothing that changes but the file.            *)
(* A read may return fewer bytes than asked for and 0 at the file's end.    *)
(* Byte counts are u64 (below W); the frame buffer is sized with usize      *)
(* (below Word).  With Checked, arithmetic that leaves u64 panics (a debug  *)
(* build) and the connection ends unanswered; without, it wraps.            *)
(***************************************************************************)
EXTENDS Naturals

CONSTANTS
  W, Word,   \* 2^64; 2^64 or 2^32
  Checked,
  Chunk,     \* bytes of a frame
  Hosts,
  Sizes,     \* lengths the file may have
  Offsets    \* numbers in Range headers

Params ==
  /\ W \in Nat \ {0} /\ Word \in Nat \ {0} /\ Chunk \in Nat \ {0} /\ Checked \in BOOLEAN
  /\ Sizes \subseteq 0 .. W - 1 /\ Offsets \subseteq 0 .. W - 1

\* A Range header: absent, malformed, -n, n- or n-m; further ranges are dropped.
Headers ==
  [form : {"absent", "malformed"}] \cup [form : {"last", "from"}, n : Offsets]
    \cup [form : {"closed"}, n : Offsets, m : Offsets]

VARIABLES
  hosts,     \* the hosts of the store
  registry,  \* HostRegistry: those of them the server knows
  len,       \* the length of the file now
  phase,     \* what the request waits for
  header,    \* its Range header
  size,      \* the length stat answered
  status,    \* the HTTP status, 0 before the answer
  first,     \* offset of the first byte of the body
  pos,       \* the reader's offset
  rem,       \* bytes still to send
  whole      \* history: the file was never shorter than stat said, no read failed

vars == <<hosts, registry, len, phase, header, size, status, first, pos, rem, whole>>
-----------------------------------------------------------------------------
(* parse_range                                                              *)

Ranged(h) == h.form \in {"last", "from", "closed"}

\* size - 1 in u64.
LastByte(s) == IF s = 0 THEN W - 1 ELSE s - 1

Start(h, s) ==
  IF h.form = "last" THEN IF h.n > s THEN 0 ELSE s - h.n ELSE h.n
End(h, s) == IF h.form = "closed" /\ h.m <= LastByte(s) THEN h.m ELSE LastByte(s)

\* end - start + 1 in u64.
Length(h, s) ==
  IF Start(h, s) <= End(h, s) + 1 THEN End(h, s) + 1 - Start(h, s)
                                  ELSE W + End(h, s) + 1 - Start(h, s)

Rejected(h, s) ==
  h.form = "malformed" \/ (h.form = "last" /\ h.n = 0) \/ (Ranged(h) /\ Start(h, s) >= s)

\* Arithmetic below 0: size - 1 of an empty file, end - start of 5-2.
Panics(h, s) ==
  /\ Checked /\ Ranged(h)
  /\ \/ s = 0 /\ ~(h.form = "last" /\ h.n = 0)
     \/ ~Rejected(h, s) /\ Start(h, s) > End(h, s)
-----------------------------------------------------------------------------
(* stream_file                                                              *)

Answer(code) == status' = code /\ phase' = "done"

\* A URL for a host the store may have got since the launch (play_in_vlc).
Request(host, right, h) ==
  /\ phase = "none"
  /\ header' = h
  /\ IF ~right THEN Answer(403)
     ELSE IF host \notin registry THEN Answer(404)
     ELSE phase' = "stat" /\ UNCHANGED status
  /\ UNCHANGED <<hosts, registry, len, size, first, pos, rem, whole>>

\* The file's length is read, and the range checked against it.
Stat ==
  /\ phase = "stat"
  /\ size' = len
  /\ IF Panics(header, len) THEN phase' = "done" /\ UNCHANGED status
     ELSE IF Rejected(header, len) THEN Answer(416)
     ELSE phase' = "open" /\ UNCHANGED status
  /\ UNCHANGED <<hosts, registry, len, header, first, pos, rem, whole>>

StatFails ==
  /\ phase = "stat" /\ Answer(404)
  /\ UNCHANGED <<hosts, registry, len, header, size, first, pos, rem, whole>>

\* open_read and, of a range, seek; the headers go out with the first frame.
Open ==
  /\ phase = "open"
  /\ phase' = "body"
  /\ status' = IF Ranged(header) THEN 206 ELSE 200
  /\ first' = IF Ranged(header) THEN Start(header, size) ELSE 0
  /\ pos' = first'
  /\ rem' = IF Ranged(header) THEN Length(header, size) ELSE size
  /\ UNCHANGED <<hosts, registry, len, header, size, whole>>

OpenFails ==
  /\ phase = "open" /\ Answer(500)
  /\ UNCHANGED <<hosts, registry, len, header, size, first, pos, rem, whole>>
-----------------------------------------------------------------------------
(* reader_stream                                                            *)

\* rem as usize, at most a frame.
Want ==
  LET r == IF rem < Word THEN rem ELSE rem % Word
  IN IF r < Chunk THEN r ELSE Chunk

Frame(n) ==
  /\ phase = "body" /\ rem > 0
  /\ n > 0 /\ n <= Want /\ pos + n <= len
  /\ pos' = pos + n /\ rem' = rem - n
  /\ UNCHANGED <<hosts, registry, len, phase, header, size, status, first, whole>>

\* All is sent, or a read of no bytes or past the end returns none.
BodyEnds ==
  /\ phase = "body"
  /\ rem = 0 \/ Want = 0 \/ pos >= len
  /\ phase' = "done"
  /\ UNCHANGED <<hosts, registry, len, header, size, status, first, pos, rem, whole>>

ReadFails ==
  /\ phase = "body" /\ rem > 0
  /\ phase' = "done" /\ whole' = FALSE
  /\ UNCHANGED <<hosts, registry, len, header, size, status, first, pos, rem>>
-----------------------------------------------------------------------------
FileChanges(n) ==
  /\ len' = n
  /\ whole' = (whole /\ (phase \in {"open", "body"} => n >= size))
  /\ UNCHANGED <<hosts, registry, phase, header, size, status, first, pos, rem>>

\* The host dialog adds to the store; the registry is filled at launch only.
AddHost(host) ==
  /\ hosts' = hosts \cup {host}
  /\ UNCHANGED <<registry, len, phase, header, size, status, first, pos, rem, whole>>

Init ==
  /\ hosts \in SUBSET Hosts /\ registry = hosts
  /\ len \in Sizes /\ phase = "none" /\ header = [form |-> "absent"]
  /\ size = 0 /\ status = 0 /\ first = 0 /\ pos = 0 /\ rem = 0 /\ whole = TRUE

Next ==
  \/ \E host \in Hosts, right \in BOOLEAN, h \in Headers : Request(host, right, h)
  \/ Stat \/ StatFails \/ Open \/ OpenFails
  \/ \E n \in 1 .. Chunk : Frame(n)
  \/ BodyEnds \/ ReadFails
  \/ \E n \in Sizes : FileChanges(n)
  \/ \E host \in Hosts : AddHost(host)

Spec == Init /\ [][Next]_vars
-----------------------------------------------------------------------------
(* Properties.                                                              *)

\* The bytes a header asks for, of a file of s bytes: those from From to before
\* Upto.  A reversed range such as 5-2 asks for none, and is accepted.
From(h, s) == IF Ranged(h) THEN Start(h, s) ELSE 0
Upto(h, s) == IF Ranged(h) THEN End(h, s) + 1 ELSE s
Forward(h, s) == From(h, s) <= Upto(h, s)

Answered == status \in {200, 206}

(* The body is a run of bytes that begins where the range begins and, unless *)
(* the range is reversed, never goes past its end nor past the length that   *)
(* stat answered, whatever the sizes of reads and the changes of the file    *)
(* (parse_range, reader_stream).                                             *)
WithinRange ==
  Answered =>
    /\ first = From(header, size) /\ first <= pos
    /\ Forward(header, size) => pos <= Upto(header, size) /\ Upto(header, size) <= size

(* Where usize holds every length, a body that ends without an error and     *)
(* with a file that has not become shorter is as long as its header said;    *)
(* that of a reversed range is the rest of the file (reader_stream).         *)
SendsAll ==
  W <= Word /\ phase = "done" /\ Answered /\ whole =>
    IF Forward(header, size) THEN rem = 0 ELSE pos >= size

(* A reversed range is answered where arithmetic wraps only, and the length  *)
(* announced for it (lib.rs:188) is never reached.                           *)
RunsOn == Answered /\ ~Forward(header, size) => ~Checked /\ rem > 0
-----------------------------------------------------------------------------
(* What the documents say and the code does not do.                         *)

(* "inclusive (start, end) clamped to [0, size-1]" (lib.rs:30-31): 5-2 is    *)
(* accepted.                                                                 *)
Clamped == status = 206 => Start(header, size) <= End(header, size)

(* "Stream exactly remaining bytes" (lib.rs:236): not where usize is        *)
(* narrower than the length, nor of a reversed range.                        *)
SendsExactly == phase = "done" /\ Answered /\ whole => rem = 0

(* "the store holds every host the user has added" (main.rs:422): the   *)
(* registry does not.                                                        *)
KnowsHosts == registry = hosts
-----------------------------------------------------------------------------
(* The invariant behind the theorems (ServiceProofs).                       *)

Phases == {"none", "stat", "open", "body", "done"}

TypeOK ==
  /\ len \in Sizes /\ size \in 0 .. W - 1 /\ header \in Headers
  /\ phase \in Phases /\ status \in {0, 200, 206, 403, 404, 416, 500}
  /\ first \in Nat /\ pos \in Nat /\ rem \in Nat /\ whole \in BOOLEAN

\* What a body was begun with, and that sent and unsent bytes add up to it.
Begun ==
  /\ phase \in {"none", "stat", "open"} => status = 0
  /\ phase = "body" => Answered
  /\ phase = "open" \/ Answered => /\ ~Rejected(header, size)
                                   /\ Checked => Forward(header, size)
  /\ Answered => /\ status = 206 <=> Ranged(header)
                 /\ first <= pos /\ pos < W
                 /\ Ranged(header) => /\ first = Start(header, size)
                                      /\ pos + rem = first + Length(header, size)
                 /\ ~Ranged(header) => first = 0 /\ pos + rem = size
  /\ whole /\ phase \in {"open", "body"} => len >= size

IInv == TypeOK /\ Begun /\ SendsAll
=============================================================================
