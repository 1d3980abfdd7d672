----------------------------- MODULE RateLimiter -----------------------------
(***************************************************************************)
(* BandwidthLimiter of app/src/transfer.rs: one token bucket that all      *)
(* workers share.  wait_for runs once for every chunk, before the chunk is *)
(* counted: what it does under the mutex is one step, the end of the sleep  *)
(* another.                                                                 *)
(*                                                                         *)
(* Time is counted in the time that one byte takes at the cap, so that the *)
(* bucket gains one token in each unit and a second is as many units as    *)
(* the cap has bytes.  The cap does not change here; without one (0)        *)
(* wait_for returns at once.                                                *)
(***************************************************************************)
EXTENDS Naturals

CONSTANTS
  Workers,
  Second,    \* units in a second: the cap in bytes, which is also the bucket's size
  Chunks     \* the sizes of chunks

Params == Second \in Nat /\ Chunks \subseteq Nat

VARIABLES
  now,
  tokens, lastFill,  \* Bucket
  need,      \* the chunk each worker sleeps for, 0 for one that is awake
  until,     \* when its sleep ends
  passed,    \* bytes each worker was let through
  used,      \* history: tokens taken out of the bucket
  drawn,     \* history: those taken by each worker
  slept      \* history: the sleep of each worker, the current one included

vars == <<now, tokens, lastFill, need, until, passed, used, drawn, slept>>
-----------------------------------------------------------------------------
\* The bucket after the time since the last call.
Refilled ==
  IF tokens + (now - lastFill) > Second THEN Second ELSE tokens + (now - lastFill)

Awake(w) == need[w] = 0

\* Enough tokens: the chunk passes.
PassNow(w, n) ==
  /\ Awake(w) /\ Refilled >= n
  /\ tokens' = Refilled - n /\ lastFill' = now
  /\ passed' = [passed EXCEPT ![w] = @ + n]
  /\ used' = used + n /\ drawn' = [drawn EXCEPT ![w] = @ + n]
  /\ UNCHANGED <<now, need, until, slept>>

\* The bucket is emptied, and the worker sleeps for what it lacks.
Sleep(w, n) ==
  /\ Awake(w) /\ Refilled < n
  /\ tokens' = 0 /\ lastFill' = now
  /\ need' = [need EXCEPT ![w] = n]
  /\ until' = [until EXCEPT ![w] = now + (n - Refilled)]
  /\ slept' = [slept EXCEPT ![w] = @ + (n - Refilled)]
  /\ used' = used + Refilled /\ drawn' = [drawn EXCEPT ![w] = @ + Refilled]
  /\ UNCHANGED <<now, passed>>

\* A sleep takes at least its time.
Wake(w) ==
  /\ ~Awake(w) /\ now >= until[w]
  /\ passed' = [passed EXCEPT ![w] = @ + need[w]]
  /\ need' = [need EXCEPT ![w] = 0]
  /\ UNCHANGED <<now, tokens, lastFill, until, used, drawn, slept>>

Tick == now' = now + 1 /\ UNCHANGED <<tokens, lastFill, need, until, passed, used, drawn, slept>>

Init ==
  /\ now = 0 /\ tokens = 0 /\ lastFill = 0
  /\ need = [w \in Workers |-> 0] /\ until = [w \in Workers |-> 0]
  /\ passed = [w \in Workers |-> 0] /\ used = 0
  /\ drawn = [w \in Workers |-> 0] /\ slept = [w \in Workers |-> 0]

Next ==
  \/ Tick
  \/ \E w \in Workers : Wake(w) \/ \E n \in Chunks : PassNow(w, n) \/ Sleep(w, n)

Spec == Init /\ [][Next]_vars
-----------------------------------------------------------------------------
(* Properties.                                                              *)

TypeOK ==
  /\ now \in Nat /\ tokens \in Nat /\ lastFill \in Nat /\ used \in Nat
  /\ need \in [Workers -> Nat] /\ until \in [Workers -> Nat]
  /\ passed \in [Workers -> Nat] /\ drawn \in [Workers -> Nat]
  /\ slept \in [Workers -> Nat]

(* The bucket gives out no more than time has put in (wait_for).            *)
BucketWithinTime == used + tokens <= now

(* A worker is let through at no more than twice the cap: the time it       *)
(* sleeps for want of tokens fills the bucket for its next chunk as well.   *)
(* It does reach that, with chunks of one size (wait_for).                   *)
AtMostTwice == \A w \in Workers : passed[w] <= 2 * now

(* No chunk waits for longer than it takes at the cap (wait_for).           *)
WaitsInProportion == \A w \in Workers : until[w] <= now + need[w]

\* What comes out of the bucket and what is slept for make up what passes.
Balanced ==
  \A w \in Workers :
    /\ passed[w] + need[w] = drawn[w] + slept[w]
    /\ drawn[w] <= used
    /\ Awake(w) => slept[w] <= now
    /\ slept[w] <= until[w] \/ slept[w] <= now

Inv ==
  /\ TypeOK /\ lastFill <= now /\ used + tokens <= lastFill /\ Balanced
  /\ WaitsInProportion
-----------------------------------------------------------------------------
(* What the documents say and the code does not do.                         *)

(* "One limiter is shared across all workers so concurrent transfers        *)
(* collectively respect the cap" (transfer.rs:18), here of one worker: no    *)
(* more passes than the cap lets through, but for one second's burst.        *)
RespectsCap == \A w \in Workers : passed[w] <= now + Second
=============================================================================
