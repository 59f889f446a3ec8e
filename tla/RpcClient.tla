------------------------------- MODULE RpcClient -------------------------------
(***************************************************************************)
(* Calls of the RPC client: an operation of the node raced with a timer,   *)
(* tried again with growing delays while its errors are transient, and     *)
(* given up when attempts or time run out; and getBlocksInRange(), which   *)
(* makes such calls for the blocks of a range, a chunk at a time.          *)
(*                                                                         *)
(* Time passes in Tick.  Timers are relative: what is left of them.  One   *)
(* fires when nothing is left, and time waits for it.  The answer of an    *)
(* operation whose timer has fired changes nothing and is left out, and so *)
(* are the calls of a chunk that go on after one of them has failed.       *)
(***************************************************************************)
EXTENDS Integers

CONSTANTS
  MaxBlock,      \* bound: blocks of the chain; a block is the caller of its getBlock()
  Requests,      \* other callers: each makes one call at a time
  Timeout,       \* _timeout
  MaxRetries,    \* _maxRetries
  Jitter,        \* the factors 500 ms * (1 + 2 * Math.random()) that can occur, in units of time
  LongestDelay,  \* the longest delay that comes of them
  Concurrency    \* _concurrency

Blocks == 1..MaxBlock
Callers == Blocks \union Requests

ASSUME RpcAssumption ==
  /\ MaxBlock \in Nat
  /\ Requests \intersect Blocks = {}
  /\ Timeout \in Nat \ {0} /\ MaxRetries \in Nat \ {0} /\ Concurrency \in Nat \ {0}
  /\ Jitter \subseteq Nat \ {0} /\ Jitter # {}
  /\ LongestDelay \in Nat

TotalTimeout == Timeout * MaxRetries
Delays(attempt) == {2^attempt * f : f \in Jitter}

ASSUME DelayAssumption ==
  \A attempt \in 0..(MaxRetries - 2) : Delays(attempt) \subseteq 1..LongestDelay

\* A call is over before this time.  The last delay before the total timeout is
\* noticed is not cut short.
LongestCall == TotalTimeout + Timeout + LongestDelay

VARIABLES
  call,    \* per caller: where its call is in _withRetry(), and how it ended
  fetch,   \* getBlocksInRange(): the range, the first block of the chunk, whether it runs
  known    \* history: the blocks, or null rounds, that the node has answered for

rpcVars == <<call, fetch, known>>

Outcomes == {"none", "value", "null", "error"}
NoCall == [phase |-> "idle", attempt |-> 0, age |-> 0, left |-> 0, outcome |-> "none"]
Asked == [NoCall EXCEPT !.phase = "asked", !.left = Timeout]
Ended(outcome) == [NoCall EXCEPT !.phase = "ended", !.outcome = outcome]
NoFetch == [runs |-> FALSE, to |-> 0, at |-> 1]

RpcInit ==
  /\ call = [c \in Callers |-> NoCall]
  /\ fetch = NoFetch
  /\ known = {}

Waits(k) == k.phase \in {"asked", "sleeping"}
IsDue(k) == Waits(k) /\ k.left = 0

-----------------------------------------------------------------------------
(* _withRetry() *)

\* The catch of the loop, for a transient error.
Retried(k) ==
  IF k.attempt < MaxRetries - 1
    THEN {[k EXCEPT !.phase = "sleeping", !.left = d] : d \in Delays(k.attempt)}
    ELSE {Ended("error")}

\* A faulty variant of NextAttempt: no limit on the time that retries take.
NextAttemptAlways(k) ==
  [k EXCEPT !.phase = "asked", !.attempt = @ + 1, !.left = Timeout]

\* The head of the loop, after the delay.
NextAttempt(k) ==
  IF k.age >= TotalTimeout
    THEN Ended("error")
    ELSE [k EXCEPT !.phase = "asked", !.attempt = @ + 1, !.left = Timeout]

Answered(c) ==
  /\ call[c].phase = "asked"
  /\ call' = [call EXCEPT ![c] = Ended("value")]
  /\ known' = known \union ({c} \intersect Blocks)
  /\ UNCHANGED fetch

\* The node has no block at this height.  getBlock() makes null of the error,
\* for other callers it is one.
NullRound(c) ==
  /\ call[c].phase = "asked"
  /\ call' = [call EXCEPT ![c] = Ended(IF c \in Blocks THEN "null" ELSE "error")]
  /\ known' = known \union ({c} \intersect Blocks)
  /\ UNCHANGED fetch

\* A permanent error: invalid, not found, unsupported.
Refused(c) ==
  /\ call[c].phase = "asked"
  /\ call' = [call EXCEPT ![c] = Ended("error")]
  /\ UNCHANGED <<fetch, known>>

\* A transient error from the node, or the timer.
Failed(c) ==
  /\ call[c].phase = "asked"
  /\ \E k \in Retried(call[c]) : call' = [call EXCEPT ![c] = k]
  /\ UNCHANGED <<fetch, known>>

WakeUp(c) ==
  /\ call[c].phase = "sleeping" /\ IsDue(call[c])
  /\ call' = [call EXCEPT ![c] = NextAttempt(@)]
  /\ UNCHANGED <<fetch, known>>

\* One unit of time passes.
TimePasses ==
  /\ \A c \in Callers : ~IsDue(call[c])
  /\ call' = [c \in Callers |->
       IF Waits(call[c]) THEN [call[c] EXCEPT !.left = @ - 1, !.age = @ + 1] ELSE call[c]]
  /\ UNCHANGED <<fetch, known>>

-----------------------------------------------------------------------------
(* getBlocksInRange() *)

LastOfChunk(f) == IF f.at + Concurrency - 1 <= f.to THEN f.at + Concurrency - 1 ELSE f.to
Chunk(f) == f.at .. LastOfChunk(f)

\* Promise.all() makes the calls of a chunk at once.
AskChunk(f) ==
  call' = [c \in Callers |->
    IF c \in Blocks THEN IF c \in Chunk(f) THEN Asked ELSE NoCall ELSE call[c]]

GetBlocksInRange(from, to) ==
  /\ ~fetch.runs
  /\ fetch' = [runs |-> TRUE, at |-> from, to |-> to]
  /\ AskChunk(fetch')
  /\ UNCHANGED known

\* A faulty variant of ChunkAnswered: a call that failed counts as a null round.
ChunkSettled == fetch.runs /\ \A b \in Chunk(fetch) : call[b].phase = "ended"

ChunkAnswered == fetch.runs /\ \A b \in Chunk(fetch) : call[b].outcome \in {"value", "null"}
ChunkFailed == fetch.runs /\ \E b \in Chunk(fetch) : call[b].outcome = "error"

NextChunk ==
  /\ ChunkAnswered /\ LastOfChunk(fetch) < fetch.to
  /\ fetch' = [fetch EXCEPT !.at = @ + Concurrency]
  /\ AskChunk(fetch')
  /\ UNCHANGED known

EndFetch ==
  /\ fetch' = NoFetch
  /\ call' = [c \in Callers |-> IF c \in Blocks THEN NoCall ELSE call[c]]
  /\ UNCHANGED known

RangeFetched == ChunkAnswered /\ LastOfChunk(fetch) = fetch.to /\ EndFetch
RangeFailed == ChunkFailed /\ EndFetch

-----------------------------------------------------------------------------
(* Properties *)

RpcTypeOK ==
  /\ call \in [Callers -> [phase : {"idle", "asked", "sleeping", "ended"},
                           attempt : 0..(MaxRetries - 1), age : Nat, left : Nat,
                           outcome : Outcomes]]
  /\ fetch \in [runs : BOOLEAN, at : 1..(MaxBlock + 1), to : 0..MaxBlock]
  /\ known \subseteq Blocks

\* Whatever the node does, an attempt is over within the total timeout and one
\* more timeout, and a call that waits to try again within the longest delay after
\* that, which is later than the comment on _totalTimeout says.
AnswersInTime ==
  \A c \in Callers :
    /\ call[c].phase = "asked" => call[c].age + call[c].left < TotalTimeout + Timeout
    /\ call[c].phase = "sleeping" => call[c].age + call[c].left < LongestCall
=============================================================================
