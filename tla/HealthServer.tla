----------------------------- MODULE HealthServer -----------------------------
(***************************************************************************)
(* The health endpoint beside the indexer.  Both use the RPC client: the   *)
(* indexer fetches blocks and moves the cursor, a request asks for the     *)
(* latest block and then reads the cursor.  Requests overlap, the          *)
(* node may be slow, silent or wrong, the database may fail, the process   *)
(* may be restarted, and the indexer may roll back.                        *)
(*                                                                         *)
(* Whoever probes the endpoint leaves at most Period units of time between *)
(* two requests.  A query of the database takes less than a unit.          *)
(***************************************************************************)
EXTENDS RpcClient

CONSTANTS
  Confirmations,
  BatchSize,      \* config.indexer.fetchBatchSize
  StaleTimeout,   \* STALE_TIMEOUT
  Period,         \* the longest time without a request in progress
  MaxFaults       \* bound: restarts and rollbacks

ASSUME HealthAssumption ==
  /\ Confirmations \in Nat /\ BatchSize \in Nat \ {0}
  /\ StaleTimeout \in Nat \ {0} /\ Period \in Nat \ {0}
  /\ MaxFaults \in Nat

VARIABLES
  head,             \* the latest block of the chain
  cursor,           \* _cursor.fetched_to_block
  lastIndexedBlock, \* the two variables of createHealthServer(), the second
  staleFor,         \* as the time since then, counted up to StaleTimeout
  request,          \* the requests in progress
  sinceRequest,     \* how long no request has been in progress
  quiet,            \* history: the time since the cursor was last moved forward, or
                    \* the process started, counted up to QuietBound,
  blind,            \* whether a request has failed to read the cursor since,
  high,             \* the highest cursor since the process started,
  climbing,         \* and whether the cursor has come to it for the first time
  faults

healthVars == <<lastIndexedBlock, staleFor, request, sinceRequest>>
historyVars == <<quiet, blind, high, climbing>>
vars == <<rpcVars, head, cursor, healthVars, historyVars, faults>>

\* The last progress is noticed by a request that begins and has waited for the
\* node, and is stale StaleTimeout later.
QuietBound == StaleTimeout + Period + LongestCall

NoRequest == [stage |-> "idle", latest |-> 0, seen |-> 0, fresh |-> FALSE]

Init ==
  /\ RpcInit
  /\ head \in Blocks
  /\ cursor = 0
  /\ lastIndexedBlock = 0
  /\ staleFor = 0
  /\ request = [r \in Requests |-> NoRequest]
  /\ sinceRequest = 0
  /\ quiet = 0 /\ blind = FALSE
  /\ high = 0 /\ climbing = TRUE
  /\ faults = 0

-----------------------------------------------------------------------------
(* The chain and the indexer. *)

Grow ==
  /\ head < MaxBlock
  /\ head' = head + 1
  /\ UNCHANGED <<rpcVars, cursor, healthVars, historyVars, faults>>

Safe == head - Confirmations

\* A faulty variant of RangeEnd: the safe block is forgotten.
RangeEndUncut == cursor + BatchSize

RangeEnd == IF cursor + BatchSize <= Safe THEN cursor + BatchSize ELSE Safe

Fetch ==
  /\ cursor < Safe
  /\ GetBlocksInRange(cursor + 1, RangeEnd)
  /\ UNCHANGED <<head, cursor, healthVars, historyVars, faults>>

\* The fetch has its blocks, and its transaction commits.
Store ==
  /\ RangeFetched
  /\ cursor' = fetch.to
  /\ quiet' = 0 /\ blind' = FALSE
  /\ high' = IF cursor' > high THEN cursor' ELSE high
  /\ climbing' = (cursor' > high)
  /\ UNCHANGED <<head, healthVars, faults>>

\* The error reaches the loop, which goes on.
FetchFails == RangeFailed /\ UNCHANGED <<head, cursor, healthVars, historyVars, faults>>

MoveOn == NextChunk /\ UNCHANGED <<head, cursor, healthVars, historyVars, faults>>

\* handleReorg().
RollBack ==
  /\ ~fetch.runs /\ faults < MaxFaults
  /\ cursor' \in 0..(cursor - 1)
  /\ faults' = faults + 1
  /\ climbing' = FALSE
  /\ UNCHANGED <<rpcVars, head, healthVars, quiet, blind, high>>

\* The process is replaced; what is in memory starts afresh.
Restart ==
  /\ faults < MaxFaults
  /\ faults' = faults + 1
  /\ call' = [c \in Callers |-> NoCall]
  /\ fetch' = NoFetch
  /\ lastIndexedBlock' = 0
  /\ staleFor' = 0
  /\ request' = [r \in Requests |-> NoRequest]
  /\ sinceRequest' = 0
  /\ quiet' = 0 /\ blind' = FALSE
  /\ high' = cursor /\ climbing' = TRUE
  /\ UNCHANGED <<known, head, cursor>>

-----------------------------------------------------------------------------
(* One request. *)

\* The ping of the database is over, and the call for the latest block begins.
BeginRequest(r) ==
  /\ request[r].stage = "idle"
  /\ request' = [request EXCEPT ![r].stage = "rpc"]
  /\ call' = [call EXCEPT ![r] = Asked]
  /\ sinceRequest' = 0
  /\ UNCHANGED <<fetch, known, head, cursor, lastIndexedBlock, staleFor, historyVars, faults>>

LatestBlock(r) ==
  /\ Answered(r)
  /\ request' = [request EXCEPT ![r].latest = head]
  /\ UNCHANGED <<head, cursor, lastIndexedBlock, staleFor, sinceRequest, historyVars, faults>>

\* The cursor is read; the continuation of the handler is another step.
ReadCursor(r) ==
  /\ request[r].stage = "rpc" /\ call[r].phase = "ended"
  /\ request' = [request EXCEPT ![r].stage = "decide", ![r].seen = cursor,
                                ![r].fresh = (climbing /\ quiet < StaleTimeout)]
  /\ UNCHANGED <<rpcVars, head, cursor, lastIndexedBlock, staleFor, sinceRequest,
                 historyVars, faults>>

\* The ping or the read has failed: the reply is that nothing is indexed.
CursorUnread(r) ==
  /\ request[r].stage = "rpc" /\ call[r].phase = "ended"
  /\ request' = [request EXCEPT ![r] = NoRequest]
  /\ call' = [call EXCEPT ![r] = NoCall]
  /\ blind' = TRUE
  /\ UNCHANGED <<fetch, known, head, cursor, lastIndexedBlock, staleFor, sinceRequest,
                 quiet, high, climbing, faults>>

RpcHealthy(r) == call[r].outcome = "value"
Progressed(r) == request[r].seen > lastIndexedBlock
CaughtUp(r) == RpcHealthy(r) /\ request[r].seen >= request[r].latest
\* A faulty variant of Indexing: the latest block is not compared with the cursor.
IndexingWhileReachable(r) == Progressed(r) \/ RpcHealthy(r) \/ staleFor < StaleTimeout

\* A faulty variant of Indexing: progress is no reason by itself.
IndexingIfFresh(r) == CaughtUp(r) \/ staleFor < StaleTimeout

Indexing(r) == Progressed(r) \/ CaughtUp(r) \/ staleFor < StaleTimeout

Reply(r) ==
  /\ request[r].stage = "decide"
  /\ IF Progressed(r)
       THEN lastIndexedBlock' = request[r].seen /\ staleFor' = 0
       ELSE UNCHANGED <<lastIndexedBlock, staleFor>>
  /\ request' = [request EXCEPT ![r] = NoRequest]
  /\ call' = [call EXCEPT ![r] = NoCall]
  /\ UNCHANGED <<fetch, known, head, cursor, sinceRequest, historyVars, faults>>

-----------------------------------------------------------------------------
CountTo(n, bound) == IF n < bound THEN n + 1 ELSE n

Unprobed == \A r \in Requests : request[r].stage = "idle"

Tick ==
  /\ TimePasses
  /\ \A r \in Requests : request[r].stage # "idle" => Waits(call[r])
  /\ ~ChunkAnswered /\ ~ChunkFailed
  /\ IF Unprobed THEN sinceRequest < Period /\ sinceRequest' = sinceRequest + 1
                 ELSE UNCHANGED sinceRequest
  /\ staleFor' = CountTo(staleFor, StaleTimeout)
  /\ quiet' = CountTo(quiet, QuietBound)
  /\ UNCHANGED <<head, cursor, lastIndexedBlock, request, blind, high, climbing, faults>>

OfTheClient(A) == A /\ UNCHANGED <<head, cursor, healthVars, historyVars, faults>>

Next ==
  \/ Grow \/ Fetch \/ MoveOn \/ Store \/ FetchFails \/ RollBack \/ Restart
  \/ \E b \in Blocks : OfTheClient(Answered(b))
  \/ \E c \in Callers :
       OfTheClient(NullRound(c) \/ Refused(c) \/ Failed(c) \/ WakeUp(c))
  \/ \E r \in Requests :
       BeginRequest(r) \/ LatestBlock(r) \/ ReadCursor(r) \/ CursorUnread(r) \/ Reply(r)
  \/ Tick

Spec == Init /\ [][Next]_vars

-----------------------------------------------------------------------------
(* Properties *)

\* Each variable stays in its set.
TypeOK ==
  /\ RpcTypeOK
  /\ head \in Blocks
  /\ cursor \in 0..MaxBlock
  /\ lastIndexedBlock \in 0..MaxBlock
  /\ staleFor \in 0..StaleTimeout
  /\ request \in [Requests -> [stage : {"idle", "rpc", "decide"},
                               latest : 0..MaxBlock, seen : 0..MaxBlock,
                               fresh : BOOLEAN]]
  /\ sinceRequest \in 0..Period
  /\ quiet \in 0..QuietBound /\ blind \in BOOLEAN
  /\ high \in 0..MaxBlock /\ climbing \in BOOLEAN
  /\ faults \in 0..MaxFaults

\* The cursor passes a block only when the node has answered for it, with the
\* block or with a null round: no failure and no timeout is taken for a null
\* round, and no chunk leaves a block out.
NoBlockUnanswered == 1..cursor \subseteq known

\* An indexer that makes no progress is not called healthy for longer than the
\* stale timeout, the time without requests and the time a request takes,
\* unless the cursor is at the latest block or a request could not read it.
StallReported ==
  \A r \in Requests :
    request[r].stage = "decide" /\ Indexing(r)
      => CaughtUp(r) \/ blind \/ quiet < QuietBound

\* While the cursor climbs, and has moved within the stale timeout, a request
\* that reads it does not say that nothing is indexed, whatever other requests
\* have done meanwhile.  It is said after a rollback, until the indexer is beyond
\* where it was: what it indexes again is no progress to the server.
NoFalseAlarm ==
  \A r \in Requests : request[r].stage = "decide" /\ request[r].fresh => Indexing(r)
=============================================================================
