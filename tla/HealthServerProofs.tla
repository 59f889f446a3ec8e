-------------------------- MODULE HealthServerProofs --------------------------
(***************************************************************************)
(* Proofs about HealthServer and the RpcClient it extends, for any chain,  *)
(* any number of overlapping requests, any timeouts, retries and delays.   *)
(***************************************************************************)
EXTENDS HealthServer, TLAPS

CallRecord ==
  [phase : {"idle", "asked", "sleeping", "ended"},
   attempt : 0..(MaxRetries - 1), age : Nat, left : Nat, outcome : Outcomes]

(* A call that will try again has an attempt left, and a call that waits will *)
(* have ended in time.                                                       *)
CallOK(k) ==
  /\ k \in CallRecord
  /\ k.phase = "sleeping" => k.attempt < MaxRetries - 1
  /\ k.phase = "asked" => k.age + k.left < TotalTimeout + Timeout
  /\ k.phase = "sleeping" => k.age + k.left < LongestCall

CallInv ==
  /\ call \in [Callers -> CallRecord]
  /\ \A c \in Callers : CallOK(call[c])

(* The range of a fetch begins after the cursor and ends on the chain.       *)
FetchInv ==
  /\ fetch \in [runs : BOOLEAN, at : 1..(MaxBlock + 1), to : 0..MaxBlock]
  /\ fetch.runs => cursor < fetch.at /\ fetch.at <= fetch.to

TypeInv == TypeOK /\ CallInv /\ FetchInv

-----------------------------------------------------------------------------
(* Calls. *)

(* Times are natural numbers. *)
LEMMA Times ==
  /\ TotalTimeout \in Nat \ {0}
  /\ LongestCall \in Nat /\ TotalTimeout + Timeout <= LongestCall
  /\ QuietBound \in Nat
<1>1. TotalTimeout \in Nat \ {0}
  BY RpcAssumption DEF TotalTimeout
<1> QED
  BY <1>1, RpcAssumption, HealthAssumption DEF LongestCall, QuietBound

(* The calls that begin and end are sound. *)
LEMMA FreshOK ==
  /\ CallOK(NoCall) /\ CallOK(Asked)
  /\ \A o \in Outcomes : CallOK(Ended(o))
<1>1. Timeout \in Nat /\ 0 \in 0..(MaxRetries - 1)
  BY RpcAssumption
<1>2. NoCall \in CallRecord
  BY <1>1 DEF NoCall, CallRecord, Outcomes
<1>3. Asked \in CallRecord
  BY <1>1, <1>2 DEF Asked, CallRecord
<1>4. ASSUME NEW o \in Outcomes PROVE Ended(o) \in CallRecord
  BY <1>2 DEF Ended, CallRecord
<1>5. CallOK(NoCall)
  BY <1>2 DEF CallOK, CallRecord, NoCall
<1>6. CallOK(Asked)
  BY <1>3, Times, RpcAssumption DEF CallOK, CallRecord, NoCall, Asked
<1>7. ASSUME NEW o \in Outcomes PROVE CallOK(Ended(o))
  BY <1>4, <1>7 DEF CallOK, CallRecord, NoCall, Ended
<1> QED
  BY <1>5, <1>6, <1>7

(* A call that goes to sleep wakes up in time. *)
LEMMA RetriedOK ==
  ASSUME NEW k, CallOK(k), k.phase = "asked", NEW j \in Retried(k)
  PROVE  CallOK(j)
<1>1. CASE k.attempt < MaxRetries - 1
  <2>1. PICK d \in Delays(k.attempt) : j = [k EXCEPT !.phase = "sleeping", !.left = d]
    BY <1>1 DEF Retried
  <2>2. k.attempt \in 0..(MaxRetries - 2)
    BY <1>1, RpcAssumption DEF CallOK, CallRecord
  <2>3. d \in Nat /\ d <= LongestDelay
    BY <2>2, DelayAssumption, RpcAssumption
  <2>4. j \in CallRecord
    BY <2>1, <2>3 DEF CallOK, CallRecord
  <2>5. /\ j.phase = "sleeping" /\ j.attempt = k.attempt /\ j.age = k.age /\ j.left = d
        /\ k.age \in Nat /\ k.left \in Nat
    BY <2>1 DEF CallOK, CallRecord
  <2>6. k.age < TotalTimeout + Timeout
    BY <2>5, Times, RpcAssumption DEF CallOK
  <2>7. k.age + d < LongestCall
    BY <2>3, <2>5, <2>6, Times, RpcAssumption DEF LongestCall
  <2> QED
    BY <1>1, <2>4, <2>5, <2>7 DEF CallOK
<1>2. CASE ~(k.attempt < MaxRetries - 1)
  BY <1>2, FreshOK DEF Retried, Outcomes
<1> QED
  BY <1>1, <1>2

(* A call that wakes up asks again in time or ends. *)
LEMMA NextAttemptOK ==
  ASSUME NEW k, CallOK(k), k.phase = "sleeping"
  PROVE  CallOK(NextAttempt(k))
<1>1. CASE k.age >= TotalTimeout
  BY <1>1, FreshOK DEF NextAttempt, Outcomes
<1>2. CASE ~(k.age >= TotalTimeout)
  <2>1. NextAttempt(k) = [k EXCEPT !.phase = "asked", !.attempt = @ + 1, !.left = Timeout]
    BY <1>2 DEF NextAttempt
  <2>2. Timeout \in Nat /\ k.attempt + 1 \in 0..(MaxRetries - 1)
    BY RpcAssumption DEF CallOK, CallRecord
  <2>3. NextAttempt(k) \in CallRecord
    BY <2>1, <2>2 DEF CallOK, CallRecord
  <2>4. k.age \in Nat /\ k.age + Timeout < TotalTimeout + Timeout
    BY <1>2, Times, RpcAssumption DEF CallOK, CallRecord
  <2> QED
    BY <2>1, <2>3, <2>4 DEF CallOK, CallRecord
<1> QED
  BY <1>1, <1>2

(* Time passes for a call that is not due. *)
LEMMA TimePassesOK ==
  ASSUME NEW k, CallOK(k), Waits(k), ~IsDue(k)
  PROVE  CallOK([k EXCEPT !.left = @ - 1, !.age = @ + 1])
<1> DEFINE j == [k EXCEPT !.left = @ - 1, !.age = @ + 1]
<1>1. k.left \in Nat /\ k.age \in Nat /\ k.left - 1 \in Nat /\ k.age + 1 \in Nat
  BY DEF CallOK, CallRecord, IsDue
<1>2. j \in CallRecord
  BY <1>1 DEF CallOK, CallRecord
<1>3. /\ j.phase = k.phase /\ j.attempt = k.attempt /\ j.left = k.left - 1 /\ j.age = k.age + 1
  BY DEF CallOK, CallRecord
<1>4. j.age + j.left = k.age + k.left
  BY <1>1, <1>3
<1> QED
  BY <1>2, <1>3, <1>4 DEF CallOK

(* A step that changes one call soundly keeps all calls sound. *)
LEMMA OneCall ==
  ASSUME CallInv, NEW c \in Callers, NEW k, CallOK(k), call' = [call EXCEPT ![c] = k]
  PROVE  CallInv'
  BY DEF CallInv, CallOK

(* A step that replaces some calls by sound ones keeps all calls sound. *)
LEMMA SomeCalls ==
  ASSUME CallInv, call' = [c \in Callers |-> call'[c]],
         \A c \in Callers : call'[c] = call[c] \/ CallOK(call'[c])
  PROVE  CallInv'
  BY DEF CallInv, CallOK

(* Calls are sound at first. *)
LEMMA InitCalls == Init => CallInv
  BY FreshOK DEF Init, RpcInit, CallInv, CallOK

(* Every step keeps calls sound, and the last action of a step says how. *)
LEMMA NextCalls == CallInv /\ [Next]_vars => CallInv'
<1> SUFFICES ASSUME CallInv, [Next]_vars PROVE CallInv'
  OBVIOUS
<1>1. CASE UNCHANGED vars \/ Grow \/ RollBack
  BY <1>1 DEF vars, rpcVars, Grow, RollBack, CallInv, CallOK
<1>2. CASE Fetch \/ MoveOn
  <2>1. AskChunk(fetch')
    BY <1>2 DEF Fetch, MoveOn, GetBlocksInRange, NextChunk
  <2> QED
    BY <2>1, SomeCalls, FreshOK DEF AskChunk
<1>3. CASE Store \/ FetchFails
  <2>1. EndFetch
    BY <1>3 DEF Store, FetchFails, RangeFetched, RangeFailed
  <2> QED
    BY <2>1, SomeCalls, FreshOK DEF EndFetch
<1>4. CASE Restart
  BY <1>4, SomeCalls, FreshOK DEF Restart
<1>5. ASSUME NEW c \in Callers, Answered(c) \/ NullRound(c) \/ Refused(c) PROVE CallInv'
  <2>1. \E o \in Outcomes : call' = [call EXCEPT ![c] = Ended(o)]
    BY <1>5 DEF Answered, NullRound, Refused, Outcomes
  <2> QED
    BY <2>1, OneCall, FreshOK
<1>6. ASSUME NEW c \in Callers, Failed(c) PROVE CallInv'
  <2>1. PICK k \in Retried(call[c]) : call' = [call EXCEPT ![c] = k]
    BY <1>6 DEF Failed
  <2>2. CallOK(k)
    BY <1>6, RetriedOK DEF Failed, CallInv
  <2> QED
    BY <2>1, <2>2, OneCall
<1>7. ASSUME NEW c \in Callers, WakeUp(c) PROVE CallInv'
  <2>1. call' = [call EXCEPT ![c] = NextAttempt(call[c])]
    BY <1>7 DEF WakeUp
  <2>2. CallOK(NextAttempt(call[c]))
    BY <1>7, NextAttemptOK DEF WakeUp, CallInv
  <2> QED
    BY <2>1, <2>2, OneCall
<1>8. ASSUME NEW r \in Requests, BeginRequest(r) \/ CursorUnread(r) \/ Reply(r) PROVE CallInv'
  <2>1. r \in Callers
    BY DEF Callers
  <2> QED
    BY <1>8, <2>1, OneCall, FreshOK DEF BeginRequest, CursorUnread, Reply
<1>9. ASSUME NEW r \in Requests, ReadCursor(r) PROVE CallInv'
  BY <1>9 DEF ReadCursor, rpcVars, CallInv, CallOK
<1>10. CASE Tick
  <2>1. ASSUME NEW c \in Callers PROVE call'[c] = call[c] \/ CallOK(call'[c])
    <3>1. CASE Waits(call[c])
      <4>1. call'[c] = [call[c] EXCEPT !.left = @ - 1, !.age = @ + 1] /\ ~IsDue(call[c])
        BY <1>10, <3>1 DEF Tick, TimePasses
      <4> QED
        BY <3>1, <4>1, TimePassesOK DEF CallInv
    <3>2. CASE ~Waits(call[c])
      BY <1>10, <3>2 DEF Tick, TimePasses
    <3> QED
      BY <3>1, <3>2
  <2>2. call' = [c \in Callers |-> call'[c]]
    BY <1>10 DEF Tick, TimePasses
  <2> QED
    BY <2>1, <2>2, SomeCalls
<1> QED
  BY <1>1, <1>2, <1>3, <1>4, <1>5, <1>6, <1>7, <1>8, <1>9, <1>10
  DEF Next, OfTheClient, LatestBlock, Callers

-----------------------------------------------------------------------------
(* Types. *)

LEMMA InitType == Init => TypeInv
<1> SUFFICES ASSUME Init PROVE TypeInv
  OBVIOUS
<1>1. CallInv
  BY InitCalls
<1>2. fetch \in [runs : BOOLEAN, at : 1..(MaxBlock + 1), to : 0..MaxBlock] /\ ~fetch.runs
  BY RpcAssumption DEF Init, RpcInit, NoFetch
<1>3. request \in [Requests -> [stage : {"idle", "rpc", "decide"}, latest : 0..MaxBlock,
                               seen : 0..MaxBlock, fresh : BOOLEAN]]
  BY RpcAssumption DEF Init, NoRequest
<1>4. /\ head \in Blocks /\ 0 \in 0..MaxBlock /\ 0 \in 0..StaleTimeout /\ 0 \in 0..Period
      /\ 0 \in 0..QuietBound /\ 0 \in 0..MaxFaults
  BY RpcAssumption, HealthAssumption, Times DEF Init
<1> QED
  BY <1>1, <1>2, <1>3, <1>4
  DEF Init, RpcInit, TypeInv, TypeOK, RpcTypeOK, FetchInv, CallInv, CallRecord

(* A chunk lies within its range. *)
LEMMA ChunkInRange ==
  ASSUME FetchInv, fetch.runs, cursor \in 0..MaxBlock
  PROVE  /\ LastOfChunk(fetch) \in fetch.at..fetch.to
         /\ LastOfChunk(fetch) < fetch.to => LastOfChunk(fetch) = fetch.at + Concurrency - 1
         /\ Chunk(fetch) = fetch.at..LastOfChunk(fetch) /\ Chunk(fetch) \subseteq Blocks
<1>1. /\ fetch.at \in Nat /\ fetch.to \in Nat /\ fetch.at >= 1 /\ fetch.at <= fetch.to
      /\ fetch.to <= MaxBlock /\ MaxBlock \in Nat /\ Concurrency \in Nat /\ Concurrency >= 1
  BY RpcAssumption DEF FetchInv
<1> QED
  BY <1>1 DEF LastOfChunk, Chunk, Blocks

(* A fetch keeps its range on the chain. *)
LEMMA NextFetch == TypeInv /\ [Next]_vars => FetchInv'
<1> SUFFICES ASSUME TypeInv, [Next]_vars PROVE FetchInv'
  OBVIOUS
<1>0. MaxBlock \in Nat /\ cursor \in 0..MaxBlock /\ head \in 1..MaxBlock /\ FetchInv
  BY RpcAssumption DEF TypeInv, TypeOK, Blocks
<1>1. ASSUME UNCHANGED <<fetch, cursor>> PROVE FetchInv'
  BY <1>0, <1>1 DEF FetchInv
<1>2. CASE Fetch
  <2>1. /\ cursor < Safe /\ Safe <= head /\ Safe \in Int
        /\ fetch' = [runs |-> TRUE, at |-> cursor + 1, to |-> RangeEnd] /\ cursor' = cursor
    BY <1>0, <1>2, HealthAssumption DEF Fetch, GetBlocksInRange, Safe
  <2>2. RangeEnd \in Int /\ cursor + 1 <= RangeEnd /\ RangeEnd <= Safe
    BY <1>0, <2>1, HealthAssumption DEF RangeEnd
  <2> QED
    BY <1>0, <2>1, <2>2 DEF FetchInv
<1>3. CASE MoveOn
  <2>1. /\ fetch.runs /\ LastOfChunk(fetch) < fetch.to /\ cursor' = cursor
        /\ fetch' = [fetch EXCEPT !.at = @ + Concurrency]
    BY <1>3 DEF MoveOn, NextChunk, ChunkAnswered
  <2>2. /\ fetch.at + Concurrency <= fetch.to /\ cursor < fetch.at + Concurrency
        /\ fetch.at + Concurrency \in 1..(MaxBlock + 1)
    BY <1>0, <2>1, ChunkInRange, RpcAssumption DEF FetchInv
  <2> QED
    BY <1>0, <2>1, <2>2 DEF FetchInv
<1>4. CASE Store \/ FetchFails \/ Restart
  <2>1. fetch' = [runs |-> FALSE, to |-> 0, at |-> 1]
    BY <1>4 DEF Store, FetchFails, Restart, RangeFetched, RangeFailed, EndFetch, NoFetch
  <2> QED
    BY <1>0, <2>1 DEF FetchInv
<1>5. CASE RollBack
  BY <1>0, <1>5 DEF RollBack, FetchInv, rpcVars
<1>6. ASSUME NEW c \in Callers, Answered(c) \/ NullRound(c) \/ Refused(c) \/ Failed(c) \/ WakeUp(c)
      PROVE  UNCHANGED fetch
  BY <1>6 DEF Answered, NullRound, Refused, Failed, WakeUp
<1> QED
  BY <1>1, <1>2, <1>3, <1>4, <1>5, <1>6
  DEF Next, OfTheClient, Callers, Grow, BeginRequest, LatestBlock, ReadCursor, CursorUnread,
      Reply, Tick, TimePasses, vars, rpcVars

(* Every step keeps the types. *)
LEMMA NextType == TypeInv /\ [Next]_vars => TypeInv'
<1> SUFFICES ASSUME TypeInv, [Next]_vars PROVE TypeInv'
  OBVIOUS
<1>1. CallInv' /\ FetchInv'
  BY NextCalls, NextFetch DEF TypeInv
<1>2. call' \in [Callers -> [phase : {"idle", "asked", "sleeping", "ended"},
                             attempt : 0..(MaxRetries - 1), age : Nat, left : Nat,
                             outcome : Outcomes]]
  BY <1>1 DEF CallInv, CallRecord
<1>3. fetch' \in [runs : BOOLEAN, at : 1..(MaxBlock + 1), to : 0..MaxBlock]
  BY <1>1 DEF FetchInv
<1>4. /\ MaxBlock \in Nat /\ MaxFaults \in Nat /\ Period \in Nat /\ StaleTimeout \in Nat
      /\ QuietBound \in Nat
  BY RpcAssumption, HealthAssumption, Times
<1> DEFINE StateOK ==
      /\ known \subseteq Blocks
      /\ head \in 1..MaxBlock
      /\ cursor \in 0..MaxBlock
      /\ lastIndexedBlock \in 0..MaxBlock
      /\ staleFor \in 0..StaleTimeout
      /\ request \in [Requests -> [stage : {"idle", "rpc", "decide"},
                                   latest : 0..MaxBlock, seen : 0..MaxBlock,
                                   fresh : BOOLEAN]]
      /\ sinceRequest \in 0..Period
      /\ quiet \in 0..QuietBound /\ blind \in BOOLEAN
      /\ high \in 0..MaxBlock /\ climbing \in BOOLEAN
      /\ faults \in 0..MaxFaults
<1>5. StateOK
  BY DEF TypeInv, TypeOK, RpcTypeOK, Blocks
<1>6. NoRequest \in [stage : {"idle", "rpc", "decide"}, latest : 0..MaxBlock,
                    seen : 0..MaxBlock, fresh : BOOLEAN]
  BY <1>4 DEF NoRequest
<1>7. StateOK'
  <2>1. CASE UNCHANGED vars
    BY <1>5, <2>1 DEF vars, rpcVars, healthVars, historyVars
  <2>2. CASE Grow
    BY <1>4, <1>5, <2>2 DEF Grow, rpcVars, healthVars, historyVars
  <2>3. CASE Fetch \/ MoveOn \/ FetchFails
    <3>1. UNCHANGED <<known, head, cursor, healthVars, historyVars, faults>>
      <4>1. CASE Fetch
        BY <4>1 DEF Fetch, GetBlocksInRange
      <4>2. CASE MoveOn
        BY <4>2 DEF MoveOn, NextChunk
      <4>3. CASE FetchFails
        BY <4>3 DEF FetchFails, RangeFailed, EndFetch
      <4> QED
        BY <2>3, <4>1, <4>2, <4>3
    <3> QED
      BY <1>5, <3>1 DEF healthVars, historyVars
  <2>4. CASE Store
    <3>1. fetch.to \in 0..MaxBlock
      BY DEF TypeInv, FetchInv
    <3>2. cursor' \in 0..MaxBlock /\ high' \in 0..MaxBlock
      BY <1>5, <2>4, <3>1 DEF Store
    <3>3. quiet' \in 0..QuietBound
      BY <1>4, <2>4 DEF Store
    <3>6. blind' \in BOOLEAN
      BY <2>4 DEF Store
    <3>4. climbing' \in BOOLEAN
      BY <2>4 DEF Store
    <3>5. UNCHANGED <<known, head, healthVars, faults>>
      BY <2>4 DEF Store, RangeFetched, EndFetch
    <3> QED
      BY <1>5, <3>2, <3>3, <3>4, <3>5, <3>6 DEF healthVars
  <2>5. CASE RollBack
    <3>1. cursor' \in 0..MaxBlock /\ faults' \in 0..MaxFaults
      BY <1>4, <1>5, <2>5 DEF RollBack
    <3>2. climbing' \in BOOLEAN
      BY <2>5 DEF RollBack
    <3>3. UNCHANGED <<known, head, healthVars, quiet, blind, high>>
      BY <2>5 DEF RollBack, rpcVars
    <3> QED
      BY <1>5, <3>1, <3>2, <3>3 DEF healthVars
  <2>6. CASE Restart
    <3>1. blind' \in BOOLEAN /\ climbing' \in BOOLEAN
      <4>1. blind' = FALSE /\ climbing' = TRUE
        BY <2>6 DEF Restart
      <4> QED
        BY <4>1
    <3>2. /\ lastIndexedBlock' \in 0..MaxBlock /\ staleFor' \in 0..StaleTimeout
          /\ sinceRequest' \in 0..Period /\ quiet' \in 0..QuietBound /\ faults' \in 0..MaxFaults
      BY <1>4, <1>5, <2>6 DEF Restart
    <3>3. request' \in [Requests -> [stage : {"idle", "rpc", "decide"}, latest : 0..MaxBlock,
                                    seen : 0..MaxBlock, fresh : BOOLEAN]]
      BY <1>6, <2>6 DEF Restart
    <3>4. high' \in 0..MaxBlock /\ UNCHANGED <<known, head, cursor>>
      BY <1>5, <2>6 DEF Restart
    <3> QED
      BY <1>5, <3>1, <3>2, <3>3, <3>4
  <2>7. ASSUME NEW c \in Callers,
               OfTheClient(Answered(c) \/ NullRound(c) \/ Refused(c) \/ Failed(c) \/ WakeUp(c))
        PROVE  StateOK'
    <3>1. known' \subseteq Blocks
      BY <1>5, <2>7 DEF OfTheClient, Answered, NullRound, Refused, Failed, WakeUp
    <3> QED
      BY <1>5, <2>7, <3>1 DEF OfTheClient, healthVars, historyVars
  <2>8. ASSUME NEW r \in Requests, BeginRequest(r) \/ CursorUnread(r) \/ Reply(r) PROVE StateOK'
    <3>1. request[r].seen \in 0..MaxBlock
      BY <1>5
    <3>2. CASE BeginRequest(r)
      BY <1>4, <1>5, <3>2 DEF BeginRequest, historyVars
    <3>3. CASE CursorUnread(r)
      BY <1>5, <1>6, <3>3 DEF CursorUnread
    <3>4. CASE Reply(r)
      BY <1>4, <1>5, <1>6, <3>1, <3>4 DEF Reply, historyVars
    <3> QED
      BY <2>8, <3>2, <3>3, <3>4
  <2>9. ASSUME NEW r \in Requests, LatestBlock(r) PROVE StateOK'
    <3>1. known' \subseteq Blocks
      BY <1>5, <2>9 DEF LatestBlock, Answered
    <3>2. head \in 0..MaxBlock
      BY <1>4, <1>5
    <3> QED
      BY <1>5, <2>9, <3>1, <3>2 DEF LatestBlock, historyVars
  <2>10. ASSUME NEW r \in Requests, ReadCursor(r) PROVE StateOK'
    <3>1. (climbing /\ quiet < StaleTimeout) \in BOOLEAN
      BY <1>5
    <3> DEFINE fresh == climbing /\ quiet < StaleTimeout
    <3>2. request' = [request EXCEPT ![r].stage = "decide", ![r].seen = cursor, ![r].fresh = fresh]
      BY <2>10 DEF ReadCursor
    <3> HIDE DEF fresh
    <3>3. request' \in [Requests -> [stage : {"idle", "rpc", "decide"}, latest : 0..MaxBlock,
                                    seen : 0..MaxBlock, fresh : BOOLEAN]]
      BY <1>5, <3>1, <3>2 DEF fresh
    <3> QED
      BY <1>5, <2>10, <3>3 DEF ReadCursor, rpcVars, historyVars
  <2>11. CASE Tick
    <3>1. sinceRequest' \in 0..Period
      <4>1. CASE Unprobed
        BY <1>4, <1>5, <2>11, <4>1 DEF Tick
      <4>2. CASE ~Unprobed
        BY <1>5, <2>11, <4>2 DEF Tick
      <4> QED
        BY <4>1, <4>2
    <3>2. staleFor' \in 0..StaleTimeout /\ quiet' \in 0..QuietBound
      BY <1>4, <1>5, <2>11 DEF Tick, CountTo
    <3>3. UNCHANGED <<known, head, cursor, lastIndexedBlock, request,
                      blind, high, climbing, faults>>
      BY <2>11 DEF Tick, TimePasses
    <3> QED
      BY <1>5, <3>1, <3>2, <3>3
  <2> QED
    BY <2>1, <2>2, <2>3, <2>4, <2>5, <2>6, <2>7, <2>8, <2>9, <2>10, <2>11
    DEF Next, OfTheClient, Callers
<1> QED
  BY <1>1, <1>2, <1>3, <1>7 DEF TypeInv, TypeOK, RpcTypeOK, Blocks

(* Every variable of the health server stays in its set, and with it the calls,   *)
(* the chunks and the counters of the code they stand for.                        *)
THEOREM TypesKept == Spec => []TypeOK
<1>1. TypeInv => TypeOK
  BY DEF TypeInv
<1> QED
  BY InitType, NextType, <1>1, PTL DEF Spec

(* An attempt of a call of the RPC client is over within the total timeout and    *)
(* one more timeout, and a call that waits to try again within the longest delay  *)
(* after that, for any timeouts, retries and delays.                              *)
THEOREM CallsInTime == Spec => []AnswersInTime
<1>1. TypeInv => AnswersInTime
  BY DEF TypeInv, CallInv, CallOK, AnswersInTime
<1> QED
  BY InitType, NextType, <1>1, PTL DEF Spec

-----------------------------------------------------------------------------
(* Blocks that the node has answered for. *)

KnownInv ==
  /\ \A b \in Blocks : call[b].outcome \in {"value", "null"} => b \in known
  /\ \A b \in 1..cursor : b \in known
  /\ fetch.runs => \A b \in 1..(fetch.at - 1) : b \in known

(* What the node has answered stays answered.                                     *)
LEMMA KnownGrows == [Next]_vars => known \subseteq known'
<1> SUFFICES ASSUME [Next]_vars PROVE known \subseteq known'
  OBVIOUS
<1>1. CASE UNCHANGED vars \/ Grow \/ RollBack \/ Restart \/ Tick
  BY <1>1 DEF vars, rpcVars, Grow, RollBack, Restart, Tick, TimePasses
<1>2. CASE Fetch \/ MoveOn \/ FetchFails \/ Store
  BY <1>2 DEF Fetch, GetBlocksInRange, MoveOn, NextChunk, FetchFails, RangeFailed, Store,
    RangeFetched, EndFetch
<1>3. ASSUME NEW c \in Callers, Answered(c) \/ NullRound(c) \/ Refused(c) \/ Failed(c) \/ WakeUp(c)
      PROVE  known \subseteq known'
  BY <1>3 DEF Answered, NullRound, Refused, Failed, WakeUp
<1>4. ASSUME NEW r \in Requests, BeginRequest(r) \/ ReadCursor(r) \/ CursorUnread(r) \/ Reply(r)
      PROVE  known \subseteq known'
  BY <1>4 DEF BeginRequest, ReadCursor, CursorUnread, Reply, rpcVars
<1> QED
  BY <1>1, <1>2, <1>3, <1>4 DEF Next, OfTheClient, LatestBlock, Callers

(* A call of getBlock() ends with a block or a null round only when the node has  *)
(* answered so.                                                                   *)
LEMMA OutcomeFromNode ==
  ASSUME TypeInv, [Next]_vars, NEW b \in Blocks
  PROVE  call'[b].outcome \in {call[b].outcome, "none", "error"} \/ b \in known'
<1> DEFINE Kept == call'[b].outcome \in {call[b].outcome, "none", "error"}
<1>0. /\ b \in Callers /\ call \in [Callers -> CallRecord]
      /\ NoCall.outcome = "none" /\ Asked.outcome = "none"
  BY DEF Callers, TypeInv, CallInv, NoCall, Asked
<1>1. CASE UNCHANGED vars \/ Grow \/ RollBack
  BY <1>1 DEF vars, rpcVars, Grow, RollBack
<1>2. CASE Fetch \/ MoveOn
  <2>1. AskChunk(fetch')
    BY <1>2 DEF Fetch, MoveOn, GetBlocksInRange, NextChunk
  <2> QED
    BY <1>0, <2>1 DEF AskChunk
<1>3. CASE Store \/ FetchFails \/ Restart
  <2>1. call'[b] = NoCall
    BY <1>0, <1>3 DEF Store, FetchFails, Restart, RangeFetched, RangeFailed, EndFetch
  <2> QED
    BY <1>0, <2>1
<1>4. ASSUME NEW c \in Callers, Answered(c) \/ NullRound(c) PROVE Kept \/ b \in known'
  BY <1>0, <1>4 DEF Answered, NullRound
<1>5. ASSUME NEW c \in Callers, Refused(c) PROVE Kept
  BY <1>0, <1>5 DEF Refused, Ended, NoCall
<1>6. ASSUME NEW c \in Callers, Failed(c) PROVE Kept
  <2>1. PICK k \in Retried(call[c]) : call' = [call EXCEPT ![c] = k]
    BY <1>6 DEF Failed
  <2>2. k.outcome \in {call[c].outcome, "error"}
    <3>1. call[c] \in CallRecord
      BY <1>0
    <3> QED
      BY <3>1 DEF Retried, CallRecord, Ended, NoCall
  <2> QED
    BY <1>0, <2>1, <2>2
<1>7. ASSUME NEW c \in Callers, WakeUp(c) PROVE Kept
  <2>1. call' = [call EXCEPT ![c] = NextAttempt(call[c])]
    BY <1>7 DEF WakeUp
  <2>2. NextAttempt(call[c]).outcome \in {call[c].outcome, "error"}
    <3>1. call[c] \in CallRecord
      BY <1>0
    <3> QED
      BY <3>1 DEF NextAttempt, CallRecord, Ended, NoCall
  <2> QED
    BY <1>0, <2>1, <2>2
<1>8. ASSUME NEW r \in Requests, BeginRequest(r) \/ ReadCursor(r) \/ CursorUnread(r) \/ Reply(r)
      PROVE  Kept
  BY <1>0, <1>8 DEF BeginRequest, ReadCursor, CursorUnread, Reply, rpcVars
<1>9. CASE Tick
  <2>1. call[b] \in CallRecord
    BY <1>0
  <2>2. call'[b] = IF Waits(call[b])
                     THEN [call[b] EXCEPT !.left = @ - 1, !.age = @ + 1] ELSE call[b]
    BY <1>0, <1>9 DEF Tick, TimePasses
  <2> QED
    BY <2>1, <2>2 DEF CallRecord
<1> QED
  BY <1>1, <1>2, <1>3, <1>4, <1>5, <1>6, <1>7, <1>8, <1>9
  DEF Next, OfTheClient, LatestBlock, Callers

(* The blocks up to the end of an answered chunk are known.                       *)
LEMMA ChunkKnown ==
  ASSUME TypeInv, KnownInv, ChunkAnswered
  PROVE  \A b \in 1..LastOfChunk(fetch) : b \in known
<1>1. fetch.runs /\ \A b \in Chunk(fetch) : call[b].outcome \in {"value", "null"}
  BY DEF ChunkAnswered
<1>2. /\ Chunk(fetch) = fetch.at..LastOfChunk(fetch) /\ Chunk(fetch) \subseteq Blocks
      /\ LastOfChunk(fetch) \in fetch.at..fetch.to /\ fetch.at \in Nat /\ fetch.to \in Nat
  BY <1>1, ChunkInRange DEF TypeInv, TypeOK, FetchInv
<1>3. \A b \in fetch.at..LastOfChunk(fetch) : b \in known
  BY <1>1, <1>2 DEF KnownInv
<1>4. \A b \in 1..(fetch.at - 1) : b \in known
  BY <1>1 DEF KnownInv
<1> QED
  BY <1>2, <1>3, <1>4

(* Every step keeps what the cursor and the fetch have passed known.              *)
LEMMA NextKnown == TypeInv /\ KnownInv /\ [Next]_vars => KnownInv'
<1> SUFFICES ASSUME TypeInv, KnownInv, [Next]_vars PROVE KnownInv'
  OBVIOUS
<1>0. known \subseteq known' /\ Blocks' = Blocks
  BY KnownGrows DEF Blocks
<1>1. \A b \in Blocks : call'[b].outcome \in {"value", "null"} => b \in known'
  BY <1>0, OutcomeFromNode DEF KnownInv
<1>2. /\ \A b \in 1..cursor' : b \in known'
      /\ fetch'.runs => \A b \in 1..(fetch'.at - 1) : b \in known'
  <2>0. /\ cursor \in Nat /\ fetch.at \in Nat /\ fetch.to \in Nat
        /\ fetch \in [runs : BOOLEAN, at : 1..(MaxBlock + 1), to : 0..MaxBlock]
    BY RpcAssumption DEF TypeInv, TypeOK, FetchInv
  <2>1. ASSUME UNCHANGED <<fetch, cursor>>
        PROVE  /\ \A b \in 1..cursor' : b \in known'
               /\ fetch'.runs => \A b \in 1..(fetch'.at - 1) : b \in known'
    BY <1>0, <2>1 DEF KnownInv
  <2>2. CASE Fetch
    <3>1. fetch'.at = cursor + 1 /\ cursor' = cursor
      BY <2>2 DEF Fetch, GetBlocksInRange
    <3> QED
      BY <1>0, <2>0, <3>1 DEF KnownInv
  <2>3. CASE MoveOn
    <3>1. /\ ChunkAnswered /\ LastOfChunk(fetch) < fetch.to /\ cursor' = cursor
          /\ fetch' = [fetch EXCEPT !.at = @ + Concurrency]
      BY <2>3 DEF MoveOn, NextChunk
    <3>2. LastOfChunk(fetch) = fetch.at + Concurrency - 1
      BY <3>1, ChunkInRange DEF TypeInv, TypeOK, ChunkAnswered
    <3>3. fetch'.at - 1 = LastOfChunk(fetch)
      BY <2>0, <3>1, <3>2, RpcAssumption
    <3> QED
      BY <1>0, <3>1, <3>3, ChunkKnown DEF KnownInv
  <2>4. CASE Store
    <3>1. /\ ChunkAnswered /\ LastOfChunk(fetch) = fetch.to /\ cursor' = fetch.to
          /\ ~fetch'.runs
      BY <2>4 DEF Store, RangeFetched, EndFetch, NoFetch
    <3> QED
      BY <1>0, <3>1, ChunkKnown
  <2>5. CASE FetchFails \/ Restart
    <3>1. ~fetch'.runs /\ cursor' = cursor
      BY <2>5 DEF FetchFails, RangeFailed, EndFetch, Restart, NoFetch
    <3> QED
      BY <1>0, <3>1 DEF KnownInv
  <2>6. CASE RollBack
    <3>1. fetch' = fetch /\ cursor' \in 0..(cursor - 1)
      BY <2>6 DEF RollBack, rpcVars
    <3> QED
      BY <1>0, <2>0, <3>1 DEF KnownInv
  <2>7. ASSUME NEW c \in Callers,
               OfTheClient(Answered(c) \/ NullRound(c) \/ Refused(c) \/ Failed(c) \/ WakeUp(c))
        PROVE  UNCHANGED <<fetch, cursor>>
    BY <2>7 DEF OfTheClient, Answered, NullRound, Refused, Failed, WakeUp
  <2>8. ASSUME NEW r \in Requests,
               BeginRequest(r) \/ LatestBlock(r) \/ ReadCursor(r) \/ CursorUnread(r) \/ Reply(r)
        PROVE  UNCHANGED <<fetch, cursor>>
    BY <2>8 DEF BeginRequest, LatestBlock, Answered, ReadCursor, CursorUnread, Reply, rpcVars
  <2>9. CASE UNCHANGED vars \/ Grow \/ Tick
    <3>1. UNCHANGED <<fetch, cursor>>
      BY <2>9 DEF vars, rpcVars, Grow, Tick, TimePasses
    <3> QED
      BY <2>1, <3>1
  <2> QED
    BY <2>1, <2>2, <2>3, <2>4, <2>5, <2>6, <2>7, <2>8, <2>9 DEF Next, OfTheClient, Callers
<1> QED
  BY <1>1, <1>2 DEF KnownInv

(* The cursor passes a block only when the node has answered for it, with the     *)
(* block or a null round, whatever the size of ranges and chunks, the number of   *)
(* callers and what fails.                                                        *)
THEOREM BlocksAnswered == Spec => []NoBlockUnanswered
<1>1. Init => KnownInv
  <2> SUFFICES ASSUME Init PROVE KnownInv
    OBVIOUS
  <2>1. \A b \in Blocks : call[b].outcome = "none"
    BY DEF Init, RpcInit, Callers, NoCall
  <2>2. cursor = 0 /\ ~fetch.runs
    BY DEF Init, RpcInit, NoFetch
  <2> QED
    BY <2>1, <2>2 DEF KnownInv
<1>2. KnownInv => NoBlockUnanswered
  BY DEF KnownInv, NoBlockUnanswered
<1> QED
  BY <1>1, <1>2, InitType, NextType, NextKnown, PTL DEF Spec

-----------------------------------------------------------------------------
(* Requests and their calls. *)

StageInv ==
  \A r \in Requests :
    /\ request[r].stage = "idle" => call[r].phase = "idle"
    /\ request[r].stage = "rpc" => call[r].phase # "idle"
    /\ request[r].stage = "decide" => call[r].phase = "ended"

ClientStep(c) == Answered(c) \/ NullRound(c) \/ Refused(c) \/ Failed(c) \/ WakeUp(c)

(* A step of the chain or the indexer leaves the requests as they are.            *)
LEMMA IndexerStep ==
  ASSUME TypeInv, UNCHANGED vars \/ Grow \/ Fetch \/ MoveOn \/ Store \/ FetchFails \/ RollBack
  PROVE  /\ UNCHANGED <<request, lastIndexedBlock, staleFor, sinceRequest>>
         /\ \A r \in Requests : call'[r] = call[r]
<1>0. \A r \in Requests : r \in Callers /\ r \notin Blocks
  BY RpcAssumption DEF Callers
<1>1. CASE UNCHANGED vars \/ Grow \/ RollBack
  BY <1>1 DEF vars, rpcVars, healthVars, Grow, RollBack
<1>2. CASE Fetch \/ MoveOn
  <2>1. AskChunk(fetch') /\ UNCHANGED healthVars
    BY <1>2 DEF Fetch, MoveOn, GetBlocksInRange, NextChunk
  <2> QED
    BY <1>0, <2>1 DEF AskChunk, healthVars
<1>3. CASE Store \/ FetchFails
  <2>1. EndFetch /\ UNCHANGED healthVars
    BY <1>3 DEF Store, FetchFails, RangeFetched, RangeFailed
  <2> QED
    BY <1>0, <2>1 DEF EndFetch, healthVars
<1> QED
  BY <1>1, <1>2, <1>3

(* A call goes on from where it waits, with its age, or ends.                     *)
LEMMA CallGoesOn ==
  ASSUME TypeInv, NEW c \in Callers, ClientStep(c)
  PROVE  /\ Waits(call[c])
         /\ \A d \in Callers : d # c => call'[d] = call[d]
         /\ \/ Waits(call'[c]) /\ call'[c].age = call[c].age
            \/ call'[c].phase = "ended"
<1>0. call \in [Callers -> CallRecord] /\ call[c] \in CallRecord
  BY DEF TypeInv, CallInv
<1>1. ASSUME NEW k, call' = [call EXCEPT ![c] = k],
             (Waits(k) /\ k.age = call[c].age) \/ k.phase = "ended"
      PROVE  /\ \A d \in Callers : d # c => call'[d] = call[d]
             /\ \/ Waits(call'[c]) /\ call'[c].age = call[c].age
                \/ call'[c].phase = "ended"
  BY <1>0, <1>1
<1>2. \A o \in Outcomes : Ended(o).phase = "ended"
  BY DEF Ended, NoCall
<1>3. CASE Answered(c) \/ NullRound(c) \/ Refused(c)
  <2>1. Waits(call[c]) /\ \E o \in Outcomes : call' = [call EXCEPT ![c] = Ended(o)]
    BY <1>3 DEF Answered, NullRound, Refused, Outcomes, Waits
  <2> QED
    BY <1>1, <1>2, <2>1
<1>4. CASE Failed(c)
  <2>1. Waits(call[c])
    BY <1>4 DEF Failed, Waits
  <2>2. PICK k \in Retried(call[c]) : call' = [call EXCEPT ![c] = k]
    BY <1>4 DEF Failed
  <2>3. (Waits(k) /\ k.age = call[c].age) \/ k.phase = "ended"
    <3>1. CASE call[c].attempt < MaxRetries - 1
      <4>1. \E d : k = [call[c] EXCEPT !.phase = "sleeping", !.left = d]
        BY <3>1 DEF Retried
      <4> QED
        BY <1>0, <4>1 DEF CallRecord, Waits
    <3>2. CASE ~(call[c].attempt < MaxRetries - 1)
      BY <1>2, <3>2 DEF Retried, Outcomes
    <3> QED
      BY <3>1, <3>2
  <2> QED
    BY <1>1, <2>1, <2>2, <2>3
<1>5. CASE WakeUp(c)
  <2>1. Waits(call[c]) /\ call' = [call EXCEPT ![c] = NextAttempt(call[c])]
    BY <1>5 DEF WakeUp, Waits
  <2>2. \/ Waits(NextAttempt(call[c])) /\ NextAttempt(call[c]).age = call[c].age
        \/ NextAttempt(call[c]).phase = "ended"
    <3>1. CASE call[c].age >= TotalTimeout
      BY <1>2, <3>1 DEF NextAttempt, Outcomes
    <3>2. CASE ~(call[c].age >= TotalTimeout)
      BY <1>0, <3>2 DEF NextAttempt, CallRecord, Waits
    <3> QED
      BY <3>1, <3>2
  <2> QED
    BY <1>1, <2>1, <2>2
<1> QED
  BY <1>3, <1>4, <1>5 DEF ClientStep

(* The steps of a behaviour, by who takes them.                                   *)
LEMMA StepCases ==
  ASSUME [Next]_vars
  PROVE  \/ UNCHANGED vars \/ Grow \/ Fetch \/ MoveOn \/ Store \/ FetchFails \/ RollBack
         \/ \E c \in Callers : OfTheClient(ClientStep(c))
         \/ \E r \in Requests :
              BeginRequest(r) \/ LatestBlock(r) \/ ReadCursor(r) \/ CursorUnread(r) \/ Reply(r)
         \/ Restart \/ Tick
  BY DEF Next, OfTheClient, ClientStep, Callers

(* Time passes for the calls that wait.                                           *)
LEMMA TickCalls ==
  ASSUME TypeInv, Tick, NEW c \in Callers
  PROVE  /\ call'[c].phase = call[c].phase
         /\ Waits(call[c]) => call'[c].age = call[c].age + 1
<1>1. call[c] \in CallRecord
  BY DEF TypeInv, CallInv
<1>2. call'[c] = IF Waits(call[c]) THEN [call[c] EXCEPT !.left = @ - 1, !.age = @ + 1] ELSE call[c]
  BY DEF Tick, TimePasses
<1> QED
  BY <1>1, <1>2 DEF CallRecord

(* No request has a call at first.                                                *)
LEMMA InitStage == Init => StageInv
  BY DEF Init, RpcInit, StageInv, NoRequest, NoCall, Callers

(* Every step keeps a request and its call together.                              *)
LEMMA NextStage == TypeInv /\ StageInv /\ [Next]_vars => StageInv'
<1> SUFFICES ASSUME TypeInv, StageInv, [Next]_vars PROVE StageInv'
  OBVIOUS
<1>0. /\ call \in [Callers -> CallRecord] /\ Requests \subseteq Callers
      /\ \A r \in Requests : request[r].stage \in {"idle", "rpc", "decide"}
      /\ NoCall.phase = "idle" /\ Asked.phase = "asked" /\ NoRequest.stage = "idle"
      /\ request = [r \in Requests |-> request[r]]
  BY DEF TypeInv, TypeOK, CallInv, Callers, NoCall, Asked, NoRequest
<1>1. CASE UNCHANGED vars \/ Grow \/ Fetch \/ MoveOn \/ Store \/ FetchFails \/ RollBack
  BY <1>1, IndexerStep DEF StageInv
<1>2. ASSUME NEW c \in Callers, ClientStep(c),
             \A r \in Requests : request'[r].stage = request[r].stage
      PROVE  StageInv'
  <2>1. /\ Waits(call[c]) /\ \A d \in Callers : d # c => call'[d] = call[d]
        /\ call'[c].phase \in {"asked", "sleeping", "ended"}
    BY <1>2, CallGoesOn DEF Waits
  <2> QED
    BY <1>0, <1>2, <2>1 DEF StageInv, Waits
<1>3. ASSUME NEW r \in Requests, LatestBlock(r) PROVE StageInv'
  <2>1. \A q \in Requests : request'[q].stage = request[q].stage
    BY <1>0, <1>3 DEF LatestBlock, TypeInv, TypeOK
  <2> QED
    BY <1>0, <1>2, <1>3, <2>1 DEF LatestBlock, ClientStep
<1>4. ASSUME NEW r \in Requests, BeginRequest(r) \/ CursorUnread(r) \/ Reply(r) PROVE StageInv'
  <2>1. CASE BeginRequest(r)
    <3>1. /\ request' = [request EXCEPT ![r].stage = "rpc"] /\ call' = [call EXCEPT ![r] = Asked]
      BY <2>1 DEF BeginRequest
    <3>2. request'[r].stage = "rpc" /\ \A q \in Requests : q # r => request'[q] = request[q]
      BY <3>1 DEF TypeInv, TypeOK
    <3> QED
      BY <1>0, <3>1, <3>2 DEF StageInv
  <2>2. CASE CursorUnread(r) \/ Reply(r)
    <3>1. request' = [request EXCEPT ![r] = NoRequest] /\ call' = [call EXCEPT ![r] = NoCall]
      BY <2>2 DEF CursorUnread, Reply
    <3> QED
      BY <1>0, <3>1 DEF StageInv
  <2> QED
    BY <1>4, <2>1, <2>2
<1>5. ASSUME NEW r \in Requests, ReadCursor(r) PROVE StageInv'
  <2>1. /\ call[r].phase = "ended" /\ call' = call
        /\ request'[r].stage = "decide" /\ \A q \in Requests : q # r => request'[q] = request[q]
    BY <1>5 DEF ReadCursor, rpcVars, TypeInv, TypeOK
  <2> QED
    BY <2>1 DEF StageInv
<1>6. CASE Restart
  BY <1>0, <1>6 DEF Restart, StageInv
<1>7. CASE Tick
  <2>1. request' = request
    BY <1>7 DEF Tick
  <2> QED
    BY <1>0, <1>7, <2>1, TickCalls DEF StageInv
<1> QED
  BY <1>1, <1>2, <1>3, <1>4, <1>5, <1>6, <1>7, StepCases DEF OfTheClient, healthVars

-----------------------------------------------------------------------------
(* No false alarm. *)

(* While the cursor climbs it is at its highest, and a server that has noticed it *)
(* noticed it no earlier than it moved.                                           *)
AlarmInv ==
  /\ cursor <= high /\ lastIndexedBlock <= high
  /\ \A r \in Requests : request[r].seen <= high
  /\ climbing => cursor = high
  /\ climbing /\ lastIndexedBlock = high => staleFor <= quiet
  /\ \A r \in Requests :
       request[r].stage = "decide" /\ request[r].fresh
         => request[r].seen > lastIndexedBlock \/ staleFor < StaleTimeout

(* Every step keeps the server no more than in step with the cursor.              *)
LEMMA NextAlarm == TypeInv /\ StageInv /\ AlarmInv /\ [Next]_vars => AlarmInv'
<1> SUFFICES ASSUME TypeInv, StageInv, AlarmInv, [Next]_vars PROVE AlarmInv'
  OBVIOUS
<1>0. /\ cursor \in Nat /\ high \in Nat /\ lastIndexedBlock \in Nat /\ staleFor \in Nat
      /\ quiet \in Nat /\ StaleTimeout \in Nat \ {0} /\ staleFor <= StaleTimeout
      /\ StaleTimeout <= QuietBound /\ QuietBound \in Nat
      /\ \A r \in Requests : request[r].seen \in Nat
      /\ request \in [Requests -> [stage : {"idle", "rpc", "decide"}, latest : 0..MaxBlock,
                                   seen : 0..MaxBlock, fresh : BOOLEAN]]
      /\ fetch.to \in Nat
  BY Times, RpcAssumption, HealthAssumption DEF TypeInv, TypeOK, FetchInv, QuietBound
<1>1. ASSUME UNCHANGED <<cursor, high, climbing, quiet, staleFor, lastIndexedBlock>>,
             \A r \in Requests : request'[r].seen = request[r].seen
                                 /\ request'[r].fresh = request[r].fresh,
             \A r \in Requests : request'[r].stage = "decide" => request[r].stage = "decide"
      PROVE  AlarmInv'
  BY <1>1 DEF AlarmInv
<1>2. CASE UNCHANGED vars \/ Grow \/ Fetch \/ MoveOn \/ FetchFails
  <2>1. UNCHANGED <<cursor, high, climbing, quiet>>
    BY <1>2 DEF vars, historyVars, Grow, Fetch, MoveOn, FetchFails
  <2> QED
    BY <1>1, <1>2, <2>1, IndexerStep
<1>3. CASE RollBack
  <2>1. cursor' \in 0..(cursor - 1) /\ ~climbing' /\ high' = high
    BY <1>3 DEF RollBack
  <2> QED
    BY <1>0, <1>3, <2>1, IndexerStep DEF AlarmInv
<1>4. CASE Store
  <2>1. /\ cursor' = fetch.to /\ quiet' = 0 /\ climbing' = (cursor' > high)
        /\ high' = IF cursor' > high THEN cursor' ELSE high
    BY <1>4 DEF Store
  <2>2. /\ UNCHANGED <<request, lastIndexedBlock, staleFor>>
    BY <1>4, IndexerStep
  <2>3. climbing' => cursor' > high
    BY <2>1
  <2>4. cursor' \in Nat /\ high' \in Nat /\ high <= high' /\ cursor' <= high'
        /\ (cursor' > high => high' = cursor')
    BY <1>0, <2>1
  <2> QED
    BY <1>0, <2>2, <2>3, <2>4 DEF AlarmInv
<1>5. ASSUME NEW c \in Callers, OfTheClient(ClientStep(c)) PROVE AlarmInv'
  BY <1>1, <1>5 DEF OfTheClient, healthVars, historyVars
<1>6. ASSUME NEW r \in Requests, BeginRequest(r) \/ LatestBlock(r) PROVE AlarmInv'
  <2>1. UNCHANGED <<cursor, high, climbing, quiet, staleFor, lastIndexedBlock>>
    BY <1>6 DEF BeginRequest, LatestBlock, historyVars
  <2>2. /\ \A q \in Requests : /\ request'[q].seen = request[q].seen
                               /\ request'[q].fresh = request[q].fresh
        /\ \A q \in Requests : request'[q].stage = "decide" => request[q].stage = "decide"
    BY <1>0, <1>6 DEF BeginRequest, LatestBlock
  <2> QED
    BY <1>1, <2>1, <2>2
<1>7. ASSUME NEW r \in Requests, ReadCursor(r) PROVE AlarmInv'
  <2>1. UNCHANGED <<cursor, high, climbing, quiet, staleFor, lastIndexedBlock>>
    BY <1>7 DEF ReadCursor, historyVars
  <2> DEFINE fresh == climbing /\ quiet < StaleTimeout
  <2>2. request' = [request EXCEPT ![r].stage = "decide", ![r].seen = cursor, ![r].fresh = fresh]
    BY <1>7 DEF ReadCursor
  <2> HIDE DEF fresh
  <2>3. /\ request'[r].seen = cursor /\ request'[r].fresh = fresh
        /\ \A q \in Requests : q # r => request'[q] = request[q]
    BY <1>0, <2>2
  <2>4. fresh => cursor > lastIndexedBlock \/ staleFor < StaleTimeout
    BY <1>0 DEF AlarmInv, fresh
  <2> QED
    BY <2>1, <2>3, <2>4 DEF AlarmInv
<1>8. ASSUME NEW r \in Requests, CursorUnread(r) PROVE AlarmInv'
  <2>1. /\ UNCHANGED <<cursor, high, climbing, quiet, staleFor, lastIndexedBlock>>
        /\ request' = [request EXCEPT ![r] = NoRequest]
    BY <1>8 DEF CursorUnread
  <2>2. NoRequest.seen = 0 /\ NoRequest.stage = "idle"
    BY DEF NoRequest
  <2>3. request'[r] = NoRequest /\ \A q \in Requests : q # r => request'[q] = request[q]
    BY <1>0, <2>1
  <2> QED
    BY <1>0, <2>1, <2>2, <2>3 DEF AlarmInv
<1>9. ASSUME NEW r \in Requests, Reply(r) PROVE AlarmInv'
  <2>1. UNCHANGED <<cursor, high, climbing, quiet>> /\ request' = [request EXCEPT ![r] = NoRequest]
    BY <1>9 DEF Reply, historyVars
  <2>2. NoRequest.seen = 0 /\ NoRequest.stage = "idle"
    BY DEF NoRequest
  <2>3. request'[r] = NoRequest /\ \A q \in Requests : q # r => request'[q] = request[q]
    BY <1>0, <2>1
  <2>4. \/ lastIndexedBlock' = request[r].seen /\ staleFor' = 0
        \/ UNCHANGED <<lastIndexedBlock, staleFor>>
    BY <1>9 DEF Reply
  <2> QED
    BY <1>0, <2>1, <2>2, <2>3, <2>4 DEF AlarmInv
<1>10. CASE Restart
  <2>1. /\ lastIndexedBlock' = 0 /\ staleFor' = 0 /\ quiet' = 0
        /\ high' = cursor /\ cursor' = cursor
        /\ request' = [r \in Requests |-> NoRequest]
    BY <1>10 DEF Restart
  <2>2. NoRequest.seen = 0 /\ NoRequest.stage = "idle"
    BY DEF NoRequest
  <2> QED
    BY <1>0, <2>1, <2>2 DEF AlarmInv
<1>11. CASE Tick
  <2>1. /\ UNCHANGED <<cursor, lastIndexedBlock, request, high, climbing>>
        /\ staleFor' = CountTo(staleFor, StaleTimeout) /\ quiet' = CountTo(quiet, QuietBound)
        /\ \A r \in Requests : request[r].stage # "idle" => Waits(call[r])
    BY <1>11 DEF Tick
  <2>2. \A r \in Requests : request[r].stage # "decide"
    BY <2>1 DEF StageInv, Waits
  <2>3. staleFor <= quiet => staleFor' <= quiet'
    BY <1>0, <2>1 DEF CountTo
  <2> QED
    BY <1>0, <2>1, <2>2, <2>3 DEF AlarmInv
<1> QED
  BY <1>2, <1>3, <1>4, <1>5, <1>6, <1>7, <1>8, <1>9, <1>10, <1>11, StepCases

(* While the cursor climbs and has moved within the stale timeout, a request that *)
(* reads it is not answered that nothing is indexed, however many requests        *)
(* overlap and whatever they write to the variables they share.                   *)
THEOREM AlarmIsTrue == Spec => []NoFalseAlarm
<1>1. Init => AlarmInv
  BY DEF Init, AlarmInv, NoRequest
<1>2. TypeInv /\ AlarmInv => NoFalseAlarm
  BY DEF AlarmInv, NoFalseAlarm, Indexing, Progressed
<1> QED
  BY <1>1, <1>2, InitType, NextType, InitStage, NextStage, NextAlarm, PTL DEF Spec

-----------------------------------------------------------------------------
(* Stalls are reported. *)

(* A request that will read the cursor, or has, began soon after the cursor moved. *)
Probing(r) ==
  /\ request[r].stage # "idle"
  /\ quiet <= Period + (IF Waits(call[r]) THEN call[r].age ELSE LongestCall)

Noticing ==
  /\ Unprobed => quiet <= sinceRequest
  /\ ~Unprobed => \E r \in Requests : Probing(r)

(* Progress is being noticed, or was noticed in time; what a request has seen is  *)
(* recent; and a cursor beyond what a request has seen has only just moved.       *)
StallInv ==
  /\ \A r \in Requests : request[r].stage = "decide" /\ request[r].seen < cursor => quiet = 0
  /\ ~blind =>
       /\ lastIndexedBlock < cursor => Noticing
       /\ lastIndexedBlock >= cursor /\ staleFor < StaleTimeout
            => quiet <= staleFor + Period + LongestCall
       /\ \A r \in Requests :
            request[r].stage = "decide" /\ request[r].seen > lastIndexedBlock
              => quiet <= Period + LongestCall

(* A cursor that is being noticed has moved within a period and a call.           *)
LEMMA NoticingBound ==
  ASSUME TypeInv, Noticing
  PROVE  quiet <= Period + LongestCall
<1>0. /\ quiet \in Nat /\ sinceRequest \in 0..Period /\ Period \in Nat /\ LongestCall \in Nat
  BY Times, HealthAssumption DEF TypeInv, TypeOK
<1>1. CASE Unprobed
  BY <1>0, <1>1 DEF Noticing
<1>2. ASSUME NEW r \in Requests, Probing(r) PROVE quiet <= Period + LongestCall
  <2>1. call[r] \in CallRecord /\ CallOK(call[r])
    BY DEF TypeInv, CallInv, Callers
  <2>2. CASE Waits(call[r])
    <3>1. call[r].age \in Nat /\ call[r].left \in Nat
      BY <2>1 DEF CallRecord
    <3>2. call[r].age + call[r].left < LongestCall
      BY <2>1, <2>2, <3>1, Times, RpcAssumption DEF CallOK, Waits
    <3> QED
      BY <1>0, <1>2, <2>2, <3>1, <3>2 DEF Probing
  <2>3. CASE ~Waits(call[r])
    BY <1>2, <2>3 DEF Probing
  <2> QED
    BY <2>2, <2>3
<1> QED
  BY <1>1, <1>2 DEF Noticing

JustMoved == quiet = 0

(* When the cursor has just moved there is nothing to bound.                      *)
LEMMA MovedNoStall == TypeInv /\ JustMoved => StallInv
<1> SUFFICES ASSUME TypeInv, quiet = 0 PROVE StallInv
  BY DEF JustMoved
<1>1. /\ staleFor \in Nat /\ sinceRequest \in Nat /\ Period \in Nat /\ LongestCall \in Nat
  BY Times, HealthAssumption DEF TypeInv, TypeOK
<1>2. \A r \in Requests : Waits(call[r]) => call[r].age \in Nat
  BY DEF TypeInv, CallInv, CallRecord, Callers
<1>3. Noticing
  BY <1>1, <1>2 DEF Noticing, Probing, Unprobed
<1> QED
  BY <1>1, <1>3 DEF StallInv

(* Every step keeps the times of what requests notice bounded.                    *)
LEMMA NextStall == TypeInv /\ StageInv /\ StallInv /\ [Next]_vars => StallInv'
<1> SUFFICES ASSUME TypeInv, StageInv, StallInv, [Next]_vars PROVE StallInv'
  OBVIOUS
<1>0. /\ cursor \in Nat /\ lastIndexedBlock \in Nat /\ staleFor \in 0..StaleTimeout
      /\ quiet \in 0..QuietBound /\ QuietBound \in Nat /\ sinceRequest \in 0..Period
      /\ StaleTimeout \in Nat \ {0} /\ Period \in Nat /\ LongestCall \in Nat
      /\ \A r \in Requests : request[r].seen \in Nat
      /\ request \in [Requests -> [stage : {"idle", "rpc", "decide"}, latest : 0..MaxBlock,
                                   seen : 0..MaxBlock, fresh : BOOLEAN]]
      /\ Requests \subseteq Callers /\ call \in [Callers -> CallRecord]
      /\ NoRequest.stage = "idle" /\ Asked.phase = "asked" /\ Asked.age = 0
  BY Times, HealthAssumption
  DEF TypeInv, TypeOK, CallInv, Callers, NoRequest, Asked, NoCall
<1>types. TypeInv'
  BY NextType
<1>1. CASE UNCHANGED vars \/ Grow \/ Fetch \/ MoveOn \/ FetchFails
  <2>1. UNCHANGED <<cursor, quiet, blind>>
    BY <1>1 DEF vars, historyVars, Grow, Fetch, MoveOn, FetchFails
  <2> QED
    BY <1>1, <2>1, IndexerStep DEF StallInv, Noticing, Probing, Unprobed
<1>2. CASE Store \/ Restart
  <2>1. JustMoved'
    BY <1>2 DEF Store, Restart, JustMoved
  <2> QED
    BY <1>types, <2>1, MovedNoStall, PTL
<1>3. CASE RollBack
  <2>1. /\ cursor' \in 0..(cursor - 1) /\ UNCHANGED <<quiet, blind>>
        /\ UNCHANGED <<request, lastIndexedBlock, staleFor, sinceRequest>>
        /\ \A r \in Requests : call'[r] = call[r]
    BY <1>3, IndexerStep DEF RollBack
  <2>2. Noticing => Noticing'
    BY <2>1 DEF Noticing, Probing, Unprobed
  <2>3. ASSUME ~blind, lastIndexedBlock < cursor PROVE quiet <= staleFor + Period + LongestCall
    BY <1>0, <2>3, NoticingBound DEF StallInv
  <2> QED
    BY <1>0, <2>1, <2>2, <2>3 DEF StallInv
<1>4. ASSUME NEW c \in Callers, ClientStep(c),
             UNCHANGED <<cursor, quiet, blind, lastIndexedBlock, staleFor, sinceRequest>>,
             \A r \in Requests : request'[r].stage = request[r].stage
                                 /\ request'[r].seen = request[r].seen
      PROVE  StallInv'
  <2>1. ASSUME Noticing PROVE Noticing'
    <3>1. Unprobed' <=> Unprobed
      BY <1>4 DEF Unprobed
    <3>2. CASE Unprobed
      BY <1>4, <2>1, <3>1, <3>2 DEF Noticing
    <3>3. ASSUME NEW r \in Requests, Probing(r) PROVE Probing(r)'
      <4>1. CASE c = r
        <5>1. Waits(call[r]) /\ quiet <= Period + call[r].age
          BY <1>4, <3>3, <4>1, CallGoesOn DEF Probing
        <5>2. call[r].age < LongestCall
          <6>1. CallOK(call[r]) /\ call[r].age \in Nat /\ call[r].left \in Nat
            BY <1>0 DEF TypeInv, CallInv, CallRecord
          <6> QED
            BY <5>1, <6>1, Times, RpcAssumption DEF CallOK, Waits
        <5>3. CASE Waits(call'[r]) /\ call'[r].age = call[r].age
          BY <1>4, <3>3, <5>1, <5>3 DEF Probing
        <5>4. CASE call'[r].phase = "ended"
          <6>1. call[r].age \in Nat /\ quiet' <= Period + LongestCall
            BY <1>0, <1>4, <5>1, <5>2 DEF CallRecord
          <6> QED
            BY <1>4, <3>3, <5>4, <6>1 DEF Probing, Waits
        <5> QED
          BY <1>4, <4>1, <5>3, <5>4, CallGoesOn
      <4>2. CASE c # r
        BY <1>0, <1>4, <3>3, <4>2, CallGoesOn DEF Probing
      <4> QED
        BY <4>1, <4>2
    <3> QED
      BY <2>1, <3>1, <3>2, <3>3 DEF Noticing
  <2> QED
    BY <1>4, <2>1 DEF StallInv
<1>5. ASSUME NEW r \in Requests, LatestBlock(r) PROVE StallInv'
  <2>1. \A q \in Requests : /\ request'[q].stage = request[q].stage
                            /\ request'[q].seen = request[q].seen
    BY <1>0, <1>5 DEF LatestBlock
  <2>2. r \in Callers /\ ClientStep(r)
    BY <1>0, <1>5 DEF LatestBlock, ClientStep
  <2>3. UNCHANGED <<cursor, quiet, blind, lastIndexedBlock, staleFor, sinceRequest>>
    BY <1>5 DEF LatestBlock, historyVars
  <2> QED
    BY <1>4, <2>1, <2>2, <2>3
<1>6. ASSUME NEW r \in Requests, BeginRequest(r) PROVE StallInv'
  <2>1. /\ UNCHANGED <<cursor, quiet, blind, lastIndexedBlock, staleFor>>
        /\ request[r].stage = "idle" /\ request'[r].stage = "rpc" /\ call'[r] = Asked
        /\ \A q \in Requests : q # r => request'[q] = request[q] /\ call'[q] = call[q]
        /\ request'[r].seen = request[r].seen
    BY <1>0, <1>6 DEF BeginRequest, historyVars
  <2>2. ASSUME Noticing PROVE Noticing'
    <3>1. CASE Unprobed
      <4>1. quiet <= Period /\ Waits(Asked)
        BY <1>0, <2>2, <3>1 DEF Noticing, Waits
      <4>2. Probing(r)'
        BY <1>0, <2>1, <4>1 DEF Probing
      <4>3. ~Unprobed'
        BY <2>1 DEF Unprobed
      <4> QED
        BY <4>2, <4>3 DEF Noticing
    <3>2. ASSUME NEW q \in Requests, Probing(q) PROVE Noticing'
      <4>1. Probing(q)' /\ ~Unprobed'
        BY <2>1, <3>2 DEF Probing, Unprobed
      <4> QED
        BY <4>1 DEF Noticing
    <3> QED
      BY <2>2, <3>1, <3>2 DEF Noticing
  <2>3. \A q \in Requests : request'[q].stage = "decide" => request'[q] = request[q]
    BY <2>1
  <2> QED
    BY <2>1, <2>2, <2>3 DEF StallInv
<1>7. ASSUME NEW r \in Requests, ReadCursor(r) PROVE StallInv'
  <2>1. /\ UNCHANGED <<call, cursor, quiet, blind, lastIndexedBlock, staleFor, sinceRequest>>
        /\ request[r].stage = "rpc" /\ request'[r].stage = "decide" /\ request'[r].seen = cursor
        /\ \A q \in Requests : q # r => request'[q] = request[q]
    BY <1>0, <1>7 DEF ReadCursor, rpcVars, historyVars
  <2>2. ASSUME Noticing PROVE Noticing' /\ quiet <= Period + LongestCall
    <3>1. Unprobed' <=> Unprobed
      BY <2>1 DEF Unprobed
    <3>2. \A q \in Requests : Probing(q) => Probing(q)'
      BY <2>1 DEF Probing
    <3> QED
      BY <2>1, <2>2, <3>1, <3>2, NoticingBound DEF Noticing
  <2> QED
    BY <1>0, <2>1, <2>2 DEF StallInv
<1>8. ASSUME NEW r \in Requests, CursorUnread(r) PROVE StallInv'
  <2>1. /\ UNCHANGED <<cursor, quiet>> /\ blind'
        /\ request' = [request EXCEPT ![r] = NoRequest]
    BY <1>8 DEF CursorUnread
  <2> QED
    BY <1>0, <2>1 DEF StallInv
<1>9. ASSUME NEW r \in Requests, Reply(r) PROVE StallInv'
  <2>1. /\ UNCHANGED <<cursor, quiet, blind, sinceRequest>> /\ request[r].stage = "decide"
        /\ request' = [request EXCEPT ![r] = NoRequest] /\ call' = [call EXCEPT ![r] = NoCall]
    BY <1>9 DEF Reply, historyVars
  <2>2. \/ /\ request[r].seen > lastIndexedBlock
           /\ lastIndexedBlock' = request[r].seen /\ staleFor' = 0
        \/ ~(request[r].seen > lastIndexedBlock) /\ UNCHANGED <<lastIndexedBlock, staleFor>>
    BY <1>9 DEF Reply, Progressed
  <2>3. /\ request'[r].stage = "idle"
        /\ \A q \in Requests : q # r => request'[q] = request[q] /\ call'[q] = call[q]
    BY <1>0, <2>1
  <2>4. CASE request[r].seen < cursor
    <3>1. JustMoved'
      BY <2>1, <2>4 DEF StallInv, JustMoved
    <3> QED
      BY <1>types, <3>1, MovedNoStall, PTL
  <2>5. CASE ~(request[r].seen < cursor)
    <3>1. /\ lastIndexedBlock' >= cursor' /\ lastIndexedBlock' >= lastIndexedBlock
          /\ lastIndexedBlock' \in Nat
      BY <1>0, <2>1, <2>2, <2>5
    <3>2. ASSUME ~blind, staleFor' < StaleTimeout PROVE quiet <= staleFor' + Period + LongestCall
      BY <1>0, <2>1, <2>2, <2>5, <3>2 DEF StallInv
    <3> QED
      BY <1>0, <2>1, <2>3, <3>1, <3>2 DEF StallInv
  <2> QED
    BY <2>4, <2>5
<1>10. CASE Tick
  <2>1. /\ UNCHANGED <<cursor, lastIndexedBlock, request, blind>>
        /\ staleFor' = CountTo(staleFor, StaleTimeout) /\ quiet' = CountTo(quiet, QuietBound)
        /\ \A r \in Requests : request[r].stage # "idle" => Waits(call[r])
        /\ Unprobed => sinceRequest' = sinceRequest + 1
    BY <1>10 DEF Tick
  <2>2. \A r \in Requests : request'[r].stage # "decide"
    BY <2>1 DEF StageInv, Waits
  <2>3. quiet' \in Nat /\ quiet' <= quiet + 1
    BY <1>0, <2>1 DEF CountTo
  <2>4. staleFor' < StaleTimeout => staleFor' = staleFor + 1 /\ staleFor < StaleTimeout
    BY <1>0, <2>1 DEF CountTo
  <2>5. ASSUME Noticing PROVE Noticing'
    <3>1. Unprobed' <=> Unprobed
      BY <2>1 DEF Unprobed
    <3>2. CASE Unprobed
      BY <1>0, <2>1, <2>3, <2>5, <3>1, <3>2 DEF Noticing
    <3>3. ASSUME NEW r \in Requests, Probing(r) PROVE Probing(r)'
      <4>1. Waits(call[r]) /\ quiet <= Period + call[r].age /\ call[r].age \in Nat
        BY <1>0, <2>1, <3>3 DEF Probing, CallRecord
      <4>2. call'[r].phase = call[r].phase /\ call'[r].age = call[r].age + 1
        BY <1>0, <1>10, <4>1, TickCalls
      <4>3. Waits(call'[r])
        BY <4>1, <4>2 DEF Waits
      <4>4. quiet' <= Period + call'[r].age
        BY <1>0, <2>3, <4>1, <4>2
      <4> QED
        BY <2>1, <3>3, <4>3, <4>4 DEF Probing
    <3> QED
      BY <2>5, <3>1, <3>2, <3>3 DEF Noticing
  <2> QED
    BY <1>0, <2>1, <2>2, <2>3, <2>4, <2>5 DEF StallInv
<1>11. ASSUME NEW c \in Callers, OfTheClient(ClientStep(c)) PROVE StallInv'
  BY <1>4, <1>11 DEF OfTheClient, healthVars, historyVars
<1> QED
  BY <1>1, <1>2, <1>3, <1>5, <1>6, <1>7, <1>8, <1>9, <1>10, <1>11, StepCases

(* An indexer that stands still is not called healthy for longer than the stale   *)
(* timeout, a period and the longest call, unless it is at the latest block or    *)
(* the cursor could not be read, whatever the timeouts and the requests.          *)
THEOREM StallIsReported == Spec => []StallReported
<1>1. Init => StallInv
  <2> SUFFICES ASSUME Init PROVE StallInv
    OBVIOUS
  <2>1. TypeInv /\ JustMoved
    BY InitType DEF Init, JustMoved
  <2> QED
    BY <2>1, MovedNoStall
<1>2. TypeInv /\ StallInv => StallReported
  <2> SUFFICES ASSUME TypeInv, StallInv, NEW r \in Requests,
                      request[r].stage = "decide", Indexing(r), ~CaughtUp(r), ~blind
               PROVE  quiet < QuietBound
    BY DEF StallReported
  <2>0. /\ cursor \in Nat /\ lastIndexedBlock \in Nat /\ request[r].seen \in Nat
        /\ staleFor \in Nat /\ quiet \in Nat /\ StaleTimeout \in Nat \ {0}
        /\ Period \in Nat /\ LongestCall \in Nat
        /\ QuietBound = StaleTimeout + Period + LongestCall
    BY Times, HealthAssumption DEF TypeInv, TypeOK, QuietBound
  <2>1. CASE request[r].seen > lastIndexedBlock
    BY <2>0, <2>1 DEF StallInv
  <2>2. CASE ~(request[r].seen > lastIndexedBlock) /\ lastIndexedBlock < cursor
    BY <2>0, <2>2 DEF StallInv
  <2>3. CASE ~(request[r].seen > lastIndexedBlock) /\ lastIndexedBlock >= cursor
    BY <2>0, <2>3 DEF StallInv, Indexing, Progressed
  <2> QED
    BY <2>0, <2>1, <2>2, <2>3
<1> QED
  BY <1>1, <1>2, InitType, NextType, InitStage, NextStage, NextStall, PTL DEF Spec
=============================================================================
