------------------------- MODULE IndexerProcessProofs -------------------------
(***************************************************************************)
(* Proofs about IndexerProcess for any set of processes, any events, batch *)
(* size and numbers of retries and disturbances.  The type invariant needs *)
(* no assumption on database sessions; mutual exclusion, and what follows  *)
(* from it for the events, need both.                                      *)
(***************************************************************************)
EXTENDS IndexerProcess, FiniteSetTheorems, TLAPS

(* attempts stays within its bound because only a waiting process counts and   *)
(* a new one counts from zero.                                               *)
TypeInv ==
  /\ TypeOK
  /\ \A p \in Workers : phase[p] = "acquire" => attempts[p] < MaxAttempts
  /\ \A p \in Workers : phase[p] = "down" => attempts[p] = 0

(* A process between acquire() and release holds the lock, and so does one   *)
(* that died with a transaction open.                                        *)
LockInv ==
  \A p \in Workers :
    /\ Indexing(p) => holder = p
    /\ step[p] # "idle" => phase[p] \in {"process", "down"}

(* The events in hand are pending, and every earlier event is in hand or     *)
(* settled.                                                                  *)
HandInv ==
  \A w \in Workers :
    /\ step[w] = "idle" => batch[w] = {}
    /\ \A e \in batch[w] : status[e] = "pending"
    /\ \A e \in batch[w] : \A f \in Events :
         f < e => f \in batch[w] \/ status[f] \in Settled

(* Row locks are those of open transactions, and events are stored without   *)
(* gaps.                                                                     *)
TableInv ==
  /\ \A e \in Events, w \in Workers : lockedBy[e] = w => step[w] = "batch"
  /\ \A e, f \in Events : e < f /\ status[f] # "absent" => status[e] # "absent"

EventInv == HandInv /\ TableInv /\ AppliedOnce /\ InOrder

-----------------------------------------------------------------------------
(* Types. *)

(* The initial state has its type. *)
LEMMA InitType == Init => TypeInv
  BY ProcessorAssumption, ProcessAssumption
  DEF Init, ProcessorInit, TypeInv, TypeOK, Settled, Phases

(* Every step of a batch keeps the types. *)
LEMMA ProcessStepType ==
  ASSUME TypeInv, NEW p \in Workers, ProcessBatch(p) \/ ProcessBatchFault(p)
  PROVE  TypeInv'
<1> USE ProcessorAssumption, ProcessAssumption
<1>1. /\ phase' \in [Workers -> Phases] /\ UNCHANGED <<holder, attempts, shouldStop, shutdown>>
      /\ phase'[p] \notin {"acquire", "down"}
      /\ \A q \in Workers : q # p => phase'[q] = phase[q]
  BY DEF ProcessBatch, ProcessBatchFault, GoTo, TypeInv, TypeOK, Phases
<1>2. /\ status' \in [Events -> {"absent", "pending"} \union Settled]
      /\ applied' \in [Events -> Nat]
      /\ lockedBy' \in [Events -> Workers \union {Nobody}]
      /\ step' \in [Workers -> {"idle", "batch", "event", "failure"}]
      /\ batch' \in [Workers -> SUBSET Events]
      /\ tries' \in [Workers -> 0 .. MaxRetries - 1]
      /\ faults' \in 0 .. MaxFaults
  <2>0. ProcessStep(p) \/ ProcessFault(p)
    BY DEF ProcessBatch, ProcessBatchFault
  <2>1. CASE SelectBatch(p)
    BY <2>1 DEF SelectBatch, Selected, Selectable, TypeInv, TypeOK
  <2>2. CASE CommitBatch(p)
    BY <2>2 DEF CommitBatch, Leave, Unlocked, TypeInv, TypeOK, Settled
  <2>3. CASE FailBatch(p)
    BY <2>3 DEF FailBatch, Unlocked, TypeInv, TypeOK
  <2>4. CASE CommitEvent(p)
    BY <2>4 DEF CommitEvent, Advance, TypeInv, TypeOK, Settled
  <2>5. CASE ThrowEvent(p)
    BY <2>5 DEF ThrowEvent, rowVars, TypeInv, TypeOK
  <2>6. CASE MarkFailed(p)
    BY <2>6 DEF MarkFailed, Advance, TypeInv, TypeOK, Settled
  <2>7. CASE TransientError(p)
    BY <2>7 DEF TransientError, Disturb, Leave, rowVars, TypeInv, TypeOK
  <2>8. CASE LoseConnection(p)
    BY <2>8 DEF LoseConnection, Disturb, Leave, Unlocked, TypeInv, TypeOK
  <2> QED
    BY <2>0, <2>1, <2>2, <2>3, <2>4, <2>5, <2>6, <2>7, <2>8
    DEF ProcessStep, ProcessFault
<1> QED
  BY <1>1, <1>2 DEF TypeInv, TypeOK

(* Every step keeps the types. *)
LEMMA NextType == TypeInv /\ [Next]_vars => TypeInv'
<1> SUFFICES ASSUME TypeInv, [Next]_vars PROVE TypeInv'
  OBVIOUS
<1> USE ProcessorAssumption, ProcessAssumption
<1> USE DEF TypeInv, TypeOK, Phases, processorVars, rowVars, workerVars
<1>1. CASE UNCHANGED vars
  BY <1>1 DEF vars, lifeVars
<1>2. ASSUME NEW p \in Workers, Launch(p) \/ Starting(p) \/ Closing(p)
                                 \/ SessionsEnd(p) \/ Disturbance(p)
      PROVE  TypeInv'
  <2>1. CASE Launch(p)
    BY <2>1 DEF Launch
  <2>2. CASE TryLock(p)
    BY <2>2 DEF TryLock
  <2>3. CASE InitializeCursor(p)
    BY <2>3 DEF InitializeCursor
  <2>4. CASE InitializeFails(p) \/ LeaveLoop(p)
    BY <2>4 DEF InitializeFails, LeaveLoop, Finish
  <2>5. CASE EnterIteration(p) \/ NothingPending(p)
    BY <2>5 DEF EnterIteration, NothingPending, GoTo
  <2>6. CASE FetchAndStore(p)
    BY <2>6 DEF FetchAndStore, GoTo, InsertEvents
  <2>7. CASE ProcessBatch(p) \/ ProcessBatchFault(p)
    BY <2>7, ProcessStepType
  <2>8. CASE MainEnds(p) \/ Stopped(p)
    BY <2>8 DEF MainEnds, Stopped
  <2>9. CASE Exit(p)
    BY <2>9 DEF Exit, Reset
  <2>10. CASE HandleReorg(p)
    BY <2>10 DEF HandleReorg, DeleteEvents, Disturb, lifeVars
  <2>11. CASE IterationThrows(p)
    BY <2>11 DEF IterationThrows, GoTo, Disturb
  <2>12. CASE Signal(p)
    BY <2>12 DEF Signal, Disturb
  <2>13. CASE Kill(p)
    BY <2>13 DEF Kill, Reset, Disturb
  <2>14. CASE LockSessionEnds(p)
    BY <2>14 DEF LockSessionEnds, Disturb
  <2>15. CASE SessionsEnd(p)
    BY <2>15 DEF SessionsEnd, Leave, Unlocked
  <2> QED
    BY <1>2, <2>1, <2>2, <2>3, <2>4, <2>5, <2>6, <2>7, <2>8, <2>9, <2>10,
       <2>11, <2>12, <2>13, <2>14, <2>15
    DEF Starting, Closing, Disturbance
<1> QED
  BY <1>1, <1>2 DEF Next

(* Every reachable state of the processes has its type, whatever the server  *)
(* does with their sessions.                                                 *)
THEOREM ProcessTypeCorrect == Spec => []TypeOK
<1>1. Spec => []TypeInv
  BY InitType, NextType, PTL DEF Spec
<1>2. TypeInv => TypeOK
  BY DEF TypeInv
<1> QED BY <1>1, <1>2, PTL

-----------------------------------------------------------------------------
(* Mutual exclusion. *)

(* No process works when none was started. *)
LEMMA InitLock == Init => LockInv
  BY DEF Init, ProcessorInit, LockInv, Indexing

(* A step of a batch moves its own process between "idle" and the others. *)
LEMMA BatchStepFrame ==
  ASSUME TypeInv, NEW p \in Workers, ProcessStep(p) \/ ProcessFault(p)
  PROVE  \A q \in Workers : q # p => step'[q] = step[q] /\ batch'[q] = batch[q]
  BY DEF TypeInv, TypeOK, ProcessStep, ProcessFault, SelectBatch, CommitBatch,
     FailBatch, CommitEvent, ThrowEvent, MarkFailed, TransientError,
     LoseConnection, Leave, Advance

(* Every step keeps the lock with the process that works. *)
LEMMA NextLock ==
  ASSUME EnvAssumptions = Assumptions, TypeInv, LockInv, [Next]_vars
  PROVE  LockInv'
<1> USE ProcessorAssumption
<1> USE DEF LockInv, Indexing, TypeInv, TypeOK, Phases, processorVars, rowVars,
            workerVars
<1>1. CASE UNCHANGED vars
  BY <1>1 DEF vars, lifeVars
<1>2. ASSUME NEW p \in Workers, Launch(p) \/ Starting(p) \/ Closing(p)
                                 \/ SessionsEnd(p) \/ Disturbance(p)
      PROVE  LockInv'
  <2>1. CASE Launch(p)
    BY <2>1 DEF Launch
  <2>2. CASE TryLock(p)
    BY <2>2 DEF TryLock
  <2>3. CASE InitializeCursor(p)
    BY <2>3 DEF InitializeCursor
  <2>4. CASE InitializeFails(p) \/ LeaveLoop(p)
    BY <2>4 DEF InitializeFails, LeaveLoop, Finish
  <2>5. CASE EnterIteration(p) \/ NothingPending(p)
    BY <2>5 DEF EnterIteration, NothingPending, GoTo
  <2>6. CASE FetchAndStore(p)
    BY <2>6 DEF FetchAndStore, GoTo, InsertEvents
  <2>7. CASE ProcessBatch(p) \/ ProcessBatchFault(p)
    <3>1. /\ phase[p] = "process" /\ holder' = holder
          /\ \A q \in Workers : q # p => phase'[q] = phase[q]
          /\ phase'[p] = "process" \/ (step'[p] = "idle" /\ phase'[p] = "loop")
      BY <2>7 DEF ProcessBatch, ProcessBatchFault, GoTo
    <3>2. \A q \in Workers : q # p => step'[q] = step[q]
      BY <2>7, BatchStepFrame DEF ProcessBatch, ProcessBatchFault
    <3> QED BY <3>1, <3>2
  <2>8. CASE MainEnds(p) \/ Stopped(p)
    BY <2>8 DEF MainEnds, Stopped
  <2>9. CASE Exit(p)
    BY <2>9 DEF Exit, Reset
  <2>10. CASE HandleReorg(p)
    BY <2>10 DEF HandleReorg, DeleteEvents, lifeVars
  <2>11. CASE IterationThrows(p)
    BY <2>11 DEF IterationThrows, GoTo
  <2>12. CASE Signal(p)
    BY <2>12 DEF Signal
  <2>13. CASE Kill(p)
    BY <2>13 DEF Kill, Reset
  <2>14. CASE LockSessionEnds(p)
    BY <2>14 DEF LockSessionEnds, Assumptions
  <2>15. CASE SessionsEnd(p)
    BY <2>15 DEF SessionsEnd, Leave, Assumptions
  <2> QED
    BY <1>2, <2>1, <2>2, <2>3, <2>4, <2>5, <2>6, <2>7, <2>8, <2>9, <2>10,
       <2>11, <2>12, <2>13, <2>14, <2>15
    DEF Starting, Closing, Disturbance
<1> QED
  BY <1>1, <1>2 DEF Next

(* At most one process works on the schema, dead ones with an open           *)
(* transaction included, when the lock's session lives as long as the        *)
(* process and a dead process loses its sessions together.                   *)
THEOREM OneIndexer ==
  ASSUME EnvAssumptions = Assumptions
  PROVE  Spec => []SingleIndexer
<1>1. Init => TypeInv /\ LockInv
  BY InitType, InitLock
<1>2. TypeInv /\ LockInv /\ [Next]_vars => TypeInv' /\ LockInv'
  BY NextType, NextLock
<1>3. TypeInv /\ LockInv => SingleIndexer
  BY DEF LockInv, SingleIndexer
<1> QED BY <1>1, <1>2, <1>3, PTL DEF Spec

-----------------------------------------------------------------------------
(* The events. *)

(* An empty table satisfies the invariant. *)
LEMMA InitEvent == Init => EventInv
  BY ProcessorAssumption
  DEF Init, ProcessorInit, EventInv, HandInv, TableInv, AppliedOnce, InOrder,
      Settled

(* The invariant does not depend on anything else. *)
LEMMA SameEvent ==
  ASSUME EventInv, UNCHANGED <<status, applied, lockedBy, step, batch>>
  PROVE  EventInv'
  BY DEF EventInv, HandInv, TableInv, AppliedOnce, InOrder

(* While one process has an event in hand no other has. *)
LEMMA OthersIdle ==
  ASSUME LockInv, HandInv, NEW p \in Workers, NEW q \in Workers, p # q,
         Indexing(p)
  PROVE  step[q] = "idle" /\ batch[q] = {}
  BY DEF LockInv, HandInv, Indexing

(* The events that a batch selects are followed by the pending ones it does  *)
(* not select: LIMIT after ORDER BY takes the first.                         *)
LEMMA SelectedIsPrefix ==
  ASSUME NEW e \in Selected, NEW f \in Selectable, f < e
  PROVE  f \in Selected
<1>1. /\ e \in Events /\ f \in Events /\ Selectable \subseteq Events
      /\ IsFiniteSet(Selectable) /\ Events \subseteq Nat
  BY ProcessorAssumption, FS_Subset DEF Selected, Selectable
<1> DEFINE Before(x) == {g \in Selectable : g < x}
<1>2. Before(f) \subseteq Before(e) /\ IsFiniteSet(Before(e))
  <2>1. \A g \in Selectable : g < f => g < e
    BY <1>1
  <2>2. Before(e) \subseteq Selectable
    OBVIOUS
  <2> QED BY <1>1, <2>1, <2>2, FS_Subset
<1>3. Cardinality(Before(f)) <= Cardinality(Before(e))
  BY <1>2, FS_Subset
<1>4. Cardinality(Before(f)) \in Nat /\ Cardinality(Before(e)) \in Nat
  BY <1>2, FS_Subset, FS_CardinalityType
<1>5. Cardinality(Before(e)) < BatchSize
  BY DEF Selected
<1>6. Cardinality(Before(f)) < BatchSize
  BY <1>3, <1>4, <1>5, ProcessorAssumption
<1> QED BY <1>6 DEF Selected

(* What the steps of a batch do to the events, when no other process has one *)
(* in hand.                                                                  *)
LEMMA BatchStepEvent ==
  ASSUME TypeInv, EventInv, NEW p \in Workers,
         ProcessStep(p) \/ ProcessFault(p),
         \A q \in Workers : q # p => step[q] = "idle" /\ batch[q] = {}
  PROVE  EventInv'
<1> USE ProcessorAssumption
<1> USE DEF TypeInv, TypeOK, EventInv, HandInv, TableInv, AppliedOnce, InOrder,
            Settled
<1>1. \A q \in Workers : q # p => step'[q] = "idle" /\ batch'[q] = {}
  BY BatchStepFrame
<1>2. CASE SelectBatch(p)
  <2>1. /\ step[p] = "idle" /\ batch'[p] = Selected /\ step'[p] = "batch"
        /\ UNCHANGED <<status, applied>>
        /\ lockedBy' = [e \in Events |-> IF e \in Selected THEN p ELSE lockedBy[e]]
    BY <1>2 DEF SelectBatch
  <2>2. \A f \in Events : f \in Selectable <=> status[f] = "pending"
    BY <1>2 DEF Selectable, SelectBatch
  <2>3. ASSUME NEW e \in Selected, NEW f \in Events, f < e
        PROVE  f \in Selected \/ status[f] \in Settled
    <3>1. e \in Selectable /\ e \in Events
      BY DEF Selected, Selectable
    <3>2. status[f] # "absent"
      BY <2>2, <2>3, <3>1
    <3>3. CASE status[f] = "pending"
      BY <2>2, <2>3, <3>3, SelectedIsPrefix
    <3> QED BY <3>2, <3>3
  <2>4. \A e \in Selected : e \in Events /\ status[e] = "pending"
    BY <2>2 DEF Selected, Selectable
  <2>5. HandInv'
    BY <1>1, <2>1, <2>3, <2>4
  <2>6. TableInv'
    BY <1>1, <2>1, <2>4
  <2> QED BY <2>1, <2>5, <2>6
<1>3. CASE CommitBatch(p)
  <2>1. /\ step[p] = "batch" /\ step'[p] = "idle" /\ batch'[p] = {}
        /\ status' = [e \in Events |-> IF e \in batch[p] THEN "processed" ELSE status[e]]
        /\ applied' = [e \in Events |-> applied[e] + (IF e \in batch[p] THEN 1 ELSE 0)]
        /\ lockedBy' = Unlocked(p)
    BY <1>3 DEF CommitBatch, Leave
  <2>2. HandInv'
    BY <1>1, <2>1
  <2>3. TableInv'
    BY <1>1, <2>1 DEF Unlocked
  <2>4. AppliedOnce'
    BY <2>1
  <2>5. InOrder'
    BY <2>1
  <2> QED BY <2>2, <2>3, <2>4, <2>5
<1>4. CASE FailBatch(p)
  BY <1>1, <1>4 DEF FailBatch, Unlocked
<1>5. CASE ThrowEvent(p)
  BY <1>1, <1>5 DEF ThrowEvent, rowVars
<1>6. CASE CommitEvent(p) \/ MarkFailed(p)
  <2>1. PICK e \in Events :
          /\ IsNext(p, e) /\ Advance(p, e)
          /\ \/ /\ status' = [status EXCEPT ![e] = "processed"]
                /\ applied' = [applied EXCEPT ![e] = applied[e] + 1]
             \/ /\ status' = [status EXCEPT ![e] = "failed"]
                /\ UNCHANGED applied
    BY <1>6 DEF CommitEvent, MarkFailed, IsNext
  <2>2. UNCHANGED lockedBy
    BY <1>6 DEF CommitEvent, MarkFailed
  <2>3. /\ step[p] # "idle"
        /\ batch' = [batch EXCEPT ![p] = batch[p] \ {e}]
        /\ step'[p] = IF batch[p] = {e} THEN "idle" ELSE "event"
    BY <1>6, <2>1 DEF CommitEvent, MarkFailed, Advance
  <2>4. /\ e \in batch[p] /\ status[e] = "pending"
        /\ \A f \in batch[p] : e <= f
        /\ \A f \in Events : f < e => status[f] \in Settled
    BY <2>1 DEF IsNext
  <2>5. HandInv'
    BY <1>1, <2>1, <2>3, <2>4
  <2>6. /\ \A f, g \in Events : f < g /\ status'[g] # "absent" => status'[f] # "absent"
        /\ AppliedOnce' /\ InOrder'
    BY <2>1, <2>4
  <2>7. \A f \in Events, w \in Workers : lockedBy'[f] = w => step'[w] = "batch"
    BY <1>6, <1>1, <2>2, <2>3 DEF CommitEvent, MarkFailed
  <2> QED BY <2>5, <2>6, <2>7
<1>7. CASE TransientError(p)
  <2>1. /\ step[p] \in {"event", "failure"} /\ UNCHANGED rowVars
        /\ \/ step'[p] = "event" /\ batch' = batch
           \/ step'[p] = "idle" /\ batch'[p] = {}
    BY <1>7 DEF TransientError, Leave
  <2>2. TableInv' /\ AppliedOnce' /\ InOrder'
    BY <1>1, <2>1 DEF rowVars
  <2>3. HandInv'
    BY <1>1, <2>1 DEF rowVars
  <2> QED BY <2>2, <2>3
<1>8. CASE LoseConnection(p)
  BY <1>1, <1>8 DEF LoseConnection, Leave, Unlocked
<1> QED
  BY <1>2, <1>3, <1>4, <1>5, <1>6, <1>7, <1>8 DEF ProcessStep, ProcessFault

(* Every step keeps the invariant of the events. *)
LEMMA NextEvent ==
  ASSUME EnvAssumptions = Assumptions, TypeInv, LockInv, EventInv, [Next]_vars
  PROVE  EventInv'
<1> USE ProcessorAssumption
<1> USE DEF processorVars, rowVars, workerVars
<1>1. CASE UNCHANGED vars
  BY <1>1, SameEvent DEF vars
<1>2. ASSUME NEW p \in Workers, Launch(p) \/ Starting(p) \/ Closing(p)
                                 \/ SessionsEnd(p) \/ Disturbance(p)
      PROVE  EventInv'
  <2>1. CASE \/ Launch(p) \/ TryLock(p) \/ InitializeCursor(p)
             \/ InitializeFails(p) \/ LeaveLoop(p) \/ EnterIteration(p)
             \/ NothingPending(p) \/ MainEnds(p) \/ Stopped(p) \/ Exit(p)
             \/ IterationThrows(p) \/ Signal(p) \/ Kill(p) \/ LockSessionEnds(p)
    BY <2>1, SameEvent
    DEF Launch, TryLock, InitializeCursor, InitializeFails, LeaveLoop, Finish,
        EnterIteration, NothingPending, GoTo, MainEnds, Stopped, Exit,
        IterationThrows, Signal, Kill, LockSessionEnds
  <2>2. CASE ProcessBatch(p) \/ ProcessBatchFault(p)
    <3>1. Indexing(p) /\ (ProcessStep(p) \/ ProcessFault(p))
      BY <2>2 DEF ProcessBatch, ProcessBatchFault, Indexing
    <3>2. \A q \in Workers : q # p => step[q] = "idle" /\ batch[q] = {}
      BY <3>1, OthersIdle DEF EventInv
    <3> QED BY <3>1, <3>2, BatchStepEvent
  <2>3. CASE FetchAndStore(p) \/ HandleReorg(p)
    <3>1. phase[p] = "fetch" /\ Indexing(p)
      BY <2>3 DEF FetchAndStore, HandleReorg, Indexing
    <3>2. \A q \in Workers : step[q] = "idle" /\ batch[q] = {}
      <4>1. step[p] = "idle" /\ batch[p] = {}
        BY <3>1 DEF LockInv, EventInv, HandInv, TypeInv, TypeOK
      <4> QED BY <3>1, <4>1, OthersIdle DEF EventInv
    <3>3. CASE UNCHANGED processorVars
      BY <3>3, SameEvent
    <3>4. ASSUME NEW n \in Events, InsertEvents(n)
          PROVE  EventInv'
      BY <3>2, <3>4
      DEF InsertEvents, TypeInv, TypeOK, EventInv, HandInv, TableInv,
          AppliedOnce, InOrder, Settled
    <3>5. ASSUME NEW r \in Events, DeleteEvents(r)
          PROVE  EventInv'
      BY <3>2, <3>5
      DEF DeleteEvents, TypeInv, TypeOK, EventInv, HandInv, TableInv,
          AppliedOnce, InOrder, Settled
    <3> QED BY <2>3, <3>3, <3>4, <3>5 DEF FetchAndStore, HandleReorg
  <2>4. CASE SessionsEnd(p)
    <3>1. /\ UNCHANGED <<status, applied>> /\ lockedBy' = Unlocked(p) /\ Leave(p)
          /\ \A q \in Workers : q # p => step'[q] = step[q] /\ batch'[q] = batch[q]
      BY <2>4 DEF SessionsEnd, Assumptions, Leave, TypeInv, TypeOK
    <3> QED
      BY <3>1
      DEF Leave, Unlocked, TypeInv, TypeOK, EventInv, HandInv, TableInv,
          AppliedOnce, InOrder
  <2> QED
    BY <1>2, <2>1, <2>2, <2>3, <2>4 DEF Starting, Closing, Disturbance
<1> QED
  BY <1>1, <1>2 DEF Next

(* All of it together is inductive. *)
LEMMA ProcessInvariant ==
  ASSUME EnvAssumptions = Assumptions
  PROVE  Spec => [](TypeInv /\ LockInv /\ EventInv)
<1>1. Init => TypeInv /\ LockInv /\ EventInv
  BY InitType, InitLock, InitEvent
<1>2. TypeInv /\ LockInv /\ EventInv /\ [Next]_vars
        => (TypeInv /\ LockInv /\ EventInv)'
  BY NextType, NextLock, NextEvent
<1> QED BY <1>1, <1>2, PTL DEF Spec

(* However batches fail, are retried, lose their connection or their         *)
(* process, the handler of an event has taken effect exactly once if the     *)
(* event is processed and not at all otherwise.                              *)
THEOREM ExactlyOnce ==
  ASSUME EnvAssumptions = Assumptions
  PROVE  Spec => []AppliedOnce
<1>1. TypeInv /\ LockInv /\ EventInv => AppliedOnce
  BY DEF EventInv
<1> QED BY <1>1, ProcessInvariant, PTL

(* Events are settled in the order of the chain, by whichever process.       *)
THEOREM SettledInOrder ==
  ASSUME EnvAssumptions = Assumptions
  PROVE  Spec => []InOrder
<1>1. TypeInv /\ LockInv /\ EventInv => InOrder
  BY DEF EventInv
<1> QED BY <1>1, ProcessInvariant, PTL

(* A step of a batch touches pending events only. *)
LEMMA BatchStepPending ==
  ASSUME TypeInv, EventInv, NEW p \in Workers, ProcessStep(p) \/ ProcessFault(p),
         NEW e \in Events, status[e] # "pending"
  PROVE  status'[e] = status[e]
<1>1. \A w \in Workers : e \notin batch[w]
  BY DEF EventInv, HandInv
<1>2. CASE CommitBatch(p)
  BY <1>1, <1>2 DEF CommitBatch
<1>3. CASE CommitEvent(p)
  BY <1>1, <1>3 DEF CommitEvent, IsNext, TypeInv, TypeOK
<1>4. CASE MarkFailed(p)
  BY <1>1, <1>4 DEF MarkFailed, IsNext, TypeInv, TypeOK
<1>5. CASE \/ SelectBatch(p) \/ FailBatch(p) \/ ThrowEvent(p)
           \/ TransientError(p) \/ LoseConnection(p)
  BY <1>5
  DEF SelectBatch, FailBatch, ThrowEvent, TransientError, LoseConnection, rowVars
<1> QED BY <1>2, <1>3, <1>4, <1>5 DEF ProcessStep, ProcessFault

(* An event that was marked failed is never selected, executed or marked     *)
(* again; only a rollback removes it.                                        *)
THEOREM FailuresAreFinal ==
  ASSUME EnvAssumptions = Assumptions
  PROVE  Spec => FailedIsFinal
<1>1. ASSUME TypeInv /\ LockInv /\ EventInv, [Next]_vars
      PROVE  \A e \in Events : status[e] = "failed" => status'[e] \in {"failed", "absent"}
  <2> SUFFICES ASSUME NEW e \in Events, status[e] = "failed"
               PROVE  status'[e] \in {"failed", "absent"}
    OBVIOUS
  <2>1. CASE UNCHANGED status
    BY <2>1
  <2>2. ASSUME NEW p \in Workers, ProcessBatch(p) \/ ProcessBatchFault(p)
        PROVE  status'[e] = status[e]
    BY <1>1, <2>2, BatchStepPending DEF ProcessBatch, ProcessBatchFault
  <2>3. ASSUME NEW n \in Events, InsertEvents(n)
        PROVE  status'[e] = status[e]
    BY <2>3 DEF InsertEvents
  <2>4. ASSUME NEW r \in Events, DeleteEvents(r)
        PROVE  status'[e] \in {status[e], "absent"}
    BY <2>4 DEF DeleteEvents
  <2> QED
    BY <1>1, <2>1, <2>2, <2>3, <2>4
    DEF Next, vars, processorVars, rowVars, Launch, Starting, Closing,
        Disturbance, TryLock, InitializeCursor, InitializeFails, LeaveLoop,
        Finish, EnterIteration, NothingPending, FetchAndStore, HandleReorg,
        MainEnds, Stopped, Exit, IterationThrows, Signal, Kill,
        LockSessionEnds, SessionsEnd
<1>2. TypeInv /\ LockInv /\ EventInv /\ [Next]_vars
        => [\A e \in Events : status[e] = "failed" => status'[e] \in {"failed", "absent"}]_vars
  BY <1>1
<1> QED BY <1>2, ProcessInvariant, PTL DEF Spec, FailedIsFinal

===============================================================================
