---------------------------- MODULE IndexerProcess ----------------------------
(***************************************************************************)
(* The life of indexer processes that share one schema: the advisory lock  *)
(* of LockManager, Indexer.start() and stop(), the shutdown of main.ts,    *)
(* and deaths, around the processing of EventProcessor.  A deployment      *)
(* starts a new process while the old one runs, so there are several.      *)
(*                                                                         *)
(* An advisory lock belongs to a database session.  A process has one      *)
(* session for the lock and others for its transactions.                   *)
(***************************************************************************)
EXTENDS EventProcessor

CONSTANTS
  MaxAttempts,      \* LockManager.acquire(): maxAttempts
  EnvAssumptions    \* what is assumed of database sessions

\* "lock_session_lives": the server does not end the session of the lock while
\* its process runs.  "sessions_end_together": it ends those of a dead process
\* at the same moment.
Assumptions == {"lock_session_lives", "sessions_end_together"}

ASSUME ProcessAssumption ==
  /\ MaxAttempts \in Nat \ {0}
  /\ EnvAssumptions \subseteq Assumptions

VARIABLES
  holder,      \* whose session holds the advisory lock
  phase,       \* where in start(): see Phases
  attempts,    \* acquire(): failed attempts
  shouldStop,  \* Indexer._shouldStop
  shutdown     \* main.ts: "no", "stopping" in indexer.stop(), "closing" after

\* "loop" is the condition of the loop; "fetch" and "process" are an iteration;
\* start() has ended in "done".
Phases == {"down", "acquire", "init", "loop", "fetch", "process", "done"}

lifeVars == <<holder, phase, attempts, shouldStop, shutdown>>
vars == <<processorVars, lifeVars>>

Init ==
  /\ ProcessorInit
  /\ holder = Nobody
  /\ phase = [p \in Workers |-> "down"]
  /\ attempts = [p \in Workers |-> 0]
  /\ shouldStop = [p \in Workers |-> FALSE]
  /\ shutdown = [p \in Workers |-> "no"]

-----------------------------------------------------------------------------
(* Starting: LockManager.acquire() and _initializeCursor(). *)

\* No session of an earlier process is left in this place.
Launch(p) ==
  /\ phase[p] = "down" /\ holder # p /\ step[p] = "idle"
  /\ phase' = [phase EXCEPT ![p] = "acquire"]
  /\ UNCHANGED <<processorVars, holder, attempts, shouldStop, shutdown>>

TryLock(p) ==
  /\ phase[p] = "acquire"
  /\ IF holder = Nobody
       THEN /\ holder' = p
            /\ phase' = [phase EXCEPT ![p] = "init"]
            /\ UNCHANGED attempts
       ELSE /\ attempts' = [attempts EXCEPT ![p] = attempts[p] + 1]
            /\ phase' = IF attempts[p] + 1 < MaxAttempts /\ shutdown[p] # "closing"
                          THEN phase ELSE [phase EXCEPT ![p] = "done"]
            /\ UNCHANGED holder
  /\ UNCHANGED <<processorVars, shouldStop, shutdown>>

\* The finally of start(): the lock is released, _stoppedPromise resolved.
Finish(p) ==
  /\ holder' = IF holder = p THEN Nobody ELSE holder
  /\ phase' = [phase EXCEPT ![p] = "done"]
  /\ UNCHANGED <<processorVars, attempts, shouldStop, shutdown>>

InitializeCursor(p) ==
  /\ phase[p] = "init"
  /\ phase' = [phase EXCEPT ![p] = "loop"]
  /\ UNCHANGED <<processorVars, holder, attempts, shouldStop, shutdown>>

\* The pool is closing already: connect() throws.
InitializeFails(p) ==
  /\ phase[p] = "init" /\ shutdown[p] = "closing"
  /\ Finish(p)

-----------------------------------------------------------------------------
(* The loop. *)

GoTo(p, where) ==
  /\ phase' = [phase EXCEPT ![p] = where]
  /\ UNCHANGED <<holder, attempts, shouldStop, shutdown>>

\* A faulty variant of EnterIteration: while (true).
EnterIterationAlways(p) ==
  /\ phase[p] = "loop"
  /\ GoTo(p, "fetch")
  /\ UNCHANGED processorVars

EnterIteration(p) ==
  /\ phase[p] = "loop" /\ ~shouldStop[p]
  /\ GoTo(p, "fetch")
  /\ UNCHANGED processorVars

FetchAndStore(p) ==
  /\ phase[p] = "fetch"
  /\ GoTo(p, "process")
  /\ (\E n \in Events : InsertEvents(n)) \/ UNCHANGED processorVars

HandleReorg(p) ==
  /\ phase[p] = "fetch"
  /\ \E r \in Events : DeleteEvents(r)
  /\ UNCHANGED lifeVars

NothingPending(p) ==
  /\ phase[p] = "process" /\ step[p] = "idle" /\ Selected = {}
  /\ GoTo(p, "loop")
  /\ UNCHANGED processorVars

\* processBatch() is called once in an iteration.
ProcessBatch(p) ==
  /\ phase[p] = "process"
  /\ ProcessStep(p)
  /\ GoTo(p, IF step'[p] = "idle" THEN "loop" ELSE "process")

\* Its withDbRetry() calls it again when the error that left it is transient.
ProcessBatchFault(p) ==
  /\ phase[p] = "process"
  /\ ProcessFault(p)
  /\ \/ GoTo(p, "process")
     \/ step'[p] = "idle" /\ GoTo(p, "loop")

\* A faulty variant of LeaveLoop: it does not wait for processBatch().
LeaveLoopAtOnce(p) ==
  /\ phase[p] \in {"loop", "process"} /\ shouldStop[p]
  /\ Finish(p)

LeaveLoop(p) ==
  /\ phase[p] = "loop" /\ shouldStop[p]
  /\ Finish(p)

\* An error ends the iteration, and start() if there have been
\* maxConsecutiveErrors of them.
IterationThrows(p) ==
  /\ phase[p] \in {"fetch", "process"} /\ step[p] = "idle"
  /\ Disturb
  /\ \/ GoTo(p, "loop")
     \/ /\ holder' = IF holder = p THEN Nobody ELSE holder
        /\ phase' = [phase EXCEPT ![p] = "done"]
        /\ UNCHANGED <<attempts, shouldStop, shutdown>>
  /\ UNCHANGED <<rowVars, workerVars>>

-----------------------------------------------------------------------------
(* Shutting down. *)

\* SIGTERM or SIGINT.
Signal(p) ==
  /\ phase[p] # "down" /\ shutdown[p] = "no"
  /\ Disturb
  /\ shutdown' = [shutdown EXCEPT ![p] = "stopping"]
  /\ shouldStop' = [shouldStop EXCEPT ![p] = TRUE]
  /\ UNCHANGED <<rowVars, workerVars, holder, phase, attempts>>

\* start() returned or threw: main.ts begins the shutdown itself.
MainEnds(p) ==
  /\ phase[p] = "done" /\ shutdown[p] = "no"
  /\ shutdown' = [shutdown EXCEPT ![p] = "stopping"]
  /\ shouldStop' = [shouldStop EXCEPT ![p] = TRUE]
  /\ UNCHANGED <<processorVars, holder, phase, attempts>>

\* indexer.stop() returns; _stoppedPromise does not exist during acquire().
Stopped(p) ==
  /\ shutdown[p] = "stopping"
  /\ phase[p] \in {"acquire", "done"}
  /\ shutdown' = [shutdown EXCEPT ![p] = "closing"]
  /\ UNCHANGED <<processorVars, holder, phase, attempts, shouldStop>>

Reset(p) ==
  /\ phase' = [phase EXCEPT ![p] = "down"]
  /\ attempts' = [attempts EXCEPT ![p] = 0]
  /\ shouldStop' = [shouldStop EXCEPT ![p] = FALSE]
  /\ shutdown' = [shutdown EXCEPT ![p] = "no"]

\* pool.end() waits for the clients in use; then process.exit().
Exit(p) ==
  /\ shutdown[p] = "closing"
  /\ phase[p] \in {"acquire", "done"}
  /\ Reset(p)
  /\ UNCHANGED <<processorVars, holder>>

\* The process dies; the server has not noticed yet.
Kill(p) ==
  /\ phase[p] # "down"
  /\ Disturb
  /\ Reset(p)
  /\ UNCHANGED <<rowVars, workerVars, holder>>

\* The server ends sessions of a dead process: its transaction is aborted,
\* its advisory lock is free.
SessionsEnd(p) ==
  /\ phase[p] = "down" /\ (holder = p \/ step[p] # "idle")
  /\ \E lock, transaction \in BOOLEAN :
       /\ lock \/ transaction
       /\ "sessions_end_together" \in EnvAssumptions => lock /\ transaction
       /\ holder' = IF lock /\ holder = p THEN Nobody ELSE holder
       /\ IF transaction THEN lockedBy' = Unlocked(p) /\ Leave(p)
                         ELSE UNCHANGED <<lockedBy, workerVars>>
  /\ UNCHANGED <<status, applied, faults, phase, attempts, shouldStop, shutdown>>

\* The server ends the session of the lock; its process does not notice.
LockSessionEnds(p) ==
  /\ "lock_session_lives" \notin EnvAssumptions
  /\ phase[p] \in {"init", "loop", "fetch", "process"} /\ holder = p
  /\ Disturb
  /\ holder' = Nobody
  /\ UNCHANGED <<rowVars, workerVars, phase, attempts, shouldStop, shutdown>>

-----------------------------------------------------------------------------

\* start(), and the shutdown of main.ts.
Starting(p) ==
  \/ TryLock(p) \/ InitializeCursor(p) \/ InitializeFails(p)
  \/ EnterIteration(p) \/ FetchAndStore(p) \/ NothingPending(p)
  \/ ProcessBatch(p) \/ LeaveLoop(p)
Closing(p) == MainEnds(p) \/ Stopped(p) \/ Exit(p)

Disturbance(p) ==
  \/ HandleReorg(p) \/ ProcessBatchFault(p) \/ IterationThrows(p)
  \/ Signal(p) \/ Kill(p) \/ LockSessionEnds(p)

Next ==
  \E p \in Workers :
    \/ Launch(p) \/ Starting(p) \/ Closing(p) \/ SessionsEnd(p) \/ Disturbance(p)

Spec == Init /\ [][Next]_vars

\* The event loop of each process runs, a supervisor restarts it, and the
\* server notices dead clients.
FairSpec ==
  /\ Spec
  /\ \A p \in Workers :
       /\ WF_vars(Launch(p))
       /\ WF_vars(Starting(p))
       /\ WF_vars(Closing(p))
       /\ WF_vars(SessionsEnd(p))

-----------------------------------------------------------------------------
(* Properties. *)

\* The types; an event in hand is locked exactly while its batch transaction
\* is open; withDbRetry() gives up in time.
TypeOK ==
  /\ status \in [Events -> {"absent", "pending"} \union Settled]
  /\ applied \in [Events -> Nat]
  /\ lockedBy \in [Events -> Workers \union {Nobody}]
  /\ step \in [Workers -> {"idle", "batch", "event", "failure"}]
  /\ batch \in [Workers -> SUBSET Events]
  /\ tries \in [Workers -> 0 .. MaxRetries - 1]
  /\ faults \in 0 .. MaxFaults
  /\ holder \in Workers \union {Nobody}
  /\ phase \in [Workers -> Phases]
  /\ attempts \in [Workers -> 0 .. MaxAttempts]
  /\ shouldStop \in [Workers -> BOOLEAN]
  /\ shutdown \in [Workers -> {"no", "stopping", "closing"}]

\* A process that holds the advisory lock or should: it is between acquire()
\* and the release, or it died and its sessions have not all ended.
Indexing(p) ==
  \/ phase[p] \in {"init", "loop", "fetch", "process"}
  \/ step[p] # "idle"

\* Indexer.start(): at any time at most one process works on the schema, the
\* open transaction of a dead one included.
SingleIndexer == \A p, q \in Workers : Indexing(p) /\ Indexing(q) => p = q

\* processBatch(), _processEvent() and the hand-over between processes: the
\* handler of an event takes effect once if the event is processed and never
\* otherwise, whatever failed and was retried on the way.
AppliedOnce ==
  \A e \in Events : applied[e] = IF status[e] = "processed" THEN 1 ELSE 0

\* README: events are processed sequentially, in block order. An event is
\* settled only when every earlier one is.
InOrder ==
  \A e, f \in Events : e < f /\ status[f] \in Settled => status[e] \in Settled

\* markEventFailed(): failures are immediate and final, until a rollback
\* deletes the event.
FailedIsFinal ==
  [][\A e \in Events : status[e] = "failed" => status'[e] \in {"failed", "absent"}]_vars

\* Every stored event is settled or rolled back, across failures, restarts and
\* hand-overs.
EventsDrain ==
  \A e \in Events : status[e] = "pending" ~> status[e] # "pending"

\* main.ts, stop(): a shutdown that was begun ends with the process, whichever
\* phase it hit.
ShutdownCompletes == \A p \in Workers : shutdown[p] # "no" ~> phase[p] = "down"
=============================================================================
