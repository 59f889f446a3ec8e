------------------------------ MODULE EventIndex ------------------------------
(***************************************************************************)
(* What the indexer promises the readers of the _cursor and _events tables *)
(* of one chain: a log that only grows at its end and is only cut at its   *)
(* end, whose events are settled once and in chain order.                  *)
(*                                                                         *)
(* events[b] is what was recorded for block b, or None.                    *)
(***************************************************************************)
EXTENDS Integers

CONSTANTS Blocks, Contents, StartBlock, None

VARIABLES cursor, events, status

vars == <<cursor, events, status>>

Init ==
  /\ cursor = None
  /\ events = [b \in Blocks |-> None]
  /\ status = [b \in Blocks |-> "absent"]

\* The first start of the indexer creates the cursor.
Open ==
  /\ cursor = None
  /\ cursor' = StartBlock - 1
  /\ UNCHANGED <<events, status>>

\* The blocks after the cursor, up to some block, are recorded; what was
\* there stays as it was.
Extend ==
  /\ cursor # None
  /\ cursor' \in Blocks /\ cursor' > cursor
  /\ events' \in [Blocks -> Contents \union {None}]
  /\ status' = [b \in Blocks |->
                  IF b > cursor /\ b <= cursor' /\ events'[b] # None
                    THEN "pending" ELSE status[b]]
  /\ \A b \in Blocks : (b <= cursor \/ b > cursor') => events'[b] = events[b]

\* Everything from block r on is forgotten, its settled events included.
Rewind(r) ==
  /\ cursor # None
  /\ StartBlock <= r /\ r <= cursor
  /\ cursor' = r - 1
  /\ events' = [b \in Blocks |-> IF b >= r THEN None ELSE events[b]]
  /\ status' = [b \in Blocks |-> IF b >= r THEN "absent" ELSE status[b]]

\* The events of S are settled; no earlier event is left pending.
Settle(S) ==
  /\ \A b \in S : status[b] = "pending"
  /\ \A b \in S : \A p \in Blocks :
       status[p] = "pending" /\ p < b => p \in S
  /\ \A b \in S : status'[b] \in {"processed", "failed"}
  /\ status' = [b \in Blocks |-> IF b \in S THEN status'[b] ELSE status[b]]
  /\ UNCHANGED <<cursor, events>>

Next ==
  \/ Open
  \/ Extend
  \/ \E r \in Blocks : Rewind(r)
  \/ \E S \in SUBSET Blocks : Settle(S)

Spec == Init /\ [][Next]_vars
=============================================================================
