------------------------------ MODULE EventTables ------------------------------
(***************************************************************************)
(* From the logs of a chain to the rows of the event tables: logs are      *)
(* fetched and decoded, events are stored and executed, a handler writes   *)
(* the row of its event, and a rollback deletes rows and events.           *)
(*                                                                         *)
(* ChainIndexer says when the loop fetches and rolls back, EventProcessor  *)
(* how it retries.  Here any block may be rolled back to at any time       *)
(* between transactions, and a transaction executes any number of the      *)
(* first pending events up to the size of a batch, which includes the      *)
(* fallback.  A crash ends a transaction or a fetch as an error does.      *)
(***************************************************************************)
EXTENDS EventDecoder, Integers, SequencesExt

CONSTANTS
  IndexedNetworks,  \* networks that are looked at
  Txs,              \* transactions
  LogsOf,           \* their logs
  FetchBatchSize,
  ProcessBatchSize,
  MaxBlock,         \* bound: height of the chain
  BlockTxs,         \* bound: transactions of a block
  MaxForks,         \* bound: reorgs
  MaxFailures       \* bound: events that fail

Blocks == 1..MaxBlock
Forks == 0..MaxForks
Log == [address : STRING, topic : STRING, sound : BOOLEAN]

ASSUME TablesAssumption ==
  /\ IndexedNetworks \subseteq Networks
  /\ LogsOf \in [Txs -> Seq(Log)]
  /\ FetchBatchSize \in Nat \ {0} /\ ProcessBatchSize \in Nat \ {0}
  /\ MaxBlock \in Nat /\ BlockTxs \in Nat /\ MaxForks \in Nat /\ MaxFailures \in Nat

VARIABLES
  network,
  chain,     \* the blocks: their transactions in order, and the fork that made them
  forks,     \* reorgs so far
  cursor,
  stored,    \* history: at a height, the forks whose logs and whose block were read
  logs,      \* fetchAndStore(): the part of the chain whose logs were read
  events,    \* _events
  tables,    \* the tables whose names end in _events, _events excluded
  open,      \* the events that the open transaction has executed
  failures

chainVars == <<chain, forks>>
indexVars == <<cursor, stored, logs, events>>
vars == <<network, chainVars, indexVars, tables, open, failures>>

NothingRead == <<>>
NotStored == [logs |-> -1, block |-> -1]

Init ==
  /\ network \in {n \in IndexedNetworks : loadChainConfig(n) /\ Contracts(n)}
  /\ chain = <<>> /\ forks = 0
  /\ cursor = 0
  /\ stored = [b \in Blocks |-> NotStored]
  /\ logs = NothingRead
  /\ events = {} /\ tables = {}
  /\ open = {}
  /\ failures = 0

-----------------------------------------------------------------------------
(* The chain. *)

Used == UNION {ToSet(chain[b].txs) : b \in DOMAIN chain}

\* A block has transactions that are not on the chain yet.
Grow ==
  /\ Len(chain) < MaxBlock
  /\ \E ts \in UNION {[1..n -> Txs \ Used] : n \in 0..BlockTxs} :
       /\ IsInjective(ts)
       /\ chain' = Append(chain, [fork |-> forks, txs |-> ts])
  /\ UNCHANGED <<network, forks, indexVars, tables, open, failures>>

\* The blocks from r on are dropped; their transactions may come back, elsewhere.
Fork(r) ==
  /\ forks < MaxForks
  /\ forks' = forks + 1
  /\ chain' = SubSeq(chain, 1, r - 1)
  /\ UNCHANGED <<network, indexVars, tables, open, failures>>

-----------------------------------------------------------------------------
(* Fetching. *)

\* The logs of a block, with the position that is their index.
LogsIn(block) ==
  FlattenSeq([i \in DOMAIN block.txs |->
    [j \in DOMAIN LogsOf[block.txs[i]] |->
      [tx |-> block.txs[i], log |-> LogsOf[block.txs[i]][j]]]])

\* The events that decode() makes of a block at height b.
EventsIn(b, block) ==
  LET all == LogsIn(block) IN
  UNION {{[block |-> b, fork |-> block.fork, tx |-> all[i].tx, index |-> i, name |-> n,
           status |-> "pending"] :
             n \in decode(network, all[i].log)} : i \in DOMAIN all}

FetchTo == IF cursor + FetchBatchSize <= Len(chain) THEN cursor + FetchBatchSize ELSE Len(chain)

\* getLogs() for all contracts.
ReadLogs ==
  /\ logs = NothingRead /\ open = {}
  /\ cursor < Len(chain)
  /\ logs' = SubSeq(chain, cursor + 1, FetchTo)
  /\ UNCHANGED <<network, chainVars, cursor, stored, events, tables, open, failures>>

\* The summaries of the blocks are read, and what was fetched is stored.
StoreFetch ==
  LET to == cursor + Len(logs) IN
  /\ logs # NothingRead /\ to <= Len(chain)
  /\ cursor' = to
  /\ stored' = [b \in Blocks |->
       IF b \in (cursor + 1)..to
         THEN [logs |-> logs[b - cursor].fork, block |-> chain[b].fork] ELSE stored[b]]
  /\ events' = events \union UNION {EventsIn(cursor + i, logs[i]) : i \in DOMAIN logs}
  /\ logs' = NothingRead
  /\ UNCHANGED <<network, chainVars, tables, open, failures>>

FetchFails ==
  /\ logs # NothingRead
  /\ logs' = NothingRead
  /\ UNCHANGED <<network, chainVars, cursor, stored, events, tables, open, failures>>

-----------------------------------------------------------------------------
(* Processing. *)

\* The row that a handler writes.  What else handlers do is left to Accounts,
\* and the accounts that some post to a cache of others are left out.
RowIn(table, e) == {[table |-> table, tx |-> e.tx, index |-> e.index, block |-> e.block]}

givenHandler(e) == RowIn("given_events", e)
splitHandler(e) == RowIn("split_events", e)
streamsSetHandler(e) == RowIn("streams_set_events", e)
squeezedStreamsHandler(e) == RowIn("squeezed_streams_events", e)
streamReceiverSeenHandler(e) == RowIn("stream_receiver_seen_events", e)
splitsSetHandler(e) == RowIn("splits_set_events", e)
accountMetadataEmittedHandler(e) == RowIn("account_metadata_emitted_events", e)
transferHandler(e) == RowIn("transfer_events", e)
ownerUpdatedHandler(e) == {}
ownerUpdateRequestedHandler(e) == {}

\* resolveHandler()
Handled(e) ==
  CASE e.name = "Given" -> givenHandler(e)
    [] e.name = "Split" -> splitHandler(e)
    [] e.name = "StreamsSet" -> streamsSetHandler(e)
    [] e.name = "SqueezedStreams" -> squeezedStreamsHandler(e)
    [] e.name = "StreamReceiverSeen" -> streamReceiverSeenHandler(e)
    [] e.name = "SplitsSet" -> splitsSetHandler(e)
    [] e.name = "AccountMetadataEmitted" -> accountMetadataEmittedHandler(e)
    [] e.name = "Transfer" -> transferHandler(e)
    [] e.name = "OwnerUpdated" -> ownerUpdatedHandler(e)
    [] e.name = "OwnerUpdateRequested" -> ownerUpdateRequestedHandler(e)

Rows(es) == UNION {Handled(e) : e \in es}
Key(row) == <<row.table, row.tx, row.index>>

\* A faulty variant of Upserted: rows are inserted whatever is there.
Inserted(rows) == tables \union rows

\* upsert(): a row with the key is replaced.
Upserted(rows) ==
  {r \in tables : Key(r) \notin {Key(s) : s \in rows}}
    \union {r \in rows : \A s \in rows : Key(s) = Key(r) => s.block <= r.block}

Before(e1, e2) == e1.block < e2.block \/ (e1.block = e2.block /\ e1.index < e2.index)
Pending == {e \in events : e.status = "pending"}
First(n) == {e \in Pending : Cardinality({d \in Pending : Before(d, e)}) < n}

\* The handlers run in a transaction.
Execute(n) ==
  /\ open = {} /\ logs = NothingRead
  /\ First(n) # {}
  /\ open' = First(n)
  /\ UNCHANGED <<network, chainVars, indexVars, tables, failures>>

Settle(status) ==
  events' = (events \ open) \union {[e EXCEPT !.status = status] : e \in open}

Commit ==
  /\ open # {}
  /\ tables' = Upserted(Rows(open))
  /\ Settle("processed")
  /\ open' = {}
  /\ UNCHANGED <<network, chainVars, cursor, stored, logs, failures>>

\* A handler or the commit fails.
Abort ==
  /\ open # {}
  /\ open' = {}
  /\ UNCHANGED <<network, chainVars, indexVars, tables, failures>>

\* An event of the fallback has failed for good.
FailEvent ==
  /\ open # {} /\ Cardinality(open) = 1
  /\ failures < MaxFailures
  /\ failures' = failures + 1
  /\ Settle("failed")
  /\ open' = {}
  /\ UNCHANGED <<network, chainVars, cursor, stored, logs, tables>>

-----------------------------------------------------------------------------
(* Rolling back. *)

\* The tables that _deleteEventLogTables() finds: named for events, with a block.
EventTableNames == {"given_events", "split_events", "streams_set_events",
                    "squeezed_streams_events", "stream_receiver_seen_events",
                    "splits_set_events", "account_metadata_emitted_events", "transfer_events"}

\* A faulty variant of RollBack: the tables are left alone.
RollBackEvents(r) ==
  /\ open = {} /\ logs = NothingRead
  /\ r <= cursor
  /\ cursor' = r - 1
  /\ stored' = [b \in Blocks |-> IF b >= r THEN NotStored ELSE stored[b]]
  /\ events' = {e \in events : e.block < r}
  /\ UNCHANGED <<network, chainVars, logs, tables, open, failures>>

\* handleReorg() and _deleteEventLogTables().
RollBack(r) ==
  /\ open = {} /\ logs = NothingRead
  /\ r <= cursor
  /\ cursor' = r - 1
  /\ stored' = [b \in Blocks |-> IF b >= r THEN NotStored ELSE stored[b]]
  /\ events' = {e \in events : e.block < r}
  /\ tables' = {t \in tables : t.table \in EventTableNames => t.block < r}
  /\ UNCHANGED <<network, chainVars, logs, open, failures>>

Next ==
  \/ Grow \/ \E r \in DOMAIN chain : Fork(r)
  \/ ReadLogs \/ StoreFetch \/ FetchFails
  \/ \E n \in 1..ProcessBatchSize : Execute(n)
  \/ Commit \/ Abort \/ FailEvent
  \/ \E r \in Blocks : RollBack(r)

Spec == Init /\ [][Next]_vars

-----------------------------------------------------------------------------
(* Properties *)

Event ==
  [block : Blocks, fork : Forks, tx : Txs, index : Nat, name : registry,
   status : {"pending", "processed", "failed"}]
Row == [table : EventTableNames, tx : Txs, index : Nat, block : Blocks]

\* Each variable stays in its set; _events has one row per block and log index,
\* and the tables one per transaction and log index, as their unique indexes demand.
TypeOK ==
  /\ network \in IndexedNetworks
  /\ \A b \in DOMAIN chain : chain[b].fork \in Forks /\ ToSet(chain[b].txs) \subseteq Txs
  /\ Len(chain) <= MaxBlock
  /\ cursor \in 0..MaxBlock
  /\ events \subseteq Event
  /\ \A e1, e2 \in events : e1.block = e2.block /\ e1.index = e2.index => e1 = e2
  /\ tables \subseteq Row
  /\ \A t1, t2 \in tables : Key(t1) = Key(t2) => t1 = t2
  /\ open \subseteq events
  /\ failures \in 0..MaxFailures

\* The block of a fetch is still on the chain, and its logs were of that block.
Current(b) ==
  /\ b <= Len(chain)
  /\ stored[b] = [logs |-> chain[b].fork, block |-> chain[b].fork]

\* abiTypes.ts: mainnet has the driver whose requests do not name a payer.
Monitored ==
  ({"Drips"} \X {"Given", "Split", "SplitsSet", "StreamsSet", "SqueezedStreams",
                 "StreamReceiverSeen", "AccountMetadataEmitted"})
  \union {<<"NftDriver", "Transfer">>, <<"RepoDriver", "OwnerUpdated">>,
          <<"RepoDriver", IF network = "mainnet" THEN "OwnerUpdateRequested"
                          ELSE "OwnerUpdateRequested with payer">>}

\* For every block up to the cursor that is still on the chain, the events are
\* its monitored logs that decode, each at its place: no other log hides one or
\* moves the cursor past it.  The exception that the code does not see is a
\* reorg between the logs and the block of one fetch.
EventsMatchChain ==
  \A b \in 1..cursor : Current(b) =>
    LET all == LogsIn(chain[b]) IN
    {<<e.index, e.tx>> : e \in {d \in events : d.block = b}} =
      {<<i, all[i].tx>> : i \in {j \in DOMAIN all :
         all[j].log.sound /\ <<all[j].log.address, all[j].log.topic>> \in Monitored}}

\* When all blocks up to the cursor are, the event tables have a row for each
\* processed event and no other, although a transaction may have come back in
\* another block or at another index, and rows may have moved with it.
RowsMatchEvents ==
  (\A b \in 1..cursor : Current(b)) =>
    tables = Rows({e \in events : e.status = "processed"})
=============================================================================
