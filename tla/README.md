# Dripfeed, verified

Dripfeed reads the logs of the Drips contracts from an EVM chain over RPC, stores
them as events in PostgreSQL and runs one handler per event, which builds the
tables (projects, drip lists, splits, ...) that the Drips API reads. Chains
reorganise, RPC nodes and the database fail, processes are killed and replaced,
and nothing may be lost, applied twice, or left over from a fork that is gone.
This directory holds TLA+ models of that machinery, TLC configurations that check
them on small instances and TLAPS proofs for instances of any size.

Paths below are relative to the root of the repository, which the source maps of
PROJECT.json call `src/`.

## The system

| Part | Code | State it keeps | Operations |
|---|---|---|---|
| Indexer loop | `src/core/Indexer.ts` | `_pendingReorgValidation`, its target, `_shouldStop`, consecutive errors | `start`, `stop`, one iteration: detect, recover, fetch, process, validate |
| Reorg detector | `src/core/ReorgDetector.ts` | none; `_cursor`, `_block_hashes`, `_events` rows | `detect`, `handleReorg`, `validateCleanup` |
| Block fetcher | `src/core/BlockFetcher.ts` | none; the same rows | `fetchAndStore` |
| Event processor | `src/core/EventProcessor.ts`, `src/utils/dbRetry.ts` | none; `_events.status` and what handlers write | `processBatch`, its one-by-one fallback |
| Lock manager, shutdown | `src/core/LockManager.ts`, `src/main.ts` | the advisory lock and its session, `shutdownInProgress` | `acquire`, `release`, `shutdown` |
| Repositories | `src/repositories/*` | the SQL behind the above | |
| RPC client | `src/core/RpcClient.ts` | timers of the calls in flight | reads with retries and timeouts, ranges of blocks |
| Rollback script | `scripts/rollback.ts` | the same rows | the operator's manual recovery |
| Event decoder, registry | `src/core/EventDecoder.ts`, `src/chains/*`, `src/handlers/registry.ts` | an index built at start | log to event, event to handler |
| NFT accounts | `src/handlers/transferHandler.ts`, `src/handlers/AccountMetadataEmitted/*`, `PendingNftTransfersRepository.ts` | `drip_lists`, `ecosystem_main_accounts`, `sub_lists`, `_pending_nft_transfers` | `Transfer`, `AccountMetadataEmitted` |
| Repositories of code, ORCID | `src/handlers/ownerUpdate*.ts`, `handleProjectMetadata.ts` | `projects`, `linked_identities` | `OwnerUpdateRequested`, `OwnerUpdated`, `AccountMetadataEmitted` |
| Splits | `src/handlers/SplitsSet/*`, `SplitsRepository.ts`, `src/utils/validateSplits.ts` | `splits_receivers`, the validity columns | `SplitsSet`, and as a step of metadata |
| Handlers of raw events | `givenHandler.ts`, `splitHandler.ts`, `stream*.ts`, `squeezedStreamsHandler.ts` | one table each, read by no handler | one upsert each |
| Metadata | `src/services/MetadataService.ts`, `src/metadata/*` | none | fetch and parse a document |
| Cache invalidation | `src/services/CacheInvalidationService.ts` | a cache that others keep | post account ids |
| Health server | `src/health.ts` | the last block seen, and when | one request: ping, latest block, cursor, reply |
| Telemetry, logging, migrations, inspection scripts | ... | none of the index | |

How they meet. One process per chain and schema runs one loop. An iteration
calls the detector, perhaps the recovery, the fetcher and the processor, in that
order, each awaiting RPC answers and running short transactions of its own. They
share no memory but the indexer's copy of the pending validation; they meet in
the rows `_cursor`, `_block_hashes` and `_events`. Between two awaits the chain
may reorganise, and at any of them the process may die. Processes meet in the
advisory lock and, when that fails, in the row locks of `_events`.

What is hard about it:

* a fetch reads the head, the logs and the blocks in separate calls, a detection
  reads one block after another, and the chain moves meanwhile;
* the cursor, the hashes and the events must say the same after a death at any
  point, and after a COMMIT whose answer is lost;
* the pending validation of a recovery lives twice, in memory and in a row;
* a batch of events is one transaction that may fail and be replayed one by one;
* the advisory lock and the transactions of a process are different sessions;
* a handler reads documents from IPFS and hashes from the chain as they are now,
  not as they were at its event, and an event may be handled again, after later ones;
* a token is minted and passed on before anything says what kind of account it is;
* rows of receivers are compared with the chain by a hash of a list made of them;
* a transaction may come back in another block and at another index, with its rows;
* one pass over a document types its receivers, another creates the rows they stand for;
* an RPC call races a timer, and one that is tried again may outlast its limit; health
  requests overlap, wait for the node, and share the block they last saw.

What makes each part correct:

* detector: after a detection and the recovery it calls for, no replaced block is
  left in the index; a rollback is as deep as needed; no window edge is missed;
* fetcher: nothing beyond the cursor is ever stored, the hashes that the next
  detection compares are kept, nothing is skipped or stored twice, and the last
  confirmed block is reached;
* processor: events take effect once, in chain order, and each is settled;
* loop: recovery is validated after its replay and not before, also across
  restarts; without automatic recovery nothing moves until the operator acts;
* lock and shutdown: one process at a time, and a shutdown that ends;
* handlers: the tables agree with each other at every moment, and with the chain
  once its events are processed, whatever was replayed on the way;
* splits: rows say what the document says, and are valid exactly when the chain pays so;
* decoder and raw events: every monitored log of the chain is an event and has its row,
  and no other has;
* RPC client and health: calls end in time, no block is passed over unanswered, a
  stalled indexer is reported and a moving one is not.

## Modules

| Module | What it is |
|---|---|
| `EventIndex` | abstract specification: the log of events as readers of the tables see it |
| `ChainIndexer` | the loop of one process, its tables, the chain and the operator |
| `ChainIndexerProofs` | TLAPS proofs about `ChainIndexer`, including that it implements `EventIndex` |
| `ChainDetectionProofs` | more of them: what detection finds, what pruning spares, what waits for the operator |
| `MCChainIndexer` | values for the constants of `ChainIndexer` |
| `EventProcessor` | the processing of events by any number of workers on the same rows |
| `IndexerProcess` | the life of processes: lock, start, loop, shutdown, death, around `EventProcessor` |
| `IndexerProcessProofs` | TLAPS proofs about `IndexerProcess` |
| `MCIndexerProcess` | values for the constants of `IndexerProcess` |
| `AccountTables` | the domain tables and the steps that several handlers share |
| `NftAccounts` | handlers of tokens and sub lists, as operators on the tables |
| `RepoAccounts` | handlers of projects and ORCID identities |
| `Accounts` | the handlers at work: processing, replays, forks, a chain that runs ahead |
| `AccountsProofs` | TLAPS proofs about `Accounts`: the tables agree with each other |
| `AccountsCurrentProofs` | more of them: the tables end up as the chain says |
| `MCAccounts` | values for the constants of `Accounts` |
| `SplitsReceivers` | the rows of `splits_receivers` of one account, its documents and its splits on chain |
| `SplitsReceiversProofs` | TLAPS proofs about `SplitsReceivers` |
| `MCSplitsReceivers` | values for the constants of `SplitsReceivers` |
| `EventDecoder` | networks, contracts, ABIs, monitored events and `decode()`, as operators |
| `EventTables` | logs to events to rows of the event tables, with reorgs and rollbacks |
| `EventTablesProofs` | TLAPS proofs about `EventTables` |
| `MCEventTables` | values for the constants of `EventTables` |
| `RpcClient` | calls with timers and retries, and `getBlocksInRange()` |
| `HealthServer` | health requests beside an indexer, both on `RpcClient` |
| `HealthServerProofs` | TLAPS proofs about `HealthServer` and `RpcClient` |
| `MCHealthServer` | values for the constants of `HealthServer` |

`ChainIndexer` decides which events are in `_events` and when they are processed;
`EventProcessor` that each takes effect once and in order; `Accounts` takes both for
granted and says what taking effect means. What passes between them is small: a
rollback deletes a suffix of the events and touches no domain table, and a handler
that throws leaves the tables alone. `SplitsReceivers` opens what `Accounts` takes for
a hash, `EventTables` what both leave out of a log and of an event, and `RpcClient` the
call that `ChainIndexer` takes for one step.

### ChainIndexer

The state has four parts. *The chain*: `head`, and for each height the fork that
put a block there, so that a hash is a pair of a height and a fork and equal
hashes have equal ancestors. `Grow` adds a block, `Reorg` replaces the blocks from
some height on, at any moment the constant `EnvAssumptions` admits. *The database*:
`cursor`, `pendFrom`, `pendTarget` (the `_cursor` row), `hashes`, `events`, `status`.
*The process*: `pc` says what the loop awaits; `memFrom`, `memTarget`, `errors` and
the locals of `detect()` and `fetchAndStore()`. *History and bounds*.

Every await during which the chain can move or the process can die ends an
action; a transaction is one action, because it takes effect at its COMMIT.
`ScanStep` is one block of the loop of `detect()`, `FetchHead`, `FetchLogs` and
`Store` are the three places where `fetchAndStore()` reads the chain. Three
transactions have a second form, `...AckLost`, whose COMMIT takes effect while the
caller sees an error. `Fault` is any other RPC or database error. `Throw` is the
catch of the loop: it counts, goes back to the head of the loop, or leaves
`start()` when there were `maxConsecutiveErrors`. `OperatorRollback` is
`scripts/rollback.ts`, used when an indexer without automatic recovery exits.

Abstractions. A block carries at most one event; the order within a block is
that of `EventProcessor`. The blocks of one batch are read from one chain (they
are one `Promise.all`). A fork does not come back once it was replaced. Two
transient retries within one call are the call taking longer. A graceful stop is
a `Crash` while `idle`. What handlers write is not in this module: a rollback
removes events and leaves the domain tables to the replay, as in the code.

### EventProcessor and IndexerProcess

`EventProcessor` has, per event, its `status`, how often its handler committed
(`applied`), and which worker's open transaction locks its row; per worker, where it
is in `processBatch()`. A batch is two actions, select and commit, since it holds row
locks in between and others skip them. When the batch fails, its events run one
by one, each in a transaction that takes effect in one action (`CommitEvent`), or
throws, after which a further transaction marks the event failed.

`IndexerProcess` puts this into processes with a `phase` in `start()`, a `shutdown`
in `main.ts` and the session that holds the advisory lock. A process may be signalled at
any time, killed at any time, and relaunched. When a process is dead its database
sessions live on until the server ends them (`SessionsEnd`). Both halves of `main.ts`
are there: the signal handler and the end of `start()`. A recovery within an iteration
deletes events from some block on (`HandleReorg`).

Two facts about the database are assumptions that a run can drop:
`lock_session_lives` (the server does not end the lock's session while the
process runs) and `sessions_end_together` (a dead process loses its sessions at
one moment). Without the first two processes work at the same time. Without the second, TLC finds that a new process can skip the row locks of
a dead one and settle later events first; `InOrder` is therefore checked and
proved with both.

### AccountTables, NftAccounts, RepoAccounts and Accounts

A row keeps the columns that a property tells apart: owner, creator, visibility and
validity of a token; owner, status, validity and visibility of a project; owner and
validity of an identity; parent, root and validity of a sub list; the stored
receivers of each account; and the event pointer of each row, one number `at` for
block, transaction and log index. `drip_lists`, `ecosystem_main_accounts` and
`_pending_nft_transfers` are three functions from tokens to rows.

A handler runs in one transaction, alone, so it is one step: `...Throws` says
whether it throws (and changes nothing), `After...` what tables it leaves. A branch of the
code is a disjunct, an early return the end of one: `AfterTransfer` tries the three tables
in the order of transferHandler.ts, `Describe` updates or migrates and updates again.

Abstractions. A configuration of receivers stands for its hash, so that equal hashes
are equal receivers; `Pays(o)` is the one that gives everything to an owner.
A document has a kind, the account it describes, a configuration, a word on
visibility, and is `sound` or not: fetched, parsed, with GitHub sources and a URL that belong to its
accounts and receivers of types that are allowed (verifyProjectSources.ts,
splitRules.ts). The `..._events` tables are in `EventTables`, as no handler reads them.

A document also says, for each project in its configuration, which `sources` its entry has: the rows in
`projects` are created for the receivers with a GitHub source (`Sourced`), while the stored type of a
receiver comes from its account id alone. Lists refuse a document whose entry, by its own type and
source (`SaysProject`, metadataTypeMapping.ts), says something else than the id (`Mistyped`); a project's
own document is not asked.

`Accounts` puts them behind a chain (`Emit`, `Fork`), which the handlers also read
live (`Live`), and an index of its events (`Fetch`, `RollBack`) of which `done` are settled.
`HandlerThrows` is a handler that refuses its event, `HandlerFails` one that
gets no answer; both leave the event failed for good, as the processor does.
The contracts, external to this repository, are modelled by the events they can
emit: a token exists from its mint, only owners act, a sub list is made with its
splits, once, before its metadata, and a token that is burnt does not return.
Two restrictions keep the model small: a fetch takes all there is, and no event is emitted
while events of a replaced fork are still indexed.

### SplitsReceivers

A document is a list of entries: the list of it an entry is in, a receiver, the type it
says the receiver has, a weight. `EntryRefused`, `InsertRefused`, `Relationship` and
`RowOf` are the loops of the four `update...Splits()`, `ReplacedRows` their delete and
insert, `Formatted` is formatSplitReceivers.ts with every order in which the database may return
rows, and `Validate` is validateSplits.ts. All documents of at most two entries and
all splits that the contract accepts are inputs. Splits may be set between any two steps, and
`CheckSplits` is the handler of `SplitsSet`. Two assumptions on documents can be
dropped: `positive` weights, and receivers that are `listed_once`.

### EventDecoder and EventTables

`EventDecoder` holds the ABIs as functions from names of events to topics, the
monitored events, the contracts of the six networks, what `loadChainConfig()` and
`Contracts` check at start, and `decode()`. A topic is its name unless two ABIs
disagree on the parameters, as those of `OwnerUpdateRequested` do.

`EventTables` puts it between a chain of transactions with logs and the tables.
`ReadLogs` and `StoreFetch` are the two reads of a fetch; between them `Fork` may drop
blocks, whose transactions may come back elsewhere. `Execute` runs handlers in an open
transaction, `Commit`, `Abort` and `FailEvent` end it. A handler is the row
it upserts. `RollBack` deletes events and, by the names of tables, rows.

### RpcClient and HealthServer

`RpcClient` has one record per caller, for its place in `_withRetry()`, the attempt, the time since it
began and what is left of its timer. Time passes in units, for all calls at once, and only
when no timer is due. A block is the caller of its own `getBlock()`, so a chunk of
`getBlocksInRange()` is a set of callers. A node answers, has no block there, refuses, fails or
is silent. `HealthServer` adds the indexer, as far as it moves the cursor (`Fetch`,
`MoveOn`, `Store`, `FetchFails`, `RollBack`, `Restart`), and the requests: `BeginRequest`,
the call, `ReadCursor`, `Reply`, each an await apart. Whoever probes leaves at most
`Period` between requests; queries of the database take less than a unit.
`staleFor` is the time since the second variable of `createHealthServer()` was set.

## Runs

All bounds are constants named in the module. Deadlock is checked in every run of
`ChainIndexer` and `IndexerProcess`, which never stop; `Accounts` stops when the
bounded chain is at its end and all is processed.

| Run | Instance | Shows |
|---|---|---|
| `ChainRecovery` | 6 blocks, window of 3, null rounds, 2 reorgs, 1 fault | `TypeOK`, `NothingBeyondCursor`, `DetectionComplete`, `PruningSparesWindow`, `ValidatedAfterReplay`, `ImplementsIndex` |
| `ChainManual` | 5 blocks from block 2, automatic recovery off, 0 confirmations, 2 reorgs, fair | `FrozenUntilRollback`, `RecoveryValidated`, `CatchesUp` |
| `ChainProgress` | 5 blocks, automatic recovery, 1 reorg, 2 faults, fair | `CatchesUp` |
| `ProcessHandover` | 2 processes, 3 events, batches of 2, 5 disturbances | `SingleIndexer`, `AppliedOnce`, `InOrder`, `FailedIsFinal` |
| `ProcessSessions` | the same processes, sessions that end at any time, fair | `TypeOK`, `EventsDrain`, `ShutdownCompletes` |
| `AccountsConverge` | an account of each kind, 5 events of at most 2 accounts, 1 replay, or 3 with a fork or a failure | `OneHome`, `RootsAreEcosystems`, `ReceiversExist`, `StatusFollowsOwner`, `CreatorIsMinter` always; `OwnerCurrent`, `ValidNow`, `IdentityPaysOwner`, `ReplayConverges` when all is processed |
| `SplitsWrites` | 4 receivers of 4 types, weights 0 to 2, documents and splits of at most 2, for each type of account | `RowsObeyRules`, `NothingMerged`, `ValidExactlyWhenPaid` |
| `RawEvents` | 3 blocks, 2 transactions with 6 logs, mainnet and optimism, 1 reorg, 1 failed event | `EventsMatchChain`, `RowsMatchEvents` |
| `HealthProbes` | 2 blocks in chunks of 1, 2 requests, 2 attempts, stale timeout and period of 1, 1 restart or rollback | `NoBlockUnanswered`, `AnswersInTime`, `StallReported`, `NoFalseAlarm` |

Why these bounds are enough. With a window of 3 (100 in the code) and 6 blocks
the cursor moves past the window, so a reorg can touch its lower edge, leave it,
or straddle a batch (batches have 2 blocks), and pruning really deletes. Two
reorgs are needed for a recovery that is overtaken by the next, one fault for a
death or lost answer between any two steps, two for an error that repeats until
the loop exits (`MaxConsecutiveErrors` is 2). Both values of `AutoHandleReorgs` and
zero and one confirmations occur. Some blocks have events and some do not, and
the replacing fork differs in that, so that hash windows have holes. Two
processes and three events are the least for which one process can settle an
event out of the other's order; batches of two make a batch that is neither
empty nor everything; five disturbances allow a signal, a death, a transient
error and more in one behaviour. Handlers touch the row of their own account, of
receivers that are projects, and read the ecosystems a sub list names: two active
accounts are enough for each such pair, two owners for a transfer, two configurations for
splits that match and splits that do not. The longest chain of needs has four events (mint,
metadata of an ecosystem, splits and metadata of a sub list); five leave one more to
disturb it. A threshold of 1 puts the first event below and the others above it.

Two receivers are the least that can share an id, a list, a type or a weight, and that a sort
can exchange. Of two transactions with three logs each, one has an event of a contract that is not
monitored for it, one a log that does not decode and one a topic that only one of
the networks has; two in a block, or one after a reorg, move indexes and blocks. Two blocks
in chunks of one make a fetch with a first chunk that passes and a second that does not;
two attempts have one delay; two requests are the least that overlap. All of the properties
of `HealthProbes` are also proved, so its bounds only have to break the mutants.

The three runs below each refute something a comment or message says;
they are the entries of "findings" in PROJECT.json.

| Run | Claim | What happens |
|---|---|---|
| `ChainSelfCorrecting` | BlockFetcher.ts:411-414, a reorg between detect and fetch is corrected one iteration later | the new fork is stored on top, the next scan stops at its equal hash, replaced blocks stay |
| `AccountsCleanup` | ReorgDetector.ts:415, no orphans, "Reorg cleanup successful" | a rollback leaves the rows; one whose position is taken by an event of the new fork, or that a later event touched, keeps the replaced owner and is no orphan |
| `SplitsListedTwice` | validateSplits.ts:9, valid means that rows match the splits on chain | a receiver that is maintainer and dependency with one weight is hashed once: valid, though its rows pay it twice |

More disagreements were met and have no run of their own:

* logs and blocks of a fetch are read separately, so with a reorg in between events
  are stored with the hash of another fork (README.md:82); blocks without a stored hash are not
  compared, so a rollback may start above the earliest replaced block
  (DEVELOPMENT.md:137). The assumptions `quiet_read` and `fork_hashed` below exclude both;
* a second reorg before the first is validated overwrites the pending validation
  (ReorgDetector.ts:286), and a lost answer to the first leaves a stale target in memory that
  clears the second early (Indexer.ts:177);
* `detect()` skips a stored block for which the chain now answers a null round
  (`fork_not_null` excludes it);
* the test of the depth that is to fail fast (ReorgDetector.ts:12-16, :165) is never true, as the scan
  looks no further than that depth: a deeper reorg is rolled back in part;
* `markEventProcessed` says "Fail fast if another worker already moved the event"
  (EventsRepository.ts:219), but its update has no condition on the status; without the lock's session
  two workers can settle one event;
* an ORCID account's splits are to pay its owner (isSplittingToOwnerOnly.ts:10), and `OwnerUpdated`
  leaves the verdict of the old owner until splits are set again; `IdentityPaysOwner` is
  stated for splits that were set since;
* "Total timeout including retries" (RpcClient.ts:47) bounds when an attempt begins. With the
  defaults, three attempts of 30 s and delays of at most 4.5 s between, a call takes up to
  94.5 s and the limit of 90 s never ends one; `LongestCall` is what is true;
* the health check counts as caught up an indexer at the head of the chain (health.ts:86-88),
  where one with confirmations never is: it says so only for `STALE_TIMEOUT` after
  a request noticed progress; and after a rollback, re-indexed blocks are no progress to it;
* `streamReceiverSeenHandler` posts ids of rows of `splits_receivers` where account ids are
  wanted; `Split`, `StreamsSet`, `SqueezedStreams` and `SplitsSet` post nothing although they change
  what an account shows, metadata posts the receivers it names and not the account, a rollback posts
  nothing, and posts precede the COMMIT, so a reader in between caches the old state. No property is
  about the cache: what is in it is not known here, and nothing claims that it is never stale;
* a receiver of type `project` may have no row in `projects`: handleProjectMetadata.ts:163-176 types each
  dependency by its id, whatever source it has (:37-44 creates rows for GitHub ones only), and so it is with
  an entry of a drip list that has type `repoDriver` and an ORCID source (metadataTypeMapping.ts:29).
  `ReceiversExist` says that it goes no further: not in an ecosystem or a sub list, and not with a
  GitHub source. The run has such drip lists; its only project can lack no row of its own;
* mainnet's driver is read with the legacy ABI; a request that names a payer is skipped there without a word
  (and elsewhere one that does not);
* formatSplitReceivers.ts:7 promises that zero weights are removed, and they stay (`positive`
  excludes them); the type of a project's maintainers is not checked, so a document can make any
  account an `address`; no handler sets `splits_to_repo_driver_sub_account`, which validateSplits.ts reads;
* validation waits for the fetch, not for the processing of the replayed events
  (ReorgDetector.ts:394); the error of the manual mode, announced as an exit
  (Indexer.ts:151), is retried until `maxConsecutiveErrors`;
* the creator of a token is overwritten with null when it passes on while pending
  (PendingNftTransfersRepository.ts:76), which `CreatorIsMinter` allows, and a replay after it has left that table restores it, so
  DEVELOPMENT.md:119, that processing an event again gives the same result, does not hold of it;
  nor of sub list metadata refused for want of its ecosystem, which a replay
  accepts, nor of an identity's validity. `ReplayConverges` is about tokens, creators aside;
* the `SplitsSet` that makes a sub list precedes its metadata, so the branch that
  splitsSetHandler.ts:295 calls unreachable is the usual one; the metadata handler
  then checks the splits itself.

### What the environment is assumed to do

`EnvAssumptions` of `ChainIndexer`: `quiet_scan`, no reorg between the begin of a detection and
the reading of the logs; `quiet_read`, none between reading logs and blocks;
`within_depth`, no reorg below the detector's window; `fork_hashed` and
`fork_not_null`, the first replaced block has a stored hash and is not replaced by a
null round. They are what `DetectionComplete` and `CatchesUp` need: each of the
first four can be dropped to see it fail (`ChainSelfCorrecting` does). Two of the
theorems about `ChainIndexer` assume all five, the others none.

`SplitsReceivers` has `positive`, documents give no receiver the weight zero, and
`listed_once`, no document names a receiver in two of its lists; without the second
`ValidExactlyWhenPaid` fails, which `SplitsListedTwice` shows. The theorem about it assumes both.

`EventTables` assumes none: what it promises of a block is promised while the block is still
on the chain and its logs and summary were read from one fork. `HealthServer` assumes that
somebody probes, at least once a `Period`, and that queries of the database are quick.

### Fairness

`ChainIndexer`: weak fairness of an iteration's steps and of `Start` (the event loop
runs, a supervisor restarts the process), of `Grow` (the chain goes on), and strong
fairness of `OperatorRollback`, since an operator who is told a block eventually acts,
although the indexer is restarted and exits again meanwhile. Faults and reorgs are bounded,
never fair. `IndexerProcess`: weak fairness of launching, of `start()`, of the
shutdown, and of the server noticing a dead client. Handlers may fail for ever. The
other modules state no liveness: what must happen in time is said in units of time by
`AnswersInTime` and `StallReported`, in which a node that never answers is one more behaviour.

## Proofs

`ChainIndexerProofs`, for every value of the constants that satisfies the named
assumptions and with no assumption on when the chain reorganises:

* `TypeCorrect`: `Spec => []TypeOK`;
* `StoredWithinCursor`: `Spec => []NothingBeyondCursor`;
* `RefinesIndex`: `Spec => ImplementsIndex`, the loop implements `EventIndex`.

They rest on one inductive invariant, `IndInv`. `NothingBeyondCursor` is not
inductive alone: `Store` writes up to `fetchedTo`, computed from a head read before,
so `IndInv` also bounds `safe` and the logs in hand by the cursor while `pc` is in a
fetch, bounds the scan, and says that a row is pending only where there is an
event and that the one-by-one fallback works on a prefix of the pending events.
There is one lemma per part of an iteration (`DetectInd`, `RecoverInd`, `FetchInd`, ...) and
one per environment action. For the refinement, every action that touches the log maps
to one step of `EventIndex` (`RollBackRefines`, `StoreRefines`, `ProcessRefines`), every other to a
stutter.

`ChainDetectionProofs`, on top of `IndInv`:

* `NoReplacedBlockSurvives` and `ReportFreezesIndex`: `DetectionComplete` and
  `FrozenUntilRollback`, under `EnvAssumptions = Assumptions`;
* `WindowKept` and `ReplayBeforeClearing`: `PruningSparesWindow` and
  `ValidatedAfterReplay`, with no assumption on the chain.

`DetectionComplete` speaks of one moment of an iteration, so `DetectInv` says what
holds before it: at any time either the index agrees with the chain or its lowest replaced block is
within the depth, has a hash, is no null round, and no hash above it is equal (`Detectable`).
That is what makes a scan that starts at the cursor and stops at the first equal hash find it (`ScanInv`).
A new block keeps it because no hash is of a fork to come (`ForkInv`), a fetch because it
stores what the chain has or fails (`FetchInv`, with `QuietInv`), a reorg by the assumptions
`within_depth`, `fork_hashed` and `fork_not_null`, each used in one lemma (`ReorgLeavesTrace`).
`ReportInv`, that a reported reorg is still in the index and the loop not past the detection, gives the
action property. For the validation, `PendingInv` relates the copy in memory to
the row. The proof failed where the copy is older than the row, and showed what the property had
overlooked: the answer to `handleReorg()` is lost while an earlier pending validation with a target is in
memory; the loop goes on with it and clears the row of the second rollback, which has no target yet
(Indexer.ts:135-146, :177-195). `ValidatedAfterReplay` now has that case, for behaviours with a
fault, and says that there is no other.

`IndexerProcessProofs`, for any set of processes, any number of events, any batch size
and numbers of retries:

* `ProcessTypeCorrect`: `Spec => []TypeOK`, with no assumption on sessions;
* `OneIndexer`, `ExactlyOnce`, `SettledInOrder`, `FailuresAreFinal`: `SingleIndexer`,
  `AppliedOnce`, `InOrder` and `FailedIsFinal`, each under `EnvAssumptions = Assumptions`.

The invariant is `TypeInv /\ LockInv /\ EventInv`. `SingleIndexer` needs to know that a process
between `acquire()` and `release()` is the holder and that only a process in `processBatch()`, or
one that died there, has a batch (`LockInv`). Order and once-only need more than they
say: what a worker has in hand is pending and leaves no gap below it (`HandInv`), row
locks belong to open transactions, and events are stored without gaps (`TableInv`). By
`LockInv` one worker at a time has events in hand (`OthersIdle`), which makes the selection
a prefix of what is pending although the SQL skips locked rows (`SelectedIsPrefix`).

`AccountsProofs`, for any accounts, owners, documents and configurations, with forks, replays and
failed handlers at any moment: `TypesKept`, `TokensHaveOneHome`, `SubListsHaveRoots`,
`ReceiversHaveRows` and `StatusIsDerived`, which are `TypeOK`, `OneHome`,
`RootsAreEcosystems`, `ReceiversExist` and `StatusFollowsOwner`. Two assumptions carry them: account ids
say by their driver what kind an account is, so the kinds are disjoint
(`AccountAssumption`), and `Absent` is no row (`RowAssumption`).

The invariant is `FeedInv /\ Consistent(db)`. `FeedInv` says that the chain and the index
consist of events the contracts emit. `Consistent` is the four properties together,
as a predicate on tables, so that each handler has one lemma (`AfterTransferConsistent`, ...): tables
that are consistent stay so if it does not throw. A handler is a sequence of
writes, and one lemma per kind of write says when it keeps `Consistent`: a token is
written where it is or where it has no row (`WriteNft`), moves out of the pending table only (`MigrateNft`),
a sub list needs its ecosystems (`WriteSubList`), a project its status (`WriteProject`), and
receivers are accounted for before they are stored (`ReplaceSplitsConsistent`). `RootsAreEcosystems` is
inductive because no write takes a row out of `ecosystems`. For `ReceiversExist`, what an ecosystem or a sub list
takes for a project has a GitHub source (`TypedAreSourced`); and a token that gets its drip list's
receivers is no ecosystem and does not become one, since it has left the pending table (`DescriptionAccountable`,
`MigrateNft`).

`AccountsCurrentProofs`, in the same generality and from the same assumptions: `OwnersFollowChain`,
`ChecksSettle`, `IdentitiesPayOwners`, `CreatorsAreMinters` and `ReplaysConverge`, which are `OwnerCurrent`,
`ValidNow`, `IdentityPaysOwner`, `CreatorIsMinter` and `ReplayConverges`. The first three speak of the end, when all is
processed, and a replay undoes being at the end without undoing a row. `Tracks`, the core of `CurrentInv`,
is what a replay keeps: a column is final from the last event of the whole chain
that decides it, as soon as that one is among those processed; and going back to `k` processed events only takes away
from what is claimed. That the chain runs ahead of the events takes away as well. So the handlers carry the
proof: one lemma for each says that it writes what its event decides and spares other
accounts and columns (`Spares`). For validity the last event to decide is `SplitsSet`, whose handler, like any
later one, compares with the chain as it is and will stay for that account. An
owner counts only after a request, so the row exists (`Ordered`, `Requested`).

`ReplaysConverge` compares the tables with those after one pass. It is no induction over replays: both are
shown to be what the chain alone says. The first metadata that can describe a token decides its table
(`FirstOf`), later metadata is accepted if it asks for the same (`Accepted`), the last accepted one decides the
receivers, and that or the last transfer, whichever is later, the visibility. `Converges`, the
invariant, claims of each of these what the processed events allow: again a replay only takes away. The crux
is `AcceptedIfKnown`: the handler looks at rows, which a replay has already filled by later events, and still
accepts exactly what the chain's order does, because a row outside the pending table is in the
table of the first. It needs that a token is minted before it is described (`Ordered`). `OnePass` is a recursive
function over the chain; it exists, and satisfies the same claims at each index, by the least index at which it
would not (`PassExists`, `PassConverges`). `SameView` then says that the claims leave one view.

`HealthServerProofs`, for any chain, any sets of requests, any timeouts, retries, delays, batch sizes and
concurrency, states each property of `HealthProbes`: `TypesKept`, `CallsInTime`, `BlocksAnswered`,
`AlarmIsTrue` and `StallIsReported`. The only assumption beyond types is that `LongestDelay`
bounds the delays (`DelayAssumption`).

Each has its own invariant over `TypeInv`. A call is bounded record by record
(`CallOK`, with one lemma per way a record changes). `NoBlockUnanswered` needs `KnownInv`: what a
call of a block came to is known, and so is everything below the chunk that is being asked for;
`ChunkInRange` ties the chunk to the range. `NoFalseAlarm` needs `AlarmInv`: a climbing cursor is at its
highest, and a server that has noticed it set its clock no earlier than the cursor moved. `StallReported` needs
`StallInv`: either progress is being noticed, by a request that began within a period of it, or it was,
and the clock was set no later than a period and a call after; what a request has seen but not yet
written is as recent; and a cursor beyond what a deciding request has seen has moved in this very unit of time.
`StageInv` couples a request to its call, so that time stands still for one that decides.

`EventTablesProofs`, for any transactions with any logs, any batch sizes, with reorgs, rollbacks,
crashes and failures at any moment: `TypesStay`, `EventsAreLogs` and `RowsAreOfEvents`, which are
`TypeOK`, `EventsMatchChain` and `RowsMatchEvents`. The argument is that a height and a
fork name one block (`StoredInv`, `LogsInv`): whatever was read of a block that is on the chain now is what it
says, and a stale event of a later block is of a transaction that no kept block has (`EventsInv`). As a row has
the transaction in its key, a stale row never takes the place of one of the kept
blocks; so the rows up to any height below which all blocks are kept are those of the processed events up to
there, whatever is stored above (`RowsInv`). `RowsMatchEvents` alone is not inductive: a rollback leaves it
true only because the rows of the part that stays were right before. Logs of a block are its transactions' logs
flattened, which is a recursive function: what it contains is proved by the least index at which it
would not.

`SplitsReceiversProofs`, for any ids, types, weights and lengths: `TypesStay`,
`RulesObeyed`, `DocumentsPaid` and `VerdictsRight`, which are `TypeOK`, `RowsObeyRules`, `NothingMerged`
and `ValidExactlyWhenPaid`, the last under `EnvAssumptions = Assumptions`. The invariant is that the rows are
those of the last accepted document. An INSERT that the unique index does not refuse gives
each entry a key of its own, and a receiver has at most two keys of one sender: so
what it is paid is a sum of at most two weights, and the fold that adds weights needs to be unfolded twice only.
For the verdict, under the assumptions a receiver has one row; `formatSplitReceivers()` leaves a list that
is strictly sorted, like the configurations the contract accepts; and two strictly sorted lists with the
same pairs are equal (`SamePairs`), so that equal hashes are equal payments.

Two proofs failed on definitions and not on properties: the guards of two CASE
expressions, in `Relationship` and in `Execute`, overlapped, where TLC takes the first and TLA+ any. They are disjoint now.

Only model-checked: everything that needs fairness (`CatchesUp`, `RecoveryValidated`,
`EventsDrain`, `ShutdownCompletes`), since liveness under fairness is out of this prover's
reach. The runs that expect a violation are counterexamples, of which there is nothing to prove.

## Not modelled

* Fetching and parsing metadata documents: a document is sound or not.
* Cache invalidation: a post changes no table, and the cache belongs to another program.
* `validateCleanup` only logs; `ChainIndexer` has when it runs, `Accounts` what it can see (`HasOrphans`).
* Telemetry, logging, configuration, running migrations, the inspection and comparison
  scripts: reads and formatting. They are a large share of the lines that no model covers.
* Of an ABI, everything but the names and signatures of its events; of an event table, the columns
  that are copied from the event.
* The arithmetic of account ids: a model takes ids with a driver in them.
* The dry run and the prompt of `scripts/rollback.ts`.
* Accounts of the address driver, which have no row.

## Plan

Done, in this order because the loop decides what anything else may rely on:
the loop with its refinement and proofs, processes with theirs, the handlers with theirs, the receivers of
splits, decoding and event tables, the RPC client and the health server with their proofs.

Then proofs of every safety property that a run checks.

Next:

1. an abstract specification of the domain tables, a fold of the handlers over the
   events, which `Accounts` implements for tokens: `ReplayConverges` states its end;
2. safety parts of the liveness properties: which steps an iteration may take in which order.
