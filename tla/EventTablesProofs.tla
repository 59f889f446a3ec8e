--------------------------- MODULE EventTablesProofs ---------------------------
(* Proofs, for any transactions and logs, any batch sizes, and any reorgs,   *)
(* rollbacks, crashes and failures, that what is stored of a block that is   *)
(* still on the chain is right, whatever is stored of blocks that are not:   *)
(* its events are the logs that the configuration asks for, and the rows up  *)
(* to it are those of the events.                                            *)
(*                                                                           *)
(* A fork and a height name a block.  So logs that belong to the block that  *)
(* is on the chain now are its logs, and a stale event of a later block is   *)
(* of a transaction that no kept block has: its row takes the place of none. *)
EXTENDS EventTables, TLAPS, SequenceTheorems, WellFoundedInduction

(* A block of the chain is the one whose logs were stored.                   *)
Kept(b) == b <= Len(chain) /\ stored[b].logs = chain[b].fork

Block == [fork : Forks, txs : Seq(Txs)]
TxsOf(block) == ToSet(block.txs)

ChainInv ==
  /\ chain \in Seq(Block) /\ Len(chain) <= MaxBlock
  /\ forks \in Forks
  /\ \A b \in 1..Len(chain) : chain[b].fork <= forks
  /\ \A b, c \in 1..Len(chain) : b # c => TxsOf(chain[b]) \cap TxsOf(chain[c]) = {}

(* A height and a fork name one block at most: what was stored of a block    *)
(* that a reorg has dropped is from an earlier fork than what may come.      *)
StoredInv ==
  /\ cursor \in 0..MaxBlock
  /\ stored \in [Blocks -> [logs : Int, block : Int]]
  /\ \A b \in Blocks : /\ stored[b].logs <= forks
                       /\ b > Len(chain) => stored[b].logs < forks

(* So are logs that were read and not stored yet.  Those of later blocks are *)
(* of other transactions than the blocks have that are still on the chain.   *)
LogsInv ==
  /\ logs \in Seq(Block)
  /\ \A i \in 1..Len(logs) :
       /\ logs[i].fork <= forks
       /\ cursor + i > Len(chain) => logs[i].fork < forks
       /\ cursor + i <= Len(chain) /\ logs[i].fork = chain[cursor + i].fork =>
            logs[i] = chain[cursor + i]
       /\ \A b \in 1..Len(chain) :
            /\ b <= cursor /\ Kept(b) => TxsOf(logs[i]) \cap TxsOf(chain[b]) = {}
            /\ b > cursor /\ b < cursor + i /\ logs[b - cursor].fork = chain[b].fork =>
                 TxsOf(logs[i]) \cap TxsOf(chain[b]) = {}

(* Where the logs of a block are that decode.                                *)
Told(net, block) ==
  LET all == LogsIn(block) IN
  {<<i, all[i].tx>> : i \in {j \in DOMAIN all : decode(net, all[j].log) # {}}}

EventsAt(b) == {<<e.index, e.tx>> : e \in {d \in events : d.block = b}}

(* Events are those of blocks that are still on the chain, and events of     *)
(* later blocks, were they stale, are of other transactions.                 *)
EventsInv ==
  /\ events \subseteq Event
  /\ \A e1, e2 \in events : e1.block = e2.block /\ e1.index = e2.index => e1 = e2
  /\ \A e \in events : e.block <= cursor
  /\ open \subseteq Pending
  /\ \A b \in 1..cursor : Kept(b) =>
       /\ EventsAt(b) = Told(network, chain[b])
       /\ \A e \in events : e.block > b => e.tx \notin TxsOf(chain[b])

(* Rows up to any block are those of the processed events, if all blocks up  *)
(* to there are still on the chain, whatever is stored of later blocks.      *)
Done(k) == {e \in events : e.status = "processed" /\ e.block <= k}
UpTo(k) == {t \in tables : t.block <= k}

RowsInv ==
  /\ tables \subseteq Row
  /\ \A t1, t2 \in tables : Key(t1) = Key(t2) => t1 = t2
  /\ \A t \in tables : t.block <= cursor
  /\ \A k \in 0..cursor : (\A b \in 1..k : Kept(b)) => UpTo(k) = Rows(Done(k))

-----------------------------------------------------------------------------
(* Logs of a block.                                                          *)

(* Induction is by the least number that is an exception.                    *)
LEMMA LeastNumber ==
  ASSUME NEW T, T \subseteq Nat, T # {}
  PROVE  \E m \in T : \A k \in T : ~(k < m)
<1>1. PICK m \in T : \A k \in T : <<k, m>> \notin OpToRel(<, Nat)
  BY WFMin, NatLessThanWellFounded, Zenon
<1> QED BY <1>1, Zenon DEF OpToRel

Step(ss, f, i) == IF i = 1 THEN ss[i] ELSE f[i - 1] \o ss[i]
Flattens(ss, k, f) == f = [i \in 1..k |-> Step(ss, f, i)]

LEMMA FlattenedExist ==
  ASSUME NEW S, NEW ss \in Seq(Seq(S)), NEW n \in 0..Len(ss)
  PROVE  \E f : Flattens(ss, n, f)
<1> DEFINE T == {k \in 0..Len(ss) : ~ \E f : Flattens(ss, k, f)}
<1>1. ASSUME T # {} PROVE FALSE
  <2>1. T \subseteq Nat
    OBVIOUS
  <2>2. PICK m \in T : \A k \in T : ~(k < m)
    <3> HIDE DEF T
    <3> QED BY <1>1, <2>1, LeastNumber
  <2>3. m \in 0..Len(ss) /\ ~ \E f : Flattens(ss, m, f)
    BY <2>2
  <2>4. m # 0
    <3>1. Flattens(ss, 0, <<>>)
      BY DEF Flattens
    <3> QED BY <2>3, <3>1
  <2>5. m - 1 \in 0..Len(ss) /\ m - 1 \notin T
    <3>1. m - 1 \in 0..Len(ss) /\ m - 1 < m
      BY <2>3, <2>4
    <3> HIDE DEF T
    <3> QED BY <2>2, <3>1
  <2>6. PICK g : Flattens(ss, m - 1, g)
    BY <2>5
  <2> HIDE DEF T
  <2> DEFINE h == [i \in 1..m |-> IF i < m THEN g[i] ELSE Step(ss, g, m)]
  <2>7. \A i \in 1..m : h[i] = Step(ss, h, i)
    <3> TAKE i \in 1..m
    <3>1. CASE i < m
      <4>0. i \in 1..(m - 1)
        BY <2>3, <3>1
      <4>1. h[i] = g[i] /\ g[i] = Step(ss, g, i)
        BY <2>6, <3>1, <4>0 DEF Flattens
      <4>2. i # 1 => h[i - 1] = g[i - 1]
        BY <2>3, <3>1
      <4> QED BY <4>1, <4>2 DEF Step
    <3>2. CASE i = m
      <4>1. h[i] = Step(ss, g, m)
        BY <3>2
      <4>2. m # 1 => h[m - 1] = g[m - 1]
        BY <2>3, <2>4
      <4> QED BY <3>2, <4>1, <4>2 DEF Step
    <3> QED BY <3>1, <3>2, <2>3
  <2>8. Flattens(ss, m, h)
    <3>1. h = [i \in 1..m |-> h[i]]
      OBVIOUS
    <3> HIDE DEF h
    <3> QED BY <2>7, <3>1 DEF Flattens
  <2> QED BY <2>3, <2>8
<1> QED BY <1>1

LEMMA FlattenSeqType ==
  ASSUME NEW S, NEW ss \in Seq(Seq(S))
  PROVE  FlattenSeq(ss) \in Seq(S)
<1>1. CASE Len(ss) = 0
  BY <1>1 DEF FlattenSeq
<1>2. CASE Len(ss) # 0
  <2> DEFINE f == CHOOSE f : f = [i \in 1..Len(ss) |->
                                    IF i = 1 THEN ss[i] ELSE f[i - 1] \o ss[i]]
             T == {k \in 1..Len(ss) : f[k] \notin Seq(S)}
  <2>1. FlattenSeq(ss) = f[Len(ss)]
    BY <1>2 DEF FlattenSeq
  <2>2. f = CHOOSE g : Flattens(ss, Len(ss), g)
    BY Zenon DEF Flattens, Step
  <2> HIDE DEF f
  <2>3. Flattens(ss, Len(ss), f)
    <3>1. \E g : Flattens(ss, Len(ss), g)
      BY FlattenedExist
    <3> QED BY <2>2, <3>1, Zenon
  <2>4. \A i \in 1..Len(ss) : f[i] = Step(ss, f, i)
    BY <2>3 DEF Flattens
  <2>5. ASSUME T # {} PROVE FALSE
    <3>1. T \subseteq Nat
      OBVIOUS
    <3>2. PICK m \in T : \A k \in T : ~(k < m)
      <4> HIDE DEF T
      <4> QED BY <2>5, <3>1, LeastNumber
    <3>3. m # 1 => m - 1 \in 1..Len(ss) /\ m - 1 \notin T
      BY <3>2
    <3>4. m # 1 => f[m - 1] \in Seq(S)
      BY <3>3
    <3>5. f[m] = Step(ss, f, m) /\ ss[m] \in Seq(S)
      BY <2>4, <3>2
    <3>6. f[m] \in Seq(S)
      BY <3>4, <3>5 DEF Step
    <3> QED BY <3>2, <3>6
  <2>6. Len(ss) \in 1..Len(ss)
    BY <1>2
  <2> QED BY <2>1, <2>5, <2>6
<1> QED BY <1>1, <1>2

(* Each log of a block is one of a transaction of the block.                 *)
LEMMA LogsInType ==
  ASSUME NEW block \in Block
  PROVE  LogsIn(block) \in Seq([tx : ToSet(block.txs), log : Log])
<1> DEFINE S == [tx : ToSet(block.txs), log : Log]
           one(t) == [j \in DOMAIN LogsOf[t] |-> [tx |-> t, log |-> LogsOf[t][j]]]
           ss == [i \in DOMAIN block.txs |-> one(block.txs[i])]
<1>1. block.txs \in Seq(Txs)
  BY DEF Block
<1>2. \A i \in DOMAIN block.txs : block.txs[i] \in ToSet(block.txs) /\ block.txs[i] \in Txs
  BY <1>1 DEF ToSet
<1>3. \A t \in ToSet(block.txs) \cap Txs : one(t) \in Seq(S)
  <2> TAKE t \in ToSet(block.txs) \cap Txs
  <2>1. LogsOf[t] \in Seq(Log)
    BY TablesAssumption
  <2> DEFINE n == Len(LogsOf[t])
  <2>2. n \in Nat /\ DOMAIN LogsOf[t] = 1..n /\ \A j \in 1..n : LogsOf[t][j] \in Log
    BY <2>1
  <2>3. one(t) \in [1..n -> S]
    BY <2>2
  <2> QED BY <2>2, <2>3
<1>4. ss \in Seq(Seq(S))
  <2>1. DOMAIN block.txs = 1..Len(block.txs) /\ Len(block.txs) \in Nat
    BY <1>1
  <2> HIDE DEF S, one
  <2>2. ss \in [1..Len(block.txs) -> Seq(S)]
    BY <1>2, <1>3, <2>1
  <2> QED BY <2>1, <2>2
<1>5. LogsIn(block) = FlattenSeq(ss)
  BY DEF LogsIn
<1> HIDE DEF ss, S
<1>6. FlattenSeq(ss) \in Seq(S)
  BY <1>4, FlattenSeqType
<1> QED BY <1>5, <1>6 DEF S

-----------------------------------------------------------------------------
(* The index of the decoder.                                                 *)

LEMMA Configured ==
  /\ Networks = {"mainnet", "filecoin", "metis", "optimism", "sepolia", "localtestnet"}
  /\ configs["mainnet"] = mainnetConfig
  /\ \A n \in Networks \ {"mainnet"} : configs[n] = filecoinConfig
<1>1. Networks = {"mainnet", "filecoin", "metis", "optimism", "sepolia", "localtestnet"}
  BY DEF Networks, configs
<1>2. configs["mainnet"] = mainnetConfig
  BY DEF configs
<1>3. /\ configs["filecoin"] = filecoinConfig
      /\ configs["metis"] = filecoinConfig
      /\ configs["optimism"] = filecoinConfig
      /\ configs["sepolia"] = filecoinConfig
      /\ configs["localtestnet"] = filecoinConfig
  BY DEF configs, metisConfig, optimismConfig, sepoliaConfig, localtestnetConfig
<1> QED BY <1>1, <1>2, <1>3

LEMMA DecodeNames ==
  ASSUME NEW net, NEW log
  PROVE  \A n : n \in decode(net, log) <=>
           \E c \in configs[net] : /\ n \in c.events /\ log.sound
                                   /\ c.name = log.address /\ c.abi[n] = log.topic
<1>1. \A j : j \in topicIndex(net) <=>
        \E c \in configs[net] : \E e \in c.events :
          j = [address |-> c.name, topic |-> c.abi[e], eventName |-> e]
  BY DEF topicIndex
<1> TAKE n
<1>2. n \in decode(net, log) <=>
        \E j \in topicIndex(net) : /\ log.sound /\ j.address = log.address
                                   /\ j.topic = log.topic /\ n = j.eventName
  BY DEF decode
<1>3. ASSUME NEW j \in topicIndex(net), log.sound, j.address = log.address,
             j.topic = log.topic, n = j.eventName
      PROVE  \E c \in configs[net] : /\ n \in c.events /\ log.sound
                                     /\ c.name = log.address /\ c.abi[n] = log.topic
  <2>0. PICK c \in configs[net] : \E e \in c.events :
          j = [address |-> c.name, topic |-> c.abi[e], eventName |-> e]
    BY <1>1
  <2>1. PICK e \in c.events : j = [address |-> c.name, topic |-> c.abi[e], eventName |-> e]
    BY <2>0
  <2>2. j.address = c.name /\ j.topic = c.abi[e] /\ j.eventName = e
    BY <2>1
  <2> QED BY <1>3, <2>2
<1>4. ASSUME NEW c \in configs[net], n \in c.events, log.sound,
             c.name = log.address, c.abi[n] = log.topic
      PROVE  n \in decode(net, log)
  <2> DEFINE j == [address |-> c.name, topic |-> c.abi[n], eventName |-> n]
  <2>1. j \in topicIndex(net)
    BY <1>1, <1>4
  <2>2. j.address = log.address /\ j.topic = log.topic /\ j.eventName = n
    BY <1>4
  <2> QED BY <1>2, <1>4, <2>1, <2>2
<1> QED BY <1>2, <1>3, <1>4

LEMMA Topics ==
  /\ \A n : n \in DRIPS_EVENTS => drips.abi[n] = n
  /\ nftDriver.abi["Transfer"] = "Transfer"
  /\ repoDriver.abi["OwnerUpdated"] = "OwnerUpdated"
  /\ repoDriver.abi["OwnerUpdateRequested"] = "OwnerUpdateRequested with payer"
  /\ repoDriverLegacy.abi["OwnerUpdated"] = "OwnerUpdated"
  /\ repoDriverLegacy.abi["OwnerUpdateRequested"] = "OwnerUpdateRequested"
<1>1. \A n : n \in DRIPS_EVENTS => drips.abi[n] = n
  BY DEF DRIPS_EVENTS, drips, Abi, DripsEvents
<1>2. nftDriver.abi["Transfer"] = "Transfer"
  BY DEF nftDriver, Abi, NftDriverEvents
<1>3. /\ "OwnerUpdated" \in RepoDriverEvents
      /\ "OwnerUpdateRequested" \in RepoDriverEvents
  BY DEF RepoDriverEvents, AddressDriverEvents
<1>4. /\ repoDriverAbi["OwnerUpdated"] = "OwnerUpdated"
      /\ repoDriverAbi["OwnerUpdateRequested"] = "OwnerUpdateRequested with payer"
  BY <1>3 DEF repoDriverAbi, Abi
<1>5. /\ "OwnerUpdated" \in RepoDriverLegacyEvents
      /\ "OwnerUpdateRequested" \in RepoDriverLegacyEvents
  BY DEF RepoDriverLegacyEvents, AddressDriverEvents
<1>6. /\ repoDriverLegacyAbi["OwnerUpdated"] = "OwnerUpdated"
      /\ repoDriverLegacyAbi["OwnerUpdateRequested"] = "OwnerUpdateRequested"
  BY <1>5 DEF repoDriverLegacyAbi, Abi
<1> QED BY <1>1, <1>2, <1>4, <1>6 DEF repoDriver, repoDriverLegacy

(* What decode() makes of a log is one event at most, and one of those that  *)
(* are monitored.                                                            *)
LEMMA Decodes ==
  ASSUME network \in Networks, NEW log
  PROVE  /\ decode(network, log) # {} <=>
              log.sound /\ <<log.address, log.topic>> \in Monitored
         /\ decode(network, log) \subseteq registry
         /\ \A m, n \in decode(network, log) : m = n
<1> DEFINE Of(address, topic, n) ==
             \/ address = "Drips" /\ n \in DRIPS_EVENTS /\ topic = n
             \/ address = "NftDriver" /\ n = "Transfer" /\ topic = n
             \/ address = "RepoDriver" /\ n = "OwnerUpdated" /\ topic = n
             \/ /\ address = "RepoDriver" /\ n = "OwnerUpdateRequested"
                /\ topic = IF network = "mainnet" THEN n ELSE "OwnerUpdateRequested with payer"
<1>1. \A n : n \in decode(network, log) <=> log.sound /\ Of(log.address, log.topic, n)
  <2>1. configs[network] = IF network = "mainnet" THEN mainnetConfig ELSE filecoinConfig
    BY Configured
  <2>2. \A n : (\E c \in mainnetConfig : /\ n \in c.events /\ log.sound
                                        /\ c.name = log.address /\ c.abi[n] = log.topic) <=>
               \/ n \in DRIPS_EVENTS /\ log.sound /\ "Drips" = log.address
                    /\ drips.abi[n] = log.topic
               \/ n \in NFT_DRIVER_EVENTS /\ log.sound /\ "NftDriver" = log.address
                    /\ nftDriver.abi[n] = log.topic
               \/ n \in REPO_DRIVER_EVENTS /\ log.sound /\ "RepoDriver" = log.address
                    /\ repoDriverLegacy.abi[n] = log.topic
    BY DEF mainnetConfig, drips, nftDriver, repoDriverLegacy, addressDriver,
           repoDeadlineDriver, repoSubAccountDriver, immutableSplitsDriver
  <2>3. \A n : (\E c \in filecoinConfig : /\ n \in c.events /\ log.sound
                                         /\ c.name = log.address /\ c.abi[n] = log.topic) <=>
               \/ n \in DRIPS_EVENTS /\ log.sound /\ "Drips" = log.address
                    /\ drips.abi[n] = log.topic
               \/ n \in NFT_DRIVER_EVENTS /\ log.sound /\ "NftDriver" = log.address
                    /\ nftDriver.abi[n] = log.topic
               \/ n \in REPO_DRIVER_EVENTS /\ log.sound /\ "RepoDriver" = log.address
                    /\ repoDriver.abi[n] = log.topic
    BY DEF filecoinConfig, drips, nftDriver, repoDriver, addressDriver,
           repoDeadlineDriver, repoSubAccountDriver, immutableSplitsDriver
  <2> TAKE n
  <2>4. /\ n \in NFT_DRIVER_EVENTS <=> n = "Transfer"
        /\ n \in REPO_DRIVER_EVENTS <=> n = "OwnerUpdated" \/ n = "OwnerUpdateRequested"
    BY DEF NFT_DRIVER_EVENTS, REPO_DRIVER_EVENTS
  <2>5. /\ n \in DRIPS_EVENTS => drips.abi[n] = n
        /\ n = "Transfer" => nftDriver.abi[n] = n
        /\ n = "OwnerUpdated" => repoDriver.abi[n] = n /\ repoDriverLegacy.abi[n] = n
        /\ n = "OwnerUpdateRequested" =>
             /\ repoDriver.abi[n] = "OwnerUpdateRequested with payer"
             /\ repoDriverLegacy.abi[n] = n
    BY Topics
  <2>6. n \in decode(network, log) <=>
          \E c \in configs[network] : /\ n \in c.events /\ log.sound
                                      /\ c.name = log.address /\ c.abi[n] = log.topic
    BY DecodeNames
  <2>7. CASE network = "mainnet"
    <3>1. n \in decode(network, log) <=>
            \/ n \in DRIPS_EVENTS /\ log.sound /\ "Drips" = log.address
                 /\ drips.abi[n] = log.topic
            \/ n \in NFT_DRIVER_EVENTS /\ log.sound /\ "NftDriver" = log.address
                 /\ nftDriver.abi[n] = log.topic
            \/ n \in REPO_DRIVER_EVENTS /\ log.sound /\ "RepoDriver" = log.address
                 /\ repoDriverLegacy.abi[n] = log.topic
      <4>1. configs[network] = mainnetConfig
        BY <2>1, <2>7
      <4> QED BY <2>2, <2>6, <4>1
    <3> QED BY <2>4, <2>5, <2>7, <3>1
  <2>8. CASE network # "mainnet"
    <3>1. n \in decode(network, log) <=>
            \/ n \in DRIPS_EVENTS /\ log.sound /\ "Drips" = log.address
                 /\ drips.abi[n] = log.topic
            \/ n \in NFT_DRIVER_EVENTS /\ log.sound /\ "NftDriver" = log.address
                 /\ nftDriver.abi[n] = log.topic
            \/ n \in REPO_DRIVER_EVENTS /\ log.sound /\ "RepoDriver" = log.address
                 /\ repoDriver.abi[n] = log.topic
      <4>1. configs[network] = filecoinConfig
        BY <2>1, <2>8
      <4> QED BY <2>3, <2>6, <4>1
    <3> QED BY <2>4, <2>5, <2>8, <3>1
  <2> QED BY <2>7, <2>8
<1>2. \A n, m : Of(log.address, log.topic, m) /\ Of(log.address, log.topic, n) => m = n
  OBVIOUS
<1>3. \A n : Of(log.address, log.topic, n) => n \in registry
  BY DEF registry, DRIPS_EVENTS
<1>4. (\E n : Of(log.address, log.topic, n)) <=> <<log.address, log.topic>> \in Monitored
  BY DEF Monitored, DRIPS_EVENTS
<1> HIDE DEF Of
<1> QED BY <1>1, <1>2, <1>3, <1>4

-----------------------------------------------------------------------------
(* Events of a block.                                                        *)

LEMMA EventsOfBlock ==
  ASSUME network \in Networks, NEW b \in Blocks, NEW block \in Block
  PROVE  /\ EventsIn(b, block) \subseteq Event
         /\ \A e \in EventsIn(b, block) : e.block = b /\ e.status = "pending"
         /\ \A e1, e2 \in EventsIn(b, block) : e1.index = e2.index => e1 = e2
         /\ {<<e.index, e.tx>> : e \in EventsIn(b, block)} = Told(network, block)
<1> DEFINE all == LogsIn(block)
           made(i, n) == [block |-> b, fork |-> block.fork, tx |-> all[i].tx, index |-> i,
                          name |-> n, status |-> "pending"]
<1>1. \A e : e \in EventsIn(b, block) <=>
        \E i \in DOMAIN all : \E n \in decode(network, all[i].log) : e = made(i, n)
  BY DEF EventsIn
<1>2. /\ all \in Seq([tx : ToSet(block.txs), log : Log])
      /\ ToSet(block.txs) \subseteq Txs /\ block.fork \in Forks
  BY LogsInType DEF Block, ToSet
<1> HIDE DEF all
<1>3. \A i \in DOMAIN all : i \in Nat /\ all[i].tx \in Txs
  <2> TAKE i \in DOMAIN all
  <2> DEFINE S == [tx : ToSet(block.txs), log : Log]
  <2>1. all \in Seq(S)
    BY <1>2
  <2> HIDE DEF S
  <2>2. i \in Nat /\ all[i] \in S
    BY <2>1
  <2>3. all[i].tx \in ToSet(block.txs)
    BY <2>2 DEF S
  <2> QED BY <1>2, <2>2, <2>3
<1>4. \A i, n : /\ made(i, n).block = b /\ made(i, n).status = "pending"
                /\ made(i, n).index = i /\ made(i, n).tx = all[i].tx
  OBVIOUS
<1>5. \A i \in DOMAIN all : \A n \in decode(network, all[i].log) : made(i, n) \in Event
  <2> TAKE i \in DOMAIN all
  <2> TAKE n \in decode(network, all[i].log)
  <2>1. n \in registry
    BY Decodes
  <2> QED BY <1>2, <1>3, <2>1 DEF Event
<1> HIDE DEF made
<1>6. \A i \in DOMAIN all : \A m, n \in decode(network, all[i].log) : m = n
  BY Decodes
<1>7. ASSUME NEW e1 \in EventsIn(b, block), NEW e2 \in EventsIn(b, block),
             e1.index = e2.index
      PROVE  e1 = e2
  <2>1. PICK i \in DOMAIN all : \E n \in decode(network, all[i].log) : e1 = made(i, n)
    BY <1>1
  <2>2. PICK j \in DOMAIN all : \E n \in decode(network, all[j].log) : e2 = made(j, n)
    BY <1>1
  <2>3. i = j
    BY <1>4, <1>7, <2>1, <2>2
  <2> QED BY <1>6, <2>1, <2>2, <2>3
<1>8. {<<e.index, e.tx>> : e \in EventsIn(b, block)} = Told(network, block)
  <2>2. \A x : x \in Told(network, block) <=>
          \E i \in DOMAIN all : x = <<i, all[i].tx>> /\ decode(network, all[i].log) # {}
    BY DEF Told, all
  <2>3. \A x : x \in {<<e.index, e.tx>> : e \in EventsIn(b, block)} <=>
          \E i \in DOMAIN all : \E n \in decode(network, all[i].log) : x = <<i, all[i].tx>>
    <3> TAKE x
    <3>1. ASSUME NEW e \in EventsIn(b, block), x = <<e.index, e.tx>>
          PROVE  \E i \in DOMAIN all : \E n \in decode(network, all[i].log) :
                   x = <<i, all[i].tx>>
      BY <1>1, <1>4, <3>1
    <3>2. ASSUME NEW i \in DOMAIN all, NEW n \in decode(network, all[i].log),
                 x = <<i, all[i].tx>>
          PROVE  \E e \in EventsIn(b, block) : x = <<e.index, e.tx>>
      <4>1. made(i, n) \in EventsIn(b, block)
        BY <1>1
      <4> QED BY <1>4, <3>2, <4>1
    <3> QED BY <3>1, <3>2
  <2> QED BY <2>2, <2>3
<1> QED BY <1>1, <1>4, <1>5, <1>7, <1>8

-----------------------------------------------------------------------------
(* The chain moves.                                                          *)

LEMMA BlockType ==
  ASSUME ChainInv, NEW b \in 1..Len(chain)
  PROVE  /\ b \in Blocks /\ chain[b] \in Block
         /\ chain[b].fork \in Nat /\ forks \in Nat
<1>1. chain[b] \in Block /\ Len(chain) \in Nat /\ forks \in Nat
  BY TablesAssumption DEF ChainInv, Forks
<1>2. chain[b].fork \in Nat
  BY <1>1, TablesAssumption DEF Block, Forks
<1>3. b \in Blocks
  BY <1>1, TablesAssumption DEF ChainInv, Blocks
<1> QED BY <1>1, <1>2, <1>3

LEMMA StoredType ==
  ASSUME StoredInv, NEW b \in Blocks
  PROVE  /\ b \in Nat \ {0} /\ cursor \in Nat /\ cursor <= MaxBlock
         /\ stored[b].logs \in Int /\ stored[b].logs <= forks
         /\ b > Len(chain) => stored[b].logs < forks
<1>1. b \in Nat \ {0} /\ cursor \in Nat /\ cursor <= MaxBlock
  BY TablesAssumption DEF Blocks, StoredInv
<1>2. stored[b].logs <= forks /\ (b > Len(chain) => stored[b].logs < forks)
  BY Zenon DEF StoredInv
<1>3. stored[b].logs \in Int
  BY DEF StoredInv
<1> QED BY <1>1, <1>2, <1>3

LEMMA LogsType ==
  ASSUME LogsInv, NEW i \in 1..Len(logs)
  PROVE  i \in Nat \ {0} /\ logs[i] \in Block /\ logs[i].fork \in Nat
<1>1. logs[i] \in Block /\ i \in Nat \ {0}
  BY DEF LogsInv
<1> QED BY <1>1, TablesAssumption DEF Block, Forks

(* A block is added, of transactions that no other has, under the number of  *)
(* the last fork.                                                            *)
LEMMA GrowEffect ==
  ASSUME ChainInv, Grow
  PROVE  /\ ChainInv'
         /\ Len(chain') = Len(chain) + 1 /\ forks' = forks
         /\ \A b \in 1..Len(chain) : chain'[b] = chain[b]
         /\ chain'[Len(chain) + 1].fork = forks
<1>0. PICK ts \in UNION {[1..n -> Txs \ Used] : n \in 0..BlockTxs} :
        chain' = Append(chain, [fork |-> forks, txs |-> ts])
  BY DEF Grow
<1>1. PICK n \in 0..BlockTxs : ts \in [1..n -> Txs \ Used]
  OBVIOUS
<1>2. /\ Len(chain) < MaxBlock /\ forks' = forks /\ forks \in Forks
      /\ chain \in Seq(Block) /\ Len(chain) \in Nat
  BY DEF Grow, ChainInv
<1> DEFINE new == [fork |-> forks, txs |-> ts]
<1>3. ts \in Seq(Txs)
  BY <1>1, TablesAssumption
<1>4. new \in Block
  BY <1>2, <1>3 DEF Block
<1>5. TxsOf(new) \cap Used = {}
  BY <1>1 DEF TxsOf, ToSet
<1>6. new.fork = forks
  OBVIOUS
<1> HIDE DEF new
<1>7. chain' = Append(chain, new)
  BY <1>0 DEF new
<1>8. /\ chain' \in Seq(Block) /\ Len(chain') = Len(chain) + 1
      /\ \A b \in 1..Len(chain) : chain'[b] = chain[b]
      /\ chain'[Len(chain) + 1] = new
  BY <1>2, <1>4, <1>7, AppendProperties
<1>9. \A b \in 1..Len(chain) : TxsOf(new) \cap TxsOf(chain[b]) = {}
  BY <1>2, <1>5 DEF Used, TxsOf
<1>10. \A b \in 1..Len(chain') : b \in 1..Len(chain) \/ b = Len(chain) + 1
  BY <1>2, <1>8
<1>11. forks \in Nat
  BY <1>2, TablesAssumption DEF Forks
<1>12. \A b \in 1..Len(chain') : chain'[b].fork <= forks'
  BY <1>2, <1>6, <1>8, <1>10, <1>11 DEF ChainInv
<1>13. \A b, c \in 1..Len(chain') : b # c => TxsOf(chain'[b]) \cap TxsOf(chain'[c]) = {}
  BY <1>8, <1>9, <1>10 DEF ChainInv
<1>14. Len(chain') <= MaxBlock
  BY <1>2, <1>8, TablesAssumption
<1>15. ChainInv'
  BY <1>2, <1>8, <1>12, <1>13, <1>14 DEF ChainInv, TxsOf
<1> QED BY <1>2, <1>6, <1>8, <1>15

(* Blocks are dropped, and what comes instead is of another fork.            *)
LEMMA ForkEffect ==
  ASSUME ChainInv, NEW r \in DOMAIN chain, Fork(r)
  PROVE  /\ ChainInv'
         /\ Len(chain') = r - 1 /\ forks' = forks + 1
         /\ \A b \in 1..(r - 1) : chain'[b] = chain[b]
<1>1. /\ chain' = SubSeq(chain, 1, r - 1) /\ forks' = forks + 1 /\ forks < MaxForks
      /\ chain \in Seq(Block) /\ Len(chain) \in Nat /\ r \in 1..Len(chain)
      /\ forks \in Nat
  BY TablesAssumption DEF Fork, ChainInv, Forks
<1>2. /\ chain' \in Seq(Block) /\ Len(chain') = r - 1
      /\ \A b \in 1..(r - 1) : chain'[b] = chain[b]
  BY <1>1, SubSeqProperties
<1>3. \A b \in 1..(r - 1) : b \in 1..Len(chain)
  BY <1>1
<1>4. \A b \in 1..(r - 1) : chain[b].fork <= forks + 1
  <2> TAKE b \in 1..(r - 1)
  <2>1. chain[b].fork \in Nat
    BY <1>3, BlockType
  <2>2. chain[b].fork <= forks
    BY <1>3 DEF ChainInv
  <2> QED BY <1>1, <2>1, <2>2
<1>5. forks' \in Forks /\ Len(chain') <= MaxBlock
  BY <1>1, <1>2, TablesAssumption DEF Forks, ChainInv
<1>6. ChainInv'
  BY <1>1, <1>2, <1>3, <1>4, <1>5 DEF ChainInv, TxsOf
<1> QED BY <1>1, <1>2, <1>6

(* Nothing that was dropped is taken for what came instead.                  *)
LEMMA ChainMoves ==
  ASSUME ChainInv, StoredInv, LogsInv, Grow \/ \E r \in DOMAIN chain : Fork(r)
  PROVE  /\ ChainInv' /\ StoredInv' /\ LogsInv'
         /\ \A b \in Blocks : Kept(b)' => Kept(b) /\ chain'[b] = chain[b]
<1>1. /\ ChainInv'
      /\ forks' \in Nat /\ forks \in Nat /\ forks <= forks'
      /\ Len(chain) \in Nat /\ Len(chain') \in Nat
      /\ \A b \in 1..Len(chain') :
           \/ b <= Len(chain) /\ chain'[b] = chain[b]
           \/ b > Len(chain) /\ chain'[b].fork = forks
      /\ Len(chain') < Len(chain) => forks' = forks + 1
  <2>0. Len(chain) \in Nat /\ forks \in Nat
    <3>1. forks \in Forks /\ Len(chain) \in Nat
      BY DEF ChainInv
    <3> QED BY <3>1, TablesAssumption DEF Forks
  <2>1. CASE Grow
    <3>1. \A b \in 1..(Len(chain) + 1) : b \in 1..Len(chain) \/ b = Len(chain) + 1
      BY <2>0
    <3> QED BY <2>0, <2>1, <3>1, GrowEffect
  <2>2. ASSUME NEW r \in DOMAIN chain, Fork(r)
        PROVE  /\ ChainInv'
               /\ Len(chain') = r - 1 /\ forks' = forks + 1
               /\ \A b \in 1..(r - 1) : chain'[b] = chain[b]
               /\ r \in 1..Len(chain)
    <3>1. r \in 1..Len(chain)
      BY DEF ChainInv
    <3> QED BY <2>2, <3>1, ForkEffect
  <2> QED BY <2>0, <2>1, <2>2
<1>2. UNCHANGED <<stored, cursor, logs>>
  BY DEF Grow, Fork, indexVars
<1>3. \A b \in Blocks : stored[b].logs \in Int
  BY DEF StoredInv
<1>4. \A b \in Blocks : b \in Nat \ {0}
  BY TablesAssumption DEF Blocks
<1>5. StoredInv'
  <2>1. ASSUME NEW b \in Blocks
        PROVE  /\ stored[b].logs <= forks'
               /\ b > Len(chain') => stored[b].logs < forks'
    <3>1. stored[b].logs <= forks /\ (b > Len(chain) => stored[b].logs < forks)
      BY StoredType
    <3> DEFINE s == stored[b].logs
    <3>2. s \in Int /\ b \in Nat
      BY <1>3, <1>4
    <3> HIDE DEF s
    <3>3. s <= forks /\ (b > Len(chain) => s < forks)
      BY <3>1 DEF s
    <3>4. s <= forks' /\ (b > Len(chain') => s < forks')
      BY <1>1, <3>2, <3>3
    <3> QED BY <3>4 DEF s
  <2> QED BY <1>2, <2>1 DEF StoredInv
<1>6. ASSUME NEW b \in Blocks, Kept(b)'
      PROVE  Kept(b) /\ chain'[b] = chain[b]
  <2>1. b \in 1..Len(chain') /\ stored[b].logs = chain'[b].fork
    BY <1>1, <1>2, <1>4, <1>6 DEF Kept
  <2>2. b > Len(chain) => stored[b].logs < forks
    BY StoredType
  <2> QED BY <1>1, <1>3, <1>4, <2>1, <2>2 DEF Kept
<1>7. LogsInv'
  <2>0. /\ logs \in Seq(Block) /\ Len(logs) \in Nat /\ cursor \in Nat
        /\ \A i \in 1..Len(logs) : logs[i].fork \in Nat
    <3>1. logs \in Seq(Block) /\ Len(logs) \in Nat
      BY DEF LogsInv
    <3>2. cursor \in Nat
      BY DEF StoredInv
    <3> QED BY <3>1, <3>2, LogsType
  <2>1. ASSUME NEW i \in 1..Len(logs)
        PROVE  /\ logs[i].fork <= forks'
               /\ cursor + i > Len(chain') => logs[i].fork < forks'
               /\ cursor + i <= Len(chain') /\ logs[i].fork = chain'[cursor + i].fork =>
                    logs[i] = chain'[cursor + i]
    <3>1. /\ logs[i].fork <= forks
          /\ cursor + i > Len(chain) => logs[i].fork < forks
          /\ cursor + i <= Len(chain) /\ logs[i].fork = chain[cursor + i].fork =>
               logs[i] = chain[cursor + i]
      BY DEF LogsInv
    <3>2. cursor + i <= Len(chain') => cursor + i \in 1..Len(chain')
      BY <1>1, <2>0
    <3>3. logs[i].fork <= forks' /\ (cursor + i > Len(chain') => logs[i].fork < forks')
      BY <1>1, <2>0, <3>1
    <3>4. ASSUME cursor + i <= Len(chain'), logs[i].fork = chain'[cursor + i].fork
          PROVE  logs[i] = chain'[cursor + i]
      BY <1>1, <2>0, <3>1, <3>2, <3>4
    <3> QED BY <3>3, <3>4
  <2>2. ASSUME NEW i \in 1..Len(logs), NEW b \in 1..Len(chain')
        PROVE  /\ b <= cursor /\ Kept(b)' => TxsOf(logs[i]) \cap TxsOf(chain'[b]) = {}
               /\ b > cursor /\ b < cursor + i /\ logs[b - cursor].fork = chain'[b].fork =>
                    TxsOf(logs[i]) \cap TxsOf(chain'[b]) = {}
    <3>1. b \in 1..Len(chain) =>
            /\ b <= cursor /\ Kept(b) => TxsOf(logs[i]) \cap TxsOf(chain[b]) = {}
            /\ b > cursor /\ b < cursor + i /\ logs[b - cursor].fork = chain[b].fork =>
                 TxsOf(logs[i]) \cap TxsOf(chain[b]) = {}
      BY DEF LogsInv
    <3>2. CASE b <= Len(chain) /\ chain'[b] = chain[b]
      <4>1. b \in 1..Len(chain) /\ b \in Blocks
        BY <1>1, <3>2, BlockType
      <4> QED BY <1>6, <3>1, <3>2, <4>1
    <3>3. CASE b > Len(chain) /\ chain'[b].fork = forks
      <4>1. b <= cursor => ~Kept(b)'
        <5> SUFFICES ASSUME b <= cursor, Kept(b)' PROVE FALSE
          OBVIOUS
        <5>1. b \in Blocks
          BY <1>1, <2>0, TablesAssumption DEF Blocks, ChainInv
        <5> QED BY <1>1, <1>6, <3>3, <5>1 DEF Kept
      <4>2. b > cursor /\ b < cursor + i => logs[b - cursor].fork < forks
        <5> SUFFICES ASSUME b > cursor, b < cursor + i PROVE logs[b - cursor].fork < forks
          OBVIOUS
        <5>1. b - cursor \in 1..Len(logs) /\ cursor + (b - cursor) = b
          BY <1>1, <2>0
        <5> QED BY <3>3, <5>1 DEF LogsInv
      <4>3. b > cursor /\ b < cursor + i => logs[b - cursor].fork \in Nat
        BY <2>0
      <4> QED BY <1>1, <3>3, <4>1, <4>2, <4>3
    <3> QED BY <1>1, <3>2, <3>3
  <2> QED BY <1>2, <2>0, <2>1, <2>2 DEF LogsInv, TxsOf
<1> QED BY <1>1, <1>5, <1>6, <1>7

(* What is read is part of the chain.                                        *)
LEMMA ReadLogsEffect ==
  ASSUME ChainInv, StoredInv, ReadLogs
  PROVE  LogsInv'
<1> DEFINE n == FetchTo - cursor
<1>1. /\ chain \in Seq(Block) /\ Len(chain) \in Nat /\ cursor \in Nat
      /\ cursor < Len(chain) /\ logs' = SubSeq(chain, cursor + 1, FetchTo)
      /\ UNCHANGED <<chain, forks, cursor, stored>>
  BY DEF ReadLogs, chainVars, ChainInv, StoredInv
<1>2. /\ FetchTo \in Nat /\ cursor < FetchTo /\ FetchTo <= Len(chain)
  BY <1>1, TablesAssumption DEF FetchTo
<1>3. /\ logs' \in Seq(Block) /\ Len(logs') = n
      /\ \A i \in 1..n : logs'[i] = chain[cursor + i]
  <2>1. \A i \in (cursor + 1)..FetchTo : chain[i] \in Block
    BY <1>1, <1>2
  <2>2. /\ cursor + 1 \in 1..(Len(chain) + 1) /\ FetchTo \in cursor..Len(chain)
        /\ FetchTo - (cursor + 1) + 1 = n /\ \A i \in 1..n : (cursor + 1) + i - 1 = cursor + i
    BY <1>1, <1>2
  <2> HIDE DEF n
  <2> QED BY <1>1, <2>2, SubSeqProperties
<1>4. \A i \in 1..n : cursor + i \in 1..Len(chain)
  BY <1>1, <1>2
<1> HIDE DEF n
<1>5. ASSUME NEW i \in 1..n
      PROVE  /\ logs'[i].fork <= forks /\ cursor + i <= Len(chain)
             /\ \A b \in 1..Len(chain) :
                  b # cursor + i => TxsOf(logs'[i]) \cap TxsOf(chain[b]) = {}
  <2> DEFINE c == cursor + i
  <2>1. c \in 1..Len(chain) /\ logs'[i] = chain[c]
    BY <1>3, <1>4
  <2> HIDE DEF c
  <2>2. chain[c].fork <= forks /\ c <= Len(chain)
    BY <1>1, <2>1 DEF ChainInv
  <2>3. \A b \in 1..Len(chain) : b # c => TxsOf(chain[c]) \cap TxsOf(chain[b]) = {}
    BY <2>1 DEF ChainInv
  <2> QED BY <2>1, <2>2, <2>3 DEF c
<1>6. \A i \in 1..n : \A b \in 1..Len(chain) :
        b <= cursor \/ b < cursor + i => b # cursor + i
  BY <1>1, <1>2 DEF n
<1>7. \A i \in 1..n : ~(cursor + i > Len(chain))
  BY <1>1, <1>4
<1>8. /\ \A i \in 1..Len(logs') :
           /\ logs'[i].fork <= forks /\ ~(cursor + i > Len(chain))
           /\ logs'[i] = chain[cursor + i]
           /\ \A b \in 1..Len(chain) :
                b <= cursor \/ b < cursor + i => TxsOf(logs'[i]) \cap TxsOf(chain[b]) = {}
  BY <1>3, <1>5, <1>6, <1>7
<1> QED BY <1>1, <1>3, <1>8 DEF LogsInv, TxsOf

-----------------------------------------------------------------------------
(* What handlers write.                                                      *)

LEMMA HandledIs ==
  ASSUME NEW e, e.name \in registry
  PROVE  /\ e.name = "Given" => Handled(e) = givenHandler(e)
         /\ e.name = "Split" => Handled(e) = splitHandler(e)
         /\ e.name = "StreamsSet" => Handled(e) = streamsSetHandler(e)
         /\ e.name = "SqueezedStreams" => Handled(e) = squeezedStreamsHandler(e)
         /\ e.name = "StreamReceiverSeen" => Handled(e) = streamReceiverSeenHandler(e)
         /\ e.name = "SplitsSet" => Handled(e) = splitsSetHandler(e)
         /\ e.name = "AccountMetadataEmitted" => Handled(e) = accountMetadataEmittedHandler(e)
         /\ e.name = "Transfer" => Handled(e) = transferHandler(e)
         /\ e.name = "OwnerUpdated" => Handled(e) = ownerUpdatedHandler(e)
         /\ e.name = "OwnerUpdateRequested" => Handled(e) = ownerUpdateRequestedHandler(e)
  BY DEF Handled

(* One row at most, of the transaction, the index and the block of the       *)
(* event, whatever the status of the event is.                               *)
LEMMA HandledRow ==
  ASSUME NEW e \in Event
  PROVE  /\ \A r \in Handled(e) :
              r \in Row /\ r.tx = e.tx /\ r.index = e.index /\ r.block = e.block
         /\ \A s : Handled([e EXCEPT !.status = s]) = Handled(e)
<1>1. /\ e.name \in registry /\ e.tx \in Txs /\ e.index \in Nat /\ e.block \in Blocks
  BY DEF Event
<1>2. \A table \in EventTableNames : \A r \in RowIn(table, e) :
        r \in Row /\ r.tx = e.tx /\ r.index = e.index /\ r.block = e.block
  BY <1>1 DEF RowIn, Row
<1>3. /\ "given_events" \in EventTableNames /\ "split_events" \in EventTableNames
      /\ "streams_set_events" \in EventTableNames
      /\ "squeezed_streams_events" \in EventTableNames
      /\ "stream_receiver_seen_events" \in EventTableNames
      /\ "splits_set_events" \in EventTableNames
      /\ "account_metadata_emitted_events" \in EventTableNames
      /\ "transfer_events" \in EventTableNames
  BY DEF EventTableNames
<1>4. \A r \in Handled(e) :
        r \in Row /\ r.tx = e.tx /\ r.index = e.index /\ r.block = e.block
  BY <1>1, <1>2, <1>3, HandledIs DEF givenHandler, splitHandler, streamsSetHandler,
     squeezedStreamsHandler, streamReceiverSeenHandler, splitsSetHandler,
     accountMetadataEmittedHandler, transferHandler, ownerUpdatedHandler,
     ownerUpdateRequestedHandler, registry
<1>5. ASSUME NEW s
      PROVE  Handled([e EXCEPT !.status = s]) = Handled(e)
  <2> DEFINE f == [e EXCEPT !.status = s]
  <2>1. f.name = e.name /\ f.tx = e.tx /\ f.index = e.index /\ f.block = e.block
    BY DEF Event
  <2> HIDE DEF f
  <2>2. \A table : RowIn(table, f) = RowIn(table, e)
    BY <2>1 DEF RowIn
  <2>3. Handled(f) = Handled(e)
    BY <1>1, <2>1, <2>2, HandledIs DEF givenHandler, splitHandler, streamsSetHandler,
       squeezedStreamsHandler, streamReceiverSeenHandler, splitsSetHandler,
       accountMetadataEmittedHandler, transferHandler, ownerUpdatedHandler,
       ownerUpdateRequestedHandler, registry
  <2> QED BY <2>3 DEF f
<1> QED BY <1>4, <1>5

-----------------------------------------------------------------------------
(* Fetching.                                                                 *)

(* Logs of a transaction are told of its block.                              *)
LEMMA ToldTx ==
  ASSUME NEW net, NEW block \in Block, NEW i, NEW tx, <<i, tx>> \in Told(net, block)
  PROVE  tx \in TxsOf(block)
<1> DEFINE all == LogsIn(block)
           S == [tx : ToSet(block.txs), log : Log]
<1>1. PICK j \in DOMAIN all : <<i, tx>> = <<j, all[j].tx>>
  BY DEF Told
<1>2. all \in Seq(S)
  BY LogsInType
<1> HIDE DEF all, S
<1>3. all[j] \in S
  BY <1>2
<1>4. all[j].tx \in ToSet(block.txs)
  BY <1>3 DEF S
<1> QED BY <1>1, <1>4 DEF TxsOf

LEMMA TxOfEvent ==
  ASSUME ChainInv, StoredInv, EventsInv, NEW e \in events, Kept(e.block)
  PROVE  e.block \in 1..cursor /\ e.tx \in TxsOf(chain[e.block])
<1>1. e.block \in Blocks /\ e.block <= cursor
  BY DEF EventsInv, Event
<1>2. e.block \in 1..cursor /\ e.block \in 1..Len(chain)
  BY <1>1, TablesAssumption DEF Blocks, StoredInv, Kept, ChainInv
<1>3. chain[e.block] \in Block
  BY <1>2, BlockType
<1>4. EventsAt(e.block) = Told(network, chain[e.block])
  BY <1>2 DEF EventsInv
<1>5. <<e.index, e.tx>> \in EventsAt(e.block)
  BY DEF EventsAt
<1> QED BY <1>2, <1>3, <1>4, <1>5, ToldTx

(* While blocks are kept, no two events are of the same transaction at the   *)
(* same index, the events of later blocks included.                          *)
LEMMA Unmixed ==
  ASSUME ChainInv, StoredInv, EventsInv, NEW e \in events, NEW d \in events,
         \A b \in 1..(e.block) : Kept(b), d.tx = e.tx, d.index = e.index
  PROVE  d = e
<1>1. /\ e.block \in Blocks /\ e.block <= cursor /\ d.block \in Blocks /\ d.block <= cursor
      /\ cursor \in Nat
  BY DEF EventsInv, Event, StoredInv
<1>2. /\ e.block \in 1..(e.block) /\ e.block \in 1..cursor /\ d.block \in 1..cursor
      /\ d.block \in Nat /\ e.block \in Nat
      /\ d.block < e.block => d.block \in 1..(e.block)
  BY <1>1, TablesAssumption DEF Blocks
<1>3. Kept(e.block) /\ e.tx \in TxsOf(chain[e.block])
  BY <1>2, TxOfEvent
<1>4. ~(d.block > e.block)
  BY <1>2, <1>3 DEF EventsInv
<1>5. ~(e.block > d.block)
  <2> SUFFICES ASSUME e.block > d.block PROVE FALSE
    OBVIOUS
  <2>1. Kept(d.block)
    BY <1>2
  <2>2. d.tx \in TxsOf(chain[d.block])
    BY <2>1, TxOfEvent
  <2>3. e.tx \notin TxsOf(chain[d.block])
    BY <1>2, <2>1 DEF EventsInv
  <2> QED BY <2>2, <2>3
<1>6. d.block = e.block
  BY <1>2, <1>4, <1>5
<1> QED BY <1>6 DEF EventsInv

(* What is stored of a fetch.                                                *)
LEMMA StoreFetchEffect ==
  ASSUME network \in Networks, ChainInv, StoredInv, LogsInv, StoreFetch
  PROVE  /\ StoredInv' /\ LogsInv'
         /\ cursor' = cursor + Len(logs) /\ cursor' <= Len(chain) /\ Len(logs) \in Nat
         /\ \A b \in 1..cursor : stored'[b] = stored[b]
         /\ \A i \in 1..Len(logs) : stored'[cursor + i].logs = logs[i].fork
         /\ \A e : e \in events' <=>
              e \in events \/ \E i \in 1..Len(logs) : e \in EventsIn(cursor + i, logs[i])
         /\ \A i \in 1..Len(logs) :
              cursor + i \in Blocks /\ cursor + i \in 1..Len(chain) /\ logs[i] \in Block
         /\ UNCHANGED <<network, chain, tables, open, forks>>
<1>1. /\ logs \in Seq(Block) /\ DOMAIN logs = 1..Len(logs) /\ Len(logs) \in Nat
      /\ cursor \in Nat /\ Len(chain) \in Nat /\ Len(chain) <= MaxBlock
      /\ cursor' = cursor + Len(logs) /\ cursor' <= Len(chain) /\ logs' = <<>>
      /\ UNCHANGED <<network, chain, tables, open, forks>>
  BY DEF LogsInv, StoredInv, ChainInv, StoreFetch, chainVars, NothingRead
<1>2. \A i \in 1..Len(logs) :
        cursor + i \in Blocks /\ cursor + i \in 1..Len(chain) /\ logs[i] \in Block
  <2> TAKE i \in 1..Len(logs)
  <2>1. cursor + i \in 1..Len(chain)
    BY <1>1
  <2>2. logs[i] \in Block
    BY <1>1
  <2> QED BY <2>1, <2>2, BlockType
<1>3. stored' = [b \in Blocks |->
        IF b \in (cursor + 1)..(cursor + Len(logs))
          THEN [logs |-> logs[b - cursor].fork, block |-> chain[b].fork] ELSE stored[b]]
  BY DEF StoreFetch
<1>4. \A b \in 1..cursor : stored'[b] = stored[b]
  <2> TAKE b \in 1..cursor
  <2>1. b \in Blocks /\ b \notin (cursor + 1)..(cursor + Len(logs))
    BY <1>1, TablesAssumption DEF Blocks
  <2> QED BY <1>3, <2>1
<1>5. \A i \in 1..Len(logs) : stored'[cursor + i].logs = logs[i].fork
  <2> TAKE i \in 1..Len(logs)
  <2>1. /\ cursor + i \in Blocks /\ cursor + i \in (cursor + 1)..(cursor + Len(logs))
        /\ (cursor + i) - cursor = i
    BY <1>1, <1>2
  <2> QED BY <1>3, <2>1
<1>6. \A e : e \in events' <=>
        e \in events \/ \E i \in 1..Len(logs) : e \in EventsIn(cursor + i, logs[i])
  BY <1>1 DEF StoreFetch
<1>7. StoredInv'
  <2>1. stored' \in [Blocks -> [logs : Int, block : Int]]
    <3>1. ASSUME NEW b \in Blocks, b \in (cursor + 1)..(cursor + Len(logs))
          PROVE  logs[b - cursor].fork \in Int /\ chain[b].fork \in Int
      <4>1. b - cursor \in 1..Len(logs) /\ b \in 1..Len(chain)
        BY <1>1, <3>1
      <4>2. logs[b - cursor].fork \in Nat /\ chain[b].fork \in Nat
        BY <4>1, LogsType, BlockType
      <4> QED BY <4>2
    <3>2. stored \in [Blocks -> [logs : Int, block : Int]]
      BY DEF StoredInv
    <3> QED BY <1>3, <3>1, <3>2
  <2>2. ASSUME NEW b \in Blocks
        PROVE  stored'[b].logs <= forks /\ (b > Len(chain) => stored'[b].logs < forks)
    <3>1. CASE b \in (cursor + 1)..(cursor + Len(logs))
      <4>1. b - cursor \in 1..Len(logs) /\ b <= Len(chain) /\ b \in Nat
        BY <1>1, <3>1
      <4>2. stored'[b].logs = logs[b - cursor].fork
        BY <1>3, <3>1
      <4>3. logs[b - cursor].fork <= forks
        BY <4>1 DEF LogsInv
      <4> QED BY <1>1, <4>1, <4>2, <4>3
    <3>2. CASE b \notin (cursor + 1)..(cursor + Len(logs))
      <4>1. stored'[b] = stored[b]
        BY <1>3, <3>2
      <4> QED BY <4>1, StoredType
    <3> QED BY <3>1, <3>2
  <2>3. cursor' \in 0..MaxBlock
    BY <1>1, TablesAssumption
  <2> QED BY <1>1, <2>1, <2>2, <2>3 DEF StoredInv
<1>8. LogsInv'
  BY <1>1 DEF LogsInv
<1> QED BY <1>1, <1>2, <1>4, <1>5, <1>6, <1>7, <1>8

LEMMA StoreFetchEvents ==
  ASSUME network \in Networks, ChainInv, StoredInv, LogsInv, EventsInv, RowsInv, StoreFetch
  PROVE  EventsInv' /\ RowsInv'
<1> DEFINE New(i) == EventsIn(cursor + i, logs[i])
<1>1. /\ cursor' = cursor + Len(logs) /\ cursor' <= Len(chain) /\ Len(logs) \in Nat
      /\ cursor \in Nat /\ cursor' \in Nat /\ Len(chain) \in Nat
      /\ UNCHANGED <<network, chain, tables, open>>
  <2>1. cursor \in Nat /\ Len(chain) \in Nat
    BY DEF StoredInv, ChainInv
  <2>2. /\ cursor' = cursor + Len(logs) /\ cursor' <= Len(chain) /\ Len(logs) \in Nat
        /\ UNCHANGED <<network, chain, tables, open>>
    BY StoreFetchEffect
  <2> QED BY <2>1, <2>2
<1>2. \A e : e \in events' <=> e \in events \/ \E i \in 1..Len(logs) : e \in New(i)
  BY StoreFetchEffect
<1>3. ASSUME NEW i \in 1..Len(logs)
      PROVE  /\ New(i) \subseteq Event
             /\ \A e \in New(i) : e.block = cursor + i /\ e.status = "pending"
             /\ \A e1, e2 \in New(i) : e1.index = e2.index => e1 = e2
             /\ {<<e.index, e.tx>> : e \in New(i)} = Told(network, logs[i])
             /\ \A e \in New(i) : e.tx \in TxsOf(logs[i])
  <2>1. cursor + i \in Blocks /\ logs[i] \in Block
    BY StoreFetchEffect
  <2>2. {<<e.index, e.tx>> : e \in New(i)} = Told(network, logs[i])
    BY <2>1, EventsOfBlock
  <2>3. ASSUME NEW e \in New(i)
        PROVE  e.tx \in TxsOf(logs[i])
    <3>1. <<e.index, e.tx>> \in Told(network, logs[i])
      BY <2>2
    <3> QED BY <2>1, <3>1, ToldTx
  <2> QED BY <2>1, <2>2, <2>3, EventsOfBlock
<1> HIDE DEF New
<1>4. \A i \in 1..Len(logs) : i \in Nat \ {0} /\ cursor + i \in Nat /\ cursor + i <= cursor'
  BY <1>1
<1>5. \A e \in events : e \in Event /\ e.block \in Nat /\ e.block <= cursor
  BY TablesAssumption DEF EventsInv, Event, Blocks
<1>6. \A e \in events' : e \in Event /\ e.block <= cursor'
  BY <1>1, <1>2, <1>3, <1>4, <1>5
<1>7. ASSUME NEW e \in events', NEW d \in events', e.block = d.block, e.index = d.index
      PROVE  e = d
  <2>1. CASE e \in events /\ d \in events
    BY <1>7, <2>1 DEF EventsInv
  <2>2. ASSUME NEW i \in 1..Len(logs), e \in New(i), NEW j \in 1..Len(logs), d \in New(j)
        PROVE  e = d
    <3>1. cursor + i = cursor + j
      BY <1>3, <1>7, <2>2
    <3>2. i = j
      BY <1>1, <1>4, <3>1
    <3> QED BY <1>3, <1>7, <2>2, <3>2
  <2>3. ASSUME NEW x \in events, NEW i \in 1..Len(logs), NEW y \in New(i)
        PROVE  x.block # y.block
    BY <1>1, <1>3, <1>4, <1>5
  <2> QED BY <1>2, <1>7, <2>1, <2>2, <2>3
<1>8. open' \subseteq Pending'
  <2>1. \A e \in open : e \in events /\ e.status = "pending"
    BY DEF EventsInv, Pending
  <2> QED BY <1>1, <1>2, <2>1 DEF Pending
<1>9. \A b \in 1..cursor : Kept(b)' => Kept(b)
  BY <1>1, StoreFetchEffect DEF Kept
<1>10. ASSUME NEW b \in 1..cursor, Kept(b)'
       PROVE  /\ EventsAt(b)' = Told(network, chain[b])
              /\ \A e \in events' : e.block > b => e.tx \notin TxsOf(chain[b])
  <2>1. /\ EventsAt(b) = Told(network, chain[b])
        /\ \A e \in events : e.block > b => e.tx \notin TxsOf(chain[b])
    BY <1>9, <1>10 DEF EventsInv
  <2>2. \A i \in 1..Len(logs) : \A e \in New(i) : e.block # b
    BY <1>1, <1>3, <1>4
  <2>3. {d \in events' : d.block = b} = {d \in events : d.block = b}
    BY <1>2, <2>2
  <2>4. EventsAt(b)' = EventsAt(b)
    BY <2>3 DEF EventsAt
  <2>5. ASSUME NEW i \in 1..Len(logs), NEW e \in New(i)
        PROVE  e.tx \notin TxsOf(chain[b])
    <3>1. b \in 1..Len(chain) /\ b <= cursor /\ Kept(b)
      BY <1>1, <1>9, <1>10
    <3>2. TxsOf(logs[i]) \cap TxsOf(chain[b]) = {}
      BY <3>1 DEF LogsInv
    <3> QED BY <1>3, <3>2
  <2> QED BY <1>2, <2>1, <2>4, <2>5
<1>11. ASSUME NEW b \in 1..cursor', b > cursor, Kept(b)'
       PROVE  /\ EventsAt(b)' = Told(network, chain[b])
              /\ \A e \in events' : e.block > b => e.tx \notin TxsOf(chain[b])
  <2> DEFINE i == b - cursor
  <2>1. i \in 1..Len(logs) /\ b = cursor + i /\ b \in 1..Len(chain) /\ b \in Nat
    BY <1>1, <1>11
  <2> HIDE DEF i
  <2>2. logs[i].fork = chain[b].fork
    <3>1. stored'[cursor + i].logs = logs[i].fork
      BY <2>1, StoreFetchEffect
    <3> QED BY <1>1, <1>11, <2>1, <3>1 DEF Kept
  <2>3. logs[i] = chain[b]
    <3>1. cursor + i <= Len(chain)
      BY <1>1, <2>1
    <3> QED BY <2>1, <2>2, <3>1 DEF LogsInv
  <2>4. \A e : e \in events' /\ e.block = b <=> e \in New(i)
    <3>1. \A j \in 1..Len(logs) : cursor + j = b => j = i
      BY <1>1, <1>4, <2>1
    <3>2. \A e \in events : e.block # b
      BY <1>1, <1>5, <1>11, <2>1
    <3> QED BY <1>2, <1>3, <2>1, <3>1, <3>2
  <2>5. {d \in events' : d.block = b} = New(i)
    BY <2>4
  <2>6. EventsAt(b)' = {<<e.index, e.tx>> : e \in New(i)}
    BY <2>5 DEF EventsAt
  <2>7. EventsAt(b)' = Told(network, chain[b])
    BY <1>3, <2>1, <2>3, <2>6
  <2>8. \A e \in events : ~(e.block > b)
    BY <1>1, <1>5, <1>11, <2>1
  <2>9. ASSUME NEW j \in 1..Len(logs), NEW e \in New(j), e.block > b
        PROVE  e.tx \notin TxsOf(chain[b])
    <3>1. b > cursor /\ b < cursor + j
      BY <1>1, <1>3, <1>4, <1>11, <2>1, <2>9
    <3>2. logs[b - cursor].fork = chain[b].fork
      BY <2>2 DEF i
    <3>3. TxsOf(logs[j]) \cap TxsOf(chain[b]) = {}
      BY <2>1, <3>1, <3>2 DEF LogsInv
    <3> QED BY <1>3, <3>3
  <2> QED BY <1>2, <2>7, <2>8, <2>9
<1>12. \A b \in 1..cursor' : b \in 1..cursor \/ b > cursor
  BY <1>1
<1>13. ASSUME NEW b \in 1..cursor', Kept(b)'
       PROVE  /\ EventsAt(b)' = Told(network, chain[b])'
              /\ \A e \in events' : e.block > b => e.tx \notin TxsOf(chain[b])'
  BY <1>1, <1>10, <1>11, <1>12, <1>13 DEF Told, TxsOf
<1>14. EventsInv'
  BY <1>6, <1>7, <1>8, <1>13 DEF EventsInv, TxsOf
<1>15. ASSUME NEW k \in 0..cursor', \A b \in 1..k : Kept(b)'
       PROVE  UpTo(k)' = Rows(Done(k)')
  <2> DEFINE m == IF k <= cursor THEN k ELSE cursor
  <2>1. m \in 0..cursor /\ k \in Nat /\ m <= k /\ (m = k \/ (m = cursor /\ cursor <= k))
    BY <1>1
  <2> HIDE DEF m
  <2>2. \A b \in 1..m : Kept(b)
    <3>1. \A b \in 1..m : b \in 1..k /\ b \in 1..cursor
      BY <1>1, <2>1
    <3> QED BY <1>9, <1>15, <3>1
  <2>3. UpTo(m) = Rows(Done(m))
    BY <2>1, <2>2 DEF RowsInv
  <2>4. \A t \in tables : t.block \in Nat /\ t.block <= cursor
    BY TablesAssumption DEF RowsInv, Row, Blocks
  <2>5. \A n \in Nat : n <= cursor => (n <= k <=> n <= m)
    BY <1>1, <2>1
  <2>6. UpTo(k)' = UpTo(m)
    BY <1>1, <2>4, <2>5 DEF UpTo
  <2>7. Done(k)' = Done(m)
    BY <1>2, <1>3, <1>5, <2>5 DEF Done
  <2> QED BY <2>3, <2>6, <2>7
<1>16. RowsInv'
  <2>1. \A t \in tables' : t.block <= cursor'
    <3>1. \A t \in tables : t.block \in Nat /\ t.block <= cursor
      BY TablesAssumption DEF RowsInv, Row, Blocks
    <3> QED BY <1>1, <3>1
  <2> QED BY <1>1, <1>15, <2>1 DEF RowsInv
<1> QED BY <1>14, <1>16

-----------------------------------------------------------------------------
(* Transactions.                                                             *)

(* Events change their status and nothing else.                              *)
LEMMA SettleEffect ==
  ASSUME EventsInv, NEW status \in {"processed", "failed"}, Settle(status),
         UNCHANGED <<network, chain, cursor, stored>>, open' = {}
  PROVE  /\ EventsInv'
         /\ \A e : e \in events' <=> \/ e \in events /\ e \notin open
                                     \/ \E o \in open : e = [o EXCEPT !.status = status]
         /\ \A o \in open : /\ o \in events /\ o \in Event /\ o.status = "pending"
                            /\ [o EXCEPT !.status = status].status = status
                            /\ [o EXCEPT !.status = status].block = o.block
<1> DEFINE done(o) == [o EXCEPT !.status = status]
<1>1. \A e : e \in events' <=>
        (e \in events /\ e \notin open) \/ \E o \in open : e = done(o)
  BY DEF Settle
<1>2. \A o \in open : o \in events /\ o \in Event /\ o.status = "pending"
  BY DEF EventsInv, Pending
<1>3. ASSUME NEW o \in Event
      PROVE  /\ done(o) \in Event /\ done(o).status = status
             /\ done(o).block = o.block /\ done(o).index = o.index /\ done(o).tx = o.tx
  BY DEF Event
<1> HIDE DEF done
<1>4. \A e \in events' : \E o \in events : /\ e = o \/ e = done(o)
                                           /\ e = o <=> o \notin open
  <2> TAKE e \in events'
  <2>1. CASE e \in events /\ e \notin open
    BY <2>1
  <2>2. ASSUME NEW o \in open, e = done(o)
        PROVE  \E d \in events : (e = d \/ e = done(d)) /\ (e = d <=> d \notin open)
    <3>1. e.status = status /\ o.status = "pending" /\ o \in events
      BY <1>2, <1>3, <2>2
    <3>2. e # o
      BY <3>1
    <3> QED BY <2>2, <3>1, <3>2
  <2> QED BY <1>1, <2>1, <2>2
<1>5. \A e \in events' : \E o \in events :
        /\ e \in Event /\ e.block = o.block /\ e.index = o.index /\ e.tx = o.tx
        /\ e = IF o \in open THEN done(o) ELSE o
  <2> TAKE e \in events'
  <2>1. PICK o \in events : /\ e = o \/ e = done(o)
                            /\ e = o <=> o \notin open
    BY <1>4
  <2>2. o \in Event
    BY DEF EventsInv
  <2> QED BY <1>3, <2>1, <2>2
<1>6. \A o \in events : \E e \in events' : e.block = o.block /\ e.index = o.index /\ e.tx = o.tx
  <2> TAKE o \in events
  <2>1. o \in Event
    BY DEF EventsInv
  <2> QED BY <1>1, <1>3, <2>1
<1>7. ASSUME NEW e1 \in events', NEW e2 \in events', e1.block = e2.block, e1.index = e2.index
      PROVE  e1 = e2
  <2>1. PICK o1 \in events : /\ e1.block = o1.block /\ e1.index = o1.index
                             /\ e1 = IF o1 \in open THEN done(o1) ELSE o1
    BY <1>5
  <2>2. PICK o2 \in events : /\ e2.block = o2.block /\ e2.index = o2.index
                             /\ e2 = IF o2 \in open THEN done(o2) ELSE o2
    BY <1>5
  <2>3. o1 = o2
    BY <1>7, <2>1, <2>2 DEF EventsInv
  <2> QED BY <2>1, <2>2, <2>3
<1>8. \A e \in events' : e \in Event /\ e.block <= cursor
  BY <1>5 DEF EventsInv
<1>9. \A b : EventsAt(b)' = EventsAt(b)
  <2> TAKE b
  <2>1. \A x : x \in EventsAt(b) <=> \E e \in events : e.block = b /\ x = <<e.index, e.tx>>
    BY DEF EventsAt
  <2>2. \A x : x \in EventsAt(b)' <=> \E e \in events' : e.block = b /\ x = <<e.index, e.tx>>
    BY DEF EventsAt
  <2>3. \A x : x \in EventsAt(b) => x \in EventsAt(b)'
    BY <1>6, <2>1, <2>2
  <2>4. \A x : x \in EventsAt(b)' => x \in EventsAt(b)
    BY <1>5, <2>1, <2>2
  <2> QED BY <2>3, <2>4 DEF EventsAt
<1>10. \A b \in 1..cursor : Kept(b)' =>
         /\ EventsAt(b)' = Told(network, chain[b])
         /\ \A e \in events' : e.block > b => e.tx \notin TxsOf(chain[b])
  <2> TAKE b \in 1..cursor
  <2> HAVE Kept(b)'
  <2>1. Kept(b)
    BY DEF Kept
  <2>2. /\ EventsAt(b) = Told(network, chain[b])
        /\ \A e \in events : e.block > b => e.tx \notin TxsOf(chain[b])
    BY <2>1 DEF EventsInv
  <2> QED BY <1>5, <1>9, <2>2
<1>11. EventsInv'
  BY <1>7, <1>8, <1>10 DEF EventsInv, TxsOf, Told
<1> QED BY <1>1, <1>2, <1>3, <1>11 DEF done

(* Up to a block up to which all are kept, rows of later blocks take the     *)
(* place of none, and each event writes the row that nothing else writes.    *)
LEMMA CommitRows ==
  ASSUME ChainInv, StoredInv, EventsInv, RowsInv, Commit
  PROVE  RowsInv'
<1> DEFINE R == Rows(open)
           Settled(o) == [o EXCEPT !.status = "processed"]
<1>1. /\ Settle("processed") /\ tables' = Upserted(R) /\ open' = {}
      /\ UNCHANGED <<network, chain, cursor, stored>>
  BY DEF Commit, chainVars
<1>2. /\ \A e : e \in events' <=>
           (e \in events /\ e \notin open) \/ \E o \in open : e = Settled(o)
      /\ \A o \in open : /\ o \in events /\ o \in Event /\ o.status = "pending"
                         /\ Settled(o).status = "processed" /\ Settled(o).block = o.block
  BY <1>1, SettleEffect
<1>3. \A o \in open : Handled(Settled(o)) = Handled(o)
  BY <1>2, HandledRow
<1> HIDE DEF Settled
<1>4. events \subseteq Event /\ \A e \in events : e.block \in Nat \ {0} /\ e.block <= cursor
  BY TablesAssumption DEF EventsInv, Event, Blocks
<1>5. \A e \in events : \A r \in Handled(e) :
        r \in Row /\ r.tx = e.tx /\ r.index = e.index /\ r.block = e.block
  BY <1>4, HandledRow
<1>6. \A r : r \in R <=> \E o \in open : r \in Handled(o)
  BY DEF Rows
<1> HIDE DEF R
<1>7. \A t : t \in tables' <=>
        \/ t \in tables /\ ~ \E s \in R : Key(s) = Key(t)
        \/ t \in R /\ \A s \in R : Key(s) = Key(t) => s.block <= t.block
  BY <1>1 DEF Upserted
<1>8. \A r \in R : r \in Row /\ r.block <= cursor
  BY <1>2, <1>4, <1>5, <1>6
<1>9. \A t \in tables' : t \in Row /\ t.block <= cursor
  BY <1>7, <1>8 DEF RowsInv
<1>10. ASSUME NEW t1 \in tables', NEW t2 \in tables', Key(t1) = Key(t2)
       PROVE  t1 = t2
  <2>1. CASE t1 \in tables /\ t2 \in tables
    BY <1>10, <2>1 DEF RowsInv
  <2>2. CASE /\ t1 \in R /\ \A s \in R : Key(s) = Key(t1) => s.block <= t1.block
             /\ t2 \in R /\ \A s \in R : Key(s) = Key(t2) => s.block <= t2.block
    <3>1. t1.block <= t2.block /\ t2.block <= t1.block
      BY <1>10, <2>2
    <3>2. t1 \in Row /\ t2 \in Row /\ t1.block \in Nat /\ t2.block \in Nat
      BY <1>8, <2>2, TablesAssumption DEF Row, Blocks
    <3>3. t1.block = t2.block
      BY <3>1, <3>2
    <3>4. t1.table = t2.table /\ t1.tx = t2.tx /\ t1.index = t2.index
      BY <1>10 DEF Key
    <3> QED BY <3>2, <3>3, <3>4 DEF Row
  <2> QED BY <1>7, <1>10, <2>1, <2>2
<1>11. ASSUME NEW k \in 0..cursor, \A b \in 1..k : Kept(b)
       PROVE  UpTo(k)' = Rows(Done(k)')
  <2>1. \A r : r \in UpTo(k) <=> \E e \in Done(k) : r \in Handled(e)
    <3>1. UpTo(k) = Rows(Done(k))
      BY <1>11 DEF RowsInv
    <3> QED BY <3>1 DEF Rows
  <2>2. \A e : e \in Done(k)' <=>
          \/ e \in Done(k)
          \/ \E o \in open : o.block <= k /\ e = Settled(o)
    <3>1. \A e \in Done(k) : e \in events /\ e \notin open
      BY <1>2 DEF Done
    <3> QED BY <1>2, <3>1 DEF Done
  <2>3. \A r : r \in Rows(Done(k)') <=>
          \/ r \in UpTo(k)
          \/ \E o \in open : o.block <= k /\ r \in Handled(o)
    <3>1. \A r : r \in Rows(Done(k)') <=> \E e \in Done(k)' : r \in Handled(e)
      BY DEF Rows
    <3> QED BY <1>3, <2>1, <2>2, <3>1
  \* A row up to block k is of the same event as any row that has its key.
  <2>4. ASSUME NEW e \in events, e.block <= k, NEW d \in events,
               NEW r \in Handled(e), NEW s \in Handled(d), Key(s) = Key(r)
        PROVE  d = e
    <3>1. d.tx = e.tx /\ d.index = e.index
      BY <1>5, <2>4 DEF Key
    <3>2. \A b \in 1..(e.block) : Kept(b)
      BY <1>4, <1>11, <2>4
    <3> QED BY <3>1, <3>2, Unmixed
  <2>5. \A e \in Done(k) : e \in events /\ e.block <= k /\ e.status = "processed"
    BY DEF Done
  <2>6. ASSUME NEW r \in UpTo(k)
        PROVE  r \in UpTo(k)'
    <3>1. PICK e \in Done(k) : r \in Handled(e)
      BY <2>1
    <3>2. ~ \E s \in R : Key(s) = Key(r)
      <4> SUFFICES ASSUME NEW s \in R, Key(s) = Key(r) PROVE FALSE
        OBVIOUS
      <4>1. PICK o \in open : s \in Handled(o)
        BY <1>6
      <4>2. o = e
        BY <1>2, <2>4, <2>5, <3>1, <4>1
      <4> QED BY <1>2, <2>5, <4>2
    <3> QED BY <1>7, <3>2 DEF UpTo
  <2>7. ASSUME NEW o \in open, o.block <= k, NEW r \in Handled(o)
        PROVE  r \in UpTo(k)'
    <3>1. r \in R /\ r.block = o.block
      BY <1>2, <1>5, <1>6
    <3>2. ASSUME NEW s \in R, Key(s) = Key(r)
          PROVE  s.block <= r.block
      <4>1. PICK d \in open : s \in Handled(d)
        BY <1>6
      <4>2. d = o
        BY <1>2, <2>4, <2>7, <3>2, <4>1
      <4>3. s.block = r.block /\ r.block \in Nat
        BY <1>2, <1>4, <1>5, <3>1, <4>1, <4>2
      <4> QED BY <4>3
    <3> QED BY <1>7, <2>7, <3>1, <3>2 DEF UpTo
  <2>8. ASSUME NEW r \in UpTo(k)'
        PROVE  r \in UpTo(k) \/ \E o \in open : o.block <= k /\ r \in Handled(o)
    <3>1. r \in tables' /\ r.block <= k
      BY <1>1 DEF UpTo
    <3>2. CASE r \in tables
      BY <3>1, <3>2 DEF UpTo
    <3>3. CASE r \in R
      <4>1. PICK o \in open : r \in Handled(o)
        BY <1>6, <3>3
      <4>2. r.block = o.block
        BY <1>2, <1>5, <4>1
      <4> QED BY <3>1, <4>1, <4>2
    <3> QED BY <1>7, <3>1, <3>2, <3>3
  <2>9. \A r : r \in UpTo(k)' <=> r \in Rows(Done(k)')
    BY <2>3, <2>6, <2>7, <2>8
  <2> QED BY <2>9 DEF UpTo, Rows
<1>12. \A b : Kept(b)' <=> Kept(b)
  BY <1>1 DEF Kept
<1> QED BY <1>1, <1>9, <1>10, <1>11, <1>12 DEF RowsInv

LEMMA FailEventRows ==
  ASSUME EventsInv, RowsInv, FailEvent
  PROVE  RowsInv'
<1> DEFINE Settled(o) == [o EXCEPT !.status = "failed"]
<1>1. /\ Settle("failed") /\ tables' = tables /\ open' = {}
      /\ UNCHANGED <<network, chain, cursor, stored>>
  BY DEF FailEvent, chainVars
<1>2. /\ \A e : e \in events' <=>
           (e \in events /\ e \notin open) \/ \E o \in open : e = Settled(o)
      /\ \A o \in open : o.status = "pending" /\ Settled(o).status = "failed"
  BY <1>1, SettleEffect
<1> HIDE DEF Settled
<1>3. \A k : Done(k)' = Done(k)
  BY <1>2 DEF Done
<1>4. \A k : UpTo(k)' = UpTo(k)
  BY <1>1 DEF UpTo
<1>5. \A b : Kept(b)' <=> Kept(b)
  BY <1>1 DEF Kept
<1> QED BY <1>1, <1>3, <1>4, <1>5 DEF RowsInv

-----------------------------------------------------------------------------
(* Rolling back.                                                             *)

LEMMA RollBackEffect ==
  ASSUME ChainInv, StoredInv, EventsInv, RowsInv, NEW r \in Blocks, RollBack(r)
  PROVE  StoredInv' /\ LogsInv' /\ EventsInv' /\ RowsInv'
<1>1. /\ logs' = <<>> /\ open' = {} /\ cursor' = r - 1
      /\ stored' = [b \in Blocks |-> IF b >= r THEN NotStored ELSE stored[b]]
      /\ events' = {e \in events : e.block < r}
      /\ tables' = {t \in tables : t.table \in EventTableNames => t.block < r}
      /\ UNCHANGED <<network, chain, forks>>
  BY DEF RollBack, NothingRead, chainVars
<1>2. r \in Nat \ {0} /\ r <= cursor /\ cursor \in Nat /\ cursor <= MaxBlock
  BY TablesAssumption DEF RollBack, StoredInv, Blocks
<1>3. forks \in Nat /\ NotStored \in [logs : Int, block : Int] /\ NotStored.logs = -1
  BY TablesAssumption DEF ChainInv, Forks, NotStored
<1>4. \A b \in Blocks : b \in Nat \ {0}
  BY TablesAssumption DEF Blocks
<1>5. StoredInv'
  <2>1. stored' \in [Blocks -> [logs : Int, block : Int]]
    <3>1. stored \in [Blocks -> [logs : Int, block : Int]]
      BY DEF StoredInv
    <3> QED BY <1>1, <1>3, <3>1
  <2>2. ASSUME NEW b \in Blocks
        PROVE  stored'[b].logs <= forks /\ (b > Len(chain) => stored'[b].logs < forks)
    <3>1. CASE b >= r
      <4>1. stored'[b] = NotStored
        BY <1>1, <3>1
      <4> QED BY <1>3, <4>1
    <3>2. CASE ~(b >= r)
      <4>1. stored'[b] = stored[b]
        BY <1>1, <3>2
      <4> QED BY <4>1, StoredType
    <3> QED BY <3>1, <3>2
  <2>3. cursor' \in 0..MaxBlock
    BY <1>1, <1>2, TablesAssumption
  <2> QED BY <1>1, <2>1, <2>2, <2>3 DEF StoredInv
<1>6. LogsInv'
  BY <1>1 DEF LogsInv
<1>7. \A b \in 1..(r - 1) : /\ b \in 1..cursor /\ b < r
                            /\ Kept(b)' <=> Kept(b)
  <2> TAKE b \in 1..(r - 1)
  <2>1. b \in Blocks /\ ~(b >= r) /\ b \in 1..cursor /\ b < r
    BY <1>2, TablesAssumption DEF Blocks
  <2>2. stored'[b] = stored[b]
    BY <1>1, <2>1
  <2> QED BY <1>1, <2>1, <2>2 DEF Kept
<1>8. \A e \in events : e.block \in Nat
  BY <1>4 DEF EventsInv, Event
<1>9. ASSUME NEW b \in 1..(r - 1), Kept(b)'
      PROVE  /\ EventsAt(b)' = Told(network, chain[b])
             /\ \A e \in events' : e.block > b => e.tx \notin TxsOf(chain[b])
  <2>1. /\ EventsAt(b) = Told(network, chain[b])
        /\ \A e \in events : e.block > b => e.tx \notin TxsOf(chain[b])
    BY <1>7, <1>9 DEF EventsInv
  <2>2. {e \in events' : e.block = b} = {e \in events : e.block = b}
    BY <1>1, <1>7
  <2>3. EventsAt(b)' = EventsAt(b)
    BY <2>2 DEF EventsAt
  <2> QED BY <1>1, <2>1, <2>3
<1>10. EventsInv'
  <2>1. \A e \in events' : e \in Event /\ e.block <= cursor'
    BY <1>1, <1>2, <1>8 DEF EventsInv
  <2>2. \A e1, e2 \in events' : e1.block = e2.block /\ e1.index = e2.index => e1 = e2
    BY <1>1 DEF EventsInv
  <2>3. ASSUME NEW b \in 1..(r - 1), Kept(b)'
        PROVE  /\ EventsAt(b)' = Told(network, chain[b])'
               /\ \A e \in events' : e.block > b => e.tx \notin TxsOf(chain[b])'
    BY <1>1, <1>9, <2>3 DEF Told, TxsOf
  <2>4. open' \subseteq Pending'
    BY <1>1
  <2> QED BY <1>1, <2>1, <2>2, <2>3, <2>4 DEF EventsInv
<1>11. tables \subseteq Row /\ \A t \in tables : t.block \in Nat /\ t.table \in EventTableNames
  BY <1>4 DEF RowsInv, Row
<1>12. \A t : t \in tables' <=> t \in tables /\ t.block < r
  BY <1>1, <1>11
<1>13. ASSUME NEW k \in 0..(r - 1), \A b \in 1..k : Kept(b)'
       PROVE  UpTo(k)' = Rows(Done(k)')
  <2>1. k \in 0..cursor /\ k \in Nat /\ k < r /\ \A b \in 1..k : b \in 1..(r - 1)
    BY <1>2
  <2>2. UpTo(k) = Rows(Done(k))
    BY <1>7, <1>13, <2>1 DEF RowsInv
  <2>3. UpTo(k)' = UpTo(k)
    BY <1>2, <1>11, <1>12, <2>1 DEF UpTo
  <2>4. Done(k)' = Done(k)
    BY <1>1, <1>2, <1>8, <2>1 DEF Done
  <2> QED BY <2>2, <2>3, <2>4
<1>14. RowsInv'
  <2>1. \A t \in tables' : t.block <= cursor'
    BY <1>1, <1>2, <1>11, <1>12
  <2>2. \A t1, t2 \in tables' : Key(t1) = Key(t2) => t1 = t2
    BY <1>12 DEF RowsInv
  <2> QED BY <1>1, <1>11, <1>12, <1>13, <2>1, <2>2 DEF RowsInv
<1> QED BY <1>5, <1>6, <1>10, <1>14

-----------------------------------------------------------------------------
(* The invariant.                                                            *)

BoundsInv == network \in IndexedNetworks /\ failures \in 0..MaxFailures

Inv ==
  /\ BoundsInv /\ ChainInv /\ StoredInv /\ LogsInv
  /\ EventsInv /\ RowsInv

LEMMA Unmoved ==
  /\ ChainInv /\ UNCHANGED <<chain, forks>> => ChainInv'
  /\ StoredInv /\ UNCHANGED <<chain, forks, cursor, stored>> => StoredInv'
  /\ LogsInv /\ UNCHANGED <<chain, forks, cursor, stored, logs>> => LogsInv'
  /\ /\ EventsInv /\ UNCHANGED <<network, chain, cursor, stored, events>>
     /\ open' \subseteq Pending
     => EventsInv'
  /\ RowsInv /\ UNCHANGED <<chain, cursor, stored, events, tables>> => RowsInv'
<1>1. ChainInv /\ UNCHANGED <<chain, forks>> => ChainInv'
  BY DEF ChainInv, TxsOf
<1>2. StoredInv /\ UNCHANGED <<chain, forks, cursor, stored>> => StoredInv'
  BY DEF StoredInv
<1>3. LogsInv /\ UNCHANGED <<chain, forks, cursor, stored, logs>> => LogsInv'
  BY DEF LogsInv, Kept, TxsOf
<1>4. ASSUME EventsInv, UNCHANGED <<network, chain, cursor, stored, events>>,
             open' \subseteq Pending
      PROVE  EventsInv'
  <2>1. \A b : (Kept(b)' <=> Kept(b)) /\ EventsAt(b)' = EventsAt(b)
    BY <1>4 DEF Kept, EventsAt
  <2>2. Pending' = Pending
    BY <1>4 DEF Pending
  <2> QED BY <1>4, <2>1, <2>2 DEF EventsInv, Told, TxsOf
<1>5. ASSUME RowsInv, UNCHANGED <<chain, cursor, stored, events, tables>>
      PROVE  RowsInv'
  <2>1. \A k : Kept(k)' <=> Kept(k)
    BY <1>5 DEF Kept
  <2>2. \A k : UpTo(k)' = UpTo(k) /\ Done(k)' = Done(k)
    BY <1>5 DEF UpTo, Done
  <2> QED BY <1>5, <2>1, <2>2 DEF RowsInv
<1> QED BY <1>1, <1>2, <1>3, <1>4, <1>5

LEMMA Initial ==
  ASSUME Init
  PROVE  Inv
<1>1. /\ network \in IndexedNetworks /\ chain = <<>> /\ forks = 0 /\ cursor = 0
      /\ stored = [b \in Blocks |-> NotStored] /\ logs = <<>> /\ events = {} /\ tables = {}
      /\ open = {} /\ failures = 0
  BY DEF Init, NothingRead
<1>2. BoundsInv
  BY <1>1, TablesAssumption DEF BoundsInv
<1>3. ChainInv
  BY <1>1, TablesAssumption DEF ChainInv, Forks
<1>4. StoredInv
  <2>1. NotStored \in [logs : Int, block : Int] /\ NotStored.logs = -1
    BY DEF NotStored
  <2>2. stored \in [Blocks -> [logs : Int, block : Int]]
    BY <1>1, <2>1
  <2>3. \A b \in Blocks : stored[b].logs = -1
    BY <1>1, <2>1
  <2> QED BY <1>1, <2>2, <2>3, TablesAssumption DEF StoredInv
<1>5. LogsInv
  BY <1>1 DEF LogsInv
<1>6. EventsInv
  BY <1>1 DEF EventsInv
<1>7. RowsInv
  <2>1. \A k : UpTo(k) = {} /\ Done(k) = {}
    BY <1>1 DEF UpTo, Done
  <2>2. Rows({}) = {}
    BY DEF Rows
  <2> QED BY <1>1, <2>1, <2>2 DEF RowsInv
<1> QED BY <1>2, <1>3, <1>4, <1>5, <1>6, <1>7 DEF Inv

(* When the chain moves, what is not kept any more is not spoken of, and     *)
(* nothing is kept that was not.                                             *)
LEMMA ChainStep ==
  ASSUME Inv, Grow \/ \E r \in DOMAIN chain : Fork(r)
  PROVE  Inv'
<1>1. /\ ChainInv' /\ StoredInv' /\ LogsInv'
      /\ \A b \in Blocks : Kept(b)' => Kept(b) /\ chain'[b] = chain[b]
  BY ChainMoves DEF Inv
<1>2. UNCHANGED <<network, cursor, stored, events, tables, open, failures>>
  BY DEF Grow, Fork, indexVars
<1>3. \A b \in 1..cursor : b \in Blocks
  BY TablesAssumption DEF Inv, StoredInv, Blocks
<1>4. EventsInv'
  <2>1. EventsInv
    BY DEF Inv
  <2>2. \A b : EventsAt(b)' = EventsAt(b)
    BY <1>2 DEF EventsAt
  <2>3. Pending' = Pending
    BY <1>2 DEF Pending
  <2>4. ASSUME NEW b \in 1..cursor, Kept(b)'
        PROVE  /\ EventsAt(b)' = Told(network, chain'[b])
               /\ \A e \in events : e.block > b => e.tx \notin TxsOf(chain'[b])
    <3>1. Kept(b) /\ chain'[b] = chain[b]
      BY <1>1, <1>3, <2>4
    <3> QED BY <2>1, <2>2, <3>1 DEF EventsInv
  <2> QED BY <1>2, <2>1, <2>3, <2>4 DEF EventsInv, Told, TxsOf
<1>5. RowsInv'
  <2>1. RowsInv /\ cursor \in Nat
    BY DEF Inv, StoredInv
  <2>2. \A k : UpTo(k)' = UpTo(k) /\ Done(k)' = Done(k)
    BY <1>2 DEF UpTo, Done
  <2>3. ASSUME NEW k \in 0..cursor, \A b \in 1..k : Kept(b)'
        PROVE  UpTo(k) = Rows(Done(k))
    <3>1. \A b \in 1..k : b \in 1..cursor
      BY <2>1
    <3>2. \A b \in 1..k : Kept(b)
      BY <1>1, <1>3, <2>3, <3>1
    <3> QED BY <2>1, <3>2 DEF RowsInv
  <2> QED BY <1>2, <2>1, <2>2, <2>3 DEF RowsInv
<1>6. BoundsInv'
  BY <1>2 DEF Inv, BoundsInv
<1> QED BY <1>1, <1>4, <1>5, <1>6 DEF Inv

LEMMA NextStep ==
  ASSUME Inv, [Next]_vars
  PROVE  Inv'
<1> USE DEF Inv
<1>1. network \in Networks
  BY TablesAssumption DEF BoundsInv
<1>2. open \subseteq Pending
  BY DEF EventsInv
<1>3. CASE Grow \/ \E r \in DOMAIN chain : Fork(r)
  BY <1>3, ChainStep
<1>4. CASE ReadLogs
  <2>1. UNCHANGED <<network, chain, forks, cursor, stored, events, tables, open, failures>>
    BY <1>4 DEF ReadLogs, chainVars
  <2>2. LogsInv'
    BY <1>4, ReadLogsEffect
  <2> QED BY <1>2, <2>1, <2>2, Unmoved DEF BoundsInv
<1>5. CASE StoreFetch
  <2>1. UNCHANGED <<network, chain, forks, tables, open, failures>>
    BY <1>5 DEF StoreFetch, chainVars
  <2>2. StoredInv' /\ LogsInv'
    BY <1>1, <1>5, StoreFetchEffect
  <2>3. EventsInv' /\ RowsInv'
    BY <1>1, <1>5, StoreFetchEvents
  <2> QED BY <2>1, <2>2, <2>3, Unmoved DEF BoundsInv
<1>6. CASE FetchFails
  <2>1. /\ UNCHANGED <<network, chain, forks, cursor, stored, events, tables, open, failures>>
        /\ logs' = <<>>
    BY <1>6 DEF FetchFails, chainVars, NothingRead
  <2>2. LogsInv'
    BY <2>1 DEF LogsInv
  <2> QED BY <1>2, <2>1, <2>2, Unmoved DEF BoundsInv
<1>7. ASSUME NEW n \in 1..ProcessBatchSize, Execute(n)
      PROVE  Inv'
  <2>1. UNCHANGED <<network, chain, forks, cursor, stored, logs, events, tables, failures>>
    BY <1>7 DEF Execute, chainVars, indexVars
  <2>2. open' \subseteq Pending
    BY <1>7 DEF Execute, First
  <2> QED BY <2>1, <2>2, Unmoved DEF BoundsInv
<1>8. CASE Commit
  <2>1. /\ UNCHANGED <<network, chain, forks, cursor, stored, logs, failures>>
        /\ Settle("processed") /\ open' = {}
    BY <1>8 DEF Commit, chainVars
  <2>2. EventsInv'
    BY <2>1, SettleEffect
  <2>3. RowsInv'
    BY <1>8, CommitRows
  <2> QED BY <2>1, <2>2, <2>3, Unmoved DEF BoundsInv
<1>9. CASE Abort
  <2>1. /\ UNCHANGED <<network, chain, forks, cursor, stored, logs, events, tables, failures>>
        /\ open' = {}
    BY <1>9 DEF Abort, chainVars, indexVars
  <2> QED BY <2>1, Unmoved DEF BoundsInv
<1>10. CASE FailEvent
  <2>1. /\ UNCHANGED <<network, chain, forks, cursor, stored, logs, tables>>
        /\ Settle("failed") /\ open' = {}
        /\ failures < MaxFailures /\ failures' = failures + 1
    BY <1>10 DEF FailEvent, chainVars
  <2>2. EventsInv'
    BY <2>1, SettleEffect
  <2>3. RowsInv'
    BY <1>10, FailEventRows
  <2>4. BoundsInv'
    BY <2>1, TablesAssumption DEF BoundsInv
  <2> QED BY <2>1, <2>2, <2>3, <2>4, Unmoved
<1>11. ASSUME NEW r \in Blocks, RollBack(r)
       PROVE  Inv'
  <2>1. UNCHANGED <<network, chain, forks, failures>>
    BY <1>11 DEF RollBack, chainVars
  <2>2. StoredInv' /\ LogsInv' /\ EventsInv' /\ RowsInv'
    BY <1>11, RollBackEffect
  <2> QED BY <2>1, <2>2, Unmoved DEF BoundsInv
<1>12. CASE UNCHANGED vars
  <2>1. UNCHANGED <<network, chain, forks, cursor, stored, logs, events, tables, open, failures>>
    BY <1>12 DEF vars, chainVars, indexVars
  <2> QED BY <1>2, <2>1, Unmoved DEF BoundsInv
<1> QED BY <1>3, <1>4, <1>5, <1>6, <1>7, <1>8, <1>9, <1>10, <1>11, <1>12 DEF Next

LEMMA Invariant == Spec => []Inv
<1>1. Init => Inv
  BY Initial
<1>2. Inv /\ [Next]_vars => Inv'
  BY NextStep
<1> QED BY <1>1, <1>2, PTL DEF Spec

-----------------------------------------------------------------------------
(* The theorems.                                                             *)

(* Every variable stays in its set, and _events and the tables keep to their *)
(* unique indexes.                                                           *)
THEOREM TypesStay == Spec => []TypeOK
<1>1. ASSUME Inv
      PROVE  TypeOK
  <2>1. ASSUME NEW b \in DOMAIN chain
        PROVE  chain[b].fork \in Forks /\ ToSet(chain[b].txs) \subseteq Txs
    <3>1. b \in 1..Len(chain)
      BY <1>1 DEF Inv, ChainInv
    <3>2. chain[b] \in Block
      BY <1>1, <3>1, BlockType DEF Inv
    <3> QED BY <3>2 DEF Block, ToSet
  <2>2. /\ network \in IndexedNetworks /\ failures \in 0..MaxFailures
        /\ Len(chain) <= MaxBlock /\ cursor \in 0..MaxBlock
    BY <1>1 DEF Inv, BoundsInv, ChainInv, StoredInv
  <2>3. /\ events \subseteq Event /\ open \subseteq events
        /\ \A e1, e2 \in events : e1.block = e2.block /\ e1.index = e2.index => e1 = e2
    BY <1>1 DEF Inv, EventsInv, Pending
  <2>4. tables \subseteq Row /\ \A t1, t2 \in tables : Key(t1) = Key(t2) => t1 = t2
    BY <1>1 DEF Inv, RowsInv
  <2> QED BY <2>1, <2>2, <2>3, <2>4 DEF TypeOK
<1> QED BY <1>1, Invariant, PTL

(* The events of a block that is still on the chain are its monitored logs   *)
(* that decode, each at its place.                                           *)
THEOREM EventsAreLogs == Spec => []EventsMatchChain
<1>1. ASSUME Inv
      PROVE  EventsMatchChain
  <2> SUFFICES ASSUME NEW b \in 1..cursor, Current(b)
               PROVE  EventsAt(b) = {<<i, LogsIn(chain[b])[i].tx>> :
                        i \in {j \in DOMAIN LogsIn(chain[b]) :
                          /\ LogsIn(chain[b])[j].log.sound
                          /\ <<LogsIn(chain[b])[j].log.address,
                               LogsIn(chain[b])[j].log.topic>> \in Monitored}}
    BY DEF EventsMatchChain, EventsAt
  <2>1. Kept(b) /\ b \in 1..Len(chain)
    BY <1>1 DEF Current, Kept, Inv, StoredInv, ChainInv
  <2>2. EventsAt(b) = Told(network, chain[b])
    BY <1>1, <2>1 DEF Inv, EventsInv
  <2> DEFINE all == LogsIn(chain[b])
  <2>3. network \in Networks
    BY <1>1, TablesAssumption DEF Inv, BoundsInv
  <2>4. \A j \in DOMAIN all : decode(network, all[j].log) # {} <=>
          /\ all[j].log.sound
          /\ <<all[j].log.address, all[j].log.topic>> \in Monitored
    BY <2>3, Decodes
  <2> QED BY <2>2, <2>4 DEF Told
<1> QED BY <1>1, Invariant, PTL

(* When all blocks up to the cursor are still on the chain, the tables have  *)
(* the row of each processed event and no other.                             *)
THEOREM RowsAreOfEvents == Spec => []RowsMatchEvents
<1>1. ASSUME Inv, \A b \in 1..cursor : Current(b)
      PROVE  tables = Rows({e \in events : e.status = "processed"})
  <2>1. \A b \in 1..cursor : Kept(b)
    <3> TAKE b \in 1..cursor
    <3>1. Current(b)
      BY <1>1
    <3> QED BY <3>1 DEF Current, Kept
  <2>2. cursor \in 0..cursor
    BY <1>1 DEF Inv, StoredInv
  <2>3. UpTo(cursor) = Rows(Done(cursor))
    BY <1>1, <2>1, <2>2 DEF Inv, RowsInv
  <2>4. UpTo(cursor) = tables
    BY <1>1 DEF Inv, RowsInv, UpTo
  <2>5. Done(cursor) = {e \in events : e.status = "processed"}
    BY <1>1 DEF Inv, EventsInv, Done
  <2> QED BY <2>3, <2>4, <2>5
<1>2. Inv => RowsMatchEvents
  BY <1>1 DEF RowsMatchEvents
<1> QED BY <1>2, Invariant, PTL
===============================================================================
