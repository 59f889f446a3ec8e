----------------------------- MODULE EventDecoder -----------------------------
(***************************************************************************)
(* Which logs become events: the networks and their contracts, the events  *)
(* of the ABIs, those that are monitored, the handlers there are, and the  *)
(* index of an EventDecoder.                                               *)
(*                                                                         *)
(* An ABI is a function from the names of its events to their topics.  A   *)
(* topic stands for the whole signature, and is the name where no two ABIs *)
(* disagree about the parameters.  In a network, contracts have different  *)
(* addresses, so the name of a contract serves for its address.            *)
(***************************************************************************)

Abi(names) == [n \in names |-> n]

-----------------------------------------------------------------------------
(* chains/abis: events. *)

AddressDriverEvents == {"AdminChanged", "BeaconUpgraded", "NewAdminProposed", "Paused",
                        "PauserGranted", "PauserRevoked", "Unpaused", "Upgraded"}
RepoSubAccountDriverEvents == AddressDriverEvents
RepoDeadlineDriverEvents == AddressDriverEvents \union {"AccountSeen"}
ImmutableSplitsDriverEvents == AddressDriverEvents \union {"CreatedSplits"}
NftDriverEvents == AddressDriverEvents \union {"Approval", "ApprovalForAll", "Transfer"}
DripsEvents == AddressDriverEvents \union
  {"AccountMetadataEmitted", "Collectable", "Collected", "DriverAddressUpdated",
   "DriverRegistered", "Given", "ReceivedStreams", "Split", "SplitsReceiverSeen", "SplitsSet",
   "SqueezedStreams", "StreamReceiverSeen", "StreamsSet", "Withdrawn"}
RepoDriverEvents == AddressDriverEvents \union
  {"GelatoFeePaid", "GelatoTaskUpdated", "OwnerUpdateRequested", "OwnerUpdated",
   "UserFundsDeposited", "UserFundsWithdrawn"}
RepoDriverLegacyEvents ==
  AddressDriverEvents \union {"AnyApiOperatorUpdated", "OwnerUpdateRequested", "OwnerUpdated"}

repoDriverAbi ==
  [Abi(RepoDriverEvents) EXCEPT !["OwnerUpdateRequested"] = "OwnerUpdateRequested with payer"]
repoDriverLegacyAbi == Abi(RepoDriverLegacyEvents)

-----------------------------------------------------------------------------
(* monitoredEvents.ts, contractConfigFactories.ts and chain-configs. *)

DRIPS_EVENTS == {"Given", "Split", "SplitsSet", "StreamsSet", "SqueezedStreams",
                 "StreamReceiverSeen", "AccountMetadataEmitted"}
NFT_DRIVER_EVENTS == {"Transfer"}
REPO_DRIVER_EVENTS == {"OwnerUpdateRequested", "OwnerUpdated"}

drips == [name |-> "Drips", abi |-> Abi(DripsEvents), events |-> DRIPS_EVENTS]
nftDriver == [name |-> "NftDriver", abi |-> Abi(NftDriverEvents), events |-> NFT_DRIVER_EVENTS]
repoDriver == [name |-> "RepoDriver", abi |-> repoDriverAbi, events |-> REPO_DRIVER_EVENTS]
repoDriverLegacy ==
  [name |-> "RepoDriver", abi |-> repoDriverLegacyAbi, events |-> REPO_DRIVER_EVENTS]
addressDriver == [name |-> "AddressDriver", abi |-> Abi(AddressDriverEvents), events |-> {}]
repoDeadlineDriver ==
  [name |-> "RepoDeadlineDriver", abi |-> Abi(RepoDeadlineDriverEvents), events |-> {}]
repoSubAccountDriver ==
  [name |-> "RepoSubAccountDriver", abi |-> Abi(RepoSubAccountDriverEvents), events |-> {}]
immutableSplitsDriver ==
  [name |-> "ImmutableSplitsDriver", abi |-> Abi(ImmutableSplitsDriverEvents), events |-> {}]

mainnetConfig == {drips, nftDriver, repoDriverLegacy, addressDriver, repoDeadlineDriver,
                  repoSubAccountDriver, immutableSplitsDriver}
filecoinConfig == {drips, nftDriver, repoDriver, addressDriver, repoDeadlineDriver,
                   repoSubAccountDriver, immutableSplitsDriver}
metisConfig == filecoinConfig
optimismConfig == filecoinConfig
sepoliaConfig == filecoinConfig
localtestnetConfig == filecoinConfig

configs == [mainnet |-> mainnetConfig, filecoin |-> filecoinConfig, metis |-> metisConfig,
            optimism |-> optimismConfig, sepolia |-> sepoliaConfig,
            localtestnet |-> localtestnetConfig]
Networks == DOMAIN configs

-----------------------------------------------------------------------------
(* handlers/registry.ts, loadChainConfig() and Contracts. *)

registry == {"Split", "Given", "Transfer", "SplitsSet", "StreamsSet", "OwnerUpdated",
             "SqueezedStreams", "StreamReceiverSeen", "OwnerUpdateRequested",
             "AccountMetadataEmitted"}

\* Otherwise it throws.
loadChainConfig(network) ==
  \A c \in configs[network] : \A e \in c.events : e \in DOMAIN c.abi /\ e \in registry

ContractNames == {"RepoDriver", "Drips", "AddressDriver", "NftDriver", "RepoSubAccountDriver",
                  "RepoDeadlineDriver"}

Contracts(network) == ContractNames \subseteq {c.name : c \in configs[network]}

-----------------------------------------------------------------------------
(* EventDecoder *)

contractAddresses(network) == {c.name : c \in configs[network]}

\* A faulty variant of topicIndex: events have the topic of their name.
topicIndexByName(network) ==
  UNION {{[address |-> c.name, topic |-> e, eventName |-> e] : e \in c.events} :
           c \in configs[network]}

\* _topicIndex: addresses and topics with the names of their events.
topicIndex(network) ==
  UNION {{[address |-> c.name, topic |-> c.abi[e], eventName |-> e] : e \in c.events} :
           c \in configs[network]}

\* The names under which decode() finds a log: one, or none for a log that is
\* skipped.  A log is not sound when its data does not fit its signature.
decode(network, log) ==
  {i.eventName : i \in {j \in topicIndex(network) :
     log.sound /\ j.address = log.address /\ j.topic = log.topic}}
=============================================================================
