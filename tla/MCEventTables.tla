----------------------------- MODULE MCEventTables -----------------------------
(* Instances of EventTables for TLC: a transaction with rows for two tables   *)
(* and a log that is not monitored, and one with a log that does not decode,  *)
(* one that only one of the two networks understands, and one without a row.  *)
EXTENDS EventTables

L(address, topic, sound) == [address |-> address, topic |-> topic, sound |-> sound]

MCNetworks == {"mainnet", "optimism"}
MCTxs == {1, 2}
MCLogsOf ==
  <<<<L("NftDriver", "Approval", TRUE), L("Drips", "Given", TRUE),
      L("NftDriver", "Transfer", TRUE)>>,
    <<L("Drips", "Given", FALSE),
      L("RepoDriver", "OwnerUpdateRequested with payer", TRUE),
      L("RepoDriver", "OwnerUpdated", TRUE)>>>>
=============================================================================
