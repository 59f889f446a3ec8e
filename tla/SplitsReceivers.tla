--------------------------- MODULE SplitsReceivers ---------------------------
(***************************************************************************)
(* The rows of splits_receivers of one account: how a metadata document    *)
(* becomes rows, and how the rows are compared with the splits that the    *)
(* account has on chain.                                                   *)
(*                                                                         *)
(* AccountTables takes a configuration for its own hash.  This module is   *)
(* about what that leaves out: receivers, types, relationships, weights    *)
(* and the list that is hashed.                                            *)
(***************************************************************************)
EXTENDS Integers, Sequences, FiniteSetsExt

CONSTANTS
  Ids,           \* account ids of receivers, ordered as numbers
  TypeOf,        \* mapToAccountType(): what the driver in an id says
  Weights,       \* weights that a document can name
  TotalWeight,   \* the most that the contract lets an account split
  MaxReceivers,  \* bound: receivers of a document or a configuration
  MaxSteps,      \* bound: settings of the splits on chain
  EnvAssumptions

AccountTypes == {"project", "address", "drip_list", "linked_identity",
                 "ecosystem_main_account", "sub_list"}
\* The types of account that have metadata with receivers in it.
SenderTypes == {"project", "drip_list", "ecosystem_main_account", "sub_list"}
Relationships == {"project_maintainer", "project_dependency", "drip_list_receiver",
                  "ecosystem_receiver", "sub_list_link", "sub_list_receiver",
                  "identity_owner"}

\* "positive": documents name no weight of zero.
\* "listed_once": a document names no receiver in two of its lists.
Assumptions == {"positive", "listed_once"}

ASSUME SplitsAssumption ==
  /\ Ids \subseteq Nat
  /\ TypeOf \in [Ids -> AccountTypes \ {"ecosystem_main_account"}]
  /\ Weights \subseteq Nat /\ TotalWeight \in Nat
  /\ MaxReceivers \in Nat /\ MaxSteps \in Nat
  /\ EnvAssumptions \subseteq Assumptions

\* Sender, receiver and relationship that may go together.
SplitRules ==
  {<<"project", "address", "project_maintainer">>,
   <<"linked_identity", "address", "identity_owner">>,
   <<"ecosystem_main_account", "project", "ecosystem_receiver">>,
   <<"ecosystem_main_account", "sub_list", "sub_list_link">>,
   <<"sub_list", "sub_list", "sub_list_link">>}
  \union {<<"project", t, "project_dependency">> :
            t \in {"project", "address", "drip_list", "linked_identity"}}
  \union {<<"drip_list", t, "drip_list_receiver">> :
            t \in {"project", "address", "drip_list", "linked_identity"}}
  \union {<<"sub_list", t, "sub_list_receiver">> :
            t \in {"project", "address", "drip_list", "linked_identity"}}

AllowedReceiver(kind, type) ==
  \E r \in SplitRules : r[1] = kind /\ r[2] = type

-----------------------------------------------------------------------------
(* Documents. *)

\* An entry is in one of the lists of its document and, outside of projects,
\* says of which type its receiver is.
Entries(kind) ==
  IF kind = "project"
    THEN [list : {"maintainers", "dependencies"}, id : Ids, says : {"unsaid"}, weight : Weights]
    ELSE [list : {"recipients"}, id : Ids, says : AccountTypes, weight : Weights]

Admissible(doc) ==
  \A i \in DOMAIN doc :
    /\ "positive" \in EnvAssumptions => doc[i].weight > 0
    /\ "listed_once" \in EnvAssumptions =>
         \A j \in DOMAIN doc : doc[j].id = doc[i].id => doc[j].list = doc[i].list

\* The checks that the loops of the four update...Splits() make per entry.
EntryRefused(kind, e) ==
  /\ e.list # "maintainers"
  /\ \/ kind # "project" /\ e.says # TypeOf[e.id]
     \/ ~AllowedReceiver(kind, TypeOf[e.id])

\* A faulty variant of Relationship: sub lists of sub lists receive like others.
RelationshipFlat(kind, e) ==
  CASE kind = "project" ->
         IF e.list = "maintainers" THEN "project_maintainer" ELSE "project_dependency"
    [] kind = "drip_list" -> "drip_list_receiver"
    [] kind = "sub_list" -> "sub_list_receiver"
    [] kind = "ecosystem_main_account" ->
         IF TypeOf[e.id] = "sub_list" THEN "sub_list_link" ELSE "ecosystem_receiver"

Relationship(kind, e) ==
  CASE kind = "project" ->
         IF e.list = "maintainers" THEN "project_maintainer" ELSE "project_dependency"
    [] kind = "drip_list" -> "drip_list_receiver"
    [] kind = "sub_list" ->
         IF TypeOf[e.id] = "sub_list" THEN "sub_list_link" ELSE "sub_list_receiver"
    [] kind = "ecosystem_main_account" ->
         IF TypeOf[e.id] = "sub_list" THEN "sub_list_link" ELSE "ecosystem_receiver"

\* The type of a maintainer is not looked at.
RowOf(kind, e) ==
  [receiver |-> e.id,
   type |-> IF e.list = "maintainers" THEN "address" ELSE TypeOf[e.id],
   relationship |-> Relationship(kind, e),
   weight |-> e.weight]

\* A faulty variant of Key: one receiver may have several weights.
KeyWithWeight(row) == <<row.receiver, row.relationship, row.weight>>

Key(row) == <<row.receiver, row.relationship>>

\* A faulty variant of InsertRefused: rows inserted one by one, the last stays.
InsertRefusedNot(kind, doc) == FALSE

\* An INSERT that meets one key twice cannot update the same row twice.
InsertRefused(kind, doc) ==
  \E i, j \in DOMAIN doc :
    i # j /\ Key(RowOf(kind, doc[i])) = Key(RowOf(kind, doc[j]))

DocumentRefused(kind, doc) ==
  \/ \E i \in DOMAIN doc : EntryRefused(kind, doc[i])
  \/ InsertRefused(kind, doc)

\* The rows of the account are deleted and those of the document inserted; of
\* two with one key, the later would be the one that stays.
ReplacedRows(kind, doc) ==
  {RowOf(kind, doc[i]) : i \in
    {k \in DOMAIN doc : \A j \in DOMAIN doc :
       j > k => Key(RowOf(kind, doc[j])) # Key(RowOf(kind, doc[k]))}}

-----------------------------------------------------------------------------
(* The comparison with the chain. *)

Pairs(rs) == {[id |-> r.receiver, weight |-> r.weight] : r \in rs}

\* A faulty variant of Formatted: not sorted.
FormattedAsRead(rs) ==
  LET n == Cardinality(Pairs(rs)) IN
  {s \in [1..n -> Pairs(rs)] : \A i, j \in 1..n : i < j => s[i] # s[j]}

\* formatSplitReceivers(): pairs of id and weight, without repetition, by id.
\* The ids are those of the rows: no handler sets
\* splits_to_repo_driver_sub_account, for which validateSplits() would ask the
\* contract for another.  A weight of zero stays.
\* The rows come in any order, and pairs of one id keep the order they come in.
Formatted(rs) ==
  LET n == Cardinality(Pairs(rs)) IN
  {s \in [1..n -> Pairs(rs)] : \A i, j \in 1..n : i < j => s[i] # s[j] /\ s[i].id <= s[j].id}

\* What an account pays to each id.
RowPayments(rs) ==
  [x \in Ids |-> MapThenSumSet(LAMBDA r : r.weight, {r \in rs : r.receiver = x})]
ListPayments(s) ==
  [x \in Ids |-> MapThenSumSet(LAMBDA i : s[i].weight, {i \in DOMAIN s : s[i].id = x})]

\* What the contract accepts: by id, each once, weights positive and within
\* the total.  hashSplits() is taken to be injective.
Configs ==
  {s \in UNION {[1..n -> [id : Ids, weight : Weights \ {0}]] : n \in 0..MaxReceivers} :
     /\ \A i, j \in DOMAIN s : i < j => s[i].id < s[j].id
     /\ MapThenSumSet(LAMBDA i : s[i].weight, DOMAIN s) <= TotalWeight}

-----------------------------------------------------------------------------
VARIABLES
  sender,   \* the type of the account
  rows,     \* its rows in splits_receivers
  chain,    \* its splits on chain
  verdict,  \* its column is_valid, with the splits on chain that it was computed for
  document, \* history: the last document that was accepted
  steps     \* how often its splits were set

vars == <<sender, rows, chain, verdict, document, steps>>

Undecided == [valid |-> TRUE, against |-> <<>>]

Init ==
  /\ sender \in SenderTypes
  /\ rows = {}
  /\ chain = <<>>
  /\ verdict = Undecided
  /\ document = <<>>
  /\ steps = 0

\* setSplits() of the contract.
SetSplits ==
  /\ steps < MaxSteps
  /\ steps' = steps + 1
  /\ chain' \in Configs
  /\ UNCHANGED <<sender, rows, verdict, document>>

\* validateSplits() for the rows rs.
Validate(rs) ==
  \E list \in Formatted(rs) : verdict' = [valid |-> list = chain, against |-> chain]

\* A handler of metadata that does not throw.
DescribeSplits(doc) ==
  /\ ~DocumentRefused(sender, doc)
  /\ rows' = ReplacedRows(sender, doc)
  /\ Validate(rows')
  /\ document' = doc
  /\ UNCHANGED <<sender, chain, steps>>

\* The handler of SplitsSet, which validates and leaves the rows alone.
CheckSplits ==
  /\ Validate(rows)
  /\ UNCHANGED <<sender, rows, chain, document, steps>>

Documents == UNION {[1..n -> Entries(sender)] : n \in 0..MaxReceivers}

Next ==
  \/ SetSplits
  \/ \E doc \in Documents : Admissible(doc) /\ DescribeSplits(doc)
  \/ CheckSplits

Spec == Init /\ [][Next]_vars

-----------------------------------------------------------------------------
(* Properties *)

Row == [receiver : Ids, type : AccountTypes, relationship : Relationships, weight : Weights]

\* Each variable stays in its set, and a key has one row, as the unique index of
\* splits_receivers demands.
TypeOK ==
  /\ sender \in SenderTypes
  /\ rows \subseteq Row
  /\ \A r1, r2 \in rows :
       r1.receiver = r2.receiver /\ r1.relationship = r2.relationship => r1 = r2
  /\ chain \in Configs
  /\ verdict \in [valid : BOOLEAN, against : Configs]
  /\ steps \in 0..MaxSteps

\* The types and the relationship of every row are a combination that
\* splitRules.ts lists, although the handlers check the types alone and each
\* picks the relationship by itself.
RowsObeyRules == \A r \in rows : <<sender, r.type, r.relationship>> \in SplitRules

\* The rows pay what the last document says, to the last unit: no receiver is
\* lost to the unique index, none is left over from an earlier document.
NothingMerged ==
  RowPayments(rows) = ListPayments(document)

\* is_valid says that the rows pay each account what the chain paid it when
\* it was computed, and it is not withheld for the order of rows or lists.
ValidExactlyWhenPaid == verdict.valid <=> RowPayments(rows) = ListPayments(verdict.against)

\* validateSplits.ts: is_valid says that the rows match the splits on chain.
ValidMeansPaid == verdict.valid => RowPayments(rows) = ListPayments(verdict.against)
=============================================================================
