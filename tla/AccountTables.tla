----------------------------- MODULE AccountTables -----------------------------
(***************************************************************************)
(* The domain tables that the handlers build and what the handlers share.  *)
(*                                                                         *)
(* A handler is two operators on the tables d and an event e: whether it   *)
(* throws, which rolls its transaction back, and the tables it leaves.  p  *)
(* is the position of the event in the order block, transaction, log, and  *)
(* live what the Drips contract answers now, per account, to splitsHash(). *)
(*                                                                         *)
(* A configuration of splits stands for its hash: different ones hash      *)
(* differently.                                                            *)
(***************************************************************************)
EXTENDS Integers, Sequences, FiniteSets

CONSTANTS
  Tokens,        \* account ids of the NFT driver
  SubLists,      \* ... of the immutable splits driver
  Projects,      \* ... of the repo driver, forge GitHub
  Orcids,        \* ... of the repo driver, forge ORCID
  Owners,        \* addresses
  Zero,          \* the zero address
  Absent,        \* no row, or null in a column
  Configs,       \* configurations of splits
  NoSplits,      \* the empty one among them
  Dependencies,  \* the projects, by account id, among the receivers of a configuration
  VisibilityThreshold

Accounts == Tokens \union SubLists \union Projects \union Orcids

\* All of the splits go to one owner.
Pays(o) == [pays |-> o]
Splits == Configs \union {Pays(o) : o \in Owners}
ProjectsIn(s) == IF s \in Configs THEN Dependencies[s] ELSE {}

ASSUME AccountAssumption ==
  /\ Tokens \intersect (SubLists \union Projects \union Orcids) = {}
  /\ SubLists \intersect (Projects \union Orcids) = {}
  /\ Projects \intersect Orcids = {}
  /\ Zero \notin Owners /\ Absent \notin Owners
  /\ NoSplits \in Configs
  /\ \A o \in Owners : Pays(o) \notin Configs
  /\ Dependencies \in [Configs -> SUBSET Projects]
  /\ Dependencies[NoSplits] = {}
  /\ VisibilityThreshold \in Nat

\* What a metadata document can say of visibility; old versions say nothing.
Visibilities == {"shown", "hidden", "unsaid"}

\* What the entry of a receiver has for its source: a GitHub one; an ORCID one,
\* in an entry of type repoDriver or repoSubAccountDriver; or none, or an ORCID
\* one in an entry without a type.
Sources == {"github", "orcid", "none"}

\* A document on IPFS: the account it describes; its kind; the configuration
\* in it, with the source of each project in it; parent and root of a sub list.
\* It is sound if it can be fetched and parsed, its GitHub sources and its URL
\* belong to the accounts it names, and a sender of its kind may have receivers
\* of the types that their ids give.
IsDocument(doc) ==
  /\ doc.describes \in Accounts \union {Absent}
  /\ doc.kind \in {"dripList", "ecosystem", "subList", "project", "other"}
  /\ doc.splits \in Splits
  /\ doc.sources \in [Projects -> Sources]
  /\ doc.visible \in Visibilities
  /\ doc.sound \in BOOLEAN
  /\ doc.kind = "subList" => doc.parent \in Tokens /\ doc.root \in Tokens

-----------------------------------------------------------------------------
(* Rows.  Each has, as "at", the pointer to the last event that wrote it.    *)

NftTables == {"drip_lists", "ecosystems", "pending"}

NftRow == [owner : Owners \union {Zero}, creator : Owners \union {Absent},
           visible : BOOLEAN, valid : BOOLEAN, at : Nat]
SubListRow == [parent : Tokens, root : Tokens, valid : BOOLEAN, at : Nat]
ProjectRow == [owner : Owners \union {Absent}, described : BOOLEAN,
               status : {"unclaimed", "pending_metadata", "claimed"},
               valid : BOOLEAN, visible : BOOLEAN, at : Nat]
IdentityRow == [owner : Owners \union {Absent}, valid : BOOLEAN, at : Nat]
SplitsRow == [config : Splits, at : Nat]

ASSUME RowAssumption ==
  Absent \notin NftRow \union SubListRow \union ProjectRow \union IdentityRow

Db == [nft : [NftTables -> [Tokens -> NftRow \union {Absent}]],
       subLists : [SubLists -> SubListRow \union {Absent}],
       projects : [Projects -> ProjectRow \union {Absent}],
       identities : [Orcids -> IdentityRow \union {Absent}],
       splits : [Accounts -> SplitsRow]]

EmptyDb ==
  [nft |-> [table \in NftTables |-> [t \in Tokens |-> Absent]],
   subLists |-> [s \in SubLists |-> Absent],
   projects |-> [x \in Projects |-> Absent],
   identities |-> [o \in Orcids |-> Absent],
   splits |-> [a \in Accounts |-> [config |-> NoSplits, at |-> 0]]]

-----------------------------------------------------------------------------
(* Shared steps of handlers. *)

Unclaimed(p) ==
  [owner |-> Absent, described |-> FALSE, status |-> "unclaimed",
   valid |-> TRUE, visible |-> TRUE, at |-> p]

\* A faulty variant of SaysProject: as in a drip list, so in an ecosystem.
SaysProjectAnyhow(doc, x) == doc.sources[x] # "none"

\* getReceiverTypeFromMetadata() is 'project': of a receiver with an ORCID source
\* for the type repoDriver, and not for repoSubAccountDriver.
SaysProject(doc, x) ==
  \/ doc.sources[x] = "github"
  \/ doc.sources[x] = "orcid" /\ doc.kind = "dripList"

\* For an id of a project, the lists demand that the entry says so.  A project's
\* own document is not asked.
Mistyped(doc) == \E x \in ProjectsIn(doc.splits) : ~SaysProject(doc, x)

\* The receivers that a handler ensures are those with a GitHub source.
Sourced(doc) == {x \in ProjectsIn(doc.splits) : doc.sources[x] = "github"}

\* insertIgnore(): a row that exists stays as it is.
EnsureProjects(d, doc, p) ==
  [d EXCEPT !.projects =
    [x \in Projects |-> IF x \in Sourced(doc) /\ d.projects[x] = Absent
                          THEN Unclaimed(p) ELSE d.projects[x]]]

ReplaceSplits(d, a, s, p) ==
  [d EXCEPT !.splits[a] = [config |-> s, at |-> p]]

\* What every metadata handler does before it writes its own table.  All of the
\* receivers are stored, with the types that their ids give.
DescribeSplits(d, e, p) ==
  ReplaceSplits(EnsureProjects(d, e.doc, p), e.account, e.doc.splits, p)

\* validateSplits(): the stored receivers against the chain as it is now.
Matches(d, a, live) == d.splits[a].config = live[a]
=============================================================================
