------------------------------- MODULE Accounts -------------------------------
(***************************************************************************)
(* The handlers at work: the domain tables as events are processed one     *)
(* after another, while the chain, which the handlers also read live,      *)
(* goes on, and while indexed events are rolled back and processed again.  *)
(*                                                                         *)
(* A position stands for block, transaction and log index of an event.     *)
(* The order and the once-only of processing are those of EventProcessor,  *)
(* the rollback that of ChainIndexer; neither touches the domain tables.   *)
(***************************************************************************)
EXTENDS NftAccounts, RepoAccounts, SequencesExt

CONSTANTS
  Published,       \* per account: documents its metadata may name
  Offered,         \* per account: configurations its splits may be set to
  MaxEvents,       \* bound: length of the chain
  MaxDisturbed,    \* bound: its length if there is a fork or a failed handler
  MaxActive,       \* bound: accounts that have events in it
  MaxDisturbances  \* bound: forks, replays and failures together

ASSUME FeedAssumption ==
  /\ \A a \in Tokens \union Projects \union SubLists :
       \A doc \in Published[a] : IsDocument(doc)
  /\ \A a \in Accounts : Offered[a] \subseteq Splits
  /\ MaxEvents \in Nat /\ MaxDisturbed \in 0..MaxEvents /\ MaxActive \in Nat /\ MaxDisturbances \in Nat

VARIABLES
  chain,     \* the events of the Drips contracts, as the RPC node has them
  events,    \* _events: what is indexed
  done,      \* how many of them are settled
  db,        \* the domain tables
  forked,    \* history: some event was replaced
  failed,    \* history: some handler failed though it need not
  disturbances

vars == <<chain, events, done, db, forked, failed, disturbances>>
feedVars == <<forked, failed, disturbances>>

Init ==
  /\ chain = <<>> /\ events = <<>> /\ done = 0
  /\ db = EmptyDb
  /\ forked = FALSE /\ failed = FALSE /\ disturbances = 0

Disturb == disturbances < MaxDisturbances /\ disturbances' = disturbances + 1

-----------------------------------------------------------------------------
(* The chain. *)

\* Where the chain has the events of this name and account.
At(c, name, a) == {i \in 1..Len(c) : c[i].name = name /\ c[i].account = a}

LastAt(c, name, a) == IF At(c, name, a) = {} THEN 0 ELSE Max(At(c, name, a))

Holder(c, t) ==
  LET i == LastAt(c, "Transfer", t) IN IF i = 0 THEN Zero ELSE c[i].to

OwnerOf(c, a) ==
  LET i == LastAt(c, "OwnerUpdated", a) IN IF i = 0 THEN Absent ELSE c[i].owner

\* Drips.splitsHash()
SplitsOf(c, a) ==
  LET i == LastAt(c, "SplitsSet", a) IN IF i = 0 THEN NoSplits ELSE c[i].splits

Live == [a \in Accounts |-> SplitsOf(chain, a)]

\* Who holds a token, or owns a repository, acts for it.  A sub list is made
\* with its splits, once.
MayAct(c, a) ==
  \/ a \in Tokens /\ Holder(c, a) # Zero
  \/ a \in Projects \union Orcids /\ OwnerOf(c, a) # Absent

Mints(c) ==
  {[name |-> "Transfer", account |-> t, from |-> Zero, to |-> o] :
     t \in {x \in Tokens : At(c, "Transfer", x) = {}}, o \in Owners}
\* A token that is burnt does not come back.
Transfers(c) ==
  {e \in [name : {"Transfer"}, account : Tokens, from : Owners, to : Owners \union {Zero}] :
     e.from = Holder(c, e.account)}
Requests ==
  {[name |-> "OwnerUpdateRequested", account |-> a] : a \in Projects \union Orcids}
Updates(c) ==
  {[name |-> "OwnerUpdated", account |-> a, owner |-> o] :
     a \in {x \in Projects \union Orcids : At(c, "OwnerUpdateRequested", x) # {}},
     o \in Owners}
SplitsSets(c) ==
  UNION {{[name |-> "SplitsSet", account |-> a, splits |-> s] : s \in Offered[a]} :
           a \in {x \in Accounts : \/ MayAct(c, x)
                                   \/ x \in SubLists /\ At(c, "SplitsSet", x) = {}}}
Emissions(c) ==
  UNION {{[name |-> "AccountMetadataEmitted", account |-> a, doc |-> doc] :
           doc \in Published[a]} :
           a \in {x \in Accounts \ Orcids : \/ MayAct(c, x)
                                            \/ x \in SubLists /\ At(c, "SplitsSet", x) # {}}}

Emittable(c) == Mints(c) \union Transfers(c) \union Requests \union Updates(c)
                  \union SplitsSets(c) \union Emissions(c)

\* While replaced events are still indexed, more of the new ones would show in
\* what the handlers read live only, and no property asks for that then.
Emit ==
  /\ Len(chain) < IF forked \/ failed THEN MaxDisturbed ELSE MaxEvents
  /\ IsPrefix(events, chain)
  /\ \E e \in Emittable(chain) : chain' = Append(chain, e)
  /\ Cardinality({chain'[i].account : i \in 1..Len(chain')}) <= MaxActive
  /\ UNCHANGED <<events, done, db, feedVars>>

\* A reorganisation: the events from some position on are gone.
Fork ==
  /\ Disturb /\ Len(chain) <= MaxDisturbed
  /\ \E k \in 0..(Len(chain) - 1) : chain' = SubSeq(chain, 1, k)
  /\ forked' = TRUE
  /\ UNCHANGED <<events, done, db, failed>>

-----------------------------------------------------------------------------
(* The indexer, seen from the handlers. *)

\* All there is: more of it than is processed changes nothing in the tables.
Fetch ==
  /\ IsStrictPrefix(events, chain)
  /\ events' = chain
  /\ UNCHANGED <<chain, done, db, feedVars>>

Min2(m, n) == IF m < n THEN m ELSE n

\* Recovery from a reorganisation, or a replay that an operator asks for.  The
\* domain tables stay as they are.
RollBack ==
  /\ IF IsPrefix(events, chain) THEN Disturb ELSE UNCHANGED disturbances
  /\ \E k \in 0..(Len(events) - 1) :
       /\ IsPrefix(SubSeq(events, 1, k), chain)
       /\ events' = SubSeq(events, 1, k)
       /\ done' = Min2(done, k)
  /\ UNCHANGED <<chain, db, forked, failed>>

\* Whether the handler of an event throws, by the kind of account.
MetadataThrows(d, e) ==
  \/ e.account \in Tokens /\ TokenMetadataThrows(d, e)
  \/ e.account \in SubLists /\ SubListMetadataThrows(d, e)
  \/ e.account \in Projects /\ ProjectMetadataThrows(d, e)

SplitsThrow(d, e) ==
  \/ e.account \in Tokens /\ TokenSplitsThrow(d, e)
  \/ e.account \in SubLists /\ SubListSplitsThrow(d, e)
  \/ e.account \in Projects /\ ProjectSplitsThrow(d, e)
  \/ e.account \in Orcids /\ IdentitySplitsThrow(d, e)

Throws(d, e) ==
  \/ e.name = "AccountMetadataEmitted" /\ MetadataThrows(d, e)
  \/ e.name = "SplitsSet" /\ SplitsThrow(d, e)
  \/ e.name = "OwnerUpdated" /\ OwnerThrows(d, e)

AfterMetadata(d, e, p, live) ==
  CASE e.account \in Tokens -> AfterTokenMetadata(d, e, p, live)
    [] e.account \in SubLists -> AfterSubListMetadata(d, e, p, live)
    [] e.account \in Projects -> AfterProjectMetadata(d, e, p, live)
    [] OTHER -> d

AfterSplits(d, e, p, live) ==
  CASE e.account \in Tokens -> AfterTokenSplits(d, e, p, live)
    [] e.account \in SubLists -> AfterSubListSplits(d, e, p, live)
    [] e.account \in Projects -> AfterProjectSplits(d, e, p, live)
    [] e.account \in Orcids -> AfterIdentitySplits(d, e, p, live)

\* The registry of handlers.
After(d, e, p, live) ==
  CASE e.name = "Transfer" -> AfterTransfer(d, e, p)
    [] e.name = "AccountMetadataEmitted" -> AfterMetadata(d, e, p, live)
    [] e.name = "SplitsSet" -> AfterSplits(d, e, p, live)
    [] e.name = "OwnerUpdateRequested" -> AfterRequest(d, e, p)
    [] e.name = "OwnerUpdated" -> AfterOwner(d, e, p)

\* The next event of this name is processed.
Handle(name) ==
  /\ done < Len(events)
  /\ LET e == events[done + 1] IN
       /\ e.name = name
       /\ ~Throws(db, e)
       /\ db' = After(db, e, done + 1, Live)
  /\ done' = done + 1
  /\ UNCHANGED <<chain, events, feedVars>>

HandleTransfer == Handle("Transfer")
HandleMetadata == Handle("AccountMetadataEmitted")
HandleSplitsSet == Handle("SplitsSet")
HandleRequest == Handle("OwnerUpdateRequested")
HandleOwner == Handle("OwnerUpdated")

\* Its handler throws: the event is marked failed and never tried again.
HandlerThrows ==
  /\ done < Len(events)
  /\ Throws(db, events[done + 1])
  /\ done' = done + 1
  /\ UNCHANGED <<chain, events, db, feedVars>>

\* The handler fails whatever the event is: the RPC node or the IPFS gateway
\* does not answer, or the database does not for too long.
HandlerFails ==
  /\ done < Len(events)
  /\ Disturb /\ Len(chain) <= MaxDisturbed
  /\ done' = done + 1
  /\ failed' = TRUE
  /\ UNCHANGED <<chain, events, db, forked>>

Next ==
  \/ Emit \/ Fork \/ Fetch \/ RollBack
  \/ HandleTransfer \/ HandleMetadata \/ HandleSplitsSet \/ HandleRequest \/ HandleOwner
  \/ HandlerThrows \/ HandlerFails

Spec == Init /\ [][Next]_vars

-----------------------------------------------------------------------------
(* Properties. *)

\* All variables have their types; a token's owner is null in no table.
TypeOK ==
  /\ \A i \in 1..Len(chain) : chain[i].account \in Accounts
  /\ \A i \in 1..Len(events) : events[i].account \in Accounts
  /\ Len(chain) <= MaxEvents /\ Len(events) <= MaxEvents
  /\ done \in 0..Len(events)
  /\ db \in Db
  /\ forked \in BOOLEAN /\ failed \in BOOLEAN
  /\ disturbances \in 0..MaxDisturbances

\* A token is in at most one of drip_lists, ecosystem_main_accounts and
\* _pending_nft_transfers, which transferHandler, the two migrations and the
\* "unreachable" of splitsSetHandler rely on; forks, replays and failed handlers
\* included.
OneHome ==
  \A t \in Tokens : \A u, v \in NftTables :
    HasRow(db, u, t) /\ HasRow(db, v, t) => u = v

\* The parent and the root of a sub list are ecosystems, which
\* validateRootAndParentExist checks once, when the sub list is described.
RootsAreEcosystems ==
  \A s \in SubLists : db.subLists[s] # Absent =>
    /\ HasRow(db, "ecosystems", db.subLists[s].parent)
    /\ HasRow(db, "ecosystems", db.subLists[s].root)

\* Some document of the account has these splits and names no GitHub source for x.
Unsourced(a, s, x) == \E doc \in Published[a] : doc.splits = s /\ x \notin Sourced(doc)

\* Each project among the stored receivers of an ecosystem or of a sub list has a
\* row, although types are checked against ids and rows created for sources: what
\* passes the first is what the second looks for.  In a drip list or a project it
\* need not be; but there too only a receiver without a GitHub source lacks one.
ReceiversExist ==
  \A a \in Accounts : \A x \in ProjectsIn(db.splits[a].config) :
    db.projects[x] = Absent =>
      /\ a \in Projects \/ (a \in Tokens /\ ~HasRow(db, "ecosystems", a))
      /\ Unsourced(a, db.splits[a].config, x)

\* verification_status, which four handlers compute from what each of them
\* knows, is that of the stored owner and document; no owner, no claim.
StatusFollowsOwner ==
  \A x \in Projects : db.projects[x] # Absent =>
    db.projects[x].status = Status(db.projects[x].owner, db.projects[x].described)

Settled == events = chain /\ done = Len(events)

OwnersCurrent ==
  /\ \A t \in Tokens : \A table \in NftTables :
       HasRow(db, table, t) => db.nft[table][t].owner = Holder(chain, t)
  /\ \A x \in Projects :
       db.projects[x] # Absent => db.projects[x].owner = OwnerOf(chain, x)
  /\ \A o \in Orcids :
       db.identities[o] # Absent => db.identities[o].owner = OwnerOf(chain, o)

\* When all events are processed, owners are those of the chain, whatever was
\* replayed and whichever table a token waited in, unless a fork replaced events
\* or a handler failed for want of an answer.
OwnerCurrent == Settled /\ ~forked /\ ~failed => OwnersCurrent

\* When all events are processed, an account of any kind but ORCID is valid
\* exactly if its stored receivers are those of the chain: the eventual
\* consistency that splitsSetHandler.ts promises of checks against a chain
\* that runs ahead of the events.
ValidNow ==
  Settled /\ ~forked /\ ~failed =>
    /\ \A t \in Tokens : \A table \in NftTables \ {"pending"} :
         HasRow(db, table, t) => (db.nft[table][t].valid <=> Matches(db, t, Live))
    /\ \A s \in SubLists : db.subLists[s] # Absent =>
         (db.subLists[s].valid <=> Matches(db, s, Live))
    /\ \A x \in Projects : db.projects[x] # Absent =>
         (db.projects[x].valid <=> Matches(db, x, Live))

\* A token's creator, whichever table the token has gone through and whatever was
\* replayed, is null or the one it was minted to, never a later holder.  It is
\* null for good once a transfer finds the token pending.
CreatorIsMinter ==
  ~forked => \A t \in Tokens : \A table \in NftTables :
    HasRow(db, table, t) =>
      db.nft[table][t].creator \in {Absent, chain[Min(At(chain, "Transfer", t))].to}

\* When all events are processed, an identity is valid exactly if its splits pay
\* its owner, provided that they were set after the last change of owner: until
\* then it keeps the verdict that was reached for the old one.
IdentityPaysOwner ==
  Settled /\ ~forked /\ ~failed =>
    \A o \in Orcids :
      db.identities[o] # Absent =>
        \/ LastAt(chain, "SplitsSet", o) <= LastAt(chain, "OwnerUpdated", o)
        \/ db.identities[o].valid <=> SplitsOf(chain, o) = Pays(db.identities[o].owner)

\* The tables after one pass over the whole chain as it is now.
OnePass ==
  LET pass[i \in 0..Len(chain)] ==
        IF i = 0 THEN EmptyDb
        ELSE IF Throws(pass[i - 1], chain[i]) THEN pass[i - 1]
        ELSE After(pass[i - 1], chain[i], i, Live)
  IN pass[Len(chain)]

\* What a reader of the API sees of a token, creators aside.
View(d, t) ==
  [home |-> {table \in NftTables : HasRow(d, table, t)},
   rows |-> {[owner |-> d.nft[table][t].owner, visible |-> d.nft[table][t].visible,
              valid |-> d.nft[table][t].valid] :
               table \in {u \in NftTables : HasRow(d, u, t)}},
   splits |-> d.splits[t].config]

\* Replays of any suffix at any moment, and a chain that runs ahead, leave a
\* token as one pass over the final chain does (DEVELOPMENT.md: reprocessing the
\* same event produces the same result).
ReplayConverges ==
  Settled /\ ~forked /\ ~failed => \A t \in Tokens : View(db, t) = View(OnePass, t)

-----------------------------------------------------------------------------
(* Claims that do not hold. *)

\* detectOrphans(): rows whose event is not indexed.
HasOrphans ==
  \/ \E t \in Tokens, table \in NftTables :
       HasRow(db, table, t) /\ db.nft[table][t].at > Len(events)
  \/ \E s \in SubLists : db.subLists[s] # Absent /\ db.subLists[s].at > Len(events)
  \/ \E x \in Projects : db.projects[x] # Absent /\ db.projects[x].at > Len(events)
  \/ \E o \in Orcids : db.identities[o] # Absent /\ db.identities[o].at > Len(events)
  \/ \E a \in Accounts : db.splits[a].config # NoSplits /\ db.splits[a].at > Len(events)

\* ReorgDetector.ts: "No orphaned entities detected. Reorg cleanup successful."
\* If so, no owner from a replaced event is left once the new events are
\* processed.
CleanupSound == Settled /\ ~failed /\ ~HasOrphans => OwnersCurrent
=============================================================================
