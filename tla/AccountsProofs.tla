---------------------------- MODULE AccountsProofs ----------------------------
(***************************************************************************)
(* Proofs about Accounts for any accounts, owners, documents and splits,   *)
(* whatever is forked, replayed or fails.                                  *)
(***************************************************************************)
EXTENDS Accounts, SequenceTheorems, TLAPS

(* Who may have a receiver without a row: projects and drip lists.           *)
Exempt(d, a) == a \in Projects \/ (a \in Tokens /\ ~HasRow(d, "ecosystems", a))

(* The rows of the projects in the splits s of an account: see ReceiversExist. *)
Accounted(d, a, s) ==
  \A x \in ProjectsIn(s) : d.projects[x] = Absent => Exempt(d, a) /\ Unsourced(a, s, x)

(* What holds of the tables between any two events.                          *)
Consistent(d) ==
  /\ d \in Db
  /\ \A t \in Tokens : \A u, v \in NftTables :
       HasRow(d, u, t) /\ HasRow(d, v, t) => u = v
  /\ \A s \in SubLists : d.subLists[s] # Absent =>
       /\ HasRow(d, "ecosystems", d.subLists[s].parent)
       /\ HasRow(d, "ecosystems", d.subLists[s].root)
  /\ \A a \in Accounts : Accounted(d, a, d.splits[a].config)
  /\ \A x \in Projects : d.projects[x] # Absent =>
       d.projects[x].status = Status(d.projects[x].owner, d.projects[x].described)

(* The events that the contracts emit.                                       *)
Documents == UNION {Published[a] : a \in Tokens \union Projects \union SubLists}

MintEvent == [name : {"Transfer"}, account : Tokens, from : {Zero}, to : Owners]
MoveEvent ==
  [name : {"Transfer"}, account : Tokens, from : Owners, to : Owners \union {Zero}]
MetadataEvent ==
  {e \in [name : {"AccountMetadataEmitted"}, account : Accounts \ Orcids, doc : Documents] :
     e.doc \in Published[e.account]}
SplitsEvent == [name : {"SplitsSet"}, account : Accounts, splits : Splits]
RequestEvent == [name : {"OwnerUpdateRequested"}, account : Projects \union Orcids]
OwnerEvent ==
  [name : {"OwnerUpdated"}, account : Projects \union Orcids, owner : Owners]

Event == MintEvent \union MoveEvent \union MetadataEvent \union SplitsEvent
           \union RequestEvent \union OwnerEvent

FeedInv ==
  /\ chain \in Seq(Event) /\ events \in Seq(Event)
  /\ Len(chain) <= MaxEvents /\ Len(events) <= MaxEvents
  /\ done \in 0..Len(events)
  /\ forked \in BOOLEAN /\ failed \in BOOLEAN
  /\ disturbances \in 0..MaxDisturbances

-----------------------------------------------------------------------------
(* Writing one row. *)

LEMMA DependenciesInProjects == \A s : ProjectsIn(s) \subseteq Projects
  BY AccountAssumption DEF ProjectsIn

(* Receivers stay accounted for while rows of projects are only added and    *)
(* the sender does not become an ecosystem.                                  *)
LEMMA AccountedKept ==
  ASSUME NEW d, NEW n, NEW a, NEW s, Accounted(d, a, s),
         HasRow(n, "ecosystems", a) => HasRow(d, "ecosystems", a),
         \A x \in Projects : n.projects[x] = Absent => d.projects[x] = Absent
  PROVE  Accounted(n, a, s)
  BY DependenciesInProjects DEF Accounted, Exempt

LEMMA AllAccountedKept ==
  ASSUME NEW d, Consistent(d), NEW n, n.splits = d.splits,
         \A v, a : HasRow(n, v, a) <=> HasRow(d, v, a),
         \A x \in Projects : n.projects[x] = Absent => d.projects[x] = Absent
  PROVE  \A a \in Accounts : Accounted(n, a, n.splits[a].config)
<1> TAKE a \in Accounts
<1>1. Accounted(d, a, d.splits[a].config)
  BY DEF Consistent
<1> QED BY <1>1, AccountedKept

(* A token's row may be written where it is; it is pending if it has none.    *)
LEMMA WriteNft ==
  ASSUME NEW d, Consistent(d), NEW u \in NftTables, NEW t \in Tokens, NEW row \in NftRow,
         HasRow(d, u, t) \/ (u = "pending" /\ \A v \in NftTables : ~HasRow(d, v, t))
  PROVE  Consistent([d EXCEPT !.nft[u][t] = row])
<1> DEFINE n == [d EXCEPT !.nft[u][t] = row]
<1>1. n \in Db
  BY DEF Consistent, Db
<1>2. /\ n.subLists = d.subLists /\ n.projects = d.projects /\ n.splits = d.splits
  BY DEF Consistent, Db
<1>3. \A v \in NftTables, a \in Tokens :
        n.nft[v][a] = IF v = u /\ a = t THEN row ELSE d.nft[v][a]
  BY DEF Consistent, Db
<1>4. row # Absent
  BY RowAssumption
<1>5. \A v \in NftTables, a \in Tokens :
        HasRow(n, v, a) <=> (v = u /\ a = t) \/ HasRow(d, v, a)
  BY <1>3, <1>4 DEF HasRow
<1>6. \A a \in Tokens : \A v, w \in NftTables :
        HasRow(n, v, a) /\ HasRow(n, w, a) => v = w
  BY <1>5 DEF Consistent
<1>7. \A s \in SubLists : n.subLists[s] # Absent =>
        /\ HasRow(n, "ecosystems", n.subLists[s].parent)
        /\ HasRow(n, "ecosystems", n.subLists[s].root)
  BY <1>2, <1>5 DEF Consistent, Db, SubListRow, NftTables
<1> HIDE DEF n
<1>8. ASSUME NEW a \in Accounts
      PROVE  Accounted(n, a, n.splits[a].config)
  <2>1. a \in Tokens => (HasRow(n, "ecosystems", a) => HasRow(d, "ecosystems", a))
    BY <1>5 DEF NftTables
  <2>2. Accounted(d, a, d.splits[a].config)
    BY DEF Consistent
  <2> QED BY <1>2, <2>1, <2>2 DEF Accounted, Exempt
<1>9. Consistent(n)
  BY <1>1, <1>2, <1>6, <1>7, <1>8 DEF Consistent
<1> QED BY <1>9 DEF n

(* A pending token moves to the table of its kind. *)
LEMMA MigrateNft ==
  ASSUME NEW d, Consistent(d), NEW u \in {"drip_lists", "ecosystems"}, NEW t \in Tokens,
         HasRow(d, "pending", t),
         u = "ecosystems" =>
           \A x \in ProjectsIn(d.splits[t].config) : d.projects[x] # Absent
  PROVE  /\ Consistent(Migrate(d, u, t))
         /\ HasRow(Migrate(d, u, t), u, t)
<1> DEFINE n == Migrate(d, u, t)
           row == [d.nft["pending"][t] EXCEPT !.valid = TRUE]
<1>0. u \in NftTables /\ "pending" \in NftTables /\ u # "pending"
  BY DEF NftTables
<1>a. d.nft \in [NftTables -> [Tokens -> NftRow \union {Absent}]]
  BY DEF Consistent, Db
<1>b. d.nft["pending"][t] \in NftRow
  BY <1>a, <1>0 DEF HasRow
<1>c. row \in NftRow
  BY <1>b DEF NftRow
<1>1. row \in NftRow /\ row # Absent
  BY <1>c, RowAssumption
<1>2. n.nft = [d.nft EXCEPT ![u][t] = row, !["pending"][t] = Absent]
  BY <1>0 DEF Migrate, Consistent, Db
<1>3. /\ n.subLists = d.subLists /\ n.projects = d.projects /\ n.splits = d.splits
      /\ n.identities = d.identities
  BY <1>0 DEF Migrate, Consistent, Db
<1>4. n \in Db
  BY <1>0, <1>1 DEF Migrate, Consistent, Db
<1>5. \A v \in NftTables, a \in Tokens :
        n.nft[v][a] = IF v = u /\ a = t THEN row
                      ELSE IF v = "pending" /\ a = t THEN Absent ELSE d.nft[v][a]
  <2> HIDE DEF n, row
  <2> QED BY <1>a, <1>0, <1>2
<1>6. \A v \in NftTables, a \in Tokens :
        HasRow(n, v, a) <=> \/ v = u /\ a = t
                            \/ HasRow(d, v, a) /\ ~(v = "pending" /\ a = t)
  BY <1>0, <1>1, <1>5 DEF HasRow
<1>7. \A a \in Tokens : \A v, w \in NftTables :
        HasRow(n, v, a) /\ HasRow(n, w, a) => v = w
  BY <1>0, <1>6 DEF Consistent
<1>8. \A s \in SubLists : n.subLists[s] # Absent =>
        /\ HasRow(n, "ecosystems", n.subLists[s].parent)
        /\ HasRow(n, "ecosystems", n.subLists[s].root)
  BY <1>0, <1>3, <1>6 DEF Consistent, Db, SubListRow, NftTables
<1>9. HasRow(n, u, t)
  BY <1>0, <1>6
<1> HIDE DEF n
<1>10. ASSUME NEW a \in Accounts
       PROVE  Accounted(n, a, n.splits[a].config)
  <2>1. a \in Tokens => (HasRow(n, "ecosystems", a) =>
                            HasRow(d, "ecosystems", a) \/ (a = t /\ u = "ecosystems"))
    BY <1>6 DEF NftTables
  <2>2. Accounted(d, a, d.splits[a].config)
    BY DEF Consistent
  <2> QED BY <1>3, <2>1, <2>2 DEF Accounted, Exempt
<1>11. Consistent(n)
  BY <1>3, <1>4, <1>7, <1>8, <1>10 DEF Consistent
<1> QED BY <1>9, <1>11 DEF n

(* A sub list may be written if its parent and root are ecosystems. *)
LEMMA WriteSubList ==
  ASSUME NEW d, Consistent(d), NEW s \in SubLists, NEW row \in SubListRow,
         HasRow(d, "ecosystems", row.parent), HasRow(d, "ecosystems", row.root)
  PROVE  Consistent([d EXCEPT !.subLists[s] = row])
<1> DEFINE n == [d EXCEPT !.subLists[s] = row]
<1>1. n \in Db
  BY DEF Consistent, Db
<1>2. /\ n.nft = d.nft /\ n.projects = d.projects /\ n.splits = d.splits
      /\ n.subLists = [d.subLists EXCEPT ![s] = row]
  BY DEF Consistent, Db
<1>3. \A v, a : HasRow(n, v, a) <=> HasRow(d, v, a)
  BY <1>2 DEF HasRow
<1> HIDE DEF n
<1>4. \A a \in SubLists : n.subLists[a] = IF a = s THEN row ELSE d.subLists[a]
  BY <1>2 DEF Consistent, Db
<1>5. \A a \in Accounts : Accounted(n, a, n.splits[a].config)
  BY <1>2, <1>3, AllAccountedKept
<1>6. Consistent(n)
  BY <1>1, <1>2, <1>3, <1>4, <1>5 DEF Consistent
<1> QED BY <1>6 DEF n

(* A project may be written if its status is that of its other columns. *)
LEMMA WriteProject ==
  ASSUME NEW d, Consistent(d), NEW x \in Projects, NEW row \in ProjectRow,
         row.status = Status(row.owner, row.described)
  PROVE  Consistent([d EXCEPT !.projects[x] = row])
<1> DEFINE n == [d EXCEPT !.projects[x] = row]
<1>1. n \in Db
  BY DEF Consistent, Db
<1>2. /\ n.nft = d.nft /\ n.subLists = d.subLists /\ n.splits = d.splits
      /\ n.projects = [d.projects EXCEPT ![x] = row]
  BY DEF Consistent, Db
<1>3. \A v, a : HasRow(n, v, a) <=> HasRow(d, v, a)
  BY <1>2 DEF HasRow
<1>4. row # Absent
  BY RowAssumption
<1> HIDE DEF n
<1>5. \A a \in Projects : n.projects[a] = IF a = x THEN row ELSE d.projects[a]
  BY <1>2 DEF Consistent, Db
<1>6. \A a \in Accounts : Accounted(n, a, n.splits[a].config)
  <2>1. \A a \in Projects : n.projects[a] = Absent => d.projects[a] = Absent
    BY <1>4, <1>5
  <2>2. n.splits = d.splits
    BY <1>2
  <2> QED BY <1>3, <2>1, <2>2, AllAccountedKept
<1>7. Consistent(n)
  BY <1>1, <1>2, <1>3, <1>4, <1>5, <1>6 DEF Consistent
<1> QED BY <1>7 DEF n

(* An identity may be written as it is. *)
LEMMA WriteIdentity ==
  ASSUME NEW d, Consistent(d), NEW o \in Orcids, NEW row \in IdentityRow
  PROVE  Consistent([d EXCEPT !.identities[o] = row])
<1> DEFINE n == [d EXCEPT !.identities[o] = row]
<1>1. n \in Db
  BY DEF Consistent, Db
<1>2. /\ n.nft = d.nft /\ n.subLists = d.subLists /\ n.splits = d.splits
      /\ n.projects = d.projects
  BY DEF Consistent, Db
<1>3. \A v, a : HasRow(n, v, a) <=> HasRow(d, v, a)
  BY <1>2 DEF HasRow
<1> HIDE DEF n
<1>4. \A a \in Accounts : Accounted(n, a, n.splits[a].config)
  BY <1>2, <1>3, AllAccountedKept
<1>5. Consistent(n)
  BY <1>1, <1>2, <1>3, <1>4 DEF Consistent
<1> QED BY <1>5 DEF n

-----------------------------------------------------------------------------
(* The shared steps of handlers. *)

LEMMA StatusType ==
  ASSUME NEW o, NEW b
  PROVE  Status(o, b) \in {"unclaimed", "pending_metadata", "claimed"}
  BY DEF Status

LEMMA UnclaimedRow ==
  ASSUME NEW p \in Nat
  PROVE  /\ Unclaimed(p) \in ProjectRow
         /\ Unclaimed(p) # Absent
         /\ Unclaimed(p).status = Status(Unclaimed(p).owner, Unclaimed(p).described)
<1>1. Unclaimed(p) \in ProjectRow
  BY DEF Unclaimed, ProjectRow
<1>2. Unclaimed(p) # Absent
  BY <1>1, RowAssumption
<1>3. Unclaimed(p).status = Status(Unclaimed(p).owner, Unclaimed(p).described)
  BY DEF Unclaimed, Status
<1> QED BY <1>1, <1>2, <1>3

LEMMA RowTypes ==
  ASSUME NEW d, Consistent(d)
  PROVE  /\ \A u \in NftTables, t \in Tokens : HasRow(d, u, t) => d.nft[u][t] \in NftRow
         /\ \A s \in SubLists : d.subLists[s] # Absent => d.subLists[s] \in SubListRow
         /\ \A x \in Projects : d.projects[x] # Absent => d.projects[x] \in ProjectRow
         /\ \A o \in Orcids : d.identities[o] # Absent => d.identities[o] \in IdentityRow
  BY DEF Consistent, Db, HasRow

LEMMA SourcedInProjects == \A doc : Sourced(doc) \subseteq Projects
  BY DependenciesInProjects DEF Sourced

(* What an ecosystem or a sub list takes for a project has a GitHub source.   *)
LEMMA TypedAreSourced ==
  ASSUME NEW doc, ~Mistyped(doc), doc.kind # "dripList"
  PROVE  ProjectsIn(doc.splits) \subseteq Sourced(doc)
  BY DEF Mistyped, SaysProject, Sourced

LEMMA EnsureProjectsConsistent ==
  ASSUME NEW d, Consistent(d), NEW doc, NEW p \in Nat
  PROVE  /\ Consistent(EnsureProjects(d, doc, p))
         /\ EnsureProjects(d, doc, p).nft = d.nft
         /\ EnsureProjects(d, doc, p).subLists = d.subLists
         /\ \A x \in Sourced(doc) : EnsureProjects(d, doc, p).projects[x] # Absent
<1> DEFINE n == EnsureProjects(d, doc, p)
<1>1. Unclaimed(p) \in ProjectRow /\ Unclaimed(p) # Absent
  BY UnclaimedRow
<1>2. Unclaimed(p).status = Status(Unclaimed(p).owner, Unclaimed(p).described)
  BY UnclaimedRow
<1>3. /\ n.nft = d.nft /\ n.subLists = d.subLists /\ n.splits = d.splits
      /\ n.projects = [x \in Projects |-> IF x \in Sourced(doc) /\ d.projects[x] = Absent
                                            THEN Unclaimed(p) ELSE d.projects[x]]
  BY DEF EnsureProjects, Consistent, Db
<1>4. n.projects \in [Projects -> ProjectRow \union {Absent}]
  BY <1>1, <1>3 DEF Consistent, Db
<1>5. n \in Db
  <2>1. n = [d EXCEPT !.projects = n.projects]
    BY <1>3 DEF EnsureProjects
  <2> HIDE DEF n
  <2> QED BY <1>4, <2>1 DEF Consistent, Db
<1> HIDE DEF n
<1>6. \A x \in Projects : n.projects[x] = Absent => d.projects[x] = Absent
  BY <1>1, <1>3
<1>7. \A x \in Sourced(doc) : n.projects[x] # Absent
  BY <1>1, <1>3, SourcedInProjects
<1>8. \A x \in Projects : n.projects[x] # Absent =>
        n.projects[x].status = Status(n.projects[x].owner, n.projects[x].described)
  BY <1>2, <1>3 DEF Consistent
<1>9. \A v, a : HasRow(n, v, a) <=> HasRow(d, v, a)
  BY <1>3 DEF HasRow
<1>10. \A a \in Accounts : Accounted(n, a, n.splits[a].config)
  BY <1>3, <1>6, <1>9, AllAccountedKept
<1>11. Consistent(n)
  BY <1>3, <1>5, <1>8, <1>9, <1>10 DEF Consistent
<1> QED BY <1>3, <1>7, <1>11 DEF n

LEMMA ReplaceSplitsConsistent ==
  ASSUME NEW d, Consistent(d), NEW a \in Accounts, NEW s \in Splits, NEW p \in Nat,
         Accounted(d, a, s)
  PROVE  /\ Consistent(ReplaceSplits(d, a, s, p))
         /\ ReplaceSplits(d, a, s, p).nft = d.nft
         /\ ReplaceSplits(d, a, s, p).subLists = d.subLists
         /\ ReplaceSplits(d, a, s, p).projects = d.projects
         /\ ReplaceSplits(d, a, s, p).splits[a].config = s
<1> DEFINE n == ReplaceSplits(d, a, s, p)
           row == [config |-> s, at |-> p]
<1>1. row \in SplitsRow
  BY DEF SplitsRow
<1>2. n = [d EXCEPT !.splits[a] = row]
  BY DEF ReplaceSplits
<1> HIDE DEF n, row
<1>3. /\ n.nft = d.nft /\ n.subLists = d.subLists /\ n.projects = d.projects
      /\ n.splits = [d.splits EXCEPT ![a] = row]
  BY <1>2 DEF Consistent, Db
<1>4. n \in Db
  BY <1>1, <1>2 DEF Consistent, Db
<1>5. \A b \in Accounts : n.splits[b] = IF b = a THEN row ELSE d.splits[b]
  BY <1>3 DEF Consistent, Db
<1>6. row.config = s
  BY DEF row
<1>7. \A v, b : HasRow(n, v, b) <=> HasRow(d, v, b)
  BY <1>3 DEF HasRow
<1>8. ASSUME NEW b \in Accounts
      PROVE  Accounted(n, b, n.splits[b].config)
  <2>1. Accounted(d, b, n.splits[b].config)
    BY <1>5, <1>6 DEF Consistent
  <2> QED BY <1>3, <1>7, <2>1, AccountedKept
<1>9. Consistent(n)
  BY <1>3, <1>4, <1>7, <1>8 DEF Consistent
<1> QED BY <1>3, <1>5, <1>6, <1>9 DEF n

(* A document whose splits the account may store: if the account may not have *)
(* receivers without rows, then all of them have a GitHub source.             *)
Accountable(d, e) ==
  /\ e.doc \in Published[e.account]
  /\ Exempt(d, e.account) \/ ProjectsIn(e.doc.splits) \subseteq Sourced(e.doc)

LEMMA DescribeSplitsConsistent ==
  ASSUME NEW d, Consistent(d), NEW e, e.account \in Accounts, e.doc.splits \in Splits,
         Accountable(d, e), NEW p \in Nat
  PROVE  LET n == DescribeSplits(d, e, p) IN
           /\ Consistent(n)
           /\ n.nft = d.nft /\ n.subLists = d.subLists
           /\ \A x \in Sourced(e.doc) : n.projects[x] # Absent
           /\ n.projects = EnsureProjects(d, e.doc, p).projects
           /\ n.splits[e.account].config = e.doc.splits
<1> DEFINE m == EnsureProjects(d, e.doc, p)
<1>1. /\ Consistent(m) /\ m.nft = d.nft /\ m.subLists = d.subLists
      /\ \A x \in Sourced(e.doc) : m.projects[x] # Absent
  BY EnsureProjectsConsistent
<1> HIDE DEF m
<1>2. Accounted(m, e.account, e.doc.splits)
  <2> SUFFICES ASSUME NEW x \in ProjectsIn(e.doc.splits), m.projects[x] = Absent
               PROVE  Exempt(m, e.account) /\ Unsourced(e.account, e.doc.splits, x)
    BY DEF Accounted
  <2>1. x \notin Sourced(e.doc)
    BY <1>1
  <2>2. Unsourced(e.account, e.doc.splits, x)
    BY <2>1 DEF Unsourced, Accountable
  <2>3. Exempt(d, e.account)
    BY <2>1 DEF Accountable
  <2> QED BY <1>1, <2>2, <2>3 DEF Exempt, HasRow
<1>3. LET n == ReplaceSplits(m, e.account, e.doc.splits, p) IN
        /\ Consistent(n) /\ n.nft = m.nft /\ n.subLists = m.subLists
        /\ n.projects = m.projects /\ n.splits[e.account].config = e.doc.splits
  BY <1>1, <1>2, ReplaceSplitsConsistent
<1>4. DescribeSplits(d, e, p) = ReplaceSplits(m, e.account, e.doc.splits, p)
  BY DEF DescribeSplits, m
<1> QED BY <1>1, <1>3, <1>4 DEF m

-----------------------------------------------------------------------------
(* One lemma for each handler: if it does not throw, the tables it leaves    *)
(* are consistent.                                                           *)

LEMMA AfterTransferConsistent ==
  ASSUME NEW d, Consistent(d), NEW e \in MintEvent \union MoveEvent, NEW p \in Nat
  PROVE  Consistent(AfterTransfer(d, e, p))
<1> DEFINE t == e.account
<1>1. /\ t \in Tokens /\ e.to \in Owners \union {Zero}
      /\ IsMint(e) => e.to \in Owners
  BY AccountAssumption DEF MintEvent, MoveEvent, IsMint
<1>2. TransferVisible(e, p) \in BOOLEAN
  BY DEF TransferVisible, IsMint
<1>3. ASSUME NEW u \in NftTables, HasRow(d, u, t)
      PROVE  Consistent([d EXCEPT !.nft[u][t] = Transferred(d.nft[u][t], e, p)])
  <2>1. d.nft[u][t] \in NftRow
    BY <1>1, <1>3, RowTypes
  <2>2. Transferred(d.nft[u][t], e, p) \in NftRow
    BY <1>1, <1>2, <2>1 DEF Transferred, NftRow
  <2> QED BY <1>1, <1>3, <2>2, WriteNft
<1>4. ASSUME ~HasRow(d, "drip_lists", t), ~HasRow(d, "ecosystems", t)
      PROVE  Consistent(UpsertPending(d, e, p))
  <2> DEFINE row == [owner |-> e.to, creator |-> IF IsMint(e) THEN e.to ELSE Absent,
                     visible |-> TransferVisible(e, p), valid |-> TRUE, at |-> p]
  <2>1. row \in NftRow
    BY <1>1, <1>2 DEF NftRow
  <2>2. "pending" \in NftTables
    BY DEF NftTables
  <2>3. HasRow(d, "pending", t) \/ \A v \in NftTables : ~HasRow(d, v, t)
    BY <1>4 DEF NftTables
  <2> HIDE DEF row
  <2>4. Consistent([d EXCEPT !.nft["pending"][t] = row])
    BY <1>1, <2>1, <2>2, <2>3, WriteNft
  <2> QED BY <2>4 DEF UpsertPending, row
<1>5. "drip_lists" \in NftTables /\ "ecosystems" \in NftTables
  BY DEF NftTables
<1> QED BY <1>3, <1>4, <1>5 DEF AfterTransfer

(* A drip list is exempt, wherever its row waits. *)
LEMMA DescriptionAccountable ==
  ASSUME NEW d, Consistent(d), NEW e, e.account \in Tokens, e.doc \in Published[e.account],
         NEW table \in {"drip_lists", "ecosystems"}, Known(d, table, e.account),
         table = "ecosystems" => ProjectsIn(e.doc.splits) \subseteq Sourced(e.doc)
  PROVE  Accountable(d, e)
<1>1. CASE table = "drip_lists"
  <2>1. ~HasRow(d, "ecosystems", e.account)
    BY <1>1 DEF Known, Consistent, NftTables
  <2> QED BY <2>1 DEF Accountable, Exempt
<1>2. CASE table = "ecosystems"
  BY <1>2 DEF Accountable
<1> QED BY <1>1, <1>2

LEMMA DescribeConsistent ==
  ASSUME NEW d, Consistent(d), NEW e, e.account \in Tokens, e.doc.splits \in Splits,
         NEW p \in Nat, NEW live, NEW table \in {"drip_lists", "ecosystems"},
         Known(d, table, e.account), e.doc \in Published[e.account],
         table = "ecosystems" => ProjectsIn(e.doc.splits) \subseteq Sourced(e.doc)
  PROVE  Consistent(Describe(d, e, p, live, table))
<1> DEFINE t == e.account
           split == DescribeSplits(d, e, p)
           placed == IF HasRow(d, table, t) THEN split ELSE Migrate(split, table, t)
           row == [placed.nft[table][t] EXCEPT !.visible = DocVisible(e.doc, p),
                                               !.valid = Matches(split, t, live), !.at = p]
<1>0. table \in NftTables /\ t \in Accounts
  BY DEF NftTables, Accounts
<1>a. Accountable(d, e)
  BY DescriptionAccountable
<1>1. /\ Consistent(split) /\ split.nft = d.nft
      /\ \A x \in Sourced(e.doc) : split.projects[x] # Absent
      /\ split.splits[t].config = e.doc.splits
  BY <1>0, <1>a, DescribeSplitsConsistent
<1>2. DocVisible(e.doc, p) \in BOOLEAN /\ Matches(split, t, live) \in BOOLEAN
  BY DEF DocVisible, Matches
<1> HIDE DEF split
<1>3. Consistent(placed) /\ HasRow(placed, table, t)
  <2>1. CASE HasRow(d, table, t)
    BY <2>1, <1>1 DEF HasRow
  <2>2. CASE ~HasRow(d, table, t)
    <3>1. HasRow(split, "pending", t)
      BY <2>2, <1>1 DEF Known, HasRow
    <3>2. table = "ecosystems" =>
            \A x \in ProjectsIn(split.splits[t].config) : split.projects[x] # Absent
      BY <1>1
    <3> QED BY <2>2, <3>1, <3>2, <1>1, MigrateNft
  <2> QED BY <2>1, <2>2
<1> HIDE DEF placed
<1>4. placed.nft[table][t] \in NftRow
  BY <1>0, <1>3, RowTypes
<1>5. row \in NftRow
  BY <1>2, <1>4 DEF NftRow
<1> HIDE DEF row
<1>6. Consistent([placed EXCEPT !.nft[table][t] = row])
  BY <1>0, <1>3, <1>5, WriteNft
<1> QED BY <1>6 DEF Describe, row, placed, split

LEMMA AfterTokenMetadataConsistent ==
  ASSUME NEW d, Consistent(d), NEW e, e.account \in Tokens, e.doc.splits \in Splits,
         e.doc \in Published[e.account], NEW p \in Nat, NEW live, ~TokenMetadataThrows(d, e)
  PROVE  Consistent(AfterTokenMetadata(d, e, p, live))
<1>1. CASE e.doc.kind = "dripList"
  <2>1. Known(d, "drip_lists", e.account)
    BY <1>1 DEF TokenMetadataThrows, DripListThrows
  <2>2. Consistent(Describe(d, e, p, live, "drip_lists"))
    BY <2>1, DescribeConsistent
  <2> QED BY <1>1, <2>2 DEF AfterTokenMetadata, AfterDripList
<1>2. CASE e.doc.kind = "ecosystem"
  <2>1. /\ Known(d, "ecosystems", e.account)
        /\ ProjectsIn(e.doc.splits) \subseteq Sourced(e.doc)
    BY <1>2, TypedAreSourced DEF TokenMetadataThrows, EcosystemThrows
  <2>2. Consistent(Describe(d, e, p, live, "ecosystems"))
    BY <2>1, DescribeConsistent
  <2> QED BY <1>2, <2>2 DEF AfterTokenMetadata, AfterEcosystem
<1>3. CASE e.doc.kind # "dripList" /\ e.doc.kind # "ecosystem"
  BY <1>3 DEF AfterTokenMetadata
<1> QED BY <1>1, <1>2, <1>3

LEMMA AfterTokenSplitsConsistent ==
  ASSUME NEW d, Consistent(d), NEW e, e.account \in Tokens, NEW p \in Nat, NEW live,
         ~TokenSplitsThrow(d, e)
  PROVE  Consistent(AfterTokenSplits(d, e, p, live))
<1> DEFINE t == e.account
           table == IF HasRow(d, "drip_lists", t) THEN "drip_lists" ELSE "ecosystems"
           row == [d.nft[table][t] EXCEPT !.valid = Matches(d, t, live), !.at = p]
<1>1. table \in NftTables /\ HasRow(d, table, t)
  BY DEF TokenSplitsThrow, NftTables, HasRow
<1>2. AfterTokenSplits(d, e, p, live) = [d EXCEPT !.nft[table][t] = row]
  BY DEF AfterTokenSplits
<1> HIDE DEF table
<1>3. d.nft[table][t] \in NftRow
  BY <1>1, RowTypes
<1>4. row \in NftRow
  BY <1>3 DEF NftRow, Matches
<1> HIDE DEF row
<1> QED BY <1>1, <1>2, <1>4, WriteNft

LEMMA AfterSubListMetadataConsistent ==
  ASSUME NEW d, Consistent(d), NEW e, e.account \in SubLists, IsDocument(e.doc),
         e.doc \in Published[e.account], NEW p \in Nat, NEW live,
         ~SubListMetadataThrows(d, e)
  PROVE  Consistent(AfterSubListMetadata(d, e, p, live))
<1>1. CASE e.doc.kind # "subList"
  BY <1>1 DEF AfterSubListMetadata
<1>2. CASE e.doc.kind = "subList"
  <2> DEFINE split == DescribeSplits(d, e, p)
             row == [parent |-> e.doc.parent, root |-> e.doc.root,
                     valid |-> Matches(split, e.account, live), at |-> p]
  <2>a. Accountable(d, e)
    BY <1>2, TypedAreSourced DEF SubListMetadataThrows, Accountable
  <2>1. Consistent(split) /\ split.nft = d.nft
    BY <2>a, DescribeSplitsConsistent DEF IsDocument, Accounts
  <2>2. /\ HasRow(split, "ecosystems", e.doc.parent)
        /\ HasRow(split, "ecosystems", e.doc.root)
    BY <1>2, <2>1 DEF SubListMetadataThrows, HasRow
  <2> HIDE DEF split
  <2>3. row \in SubListRow
    BY <1>2 DEF SubListRow, IsDocument, Matches
  <2>4. row.parent = e.doc.parent /\ row.root = e.doc.root
    OBVIOUS
  <2> HIDE DEF row
  <2>5. Consistent([split EXCEPT !.subLists[e.account] = row])
    BY <2>1, <2>2, <2>3, <2>4, WriteSubList
  <2> QED BY <1>2, <2>5 DEF AfterSubListMetadata, split, row
<1> QED BY <1>1, <1>2

LEMMA AfterSubListSplitsConsistent ==
  ASSUME NEW d, Consistent(d), NEW e, e.account \in SubLists, NEW p \in Nat, NEW live,
         ~SubListSplitsThrow(d, e)
  PROVE  Consistent(AfterSubListSplits(d, e, p, live))
<1> DEFINE old == d.subLists[e.account]
           row == [old EXCEPT !.valid = Matches(d, e.account, live), !.at = p]
<1>1. old # Absent
  BY DEF SubListSplitsThrow
<1>2. old \in SubListRow
  BY <1>1, RowTypes
<1>3. HasRow(d, "ecosystems", old.parent) /\ HasRow(d, "ecosystems", old.root)
  BY <1>1 DEF Consistent
<1>4. AfterSubListSplits(d, e, p, live) = [d EXCEPT !.subLists[e.account] = row]
  BY DEF AfterSubListSplits
<1> HIDE DEF old
<1>5. row \in SubListRow /\ row.parent = old.parent /\ row.root = old.root
  BY <1>2 DEF SubListRow, Matches
<1> HIDE DEF row
<1> QED BY <1>3, <1>4, <1>5, WriteSubList

LEMMA AfterRequestConsistent ==
  ASSUME NEW d, Consistent(d), NEW e, e.account \in Projects \union Orcids, NEW p \in Nat
  PROVE  Consistent(AfterRequest(d, e, p))
<1> DEFINE a == e.account
<1>1. CASE a \in Projects
  <2> DEFINE row == IF d.projects[a] = Absent THEN Unclaimed(p) ELSE d.projects[a]
  <2>1. /\ Unclaimed(p) \in ProjectRow
        /\ Unclaimed(p).status = Status(Unclaimed(p).owner, Unclaimed(p).described)
    BY UnclaimedRow
  <2>2. d.projects[a] # Absent => /\ d.projects[a] \in ProjectRow
                                  /\ d.projects[a].status =
                                       Status(d.projects[a].owner, d.projects[a].described)
    BY <1>1, RowTypes DEF Consistent
  <2>3. row \in ProjectRow /\ row.status = Status(row.owner, row.described)
    BY <2>1, <2>2
  <2> HIDE DEF row
  <2>4. Consistent([d EXCEPT !.projects[a] = row])
    BY <1>1, <2>3, WriteProject
  <2> QED BY <1>1, <2>4 DEF AfterRequest, row
<1>2. CASE a \notin Projects
  <2> DEFINE row == IF d.identities[a] = Absent
                      THEN [owner |-> Absent, valid |-> FALSE, at |-> p]
                      ELSE d.identities[a]
  <2>1. a \in Orcids
    BY <1>2
  <2>2. row \in IdentityRow
    BY <2>1, RowTypes DEF IdentityRow
  <2> HIDE DEF row
  <2>3. Consistent([d EXCEPT !.identities[a] = row])
    BY <2>1, <2>2, WriteIdentity
  <2> QED BY <1>2, <2>3 DEF AfterRequest, row
<1> QED BY <1>1, <1>2

LEMMA AfterOwnerConsistent ==
  ASSUME NEW d, Consistent(d), NEW e, e.account \in Projects \union Orcids,
         e.owner \in Owners, NEW p \in Nat, ~OwnerThrows(d, e)
  PROVE  Consistent(AfterOwner(d, e, p))
<1> DEFINE a == e.account
<1>1. CASE a \in Projects
  <2> DEFINE old == d.projects[a]
             row == [old EXCEPT !.owner = e.owner, !.at = p,
                                !.status = Status(e.owner, old.described)]
  <2>1. old \in ProjectRow
    BY <1>1, RowTypes DEF OwnerThrows
  <2>2. AfterOwner(d, e, p) = [d EXCEPT !.projects[a] = row]
    BY <1>1 DEF AfterOwner
  <2> HIDE DEF old
  <2>3. /\ row \in ProjectRow
        /\ row.owner = e.owner /\ row.described = old.described
        /\ row.status = Status(e.owner, old.described)
    BY <2>1, StatusType DEF ProjectRow
  <2> HIDE DEF row
  <2> QED BY <1>1, <2>2, <2>3, WriteProject
<1>2. CASE a \notin Projects
  <2> DEFINE old == d.identities[a]
             row == [old EXCEPT !.owner = e.owner, !.at = p]
  <2>1. a \in Orcids
    BY <1>2
  <2>2. old \in IdentityRow
    BY <2>1, RowTypes DEF OwnerThrows
  <2>3. AfterOwner(d, e, p) = [d EXCEPT !.identities[a] = row]
    BY <1>2 DEF AfterOwner
  <2> HIDE DEF old
  <2>4. row \in IdentityRow
    BY <2>2 DEF IdentityRow
  <2> HIDE DEF row
  <2> QED BY <2>1, <2>3, <2>4, WriteIdentity
<1> QED BY <1>1, <1>2

LEMMA AfterProjectMetadataConsistent ==
  ASSUME NEW d, Consistent(d), NEW e, e.account \in Projects, IsDocument(e.doc),
         e.doc \in Published[e.account], NEW p \in Nat, NEW live,
         ~ProjectMetadataThrows(d, e)
  PROVE  Consistent(AfterProjectMetadata(d, e, p, live))
<1> DEFINE a == e.account
           split == DescribeSplits(d, e, p)
           old == split.projects[a]
           row == [old EXCEPT
                    !.described = TRUE, !.at = p,
                    !.visible = IF e.doc.visible = "unsaid" THEN old.visible
                                                            ELSE e.doc.visible = "shown",
                    !.valid = Matches(split, a, live), !.status = Status(old.owner, TRUE)]
<1>0. a \in Accounts /\ e.doc.splits \in Splits
  BY DEF Accounts, IsDocument
<1>a. Accountable(d, e)
  BY DEF Accountable, Exempt
<1>1. Consistent(split) /\ split.projects = EnsureProjects(d, e.doc, p).projects
  BY <1>0, <1>a, DescribeSplitsConsistent
<1>2. old # Absent
  <2>1. EnsureProjects(d, e.doc, 0).projects[a] # Absent
    BY DEF ProjectMetadataThrows
  <2>2. d.projects[a] # Absent \/ a \in Sourced(e.doc)
    BY <2>1 DEF EnsureProjects, Consistent, Db
  <2>3. Unclaimed(p) # Absent
    BY UnclaimedRow
  <2>4. EnsureProjects(d, e.doc, p).projects[a] # Absent
    BY <2>2, <2>3 DEF EnsureProjects, Consistent, Db
  <2> QED BY <1>1, <2>4
<1>3. AfterProjectMetadata(d, e, p, live) = [split EXCEPT !.projects[a] = row]
  BY DEF AfterProjectMetadata
<1> HIDE DEF split
<1>4. old \in ProjectRow
  BY <1>1, <1>2, RowTypes
<1> HIDE DEF old
<1>5. /\ row \in ProjectRow
      /\ row.owner = old.owner /\ row.described = TRUE
      /\ row.status = Status(old.owner, TRUE)
  BY <1>4, StatusType DEF ProjectRow, Matches
<1> HIDE DEF row
<1>6. Consistent([split EXCEPT !.projects[a] = row])
  BY <1>1, <1>5, WriteProject
<1> QED BY <1>3, <1>6

LEMMA AfterProjectSplitsConsistent ==
  ASSUME NEW d, Consistent(d), NEW e, e.account \in Projects, NEW p \in Nat, NEW live,
         ~ProjectSplitsThrow(d, e)
  PROVE  Consistent(AfterProjectSplits(d, e, p, live))
<1> DEFINE old == d.projects[e.account]
           row == [old EXCEPT !.valid = Matches(d, e.account, live), !.at = p,
                              !.status = Status(old.owner, old.described)]
<1>1. old \in ProjectRow
  BY RowTypes DEF ProjectSplitsThrow
<1>2. AfterProjectSplits(d, e, p, live) = [d EXCEPT !.projects[e.account] = row]
  BY DEF AfterProjectSplits
<1> HIDE DEF old
<1>3. /\ row \in ProjectRow
      /\ row.owner = old.owner /\ row.described = old.described
      /\ row.status = Status(old.owner, old.described)
  BY <1>1, StatusType DEF ProjectRow, Matches
<1> HIDE DEF row
<1> QED BY <1>2, <1>3, WriteProject

LEMMA AfterIdentitySplitsConsistent ==
  ASSUME NEW d, Consistent(d), NEW e, e.account \in Orcids, NEW p \in Nat, NEW live,
         ~IdentitySplitsThrow(d, e)
  PROVE  Consistent(AfterIdentitySplits(d, e, p, live))
<1> DEFINE old == d.identities[e.account]
           row == [old EXCEPT !.at = p,
                     !.valid = /\ live[e.account] = e.splits
                               /\ live[e.account] = Pays(old.owner)]
<1>1. old \in IdentityRow
  BY RowTypes DEF IdentitySplitsThrow
<1>2. AfterIdentitySplits(d, e, p, live) = [d EXCEPT !.identities[e.account] = row]
  BY DEF AfterIdentitySplits
<1> HIDE DEF old
<1>3. row \in IdentityRow
  BY <1>1 DEF IdentityRow
<1> HIDE DEF row
<1> QED BY <1>2, <1>3, WriteIdentity

-----------------------------------------------------------------------------
(* Every handler, for every event that the contracts emit. *)

LEMMA DocumentsAreDocuments == \A doc \in Documents : IsDocument(doc)
  BY FeedAssumption DEF Documents

LEMMA AfterConsistent ==
  ASSUME NEW d, Consistent(d), NEW e \in Event, NEW p \in Nat, NEW live,
         ~Throws(d, e)
  PROVE  Consistent(After(d, e, p, live))
<1>1. CASE e \in MintEvent \union MoveEvent
  <2>1. Consistent(AfterTransfer(d, e, p))
    BY <1>1, AfterTransferConsistent
  <2>2. e.name = "Transfer"
    BY <1>1 DEF MintEvent, MoveEvent
  <2> QED BY <2>1, <2>2 DEF After
<1>2. CASE e \in MetadataEvent
  <2>1. /\ e.name = "AccountMetadataEmitted"
        /\ e.account \in Tokens \union Projects \union SubLists
        /\ IsDocument(e.doc) /\ e.doc \in Published[e.account]
    BY <1>2, DocumentsAreDocuments DEF MetadataEvent, Accounts
  <2>2. After(d, e, p, live) = AfterMetadata(d, e, p, live)
    BY <2>1 DEF After
  <2>3. e.doc.splits \in Splits
    BY <2>1 DEF IsDocument
  <2>4. CASE e.account \in Tokens
    <3>1. ~TokenMetadataThrows(d, e)
      BY <2>1, <2>4 DEF Throws, MetadataThrows
    <3> QED BY <2>1, <2>2, <2>3, <2>4, <3>1, AfterTokenMetadataConsistent, AccountAssumption
            DEF AfterMetadata
  <2>5. CASE e.account \in SubLists
    <3>1. ~SubListMetadataThrows(d, e)
      BY <2>1, <2>5 DEF Throws, MetadataThrows
    <3> QED BY <2>1, <2>2, <2>5, <3>1, AfterSubListMetadataConsistent, AccountAssumption
            DEF AfterMetadata
  <2>6. CASE e.account \in Projects
    <3>1. ~ProjectMetadataThrows(d, e)
      BY <2>1, <2>6 DEF Throws, MetadataThrows
    <3> QED BY <2>1, <2>2, <2>6, <3>1, AfterProjectMetadataConsistent, AccountAssumption
            DEF AfterMetadata
  <2> QED BY <2>1, <2>4, <2>5, <2>6
<1>3. CASE e \in SplitsEvent
  <2>1. e.name = "SplitsSet" /\ e.account \in Accounts
    BY <1>3 DEF SplitsEvent
  <2>2. After(d, e, p, live) = AfterSplits(d, e, p, live)
    BY <2>1 DEF After
  <2>3. ~SplitsThrow(d, e)
    BY <2>1 DEF Throws
  <2>4. CASE e.account \in Tokens
    BY <2>2, <2>3, <2>4, AfterTokenSplitsConsistent, AccountAssumption
    DEF AfterSplits, SplitsThrow
  <2>5. CASE e.account \in SubLists
    BY <2>2, <2>3, <2>5, AfterSubListSplitsConsistent, AccountAssumption
    DEF AfterSplits, SplitsThrow
  <2>6. CASE e.account \in Projects
    BY <2>2, <2>3, <2>6, AfterProjectSplitsConsistent, AccountAssumption
    DEF AfterSplits, SplitsThrow
  <2>7. CASE e.account \in Orcids
    BY <2>2, <2>3, <2>7, AfterIdentitySplitsConsistent, AccountAssumption
    DEF AfterSplits, SplitsThrow
  <2> QED BY <2>1, <2>4, <2>5, <2>6, <2>7 DEF Accounts
<1>4. CASE e \in RequestEvent
  <2>1. e.name = "OwnerUpdateRequested" /\ e.account \in Projects \union Orcids
    BY <1>4 DEF RequestEvent
  <2>2. Consistent(AfterRequest(d, e, p))
    BY <2>1, AfterRequestConsistent
  <2> QED BY <2>1, <2>2 DEF After
<1>5. CASE e \in OwnerEvent
  <2>1. /\ e.name = "OwnerUpdated" /\ e.account \in Projects \union Orcids
        /\ e.owner \in Owners
    BY <1>5 DEF OwnerEvent
  <2>2. ~OwnerThrows(d, e)
    BY <2>1 DEF Throws
  <2>3. Consistent(AfterOwner(d, e, p))
    BY <2>1, <2>2, AfterOwnerConsistent
  <2> QED BY <2>1, <2>3 DEF After
<1> QED BY <1>1, <1>2, <1>3, <1>4, <1>5 DEF Event

LEMMA EmptyConsistent == Consistent(EmptyDb)
<1>1. EmptyDb \in Db
  BY AccountAssumption DEF EmptyDb, Db, SplitsRow, Splits
<1>2. \A u \in NftTables, t \in Tokens : ~HasRow(EmptyDb, u, t)
  BY DEF HasRow, EmptyDb
<1>3. \A s \in SubLists : EmptyDb.subLists[s] = Absent
  BY DEF EmptyDb
<1>4. \A x \in Projects : EmptyDb.projects[x] = Absent
  BY DEF EmptyDb
<1>5. \A a \in Accounts : ProjectsIn(EmptyDb.splits[a].config) = {}
  BY AccountAssumption DEF EmptyDb, ProjectsIn
<1> QED BY <1>1, <1>2, <1>3, <1>4, <1>5 DEF Consistent, Accounted

-----------------------------------------------------------------------------
(* The feed: the chain, the index and how far it is processed.               *)

LEMMA Prefix ==
  ASSUME NEW S, NEW s \in Seq(S), NEW k \in 0..Len(s)
  PROVE  SubSeq(s, 1, k) \in Seq(S) /\ Len(SubSeq(s, 1, k)) = k
  BY SubSeqProperties

LEMMA EmittableEvents == \A c : Emittable(c) \subseteq Event
<1> TAKE c
<1>1. Mints(c) \subseteq MintEvent
  BY DEF Mints, MintEvent
<1>2. Transfers(c) \subseteq MoveEvent
  BY DEF Transfers, MoveEvent
<1>3. Requests \subseteq RequestEvent
  BY DEF Requests, RequestEvent
<1>4. Updates(c) \subseteq OwnerEvent
  BY DEF Updates, OwnerEvent
<1>5. SplitsSets(c) \subseteq SplitsEvent
  BY FeedAssumption DEF SplitsSets, SplitsEvent
<1>6. Emissions(c) \subseteq MetadataEvent
  BY DEF Emissions, MetadataEvent, Documents, Accounts
<1> QED BY <1>1, <1>2, <1>3, <1>4, <1>5, <1>6 DEF Emittable, Event

LEMMA FeedInit == Init => FeedInv
<1> SUFFICES ASSUME Init PROVE FeedInv
  OBVIOUS
<1>1. chain = <<>> /\ events = <<>> /\ done = 0 /\ disturbances = 0
  BY DEF Init
<1>2. chain \in Seq(Event) /\ events \in Seq(Event)
  BY <1>1
<1>3. Len(chain) = 0 /\ Len(events) = 0
  BY <1>1
<1>4. MaxEvents \in Nat /\ MaxDisturbances \in Nat
  BY FeedAssumption
<1>5. forked \in BOOLEAN /\ failed \in BOOLEAN
  BY DEF Init
<1> QED BY <1>1, <1>2, <1>3, <1>4, <1>5 DEF FeedInv

LEMMA DisturbType ==
  ASSUME FeedInv, Disturb
  PROVE  disturbances' \in 0..MaxDisturbances
  BY FeedAssumption DEF FeedInv, Disturb

LEMMA FeedNext ==
  ASSUME FeedInv, [Next]_vars
  PROVE  FeedInv'
<1>1. CASE Emit
  <2>1. PICK e \in Emittable(chain) : chain' = Append(chain, e)
    BY <1>1 DEF Emit
  <2>2. e \in Event
    BY EmittableEvents
  <2>3. chain' \in Seq(Event) /\ Len(chain') = Len(chain) + 1
    BY <2>1, <2>2, AppendProperties DEF FeedInv
  <2>4. Len(chain) < MaxEvents
    BY <1>1, FeedAssumption DEF Emit, FeedInv
  <2> QED BY <1>1, <2>3, <2>4, FeedAssumption DEF Emit, FeedInv, feedVars
<1>2. CASE Fork
  <2>1. PICK k \in 0..(Len(chain) - 1) : chain' = SubSeq(chain, 1, k)
    BY <1>2 DEF Fork
  <2>2. chain' \in Seq(Event) /\ Len(chain') = k
    BY <2>1, Prefix DEF FeedInv
  <2> QED BY <1>2, <2>1, <2>2, DisturbType, FeedAssumption DEF Fork, FeedInv
<1>3. CASE Fetch
  <2>1. Len(events) <= Len(chain)
    BY <1>3 DEF Fetch, IsStrictPrefix, IsPrefix
  <2> QED BY <1>3, <2>1 DEF Fetch, FeedInv, feedVars
<1>4. CASE RollBack
  <2>1. PICK k \in 0..(Len(events) - 1) :
          events' = SubSeq(events, 1, k) /\ done' = Min2(done, k)
    BY <1>4 DEF RollBack
  <2>2. events' \in Seq(Event) /\ Len(events') = k
    BY <2>1, Prefix DEF FeedInv
  <2>3. done' \in 0..k
    BY <2>1 DEF FeedInv, Min2
  <2>4. disturbances' \in 0..MaxDisturbances
    BY <1>4, DisturbType DEF RollBack, FeedInv
  <2> QED BY <1>4, <2>1, <2>2, <2>3, <2>4, FeedAssumption DEF RollBack, FeedInv
<1>5. ASSUME NEW name, Handle(name)
      PROVE  FeedInv'
  BY <1>5 DEF Handle, FeedInv, feedVars
<1>6. CASE HandlerThrows
  BY <1>6 DEF HandlerThrows, FeedInv, feedVars
<1>7. CASE HandlerFails
  BY <1>7, DisturbType DEF HandlerFails, FeedInv
<1>8. CASE UNCHANGED vars
  BY <1>8 DEF vars, FeedInv
<1> QED
  BY <1>1, <1>2, <1>3, <1>4, <1>5, <1>6, <1>7, <1>8
  DEF Next, HandleTransfer, HandleMetadata, HandleSplitsSet, HandleRequest, HandleOwner

LEMMA ConsistentNext ==
  ASSUME FeedInv, Consistent(db), [Next]_vars
  PROVE  Consistent(db')
<1>1. ASSUME NEW name, Handle(name)
      PROVE  Consistent(db')
  <2>1. events[done + 1] \in Event /\ done + 1 \in Nat
    BY <1>1 DEF Handle, FeedInv
  <2>2. /\ ~Throws(db, events[done + 1])
        /\ db' = After(db, events[done + 1], done + 1, Live)
    BY <1>1 DEF Handle
  <2> QED BY <2>1, <2>2, AfterConsistent
<1>2. CASE UNCHANGED db
  BY <1>2
<1> QED
  BY <1>1, <1>2
  DEF Next, vars, Emit, Fork, Fetch, RollBack, HandlerThrows, HandlerFails,
      HandleTransfer, HandleMetadata, HandleSplitsSet, HandleRequest, HandleOwner

LEMMA TablesInvariant == Spec => [](FeedInv /\ Consistent(db))
<1>1. Init => FeedInv /\ Consistent(db)
  BY FeedInit, EmptyConsistent DEF Init
<1>2. FeedInv /\ Consistent(db) /\ [Next]_vars => (FeedInv /\ Consistent(db))'
  <2>1. ASSUME FeedInv, Consistent(db), [Next]_vars
        PROVE  FeedInv' /\ Consistent(db')
    BY <2>1, FeedNext, ConsistentNext
  <2> QED BY <2>1 DEF Consistent, Db, HasRow
<1> QED BY <1>1, <1>2, PTL DEF Spec

-----------------------------------------------------------------------------
(* What the runs check, for every value of the constants. *)

(* All variables keep their types.                                           *)
THEOREM TypesKept == Spec => []TypeOK
<1>1. FeedInv /\ Consistent(db) => TypeOK
  <2>1. \A e \in Event : e.account \in Accounts
    BY DEF Event, MintEvent, MoveEvent, MetadataEvent, SplitsEvent, RequestEvent,
           OwnerEvent, Accounts
  <2> QED BY <2>1 DEF FeedInv, Consistent, TypeOK
<1> QED BY <1>1, TablesInvariant, PTL

(* A token is in one table at most: no order of mints, transfers, documents  *)
(* and replays makes it a drip list and an ecosystem, or leaves it pending   *)
(* beside its migrated row.                                                  *)
THEOREM TokensHaveOneHome == Spec => []OneHome
<1>1. Consistent(db) => OneHome
  BY DEF Consistent, OneHome
<1> QED BY <1>1, TablesInvariant, PTL

(* The one check of parent and root, when a sub list is described, is enough *)
(* for ever: nothing moves an ecosystem out of its table.                    *)
THEOREM SubListsHaveRoots == Spec => []RootsAreEcosystems
<1>1. Consistent(db) => RootsAreEcosystems
  BY DEF Consistent, RootsAreEcosystems
<1> QED BY <1>1, TablesInvariant, PTL

(* A receiver that is a project has a row, whatever is replayed or fails:    *)
(* always in an ecosystem or a sub list, which refuse one that has no GitHub *)
(* source, and else unless a document of the sender gives it no such source. *)
THEOREM ReceiversHaveRows == Spec => []ReceiversExist
<1>1. Consistent(db) => ReceiversExist
  BY DEF Consistent, ReceiversExist, Accounted, Exempt
<1> QED BY <1>1, TablesInvariant, PTL

(* The four handlers that write a project agree on its status.               *)
THEOREM StatusIsDerived == Spec => []StatusFollowsOwner
<1>1. Consistent(db) => StatusFollowsOwner
  BY DEF Consistent, StatusFollowsOwner
<1> QED BY <1>1, TablesInvariant, PTL
===============================================================================
