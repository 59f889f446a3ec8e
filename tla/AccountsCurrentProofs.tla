------------------------- MODULE AccountsCurrentProofs -------------------------
(* Proofs, for any accounts, owners, documents and splits, that the domain   *)
(* tables end up with what the chain says, whatever is replayed, whichever   *)
(* table a token waited in, and however far the chain runs ahead: while no   *)
(* fork has replaced an event and no handler has failed for want of an       *)
(* answer, each row is right as soon as the last event that decides it is    *)
(* processed; and that a token then looks as after one pass over the chain.  *)
EXTENDS AccountsProofs, WellFoundedInduction, NaturalsInduction

(* A claim of a repository is requested first, splits are set by an owner,   *)
(* and a token is minted before it moves or is described.                    *)
Ordered(c) ==
  \A i \in 1..Len(c) :
    /\ c[i].name = "OwnerUpdated" =>
         \E j \in 1..(i - 1) : /\ c[j].name = "OwnerUpdateRequested"
                               /\ c[j].account = c[i].account
    /\ c[i].name = "SplitsSet" /\ c[i].account \in Projects \union Orcids =>
         \E j \in 1..(i - 1) : c[j].name = "OwnerUpdated" /\ c[j].account = c[i].account
    /\ c[i].name = "Transfer" /\ IsMint(c[i]) =>
         \A j \in 1..(i - 1) : ~(c[j].name = "Transfer" /\ c[j].account = c[i].account)
    /\ c[i].name = "AccountMetadataEmitted" /\ c[i].account \in Tokens =>
         \E j \in 1..(i - 1) : c[j].name = "Transfer" /\ c[j].account = c[i].account

(* What the tables d hold of an account when the first k events of c are     *)
(* processed: columns are final from the last event that decides them.       *)
TokenTracks(d, c, k, t) ==
  \A u \in NftTables : HasRow(d, u, t) =>
    /\ LastAt(c, "Transfer", t) <= k => d.nft[u][t].owner = Holder(c, t)
    /\ u # "pending" /\ LastAt(c, "SplitsSet", t) <= k =>
         (d.nft[u][t].valid <=> d.splits[t].config = SplitsOf(c, t))

SubListTracks(d, c, k, s) ==
  d.subLists[s] # Absent /\ LastAt(c, "SplitsSet", s) <= k =>
    (d.subLists[s].valid <=> d.splits[s].config = SplitsOf(c, s))

(* A repository has its row from its first request on, or from when it is    *)
(* paid.                                                                     *)
Requested(c, k, a) ==
  \E i \in 1..k : c[i].name = "OwnerUpdateRequested" /\ c[i].account = a

ProjectTracks(d, c, k, x) ==
  /\ Requested(c, k, x) => d.projects[x] # Absent
  /\ d.projects[x] = Absent => d.splits[x].config = NoSplits
  /\ d.projects[x] # Absent =>
       /\ LastAt(c, "OwnerUpdated", x) <= k => d.projects[x].owner = OwnerOf(c, x)
       /\ LastAt(c, "SplitsSet", x) <= k =>
            (d.projects[x].valid <=> d.splits[x].config = SplitsOf(c, x))

IdentityTracks(d, c, k, o) ==
  /\ Requested(c, k, o) => d.identities[o] # Absent
  /\ d.identities[o] # Absent =>
       /\ LastAt(c, "OwnerUpdated", o) <= k => d.identities[o].owner = OwnerOf(c, o)
       /\ LastAt(c, "SplitsSet", o) <= k =>
            \/ LastAt(c, "SplitsSet", o) <= LastAt(c, "OwnerUpdated", o)
            \/ d.identities[o].valid <=> SplitsOf(c, o) = Pays(d.identities[o].owner)

Tracks(d, c, k) ==
  /\ \A t \in Tokens : TokenTracks(d, c, k, t)
  /\ \A s \in SubLists : SubListTracks(d, c, k, s)
  /\ \A x \in Projects : ProjectTracks(d, c, k, x)
  /\ \A o \in Orcids : IdentityTracks(d, c, k, o)

(* Someone was minted the token.                                             *)
MintedTo(c, t, o) ==
  \E i \in 1..Len(c) :
    c[i].name = "Transfer" /\ c[i].account = t /\ IsMint(c[i]) /\ c[i].to = o

Created(d, c) ==
  \A t \in Tokens, u \in NftTables : HasRow(d, u, t) =>
    d.nft[u][t].creator = Absent \/ MintedTo(c, t, d.nft[u][t].creator)

Indexed == \A i \in 1..Len(events) : i <= Len(chain) /\ events[i] = chain[i]

CurrentInv ==
  /\ Ordered(chain)
  /\ ~forked => Indexed /\ Created(db, chain)
  /\ ~forked /\ ~failed => Tracks(db, chain, done)

-----------------------------------------------------------------------------
(* The last event of an account.                                             *)

LEMMA LeastNumber ==
  ASSUME NEW T, T \subseteq Nat, T # {}
  PROVE  \E m \in T : \A k \in T : ~(k < m)
<1>1. PICK m \in T : \A k \in T : <<k, m>> \notin OpToRel(<, Nat)
  BY WFMin, NatLessThanWellFounded, Zenon
<1> QED BY <1>1, Zenon DEF OpToRel

(* A set of positions has a last one.                                        *)
LEMMA LastExists ==
  ASSUME NEW n \in Nat, NEW S, S \subseteq 1..n, S # {}
  PROVE  \E x \in S : \A y \in S : x >= y
<1> DEFINE T == {n - i : i \in S}
<1>1. T \subseteq Nat /\ T # {}
  <2>1. \A i \in S : i \in Int /\ i <= n
    OBVIOUS
  <2>2. \A i \in S : n - i \in Nat
    BY <2>1
  <2>3. T # {}
    OBVIOUS
  <2> QED BY <2>2, <2>3
<1>2. PICK m \in T : \A k \in T : ~(k < m)
  <2> HIDE DEF T
  <2> QED BY <1>1, LeastNumber
<1>3. PICK x \in S : m = n - x
  OBVIOUS
<1>4. \A y \in S : ~(n - y < n - x)
  BY <1>2, <1>3
<1>5. \A y \in S : x >= y
  BY <1>4
<1> QED BY <1>5

LEMMA LastIsLast ==
  ASSUME NEW c \in Seq(Event), NEW name, NEW a
  PROVE  /\ LastAt(c, name, a) \in 0..Len(c)
         /\ \A i \in 1..Len(c) :
              c[i].name = name /\ c[i].account = a => i <= LastAt(c, name, a)
         /\ LastAt(c, name, a) # 0 =>
              /\ c[LastAt(c, name, a)].name = name
              /\ c[LastAt(c, name, a)].account = a
<1> DEFINE S == At(c, name, a)
<1>1. Len(c) \in Nat /\ S \subseteq 1..Len(c)
  BY DEF At
<1>2. CASE S = {}
  BY <1>1, <1>2 DEF LastAt, At
<1>3. CASE S # {}
  <2> HIDE DEF S
  <2>1. \E x \in S : \A y \in S : x >= y
    BY <1>1, <1>3, LastExists
  <2>2. Max(S) \in S /\ \A y \in S : Max(S) >= y
    BY <2>1 DEF Max
  <2>3. LastAt(c, name, a) = Max(S)
    BY <1>3 DEF LastAt, S
  <2>4. LastAt(c, name, a) \in 1..Len(c)
    BY <1>1, <2>2, <2>3
  <2>5. LastAt(c, name, a) \in At(c, name, a)
    BY <2>2, <2>3 DEF S
  <2>6. \A y \in At(c, name, a) : y <= LastAt(c, name, a)
    BY <1>1, <2>2, <2>3, <2>4 DEF S
  <2> QED BY <2>4, <2>5, <2>6 DEF At
<1> QED BY <1>2, <1>3

LEMMA LastOfAppended ==
  ASSUME NEW c \in Seq(Event), NEW e \in Event, NEW name, NEW a
  PROVE  LastAt(Append(c, e), name, a) =
           IF e.name = name /\ e.account = a THEN Len(c) + 1 ELSE LastAt(c, name, a)
<1> DEFINE b == Append(c, e)
           l == LastAt(b, name, a)
           m == LastAt(c, name, a)
<1>1. /\ b \in Seq(Event) /\ Len(b) = Len(c) + 1 /\ Len(c) \in Nat
      /\ b[Len(c) + 1] = e /\ \A i \in 1..Len(c) : b[i] = c[i]
  OBVIOUS
<1> HIDE DEF b
<1>2. /\ l \in 0..Len(b)
      /\ \A i \in 1..Len(b) : b[i].name = name /\ b[i].account = a => i <= l
      /\ l # 0 => b[l].name = name /\ b[l].account = a
  BY <1>1, LastIsLast
<1>3. /\ m \in 0..Len(c)
      /\ \A i \in 1..Len(c) : c[i].name = name /\ c[i].account = a => i <= m
      /\ m # 0 => c[m].name = name /\ c[m].account = a
  BY LastIsLast
<1> HIDE DEF l, m
<1>4. CASE e.name = name /\ e.account = a
  <2>1. Len(c) + 1 <= l
    BY <1>1, <1>2, <1>4
  <2> QED BY <1>1, <1>2, <1>4, <2>1 DEF b, l
<1>5. CASE ~(e.name = name /\ e.account = a)
  <2>1. l # Len(c) + 1
    BY <1>1, <1>2, <1>5
  <2>2. l \in 0..Len(c)
    BY <1>1, <1>2, <2>1
  <2>3. l <= m
    BY <1>1, <1>2, <1>3, <2>2
  <2>4. m <= l
    BY <1>1, <1>2, <1>3
  <2> QED BY <1>2, <1>3, <1>5, <2>2, <2>3, <2>4 DEF b, l, m
<1> QED BY <1>4, <1>5

LEMMA ViewsOfAppended ==
  ASSUME NEW c \in Seq(Event), NEW e \in Event, NEW a
  PROVE  LET b == Append(c, e) IN
           /\ \/ LastAt(b, "Transfer", a) = Len(c) + 1
              \/ /\ LastAt(b, "Transfer", a) = LastAt(c, "Transfer", a)
                 /\ Holder(b, a) = Holder(c, a)
           /\ \/ LastAt(b, "OwnerUpdated", a) = Len(c) + 1
              \/ /\ LastAt(b, "OwnerUpdated", a) = LastAt(c, "OwnerUpdated", a)
                 /\ OwnerOf(b, a) = OwnerOf(c, a)
           /\ \/ LastAt(b, "SplitsSet", a) = Len(c) + 1
              \/ /\ LastAt(b, "SplitsSet", a) = LastAt(c, "SplitsSet", a)
                 /\ SplitsOf(b, a) = SplitsOf(c, a)
<1> DEFINE b == Append(c, e)
<1>1. \A name : \/ LastAt(b, name, a) = Len(c) + 1
                \/ LastAt(b, name, a) = LastAt(c, name, a)
  BY LastOfAppended
<1>2. \A i \in 1..Len(c) : b[i] = c[i]
  OBVIOUS
<1>3. \A name : LastAt(c, name, a) # 0 => b[LastAt(c, name, a)] = c[LastAt(c, name, a)]
  BY <1>2, LastIsLast
<1> HIDE DEF b
<1>4. \/ LastAt(b, "Transfer", a) = Len(c) + 1
      \/ /\ LastAt(b, "Transfer", a) = LastAt(c, "Transfer", a)
         /\ Holder(b, a) = Holder(c, a)
  BY <1>1, <1>3 DEF Holder
<1>5. \/ LastAt(b, "OwnerUpdated", a) = Len(c) + 1
      \/ /\ LastAt(b, "OwnerUpdated", a) = LastAt(c, "OwnerUpdated", a)
         /\ OwnerOf(b, a) = OwnerOf(c, a)
  BY <1>1, <1>3 DEF OwnerOf
<1>6. \/ LastAt(b, "SplitsSet", a) = Len(c) + 1
      \/ /\ LastAt(b, "SplitsSet", a) = LastAt(c, "SplitsSet", a)
         /\ SplitsOf(b, a) = SplitsOf(c, a)
  BY <1>1, <1>3 DEF SplitsOf
<1> QED BY <1>4, <1>5, <1>6 DEF b

-----------------------------------------------------------------------------
(* The chain grows and is cut, the index follows it.                         *)

(* What is processed does not depend on what the chain has beyond.           *)
LEMMA TracksAppended ==
  ASSUME NEW d, NEW c \in Seq(Event), NEW e \in Event, NEW k \in 0..Len(c),
         Tracks(d, c, k)
  PROVE  Tracks(d, Append(c, e), k)
<1> DEFINE b == Append(c, e)
<1>1. Len(c) \in Nat /\ \A i \in 1..Len(c) : b[i] = c[i]
  OBVIOUS
<1>2. \A a : LastAt(c, "OwnerUpdated", a) \in 0..Len(c)
  BY LastIsLast
<1>3. \A a : LastAt(c, "SplitsSet", a) \in 0..Len(c)
  BY LastIsLast
<1>4. \A a : \/ LastAt(b, "Transfer", a) = Len(c) + 1
             \/ /\ LastAt(b, "Transfer", a) = LastAt(c, "Transfer", a)
                /\ Holder(b, a) = Holder(c, a)
  BY ViewsOfAppended
<1>5. \A a : \/ LastAt(b, "OwnerUpdated", a) = Len(c) + 1
             \/ /\ LastAt(b, "OwnerUpdated", a) = LastAt(c, "OwnerUpdated", a)
                /\ OwnerOf(b, a) = OwnerOf(c, a)
  BY ViewsOfAppended
<1>6. \A a : \/ LastAt(b, "SplitsSet", a) = Len(c) + 1
             \/ /\ LastAt(b, "SplitsSet", a) = LastAt(c, "SplitsSet", a)
                /\ SplitsOf(b, a) = SplitsOf(c, a)
  BY ViewsOfAppended
<1>7. \A a : Requested(b, k, a) => Requested(c, k, a)
  BY <1>1 DEF Requested
<1> HIDE DEF b
<1>8. ~(Len(c) + 1 <= k)
  BY <1>1
<1>9. \A t \in Tokens : TokenTracks(d, b, k, t)
  BY <1>4, <1>6, <1>8 DEF Tracks, TokenTracks
<1>10. \A s \in SubLists : SubListTracks(d, b, k, s)
  BY <1>6, <1>8 DEF Tracks, SubListTracks
<1>11. \A x \in Projects : ProjectTracks(d, b, k, x)
  BY <1>5, <1>6, <1>7, <1>8 DEF Tracks, ProjectTracks
<1>12. ASSUME NEW o \in Orcids
       PROVE  IdentityTracks(d, b, k, o)
  <2>1. IdentityTracks(d, c, k, o)
    BY DEF Tracks
  <2>2. Requested(b, k, o) => d.identities[o] # Absent
    BY <1>7, <2>1 DEF IdentityTracks
  <2>3. ASSUME d.identities[o] # Absent, LastAt(b, "OwnerUpdated", o) <= k
        PROVE  d.identities[o].owner = OwnerOf(b, o)
    BY <1>5, <1>8, <2>1, <2>3 DEF IdentityTracks
  <2>4. ASSUME d.identities[o] # Absent, LastAt(b, "SplitsSet", o) <= k,
               ~(LastAt(b, "SplitsSet", o) <= LastAt(b, "OwnerUpdated", o))
        PROVE  d.identities[o].valid <=> SplitsOf(b, o) = Pays(d.identities[o].owner)
    <3>1. /\ LastAt(b, "SplitsSet", o) = LastAt(c, "SplitsSet", o)
          /\ SplitsOf(b, o) = SplitsOf(c, o)
      BY <1>6, <1>8, <2>4
    <3>2. LastAt(b, "OwnerUpdated", o) = LastAt(c, "OwnerUpdated", o)
      BY <1>1, <1>3, <1>5, <2>4, <3>1
    <3> QED BY <2>1, <2>4, <3>1, <3>2 DEF IdentityTracks
  <2> QED BY <2>2, <2>3, <2>4 DEF IdentityTracks
<1> QED BY <1>9, <1>10, <1>11, <1>12 DEF Tracks, b

(* After a rollback more columns wait for the events that decide them.       *)
LEMMA TracksEarlier ==
  ASSUME NEW d, NEW c \in Seq(Event), NEW k \in 0..Len(c), NEW j \in 0..k,
         Tracks(d, c, k)
  PROVE  Tracks(d, c, j)
<1>1. \A name, a : LastAt(c, name, a) \in Int
  BY LastIsLast
<1>2. \A name, a : LastAt(c, name, a) <= j => LastAt(c, name, a) <= k
  BY <1>1
<1>3. \A a : Requested(c, j, a) => Requested(c, k, a)
  BY DEF Requested
<1>4. \A t \in Tokens : TokenTracks(d, c, j, t)
  BY <1>2 DEF Tracks, TokenTracks
<1>5. \A s \in SubLists : SubListTracks(d, c, j, s)
  BY <1>2 DEF Tracks, SubListTracks
<1>6. \A x \in Projects : ProjectTracks(d, c, j, x)
  BY <1>2, <1>3 DEF Tracks, ProjectTracks
<1>7. \A o \in Orcids : IdentityTracks(d, c, j, o)
  BY <1>2, <1>3 DEF Tracks, IdentityTracks
<1> QED BY <1>4, <1>5, <1>6, <1>7 DEF Tracks

LEMMA OrderedAppended ==
  ASSUME NEW c \in Seq(Event), NEW e \in Emittable(c), Ordered(c)
  PROVE  Ordered(Append(c, e))
<1> DEFINE b == Append(c, e)
<1>0. e \in Event
  BY EmittableEvents
<1>1. /\ Len(b) = Len(c) + 1 /\ Len(c) \in Nat /\ b[Len(c) + 1] = e
      /\ \A i \in 1..Len(c) : b[i] = c[i]
  BY <1>0
<1>2. ASSUME e.name = "OwnerUpdated"
      PROVE  \E j \in 1..Len(c) : /\ c[j].name = "OwnerUpdateRequested"
                                  /\ c[j].account = e.account
  <2>1. e \in Updates(c)
    BY <1>2 DEF Emittable, Mints, Transfers, Requests, SplitsSets, Emissions
  <2>2. At(c, "OwnerUpdateRequested", e.account) # {}
    BY <2>1 DEF Updates
  <2> QED BY <2>2 DEF At
<1>3. ASSUME e.name = "SplitsSet", e.account \in Projects \union Orcids
      PROVE  \E j \in 1..Len(c) : c[j].name = "OwnerUpdated" /\ c[j].account = e.account
  <2>1. e \in SplitsSets(c)
    BY <1>3 DEF Emittable, Mints, Transfers, Requests, Updates, Emissions
  <2>2. MayAct(c, e.account) \/ e.account \in SubLists
    BY <2>1 DEF SplitsSets
  <2>3. OwnerOf(c, e.account) # Absent
    BY <1>3, <2>2, AccountAssumption DEF MayAct
  <2>4. LastAt(c, "OwnerUpdated", e.account) # 0
    BY <2>3 DEF OwnerOf
  <2>5. /\ LastAt(c, "OwnerUpdated", e.account) \in 0..Len(c)
        /\ c[LastAt(c, "OwnerUpdated", e.account)].name = "OwnerUpdated"
        /\ c[LastAt(c, "OwnerUpdated", e.account)].account = e.account
    BY <2>4, LastIsLast
  <2>6. LastAt(c, "OwnerUpdated", e.account) \in 1..Len(c)
    BY <1>1, <2>4, <2>5
  <2> QED BY <2>5, <2>6
<1>4. ASSUME e.name = "Transfer", IsMint(e)
      PROVE  \A j \in 1..Len(c) : ~(c[j].name = "Transfer" /\ c[j].account = e.account)
  <2>1. e \in Mints(c)
    BY <1>4, AccountAssumption
    DEF Emittable, Transfers, Requests, Updates, SplitsSets, Emissions, IsMint
  <2>2. At(c, "Transfer", e.account) = {}
    BY <2>1 DEF Mints
  <2> QED BY <2>2 DEF At
<1>5. ASSUME e.name = "AccountMetadataEmitted", e.account \in Tokens
      PROVE  \E j \in 1..Len(c) : c[j].name = "Transfer" /\ c[j].account = e.account
  <2>1. e \in Emissions(c)
    BY <1>5 DEF Emittable, Mints, Transfers, Requests, Updates, SplitsSets
  <2>2. MayAct(c, e.account) \/ e.account \in SubLists
    BY <2>1 DEF Emissions
  <2>3. Holder(c, e.account) # Zero
    BY <1>5, <2>2, AccountAssumption DEF MayAct
  <2>4. LastAt(c, "Transfer", e.account) # 0
    BY <2>3 DEF Holder
  <2>5. /\ LastAt(c, "Transfer", e.account) \in 0..Len(c)
        /\ c[LastAt(c, "Transfer", e.account)].name = "Transfer"
        /\ c[LastAt(c, "Transfer", e.account)].account = e.account
    BY <2>4, LastIsLast
  <2>6. LastAt(c, "Transfer", e.account) \in 1..Len(c)
    BY <1>1, <2>4, <2>5
  <2> QED BY <2>5, <2>6
<1> HIDE DEF b
<1>6. ASSUME NEW i \in 1..Len(b)
      PROVE  /\ b[i].name = "OwnerUpdated" =>
                  \E j \in 1..(i - 1) : /\ b[j].name = "OwnerUpdateRequested"
                                        /\ b[j].account = b[i].account
             /\ b[i].name = "SplitsSet" /\ b[i].account \in Projects \union Orcids =>
                  \E j \in 1..(i - 1) : /\ b[j].name = "OwnerUpdated"
                                        /\ b[j].account = b[i].account
             /\ b[i].name = "Transfer" /\ IsMint(b[i]) =>
                  \A j \in 1..(i - 1) :
                    ~(b[j].name = "Transfer" /\ b[j].account = b[i].account)
             /\ b[i].name = "AccountMetadataEmitted" /\ b[i].account \in Tokens =>
                  \E j \in 1..(i - 1) :
                    b[j].name = "Transfer" /\ b[j].account = b[i].account
  <2>1. CASE i = Len(c) + 1
    <3>1. b[i] = e /\ 1..(i - 1) = 1..Len(c)
      BY <1>1, <2>1
    <3>2. \A j \in 1..(i - 1) : b[j] = c[j]
      BY <1>1, <3>1
    <3>3. b[i].name = "OwnerUpdated" =>
            \E j \in 1..(i - 1) : /\ b[j].name = "OwnerUpdateRequested"
                                  /\ b[j].account = b[i].account
      BY <1>2, <3>1, <3>2
    <3>4. b[i].name = "SplitsSet" /\ b[i].account \in Projects \union Orcids =>
            \E j \in 1..(i - 1) : b[j].name = "OwnerUpdated" /\ b[j].account = b[i].account
      BY <1>3, <3>1, <3>2
    <3>5. b[i].name = "Transfer" /\ IsMint(b[i]) =>
            \A j \in 1..(i - 1) : ~(b[j].name = "Transfer" /\ b[j].account = b[i].account)
      BY <1>4, <3>1, <3>2
    <3>6. b[i].name = "AccountMetadataEmitted" /\ b[i].account \in Tokens =>
            \E j \in 1..(i - 1) : b[j].name = "Transfer" /\ b[j].account = b[i].account
      BY <1>5, <3>1, <3>2
    <3> QED BY <3>3, <3>4, <3>5, <3>6
  <2>2. CASE i \in 1..Len(c)
    <3>1. b[i] = c[i] /\ \A j \in 1..(i - 1) : j \in 1..Len(c) /\ b[j] = c[j]
      BY <1>1, <2>2
    <3>2. b[i].name = "OwnerUpdated" =>
            \E j \in 1..(i - 1) : /\ b[j].name = "OwnerUpdateRequested"
                                  /\ b[j].account = b[i].account
      BY <2>2, <3>1 DEF Ordered
    <3>3. b[i].name = "SplitsSet" /\ b[i].account \in Projects \union Orcids =>
            \E j \in 1..(i - 1) : b[j].name = "OwnerUpdated" /\ b[j].account = b[i].account
      BY <2>2, <3>1 DEF Ordered
    <3>4. b[i].name = "Transfer" /\ IsMint(b[i]) =>
            \A j \in 1..(i - 1) : ~(b[j].name = "Transfer" /\ b[j].account = b[i].account)
      BY <2>2, <3>1 DEF Ordered
    <3>5. b[i].name = "AccountMetadataEmitted" /\ b[i].account \in Tokens =>
            \E j \in 1..(i - 1) : b[j].name = "Transfer" /\ b[j].account = b[i].account
      BY <2>2, <3>1 DEF Ordered
    <3> QED BY <3>2, <3>3, <3>4, <3>5
  <2>3. i = Len(c) + 1 \/ i \in 1..Len(c)
    BY <1>1
  <2> QED BY <2>1, <2>2, <2>3, Zenon
<1> QED BY <1>6 DEF Ordered, b

LEMMA OrderedPrefix ==
  ASSUME NEW c \in Seq(Event), NEW k \in 0..Len(c), Ordered(c)
  PROVE  Ordered(SubSeq(c, 1, k))
<1> DEFINE b == SubSeq(c, 1, k)
<1>1. Len(b) = k /\ \A i \in 1..k : b[i] = c[i]
  BY SubSeqProperties
<1>2. k \in Int /\ k <= Len(c) /\ Len(c) \in Int
  OBVIOUS
<1> HIDE DEF b
<1>3. \A i \in 1..Len(b) : \A j \in 1..(i - 1) : j \in 1..Len(b)
  BY <1>1, <1>2
<1>4. \A i \in 1..Len(b) : i \in 1..Len(c)
  BY <1>1, <1>2
<1> QED BY <1>1, <1>3, <1>4 DEF Ordered, b

LEMMA CreatedAppended ==
  ASSUME NEW d, NEW c \in Seq(Event), NEW e \in Event, Created(d, c)
  PROVE  Created(d, Append(c, e))
<1> DEFINE b == Append(c, e)
<1>1. Len(b) = Len(c) + 1 /\ Len(c) \in Nat /\ \A i \in 1..Len(c) : b[i] = c[i]
  OBVIOUS
<1> HIDE DEF b
<1>2. \A t, o : MintedTo(c, t, o) => MintedTo(b, t, o)
  BY <1>1 DEF MintedTo
<1> QED BY <1>2 DEF Created, b

-----------------------------------------------------------------------------
(* What a handler leaves alone: it writes rows of the account of its event,  *)
(* and rows for projects that have none.                                     *)

Spares(d, n, a) ==
  /\ \A u \in NftTables, t \in Tokens \ {a} : n.nft[u][t] = d.nft[u][t]
  /\ \A s \in SubLists \ {a} : n.subLists[s] = d.subLists[s]
  /\ \A x \in Projects \ {a} :
       \/ n.projects[x] = d.projects[x]
       \/ d.projects[x] = Absent /\ \E p \in Nat : n.projects[x] = Unclaimed(p)
  /\ \A o \in Orcids \ {a} : n.identities[o] = d.identities[o]
  /\ \A b \in Accounts \ {a} : n.splits[b] = d.splits[b]

LEMMA SparesTwice ==
  ASSUME NEW d, NEW m, NEW n, NEW a, Spares(d, m, a), Spares(m, n, a)
  PROVE  Spares(d, n, a)
<1>1. \A p \in Nat : Unclaimed(p) # Absent
  BY UnclaimedRow
<1> QED BY <1>1 DEF Spares

NftPut(d, u, t, row) == [d EXCEPT !.nft[u][t] = row]
SubListPut(d, s, row) == [d EXCEPT !.subLists[s] = row]
ProjectPut(d, x, row) == [d EXCEPT !.projects[x] = row]
IdentityPut(d, o, row) == [d EXCEPT !.identities[o] = row]

LEMMA PutNft ==
  ASSUME NEW d \in Db, NEW u \in NftTables, NEW t \in Tokens, NEW row,
         NEW n, n = NftPut(d, u, t, row)
  PROVE  /\ Spares(d, n, t)
         /\ n.splits = d.splits
         /\ n.nft[u][t] = row
         /\ \A v \in NftTables \ {u} : n.nft[v][t] = d.nft[v][t]
<1>1. /\ n.nft = [d.nft EXCEPT ![u][t] = row]
      /\ n.subLists = d.subLists /\ n.projects = d.projects
      /\ n.identities = d.identities /\ n.splits = d.splits
  BY DEF Db, NftPut
<1>2. d.nft \in [NftTables -> [Tokens -> NftRow \union {Absent}]]
  BY DEF Db
<1>3. \A v \in NftTables, a \in Tokens :
        n.nft[v][a] = IF v = u /\ a = t THEN row ELSE d.nft[v][a]
  BY <1>1, <1>2
<1>4. Spares(d, n, t)
  BY <1>1, <1>3 DEF Spares
<1> QED BY <1>1, <1>3, <1>4

LEMMA PutSubList ==
  ASSUME NEW d \in Db, NEW s \in SubLists, NEW row,
         NEW n, n = SubListPut(d, s, row)
  PROVE  Spares(d, n, s) /\ n.splits = d.splits /\ n.subLists[s] = row
<1>1. /\ n.subLists = [d.subLists EXCEPT ![s] = row]
      /\ n.nft = d.nft /\ n.projects = d.projects
      /\ n.identities = d.identities /\ n.splits = d.splits
  BY DEF Db, SubListPut
<1>2. d.subLists \in [SubLists -> SubListRow \union {Absent}]
  BY DEF Db
<1>3. \A a \in SubLists : n.subLists[a] = IF a = s THEN row ELSE d.subLists[a]
  BY <1>1, <1>2
<1>4. Spares(d, n, s)
  BY <1>1, <1>3 DEF Spares
<1> QED BY <1>1, <1>3, <1>4

LEMMA PutProject ==
  ASSUME NEW d \in Db, NEW x \in Projects, NEW row,
         NEW n, n = ProjectPut(d, x, row)
  PROVE  Spares(d, n, x) /\ n.splits = d.splits /\ n.projects[x] = row
<1>1. /\ n.projects = [d.projects EXCEPT ![x] = row]
      /\ n.nft = d.nft /\ n.subLists = d.subLists
      /\ n.identities = d.identities /\ n.splits = d.splits
  BY DEF Db, ProjectPut
<1>2. d.projects \in [Projects -> ProjectRow \union {Absent}]
  BY DEF Db
<1>3. \A a \in Projects : n.projects[a] = IF a = x THEN row ELSE d.projects[a]
  BY <1>1, <1>2
<1>4. Spares(d, n, x)
  BY <1>1, <1>3 DEF Spares
<1> QED BY <1>1, <1>3, <1>4

LEMMA PutIdentity ==
  ASSUME NEW d \in Db, NEW o \in Orcids, NEW row,
         NEW n, n = IdentityPut(d, o, row)
  PROVE  Spares(d, n, o) /\ n.identities[o] = row
<1>1. /\ n.identities = [d.identities EXCEPT ![o] = row]
      /\ n.nft = d.nft /\ n.subLists = d.subLists
      /\ n.projects = d.projects /\ n.splits = d.splits
  BY DEF Db, IdentityPut
<1>2. d.identities \in [Orcids -> IdentityRow \union {Absent}]
  BY DEF Db
<1>3. \A a \in Orcids : n.identities[a] = IF a = o THEN row ELSE d.identities[a]
  BY <1>1, <1>2
<1>4. Spares(d, n, o)
  BY <1>1, <1>3 DEF Spares
<1> QED BY <1>1, <1>3, <1>4

(* Whatever the document says, only the splits of its account are replaced.   *)
LEMMA DescribeSplitsSpares ==
  ASSUME NEW d, Consistent(d), NEW e, e.account \in Accounts, e.doc.splits \in Splits,
         NEW p \in Nat
  PROVE  /\ Spares(d, DescribeSplits(d, e, p), e.account)
         /\ DescribeSplits(d, e, p) \in Db
         /\ DescribeSplits(d, e, p).nft = d.nft
         /\ DescribeSplits(d, e, p).projects = EnsureProjects(d, e.doc, p).projects
         /\ DescribeSplits(d, e, p).splits[e.account].config = e.doc.splits
         /\ \A x \in Projects :
              \/ DescribeSplits(d, e, p).projects[x] = d.projects[x]
              \/ /\ d.projects[x] = Absent
                 /\ DescribeSplits(d, e, p).projects[x] = Unclaimed(p)
<1> DEFINE s == e.doc.splits
           m == EnsureProjects(d, e.doc, p)
           n == DescribeSplits(d, e, p)
<1>1. /\ m.nft = d.nft /\ m.subLists = d.subLists /\ m.splits = d.splits
      /\ m.identities = d.identities
      /\ m.projects = [x \in Projects |-> IF x \in Sourced(e.doc) /\ d.projects[x] = Absent
                                            THEN Unclaimed(p) ELSE d.projects[x]]
  BY DEF EnsureProjects, Consistent, Db
<1>2. m \in Db
  BY EnsureProjectsConsistent DEF Consistent
<1>3. n = [m EXCEPT !.splits[e.account] = [config |-> s, at |-> p]]
  BY DEF DescribeSplits, ReplaceSplits
<1> HIDE DEF m, n
<1>4. /\ n.nft = m.nft /\ n.subLists = m.subLists /\ n.projects = m.projects
      /\ n.identities = m.identities
      /\ n.splits = [m.splits EXCEPT ![e.account] = [config |-> s, at |-> p]]
  BY <1>2, <1>3 DEF Db
<1>5. m.splits \in [Accounts -> SplitsRow]
  BY <1>2 DEF Db
<1>6. \A b \in Accounts \ {e.account} : n.splits[b] = d.splits[b]
  BY <1>1, <1>4, <1>5
<1>7. \A x \in Projects : \/ n.projects[x] = d.projects[x]
                          \/ d.projects[x] = Absent /\ n.projects[x] = Unclaimed(p)
  BY <1>1, <1>4
<1>8. Spares(d, n, e.account)
  BY <1>1, <1>4, <1>6, <1>7 DEF Spares
<1>9. n \in Db
  <2> DEFINE row == [config |-> s, at |-> p]
  <2>1. row \in SplitsRow
    BY DEF SplitsRow
  <2>2. n = [m EXCEPT !.splits[e.account] = row]
    BY <1>3
  <2> HIDE DEF row
  <2> QED BY <1>2, <2>1, <2>2 DEF Db
<1>10. n.splits[e.account].config = s
  BY <1>4, <1>5
<1>11. n.nft = d.nft
  BY <1>1, <1>4
<1> QED BY <1>4, <1>7, <1>8, <1>9, <1>10, <1>11 DEF m, n

-----------------------------------------------------------------------------
(* The next event is settled: the accounts it is not about.                  *)

(* It is the last of its name and account, or a later one is.                *)
LEMMA NextEvent ==
  ASSUME NEW c \in Seq(Event), NEW k \in 0..(Len(c) - 1), NEW name, NEW a
  PROVE  /\ LastAt(c, name, a) \in Nat /\ k \in Nat
         /\ c[k + 1].name # name \/ c[k + 1].account # a =>
              (LastAt(c, name, a) <= k + 1 => LastAt(c, name, a) <= k)
         /\ c[k + 1].name = name /\ c[k + 1].account = a =>
              /\ k + 1 <= LastAt(c, name, a)
              /\ LastAt(c, name, a) <= k + 1 => LastAt(c, name, a) = k + 1
<1>1. Len(c) \in Nat
  OBVIOUS
<1>2. k \in Nat /\ k + 1 \in 1..Len(c)
  BY <1>1
<1>3. /\ LastAt(c, name, a) \in 0..Len(c)
      /\ \A i \in 1..Len(c) :
           c[i].name = name /\ c[i].account = a => i <= LastAt(c, name, a)
      /\ LastAt(c, name, a) # 0 =>
           /\ c[LastAt(c, name, a)].name = name
           /\ c[LastAt(c, name, a)].account = a
  BY LastIsLast
<1> QED BY <1>1, <1>2, <1>3

(* Before its first request a repository has no owner and no splits.         *)
LEMMA Unrequested ==
  ASSUME NEW c \in Seq(Event), NEW k \in 0..Len(c), Ordered(c),
         NEW a \in Projects \union Orcids, ~Requested(c, k, a)
  PROVE  /\ LastAt(c, "OwnerUpdated", a) <= k => LastAt(c, "OwnerUpdated", a) = 0
         /\ LastAt(c, "SplitsSet", a) <= k => LastAt(c, "SplitsSet", a) = 0
<1>1. Len(c) \in Nat /\ k \in Nat /\ k <= Len(c)
  OBVIOUS
<1>2. \A i \in 1..Len(c) : c[i].name = "OwnerUpdated" /\ c[i].account = a => ~(i <= k)
  <2>1. SUFFICES ASSUME NEW i \in 1..Len(c), c[i].name = "OwnerUpdated", c[i].account = a,
                        i <= k
                 PROVE  FALSE
    OBVIOUS
  <2>2. PICK j \in 1..(i - 1) : c[j].name = "OwnerUpdateRequested" /\ c[j].account = a
    BY <2>1 DEF Ordered
  <2>3. j \in 1..k
    BY <1>1, <2>1, <2>2
  <2> QED BY <2>2, <2>3 DEF Requested
<1>3. \A i \in 1..Len(c) : c[i].name = "SplitsSet" /\ c[i].account = a => ~(i <= k)
  <2>1. SUFFICES ASSUME NEW i \in 1..Len(c), c[i].name = "SplitsSet", c[i].account = a,
                        i <= k
                 PROVE  FALSE
    OBVIOUS
  <2>2. PICK j \in 1..(i - 1) : c[j].name = "OwnerUpdated" /\ c[j].account = a
    BY <2>1 DEF Ordered
  <2>3. j \in 1..Len(c) /\ j <= k
    BY <1>1, <2>1, <2>2
  <2> QED BY <1>2, <2>2, <2>3
<1>4. LastAt(c, "OwnerUpdated", a) # 0 =>
        /\ LastAt(c, "OwnerUpdated", a) \in 1..Len(c)
        /\ c[LastAt(c, "OwnerUpdated", a)].name = "OwnerUpdated"
        /\ c[LastAt(c, "OwnerUpdated", a)].account = a
  <2>1. LastAt(c, "OwnerUpdated", a) \in 0..Len(c)
    BY LastIsLast
  <2> QED BY <1>1, <2>1, LastIsLast
<1>5. LastAt(c, "SplitsSet", a) # 0 =>
        /\ LastAt(c, "SplitsSet", a) \in 1..Len(c)
        /\ c[LastAt(c, "SplitsSet", a)].name = "SplitsSet"
        /\ c[LastAt(c, "SplitsSet", a)].account = a
  <2>1. LastAt(c, "SplitsSet", a) \in 0..Len(c)
    BY LastIsLast
  <2> QED BY <1>1, <2>1, LastIsLast
<1> QED BY <1>2, <1>3, <1>4, <1>5

(* The first request is not yet there if it is not the next event.           *)
LEMMA NotYetRequested ==
  ASSUME NEW c \in Seq(Event), NEW k \in 0..(Len(c) - 1), NEW a, Requested(c, k + 1, a)
  PROVE  \/ Requested(c, k, a)
         \/ c[k + 1].name = "OwnerUpdateRequested" /\ c[k + 1].account = a
<1>1. PICK i \in 1..(k + 1) : c[i].name = "OwnerUpdateRequested" /\ c[i].account = a
  BY DEF Requested
<1>2. i \in 1..k \/ i = k + 1
  OBVIOUS
<1> QED BY <1>1, <1>2 DEF Requested

LEMMA OtherTokens ==
  ASSUME NEW c \in Seq(Event), NEW k \in 0..(Len(c) - 1), NEW d, NEW n,
         NEW t \in Tokens, t # c[k + 1].account, TokenTracks(d, c, k, t),
         Spares(d, n, c[k + 1].account)
  PROVE  TokenTracks(n, c, k + 1, t)
<1>1. /\ LastAt(c, "Transfer", t) <= k + 1 => LastAt(c, "Transfer", t) <= k
      /\ LastAt(c, "SplitsSet", t) <= k + 1 => LastAt(c, "SplitsSet", t) <= k
  BY NextEvent
<1>2. /\ \A u \in NftTables : n.nft[u][t] = d.nft[u][t]
      /\ n.splits[t] = d.splits[t]
  BY DEF Spares, Accounts
<1> QED BY <1>1, <1>2 DEF TokenTracks, HasRow

LEMMA OtherSubLists ==
  ASSUME NEW c \in Seq(Event), NEW k \in 0..(Len(c) - 1), NEW d, NEW n,
         NEW s \in SubLists, s # c[k + 1].account, SubListTracks(d, c, k, s),
         Spares(d, n, c[k + 1].account)
  PROVE  SubListTracks(n, c, k + 1, s)
<1>1. LastAt(c, "SplitsSet", s) <= k + 1 => LastAt(c, "SplitsSet", s) <= k
  BY NextEvent
<1>2. n.subLists[s] = d.subLists[s] /\ n.splits[s] = d.splits[s]
  BY DEF Spares, Accounts
<1> QED BY <1>1, <1>2 DEF SubListTracks

LEMMA OtherIdentities ==
  ASSUME NEW c \in Seq(Event), NEW k \in 0..(Len(c) - 1), NEW d, NEW n,
         NEW o \in Orcids, o # c[k + 1].account, IdentityTracks(d, c, k, o),
         Spares(d, n, c[k + 1].account)
  PROVE  IdentityTracks(n, c, k + 1, o)
<1>1. /\ LastAt(c, "OwnerUpdated", o) <= k + 1 => LastAt(c, "OwnerUpdated", o) <= k
      /\ LastAt(c, "SplitsSet", o) <= k + 1 => LastAt(c, "SplitsSet", o) <= k
  BY NextEvent
<1>2. n.identities[o] = d.identities[o]
  BY DEF Spares
<1>3. Requested(c, k + 1, o) => Requested(c, k, o)
  BY NotYetRequested
<1> QED BY <1>1, <1>2, <1>3 DEF IdentityTracks

(* A project that is new because it is paid has had no events that count.    *)
LEMMA NewProject ==
  ASSUME NEW c \in Seq(Event), NEW k \in 0..(Len(c) - 1), Ordered(c), NEW d, NEW n,
         NEW p \in Nat, NEW x \in Projects, ProjectTracks(d, c, k, x),
         d.projects[x] = Absent, n.projects[x] = Unclaimed(p), n.splits[x] = d.splits[x],
         c[k + 1].account # x \/ c[k + 1].name = "OwnerUpdateRequested"
  PROVE  ProjectTracks(n, c, k + 1, x)
<1>1. /\ LastAt(c, "OwnerUpdated", x) <= k + 1 => LastAt(c, "OwnerUpdated", x) <= k
      /\ LastAt(c, "SplitsSet", x) <= k + 1 => LastAt(c, "SplitsSet", x) <= k
  BY NextEvent
<1>2. ~Requested(c, k, x) /\ d.splits[x].config = NoSplits
  BY DEF ProjectTracks
<1>3. k \in 0..Len(c)
  OBVIOUS
<1>4. /\ LastAt(c, "OwnerUpdated", x) <= k + 1 => LastAt(c, "OwnerUpdated", x) = 0
      /\ LastAt(c, "SplitsSet", x) <= k + 1 => LastAt(c, "SplitsSet", x) = 0
  BY <1>1, <1>2, <1>3, Unrequested
<1>5. /\ LastAt(c, "OwnerUpdated", x) <= k + 1 => OwnerOf(c, x) = Absent
      /\ LastAt(c, "SplitsSet", x) <= k + 1 => SplitsOf(c, x) = NoSplits
  BY <1>4 DEF OwnerOf, SplitsOf
<1>6. n.projects[x] # Absent
  BY UnclaimedRow
<1>7. n.projects[x].owner = Absent /\ n.projects[x].valid = TRUE
  BY DEF Unclaimed
<1> QED BY <1>2, <1>5, <1>6, <1>7 DEF ProjectTracks

LEMMA OtherProjects ==
  ASSUME NEW c \in Seq(Event), NEW k \in 0..(Len(c) - 1), Ordered(c), NEW d, NEW n,
         NEW x \in Projects, x # c[k + 1].account,
         ProjectTracks(d, c, k, x), Spares(d, n, c[k + 1].account)
  PROVE  ProjectTracks(n, c, k + 1, x)
<1>1. /\ LastAt(c, "OwnerUpdated", x) <= k + 1 => LastAt(c, "OwnerUpdated", x) <= k
      /\ LastAt(c, "SplitsSet", x) <= k + 1 => LastAt(c, "SplitsSet", x) <= k
  BY NextEvent
<1>2. n.splits[x] = d.splits[x]
  BY DEF Spares, Accounts
<1>3. Requested(c, k + 1, x) => Requested(c, k, x)
  BY NotYetRequested
<1>4. CASE n.projects[x] = d.projects[x]
  BY <1>1, <1>2, <1>3, <1>4 DEF ProjectTracks
<1>5. CASE d.projects[x] = Absent /\ \E p \in Nat : n.projects[x] = Unclaimed(p)
  <2>1. PICK p \in Nat : n.projects[x] = Unclaimed(p)
    BY <1>5
  <2> QED BY <1>2, <1>5, <2>1, NewProject
<1> QED BY <1>4, <1>5 DEF Spares

-----------------------------------------------------------------------------
(* The next event is settled: tokens.                                        *)

(* Wherever the token t is, it has the new owner, and its creator is still   *)
(* the same, or null, or whom it is minted to.  It stays where it was        *)
(* described.                                                                *)
Transferring(d, n, e, p, t) ==
  /\ Spares(d, n, t)
  /\ n.splits = d.splits
  /\ \A u \in NftTables : HasRow(n, u, t) =>
       /\ n.nft[u][t].owner = e.to
       /\ n.nft[u][t].visible = TransferVisible(e, p)
       /\ u = "pending" => n.nft[u][t].valid
       /\ u # "pending" => /\ HasRow(d, u, t)
                           /\ n.nft[u][t].valid = d.nft[u][t].valid
       /\ \/ n.nft[u][t].creator = Absent
          \/ IsMint(e) /\ n.nft[u][t].creator = e.to
          \/ HasRow(d, u, t) /\ n.nft[u][t].creator = d.nft[u][t].creator
  /\ \A u \in NftTables \ {"pending"} : HasRow(d, u, t) => HasRow(n, u, t)
  /\ \E u \in NftTables : HasRow(n, u, t)

LEMMA TransferEffect ==
  ASSUME NEW d, Consistent(d), NEW e \in Event, e.account \in Tokens, e.name = "Transfer",
         NEW p \in Nat
  PROVE  Transferring(d, AfterTransfer(d, e, p), e, p, e.account)
<1> DEFINE t == e.account
           n == AfterTransfer(d, e, p)
<1>0. d \in Db /\ t \in Tokens /\ NftTables = {"drip_lists", "ecosystems", "pending"}
  BY DEF Consistent, NftTables
<1>1. /\ e.to \in Owners \union {Zero} /\ (IsMint(e) => e.to \in Owners)
      /\ TransferVisible(e, p) \in BOOLEAN
  <2>1. e \in MintEvent \union MoveEvent
    BY DEF Event, MetadataEvent, SplitsEvent, RequestEvent, OwnerEvent
  <2> QED BY <2>1, AccountAssumption DEF MintEvent, MoveEvent, IsMint, TransferVisible
<1>2. ASSUME NEW u \in {"drip_lists", "ecosystems"}, HasRow(d, u, t),
             n = [d EXCEPT !.nft[u][t] = Transferred(d.nft[u][t], e, p)]
      PROVE  /\ Spares(d, n, t) /\ n.splits = d.splits
             /\ HasRow(n, u, t) /\ \A v \in NftTables : HasRow(n, v, t) => v = u
             /\ n.nft[u][t].owner = e.to
             /\ n.nft[u][t].visible = TransferVisible(e, p)
             /\ n.nft[u][t].valid = d.nft[u][t].valid
             /\ \/ n.nft[u][t].creator = d.nft[u][t].creator
                \/ IsMint(e) /\ n.nft[u][t].creator = e.to
  <2> DEFINE old == d.nft[u][t]
             row == Transferred(old, e, p)
  <2>1. old \in NftRow
    BY <1>0, <1>2, RowTypes
  <2> HIDE DEF old
  <2>2. /\ row.owner = e.to /\ row.valid = old.valid
        /\ row.visible = TransferVisible(e, p)
        /\ (row.creator = e.to /\ IsMint(e)) \/ row.creator = old.creator
    BY <2>1 DEF Transferred, NftRow
  <2>3. row # Absent
    <3>1. row \in NftRow
      BY <1>1, <2>1 DEF Transferred, NftRow
    <3> QED BY <3>1, RowAssumption
  <2> HIDE DEF row, n
  <2>4. n = NftPut(d, u, t, row)
    BY <1>2 DEF row, old, NftPut
  <2>5. /\ Spares(d, n, t) /\ n.splits = d.splits
        /\ n.nft[u][t] = row
        /\ \A v \in NftTables \ {u} : n.nft[v][t] = d.nft[v][t]
    BY <1>0, <2>4, PutNft
  <2>6. \A v \in NftTables : HasRow(n, v, t) => v = u
    BY <1>0, <1>2, <2>5 DEF HasRow, Consistent
  <2> QED BY <2>2, <2>3, <2>5, <2>6 DEF old, HasRow
<1>3. ASSUME ~HasRow(d, "drip_lists", t), ~HasRow(d, "ecosystems", t)
      PROVE  /\ Spares(d, n, t) /\ n.splits = d.splits
             /\ HasRow(n, "pending", t)
             /\ \A v \in NftTables : HasRow(n, v, t) => v = "pending"
             /\ n.nft["pending"][t].owner = e.to
             /\ n.nft["pending"][t].visible = TransferVisible(e, p)
             /\ n.nft["pending"][t].valid
             /\ \/ n.nft["pending"][t].creator = Absent
                \/ IsMint(e) /\ n.nft["pending"][t].creator = e.to
  <2> DEFINE row == [owner |-> e.to, creator |-> IF IsMint(e) THEN e.to ELSE Absent,
                     visible |-> TransferVisible(e, p), valid |-> TRUE, at |-> p]
  <2>1. n = NftPut(d, "pending", t, row)
    BY <1>3 DEF AfterTransfer, UpsertPending, NftPut
  <2>2. /\ row.owner = e.to /\ ((row.creator = e.to /\ IsMint(e)) \/ row.creator = Absent)
        /\ row.visible = TransferVisible(e, p) /\ row.valid
    OBVIOUS
  <2>3. row # Absent
    <3>1. row \in NftRow
      BY <1>1 DEF NftRow
    <3> QED BY <3>1, RowAssumption
  <2> HIDE DEF row, n
  <2>4. /\ Spares(d, n, t) /\ n.splits = d.splits
        /\ n.nft["pending"][t] = row
        /\ \A v \in NftTables \ {"pending"} : n.nft[v][t] = d.nft[v][t]
    BY <1>0, <2>1, PutNft
  <2>5. \A v \in NftTables : HasRow(n, v, t) => v = "pending"
    BY <1>0, <1>3, <2>4 DEF HasRow
  <2> QED BY <2>2, <2>3, <2>4, <2>5 DEF HasRow
<1>4. CASE HasRow(d, "drip_lists", t) \/ HasRow(d, "ecosystems", t)
  <2>1. PICK u \in {"drip_lists", "ecosystems"} :
          /\ HasRow(d, u, t)
          /\ n = [d EXCEPT !.nft[u][t] = Transferred(d.nft[u][t], e, p)]
    BY <1>4 DEF AfterTransfer
  <2>2. \A v \in NftTables : HasRow(d, v, t) => v = u
    BY <1>0, <2>1 DEF Consistent
  <2>3. /\ Spares(d, n, t) /\ n.splits = d.splits
        /\ HasRow(n, u, t) /\ \A v \in NftTables : HasRow(n, v, t) => v = u
        /\ n.nft[u][t].owner = e.to
        /\ n.nft[u][t].visible = TransferVisible(e, p)
        /\ n.nft[u][t].valid = d.nft[u][t].valid
        /\ \/ n.nft[u][t].creator = d.nft[u][t].creator
           \/ IsMint(e) /\ n.nft[u][t].creator = e.to
    BY <1>2, <2>1
  <2> HIDE DEF n
  <2>4. u \in NftTables /\ u # "pending" /\ HasRow(d, u, t)
    BY <1>0, <2>1
  <2>5. \A v \in NftTables : HasRow(n, v, t) =>
          /\ n.nft[v][t].owner = e.to
          /\ n.nft[v][t].visible = TransferVisible(e, p)
          /\ v = "pending" => n.nft[v][t].valid
          /\ v # "pending" => /\ HasRow(d, v, t)
                              /\ n.nft[v][t].valid = d.nft[v][t].valid
          /\ \/ n.nft[v][t].creator = Absent
             \/ IsMint(e) /\ n.nft[v][t].creator = e.to
             \/ HasRow(d, v, t) /\ n.nft[v][t].creator = d.nft[v][t].creator
    <3> TAKE v \in NftTables
    <3> HAVE HasRow(n, v, t)
    <3>1. v = u
      BY <2>3
    <3> QED BY <2>3, <2>4, <3>1
  <2>6. \A v \in NftTables \ {"pending"} : HasRow(d, v, t) => HasRow(n, v, t)
    BY <2>2, <2>3
  <2>7. \E v \in NftTables : HasRow(n, v, t)
    BY <2>3, <2>4
  <2>8. Transferring(d, n, e, p, t)
    BY <2>3, <2>5, <2>6, <2>7 DEF Transferring
  <2> QED BY <2>8 DEF n
<1>5. CASE ~HasRow(d, "drip_lists", t) /\ ~HasRow(d, "ecosystems", t)
  <2> HIDE DEF n
  <2>1. Transferring(d, n, e, p, t)
    BY <1>0, <1>3, <1>5 DEF Transferring
  <2> QED BY <2>1 DEF n
<1> QED BY <1>4, <1>5

(* A token that is checked, and moved at most.                               *)
Checked(d, n, t, hash) ==
  \A u \in NftTables : HasRow(n, u, t) =>
    /\ n.nft[u][t].valid <=> n.splits[t].config = hash
    /\ \E v \in NftTables : /\ HasRow(d, v, t)
                            /\ n.nft[u][t].owner = d.nft[v][t].owner
                            /\ n.nft[u][t].creator = d.nft[v][t].creator

LEMMA TokenChecked ==
  ASSUME NEW c \in Seq(Event), NEW k \in 0..(Len(c) - 1), NEW d, NEW n, NEW t,
         TokenTracks(d, c, k, t), c[k + 1].name # "Transfer",
         Checked(d, n, t, SplitsOf(c, t))
  PROVE  TokenTracks(n, c, k + 1, t)
<1>1. LastAt(c, "Transfer", t) <= k + 1 => LastAt(c, "Transfer", t) <= k
  BY NextEvent
<1> QED BY <1>1 DEF TokenTracks, Checked

(* The row that metadata describes keeps owner and creator through its move, *)
(* and what the document says is stored.                                     *)
LEMMA DescribeEffect ==
  ASSUME NEW d, Consistent(d), NEW e, e.account \in Tokens, e.doc.splits \in Splits,
         NEW p \in Nat, NEW live, NEW table \in {"drip_lists", "ecosystems"},
         Known(d, table, e.account)
  PROVE  LET n == Describe(d, e, p, live, table)
             t == e.account
         IN /\ Spares(d, n, t)
            /\ Checked(d, n, t, live[t])
            /\ \A u \in NftTables : HasRow(n, u, t) <=> u = table
            /\ n.nft[table][t].visible = DocVisible(e.doc, p)
            /\ n.splits[t].config = e.doc.splits
<1> DEFINE t == e.account
           split == DescribeSplits(d, e, p)
           placed == IF HasRow(d, table, t) THEN split ELSE Migrate(split, table, t)
           row == [placed.nft[table][t] EXCEPT !.visible = DocVisible(e.doc, p),
                                               !.valid = Matches(split, t, live), !.at = p]
           n == Describe(d, e, p, live, table)
<1>0. /\ table \in NftTables /\ t \in Accounts /\ t \in Tokens
      /\ "pending" \in NftTables /\ table # "pending"
  BY DEF NftTables, Accounts
<1>1. /\ split \in Db /\ split.nft = d.nft /\ Spares(d, split, t)
      /\ split.splits[t].config = e.doc.splits
  BY <1>0, DescribeSplitsSpares
<1> HIDE DEF split
<1>2. /\ placed \in Db /\ placed.splits = split.splits /\ Spares(split, placed, t)
      /\ \A u \in NftTables : HasRow(placed, u, t) <=> u = table
      /\ \E v \in NftTables : /\ HasRow(d, v, t)
                              /\ placed.nft[table][t].owner = d.nft[v][t].owner
                              /\ placed.nft[table][t].creator = d.nft[v][t].creator
  <2>1. CASE HasRow(d, table, t)
    <3>1. \A u \in NftTables : HasRow(d, u, t) <=> u = table
      BY <2>1, <1>0 DEF Consistent
    <3> QED BY <2>1, <3>1, <1>0, <1>1 DEF HasRow, Spares
  <2>2. CASE ~HasRow(d, table, t)
    <3> DEFINE moved == Migrate(split, table, t)
               old == split.nft["pending"][t]
               new == [old EXCEPT !.valid = TRUE]
    <3>1. HasRow(split, "pending", t) /\ HasRow(d, "pending", t)
      BY <2>2, <1>1 DEF Known, HasRow
    <3>2. \A u \in NftTables : HasRow(d, u, t) => u = "pending"
      BY <1>0, <3>1 DEF Consistent
    <3>3. old \in NftRow /\ old = d.nft["pending"][t]
      BY <1>0, <1>1, <3>1, RowTypes
    <3> HIDE DEF old
    <3>4. new.owner = old.owner /\ new.creator = old.creator /\ new \in NftRow
      BY <3>3 DEF NftRow
    <3> HIDE DEF new
    <3>a. new # Absent
      BY <3>4, RowAssumption
    <3>5. /\ moved.nft = [split.nft EXCEPT ![table][t] = new, !["pending"][t] = Absent]
          /\ moved.subLists = split.subLists /\ moved.projects = split.projects
          /\ moved.identities = split.identities /\ moved.splits = split.splits
      BY <1>0, <1>1 DEF Migrate, Db, new, old
    <3>6. split.nft \in [NftTables -> [Tokens -> NftRow \union {Absent}]]
      BY <1>1 DEF Db
    <3>b. moved \in Db
      <4>1. moved = [split EXCEPT !.nft[table][t] = new, !.nft["pending"][t] = Absent]
        BY DEF Migrate, new, old
      <4> HIDE DEF moved
      <4> QED BY <1>0, <1>1, <3>4, <4>1 DEF Db
    <3> HIDE DEF moved
    <3>7. \A v \in NftTables, a \in Tokens :
            moved.nft[v][a] = IF v = table /\ a = t THEN new
                              ELSE IF v = "pending" /\ a = t THEN Absent
                              ELSE split.nft[v][a]
      BY <1>0, <3>5, <3>6
    <3>8. Spares(split, moved, t)
      BY <3>5, <3>7 DEF Spares
    <3>9. placed = moved
      BY <2>2 DEF moved
    <3>10. moved.nft[table][t] = new
      BY <1>0, <3>7
    <3>11. moved.splits = split.splits
      BY <3>5
    <3>12. \A u \in NftTables : HasRow(moved, u, t) <=> u = table
      BY <1>0, <1>1, <3>2, <3>7, <3>a DEF HasRow
    <3> QED BY <1>0, <3>1, <3>3, <3>4, <3>8, <3>9, <3>10, <3>11, <3>12, <3>b
  <2> QED BY <2>1, <2>2
<1> HIDE DEF placed
<1>3. placed.nft[table][t] \in NftRow
  BY <1>0, <1>2 DEF Db, HasRow
<1>4. Matches(split, t, live) = (split.splits[t].config = live[t])
  BY DEF Matches
<1>5. /\ row.owner = placed.nft[table][t].owner
      /\ row.creator = placed.nft[table][t].creator
      /\ row.valid = Matches(split, t, live) /\ row.visible = DocVisible(e.doc, p)
  BY <1>3 DEF NftRow
<1>b. row # Absent
  <2>1. row \in NftRow
    BY <1>0, <1>3 DEF NftRow, DocVisible, Matches
  <2> QED BY <2>1, RowAssumption
<1> HIDE DEF row
<1>6. n = NftPut(placed, table, t, row)
  BY DEF Describe, row, placed, split, NftPut
<1> HIDE DEF n
<1>8. /\ Spares(placed, n, t) /\ n.splits = placed.splits
      /\ n.nft[table][t] = row
      /\ \A v \in NftTables \ {table} : n.nft[v][t] = placed.nft[v][t]
  BY <1>0, <1>2, <1>6, PutNft
<1>9. Spares(d, n, t)
  BY <1>1, <1>2, <1>8, SparesTwice
<1>10. \A u \in NftTables : HasRow(n, u, t) => u = table
  BY <1>2, <1>8 DEF HasRow
<1>11. row.valid <=> n.splits[t].config = live[t]
  BY <1>2, <1>4, <1>5, <1>8
<1>12. Checked(d, n, t, live[t])
  BY <1>2, <1>5, <1>8, <1>10, <1>11 DEF Checked
<1>13. \A u \in NftTables : HasRow(n, u, t) <=> u = table
  BY <1>8, <1>10, <1>b DEF HasRow
<1>14. n.nft[table][t].visible = DocVisible(e.doc, p) /\ n.splits[t].config = e.doc.splits
  BY <1>1, <1>2, <1>5, <1>8
<1> QED BY <1>9, <1>12, <1>13, <1>14 DEF n

(* A token whose event is without effect, or fails.                          *)
LEMMA TokenUnchanged ==
  ASSUME NEW c \in Seq(Event), NEW k \in 0..(Len(c) - 1), NEW d, NEW t,
         TokenTracks(d, c, k, t), c[k + 1].name # "Transfer",
         c[k + 1].name = "SplitsSet" =>
           ~HasRow(d, "drip_lists", t) /\ ~HasRow(d, "ecosystems", t)
  PROVE  TokenTracks(d, c, k + 1, t)
<1>1. LastAt(c, "Transfer", t) <= k + 1 => LastAt(c, "Transfer", t) <= k
  BY NextEvent
<1>2. c[k + 1].name # "SplitsSet" =>
        (LastAt(c, "SplitsSet", t) <= k + 1 => LastAt(c, "SplitsSet", t) <= k)
  BY NextEvent
<1> QED BY <1>1, <1>2 DEF TokenTracks, NftTables

LEMMA TransferTracks ==
  ASSUME NEW c \in Seq(Event), NEW k \in 0..(Len(c) - 1), NEW d, Consistent(d),
         c[k + 1].account \in Tokens, c[k + 1].name = "Transfer",
         TokenTracks(d, c, k, c[k + 1].account), NEW p \in Nat
  PROVE  TokenTracks(AfterTransfer(d, c[k + 1], p), c, k + 1, c[k + 1].account)
<1> DEFINE e == c[k + 1]
           t == e.account
           n == AfterTransfer(d, e, p)
<1>0. e \in Event
  OBVIOUS
<1>1. Transferring(d, n, e, p, t)
  BY <1>0, TransferEffect
<1>2. /\ LastAt(c, "SplitsSet", t) <= k + 1 => LastAt(c, "SplitsSet", t) <= k
      /\ LastAt(c, "Transfer", t) <= k + 1 => LastAt(c, "Transfer", t) = k + 1
      /\ k + 1 # 0
  BY NextEvent
<1>3. LastAt(c, "Transfer", t) <= k + 1 => Holder(c, t) = e.to
  BY <1>2 DEF Holder
<1> HIDE DEF n, t, e
<1>4. TokenTracks(d, c, k, t)
  BY DEF t, e
<1>5. TokenTracks(n, c, k + 1, t)
  BY <1>1, <1>2, <1>3, <1>4 DEF TokenTracks, Transferring
<1> QED BY <1>5 DEF n, t, e

LEMMA TokenMetadataTracks ==
  ASSUME NEW c \in Seq(Event), NEW k \in 0..(Len(c) - 1), NEW d, Consistent(d),
         NEW e, c[k + 1].name # "Transfer", c[k + 1].name # "SplitsSet",
         e.account \in Tokens, e.doc.splits \in Splits, TokenTracks(d, c, k, e.account),
         NEW p \in Nat, NEW live, live[e.account] = SplitsOf(c, e.account),
         ~TokenMetadataThrows(d, e)
  PROVE  /\ TokenTracks(AfterTokenMetadata(d, e, p, live), c, k + 1, e.account)
         /\ Spares(d, AfterTokenMetadata(d, e, p, live), e.account)
<1>1. ASSUME NEW table \in {"drip_lists", "ecosystems"}, Known(d, table, e.account)
      PROVE  /\ TokenTracks(Describe(d, e, p, live, table), c, k + 1, e.account)
             /\ Spares(d, Describe(d, e, p, live, table), e.account)
  <2>1. /\ Spares(d, Describe(d, e, p, live, table), e.account)
        /\ Checked(d, Describe(d, e, p, live, table), e.account, live[e.account])
    BY <1>1, DescribeEffect
  <2> QED BY <2>1, TokenChecked
<1>2. CASE e.doc.kind = "dripList"
  <2>1. Known(d, "drip_lists", e.account)
    BY <1>2 DEF TokenMetadataThrows, DripListThrows
  <2> QED BY <1>1, <1>2, <2>1 DEF AfterTokenMetadata, AfterDripList
<1>3. CASE e.doc.kind = "ecosystem"
  <2>1. Known(d, "ecosystems", e.account)
    BY <1>3 DEF TokenMetadataThrows, EcosystemThrows
  <2> QED BY <1>1, <1>3, <2>1 DEF AfterTokenMetadata, AfterEcosystem
<1>4. CASE e.doc.kind # "dripList" /\ e.doc.kind # "ecosystem"
  <2>1. AfterTokenMetadata(d, e, p, live) = d
    BY <1>4 DEF AfterTokenMetadata
  <2> QED BY <2>1, TokenUnchanged DEF Spares
<1> QED BY <1>2, <1>3, <1>4

(* Only validity is written.                                                 *)
Rechecked(d, n, t) ==
  /\ n.splits = d.splits
  /\ \A u \in NftTables : HasRow(n, u, t) <=> HasRow(d, u, t)
  /\ \A u \in NftTables : HasRow(n, u, t) =>
       u # "pending" /\ n.nft[u][t].visible = d.nft[u][t].visible

LEMMA TokenSplitsEffect ==
  ASSUME NEW d, Consistent(d), NEW e, e.account \in Tokens, NEW p \in Nat, NEW live,
         ~TokenSplitsThrow(d, e)
  PROVE  LET n == AfterTokenSplits(d, e, p, live)
             t == e.account
         IN Spares(d, n, t) /\ Checked(d, n, t, live[t]) /\ Rechecked(d, n, t)
<1> DEFINE t == e.account
           table == IF HasRow(d, "drip_lists", t) THEN "drip_lists" ELSE "ecosystems"
           old == d.nft[table][t]
           row == [old EXCEPT !.valid = Matches(d, t, live), !.at = p]
           n == AfterTokenSplits(d, e, p, live)
<1>1. /\ table \in NftTables /\ HasRow(d, table, t) /\ t \in Tokens /\ d \in Db
      /\ table # "pending"
  BY DEF TokenSplitsThrow, NftTables, HasRow, Consistent
<1>2. n = NftPut(d, table, t, row)
  BY DEF AfterTokenSplits, NftPut
<1>3. Matches(d, t, live) = (d.splits[t].config = live[t])
  BY DEF Matches
<1> HIDE DEF table, n
<1>4. old \in NftRow
  BY <1>1, RowTypes
<1> HIDE DEF old
<1>5. /\ row.owner = old.owner /\ row.creator = old.creator
      /\ row.valid = Matches(d, t, live) /\ row.visible = old.visible
  BY <1>4 DEF NftRow
<1>a. row # Absent
  <2>1. row \in NftRow
    BY <1>4 DEF NftRow, Matches
  <2> QED BY <2>1, RowAssumption
<1> HIDE DEF row
<1>6. /\ Spares(d, n, t) /\ n.splits = d.splits /\ n.nft[table][t] = row
      /\ \A v \in NftTables \ {table} : n.nft[v][t] = d.nft[v][t]
  BY <1>1, <1>2, PutNft
<1>7. \A u \in NftTables : HasRow(n, u, t) => u = table
  BY <1>1, <1>6 DEF HasRow, Consistent
<1>8. row.valid <=> n.splits[t].config = live[t]
  BY <1>3, <1>5, <1>6
<1>9. Checked(d, n, t, live[t])
  BY <1>1, <1>5, <1>6, <1>7, <1>8 DEF Checked, old
<1>10. \A u \in NftTables : HasRow(n, u, t) <=> HasRow(d, u, t)
  BY <1>1, <1>6, <1>7, <1>a DEF HasRow
<1>11. \A u \in NftTables : HasRow(n, u, t) =>
         u # "pending" /\ n.nft[u][t].visible = d.nft[u][t].visible
  BY <1>1, <1>5, <1>6, <1>7 DEF old
<1> QED BY <1>6, <1>9, <1>10, <1>11 DEF n, Rechecked

-----------------------------------------------------------------------------
(* The next event is settled: sub lists.                                     *)

LEMMA SubListMetadataTracks ==
  ASSUME NEW c \in Seq(Event), NEW k \in 0..(Len(c) - 1), NEW d, Consistent(d),
         NEW e, c[k + 1].name # "SplitsSet", e.account \in SubLists, e.doc.splits \in Splits,
         SubListTracks(d, c, k, e.account), NEW p \in Nat, NEW live,
         live[e.account] = SplitsOf(c, e.account)
  PROVE  /\ SubListTracks(AfterSubListMetadata(d, e, p, live), c, k + 1, e.account)
         /\ Spares(d, AfterSubListMetadata(d, e, p, live), e.account)
<1> DEFINE s == e.account
           n == AfterSubListMetadata(d, e, p, live)
<1>1. CASE e.doc.kind # "subList"
  <2>1. n = d
    BY <1>1 DEF AfterSubListMetadata
  <2>2. LastAt(c, "SplitsSet", s) <= k + 1 => LastAt(c, "SplitsSet", s) <= k
    BY NextEvent
  <2> QED BY <2>1, <2>2 DEF SubListTracks, Spares
<1>2. CASE e.doc.kind = "subList"
  <2> DEFINE split == DescribeSplits(d, e, p)
             row == [parent |-> e.doc.parent, root |-> e.doc.root,
                     valid |-> Matches(split, s, live), at |-> p]
  <2>1. split \in Db /\ Spares(d, split, s)
    BY DescribeSplitsSpares DEF Accounts
  <2>2. n = SubListPut(split, s, row)
    BY <1>2 DEF AfterSubListMetadata, SubListPut
  <2> HIDE DEF split, n
  <2>3. row.valid <=> split.splits[s].config = SplitsOf(c, s)
    BY DEF Matches
  <2> HIDE DEF row
  <2>4. Spares(split, n, s) /\ n.splits = split.splits /\ n.subLists[s] = row
    BY <2>1, <2>2, PutSubList
  <2>5. Spares(d, n, s)
    BY <2>1, <2>4, SparesTwice
  <2>6. SubListTracks(n, c, k + 1, s)
    BY <2>3, <2>4 DEF SubListTracks
  <2> QED BY <2>5, <2>6 DEF n
<1> QED BY <1>1, <1>2

LEMMA SubListSplitsTracks ==
  ASSUME NEW c \in Seq(Event), NEW k \in 0..(Len(c) - 1), NEW d, Consistent(d),
         NEW e, e.account \in SubLists, NEW p \in Nat, NEW live,
         live[e.account] = SplitsOf(c, e.account), ~SubListSplitsThrow(d, e)
  PROVE  /\ SubListTracks(AfterSubListSplits(d, e, p, live), c, k + 1, e.account)
         /\ Spares(d, AfterSubListSplits(d, e, p, live), e.account)
<1> DEFINE s == e.account
           old == d.subLists[s]
           row == [old EXCEPT !.valid = Matches(d, s, live), !.at = p]
           n == AfterSubListSplits(d, e, p, live)
<1>1. old \in SubListRow
  BY RowTypes DEF SubListSplitsThrow
<1>2. n = SubListPut(d, s, row)
  BY DEF AfterSubListSplits, SubListPut
<1>3. Matches(d, s, live) = (d.splits[s].config = live[s])
  BY DEF Matches
<1> HIDE DEF old, n
<1>4. row.valid = Matches(d, s, live)
  BY <1>1 DEF SubListRow
<1> HIDE DEF row
<1>5. d \in Db
  BY DEF Consistent
<1>6. Spares(d, n, s) /\ n.splits = d.splits /\ n.subLists[s] = row
  BY <1>2, <1>5, PutSubList
<1>7. SubListTracks(n, c, k + 1, s)
  BY <1>3, <1>4, <1>6 DEF SubListTracks
<1> QED BY <1>6, <1>7 DEF n

-----------------------------------------------------------------------------
(* The next event is settled: projects.                                      *)

LEMMA ProjectUnchanged ==
  ASSUME NEW c \in Seq(Event), NEW k \in 0..(Len(c) - 1), NEW d, NEW x,
         ProjectTracks(d, c, k, x), c[k + 1].name # "OwnerUpdateRequested",
         c[k + 1].name \in {"OwnerUpdated", "SplitsSet"} => d.projects[x] = Absent
  PROVE  ProjectTracks(d, c, k + 1, x)
<1>1. Requested(c, k + 1, x) => Requested(c, k, x)
  BY NotYetRequested
<1>2. c[k + 1].name # "OwnerUpdated" =>
        (LastAt(c, "OwnerUpdated", x) <= k + 1 => LastAt(c, "OwnerUpdated", x) <= k)
  BY NextEvent
<1>3. c[k + 1].name # "SplitsSet" =>
        (LastAt(c, "SplitsSet", x) <= k + 1 => LastAt(c, "SplitsSet", x) <= k)
  BY NextEvent
<1> QED BY <1>1, <1>2, <1>3 DEF ProjectTracks

LEMMA ProjectRequestTracks ==
  ASSUME NEW c \in Seq(Event), NEW k \in 0..(Len(c) - 1), Ordered(c), NEW d, Consistent(d),
         NEW e, c[k + 1].name = "OwnerUpdateRequested", e.account \in Projects,
         ProjectTracks(d, c, k, e.account), NEW p \in Nat
  PROVE  /\ ProjectTracks(AfterRequest(d, e, p), c, k + 1, e.account)
         /\ Spares(d, AfterRequest(d, e, p), e.account)
<1> DEFINE x == e.account
           row == IF d.projects[x] = Absent THEN Unclaimed(p) ELSE d.projects[x]
           n == AfterRequest(d, e, p)
<1>1. n = ProjectPut(d, x, row)
  BY DEF AfterRequest, ProjectPut
<1> HIDE DEF n
<1>2. d \in Db /\ x \in Projects
  BY DEF Consistent
<1>3. Spares(d, n, x) /\ n.splits = d.splits /\ n.projects[x] = row
  BY <1>1, <1>2, PutProject
<1>4. CASE d.projects[x] = Absent
  <2>1. n.projects[x] = Unclaimed(p) /\ n.splits[x] = d.splits[x]
    BY <1>3, <1>4
  <2>2. ProjectTracks(n, c, k + 1, x)
    BY <1>2, <1>4, <2>1, NewProject
  <2> QED BY <1>3, <2>2 DEF n
<1>5. CASE d.projects[x] # Absent
  <2>1. n.projects[x] = d.projects[x] /\ n.splits[x] = d.splits[x]
    BY <1>3, <1>5
  <2>2. /\ LastAt(c, "OwnerUpdated", x) <= k + 1 => LastAt(c, "OwnerUpdated", x) <= k
        /\ LastAt(c, "SplitsSet", x) <= k + 1 => LastAt(c, "SplitsSet", x) <= k
    BY NextEvent
  <2>3. ProjectTracks(n, c, k + 1, x)
    BY <1>5, <2>1, <2>2 DEF ProjectTracks
  <2> QED BY <1>3, <2>3 DEF n
<1> QED BY <1>4, <1>5

LEMMA OwnersAreOwners == \A e \in Event : e.name = "OwnerUpdated" => e.owner \in Owners
<1> SUFFICES ASSUME NEW e \in Event, e.name = "OwnerUpdated" PROVE e.owner \in Owners
  OBVIOUS
<1>1. e \in OwnerEvent
  BY DEF Event, MintEvent, MoveEvent, MetadataEvent, SplitsEvent, RequestEvent
<1> QED BY <1>1 DEF OwnerEvent

LEMMA ProjectOwnerTracks ==
  ASSUME NEW c \in Seq(Event), NEW k \in 0..(Len(c) - 1), NEW d, Consistent(d),
         c[k + 1].name = "OwnerUpdated", c[k + 1].account \in Projects,
         ProjectTracks(d, c, k, c[k + 1].account), NEW p \in Nat, ~OwnerThrows(d, c[k + 1])
  PROVE  /\ ProjectTracks(AfterOwner(d, c[k + 1], p), c, k + 1, c[k + 1].account)
         /\ Spares(d, AfterOwner(d, c[k + 1], p), c[k + 1].account)
<1> DEFINE e == c[k + 1]
           x == e.account
           old == d.projects[x]
           row == [old EXCEPT !.owner = e.owner, !.at = p,
                              !.status = Status(e.owner, old.described)]
           n == AfterOwner(d, e, p)
<1>1. n = ProjectPut(d, x, row)
  BY DEF AfterOwner, ProjectPut
<1>2. d \in Db /\ x \in Projects /\ old # Absent
  BY DEF Consistent, OwnerThrows
<1>3. old \in ProjectRow /\ row # Absent
  <2>1. old \in ProjectRow
    BY <1>2, RowTypes
  <2>2. e.owner \in Owners
    BY OwnersAreOwners
  <2> HIDE DEF old, e
  <2>3. row \in ProjectRow
    BY <2>1, <2>2, StatusType DEF ProjectRow
  <2> QED BY <2>1, <2>3, RowAssumption DEF old
<1>4. /\ LastAt(c, "SplitsSet", x) <= k + 1 => LastAt(c, "SplitsSet", x) <= k
      /\ LastAt(c, "OwnerUpdated", x) <= k + 1 => LastAt(c, "OwnerUpdated", x) = k + 1
      /\ k + 1 # 0
  <2>1. c[k + 1].name # "SplitsSet"
    OBVIOUS
  <2>2. LastAt(c, "SplitsSet", x) <= k + 1 => LastAt(c, "SplitsSet", x) <= k
    BY <2>1, NextEvent
  <2>3. LastAt(c, "OwnerUpdated", x) <= k + 1 => LastAt(c, "OwnerUpdated", x) = k + 1
    BY NextEvent
  <2> QED BY <2>2, <2>3
<1>5. LastAt(c, "OwnerUpdated", x) <= k + 1 => OwnerOf(c, x) = e.owner
  BY <1>4 DEF OwnerOf
<1>6. ProjectTracks(d, c, k, x)
  OBVIOUS
<1> HIDE DEF n, x, e, old
<1>7. row.owner = e.owner /\ row.valid = old.valid
  BY <1>3 DEF ProjectRow
<1> HIDE DEF row
<1>8. Spares(d, n, x) /\ n.splits = d.splits /\ n.projects[x] = row
  BY <1>1, <1>2, PutProject
<1>9. ProjectTracks(n, c, k + 1, x)
  BY <1>2, <1>3, <1>4, <1>5, <1>6, <1>7, <1>8 DEF ProjectTracks, old
<1> QED BY <1>8, <1>9 DEF n, x, e

(* A project that is checked and keeps its owner.                            *)
LEMMA ProjectChecked ==
  ASSUME NEW c \in Seq(Event), NEW k \in 0..(Len(c) - 1), NEW n, NEW x,
         n.projects[x] # Absent, c[k + 1].name # "OwnerUpdated",
         LastAt(c, "OwnerUpdated", x) <= k => n.projects[x].owner = OwnerOf(c, x),
         n.projects[x].valid <=> n.splits[x].config = SplitsOf(c, x)
  PROVE  ProjectTracks(n, c, k + 1, x)
<1>1. LastAt(c, "OwnerUpdated", x) <= k + 1 => LastAt(c, "OwnerUpdated", x) <= k
  BY NextEvent
<1> QED BY <1>1 DEF ProjectTracks

LEMMA ProjectSplitsTracks ==
  ASSUME NEW c \in Seq(Event), NEW k \in 0..(Len(c) - 1), NEW d, Consistent(d),
         NEW e, c[k + 1].name # "OwnerUpdated", e.account \in Projects,
         ProjectTracks(d, c, k, e.account), NEW p \in Nat, NEW live,
         live[e.account] = SplitsOf(c, e.account), ~ProjectSplitsThrow(d, e)
  PROVE  /\ ProjectTracks(AfterProjectSplits(d, e, p, live), c, k + 1, e.account)
         /\ Spares(d, AfterProjectSplits(d, e, p, live), e.account)
<1> DEFINE x == e.account
           old == d.projects[x]
           row == [old EXCEPT !.valid = Matches(d, x, live), !.at = p,
                              !.status = Status(old.owner, old.described)]
           n == AfterProjectSplits(d, e, p, live)
<1>1. n = ProjectPut(d, x, row)
  BY DEF AfterProjectSplits, ProjectPut
<1>2. d \in Db /\ x \in Projects /\ old # Absent /\ old \in ProjectRow
  BY RowTypes DEF Consistent, ProjectSplitsThrow
<1>3. Matches(d, x, live) = (d.splits[x].config = live[x])
  BY DEF Matches
<1>4. LastAt(c, "OwnerUpdated", x) <= k => old.owner = OwnerOf(c, x)
  BY <1>2 DEF ProjectTracks
<1> HIDE DEF n, old
<1>5. row.owner = old.owner /\ row.valid = Matches(d, x, live)
  BY <1>2 DEF ProjectRow
<1>6. row \in ProjectRow
  BY <1>2, <1>3, StatusType DEF ProjectRow
<1> HIDE DEF row
<1>7. Spares(d, n, x) /\ n.splits = d.splits /\ n.projects[x] = row
  BY <1>1, <1>2, PutProject
<1>8. row # Absent
  BY <1>6, RowAssumption
<1>9. n.projects[x].valid <=> n.splits[x].config = SplitsOf(c, x)
  BY <1>3, <1>5, <1>7
<1>10. ProjectTracks(n, c, k + 1, x)
  BY <1>4, <1>5, <1>7, <1>8, <1>9, ProjectChecked
<1> QED BY <1>7, <1>10 DEF n

LEMMA ProjectMetadataTracks ==
  ASSUME NEW c \in Seq(Event), NEW k \in 0..(Len(c) - 1), Ordered(c), NEW d, Consistent(d),
         NEW e, c[k + 1].name # "OwnerUpdated", e.account \in Projects, IsDocument(e.doc),
         ProjectTracks(d, c, k, e.account), NEW p \in Nat, NEW live,
         live[e.account] = SplitsOf(c, e.account), ~ProjectMetadataThrows(d, e)
  PROVE  /\ ProjectTracks(AfterProjectMetadata(d, e, p, live), c, k + 1, e.account)
         /\ Spares(d, AfterProjectMetadata(d, e, p, live), e.account)
<1> DEFINE x == e.account
           split == DescribeSplits(d, e, p)
           old == split.projects[x]
           row == [old EXCEPT
                    !.described = TRUE, !.at = p,
                    !.visible = IF e.doc.visible = "unsaid" THEN old.visible
                                                            ELSE e.doc.visible = "shown",
                    !.valid = Matches(split, x, live), !.status = Status(old.owner, TRUE)]
           n == AfterProjectMetadata(d, e, p, live)
<1>0. x \in Projects /\ x \in Accounts /\ e.doc.splits \in Splits
  BY DEF Accounts, IsDocument
<1>1. n = ProjectPut(split, x, row)
  BY DEF AfterProjectMetadata, ProjectPut
<1>2. split \in Db /\ split.projects = EnsureProjects(d, e.doc, p).projects
  BY <1>0, DescribeSplitsSpares
<1>3. /\ Spares(d, split, x)
      /\ \/ split.projects[x] = d.projects[x]
         \/ d.projects[x] = Absent /\ split.projects[x] = Unclaimed(p)
  BY <1>0, DescribeSplitsSpares
<1>4. old # Absent
  <2>1. EnsureProjects(d, e.doc, 0).projects[x] # Absent
    BY DEF ProjectMetadataThrows
  <2>2. d.projects[x] # Absent \/ x \in Sourced(e.doc)
    BY <2>1 DEF EnsureProjects, Consistent, Db
  <2>3. Unclaimed(p) # Absent
    BY UnclaimedRow
  <2>4. EnsureProjects(d, e.doc, p).projects[x] # Absent
    BY <2>2, <2>3 DEF EnsureProjects, Consistent, Db
  <2> QED BY <1>2, <2>4
<1> HIDE DEF split, n
<1>5. old \in ProjectRow /\ split \in Db
  BY <1>0, <1>2, <1>4 DEF Db
<1>6. Matches(split, x, live) = (split.splits[x].config = live[x])
  BY DEF Matches
<1>7. LastAt(c, "OwnerUpdated", x) <= k => old.owner = OwnerOf(c, x)
  <2>1. CASE d.projects[x] # Absent
    BY <1>3, <2>1 DEF ProjectTracks
  <2>2. CASE d.projects[x] = Absent
    <3>1. ~Requested(c, k, x) /\ old = Unclaimed(p)
      BY <1>3, <1>4, <2>2 DEF ProjectTracks
    <3>2. k \in 0..Len(c)
      OBVIOUS
    <3>3. LastAt(c, "OwnerUpdated", x) <= k => LastAt(c, "OwnerUpdated", x) = 0
      BY <1>0, <3>1, <3>2, Unrequested
    <3> QED BY <3>1, <3>3 DEF Unclaimed, OwnerOf
  <2> QED BY <2>1, <2>2
<1> HIDE DEF old
<1>8. row.owner = old.owner /\ row.valid = Matches(split, x, live)
  BY <1>5 DEF ProjectRow
<1>9. row \in ProjectRow
  BY <1>5, <1>6, StatusType DEF ProjectRow
<1> HIDE DEF row
<1>10. row # Absent
  BY <1>9, RowAssumption
<1>11. Spares(split, n, x) /\ n.splits = split.splits /\ n.projects[x] = row
  BY <1>0, <1>1, <1>5, PutProject
<1>12. Spares(d, n, x)
  BY <1>3, <1>11, SparesTwice
<1>13. n.projects[x].valid <=> n.splits[x].config = SplitsOf(c, x)
  BY <1>6, <1>8, <1>11
<1>14. ProjectTracks(n, c, k + 1, x)
  BY <1>7, <1>8, <1>10, <1>11, <1>13, ProjectChecked
<1> QED BY <1>12, <1>14 DEF n

-----------------------------------------------------------------------------
(* The next event is settled: identities.                                    *)

LEMMA IdentityRequestTracks ==
  ASSUME NEW c \in Seq(Event), NEW k \in 0..(Len(c) - 1), Ordered(c), NEW d, Consistent(d),
         NEW e, c[k + 1].name = "OwnerUpdateRequested", e.account \in Orcids,
         IdentityTracks(d, c, k, e.account), NEW p \in Nat
  PROVE  /\ IdentityTracks(AfterRequest(d, e, p), c, k + 1, e.account)
         /\ Spares(d, AfterRequest(d, e, p), e.account)
<1> DEFINE o == e.account
           new == [owner |-> Absent, valid |-> FALSE, at |-> p]
           row == IF d.identities[o] = Absent THEN new ELSE d.identities[o]
           n == AfterRequest(d, e, p)
<1>1. n = IdentityPut(d, o, row)
  <2>1. o \notin Projects
    BY AccountAssumption
  <2> QED BY <2>1 DEF AfterRequest, IdentityPut
<1>2. new \in IdentityRow /\ new.owner = Absent
  BY DEF IdentityRow
<1>3. new # Absent
  BY <1>2, RowAssumption
<1> HIDE DEF n, new
<1>4. d \in Db /\ o \in Orcids
  BY DEF Consistent
<1>5. Spares(d, n, o) /\ n.identities[o] = row
  BY <1>1, <1>4, PutIdentity
<1>6. /\ LastAt(c, "OwnerUpdated", o) <= k + 1 => LastAt(c, "OwnerUpdated", o) <= k
      /\ LastAt(c, "SplitsSet", o) <= k + 1 => LastAt(c, "SplitsSet", o) <= k
      /\ LastAt(c, "OwnerUpdated", o) \in Nat
  BY NextEvent
<1>7. CASE d.identities[o] = Absent
  <2>1. ~Requested(c, k, o) /\ n.identities[o] = new
    BY <1>5, <1>7 DEF IdentityTracks
  <2>2. k \in 0..Len(c)
    OBVIOUS
  <2>3. /\ LastAt(c, "OwnerUpdated", o) <= k + 1 => LastAt(c, "OwnerUpdated", o) = 0
        /\ LastAt(c, "SplitsSet", o) <= k + 1 => LastAt(c, "SplitsSet", o) = 0
    BY <1>4, <1>6, <2>1, <2>2, Unrequested
  <2>4. LastAt(c, "OwnerUpdated", o) <= k + 1 => OwnerOf(c, o) = Absent
    BY <2>3 DEF OwnerOf
  <2>5. IdentityTracks(n, c, k + 1, o)
    BY <1>2, <1>3, <1>6, <2>1, <2>3, <2>4 DEF IdentityTracks
  <2> QED BY <1>5, <2>5 DEF n
<1>8. CASE d.identities[o] # Absent
  <2>1. n.identities[o] = d.identities[o]
    BY <1>5, <1>8
  <2>2. IdentityTracks(n, c, k + 1, o)
    BY <1>6, <1>8, <2>1 DEF IdentityTracks
  <2> QED BY <1>5, <2>2 DEF n
<1> QED BY <1>7, <1>8

LEMMA IdentityOwnerTracks ==
  ASSUME NEW c \in Seq(Event), NEW k \in 0..(Len(c) - 1), NEW d, Consistent(d),
         c[k + 1].name = "OwnerUpdated", c[k + 1].account \in Orcids,
         NEW p \in Nat, ~OwnerThrows(d, c[k + 1])
  PROVE  /\ IdentityTracks(AfterOwner(d, c[k + 1], p), c, k + 1, c[k + 1].account)
         /\ Spares(d, AfterOwner(d, c[k + 1], p), c[k + 1].account)
<1> DEFINE e == c[k + 1]
           o == e.account
           old == d.identities[o]
           row == [old EXCEPT !.owner = e.owner, !.at = p]
           n == AfterOwner(d, e, p)
<1>1. n = IdentityPut(d, o, row)
  <2>1. o \notin Projects
    BY AccountAssumption
  <2> QED BY <2>1 DEF AfterOwner, IdentityPut
<1>2. d \in Db /\ o \in Orcids /\ old \in IdentityRow /\ e.owner \in Owners
  BY RowTypes, OwnersAreOwners DEF Consistent, OwnerThrows
<1>3. /\ LastAt(c, "OwnerUpdated", o) <= k + 1 => LastAt(c, "OwnerUpdated", o) = k + 1
      /\ LastAt(c, "SplitsSet", o) <= k + 1 => LastAt(c, "SplitsSet", o) <= k
      /\ LastAt(c, "OwnerUpdated", o) \in Nat /\ LastAt(c, "SplitsSet", o) \in Nat
      /\ k \in Nat /\ k + 1 <= LastAt(c, "OwnerUpdated", o)
  BY NextEvent
<1>4. LastAt(c, "OwnerUpdated", o) <= k + 1 => OwnerOf(c, o) = e.owner
  BY <1>3 DEF OwnerOf
<1> HIDE DEF n, o, e, old
<1>5. row \in IdentityRow /\ row.owner = e.owner
  BY <1>2 DEF IdentityRow
<1> HIDE DEF row
<1>6. row # Absent
  BY <1>5, RowAssumption
<1>7. Spares(d, n, o) /\ n.identities[o] = row
  BY <1>1, <1>2, PutIdentity
<1>8. LastAt(c, "SplitsSet", o) <= k + 1 =>
        LastAt(c, "SplitsSet", o) <= LastAt(c, "OwnerUpdated", o)
  BY <1>3
<1>9. Requested(c, k + 1, o) => n.identities[o] # Absent
  BY <1>6, <1>7
<1>10. IdentityTracks(n, c, k + 1, o)
  BY <1>4, <1>5, <1>7, <1>8, <1>9 DEF IdentityTracks
<1> QED BY <1>7, <1>10 DEF n, o, e

LEMMA IdentitySplitsTracks ==
  ASSUME NEW c \in Seq(Event), NEW k \in 0..(Len(c) - 1), NEW d, Consistent(d),
         c[k + 1].name = "SplitsSet", c[k + 1].account \in Orcids,
         IdentityTracks(d, c, k, c[k + 1].account), NEW p \in Nat, NEW live,
         live[c[k + 1].account] = SplitsOf(c, c[k + 1].account),
         ~IdentitySplitsThrow(d, c[k + 1])
  PROVE  /\ IdentityTracks(AfterIdentitySplits(d, c[k + 1], p, live), c, k + 1,
                           c[k + 1].account)
         /\ Spares(d, AfterIdentitySplits(d, c[k + 1], p, live), c[k + 1].account)
<1> DEFINE e == c[k + 1]
           o == e.account
           old == d.identities[o]
           right == live[o] = e.splits /\ live[o] = Pays(old.owner)
           row == [old EXCEPT !.at = p, !.valid = right]
           n == AfterIdentitySplits(d, e, p, live)
<1>1. n = IdentityPut(d, o, row)
  BY DEF AfterIdentitySplits, IdentityPut
<1>2. d \in Db /\ o \in Orcids /\ old \in IdentityRow /\ old # Absent
  BY RowTypes DEF Consistent, IdentitySplitsThrow
<1>3. /\ LastAt(c, "OwnerUpdated", o) <= k + 1 => LastAt(c, "OwnerUpdated", o) <= k
      /\ LastAt(c, "SplitsSet", o) <= k + 1 => LastAt(c, "SplitsSet", o) = k + 1
      /\ k + 1 # 0
  <2>1. /\ k \in Nat
        /\ LastAt(c, "OwnerUpdated", o) <= k + 1 => LastAt(c, "OwnerUpdated", o) <= k
    BY NextEvent
  <2>2. LastAt(c, "SplitsSet", o) <= k + 1 => LastAt(c, "SplitsSet", o) = k + 1
    BY NextEvent
  <2> QED BY <2>1, <2>2
<1>4. LastAt(c, "SplitsSet", o) <= k + 1 => SplitsOf(c, o) = e.splits
  BY <1>3 DEF SplitsOf
<1>5. LastAt(c, "SplitsSet", o) <= k + 1 =>
        (right <=> SplitsOf(c, o) = Pays(old.owner))
  BY <1>4
<1>6. LastAt(c, "OwnerUpdated", o) <= k => old.owner = OwnerOf(c, o)
  BY <1>2 DEF IdentityTracks
<1> HIDE DEF n, o, e, old, right
<1>7. row.owner = old.owner /\ row.valid = right
  BY <1>2 DEF IdentityRow
<1>8. row \in IdentityRow
  <2>1. right \in BOOLEAN
    BY DEF right
  <2> QED BY <1>2, <2>1 DEF IdentityRow
<1> HIDE DEF row
<1>9. row # Absent
  BY <1>8, RowAssumption
<1>10. Spares(d, n, o) /\ n.identities[o] = row
  BY <1>1, <1>2, PutIdentity
<1>11. Requested(c, k + 1, o) => n.identities[o] # Absent
  BY <1>9, <1>10
<1>12. IdentityTracks(n, c, k + 1, o)
  BY <1>3, <1>5, <1>6, <1>7, <1>10, <1>11 DEF IdentityTracks
<1> QED BY <1>10, <1>12 DEF n, o, e

(* An event of an identity that fails: splits are set by an owner, so the    *)
(* check can only fail of an identity whose owner is about to change.        *)
LEMMA IdentityUnchanged ==
  ASSUME NEW c \in Seq(Event), NEW k \in 0..(Len(c) - 1), Ordered(c), NEW d,
         c[k + 1].account \in Orcids, IdentityTracks(d, c, k, c[k + 1].account),
         Throws(d, c[k + 1])
  PROVE  IdentityTracks(d, c, k + 1, c[k + 1].account)
<1> DEFINE e == c[k + 1]
           o == e.account
<1>0. o \notin Tokens \union SubLists \union Projects /\ o \in Orcids
  BY AccountAssumption
<1>1. \/ e.name = "OwnerUpdated" /\ d.identities[o] = Absent
      \/ e.name = "SplitsSet" /\ IdentitySplitsThrow(d, e)
  BY <1>0 DEF Throws, MetadataThrows, SplitsThrow, OwnerThrows
<1>2. Requested(c, k + 1, o) => Requested(c, k, o)
  BY <1>1, NotYetRequested
<1>3. CASE d.identities[o] = Absent
  BY <1>2, <1>3 DEF IdentityTracks
<1>4. CASE d.identities[o] # Absent
  <2>1. e.name = "SplitsSet" /\ d.identities[o].owner = Absent
    BY <1>1, <1>4 DEF IdentitySplitsThrow
  <2>2. /\ LastAt(c, "OwnerUpdated", o) <= k + 1 => LastAt(c, "OwnerUpdated", o) <= k
        /\ LastAt(c, "SplitsSet", o) <= k + 1 => LastAt(c, "SplitsSet", o) = k + 1
        /\ LastAt(c, "OwnerUpdated", o) \in Nat /\ LastAt(c, "SplitsSet", o) \in Nat
        /\ k \in Nat
    BY <2>1, NextEvent
  <2>3. ~(LastAt(c, "OwnerUpdated", o) <= k)
    <3>1. SUFFICES ASSUME LastAt(c, "OwnerUpdated", o) <= k PROVE FALSE
      OBVIOUS
    <3>2. k + 1 \in 1..Len(c)
      OBVIOUS
    <3>3. PICK j \in 1..k : c[j].name = "OwnerUpdated" /\ c[j].account = o
      <4>1. \E j \in 1..((k + 1) - 1) : c[j].name = "OwnerUpdated" /\ c[j].account = o
        <5> HIDE DEF o
        <5> QED BY <1>0, <2>1, <3>2 DEF Ordered, o
      <4>2. (k + 1) - 1 = k
        OBVIOUS
      <4> QED BY <4>1, <4>2
    <3>4. j \in 1..Len(c)
      OBVIOUS
    <3>5. LastAt(c, "OwnerUpdated", o) # 0
      BY <2>2, <3>3, <3>4, LastIsLast
    <3>6. /\ LastAt(c, "OwnerUpdated", o) \in 1..Len(c)
          /\ c[LastAt(c, "OwnerUpdated", o)].name = "OwnerUpdated"
      BY <2>2, <3>1, <3>5, LastIsLast
    <3>7. OwnerOf(c, o) \in Owners
      BY <3>5, <3>6, OwnersAreOwners DEF OwnerOf
    <3>8. d.identities[o].owner = OwnerOf(c, o)
      BY <1>4, <3>1 DEF IdentityTracks
    <3> QED BY <2>1, <3>7, <3>8, AccountAssumption
  <2>4. LastAt(c, "SplitsSet", o) <= k + 1 =>
          LastAt(c, "SplitsSet", o) <= LastAt(c, "OwnerUpdated", o)
    BY <2>2, <2>3
  <2> QED BY <1>2, <2>2, <2>3, <2>4 DEF IdentityTracks
<1> QED BY <1>3, <1>4

-----------------------------------------------------------------------------
(* The next event is settled, whichever it is.                               *)

AccountTracks(d, c, k, a) ==
  /\ a \in Tokens => TokenTracks(d, c, k, a)
  /\ a \in SubLists => SubListTracks(d, c, k, a)
  /\ a \in Projects => ProjectTracks(d, c, k, a)
  /\ a \in Orcids => IdentityTracks(d, c, k, a)

LEMMA AllTrack ==
  ASSUME NEW c \in Seq(Event), NEW k \in 0..(Len(c) - 1), Ordered(c), NEW d, NEW n,
         Tracks(d, c, k), Spares(d, n, c[k + 1].account),
         AccountTracks(n, c, k + 1, c[k + 1].account)
  PROVE  Tracks(n, c, k + 1)
<1>1. \A t \in Tokens : TokenTracks(n, c, k + 1, t)
  BY OtherTokens DEF Tracks, AccountTracks
<1>2. \A s \in SubLists : SubListTracks(n, c, k + 1, s)
  BY OtherSubLists DEF Tracks, AccountTracks
<1>3. \A x \in Projects : ProjectTracks(n, c, k + 1, x)
  BY OtherProjects DEF Tracks, AccountTracks
<1>4. \A o \in Orcids : IdentityTracks(n, c, k + 1, o)
  BY OtherIdentities DEF Tracks, AccountTracks
<1> QED BY <1>1, <1>2, <1>3, <1>4 DEF Tracks

(* Names and accounts go together as the contracts emit them.                *)
LEMMA EventKinds ==
  ASSUME NEW e \in Event
  PROVE  /\ e.account \in Accounts
         /\ \/ e.name = "Transfer" /\ e.account \in Tokens
            \/ /\ e.name = "AccountMetadataEmitted"
               /\ e.account \in Tokens \union SubLists \union Projects
               /\ IsDocument(e.doc) /\ e.doc.splits \in Splits
            \/ e.name = "SplitsSet"
            \/ e.name = "OwnerUpdateRequested" /\ e.account \in Projects \union Orcids
            \/ e.name = "OwnerUpdated" /\ e.account \in Projects \union Orcids
<1>1. CASE e \in MintEvent \union MoveEvent
  BY <1>1 DEF MintEvent, MoveEvent, Accounts
<1>2. CASE e \in MetadataEvent
  <2>1. e.doc \in Documents
    BY <1>2 DEF MetadataEvent
  <2>2. IsDocument(e.doc) /\ e.doc.splits \in Splits
    BY <2>1, DocumentsAreDocuments DEF IsDocument
  <2> QED BY <1>2, <2>2 DEF MetadataEvent, Accounts
<1>3. CASE e \in SplitsEvent
  BY <1>3 DEF SplitsEvent
<1>4. CASE e \in RequestEvent \union OwnerEvent
  BY <1>4 DEF RequestEvent, OwnerEvent, Accounts
<1> QED BY <1>1, <1>2, <1>3, <1>4 DEF Event

LEMMA HandledTracks ==
  ASSUME NEW c \in Seq(Event), NEW k \in 0..(Len(c) - 1), Ordered(c), NEW d, Consistent(d),
         Tracks(d, c, k), NEW live, \A a \in Accounts : live[a] = SplitsOf(c, a),
         ~Throws(d, c[k + 1])
  PROVE  /\ Spares(d, After(d, c[k + 1], k + 1, live), c[k + 1].account)
         /\ Tracks(After(d, c[k + 1], k + 1, live), c, k + 1)
<1> DEFINE e == c[k + 1]
           a == e.account
           n == After(d, e, k + 1, live)
<1>0. /\ k + 1 \in Nat /\ e \in Event
      /\ a \in Tokens => a \notin SubLists \union Projects \union Orcids
      /\ a \in SubLists => a \notin Projects \union Orcids
      /\ a \in Projects => a \notin Orcids
  BY AccountAssumption
<1>1. a \in Accounts /\ live[a] = SplitsOf(c, a)
  BY <1>0, EventKinds
<1>2. /\ a \in Tokens => TokenTracks(d, c, k, a)
      /\ a \in SubLists => SubListTracks(d, c, k, a)
      /\ a \in Projects => ProjectTracks(d, c, k, a)
      /\ a \in Orcids => IdentityTracks(d, c, k, a)
  BY DEF Tracks
<1>3. Spares(d, n, a) /\ AccountTracks(n, c, k + 1, a)
  <2>1. CASE e.name = "Transfer" /\ a \in Tokens
    <3>1. n = AfterTransfer(d, e, k + 1)
      BY <2>1 DEF After
    <3>2. Spares(d, n, a)
      BY <1>0, <2>1, <3>1, TransferEffect DEF Transferring
    <3>3. TokenTracks(n, c, k + 1, a)
      BY <1>0, <1>2, <2>1, <3>1, TransferTracks
    <3> QED BY <1>0, <2>1, <3>2, <3>3 DEF AccountTracks
  <2>2. CASE e.name = "AccountMetadataEmitted" /\ IsDocument(e.doc) /\ e.doc.splits \in Splits
    <3>1. ~MetadataThrows(d, e) /\ n = AfterMetadata(d, e, k + 1, live)
      BY <2>2 DEF Throws, After
    <3>2. CASE a \in Tokens
      <4>1. n = AfterTokenMetadata(d, e, k + 1, live) /\ ~TokenMetadataThrows(d, e)
        BY <1>0, <3>1, <3>2 DEF AfterMetadata, MetadataThrows
      <4>2. TokenTracks(n, c, k + 1, a) /\ Spares(d, n, a)
        BY <1>0, <1>1, <1>2, <2>2, <3>2, <4>1, TokenMetadataTracks
      <4> QED BY <1>0, <3>2, <4>2 DEF AccountTracks
    <3>3. CASE a \in SubLists
      <4>1. n = AfterSubListMetadata(d, e, k + 1, live)
        BY <1>0, <3>1, <3>3 DEF AfterMetadata
      <4>2. SubListTracks(n, c, k + 1, a) /\ Spares(d, n, a)
        BY <1>0, <1>1, <1>2, <2>2, <3>3, <4>1, SubListMetadataTracks
      <4> QED BY <1>0, <3>3, <4>2 DEF AccountTracks
    <3>4. CASE a \in Projects
      <4>1. n = AfterProjectMetadata(d, e, k + 1, live) /\ ~ProjectMetadataThrows(d, e)
        BY <1>0, <3>1, <3>4 DEF AfterMetadata, MetadataThrows
      <4>2. ProjectTracks(n, c, k + 1, a) /\ Spares(d, n, a)
        BY <1>0, <1>1, <1>2, <2>2, <3>4, <4>1, ProjectMetadataTracks
      <4> QED BY <1>0, <3>4, <4>2 DEF AccountTracks
    <3> QED BY <1>0, <2>2, <3>2, <3>3, <3>4, EventKinds
  <2>3. CASE e.name = "SplitsSet"
    <3>1. ~SplitsThrow(d, e) /\ n = AfterSplits(d, e, k + 1, live)
      BY <2>3 DEF Throws, After
    <3>2. CASE a \in Tokens
      <4>1. n = AfterTokenSplits(d, e, k + 1, live) /\ ~TokenSplitsThrow(d, e)
        BY <1>0, <3>1, <3>2 DEF AfterSplits, SplitsThrow
      <4>2. Spares(d, n, a) /\ Checked(d, n, a, live[a])
        BY <1>0, <3>2, <4>1, TokenSplitsEffect
      <4>3. TokenTracks(n, c, k + 1, a)
        BY <1>1, <1>2, <2>3, <3>2, <4>2, TokenChecked
      <4> QED BY <1>0, <3>2, <4>2, <4>3 DEF AccountTracks
    <3>3. CASE a \in SubLists
      <4>1. n = AfterSubListSplits(d, e, k + 1, live) /\ ~SubListSplitsThrow(d, e)
        BY <1>0, <3>1, <3>3 DEF AfterSplits, SplitsThrow
      <4>2. SubListTracks(n, c, k + 1, a) /\ Spares(d, n, a)
        BY <1>0, <1>1, <3>3, <4>1, SubListSplitsTracks
      <4> QED BY <1>0, <3>3, <4>2 DEF AccountTracks
    <3>4. CASE a \in Projects
      <4>1. n = AfterProjectSplits(d, e, k + 1, live) /\ ~ProjectSplitsThrow(d, e)
        BY <1>0, <3>1, <3>4 DEF AfterSplits, SplitsThrow
      <4>2. ProjectTracks(n, c, k + 1, a) /\ Spares(d, n, a)
        BY <1>0, <1>1, <1>2, <2>3, <3>4, <4>1, ProjectSplitsTracks
      <4> QED BY <1>0, <3>4, <4>2 DEF AccountTracks
    <3>5. CASE a \in Orcids
      <4>1. n = AfterIdentitySplits(d, e, k + 1, live) /\ ~IdentitySplitsThrow(d, e)
        BY <1>0, <3>1, <3>5 DEF AfterSplits, SplitsThrow
      <4>2. IdentityTracks(n, c, k + 1, a) /\ Spares(d, n, a)
        BY <1>0, <1>1, <1>2, <2>3, <3>5, <4>1, IdentitySplitsTracks
      <4> QED BY <1>0, <3>5, <4>2 DEF AccountTracks
    <3> QED BY <1>1, <3>2, <3>3, <3>4, <3>5 DEF Accounts
  <2>4. CASE e.name = "OwnerUpdateRequested" /\ a \in Projects \union Orcids
    <3>1. n = AfterRequest(d, e, k + 1)
      BY <2>4 DEF After
    <3>2. CASE a \in Projects
      <4>1. ProjectTracks(n, c, k + 1, a) /\ Spares(d, n, a)
        BY <1>0, <1>2, <2>4, <3>1, <3>2, ProjectRequestTracks
      <4> QED BY <1>0, <3>2, <4>1 DEF AccountTracks
    <3>3. CASE a \in Orcids
      <4>1. IdentityTracks(n, c, k + 1, a) /\ Spares(d, n, a)
        BY <1>0, <1>2, <2>4, <3>1, <3>3, IdentityRequestTracks
      <4> QED BY <1>0, <3>3, <4>1 DEF AccountTracks
    <3> QED BY <2>4, <3>2, <3>3
  <2>5. CASE e.name = "OwnerUpdated" /\ a \in Projects \union Orcids
    <3>1. n = AfterOwner(d, e, k + 1) /\ ~OwnerThrows(d, e)
      BY <2>5 DEF After, Throws
    <3>2. CASE a \in Projects
      <4>1. ProjectTracks(n, c, k + 1, a) /\ Spares(d, n, a)
        BY <1>0, <1>2, <2>5, <3>1, <3>2, ProjectOwnerTracks
      <4> QED BY <1>0, <3>2, <4>1 DEF AccountTracks
    <3>3. CASE a \in Orcids
      <4>1. IdentityTracks(n, c, k + 1, a) /\ Spares(d, n, a)
        BY <1>0, <2>5, <3>1, <3>3, IdentityOwnerTracks
      <4> QED BY <1>0, <3>3, <4>1 DEF AccountTracks
    <3> QED BY <2>5, <3>2, <3>3
  <2> QED BY <1>0, <2>1, <2>2, <2>3, <2>4, <2>5, EventKinds
<1> QED BY <1>3, AllTrack

(* An event whose handler throws tells the tables nothing.                   *)
LEMMA ThrownTracks ==
  ASSUME NEW c \in Seq(Event), NEW k \in 0..(Len(c) - 1), Ordered(c), NEW d, Consistent(d),
         Tracks(d, c, k), Throws(d, c[k + 1])
  PROVE  Tracks(d, c, k + 1)
<1> DEFINE e == c[k + 1]
           a == e.account
<1>0. /\ e \in Event
      /\ a \in Tokens => a \notin SubLists \union Projects \union Orcids
      /\ a \in SubLists => a \notin Projects \union Orcids
      /\ a \in Projects => a \notin Orcids
  BY AccountAssumption
<1>1. /\ a \in Tokens => TokenTracks(d, c, k, a)
      /\ a \in SubLists => SubListTracks(d, c, k, a)
      /\ a \in Projects => ProjectTracks(d, c, k, a)
      /\ a \in Orcids => IdentityTracks(d, c, k, a)
  BY DEF Tracks
<1>2. e.name \in {"AccountMetadataEmitted", "SplitsSet", "OwnerUpdated"}
  BY DEF Throws
<1>3. AccountTracks(d, c, k + 1, a)
  <2>1. CASE a \in Tokens
    <3>1. e.name = "SplitsSet" => TokenSplitsThrow(d, e)
      BY <1>0, <2>1 DEF Throws, SplitsThrow
    <3>2. e.name = "SplitsSet" => ~HasRow(d, "drip_lists", a) /\ ~HasRow(d, "ecosystems", a)
      BY <2>1, <3>1 DEF TokenSplitsThrow, Consistent, NftTables
    <3>3. TokenTracks(d, c, k + 1, a)
      BY <1>1, <1>2, <2>1, <3>2, TokenUnchanged
    <3> QED BY <1>0, <2>1, <3>3 DEF AccountTracks
  <2>2. CASE a \in SubLists
    <3>1. e.name = "SplitsSet" => d.subLists[a] = Absent
      BY <1>0, <2>2 DEF Throws, SplitsThrow, SubListSplitsThrow
    <3>2. e.name # "SplitsSet" =>
            (LastAt(c, "SplitsSet", a) <= k + 1 => LastAt(c, "SplitsSet", a) <= k)
      BY NextEvent
    <3>3. SubListTracks(d, c, k + 1, a)
      BY <1>1, <2>2, <3>1, <3>2 DEF SubListTracks
    <3> QED BY <1>0, <2>2, <3>3 DEF AccountTracks
  <2>3. CASE a \in Projects
    <3>1. e.name \in {"OwnerUpdated", "SplitsSet"} => d.projects[a] = Absent
      BY <1>0, <2>3 DEF Throws, SplitsThrow, ProjectSplitsThrow, OwnerThrows
    <3>2. ProjectTracks(d, c, k + 1, a)
      BY <1>1, <1>2, <2>3, <3>1, ProjectUnchanged
    <3> QED BY <1>0, <2>3, <3>2 DEF AccountTracks
  <2>4. CASE a \in Orcids
    <3>1. IdentityTracks(d, c, k + 1, a)
      BY <1>1, <2>4, IdentityUnchanged
    <3> QED BY <1>0, <2>4, <3>1 DEF AccountTracks
  <2> QED BY <1>0, <2>1, <2>2, <2>3, <2>4, EventKinds DEF Accounts
<1>4. Spares(d, d, a)
  BY DEF Spares
<1> QED BY <1>3, <1>4, AllTrack

-----------------------------------------------------------------------------
(* The creator of a token is whom it was minted to.                          *)

LEMMA CreatedKept ==
  ASSUME NEW c, NEW d, NEW n, Created(d, c), n.nft = d.nft
  PROVE  Created(n, c)
BY DEF Created, HasRow

(* Handlers of other accounts do not touch tokens.                           *)
LEMMA TokensSpared ==
  ASSUME NEW d, Consistent(d), NEW e \in Event, e.account \notin Tokens, NEW p \in Nat,
         NEW live
  PROVE  After(d, e, p, live).nft = d.nft
<1> DEFINE a == e.account
           split == DescribeSplits(d, e, p)
<1>0. /\ d \in Db
      /\ a \in SubLists => a \notin Projects \union Orcids
      /\ a \in Projects => a \notin Orcids
  BY AccountAssumption DEF Consistent
<1>1. CASE e.name = "AccountMetadataEmitted" /\ a \in SubLists \union Projects
           /\ e.doc.splits \in Splits
  <2>1. split.nft = d.nft /\ split \in Db
    BY <1>1, DescribeSplitsSpares DEF Accounts
  <2>2. CASE a \in SubLists
    <3>1. After(d, e, p, live) = AfterSubListMetadata(d, e, p, live)
      BY <1>0, <1>1, <2>2 DEF After, AfterMetadata
    <3> HIDE DEF split
    <3>2. AfterSubListMetadata(d, e, p, live).nft = d.nft
      BY <2>1 DEF AfterSubListMetadata, split, Db
    <3> QED BY <3>1, <3>2
  <2>3. CASE a \in Projects
    <3>1. After(d, e, p, live) = AfterProjectMetadata(d, e, p, live)
      BY <1>0, <1>1, <2>3 DEF After, AfterMetadata
    <3>2. AfterProjectMetadata(d, e, p, live).nft = split.nft
      BY <2>1 DEF AfterProjectMetadata, Db
    <3> QED BY <2>1, <3>1, <3>2
  <2> QED BY <1>1, <2>2, <2>3
<1>2. CASE e.name = "SplitsSet"
  <2>1. AfterSubListSplits(d, e, p, live).nft = d.nft
    BY <1>0 DEF AfterSubListSplits, Db
  <2>2. AfterProjectSplits(d, e, p, live).nft = d.nft
    BY <1>0 DEF AfterProjectSplits, Db
  <2>3. AfterIdentitySplits(d, e, p, live).nft = d.nft
    BY <1>0 DEF AfterIdentitySplits, Db
  <2>4. After(d, e, p, live) = AfterSplits(d, e, p, live)
    BY <1>2 DEF After
  <2>5. a \in SubLists \/ a \in Projects \/ a \in Orcids
    BY EventKinds DEF Accounts
  <2>6. a \in SubLists => AfterSplits(d, e, p, live) = AfterSubListSplits(d, e, p, live)
    BY <1>0 DEF AfterSplits
  <2>7. a \in Projects => AfterSplits(d, e, p, live) = AfterProjectSplits(d, e, p, live)
    BY <1>0 DEF AfterSplits
  <2>8. a \in Orcids => AfterSplits(d, e, p, live) = AfterIdentitySplits(d, e, p, live)
    BY <1>0 DEF AfterSplits
  <2> QED BY <2>1, <2>2, <2>3, <2>4, <2>5, <2>6, <2>7, <2>8
<1>3. CASE e.name = "OwnerUpdateRequested"
  <2>1. AfterRequest(d, e, p).nft = d.nft
    BY <1>0 DEF AfterRequest, Db
  <2>2. After(d, e, p, live) = AfterRequest(d, e, p)
    BY <1>3 DEF After
  <2> QED BY <2>1, <2>2
<1>4. CASE e.name = "OwnerUpdated"
  <2>1. AfterOwner(d, e, p).nft = d.nft
    BY <1>0 DEF AfterOwner, Db
  <2>2. After(d, e, p, live) = AfterOwner(d, e, p)
    BY <1>4 DEF After
  <2> QED BY <2>1, <2>2
<1> QED BY <1>1, <1>2, <1>3, <1>4, EventKinds

LEMMA HandledCreated ==
  ASSUME NEW c \in Seq(Event), NEW i \in 1..Len(c), NEW d, Consistent(d), Created(d, c),
         NEW p \in Nat, NEW live, ~Throws(d, c[i])
  PROVE  Created(After(d, c[i], p, live), c)
<1> DEFINE e == c[i]
           a == e.account
           n == After(d, e, p, live)
<1>0. /\ e \in Event
      /\ a \in Tokens => a \notin SubLists \union Projects \union Orcids
  BY AccountAssumption
<1>1. CASE a \notin Tokens
  BY <1>0, <1>1, TokensSpared, CreatedKept
<1>2. ASSUME a \in Tokens, Spares(d, n, a), Checked(d, n, a, live[a])
      PROVE  Created(n, c)
  <2> HIDE DEF n, a
  <2>1. ASSUME NEW t \in Tokens, NEW u \in NftTables, HasRow(n, u, t)
        PROVE  n.nft[u][t].creator = Absent \/ MintedTo(c, t, n.nft[u][t].creator)
    <3>1. CASE t = a
      BY <1>2, <2>1, <3>1 DEF Checked, Created
    <3>2. CASE t # a
      BY <1>2, <2>1, <3>2 DEF Spares, Created, HasRow
    <3> QED BY <3>1, <3>2
  <2> QED BY <2>1 DEF Created
<1>3. CASE a \in Tokens /\ e.name = "Transfer"
  <2> DEFINE m == AfterTransfer(d, e, p)
  <2>1. n = m
    BY <1>3 DEF After
  <2>2. Transferring(d, m, e, p, a)
    BY <1>0, <1>3, TransferEffect
  <2>3. IsMint(e) => MintedTo(c, a, e.to)
    BY <1>3 DEF MintedTo
  <2> HIDE DEF m, n, a, e
  <2>4. ASSUME NEW t \in Tokens, NEW u \in NftTables, HasRow(m, u, t)
        PROVE  m.nft[u][t].creator = Absent \/ MintedTo(c, t, m.nft[u][t].creator)
    <3>1. CASE t = a
      BY <2>2, <2>3, <2>4, <3>1 DEF Created, Transferring
    <3>2. CASE t # a
      BY <2>2, <2>4, <3>2 DEF Spares, Created, HasRow, Transferring
    <3> QED BY <3>1, <3>2
  <2>5. Created(m, c)
    BY <2>4 DEF Created
  <2> QED BY <2>1, <2>5 DEF n, e
<1>4. CASE a \in Tokens /\ e.name = "AccountMetadataEmitted"
  <2>0. e.doc.splits \in Splits
    BY <1>0, <1>4, EventKinds
  <2>1. n = AfterTokenMetadata(d, e, p, live) /\ ~TokenMetadataThrows(d, e)
    BY <1>0, <1>4 DEF After, AfterMetadata, Throws, MetadataThrows
  <2>2. CASE e.doc.kind = "dripList"
    <3>1. Known(d, "drip_lists", a) /\ n = Describe(d, e, p, live, "drip_lists")
      BY <2>1, <2>2 DEF AfterTokenMetadata, AfterDripList, TokenMetadataThrows, DripListThrows
    <3> QED BY <1>2, <1>4, <2>0, <3>1, DescribeEffect
  <2>3. CASE e.doc.kind = "ecosystem"
    <3>1. Known(d, "ecosystems", a) /\ n = Describe(d, e, p, live, "ecosystems")
      BY <2>1, <2>3 DEF AfterTokenMetadata, AfterEcosystem, TokenMetadataThrows,
                        EcosystemThrows
    <3> QED BY <1>2, <1>4, <2>0, <3>1, DescribeEffect
  <2>4. CASE e.doc.kind # "dripList" /\ e.doc.kind # "ecosystem"
    <3>1. n = d
      BY <2>1, <2>4 DEF AfterTokenMetadata
    <3> QED BY <3>1
  <2> QED BY <2>2, <2>3, <2>4
<1>5. CASE a \in Tokens /\ e.name = "SplitsSet"
  <2>1. n = AfterTokenSplits(d, e, p, live) /\ ~TokenSplitsThrow(d, e)
    BY <1>0, <1>5 DEF After, AfterSplits, Throws, SplitsThrow
  <2> QED BY <1>2, <1>5, <2>1, TokenSplitsEffect
<1>6. a \in Tokens => e.name \in {"Transfer", "AccountMetadataEmitted", "SplitsSet"}
  BY <1>0, EventKinds
<1> QED BY <1>1, <1>3, <1>4, <1>5, <1>6

-----------------------------------------------------------------------------
(* The invariant.                                                            *)

LEMMA EmptyTracks ==
  ASSUME NEW c
  PROVE  Tracks(EmptyDb, c, 0)
<1>1. \A u \in NftTables, t \in Tokens : ~HasRow(EmptyDb, u, t)
  BY DEF HasRow, EmptyDb
<1>2. /\ \A s \in SubLists : EmptyDb.subLists[s] = Absent
      /\ \A x \in Projects : EmptyDb.projects[x] = Absent /\ EmptyDb.splits[x].config = NoSplits
      /\ \A o \in Orcids : EmptyDb.identities[o] = Absent
  BY DEF EmptyDb, Accounts
<1>3. \A a : ~Requested(c, 0, a)
  BY DEF Requested
<1> QED BY <1>1, <1>2, <1>3
        DEF Tracks, TokenTracks, SubListTracks, ProjectTracks, IdentityTracks

LEMMA CurrentInit ==
  ASSUME Init
  PROVE  CurrentInv
<1>1. /\ chain = <<>> /\ events = <<>> /\ done = 0 /\ db = EmptyDb
  BY DEF Init
<1>2. Len(chain) = 0 /\ Len(events) = 0
  BY <1>1
<1>3. Ordered(chain)
  BY <1>2 DEF Ordered
<1>4. \A u \in NftTables, t \in Tokens : ~HasRow(db, u, t)
  BY <1>1 DEF HasRow, EmptyDb
<1>5. Tracks(db, chain, done)
  BY <1>1, EmptyTracks
<1>6. Created(db, chain) /\ Indexed
  BY <1>2, <1>4 DEF Created, Indexed
<1> QED BY <1>3, <1>5, <1>6 DEF CurrentInv

(* Nothing that is indexed is beyond the chain, before a fork.               *)
LEMMA DoneInChain ==
  ASSUME FeedInv, Indexed
  PROVE  Len(events) <= Len(chain) /\ done \in 0..Len(chain)
BY DEF FeedInv, Indexed

LEMMA EmitCurrent ==
  ASSUME FeedInv, CurrentInv, Emit
  PROVE  CurrentInv'
<1>1. PICK e \in Emittable(chain) : chain' = Append(chain, e)
  BY DEF Emit
<1>2. /\ chain \in Seq(Event) /\ e \in Event
      /\ UNCHANGED <<events, done, db, forked, failed>>
  BY EmittableEvents DEF Emit, FeedInv, feedVars
<1>3. Ordered(chain')
  BY <1>1, <1>2, OrderedAppended DEF CurrentInv
<1>4. ASSUME ~forked
      PROVE  Indexed' /\ Created(db', chain')
  <2>1. Created(db, Append(chain, e)) /\ Indexed
    BY <1>2, <1>4, CreatedAppended DEF CurrentInv
  <2>2. Len(chain') = Len(chain) + 1 /\ \A i \in 1..Len(chain) : chain'[i] = chain[i]
    BY <1>1, <1>2
  <2>3. Indexed'
    BY <1>2, <2>1, <2>2 DEF Indexed, FeedInv
  <2> QED BY <1>1, <1>2, <2>1, <2>3
<1>5. ASSUME ~forked, ~failed
      PROVE  Tracks(db', chain', done')
  <2>1. done \in 0..Len(chain)
    BY <1>5, DoneInChain DEF CurrentInv
  <2>2. Tracks(db, Append(chain, e), done)
    BY <1>2, <1>5, <2>1, TracksAppended DEF CurrentInv
  <2> QED BY <1>1, <1>2, <2>2
<1> QED BY <1>2, <1>3, <1>4, <1>5 DEF CurrentInv

LEMMA ForkCurrent ==
  ASSUME FeedInv, CurrentInv, Fork
  PROVE  CurrentInv'
<1>1. PICK k \in 0..(Len(chain) - 1) : chain' = SubSeq(chain, 1, k)
  BY DEF Fork
<1>2. Ordered(chain')
  BY <1>1, OrderedPrefix DEF CurrentInv, FeedInv
<1> QED BY <1>2 DEF CurrentInv, Fork

LEMMA FetchCurrent ==
  ASSUME FeedInv, CurrentInv, Fetch
  PROVE  CurrentInv'
<1>1. /\ events' = chain /\ UNCHANGED <<chain, done, db, forked, failed>>
  BY DEF Fetch, feedVars
<1>2. Indexed'
  BY <1>1 DEF Indexed
<1> QED BY <1>1, <1>2 DEF CurrentInv

LEMMA RollBackCurrent ==
  ASSUME FeedInv, CurrentInv, RollBack
  PROVE  CurrentInv'
<1>1. PICK k \in 0..(Len(events) - 1) :
        events' = SubSeq(events, 1, k) /\ done' = Min2(done, k)
  BY DEF RollBack
<1>2. UNCHANGED <<chain, db, forked, failed>>
  BY DEF RollBack
<1>3. Len(events') = k /\ \A i \in 1..k : events'[i] = events[i]
  BY <1>1, SubSeqProperties DEF FeedInv
<1>4. done' \in 0..done /\ done \in Nat
  BY <1>1 DEF FeedInv, Min2
<1>5. ASSUME ~forked
      PROVE  Indexed'
  BY <1>1, <1>2, <1>3, <1>5 DEF CurrentInv, Indexed, FeedInv
<1>6. ASSUME ~forked, ~failed
      PROVE  Tracks(db, chain, done')
  <2>1. done \in 0..Len(chain) /\ Tracks(db, chain, done)
    BY <1>6, DoneInChain DEF CurrentInv
  <2> QED BY <1>4, <2>1, TracksEarlier DEF FeedInv
<1> QED BY <1>2, <1>5, <1>6 DEF CurrentInv

LEMMA HandleCurrent ==
  ASSUME FeedInv, Consistent(db), CurrentInv, NEW name, Handle(name)
  PROVE  CurrentInv'
<1> DEFINE e == events[done + 1]
<1>1. /\ done \in Nat /\ done + 1 \in 1..Len(events) /\ chain \in Seq(Event)
      /\ ~Throws(db, e)
      /\ db' = After(db, e, done + 1, Live)
      /\ done' = done + 1 /\ UNCHANGED <<chain, events, forked, failed>>
  BY DEF Handle, FeedInv, feedVars
<1>2. ASSUME ~forked
      PROVE  /\ e = chain[done + 1] /\ done + 1 \in 1..Len(chain)
             /\ done \in 0..(Len(chain) - 1)
  BY <1>1, <1>2 DEF CurrentInv, Indexed
<1>3. \A a \in Accounts : Live[a] = SplitsOf(chain, a)
  BY DEF Live
<1>4. ASSUME ~forked
      PROVE  Created(db', chain)
  BY <1>1, <1>2, <1>4, HandledCreated DEF CurrentInv
<1>5. ASSUME ~forked, ~failed
      PROVE  Tracks(db', chain, done')
  <2>1. Tracks(After(db, chain[done + 1], done + 1, Live), chain, done + 1)
    BY <1>1, <1>2, <1>3, <1>5, HandledTracks DEF CurrentInv
  <2> QED BY <1>1, <1>2, <1>5, <2>1
<1> QED BY <1>1, <1>4, <1>5 DEF CurrentInv, Indexed

LEMMA FailureCurrent ==
  ASSUME FeedInv, Consistent(db), CurrentInv, HandlerThrows \/ HandlerFails
  PROVE  CurrentInv'
<1>1. /\ done \in Nat /\ done + 1 \in 1..Len(events) /\ chain \in Seq(Event)
      /\ done' = done + 1 /\ UNCHANGED <<chain, events, db, forked>>
      /\ \/ Throws(db, events[done + 1]) /\ failed' = failed
         \/ failed'
  BY DEF HandlerThrows, HandlerFails, FeedInv, feedVars
<1>2. ASSUME ~forked, ~failed'
      PROVE  Tracks(db, chain, done')
  <2>1. events[done + 1] = chain[done + 1] /\ done \in 0..(Len(chain) - 1)
    BY <1>1, <1>2 DEF CurrentInv, Indexed
  <2> QED BY <1>1, <1>2, <2>1, ThrownTracks DEF CurrentInv
<1> QED BY <1>1, <1>2 DEF CurrentInv, Indexed

LEMMA CurrentInvariant == Spec => []CurrentInv
<1>1. Init => CurrentInv
  BY CurrentInit
<1>2. FeedInv /\ Consistent(db) /\ CurrentInv /\ [Next]_vars => CurrentInv'
  <2> SUFFICES ASSUME FeedInv, Consistent(db), CurrentInv, [Next]_vars
               PROVE  CurrentInv'
    OBVIOUS
  <2>1. CASE UNCHANGED vars
    BY <2>1 DEF vars, CurrentInv, Indexed
  <2> QED
    BY <2>1, EmitCurrent, ForkCurrent, FetchCurrent, RollBackCurrent, HandleCurrent,
       FailureCurrent
    DEF Next, HandleTransfer, HandleMetadata, HandleSplitsSet, HandleRequest, HandleOwner
<1> QED BY <1>1, <1>2, TablesInvariant, PTL DEF Spec

-----------------------------------------------------------------------------
(* The promises of the handlers.                                             *)

(* OwnerCurrent: transferHandler and ownerUpdatedHandler leave every token,  *)
(* project and identity with the owner the chain names, once all its events  *)
(* are processed and whatever was rolled back and replayed before.           *)
THEOREM OwnersFollowChain == Spec => []OwnerCurrent
<1>1. FeedInv /\ CurrentInv => OwnerCurrent
  <2> SUFFICES ASSUME FeedInv, CurrentInv, Settled, ~forked, ~failed
               PROVE  OwnersCurrent
    BY DEF OwnerCurrent
  <2>1. Tracks(db, chain, done) /\ done = Len(chain) /\ chain \in Seq(Event)
    BY DEF CurrentInv, Settled, FeedInv
  <2>2. \A name, a : LastAt(chain, name, a) <= done
    BY <2>1, LastIsLast
  <2> QED
    BY <2>1, <2>2
    DEF OwnersCurrent, Tracks, TokenTracks, ProjectTracks, IdentityTracks
<1> QED BY <1>1, TablesInvariant, CurrentInvariant, PTL

(* ValidNow: the checks that four handlers make against a chain that has     *)
(* run ahead agree with it in the end, for every kind of account but ORCID.  *)
THEOREM ChecksSettle == Spec => []ValidNow
<1>1. FeedInv /\ CurrentInv => ValidNow
  <2> SUFFICES ASSUME FeedInv, CurrentInv, Settled, ~forked, ~failed
               PROVE  /\ \A t \in Tokens : \A u \in NftTables \ {"pending"} :
                           HasRow(db, u, t) => (db.nft[u][t].valid <=> Matches(db, t, Live))
                      /\ \A s \in SubLists : db.subLists[s] # Absent =>
                           (db.subLists[s].valid <=> Matches(db, s, Live))
                      /\ \A x \in Projects : db.projects[x] # Absent =>
                           (db.projects[x].valid <=> Matches(db, x, Live))
    BY DEF ValidNow
  <2>1. Tracks(db, chain, done) /\ done = Len(chain) /\ chain \in Seq(Event)
    BY DEF CurrentInv, Settled, FeedInv
  <2>2. \A name, a : LastAt(chain, name, a) <= done
    BY <2>1, LastIsLast
  <2>3. \A a \in Accounts : Matches(db, a, Live) <=> db.splits[a].config = SplitsOf(chain, a)
    BY DEF Matches, Live
  <2> QED
    BY <2>1, <2>2, <2>3
    DEF Accounts, Tracks, TokenTracks, SubListTracks, ProjectTracks
<1> QED BY <1>1, TablesInvariant, CurrentInvariant, PTL

(* IdentityPaysOwner: an identity whose splits were set after its owner      *)
(* changed last is valid exactly if they pay that owner.                     *)
THEOREM IdentitiesPayOwners == Spec => []IdentityPaysOwner
<1>1. FeedInv /\ CurrentInv => IdentityPaysOwner
  <2> SUFFICES ASSUME FeedInv, CurrentInv, Settled, ~forked, ~failed,
                      NEW o \in Orcids, db.identities[o] # Absent
               PROVE  \/ LastAt(chain, "SplitsSet", o) <= LastAt(chain, "OwnerUpdated", o)
                      \/ db.identities[o].valid <=>
                           SplitsOf(chain, o) = Pays(db.identities[o].owner)
    BY DEF IdentityPaysOwner
  <2>1. Tracks(db, chain, done) /\ done = Len(chain) /\ chain \in Seq(Event)
    BY DEF CurrentInv, Settled, FeedInv
  <2>2. LastAt(chain, "SplitsSet", o) <= done
    BY <2>1, LastIsLast
  <2> QED BY <2>1, <2>2 DEF Tracks, IdentityTracks
<1> QED BY <1>1, TablesInvariant, CurrentInvariant, PTL

(* CreatorIsMinter: no replay and no migration between tables makes a later  *)
(* holder the creator, though pendings and failures do lose it.              *)
THEOREM CreatorsAreMinters == Spec => []CreatorIsMinter
<1>1. FeedInv /\ CurrentInv => CreatorIsMinter
  <2> SUFFICES ASSUME FeedInv, CurrentInv, ~forked,
                      NEW t \in Tokens, NEW u \in NftTables, HasRow(db, u, t)
               PROVE  db.nft[u][t].creator
                        \in {Absent, chain[Min(At(chain, "Transfer", t))].to}
    BY DEF CreatorIsMinter
  <2> DEFINE o == db.nft[u][t].creator
             S == At(chain, "Transfer", t)
  <2>1. ASSUME MintedTo(chain, t, o)
        PROVE  o = chain[Min(S)].to
    <3>1. PICK i \in 1..Len(chain) :
            /\ chain[i].name = "Transfer" /\ chain[i].account = t
            /\ IsMint(chain[i]) /\ chain[i].to = o
      BY <2>1 DEF MintedTo
    <3>2. \A j \in 1..(i - 1) : j \notin S
      BY <3>1 DEF CurrentInv, Ordered, At
    <3>3. i \in S /\ S \subseteq 1..Len(chain) /\ Len(chain) \in Nat
      BY <3>1 DEF At, FeedInv
    <3> HIDE DEF S
    <3>4. \A j \in S : j \in Int /\ i <= j
      BY <3>2, <3>3
    <3>5. Min(S) \in S /\ Min(S) <= i
      BY <3>3, <3>4 DEF Min
    <3>6. Min(S) \in Int /\ i <= Min(S)
      BY <3>4, <3>5, Zenon
    <3>7. Min(S) = i
      BY <3>1, <3>5, <3>6
    <3> QED BY <3>1, <3>7
  <2> QED BY <2>1 DEF CurrentInv, Created
<1> QED BY <1>1, TablesInvariant, CurrentInvariant, PTL

-----------------------------------------------------------------------------
(* Replays: what a reader sees of a token is decided by the chain alone.     *)

(* Metadata that can describe a token, and the table it asks for.            *)
Describing(e, t) ==
  /\ e.name = "AccountMetadataEmitted" /\ e.account = t
  /\ e.doc.sound /\ e.doc.describes = t /\ ~Mistyped(e.doc)
  /\ e.doc.kind \in {"dripList", "ecosystem"}
TableOf(e) == IF e.doc.kind = "dripList" THEN "drip_lists" ELSE "ecosystems"

(* The first of it decides the table, later one is accepted if it agrees.    *)
FirstOf(c, t, i) == Describing(c[i], t) /\ \A j \in 1..(i - 1) : ~Describing(c[j], t)
Accepted(c, t, i) ==
  /\ Describing(c[i], t)
  /\ \A j \in 1..(i - 1) : FirstOf(c, t, j) => TableOf(c[j]) = TableOf(c[i])

Moving(c, t, i) == c[i].name = "Transfer" /\ c[i].account = t

(* Events that say whether the token is visible, and what they say.          *)
Showing(c, t, i) == Moving(c, t, i) \/ Accepted(c, t, i)
VisibleAt(c, i) ==
  IF c[i].name = "Transfer" THEN TransferVisible(c[i], i) ELSE DocVisible(c[i].doc, i)

(* What the tables d hold of a token when the first k events of c are        *)
(* processed, and perhaps others of c were before.                           *)
Placed(d, c, k, t) ==
  /\ \A i \in 1..k : FirstOf(c, t, i) => HasRow(d, TableOf(c[i]), t)
  /\ \A i \in 1..k : Moving(c, t, i) => \E u \in NftTables : HasRow(d, u, t)
  /\ \A u \in NftTables : HasRow(d, u, t) =>
       /\ \E i \in 1..Len(c) : Moving(c, t, i)
       /\ u # "pending" => \E i \in 1..Len(c) : FirstOf(c, t, i) /\ u = TableOf(c[i])
       /\ u = "pending" => d.nft[u][t].valid

Shown(d, c, k, t) ==
  \A i \in 1..k : Showing(c, t, i) /\ (\A j \in (i + 1)..Len(c) : ~Showing(c, t, j)) =>
    \A u \in NftTables : HasRow(d, u, t) => d.nft[u][t].visible = VisibleAt(c, i)

Divided(d, c, k, t) ==
  /\ \A i \in 1..k : Accepted(c, t, i) /\ (\A j \in (i + 1)..Len(c) : ~Accepted(c, t, j)) =>
       d.splits[t].config = c[i].doc.splits
  /\ (\A i \in 1..Len(c) : ~Accepted(c, t, i)) => d.splits[t].config = NoSplits

TokenConverges(d, c, k, t) ==
  Placed(d, c, k, t) /\ Shown(d, c, k, t) /\ Divided(d, c, k, t)

Converges(d, c, k) == \A t \in Tokens : TokenConverges(d, c, k, t)

(* The first of some events is one.                                          *)
LEMMA FirstExists ==
  ASSUME NEW c, NEW t, NEW i \in Nat \ {0}, Describing(c[i], t)
  PROVE  \E j \in 1..i : FirstOf(c, t, j)
<1> DEFINE T == {j \in Nat \ {0} : Describing(c[j], t)}
<1>1. T \subseteq Nat /\ i \in T
  OBVIOUS
<1>2. PICK m \in T : \A j \in T : ~(j < m)
  <2> HIDE DEF T
  <2> QED BY <1>1, LeastNumber
<1>3. m \in Nat \ {0} /\ Describing(c[m], t)
  OBVIOUS
<1>4. m \in 1..i
  BY <1>1, <1>2, <1>3
<1>5. \A j \in 1..(m - 1) : ~Describing(c[j], t)
  <2> TAKE j \in 1..(m - 1)
  <2>1. j \in Nat \ {0} /\ j < m
    BY <1>3
  <2> QED BY <1>2, <2>1
<1> QED BY <1>3, <1>4, <1>5 DEF FirstOf

LEMMA FirstIsOne ==
  ASSUME NEW c, NEW t, NEW i \in Nat \ {0}, NEW j \in Nat \ {0},
         FirstOf(c, t, i), FirstOf(c, t, j)
  PROVE  i = j
<1>1. ~(i < j)
  <2> SUFFICES ASSUME i < j PROVE FALSE
    OBVIOUS
  <2>1. i \in 1..(j - 1)
    OBVIOUS
  <2> QED BY <2>1 DEF FirstOf
<1>2. ~(j < i)
  <2> SUFFICES ASSUME j < i PROVE FALSE
    OBVIOUS
  <2>1. j \in 1..(i - 1)
    OBVIOUS
  <2> QED BY <2>1 DEF FirstOf
<1> QED BY <1>1, <1>2

(* Whether an event is one of these is decided when it is emitted.           *)
LEMMA SamePast ==
  ASSUME NEW c, NEW b, NEW n \in Nat, \A i \in 1..n : b[i] = c[i], NEW t, NEW i \in 1..n
  PROVE  /\ FirstOf(b, t, i) <=> FirstOf(c, t, i)
         /\ Accepted(b, t, i) <=> Accepted(c, t, i)
         /\ Moving(b, t, i) <=> Moving(c, t, i)
         /\ Showing(b, t, i) <=> Showing(c, t, i)
         /\ TableOf(b[i]) = TableOf(c[i])
         /\ VisibleAt(b, i) = VisibleAt(c, i)
<1>1. \A j \in 1..n : FirstOf(b, t, j) <=> FirstOf(c, t, j)
  <2> TAKE j \in 1..n
  <2>1. \A l \in 1..(j - 1) : l \in 1..n /\ b[l] = c[l]
    OBVIOUS
  <2> QED BY <2>1 DEF FirstOf
<1>2. \A j \in 1..(i - 1) : j \in 1..n /\ b[j] = c[j]
  OBVIOUS
<1>3. Accepted(b, t, i) <=> Accepted(c, t, i)
  BY <1>1, <1>2 DEF Accepted, TableOf
<1>4. Moving(b, t, i) <=> Moving(c, t, i)
  BY DEF Moving
<1> QED BY <1>1, <1>3, <1>4 DEF Showing, TableOf, VisibleAt

LEMMA ConvergesAppended ==
  ASSUME NEW d, NEW c \in Seq(Event), NEW e \in Event, NEW k \in 0..Len(c),
         Converges(d, c, k)
  PROVE  Converges(d, Append(c, e), k)
<1> DEFINE b == Append(c, e)
<1>1. Len(c) \in Nat /\ Len(b) = Len(c) + 1 /\ \A i \in 1..Len(c) : b[i] = c[i]
  OBVIOUS
<1> HIDE DEF b
<1>2. ASSUME NEW t, NEW i \in 1..Len(c)
      PROVE  /\ FirstOf(b, t, i) <=> FirstOf(c, t, i)
             /\ Accepted(b, t, i) <=> Accepted(c, t, i)
             /\ Moving(b, t, i) <=> Moving(c, t, i)
             /\ Showing(b, t, i) <=> Showing(c, t, i)
             /\ TableOf(b[i]) = TableOf(c[i])
             /\ VisibleAt(b, i) = VisibleAt(c, i)
  BY <1>1, SamePast
<1>3. \A i \in 1..k : i \in 1..Len(c)
  OBVIOUS
<1>4. 1..Len(c) \subseteq 1..Len(b)
  BY <1>1
<1>5. \A i \in 1..k : (i + 1)..Len(c) \subseteq (i + 1)..Len(b)
  BY <1>1
<1>6. \A i \in 1..k : (i + 1)..Len(c) \subseteq 1..Len(c)
  BY <1>1
<1> SUFFICES ASSUME NEW t \in Tokens
             PROVE  Placed(d, b, k, t) /\ Shown(d, b, k, t) /\ Divided(d, b, k, t)
  BY DEF Converges, TokenConverges, b
<1>7. Placed(d, c, k, t) /\ Shown(d, c, k, t) /\ Divided(d, c, k, t)
  BY DEF Converges, TokenConverges
<1>8. Placed(d, b, k, t)
  BY <1>2, <1>3, <1>4, <1>7 DEF Placed
<1>9. Shown(d, b, k, t)
  <2> SUFFICES ASSUME NEW i \in 1..k, Showing(b, t, i),
                      \A j \in (i + 1)..Len(b) : ~Showing(b, t, j),
                      NEW u \in NftTables, HasRow(d, u, t)
               PROVE  d.nft[u][t].visible = VisibleAt(b, i)
    BY DEF Shown
  <2>1. Showing(c, t, i) /\ \A j \in (i + 1)..Len(c) : ~Showing(c, t, j)
    BY <1>2, <1>3, <1>5, <1>6
  <2> QED BY <1>2, <1>3, <1>7, <2>1 DEF Shown
<1>10. Divided(d, b, k, t)
  <2>1. ASSUME NEW i \in 1..k, Accepted(b, t, i),
               \A j \in (i + 1)..Len(b) : ~Accepted(b, t, j)
        PROVE  d.splits[t].config = b[i].doc.splits
    <3>1. Accepted(c, t, i) /\ \A j \in (i + 1)..Len(c) : ~Accepted(c, t, j)
      BY <1>2, <1>3, <1>5, <1>6, <2>1
    <3> QED BY <1>1, <1>3, <1>7, <3>1 DEF Divided
  <2>2. (\A i \in 1..Len(b) : ~Accepted(b, t, i)) => d.splits[t].config = NoSplits
    BY <1>2, <1>4, <1>7 DEF Divided
  <2> QED BY <2>1, <2>2 DEF Divided
<1> QED BY <1>8, <1>9, <1>10

LEMMA ConvergesEarlier ==
  ASSUME NEW d, NEW c, NEW k \in Nat, NEW j \in 0..k, Converges(d, c, k)
  PROVE  Converges(d, c, j)
<1>1. 1..j \subseteq 1..k
  OBVIOUS
<1>2. \A t \in Tokens : Placed(d, c, j, t)
  BY <1>1 DEF Converges, TokenConverges, Placed
<1>3. \A t \in Tokens : Shown(d, c, j, t)
  BY <1>1 DEF Converges, TokenConverges, Shown
<1>4. \A t \in Tokens : Divided(d, c, j, t)
  BY <1>1 DEF Converges, TokenConverges, Divided
<1> QED BY <1>2, <1>3, <1>4 DEF Converges, TokenConverges

-----------------------------------------------------------------------------
(* The next event is settled.                                                *)

LEMMA FirstAccepted ==
  ASSUME NEW c, NEW t, NEW i \in Nat \ {0}, FirstOf(c, t, i)
  PROVE  Accepted(c, t, i)
BY DEF FirstOf, Accepted

(* Metadata finds the token pending or in its table exactly if it agrees     *)
(* with the first of the chain, also if that is processed not for the first  *)
(* time.                                                                     *)
LEMMA AcceptedIfKnown ==
  ASSUME NEW c \in Seq(Event), NEW k \in 0..(Len(c) - 1), Ordered(c),
         NEW t \in Tokens, NEW d, Consistent(d), Placed(d, c, k, t),
         Describing(c[k + 1], t)
  PROVE  Accepted(c, t, k + 1) <=> Known(d, TableOf(c[k + 1]), t)
<1> DEFINE e == c[k + 1]
<1>1. k \in Nat /\ Len(c) \in Nat /\ k + 1 \in 1..Len(c) /\ (k + 1) - 1 = k
  OBVIOUS
<1>2. \A j : TableOf(c[j]) \in NftTables \ {"pending"}
  BY DEF TableOf, NftTables
<1>3. ASSUME HasRow(d, TableOf(e), t)
      PROVE  Accepted(c, t, k + 1)
  <2>1. PICK i \in 1..Len(c) : FirstOf(c, t, i) /\ TableOf(e) = TableOf(c[i])
    BY <1>2, <1>3 DEF Placed
  <2>2. ASSUME NEW j \in 1..k, FirstOf(c, t, j)
        PROVE  TableOf(c[j]) = TableOf(e)
    <3>1. j = i
      BY <1>1, <2>1, <2>2, FirstIsOne
    <3> QED BY <2>1, <3>1
  <2> QED BY <1>1, <2>2 DEF Accepted
<1>4. ASSUME HasRow(d, "pending", t)
      PROVE  Accepted(c, t, k + 1)
  <2>1. \A j \in 1..k : ~FirstOf(c, t, j)
    BY <1>2, <1>4 DEF Placed, Consistent, NftTables
  <2> QED BY <1>1, <2>1 DEF Accepted
<1>5. ASSUME Accepted(c, t, k + 1)
      PROVE  Known(d, TableOf(e), t)
  <2>1. PICK j \in 1..k : c[j].name = "Transfer" /\ c[j].account = t
    BY <1>1 DEF Ordered, Describing
  <2>2. PICK u \in NftTables : HasRow(d, u, t)
    BY <2>1 DEF Placed, Moving
  <2>3. CASE u = "pending"
    BY <2>2, <2>3 DEF Known
  <2>4. CASE u # "pending"
    <3>1. PICK i \in 1..Len(c) : FirstOf(c, t, i) /\ u = TableOf(c[i])
      BY <2>2, <2>4 DEF Placed
    <3>2. ~(k + 1 < i)
      BY <1>1, <3>1 DEF FirstOf
    <3>3. i = k + 1 \/ i \in 1..k
      BY <1>1, <3>2
    <3>4. TableOf(c[i]) = TableOf(e)
      BY <1>1, <1>5, <3>1, <3>3, Zenon DEF Accepted
    <3> QED BY <2>2, <3>1, <3>4 DEF Known
  <2> QED BY <2>3, <2>4
<1> QED BY <1>3, <1>4, <1>5 DEF Known

(* An event that says nothing of a token, or whose handler throws.           *)
LEMMA UnaffectedConverges ==
  ASSUME NEW c \in Seq(Event), NEW k \in 0..(Len(c) - 1), NEW t, NEW d, NEW n,
         TokenConverges(d, c, k, t),
         ~Moving(c, t, k + 1), ~Accepted(c, t, k + 1),
         n.splits[t].config = d.splits[t].config,
         \A u \in NftTables : HasRow(n, u, t) =>
           /\ HasRow(d, u, t)
           /\ n.nft[u][t].visible = d.nft[u][t].visible
           /\ u = "pending" => n.nft[u][t].valid = d.nft[u][t].valid,
         \A u \in NftTables : HasRow(d, u, t) => HasRow(n, u, t)
  PROVE  TokenConverges(n, c, k + 1, t)
<1>1. \A i \in 1..(k + 1) : i = k + 1 \/ i \in 1..k
  OBVIOUS
<1>2. ~FirstOf(c, t, k + 1)
  BY FirstAccepted
<1>3. Placed(d, c, k, t) /\ Shown(d, c, k, t) /\ Divided(d, c, k, t)
  BY DEF TokenConverges
<1>4. TableOf(c[k + 1]) \in NftTables /\ \A i : TableOf(c[i]) \in NftTables
  BY DEF TableOf, NftTables
<1>5. Placed(n, c, k + 1, t)
  <2>1. \A i \in 1..(k + 1) : FirstOf(c, t, i) => HasRow(n, TableOf(c[i]), t)
    BY <1>1, <1>2, <1>3, <1>4, Zenon DEF Placed
  <2>2. \A i \in 1..(k + 1) : Moving(c, t, i) => \E u \in NftTables : HasRow(n, u, t)
    BY <1>1, <1>3, Zenon DEF Placed
  <2> QED BY <1>3, <2>1, <2>2 DEF Placed
<1>6. Shown(n, c, k + 1, t)
  BY <1>1, <1>3 DEF Shown, Showing
<1>7. Divided(n, c, k + 1, t)
  BY <1>1, <1>3 DEF Divided
<1> QED BY <1>5, <1>6, <1>7 DEF TokenConverges

LEMMA TransferConverges ==
  ASSUME NEW c \in Seq(Event), NEW k \in 0..(Len(c) - 1), NEW d, Consistent(d),
         c[k + 1].name = "Transfer", NEW t \in Tokens, t = c[k + 1].account,
         TokenConverges(d, c, k, t)
  PROVE  TokenConverges(AfterTransfer(d, c[k + 1], k + 1), c, k + 1, t)
<1> DEFINE n == AfterTransfer(d, c[k + 1], k + 1)
<1>1. /\ k + 1 \in 1..Len(c) /\ k + 1 \in Nat /\ Len(c) \in Nat
      /\ \A i \in 1..(k + 1) : i = k + 1 \/ (i \in 1..k /\ k + 1 \in (i + 1)..Len(c))
  OBVIOUS
<1>2. Transferring(d, n, c[k + 1], k + 1, t)
  BY <1>1, TransferEffect
<1> HIDE DEF n
<1>3. /\ Moving(c, t, k + 1) /\ Showing(c, t, k + 1)
      /\ ~Accepted(c, t, k + 1) /\ ~FirstOf(c, t, k + 1)
      /\ VisibleAt(c, k + 1) = TransferVisible(c[k + 1], k + 1)
  BY DEF Moving, Showing, Accepted, FirstOf, Describing, VisibleAt
<1>4. Placed(d, c, k, t) /\ Shown(d, c, k, t) /\ Divided(d, c, k, t)
  BY DEF TokenConverges
<1>5. \A i : TableOf(c[i]) \in NftTables \ {"pending"}
  BY DEF TableOf, NftTables
<1>6. Placed(n, c, k + 1, t)
  <2>1. \A i \in 1..(k + 1) : FirstOf(c, t, i) => HasRow(n, TableOf(c[i]), t)
    BY <1>1, <1>2, <1>3, <1>4, <1>5, Zenon DEF Placed, Transferring
  <2>2. \A u \in NftTables : HasRow(n, u, t) =>
          /\ u # "pending" => \E i \in 1..Len(c) : FirstOf(c, t, i) /\ u = TableOf(c[i])
          /\ u = "pending" => n.nft[u][t].valid
    BY <1>2, <1>4 DEF Placed, Transferring
  <2> QED BY <1>1, <1>2, <1>3, <2>1, <2>2 DEF Placed, Transferring
<1>7. Shown(n, c, k + 1, t)
  BY <1>1, <1>2, <1>3, Zenon DEF Shown, Transferring
<1>8. Divided(n, c, k + 1, t)
  BY <1>1, <1>2, <1>3, <1>4, Zenon DEF Divided, Transferring
<1> QED BY <1>6, <1>7, <1>8 DEF TokenConverges, n

(* Metadata that is accepted settles the table, the splits and whether the   *)
(* token is visible.                                                         *)
LEMMA AcceptedConverges ==
  ASSUME NEW c \in Seq(Event), NEW k \in 0..(Len(c) - 1), Ordered(c),
         NEW t \in Tokens, NEW d, NEW n, Placed(d, c, k, t), Accepted(c, t, k + 1),
         \A u \in NftTables : HasRow(n, u, t) <=> u = TableOf(c[k + 1]),
         n.nft[TableOf(c[k + 1])][t].visible = DocVisible(c[k + 1].doc, k + 1),
         n.splits[t].config = c[k + 1].doc.splits
  PROVE  TokenConverges(n, c, k + 1, t)
<1> DEFINE e == c[k + 1]
<1>1. /\ k + 1 \in 1..Len(c) /\ k + 1 \in Nat \ {0} /\ Len(c) \in Nat /\ (k + 1) - 1 = k
      /\ 1..(k + 1) \subseteq 1..Len(c)
      /\ \A i \in 1..(k + 1) : i = k + 1 \/ (i \in 1..k /\ k + 1 \in (i + 1)..Len(c))
  OBVIOUS
<1>2. Describing(e, t) /\ e.name = "AccountMetadataEmitted" /\ e.account = t
  BY DEF Accepted, Describing
<1>3. \A i \in 1..(k + 1) : FirstOf(c, t, i) => TableOf(c[i]) = TableOf(e)
  BY <1>1, Zenon DEF Accepted
<1>4. TableOf(e) \in NftTables \ {"pending"}
  BY DEF TableOf, NftTables
<1>5. Showing(c, t, k + 1) /\ VisibleAt(c, k + 1) = DocVisible(e.doc, k + 1)
  BY <1>2 DEF Showing, VisibleAt
<1>6. Placed(n, c, k + 1, t)
  <2>1. PICK j \in 1..((k + 1) - 1) : c[j].name = "Transfer" /\ c[j].account = t
    BY <1>1, <1>2 DEF Ordered
  <2>2. \E i \in 1..Len(c) : Moving(c, t, i)
    BY <1>1, <2>1 DEF Moving
  <2>3. PICK i \in 1..(k + 1) : FirstOf(c, t, i)
    BY <1>1, <1>2, FirstExists
  <2>4. \E m \in 1..Len(c) : FirstOf(c, t, m) /\ TableOf(e) = TableOf(c[m])
    BY <1>1, <1>3, <2>3
  <2> QED BY <1>3, <1>4, <2>2, <2>4 DEF Placed
<1>7. Shown(n, c, k + 1, t)
  BY <1>1, <1>5, Zenon DEF Shown
<1>8. Divided(n, c, k + 1, t)
  BY <1>1, Zenon DEF Divided
<1> QED BY <1>6, <1>7, <1>8 DEF TokenConverges

(* A handler that does not touch a token.                                    *)
LEMMA OthersConverge ==
  ASSUME NEW c \in Seq(Event), NEW k \in 0..(Len(c) - 1), NEW t \in Tokens, NEW d, NEW n,
         TokenConverges(d, c, k, t), t # c[k + 1].account,
         Spares(d, n, c[k + 1].account)
  PROVE  TokenConverges(n, c, k + 1, t)
<1>1. ~Moving(c, t, k + 1) /\ ~Accepted(c, t, k + 1)
  BY DEF Moving, Accepted, Describing
<1>2. t \in Accounts
  BY DEF Accounts
<1>3. n.splits[t] = d.splits[t] /\ \A u \in NftTables : n.nft[u][t] = d.nft[u][t]
  BY <1>2 DEF Spares
<1> QED BY <1>1, <1>3, UnaffectedConverges DEF HasRow

(* Metadata is accepted exactly if its handler does not throw and writes.    *)
LEMMA DescribedIfAccepted ==
  ASSUME NEW c \in Seq(Event), NEW k \in 0..(Len(c) - 1), Ordered(c),
         NEW t \in Tokens, NEW d, Consistent(d), Placed(d, c, k, t),
         c[k + 1].name = "AccountMetadataEmitted", c[k + 1].account = t
  PROVE  /\ TokenMetadataThrows(d, c[k + 1]) => ~Accepted(c, t, k + 1)
         /\ ~TokenMetadataThrows(d, c[k + 1]) /\ ~Accepted(c, t, k + 1) =>
              c[k + 1].doc.kind \notin {"dripList", "ecosystem"}
<1> DEFINE e == c[k + 1]
<1>1. Describing(e, t) => (Accepted(c, t, k + 1) <=> Known(d, TableOf(e), t))
  BY AcceptedIfKnown
<1>2. Accepted(c, t, k + 1) => Describing(e, t)
  BY DEF Accepted
<1> HIDE DEF e
<1>3. e.name = "AccountMetadataEmitted" /\ e.account = t
  BY DEF e
<1>4. TokenMetadataThrows(d, e) => ~Accepted(c, t, k + 1)
  BY <1>1, <1>2, <1>3
  DEF TokenMetadataThrows, DripListThrows, EcosystemThrows, Describing, TableOf
<1>5. ~TokenMetadataThrows(d, e) /\ ~Accepted(c, t, k + 1) =>
        e.doc.kind \notin {"dripList", "ecosystem"}
  BY <1>1, <1>3
  DEF TokenMetadataThrows, DripListThrows, EcosystemThrows, Describing, TableOf
<1> QED BY <1>4, <1>5 DEF e

LEMMA MetadataConverges ==
  ASSUME NEW c \in Seq(Event), NEW k \in 0..(Len(c) - 1), Ordered(c),
         NEW t \in Tokens, NEW d, Consistent(d), TokenConverges(d, c, k, t),
         c[k + 1].name = "AccountMetadataEmitted", c[k + 1].account = t,
         ~TokenMetadataThrows(d, c[k + 1]), NEW live
  PROVE  TokenConverges(AfterTokenMetadata(d, c[k + 1], k + 1, live), c, k + 1, t)
<1> DEFINE e == c[k + 1]
           n == AfterTokenMetadata(d, e, k + 1, live)
<1>1. k + 1 \in 1..Len(c) /\ k + 1 \in Nat
  OBVIOUS
<1>2. e \in Event /\ Placed(d, c, k, t)
  BY <1>1 DEF TokenConverges
<1>3. CASE Accepted(c, t, k + 1)
  <2>1. Describing(e, t)
    BY <1>3 DEF Accepted
  <2>2. e.doc.splits \in Splits
    BY <1>2, EventKinds
  <2>3. Known(d, TableOf(e), t)
    BY <1>2, <1>3, <2>1, AcceptedIfKnown
  <2>4. TableOf(e) \in {"drip_lists", "ecosystems"}
    BY DEF TableOf
  <2>5. n = Describe(d, e, k + 1, live, TableOf(e))
    BY <2>1 DEF AfterTokenMetadata, AfterDripList, AfterEcosystem, TableOf, Describing
  <2>6. /\ \A u \in NftTables : HasRow(n, u, t) <=> u = TableOf(e)
        /\ n.nft[TableOf(e)][t].visible = DocVisible(e.doc, k + 1)
        /\ n.splits[t].config = e.doc.splits
    BY <1>1, <2>2, <2>3, <2>4, <2>5, DescribeEffect
  <2> HIDE DEF n
  <2>7. TokenConverges(n, c, k + 1, t)
    BY <1>2, <1>3, <2>6, AcceptedConverges
  <2> QED BY <2>7 DEF n
<1>4. CASE ~Accepted(c, t, k + 1)
  <2>1. e.doc.kind \notin {"dripList", "ecosystem"}
    BY <1>2, <1>4, DescribedIfAccepted
  <2>2. n = d
    BY <2>1 DEF AfterTokenMetadata
  <2>3. ~Moving(c, t, k + 1)
    BY DEF Moving
  <2>4. TokenConverges(d, c, k + 1, t)
    BY <1>4, <2>3, UnaffectedConverges
  <2> QED BY <2>2, <2>4, Zenon
<1> QED BY <1>3, <1>4

LEMMA HandledConverges ==
  ASSUME NEW c \in Seq(Event), NEW k \in 0..(Len(c) - 1), Ordered(c), NEW d, Consistent(d),
         Converges(d, c, k), NEW live, ~Throws(d, c[k + 1]),
         Spares(d, After(d, c[k + 1], k + 1, live), c[k + 1].account)
  PROVE  Converges(After(d, c[k + 1], k + 1, live), c, k + 1)
<1> DEFINE e == c[k + 1]
           n == After(d, e, k + 1, live)
<1>1. k + 1 \in 1..Len(c) /\ k + 1 \in Nat
  OBVIOUS
<1>2. e \in Event
  BY <1>1
<1> SUFFICES ASSUME NEW t \in Tokens
             PROVE  TokenConverges(n, c, k + 1, t)
  BY DEF Converges
<1>3. TokenConverges(d, c, k, t)
  BY DEF Converges
<1>4. CASE t # e.account
  BY <1>3, <1>4, OthersConverge
<1>5. CASE t = e.account
  <2>1. t \notin SubLists \union Projects \union Orcids
    BY AccountAssumption
  <2>2. CASE e.name = "Transfer"
    <3>1. n = AfterTransfer(d, e, k + 1)
      BY <2>2 DEF After
    <3> QED BY <1>3, <1>5, <2>2, <3>1, TransferConverges
  <2>3. CASE e.name = "AccountMetadataEmitted"
    <3>1. n = AfterTokenMetadata(d, e, k + 1, live) /\ ~TokenMetadataThrows(d, e)
      BY <1>5, <2>1, <2>3 DEF After, AfterMetadata, Throws, MetadataThrows
    <3> QED BY <1>3, <1>5, <2>3, <3>1, MetadataConverges
  <2>4. CASE e.name = "SplitsSet"
    <3>1. n = AfterTokenSplits(d, e, k + 1, live) /\ ~TokenSplitsThrow(d, e)
      BY <1>5, <2>1, <2>4 DEF After, AfterSplits, Throws, SplitsThrow
    <3>2. Rechecked(d, n, t)
      BY <1>1, <1>5, <3>1, TokenSplitsEffect
    <3>3. ~Moving(c, t, k + 1) /\ ~Accepted(c, t, k + 1)
      BY <2>4 DEF Moving, Accepted, Describing
    <3> HIDE DEF n
    <3> QED BY <1>3, <3>2, <3>3, UnaffectedConverges DEF Rechecked
  <2> QED BY <1>2, <1>5, <2>1, <2>2, <2>3, <2>4, EventKinds
<1> QED BY <1>4, <1>5

LEMMA ThrownConverges ==
  ASSUME NEW c \in Seq(Event), NEW k \in 0..(Len(c) - 1), Ordered(c), NEW d, Consistent(d),
         Converges(d, c, k), Throws(d, c[k + 1])
  PROVE  Converges(d, c, k + 1)
<1> DEFINE e == c[k + 1]
<1> SUFFICES ASSUME NEW t \in Tokens
             PROVE  TokenConverges(d, c, k + 1, t)
  BY DEF Converges
<1>1. TokenConverges(d, c, k, t) /\ Placed(d, c, k, t)
  BY DEF Converges, TokenConverges
<1>2. e.name \in {"AccountMetadataEmitted", "SplitsSet", "OwnerUpdated"}
  BY DEF Throws
<1>3. ~Accepted(c, t, k + 1)
  <2>1. CASE e.name = "AccountMetadataEmitted" /\ e.account = t
    <3>1. t \notin SubLists \union Projects
      BY AccountAssumption
    <3>2. TokenMetadataThrows(d, e)
      BY <2>1, <3>1 DEF Throws, MetadataThrows
    <3> QED BY <1>1, <2>1, <3>2, DescribedIfAccepted
  <2> QED BY <2>1 DEF Accepted, Describing
<1>4. ~Moving(c, t, k + 1)
  BY <1>2 DEF Moving
<1> QED BY <1>1, <1>3, <1>4, UnaffectedConverges

-----------------------------------------------------------------------------
(* One pass over the chain.                                                  *)

LEMMA EmptyConverges ==
  ASSUME NEW c
  PROVE  Converges(EmptyDb, c, 0)
<1>1. \A u \in NftTables, t \in Tokens : ~HasRow(EmptyDb, u, t)
  BY DEF HasRow, EmptyDb
<1>2. \A t \in Tokens : EmptyDb.splits[t].config = NoSplits
  BY DEF EmptyDb, Accounts
<1> QED BY <1>1, <1>2 DEF Converges, TokenConverges, Placed, Shown, Divided

PassStep(c, live, f, i) ==
  IF i = 0 THEN EmptyDb
  ELSE IF Throws(f[i - 1], c[i]) THEN f[i - 1]
  ELSE After(f[i - 1], c[i], i, live)

Passes(c, live, n, f) == f = [i \in 0..n |-> PassStep(c, live, f, i)]

LEMMA PassExists ==
  ASSUME NEW c, NEW live, NEW n \in Nat
  PROVE  \E f : Passes(c, live, n, f)
<1> DEFINE T == {k \in Nat : ~ \E f : Passes(c, live, k, f)}
<1>1. ASSUME T # {} PROVE FALSE
  <2>1. T \subseteq Nat
    OBVIOUS
  <2>2. PICK m \in T : \A k \in T : ~(k < m)
    <3> HIDE DEF T
    <3> QED BY <1>1, <2>1, LeastNumber
  <2>3. m \in Nat /\ ~ \E f : Passes(c, live, m, f)
    BY <2>2
  <2>4. m # 0
    <3> DEFINE g == [i \in 0..0 |-> EmptyDb]
    <3>1. \A i \in 0..0 : i = 0
      OBVIOUS
    <3>2. g = [i \in 0..0 |-> PassStep(c, live, g, i)]
      BY <3>1, Zenon DEF PassStep
    <3> HIDE DEF g
    <3>3. Passes(c, live, 0, g)
      BY <3>2 DEF Passes
    <3> QED BY <2>3, <3>3
  <2>5. m - 1 \in Nat /\ m - 1 \notin T
    <3>1. m - 1 \in Nat /\ m - 1 < m
      BY <2>3, <2>4
    <3> HIDE DEF T
    <3> QED BY <2>2, <3>1
  <2>6. PICK g : Passes(c, live, m - 1, g)
    BY <2>5
  <2> HIDE DEF T
  <2> DEFINE h == [i \in 0..m |-> IF i < m THEN g[i] ELSE PassStep(c, live, g, m)]
  <2>7. ASSUME NEW i \in 0..m
        PROVE  h[i] = PassStep(c, live, h, i)
    <3>1. CASE i < m
      <4>1. i \in 0..(m - 1)
        BY <2>3, <3>1
      <4>2. h[i] = g[i] /\ g[i] = PassStep(c, live, g, i)
        BY <2>6, <3>1, <4>1, Zenon DEF Passes
      <4>3. i # 0 => h[i - 1] = g[i - 1]
        BY <2>3, <3>1
      <4> QED BY <4>2, <4>3 DEF PassStep
    <3>2. CASE i = m
      <4>1. h[i] = PassStep(c, live, g, m)
        BY <3>2
      <4>2. h[m - 1] = g[m - 1]
        BY <2>3, <2>4
      <4> QED BY <3>2, <4>1, <4>2 DEF PassStep
    <3> QED BY <2>3, <3>1, <3>2
  <2>8. Passes(c, live, m, h)
    <3>1. h = [i \in 0..m |-> h[i]]
      OBVIOUS
    <3> HIDE DEF h
    <3> QED BY <2>7, <3>1 DEF Passes
  <2> QED BY <2>3, <2>8
<1> QED BY <1>1

(* It keeps what the feed keeps.                                             *)
LEMMA PassConverges ==
  ASSUME NEW c \in Seq(Event), Ordered(c), NEW live,
         \A a \in Accounts : live[a] = SplitsOf(c, a),
         NEW f, Passes(c, live, Len(c), f)
  PROVE  Consistent(f[Len(c)]) /\ Tracks(f[Len(c)], c, Len(c))
         /\ Converges(f[Len(c)], c, Len(c))
<1> DEFINE Good(i) == Consistent(f[i]) /\ Tracks(f[i], c, i) /\ Converges(f[i], c, i)
           T == {i \in 0..Len(c) : ~Good(i)}
<1>0. Len(c) \in Nat /\ Len(c) \in 0..Len(c)
  OBVIOUS
<1>1. \A i \in 0..Len(c) : f[i] = PassStep(c, live, f, i)
  BY Zenon DEF Passes
<1>2. Good(0)
  <2>1. f[0] = EmptyDb
    BY <1>0, <1>1 DEF PassStep
  <2> QED BY <2>1, EmptyConsistent, EmptyTracks, EmptyConverges
<1>3. ASSUME NEW k \in 0..(Len(c) - 1), Good(k)
      PROVE  Good(k + 1)
  <2>1. /\ k + 1 \in 0..Len(c) /\ k + 1 \in 1..Len(c) /\ k + 1 \in Nat
        /\ k + 1 # 0 /\ (k + 1) - 1 = k
    BY <1>0
  <2>2. f[k + 1] = IF Throws(f[k], c[k + 1]) THEN f[k]
                   ELSE After(f[k], c[k + 1], k + 1, live)
    BY <1>1, <2>1 DEF PassStep
  <2>3. c[k + 1] \in Event
    BY <2>1
  <2>4. CASE Throws(f[k], c[k + 1])
    <3>1. f[k + 1] = f[k]
      BY <2>2, <2>4
    <3>2. Tracks(f[k], c, k + 1) /\ Converges(f[k], c, k + 1)
      BY <1>3, <2>4, ThrownTracks, ThrownConverges
    <3> QED BY <1>3, <3>1, <3>2
  <2>5. CASE ~Throws(f[k], c[k + 1])
    <3> DEFINE n == After(f[k], c[k + 1], k + 1, live)
    <3>1. f[k + 1] = n
      BY <2>2, <2>5
    <3>2. Consistent(n)
      BY <1>3, <2>1, <2>3, <2>5, AfterConsistent
    <3>3. Spares(f[k], n, c[k + 1].account) /\ Tracks(n, c, k + 1)
      BY <1>3, <2>5, HandledTracks
    <3>4. Converges(n, c, k + 1)
      BY <1>3, <2>5, <3>3, HandledConverges
    <3> HIDE DEF n
    <3> QED BY <3>1, <3>2, <3>3, <3>4
  <2> QED BY <2>4, <2>5
<1> HIDE DEF Good
<1>4. ASSUME T # {} PROVE FALSE
  <2>1. T \subseteq Nat
    BY <1>0
  <2>2. PICK m \in T : \A k \in T : ~(k < m)
    <3> HIDE DEF T
    <3> QED BY <1>4, <2>1, LeastNumber
  <2>3. m \in 0..Len(c) /\ ~Good(m) /\ m # 0
    BY <1>2, <2>2
  <2>4. m - 1 \in 0..(Len(c) - 1) /\ m - 1 \in 0..Len(c) /\ m - 1 < m /\ (m - 1) + 1 = m
    BY <1>0, <2>3
  <2>5. m - 1 \notin T
    <3> HIDE DEF T
    <3> QED BY <2>2, <2>4
  <2>6. Good(m - 1)
    BY <2>4, <2>5
  <2>7. Good((m - 1) + 1)
    <3> HIDE DEF T
    <3> QED BY <1>3, <2>4, <2>6
  <2> QED BY <2>3, <2>4, <2>7
<1>5. Good(Len(c))
  BY <1>0, <1>4
<1> QED BY <1>5 DEF Good

-----------------------------------------------------------------------------
(* What the chain decides is the same in any two such tables.                *)

LEMMA SameHome ==
  ASSUME NEW c, NEW t \in Tokens, NEW d, NEW b, Consistent(d), Consistent(b),
         Placed(d, c, Len(c), t), Placed(b, c, Len(c), t),
         NEW u \in NftTables, HasRow(d, u, t)
  PROVE  HasRow(b, u, t)
<1>1. \A i : TableOf(c[i]) \in NftTables \ {"pending"}
  BY DEF TableOf, NftTables
<1>2. CASE u = "pending"
  <2>1. PICK v \in NftTables : HasRow(b, v, t)
    BY DEF Placed
  <2>2. CASE v # "pending"
    <3>1. HasRow(d, v, t)
      BY <2>1, <2>2 DEF Placed
    <3> QED BY <1>2, <2>2, <3>1 DEF Consistent
  <2> QED BY <1>2, <2>1, <2>2
<1>3. CASE u # "pending"
  BY <1>3 DEF Placed
<1> QED BY <1>2, <1>3

LEMMA SameView ==
  ASSUME NEW c \in Seq(Event), NEW d, NEW b, Consistent(d), Consistent(b),
         Tracks(d, c, Len(c)), Tracks(b, c, Len(c)),
         Converges(d, c, Len(c)), Converges(b, c, Len(c)), NEW t \in Tokens
  PROVE  View(d, t) = View(b, t)
<1>0. Len(c) \in Nat /\ \A name : LastAt(c, name, t) <= Len(c)
  BY LastIsLast
<1>1. /\ Placed(d, c, Len(c), t) /\ Shown(d, c, Len(c), t) /\ Divided(d, c, Len(c), t)
      /\ Placed(b, c, Len(c), t) /\ Shown(b, c, Len(c), t) /\ Divided(b, c, Len(c), t)
  BY DEF Converges, TokenConverges
<1>2. \A u \in NftTables : HasRow(d, u, t) <=> HasRow(b, u, t)
  BY <1>1, SameHome
<1>3. d.splits[t].config = b.splits[t].config
  <2> DEFINE S == {i \in 1..Len(c) : Accepted(c, t, i)}
  <2>1. CASE S = {}
    BY <1>1, <2>1 DEF Divided
  <2>2. CASE S # {}
    <3>1. S \subseteq 1..Len(c)
      OBVIOUS
    <3>2. PICK i \in S : \A j \in S : i >= j
      <4> HIDE DEF S
      <4> QED BY <1>0, <2>2, <3>1, LastExists
    <3>3. /\ i \in 1..Len(c) /\ Accepted(c, t, i)
          /\ \A j \in (i + 1)..Len(c) : ~Accepted(c, t, j)
      BY <1>0, <3>2
    <3> QED BY <1>1, <3>3, Zenon DEF Divided
  <2> QED BY <2>1, <2>2
<1>4. ASSUME NEW u \in NftTables, HasRow(d, u, t), HasRow(b, u, t)
      PROVE  /\ d.nft[u][t].owner = b.nft[u][t].owner
             /\ d.nft[u][t].visible = b.nft[u][t].visible
             /\ d.nft[u][t].valid = b.nft[u][t].valid
  <2>1. TokenTracks(d, c, Len(c), t) /\ TokenTracks(b, c, Len(c), t)
    BY DEF Tracks
  <2>2. d.nft[u][t].owner = b.nft[u][t].owner
    BY <1>0, <1>4, <2>1 DEF TokenTracks
  <2>3. d.nft[u][t].visible = b.nft[u][t].visible
    <3> DEFINE S == {i \in 1..Len(c) : Showing(c, t, i)}
    <3>1. S \subseteq 1..Len(c)
      OBVIOUS
    <3>2. S # {}
      <4>1. \E i \in 1..Len(c) : Moving(c, t, i)
        BY <1>1, <1>4 DEF Placed
      <4> QED BY <4>1 DEF Showing
    <3>3. PICK i \in S : \A j \in S : i >= j
      <4> HIDE DEF S
      <4> QED BY <1>0, <3>1, <3>2, LastExists
    <3>4. /\ i \in 1..Len(c) /\ Showing(c, t, i)
          /\ \A j \in (i + 1)..Len(c) : ~Showing(c, t, j)
      BY <1>0, <3>3
    <3> QED BY <1>1, <1>4, <3>4, Zenon DEF Shown
  <2>4. d.nft[u][t].valid <=> b.nft[u][t].valid
    <3>1. CASE u = "pending"
      BY <1>1, <1>4, <3>1 DEF Placed
    <3>2. CASE u # "pending"
      BY <1>0, <1>3, <1>4, <2>1, <3>2 DEF TokenTracks
    <3> QED BY <3>1, <3>2
  <2>5. d.nft[u][t].valid \in BOOLEAN /\ b.nft[u][t].valid \in BOOLEAN
    BY <1>4, RowTypes DEF NftRow
  <2>6. d.nft[u][t].valid = b.nft[u][t].valid
    BY <2>4, <2>5
  <2> QED BY <2>2, <2>3, <2>6
<1>5. {u \in NftTables : HasRow(d, u, t)} = {u \in NftTables : HasRow(b, u, t)}
  BY <1>2
<1>6. {[owner |-> d.nft[u][t].owner, visible |-> d.nft[u][t].visible,
        valid |-> d.nft[u][t].valid] : u \in {v \in NftTables : HasRow(d, v, t)}}
      = {[owner |-> b.nft[u][t].owner, visible |-> b.nft[u][t].visible,
          valid |-> b.nft[u][t].valid] : u \in {v \in NftTables : HasRow(b, v, t)}}
  BY <1>2, <1>4
<1> QED BY <1>3, <1>5, <1>6 DEF View

-----------------------------------------------------------------------------
(* The feed.                                                                 *)

ReplayInv == ~forked /\ ~failed => Converges(db, chain, done)

LEMMA ReplayNext ==
  ASSUME FeedInv, Consistent(db), CurrentInv, ReplayInv, [Next]_vars
  PROVE  ReplayInv'
<1> SUFFICES ASSUME ~forked', ~failed'
             PROVE  Converges(db', chain', done')
  BY DEF ReplayInv
<1>1. CASE UNCHANGED vars
  BY <1>1 DEF vars, ReplayInv
<1>2. CASE Emit
  <2>1. PICK e \in Emittable(chain) : chain' = Append(chain, e)
    BY <1>2 DEF Emit
  <2>2. /\ chain \in Seq(Event) /\ e \in Event
        /\ UNCHANGED <<events, done, db, forked, failed>>
    BY <1>2, EmittableEvents DEF Emit, FeedInv, feedVars
  <2>3. done \in 0..Len(chain) /\ Converges(db, chain, done)
    BY <2>2, DoneInChain DEF CurrentInv, ReplayInv
  <2>4. Converges(db, Append(chain, e), done)
    BY <2>2, <2>3, ConvergesAppended
  <2> QED BY <2>1, <2>2, <2>4
<1>3. CASE Fork
  BY <1>3 DEF Fork
<1>4. CASE Fetch
  BY <1>4 DEF Fetch, feedVars, ReplayInv
<1>5. CASE RollBack
  <2>1. PICK k \in 0..(Len(events) - 1) : done' = Min2(done, k)
    BY <1>5 DEF RollBack
  <2>2. UNCHANGED <<chain, db, forked, failed>>
    BY <1>5 DEF RollBack
  <2>3. done' \in 0..done /\ done \in Nat
    BY <2>1 DEF FeedInv, Min2
  <2>4. Converges(db, chain, done')
    BY <2>2, <2>3, ConvergesEarlier DEF ReplayInv
  <2> QED BY <2>2, <2>4
<1>6. ASSUME NEW name, Handle(name)
      PROVE  Converges(db', chain', done')
  <2> DEFINE e == chain[done + 1]
  <2>1. /\ done \in Nat /\ done + 1 \in 1..Len(events) /\ chain \in Seq(Event)
        /\ ~Throws(db, events[done + 1])
        /\ db' = After(db, events[done + 1], done + 1, Live)
        /\ done' = done + 1 /\ UNCHANGED <<chain, forked, failed>>
    BY <1>6 DEF Handle, FeedInv, feedVars
  <2>2. /\ events[done + 1] = e /\ done \in 0..(Len(chain) - 1)
        /\ Ordered(chain) /\ Tracks(db, chain, done) /\ Converges(db, chain, done)
    BY <2>1 DEF CurrentInv, Indexed, ReplayInv
  <2>3. \A a \in Accounts : Live[a] = SplitsOf(chain, a)
    BY DEF Live
  <2>4. Spares(db, After(db, e, done + 1, Live), e.account)
    BY <2>1, <2>2, <2>3, HandledTracks
  <2>5. Converges(After(db, e, done + 1, Live), chain, done + 1)
    BY <2>1, <2>2, <2>4, HandledConverges
  <2> QED BY <2>1, <2>2, <2>5
<1>7. CASE HandlerThrows
  <2>1. /\ done \in Nat /\ done + 1 \in 1..Len(events) /\ chain \in Seq(Event)
        /\ Throws(db, events[done + 1])
        /\ done' = done + 1 /\ UNCHANGED <<chain, db, forked, failed>>
    BY <1>7 DEF HandlerThrows, FeedInv, feedVars
  <2>2. /\ events[done + 1] = chain[done + 1] /\ done \in 0..(Len(chain) - 1)
        /\ Ordered(chain) /\ Converges(db, chain, done)
    BY <2>1 DEF CurrentInv, Indexed, ReplayInv
  <2>3. Converges(db, chain, done + 1)
    BY <2>1, <2>2, ThrownConverges
  <2> QED BY <2>1, <2>3
<1>8. CASE HandlerFails
  BY <1>8 DEF HandlerFails
<1> QED
  BY <1>1, <1>2, <1>3, <1>4, <1>5, <1>6, <1>7, <1>8
  DEF Next, HandleTransfer, HandleMetadata, HandleSplitsSet, HandleRequest, HandleOwner

(* ReplayConverges: reprocessing any suffix of the events, at any moment,    *)
(* leaves a token as one pass over the chain does: its table, its owner,     *)
(* whether it is visible and valid, and its splits.                          *)
THEOREM ReplaysConverge == Spec => []ReplayConverges
<1>1. Init => ReplayInv
  BY EmptyConverges DEF Init, ReplayInv
<1>2. FeedInv /\ Consistent(db) /\ CurrentInv /\ ReplayInv /\ [Next]_vars => ReplayInv'
  BY ReplayNext
<1>3. FeedInv /\ Consistent(db) /\ CurrentInv /\ ReplayInv => ReplayConverges
  <2> SUFFICES ASSUME FeedInv, Consistent(db), CurrentInv, ReplayInv,
                      Settled, ~forked, ~failed, NEW t \in Tokens
               PROVE  View(db, t) = View(OnePass, t)
    BY DEF ReplayConverges
  <2>1. /\ chain \in Seq(Event) /\ Len(chain) \in Nat /\ done = Len(chain)
        /\ Ordered(chain) /\ Tracks(db, chain, done) /\ Converges(db, chain, done)
        /\ \A a \in Accounts : Live[a] = SplitsOf(chain, a)
    BY DEF Settled, FeedInv, CurrentInv, ReplayInv, Live
  <2> DEFINE pass == CHOOSE f : Passes(chain, Live, Len(chain), f)
  <2>2. OnePass = pass[Len(chain)]
    BY Zenon DEF OnePass, Passes, PassStep
  <2>3. Passes(chain, Live, Len(chain), pass)
    <3>1. \E f : Passes(chain, Live, Len(chain), f)
      BY <2>1, PassExists
    <3> QED BY <3>1, Zenon
  <2> HIDE DEF pass
  <2>4. /\ Consistent(OnePass) /\ Tracks(OnePass, chain, Len(chain))
        /\ Converges(OnePass, chain, Len(chain))
    BY <2>1, <2>2, <2>3, PassConverges
  <2> QED BY <2>1, <2>4, SameView
<1> QED BY <1>1, <1>2, <1>3, TablesInvariant, CurrentInvariant, PTL DEF Spec
===============================================================================
