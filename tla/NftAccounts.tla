------------------------------ MODULE NftAccounts ------------------------------
(***************************************************************************)
(* Handlers of the events of NFT driver accounts, which are drip lists or  *)
(* ecosystems, and of the sub lists of ecosystems.  A token is minted      *)
(* before its kind is known: its transfers wait in _pending_nft_transfers  *)
(* until metadata says which table it belongs to.                          *)
(***************************************************************************)
EXTENDS AccountTables

\* A document of a new version decides visibility for itself.
DocVisible(doc, p) == ~(p > VisibilityThreshold /\ doc.visible = "hidden")

HasRow(d, table, t) == d.nft[table][t] # Absent

-----------------------------------------------------------------------------
(* Transfer. *)

IsMint(e) == e.from = Zero

\* After a real transfer the new owner decides whether to show the account.
TransferVisible(e, p) == p > VisibilityThreshold => IsMint(e)

\* A faulty variant of Transferred: whoever receives the token is its creator.
TransferredAfresh(row, e, p) ==
  [row EXCEPT !.owner = e.to, !.at = p, !.visible = TransferVisible(e, p),
              !.creator = e.to]

Transferred(row, e, p) ==
  [row EXCEPT !.owner = e.to, !.at = p, !.visible = TransferVisible(e, p),
              !.creator = IF IsMint(e) THEN e.to ELSE @]

\* A faulty variant of UpsertPending: ON CONFLICT DO NOTHING.
UpsertPendingOnce(d, e, p) ==
  IF HasRow(d, "pending", e.account) THEN d
  ELSE [d EXCEPT !.nft["pending"][e.account] =
    [owner |-> e.to, creator |-> IF IsMint(e) THEN e.to ELSE Absent,
     visible |-> TransferVisible(e, p), valid |-> TRUE, at |-> p]]

\* ON CONFLICT replaces the whole row, the creator included.
UpsertPending(d, e, p) ==
  [d EXCEPT !.nft["pending"][e.account] =
    [owner |-> e.to, creator |-> IF IsMint(e) THEN e.to ELSE Absent,
     visible |-> TransferVisible(e, p), valid |-> TRUE, at |-> p]]

\* A faulty variant of AfterTransfer: no return after the update of an
\* ecosystem.
AfterTransferThrough(d, e, p) ==
  LET t == e.account IN
  IF HasRow(d, "drip_lists", t)
    THEN [d EXCEPT !.nft["drip_lists"][t] = Transferred(@, e, p)]
    ELSE UpsertPending(
           IF HasRow(d, "ecosystems", t)
             THEN [d EXCEPT !.nft["ecosystems"][t] = Transferred(@, e, p)]
             ELSE d, e, p)

AfterTransfer(d, e, p) ==
  LET t == e.account IN
  IF HasRow(d, "drip_lists", t)
    THEN [d EXCEPT !.nft["drip_lists"][t] = Transferred(@, e, p)]
  ELSE IF HasRow(d, "ecosystems", t)
    THEN [d EXCEPT !.nft["ecosystems"][t] = Transferred(@, e, p)]
  ELSE UpsertPending(d, e, p)

-----------------------------------------------------------------------------
(* AccountMetadataEmitted of a token. *)

Known(d, table, t) == HasRow(d, table, t) \/ HasRow(d, "pending", t)

DripListThrows(d, e) ==
  \/ ~e.doc.sound \/ e.doc.describes # e.account \/ Mistyped(e.doc)
  \/ ~Known(d, "drip_lists", e.account)

EcosystemThrows(d, e) ==
  \/ ~e.doc.sound \/ e.doc.describes # e.account \/ Mistyped(e.doc)
  \/ ~Known(d, "ecosystems", e.account)

\* DELETE ... INSERT in one statement: the row changes its table.
Migrate(d, table, t) ==
  [d EXCEPT !.nft[table][t] = [d.nft["pending"][t] EXCEPT !.valid = TRUE],
            !.nft["pending"][t] = Absent]

\* A faulty variant of Describe: a migrated row is not updated again.
DescribeMigrated(d, e, p, live, table) ==
  LET t == e.account
      split == DescribeSplits(d, e, p)
  IN IF HasRow(d, table, t)
       THEN [split EXCEPT !.nft[table][t] =
              [@ EXCEPT !.visible = DocVisible(e.doc, p),
                        !.valid = Matches(split, t, live), !.at = p]]
       ELSE Migrate(split, table, t)

\* The row is in the table, or moves there from the pending ones.
Describe(d, e, p, live, table) ==
  LET t == e.account
      split == DescribeSplits(d, e, p)
      placed == IF HasRow(d, table, t) THEN split ELSE Migrate(split, table, t)
  IN [placed EXCEPT !.nft[table][t] =
       [@ EXCEPT !.visible = DocVisible(e.doc, p),
                 !.valid = Matches(split, t, live), !.at = p]]

AfterDripList(d, e, p, live) == Describe(d, e, p, live, "drip_lists")
AfterEcosystem(d, e, p, live) == Describe(d, e, p, live, "ecosystems")

\* Metadata that is neither is ignored.
TokenMetadataThrows(d, e) ==
  \/ e.doc.kind = "dripList" /\ DripListThrows(d, e)
  \/ e.doc.kind = "ecosystem" /\ EcosystemThrows(d, e)

AfterTokenMetadata(d, e, p, live) ==
  CASE e.doc.kind = "dripList" -> AfterDripList(d, e, p, live)
    [] e.doc.kind = "ecosystem" -> AfterEcosystem(d, e, p, live)
    [] OTHER -> d

-----------------------------------------------------------------------------
(* AccountMetadataEmitted of a sub list. *)

\* A faulty variant of SubListMetadataThrows: parent and root may be missing.
SubListMetadataThrowsNot(d, e) ==
  e.doc.kind = "subList" /\ (~e.doc.sound \/ Mistyped(e.doc))

\* Ignored, and so never refused, unless parent and root are said to be
\* ecosystems.
SubListMetadataThrows(d, e) ==
  /\ e.doc.kind = "subList"
  /\ \/ ~e.doc.sound \/ Mistyped(e.doc)
     \/ ~HasRow(d, "ecosystems", e.doc.parent)
     \/ ~HasRow(d, "ecosystems", e.doc.root)

AfterSubListMetadata(d, e, p, live) ==
  LET split == DescribeSplits(d, e, p)
  IN IF e.doc.kind # "subList" THEN d
     ELSE [split EXCEPT !.subLists[e.account] =
            [parent |-> e.doc.parent, root |-> e.doc.root,
             valid |-> Matches(split, e.account, live), at |-> p]]

-----------------------------------------------------------------------------
(* SplitsSet. *)

TokenSplitsThrow(d, e) ==
  HasRow(d, "drip_lists", e.account) = HasRow(d, "ecosystems", e.account)

\* A faulty variant of AfterTokenSplits: once invalid, always invalid.
AfterTokenSplitsSticky(d, e, p, live) ==
  LET table == IF HasRow(d, "drip_lists", e.account) THEN "drip_lists" ELSE "ecosystems"
  IN [d EXCEPT !.nft[table][e.account] =
       [@ EXCEPT !.valid = @ /\ Matches(d, e.account, live), !.at = p]]

AfterTokenSplits(d, e, p, live) ==
  LET table == IF HasRow(d, "drip_lists", e.account) THEN "drip_lists" ELSE "ecosystems"
  IN [d EXCEPT !.nft[table][e.account] =
       [@ EXCEPT !.valid = Matches(d, e.account, live), !.at = p]]

SubListSplitsThrow(d, e) == d.subLists[e.account] = Absent

AfterSubListSplits(d, e, p, live) ==
  [d EXCEPT !.subLists[e.account] =
    [@ EXCEPT !.valid = Matches(d, e.account, live), !.at = p]]
=============================================================================
