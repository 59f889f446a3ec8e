------------------------------ MODULE RepoAccounts ------------------------------
(***************************************************************************)
(* Handlers of the events of repo driver accounts: GitHub projects and     *)
(* ORCID identities.  An account is known from its first request for an    *)
(* owner, or, for a project, from being named, with its source, as a       *)
(* receiver of someone's splits.                                           *)
(***************************************************************************)
EXTENDS AccountTables

\* calculateProjectVerificationStatus()
Status(owner, described) ==
  IF owner = Absent THEN "unclaimed"
  ELSE IF described THEN "claimed" ELSE "pending_metadata"

-----------------------------------------------------------------------------
(* OwnerUpdateRequested never throws and changes no row that exists. *)

AfterRequest(d, e, p) ==
  LET a == e.account IN
  IF a \in Projects
    THEN [d EXCEPT !.projects[a] = IF @ = Absent THEN Unclaimed(p) ELSE @]
    ELSE [d EXCEPT !.identities[a] =
           IF @ = Absent THEN [owner |-> Absent, valid |-> FALSE, at |-> p] ELSE @]

-----------------------------------------------------------------------------
(* OwnerUpdated. *)

OwnerThrows(d, e) ==
  \/ e.account \in Projects /\ d.projects[e.account] = Absent
  \/ e.account \in Orcids /\ d.identities[e.account] = Absent

\* A faulty variant of AfterOwner: the status of a project is left alone.
AfterOwnerOnly(d, e, p) ==
  LET a == e.account IN
  IF a \in Projects
    THEN [d EXCEPT !.projects[a] = [@ EXCEPT !.owner = e.owner, !.at = p]]
    ELSE [d EXCEPT !.identities[a] = [@ EXCEPT !.owner = e.owner, !.at = p]]

\* The validity of an identity's splits is left as it was for the old owner.
AfterOwner(d, e, p) ==
  LET a == e.account IN
  IF a \in Projects
    THEN [d EXCEPT !.projects[a] =
           [@ EXCEPT !.owner = e.owner, !.at = p,
                     !.status = Status(e.owner, d.projects[a].described)]]
    ELSE [d EXCEPT !.identities[a] = [@ EXCEPT !.owner = e.owner, !.at = p]]

-----------------------------------------------------------------------------
(* AccountMetadataEmitted of a project; that of an identity is ignored. *)

ProjectMetadataThrows(d, e) ==
  \/ ~e.doc.sound \/ e.doc.describes # e.account
  \/ EnsureProjects(d, e.doc, 0).projects[e.account] = Absent

\* The row may be one that its own splits have just created.
AfterProjectMetadata(d, e, p, live) ==
  LET a == e.account
      split == DescribeSplits(d, e, p)
      visible(row) == IF e.doc.visible = "unsaid" THEN row.visible
                                                  ELSE e.doc.visible = "shown"
  IN [split EXCEPT !.projects[a] =
       [@ EXCEPT !.described = TRUE, !.at = p, !.visible = visible(split.projects[a]),
                 !.valid = Matches(split, a, live),
                 !.status = Status(split.projects[a].owner, TRUE)]]

-----------------------------------------------------------------------------
(* SplitsSet. *)

ProjectSplitsThrow(d, e) == d.projects[e.account] = Absent

AfterProjectSplits(d, e, p, live) ==
  [d EXCEPT !.projects[e.account] =
    [@ EXCEPT !.valid = Matches(d, e.account, live), !.at = p,
              !.status = Status(d.projects[e.account].owner,
                                d.projects[e.account].described)]]

\* No receivers are stored for an identity: the chain must pay its owner.
IdentitySplitsThrow(d, e) ==
  ~ (/\ d.identities[e.account] # Absent
     /\ d.identities[e.account].owner # Absent)

\* A faulty variant of AfterIdentitySplits: the owner is not looked up.
AfterIdentitySplitsAny(d, e, p, live) ==
  [d EXCEPT !.identities[e.account] =
    [@ EXCEPT !.at = p, !.valid = (live[e.account] = e.splits)]]

AfterIdentitySplits(d, e, p, live) ==
  [d EXCEPT !.identities[e.account] =
    [@ EXCEPT !.at = p,
              !.valid = /\ live[e.account] = e.splits
                        /\ live[e.account] = Pays(d.identities[e.account].owner)]]
=============================================================================
