------------------------------ MODULE MCAccounts ------------------------------
(* Instances of Accounts for TLC: one account of each kind. *)
EXTENDS Accounts, TLC

CONSTANTS token, sublist, repo, orcid, alice, bob, none, many

MCTokens == {token}
MCSubLists == {sublist}
MCProjects == {repo}
MCOrcids == {orcid}
MCOwners == {alice, bob}
MCConfigs == {none, many}
MCDependencies == [c \in MCConfigs |-> IF c = many THEN {repo} ELSE {}]

Doc(a, kind, c, source, visible) ==
  [describes |-> a, kind |-> kind, splits |-> c, visible |-> visible,
   sources |-> [x \in MCProjects |-> source],
   sound |-> TRUE, parent |-> Absent, root |-> Absent]
SubListDoc(c, source) ==
  [Doc(Absent, "subList", c, source, "unsaid") EXCEPT !.parent = token, !.root = token]

MCPublished == [a \in {token, sublist, repo} |->
  CASE a = token -> {Doc(token, "dripList", many, "orcid", "hidden"),
                     Doc(token, "ecosystem", many, "github", "unsaid"),
                     Doc(token, "ecosystem", many, "orcid", "unsaid"),
                     Doc(repo, "dripList", many, "github", "unsaid"),
                     Doc(token, "other", none, "none", "unsaid")}
    [] a = sublist -> {SubListDoc(many, "github")}
    [] a = repo -> {Doc(repo, "project", many, "github", "hidden")}]
MCOffered == [a \in {token, sublist, repo, orcid} |->
  IF a = orcid THEN {Pays(alice), Pays(bob)} ELSE {none, many}]

OwnersAlike == Permutations(MCOwners)
=============================================================================
