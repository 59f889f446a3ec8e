SPECIFICATION Spec
CONSTANTS
  token = token
  sublist = sublist
  repo = repo
  orcid = orcid
  alice = alice
  bob = bob
  none = none
  many = many
  Tokens <- MCTokens
  SubLists <- MCSubLists
  Projects <- MCProjects
  Orcids <- MCOrcids
  Owners <- MCOwners
  Zero = Zero
  Absent = Absent
  Configs <- MCConfigs
  NoSplits = none
  Dependencies <- MCDependencies
  VisibilityThreshold = 1
  Published <- MCPublished
  Offered <- MCOffered
  MaxEvents = 5
  MaxDisturbed = 3
  MaxActive = 2
  MaxDisturbances = 1
SYMMETRY OwnersAlike
INVARIANTS TypeOK OneHome RootsAreEcosystems ReceiversExist StatusFollowsOwner
  OwnerCurrent CreatorIsMinter ValidNow IdentityPaysOwner ReplayConverges
CHECK_DEADLOCK FALSE
