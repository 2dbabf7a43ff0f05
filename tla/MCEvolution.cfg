SPECIFICATION Spec
CONSTANTS
  LastStage = 1
  MaxRetries = 1
  Proposals <- MCProposals
  Artifacts <- MCArtifacts
  Base <- MCBase
  Candidate <- MCCandidate
  Governed <- MCGoverned
  Seasoned <- MCSeasoned
  MaxDepth = 2
  Commands = {"cli"}
  Services = {"service"}
INVARIANTS CatalogResolves OnlyEarnedActivate StoresTogether RecoveryNotStuck
CHECK_DEADLOCK FALSE
