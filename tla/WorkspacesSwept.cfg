SPECIFICATION FairSpec
CONSTANTS
  Tasks <- MCTasks
  Named = {1, 2}
  Clients = {"mcp"}
  WorkspaceTtl = 1
  ArchiveTtl = 1
  SweeperAutonomy = FALSE
  Horizon = 1
  MaxEdits = 0
  MaxArchives = 1
  MaxFaults = 0
PROPERTIES SweptUnlessBlocked
