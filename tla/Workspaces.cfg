SPECIFICATION Spec
CONSTANTS
  Tasks <- MCTasks
  Named = {1}
  Clients = {"mcp"}
  WorkspaceTtl = 1
  ArchiveTtl = 1
  SweeperAutonomy = FALSE
  Horizon = 1
  MaxEdits = 1
  MaxArchives = 1
  MaxFaults = 1
INVARIANTS WorkIsKept ExpiriesAreBuried
PROPERTIES RemovalKeepsTheWork
