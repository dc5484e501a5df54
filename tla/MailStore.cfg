SPECIFICATION FairSpec
CONSTANTS
  Msgs = {m1}
  Dlvs = {d1}
  Gens = {"a1"}
  Workers = 1
  MaxMessages = 1
  CleanupBatch = 2
  GcBatch = 5
  Reparsable = {m1}
  Expirable = {m1}
  MaxClears = 1
  MaxFaults = 1
  MaxCrashes = 1
 
INVARIANT RetiredIsQuiet
INVARIANT DeletedStaysDeleted
PROPERTY FilesReclaimed
