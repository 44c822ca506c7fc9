SPECIFICATION FairSpec
CONSTANTS
  a = a
  b = b
  None = None
  Blocks <- BlocksValue
  Contents <- AndTooLarge
  FirstContents <- TwoSnapshots
  MaxPayload = 2
  Sectors <- BothDrives
  DataLba = 2
  Reserve = 1
  Faults = {"read", "nomem", "detected", "late"}
  MaxFaults = 1
INVARIANTS TypeOK CommittedIsOnDisk CleanMeansSaved
PROPERTIES RestoresWhole RetriedUntilSaved
