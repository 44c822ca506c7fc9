SPECIFICATION FairSpec
CONSTANTS
  TaskMax = 4
  Stacks = {1, 2, 3}
  MaxId = 4
  SleepTicks = {0, 1}
  WorkTicks = 1
  Rounds = 1
  NULL = NULL
ACTION_CONSTRAINT FirstFit
INVARIANTS TypeOK RingOK StackSafe PidsUnique DeadStaysGone SleepHonoured SpawnedPidStable
PROPERTIES TurnsComeRound NoStarvation DeadReaped
