SPECIFICATION Spec
CONSTANTS
  MaxNodes = 4
  MaxDepth = 5
  MaxPath = 2
  Names = {"tmp", "home"}
  Data = {"", "x"}
  Users = {"root", "ada"}
  Home <- MCHome
  Skeleton <- MCSkeleton
  WritesFail = TRUE
  SavesFail = FALSE
  NULL = NULL
CHECK_DEADLOCK FALSE
INVARIANTS CwdAlive
