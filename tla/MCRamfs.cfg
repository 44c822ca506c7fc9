SPECIFICATION Spec
CONSTANTS
  MaxNodes = 4
  MaxDepth = 2
  MaxPath = 2
  Names = {"tmp", "home"}
  Data = {"", "x"}
  Users = {"root", "ada"}
  Home <- MCHome
  Skeleton <- MCSkeleton
  WritesFail = FALSE
  SavesFail = TRUE
  NULL = NULL
CHECK_DEADLOCK FALSE
INVARIANTS TypeOK TreeOK RoundTrip
PROPERTIES Confined
