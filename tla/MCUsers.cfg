SPECIFICATION Spec
CONSTANTS
  UserMax = 3
  Names = {"root", "ada", "bob"}
  Passwords = {"p", "q"}
  FirstUid = 10
  MaxUid = 13
  NULL = NULL
INVARIANTS TypeOK UidsUnique RemovalsSafe AccountsSurvive PasswdTruthful
