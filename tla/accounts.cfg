SPECIFICATION Spec
CONSTANTS
  c1 = c1
  c2 = c2
  Callers <- TwoCallers
  Known <- FiveAccounts
  Lower <- LowerCase
  RootName = "root"
  RootPassword = "root"
  FirstUsers <- NoUsers
  MaxUsers = 2
  MaxFailures = 1
SYMMETRY CallerSymmetry
INVARIANTS LoginRegular DuplicatesOnlyByRush
PROPERTY RemovesNamesake
