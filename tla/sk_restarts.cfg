SPECIFICATION AccountsSpec
CONSTANTS
  Key = {k1, k2, k3}
  NoKey = NoKey
  Torn = Torn
  User = {u1, u2}
  ReadsFail = FALSE
  Address = {a}
  Blank = Blank
  Call = {c1, c2}
  NoUser = NoUser
  NoAccount = NoAccount
  NoCall = NoCall
  NoAnswer = NoAnswer
INVARIANTS AccountsTypeOK TokensOutliveRuns TokenNamesItsAccount RefusedOnlyForItsAddress
PROPERTIES ServesAgain
CHECK_DEADLOCK FALSE
