SPECIFICATION FairSpec
CONSTANTS
  User = {u1, u2}
  NoUser = NoUser
  Workspace = {w1}
  NoWorkspace = NoWorkspace
  Call = {c1, c2}
  NoCall = NoCall
  NoAnswer = NoAnswer
INVARIANTS TypeOK AllowedIsOwner LateTokensAreRefused OwnersGetIn
PROPERTIES ComesBack
