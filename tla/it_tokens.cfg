SPECIFICATION Spec
CONSTANTS
  User = {u1, u2}
  NoUser = NoUser
  Installation = {i1}
  Call = {c1, c2}
  CacheLife = 2
  TokenLife = 3
  Delay = 1
  MaxTime = 5
INVARIANTS TypeOK TokensAreHonoured TokensStayWithTheirUser
