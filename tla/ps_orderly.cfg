SPECIFICATION FairSpec
CONSTANTS
  Project = {p1, p2}
  User = {u1}
  Call = {c1, c2}
  Secret = {s1, s2, s3}
  NoProject = NoProject
  NoUser = NoUser
  NoSecret = NoSecret
  Fault = {"redis", "db", "auth", "atlas", "agent", "crash"}
  LeaseOutlivesCall = TRUE
  Stops = "none"
INVARIANT StartExclusion
PROPERTIES ImplementsLifecycle SecretsMoveForward LockEventuallyFree
