SPECIFICATION Spec
CONSTANTS
  Project = {p1, p2}
  User = {u1}
  Call = {c1, c2, c3}
  Secret = {s1, s2, s3}
  NoProject = NoProject
  NoUser = NoUser
  NoSecret = NoSecret
  Fault = {"redis", "retry"}
  LeaseOutlivesCall = FALSE
  Stops = "own"
SYMMETRY AnyOrder
INVARIANT StartingIsAnsweredFor
