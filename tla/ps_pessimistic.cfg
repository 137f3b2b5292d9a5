SPECIFICATION Spec
CONSTANTS
  Project = {p1}
  User = {u1}
  Call = {c1, c2}
  Secret = {s1, s2}
  NoProject = NoProject
  NoUser = NoUser
  NoSecret = NoSecret
  Fault = {}
  LeaseOutlivesCall = TRUE
  Stops = "own"
PROPERTY SecretsMoveForward
