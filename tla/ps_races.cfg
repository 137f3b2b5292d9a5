SPECIFICATION Spec
CONSTANTS
  Project = {p1, p2}
  User = {u1}
  Call = {c1, c2, c3}
  Secret = {s1, s2}
  NoProject = NoProject
  NoUser = NoUser
  NoSecret = NoSecret
  Fault = {"redis", "retry", "db", "auth", "atlas", "agent", "crash"}
  LeaseOutlivesCall = FALSE
  Stops = "any"
SYMMETRY AnyOrder
INVARIANTS TypeOK ReportedSecretWasLaunched SecretsStayWithTheirProject
PROPERTIES OwnerNeverChanges
