SPECIFICATION Spec
CONSTANTS
  Client = {a, b}
  V6 = {b}
  V6Key = V6Key
  Name = {a}
  NoHeader = NoHeader
  Window = 3
  Limit = 2
  Wait = 1
INVARIANTS TypeOK TwiceTheLimitAtMost RefusedForItsKey
