CONSTANTS
  o1 = o1
  o2 = o2
  x1 = x1
  Users = {u1}
  Orgs = {o1, o2}
  Options = {f1, f2, f3}
  Default = default
  Names = {default, other}
  Urls = {x1, x2}
  Seed <- OneSeed
  Requests = {h1}
  None = None
SPECIFICATION Spec
INVARIANTS TypeOK ChoiceIsOfOwnOrg SeedHolds
PROPERTY ChoiceIsKept
SYMMETRY Symmetric
