CONSTANTS
  mod = mod
  omod = omod
  author = author
  org1 = org1
  org2 = org2
  Users = {mod, author}
  Orgs = {}
  Global = Global
  Nobody = Nobody
  Role <- GlobalRole
  Organization <- GlobalOrg
  Keywords = {k1}
  Links = {l1, l2}
  Edits = {e1}
  Handlers = {h1, h2}
  Limit = 1
SPECIFICATION Spec
INVARIANTS TypeOK ActiveIsReviewed AuthorsToldTheTruth AppliedEditsAreApproved
  EditsOvershootByConcurrency
PROPERTIES ImplementsLifecycle DecisionsSettle
SYMMETRY Symmetric
CHECK_DEADLOCK FALSE
