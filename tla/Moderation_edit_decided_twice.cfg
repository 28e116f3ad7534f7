CONSTANTS
  mod = mod
  omod = omod
  author = author
  org1 = org1
  org2 = org2
  Users = {mod, author}
  Orgs = {}
  Global = Global
  Nobody = Nobody
  Role <- GlobalRole
  Organization <- GlobalOrg
  Keywords = {k1}
  Links = {l1}
  Edits = {e1}
  Handlers = {h1, h2}
  Limit = 1
SPECIFICATION Spec
PROPERTY EditDecidedOnce
CHECK_DEADLOCK FALSE
