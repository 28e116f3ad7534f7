CONSTANTS
  mod = mod
  omod = omod
  author = author
  org1 = org1
  org2 = org2
  Users = {mod, omod, author}
  Orgs = {org1, org2}
  Global = Global
  Nobody = Nobody
  Role <- OrgRole
  Organization <- OrgOrg
  Keywords = {k1}
  Links = {l1, l2}
  Edits = {}
  Handlers = {h1}
  Limit = 1
SPECIFICATION Spec
INVARIANTS ActiveIsReviewed ResolutionAgreesWithSearch BrowseIsConsistent
  QueuesMatchPermissions ManagementListsWhatItManages
PROPERTY DeletionIsAuthorized
SYMMETRY Symmetric
CHECK_DEADLOCK FALSE
