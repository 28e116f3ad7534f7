CONSTANTS
  People = {ann, bob}
  Rows = {r1, r2}
  Slugs = {o1}
  Handlers = {h1, h2}
  None = None
  ann = ann
  r1 = r1
  Founder <- AnnFounds
  HasGroupRoleMapping = TRUE
  MaxRequests = 4
SPECIFICATION Spec
INVARIANTS TypeOK RoleAgreesWithGroups RoleFitsOrganization AnAdminRemains
SYMMETRY Symmetric
CHECK_DEADLOCK FALSE
