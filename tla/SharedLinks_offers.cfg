CONSTANTS
  Users = {u1, u2, u3}
  Keywords = {k1}
  URLs = {x}
  Shares = {s1, s2, s3}
  Handlers = {h1, h2}
  None = None
  Limit = 1
  MaxRequests = 5
SPECIFICATION Spec
INVARIANTS TypeOK LimitsHoldUnlessCrowded
PROPERTY AcceptedIsCopied
SYMMETRY Symmetric
CHECK_DEADLOCK FALSE
