CONSTANTS
  Links = {l1, l2}
  URLs = {x, y}
  Handlers = {h1}
  None = None
  BatchSize = 1
  MaxEdits = 2
SPECIFICATION FairSpec
INVARIANTS TypeOK WrongOnlyIfOvertaken
PROPERTY EveryLinkIsChecked
