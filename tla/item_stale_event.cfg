SPECIFICATION Spec
CONSTANTS
  NoItem = NoItem
  Items = {i1, i2}
  MaxAsks = 2
  MaxFailures = 1
  Users = {{"pause", "resume"}}
SYMMETRY Symmetry
INVARIANTS ProcessEventHasItem
CHECK_DEADLOCK FALSE
