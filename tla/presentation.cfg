SPECIFICATION Spec
CONSTANTS
  n1 = n1  n2 = n2  home = home  cafe = cafe  s1 = s1  s2 = s2
  Agent = {n1, n2}
  Place = {home, cafe}
  Slot = {s1, s2}
  PlaceOf <- MCPlaceOf
  Purse = 1
  MaxActions = 2
  MaxVersion = 4
  MaxLag = 0
  MaxUp = 1
  MaxCuts = 1
SYMMETRY Symmetry
INVARIANTS
  MessagesWellFormed
  NothingDropped
  ClientShowsTown
CHECK_DEADLOCK FALSE
