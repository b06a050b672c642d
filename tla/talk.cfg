SPECIFICATION Spec
CONSTANTS
  Agent = {n1, n2, n3}
  Place = {cafe}
  Work <- MCWork
  ShiftEnds = {1}
  LoadTension = 50
  Social = {"chat", "share_event", "confront", "invite_join", "end_conversation"}
  Duration <- MCDuration
  Cooldown <- MCCooldown
  TensionDelta <- MCTensionDelta
  Importance <- MCImportance
  Loud <- MCLoud
  Negative <- MCNegative
  Sore = 300
  Angry = 500
  GreetAgain = 4
  Fresh = 3
  TravelTime = 1
  StartTension = 0
  MaxEvents = 5
  MaxMinute = 4
SYMMETRY Symmetry
INVARIANTS
  RumourHasOrigin
  ConversationsWhole
  NothingTwice
CHECK_DEADLOCK FALSE
