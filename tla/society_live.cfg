SPECIFICATION Spec
CONSTANTS
  a1 = a1  a2 = a2  a3 = a3
  homeA = homeA  homeB = homeB  cafe = cafe
  hhA = hhA  hhB = hhB
  Agent = {a1, a2, a3}
  Household = {hhA}
  Location = {homeA, cafe}
  Object = {"seat"}
  Behavior = {"idle", "eat_at_cafe", "invite_join", "buy_groceries"}
  Home <- LiveHome
  Member <- LiveMember
  InitialLocation <- LiveStart
  InitialMoney <- LiveMoney
  InitialFood <- LiveFood
  Capacity <- LiveCapacity
  Travel <- MCTravel
  At <- LiveAt
  SlotCount <- LiveSlots
  TypeOf <- LiveTypes
  SharedTypes = {"SOFA", "DINING_SEAT"}
  Rule <- LiveRules
  FoodLow = 1
  Live = TRUE
  MovementTimeout = 1
  ExpirySlack = 1
  Cancels = TRUE
  MaxMinute = 3
INVARIANTS
  PromisesCovered
  ArrivalBarrier
  NobodyStranded
PROPERTIES
  HeldWhole
  SettledOnce
CHECK_DEADLOCK FALSE
