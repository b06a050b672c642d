SPECIFICATION Spec
CONSTANTS
  a1 = a1  a2 = a2  a3 = a3
  homeA = homeA  homeB = homeB  cafe = cafe
  hhA = hhA  hhB = hhB
  Agent = {a1, a2, a3}
  Household = {hhA, hhB}
  Location = {homeA, homeB, cafe}
  Object = {"tv", "sofa", "seat"}
  Behavior = {"idle", "watch_tv", "eat_at_cafe", "invite_join", "work_shift"}
  Home <- SocialHome
  Member <- SocialMember
  InitialLocation <- SocialStart
  InitialMoney <- SocialMoney
  InitialFood <- SocialFood
  Capacity <- SocialCapacity
  Travel <- MCTravel
  At <- SocialAt
  SlotCount <- SocialSlots
  TypeOf <- SocialTypes
  SharedTypes = {"SOFA", "DINING_SEAT"}
  Rule <- SocialRules
  FoodLow = 1
  Live = FALSE
  MovementTimeout = 1
  ExpirySlack = 1
  Cancels = FALSE
  MaxMinute = 4
INVARIANTS
  ClaimsAgree
  NeverRaises
PROPERTIES
  JointReplacesInvitation
CHECK_DEADLOCK FALSE
