SPECIFICATION BridgeSpec
CONSTANTS
  home = home  shop = shop
  Location = {home, shop}
  Home = home
  Work = shop
  Travel <- MCTravel
  Opens <- MCOpens
  Closes <- MCCloses
  Need = {"energy"}
  NeedMax = 1
  Decay <- MCDecay
  Effect <- MCEffect
  MealGain <- MCMealGain
  Crisis <- MCCrisis
  Base <- MCBase
  SleepMinimum = 1
  DayLength = 6
  WeekLength = 3
  Weekdays = {0, 1}
  ShiftStart = 1
  ShiftEnd = 4
  Grace = 1
  Lead = 1
  Wage = 2
  StartNeeds <- MCStartNeeds
  StartMoney = 1
  StartFood = {0}
  Timeout = 2
  MaxMinute = 3
  MaxConn = 2
  MaxInputs = 2
INVARIANTS
  GatesAgree
  EvidenceTrue
  ToldTrue
CHECK_DEADLOCK FALSE
