SPECIFICATION Spec
CONSTANTS
  home = home  shop = shop
  Location = {home, shop}
  Home = home
  Work = shop
  Travel <- MCTravel
  Opens <- MCOpens
  Closes <- MCCloses
  Need = {"energy", "hunger"}
  NeedMax = 4
  Decay <- MCDecay
  Effect <- MCEffect
  MealGain <- MCMealGain
  Crisis <- MCCrisis
  Base <- MCBase
  SleepMinimum = 2
  DayLength = 8
  WeekLength = 3
  Weekdays = {0, 1}
  ShiftStart = 3
  ShiftEnd = 6
  Grace = 1
  Lead = 2
  Wage = 2
  StartNeeds <- MCStartNeeds
  StartMoney = 1
  StartFood = {0, 1}
  Timeout = 2
  MaxMinute = 14
INVARIANTS
  NeverRaises
  BooksBalance
  ShiftsRight
PROPERTIES
  SettlementFinal
CHECK_DEADLOCK FALSE
