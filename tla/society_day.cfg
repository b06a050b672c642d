SPECIFICATION Spec
CONSTANTS
  home = home  shop = shop  cafe = cafe
  n1 = n1  n2 = n2
  Agent = {n1, n2}
  Household = {"household"}
  Location = {home, shop, cafe}
  Need = {"hunger", "energy"}
  NeedMax = 10
  Behavior = {"idle", "sleep", "eat_at_home", "work_shift", "take_break", "buy_groceries",
              "eat_at_cafe"}
  Catalog <- MCCatalog
  Rank <- MCRank
  Travel <- MCTravel
  Opens <- MCOpens
  Closes <- MCCloses
  DayLength = 12
  Hour = 2
  Lead = 2
  BreakFrom = 2
  BreakUntil = 1
  LongestNap = 2
  Crisis <- MCCrisis
  Floor <- MCFloor
  Priority <- MCPriority
  FoodLow = 1
  MaxCandidates = 5
  Weights <- MCWeights
  Discipline = 50
  Frugality = 50
  Noise = 1
  Member <- MCMember
  Home <- MCHome
  Work <- MCWork
  Slots <- MCSlots
  WeekLength = 2
  Weekdays = {0, 1}
  ShiftStart = 4
  ShiftEnd = 9
  Grace = 1
  Decay <- MCDecay
  Wage = 2
  MoneyLow = 1
  StartNeeds <- MCStartNeeds
  StartMoney <- MCMoney
  StartFood <- MCFood
  TensionMax = 3
  MaxFailures = 1
  MaxMinute = 14
INVARIANTS
  NeverFails
  BreakKeepsWage
PROPERTIES
  BooksBalance
  NeedsHeeded
CHECK_DEADLOCK FALSE
