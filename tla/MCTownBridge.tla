---------------------------- MODULE MCTownBridge ----------------------------
(* Two connections to a town whose shift begins at minute one.               *)
EXTENDS TownBridge, TLC

CONSTANTS home, shop

MCTravel == [l \in Location |-> [k \in Location |-> IF l = k THEN 0 ELSE 1]]
MCOpens == [l \in Location |-> 0]
MCCloses == [l \in Location |-> DayLength]
MCDecay == ("energy" :> 1)
MCEffect == [b \in Behaviors |-> ("energy" :> IF b = "sleep" THEN 2 ELSE 0)]
MCMealGain == ("energy" :> 0)
MCCrisis == ("energy" :> 0)
MCBase == [b \in Behaviors |-> IF b = "work_shift" THEN 3 ELSE 2]
MCStartNeeds == [n \in Need |-> NeedMax]
=============================================================================
