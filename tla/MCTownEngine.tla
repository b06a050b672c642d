---------------------------- MODULE MCTownEngine ----------------------------
(* A home and a shop that closes when the shift ends, days of eight minutes  *)
(* with a shift on every other one, needs on a scale of four.                *)
EXTENDS TownEngine, TLC

CONSTANTS home, shop

MCTravel == [l \in Location |-> [k \in Location |-> IF l = k THEN 0 ELSE 1]]
MCOpens == (home :> 0) @@ (shop :> 3)
MCCloses == (home :> DayLength) @@ (shop :> 6)
MCDecay == ("energy" :> 1) @@ ("hunger" :> 1)
MCEffect == [b \in Behaviors |->
               ("energy" :> IF b = "sleep" THEN 2 ELSE IF b = "work_shift" THEN -1 ELSE 0)
               @@ ("hunger" :> 0)]
MCMealGain == ("energy" :> 0) @@ ("hunger" :> 3)
MCCrisis == ("energy" :> 1) @@ ("hunger" :> 0)
MCBase == ("idle" :> 2) @@ ("sleep" :> 3) @@ ("eat_at_home" :> 1) @@ ("work_shift" :> 3)
MCStartNeeds == [n \in Need |-> NeedMax]
=============================================================================
