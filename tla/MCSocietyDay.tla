---------------------------- MODULE MCSocietyDay ----------------------------
(* Two coworkers of one household, a day of twelve minutes with a shift of   *)
(* five: work comes in stretches of two, the workplace opens with the shift, *)
(* needs are on a scale of ten.  Fridge and counter serve one at a time;     *)
(* who starts hungry has nothing left at its first decision.                 *)
EXTENDS SocietyDay, TLC

CONSTANTS home, shop, cafe, n1, n2

MCNeed == {"hunger", "energy"}
MCTravel == [l \in Location |-> [k \in Location |-> IF l = k THEN 0 ELSE 1]]
MCOpens == (home :> 0) @@ (shop :> ShiftStart) @@ (cafe :> 0)
MCCloses == (home :> DayLength) @@ (shop :> DayLength) @@ (cafe :> ShiftStart)
Feeds(n) == [x \in MCNeed |-> IF x = "hunger" THEN n ELSE 0]
Rests(n) == [x \in MCNeed |-> IF x = "energy" THEN n ELSE 0]
Plain == [base |-> 1, variance |-> 0, dest |-> "HERE", uses |-> {}, axis |-> "none",
          below |-> 0, price |-> 0, food |-> 0, gain |-> 0, mood |-> 0,
          delta |-> Feeds(0), during |-> Feeds(0)]
MCCatalog ==
  ("idle" :> Plain)
  @@ ("sleep" :> [Plain EXCEPT !.base = 3, !.variance = 1, !.dest = "HOME", !.uses = {"bed"},
                    !.axis = "energy", !.below = 10, !.delta = Rests(5), !.during = Rests(2)])
  @@ ("eat_at_home" :> [Plain EXCEPT !.dest = "HOME", !.uses = {"fridge"}, !.food = 1,
                    !.delta = Feeds(6)])
  @@ ("work_shift" :> [Plain EXCEPT !.base = 2, !.dest = "WORK", !.uses = {"workstation"},
                    !.delta = Rests(-2), !.during = Rests(-1)])
  @@ ("take_break" :> [Plain EXCEPT !.variance = 1, !.dest = "WORK", !.uses = {"stool"},
                    !.delta = Rests(2)])
  @@ ("eat_at_cafe" :> [Plain EXCEPT !.dest = cafe, !.uses = {"counter"}, !.axis = "hunger",
                    !.below = 8, !.price = 2, !.delta = Feeds(5)])
  @@ ("buy_groceries" :> [Plain EXCEPT !.dest = shop, !.price = 4, !.gain = 2])
MCRank == ("idle" :> 1) @@ ("sleep" :> 2) @@ ("eat_at_home" :> 3) @@ ("work_shift" :> 4)
          @@ ("take_break" :> 5) @@ ("buy_groceries" :> 6) @@ ("eat_at_cafe" :> 7)
MCCrisis == ("hunger" :> 1) @@ ("energy" :> 1)
MCFloor == ("hunger" :> 4) @@ ("energy" :> 0)
MCPriority == ("hunger" :> 5) @@ ("energy" :> 4)
MCWeights == [needs |-> 100, schedule |-> 120, money |-> 50, travel |-> 35, repetition |-> 25,
              idle |-> 30, recovery |-> 500, supply |-> 3000, bar |-> 10, block |-> 10000]
MCSlots == ("bed" :> 2) @@ ("fridge" :> 1) @@ ("counter" :> 1) @@ ("workstation" :> 2) @@ ("stool" :> 1)
MCMember == [a \in Agent |-> "household"]
MCHome == [a \in Agent |-> home]
MCWork == [a \in Agent |-> shop]
MCDecay == ("hunger" :> 2) @@ ("energy" :> 1)
MCStartNeeds == {[n \in MCNeed |-> 10], ("hunger" :> 2) @@ ("energy" :> 9)}
MCMoney == [h \in Household |-> 4]
MCFood == [h \in Household |-> 2]
=============================================================================
