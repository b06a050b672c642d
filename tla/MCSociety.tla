----------------------------- MODULE MCSociety -----------------------------
(* Small towns for Society: two or three agents, two homes and a cafe.      *)
EXTENDS Society, TLC

CONSTANTS a1, a2, a3, homeA, homeB, cafe, hhA, hhB

rule(dest, needs, duration, money, food, gain, social, invites) ==
  [dest |-> dest, needs |-> needs, duration |-> duration, money |-> money,
   food |-> food, gain |-> gain, social |-> social, invites |-> invites,
   startsAt |-> 0]

MCTravel == [l \in Location |-> [m \in Location |->
               IF l = m THEN 0 ELSE IF cafe \in {l, m} THEN 1 ELSE 2]]

-----------------------------------------------------------------------------
(* A social town: invitations to television at home and to a cafe meal.     *)

SocialHome == (a1 :> homeA) @@ (a2 :> homeA) @@ (a3 :> homeB)
SocialMember == (a1 :> hhA) @@ (a2 :> hhA) @@ (a3 :> hhB)
SocialStart == (a1 :> homeA) @@ (a2 :> cafe) @@ (a3 :> cafe)
SocialCapacity == (homeA :> 2) @@ (homeB :> 2) @@ (cafe :> 2)
SocialAt == ("tv" :> homeA) @@ ("sofa" :> homeA) @@ ("seat" :> cafe)
SocialSlots == ("tv" :> 1) @@ ("sofa" :> 2) @@ ("seat" :> 2)
SocialTypes == ("tv" :> "TV") @@ ("sofa" :> "SOFA") @@ ("seat" :> "DINING_SEAT")
SocialRules ==
  ("idle" :> rule("HERE", {}, 1, 0, 0, 0, FALSE, {})) @@
  ("watch_tv" :> rule("HOME", {"TV", "SOFA"}, 1, 0, 0, 0, FALSE, {})) @@
  ("eat_at_cafe" :> rule(cafe, {"DINING_SEAT"}, 2, 1, 0, 0, FALSE, {})) @@
  ("work_shift" :> [rule(cafe, {}, 2, 0, 0, 0, FALSE, {}) EXCEPT !.startsAt = 3]) @@
  ("invite_join" :> rule("HERE", {}, 1, 0, 0, 0, TRUE, {"watch_tv", "eat_at_cafe"}))
SocialMoney == (hhA :> 1) @@ (hhB :> 1)
SocialFood == (hhA :> 0) @@ (hhB :> 0)

-----------------------------------------------------------------------------
(* A live town: three agents, one cafe they walk to, rooms for exactly the  *)
(* agents that start in them.                                               *)

LiveStart == (a1 :> homeA) @@ (a2 :> homeA) @@ (a3 :> cafe)
LiveCapacity == (homeA :> 2) @@ (cafe :> 3)
LiveHome == [p \in Agent |-> homeA]
LiveMember == [p \in Agent |-> hhA]
LiveAt == ("seat" :> cafe)
LiveSlots == ("seat" :> 2)
LiveTypes == ("seat" :> "DINING_SEAT")
LiveRules ==
  ("idle" :> rule("HERE", {}, 1, 0, 0, 0, FALSE, {})) @@
  ("eat_at_cafe" :> rule(cafe, {"DINING_SEAT"}, 1, 1, 0, 0, FALSE, {})) @@
  ("buy_groceries" :> rule(cafe, {}, 1, 1, 0, 2, FALSE, {})) @@
  ("invite_join" :> rule("HERE", {}, 1, 0, 0, 0, TRUE, {"eat_at_cafe"}))
LiveMoney == (hhA :> 2)
LiveFood == (hhA :> 0)

=============================================================================
