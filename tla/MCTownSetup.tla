----------------------------- MODULE MCTownSetup -----------------------------
\* Three npcs in two homes, two of them on the morning shift of one cafe.
EXTENDS TownSetup

MCMembersOf == [h1 |-> {1, 2}, h2 |-> {3}]
MCHomeOf == [h1 |-> "home_a", h2 |-> "home_b"]
MCJobOf ==
  [a \in 1 .. 3 |-> [place |-> "cafe_bar",
                     tag |-> IF a = 3 THEN "CAFE_EVENING" ELSE "CAFE_MORNING",
                     shift |-> IF a = 3 THEN "evening" ELSE "morning"]]
MCStations == [cafe_bar |-> [CAFE_MORNING |-> 2, CAFE_EVENING |-> 1]]
MCCapacity == [cafe_bar |-> 2]

HouseholdIn(a) == IF a = 3 THEN "h2" ELSE "h1"
TypeOf(tags, slots) == [tags |-> tags, slots |-> slots]

MCCatalog ==
  [npcs |-> [a \in 1 .. 3 |->
     [household |-> HouseholdIn(a), home |-> MCHomeOf[HouseholdIn(a)],
      place |-> MCJobOf[a].place, tag |-> MCJobOf[a].tag, schedule |-> a]],
   households |-> [h \in {"h1", "h2"} |->
     [members |-> MCMembersOf[h], home |-> MCHomeOf[h]]],
   schedules |-> [a \in 1 .. 3 |->
     [entry |-> a, place |-> MCJobOf[a].place, shift |-> MCJobOf[a].shift]],
   travel |-> [p \in Place |-> [q \in Place \ {p} |-> 1]],
   types |-> [BED |-> TypeOf({"SLEEP"}, 1),
              FRIDGE |-> TypeOf({"FOOD_SOURCE_HOME"}, 1),
              DINING_SEAT |-> TypeOf({"SIT", "EAT"}, 1),
              SOFA |-> TypeOf({"SIT", "RELAX"}, 2),
              WORKSTATION |-> TypeOf({"WORK", "CAFE_MORNING", "CAFE_EVENING"}, 1),
              CONVERSATION_ANCHOR |-> TypeOf({"SOCIAL_POSITION"}, 2)],
   shows |-> [sleep |-> "SLEEP", eat_at_home |-> "EAT", relax_at_home |-> "SIT",
              work_shift |-> "WORK_STANDING", chat |-> "TALK_NEUTRAL",
              share_event |-> "TALK_NEUTRAL"],
   twice |-> FALSE]

Beds(t) == {<<"home_a", t, 1>>, <<"home_a", t, 2>>, <<"home_b", t, 1>>}
Shared(t) == {<<"home_a", t, 1>>, <<"home_b", t, 1>>}
MCObjects ==
  Beds("BED") \cup Beds("DINING_SEAT") \cup Shared("FRIDGE") \cup Shared("SOFA")
  \cup {<<"cafe_bar", "WORKSTATION", n>> : n \in 1 .. 3}
  \cup {<<"cafe_bar", "CONVERSATION_ANCHOR", 1>>}

MCManifest ==
  [objects |-> [o \in MCObjects |->
     [type |-> o[2], place |-> o[1], slots |-> MCCatalog.types[o[2]].slots,
      tags |-> IF o[2] = "WORKSTATION" THEN {"WORK", MCJobOf[o[3]].tag}
               ELSE MCCatalog.types[o[2]].tags,
      shows |-> CASE o[2] = "BED" -> {"SLEEP"}
                  [] o[2] \in {"DINING_SEAT", "FRIDGE"} -> {"EAT"}
                  [] o[2] = "SOFA" -> {"SIT"}
                  [] o[2] = "WORKSTATION" -> {"WORK_STANDING"}
                  [] OTHER -> {"TALK_NEUTRAL"},
      owner |-> CASE o[2] = "WORKSTATION" -> o[3]
                  [] o[2] \in {"BED", "DINING_SEAT"} ->
                       (IF o[1] = "home_a" THEN o[3] ELSE 3)
                  [] OTHER -> Nobody]],
   places |-> Place, views |-> 1 .. 3,
   animations |-> Animation, twice |-> FALSE]

MCLines == Social \X {"DEFAULT"} \cup Accepting \X {"ACCEPTED", "REJECTED"}
=============================================================================
