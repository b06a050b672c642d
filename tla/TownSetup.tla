------------------------------ MODULE TownSetup ------------------------------
(***************************************************************************)
(* How a town comes to run: the catalogs are read and validated            *)
(*   src/python/town_core/catalogs/loader.py, m3_loader.py,                *)
(* the objects of the world are made of them                               *)
(*   simulation/headless_fixture.py (M1), society/initialization.py (M3),  *)
(* a client's scene is validated against that world                        *)
(*   bridge/registry.py (M2), bridge/m3_registry.py (M3),                  *)
(* and then agents sleep, eat, rest and work in objects the rules choose   *)
(* (decision/candidates.py, society/rules.py) and the client has to find.  *)
(*                                                                         *)
(* Each file may have been edited: one entry rewritten in any way its data *)
(* type allows, dropped, or two entries exchanged.  The town is scaled     *)
(* down: the tables frozen in the loaders are constants, six object types  *)
(* and six behaviours stand for fifteen and twenty-two, FRIDGE stands for  *)
(* the shower and the television too, CONVERSATION_ANCHOR for the public   *)
(* capacities.  An object id is <<place, type, number>>, as in             *)
(* home_a_bed_01.  Prices, durations, needs and prompts decide nothing     *)
(* here and are left out.                                                  *)
(***************************************************************************)
EXTENDS Naturals, FiniteSetsExt, TLC

CONSTANTS
  Agent, Active,      \* npc numbers; the one npc of M1 and M2
  Household, Home, Work,
  MembersOf, HomeOf,  \* EXPECTED_HOUSEHOLDS: members and home of each
  JobOf,              \* EXPECTED_WORK: place, tag and shift of each agent
  Stations, Capacity, \* what the manifest must offer at the places of Work
  Catalog, Manifest, Lines,  \* the files as the repository has them
  MaxEdits            \* bound for model checking: files edited

Place == Home \cup Work
Nobody == 0

ASSUME TownConstants ==
  /\ Agent \subseteq Nat \ {Nobody} /\ Active \in Agent
  /\ MembersOf \in [Household -> SUBSET Agent]
  /\ HomeOf \in [Household -> Home]
  /\ \A g, h \in Household : g # h => HomeOf[g] # HomeOf[h]
  /\ IsFiniteSet(Agent) /\ MaxEdits \in Nat

Type == {"BED", "FRIDGE", "DINING_SEAT", "SOFA", "WORKSTATION",
         "CONVERSATION_ANCHOR"}
Tag == {"SLEEP", "FOOD_SOURCE_HOME", "SIT", "EAT", "RELAX", "WORK",
        "CAFE_MORNING", "CAFE_EVENING", "SOCIAL_POSITION"}
Animation == {"SLEEP", "EAT", "SIT", "WORK_STANDING", "TALK_NEUTRAL"}
Bodily == {"sleep", "eat_at_home", "relax_at_home", "work_shift"}
Accepting == {"chat"}
Social == Accepting \cup {"share_event"}

VARIABLES
  stage,     \* "catalogs", "manifest", "scene", "running" or "refused"
  edition,   \* "M1" (with the M2 bridge) or "M3"
  edits,     \* files edited so far
  catalog, manifest, lines,
  objects,   \* the objects of the world
  scene,     \* the registry the client was accepted with
  held       \* what each agent is doing, and in which slots

vars == <<stage, edition, edits, catalog, manifest, lines, objects, scene, held>>

NotRead == [read |-> FALSE]
Idle == [doing |-> "nothing", slots |-> {}]

-----------------------------------------------------------------------------
(* What the data types of the files allow.                                 *)

IsPartial(f, S, T) == DOMAIN f \subseteq S /\ f \in [DOMAIN f -> T]

NpcConfig == [household : Household, home : Place, place : Place,
              tag : {"CAFE_MORNING", "CAFE_EVENING"}, schedule : Agent]
HouseholdConfig == [members : (SUBSET Agent) \ {{}}, home : Place]
ScheduleEntry == [entry : Agent, place : Place, shift : {JobOf[a].shift : a \in Agent}]
ObjectTypeConfig == [tags : (SUBSET Tag) \ {{}}, slots : Nat \ {0}]
IsCatalogFile(c) ==
  /\ c = [npcs |-> c.npcs, households |-> c.households, schedules |-> c.schedules,
          travel |-> c.travel, types |-> c.types, shows |-> c.shows, twice |-> c.twice]
  /\ IsPartial(c.npcs, Agent, NpcConfig)
  /\ c.households \in [Household -> HouseholdConfig]
  /\ c.schedules \in [Agent -> ScheduleEntry]
  /\ \A p \in Place : IsPartial(c.travel[p], Place, Nat)
  /\ c.types \in [Type -> ObjectTypeConfig]
  /\ c.shows \in [Bodily \cup Social -> Animation]
  /\ c.twice \in BOOLEAN

SemanticInstance ==
  [type : Type, place : Place, tags : (SUBSET Tag) \ {{}}, slots : Nat \ {0},
   shows : (SUBSET Animation) \ {{}}, owner : Agent \cup {Nobody}]
IsManifestFile(m) ==
  /\ m = [objects |-> m.objects, views |-> m.views, places |-> m.places,
          animations |-> m.animations, twice |-> m.twice]
  /\ IsPartial(m.objects, Place \X Type \X Nat, SemanticInstance)
  /\ IsFiniteSet(DOMAIN m.objects)

\* The repository's own files; the animations M2 spells out are those its
\* catalog names.
ASSUME FilesOfTheTown ==
  /\ IsCatalogFile(Catalog) /\ IsManifestFile(Manifest)
  /\ Catalog.shows["sleep"] = "SLEEP" /\ Catalog.shows["eat_at_home"] = "EAT"
  /\ Catalog.shows["work_shift"] = "WORK_STANDING"

-----------------------------------------------------------------------------
(* Edits.                                                                  *)

Without(f, x) == [y \in DOMAIN f \ {x} |-> f[y]]
OneOff(S, All) == {S \ {x} : x \in S} \cup {S \cup {x} : x \in All \ S}

CatalogEdits(c) ==
  {[c EXCEPT !.npcs[a] = n] : a \in Agent, n \in NpcConfig}
  \cup {[c EXCEPT !.npcs = Without(@, a)] : a \in Agent}
  \cup {[c EXCEPT !.households[h] = x] : h \in Household, x \in HouseholdConfig}
  \cup {[c EXCEPT !.schedules[a] = e] : a \in Agent, e \in ScheduleEntry}
  \cup {[c EXCEPT !.travel[p] = (q :> t) @@ @] :
          p \in Place, q \in Place, t \in 1 .. 2}
  \cup {[c EXCEPT !.travel[p] = Without(@, q)] : p \in Place, q \in Place}
  \cup (UNION {{[c EXCEPT !.types[t].tags = s] : s \in OneOff(c.types[t].tags, Tag) \ {{}}}
                 : t \in Type})
  \cup {[c EXCEPT !.types[t].slots = n] : t \in Type, n \in 1 .. 3}
  \cup {[c EXCEPT !.shows[b] = x] : b \in Bodily \cup Social, x \in Animation}
  \cup {[c EXCEPT !.twice = TRUE]}

\* What may be wrong with one object of the manifest.
InstanceEdits(i) ==
  {[i EXCEPT !.type = t] : t \in Type}
  \cup {[i EXCEPT !.place = p] : p \in Place}
  \cup {[i EXCEPT !.tags = s] : s \in OneOff(i.tags, Tag) \ {{}}}
  \cup {[i EXCEPT !.slots = n] : n \in 1 .. 3}
  \cup {[i EXCEPT !.shows = s] : s \in OneOff(i.shows, Animation) \ {{}}}
  \cup {[i EXCEPT !.owner = a] : a \in Agent \cup {Nobody}}

OwnersExchanged(m, o, p) ==
  [m EXCEPT !.objects[o].owner = m.objects[p].owner,
            !.objects[p].owner = m.objects[o].owner]

ManifestEdits(m) ==
  (UNION {{[m EXCEPT !.objects[o] = i] : i \in InstanceEdits(m.objects[o])}
            : o \in DOMAIN m.objects})
  \cup {[m EXCEPT !.objects = Without(@, o)] : o \in DOMAIN m.objects}
  \cup {OwnersExchanged(m, o, p) : o \in DOMAIN m.objects, p \in DOMAIN m.objects}
  \cup {[m EXCEPT !.views = s] : s \in OneOff(m.views, Agent)}
  \cup {[m EXCEPT !.places = s] : s \in OneOff(m.places, Place)}
  \cup {[m EXCEPT !.animations = s] : s \in OneOff(m.animations, Animation)}
  \cup {[m EXCEPT !.twice = TRUE]}

LinesEdits(d) == OneOff(d, Social \X {"DEFAULT", "ACCEPTED", "REJECTED"})

RegisteredEdits(r) ==
  {[r EXCEPT !.type = t] : t \in Type}
  \cup {[r EXCEPT !.place = p] : p \in Place}
  \cup {[r EXCEPT !.tags = s] : s \in OneOff(r.tags, Tag) \ {{}}}
  \cup {[r EXCEPT !.enabled = FALSE]}
  \cup {[r EXCEPT !.slots = [n \in s |-> r.slots[CHOOSE k \in DOMAIN r.slots : TRUE]]]
          : s \in (SUBSET (0 .. 2)) \ {{}}}
  \cup (UNION {{[r EXCEPT !.slots[n] = s] : s \in OneOff(r.slots[n], Animation)}
                 : n \in DOMAIN r.slots})

SceneEdits(s) ==
  (UNION {{[s EXCEPT !.objects[o] = r] : r \in RegisteredEdits(s.objects[o])}
            : o \in DOMAIN s.objects})
  \cup {[s EXCEPT !.objects = Without(@, o)] : o \in DOMAIN s.objects}
  \cup {[s EXCEPT !.places = x] : x \in OneOff(s.places, Place)}
  \cup {[s EXCEPT !.views = x] : x \in OneOff(s.views, Agent)}
  \cup {[s EXCEPT !.animations = x] : x \in OneOff(s.animations, Animation)}
  \cup {[s EXCEPT !.twice = TRUE]}

-----------------------------------------------------------------------------
(* The base catalog: _validate_cross_references.                           *)

IdsFit(c) ==
  /\ ~c.twice
  /\ DOMAIN c.npcs = Agent /\ DOMAIN c.households = Household
  /\ DOMAIN c.travel = Place /\ DOMAIN c.schedules = Agent
  /\ DOMAIN c.types = Type

TravelFits(c) ==
  \A p \in Place :
    /\ DOMAIN c.travel[p] = Place \ {p}
    /\ \A q \in Place \ {p} :
         p \in DOMAIN c.travel[q] /\ c.travel[q][p] = c.travel[p][q]

HouseholdsFit(c) ==
  /\ \A h \in Household :
       /\ c.households[h].members = MembersOf[h]
       /\ c.households[h].home = HomeOf[h]
  /\ UNION {c.households[h].members : h \in Household} = Agent
  /\ \A g, h \in Household :
       g # h => c.households[g].members \cap c.households[h].members = {}

\* Slip: an npc's household need not list the npc.
NotReciprocal(c, a) == c.households[c.npcs[a].household].home \in Home
Reciprocal(c, a) ==
  LET n == c.npcs[a] IN
  /\ n.household \in Household /\ a \in c.households[n.household].members
  /\ c.households[n.household].home = n.home

NpcsFit(c) ==
  \A a \in Agent :
    LET n == c.npcs[a]
        e == c.schedules[n.schedule]
    IN /\ Reciprocal(c, a)
       /\ e.entry = a /\ e.place = n.place
       /\ [place |-> n.place, tag |-> n.tag, shift |-> e.shift] = JobOf[a]

CatalogAccepted(c) == IdsFit(c) /\ TravelFits(c) /\ HouseholdsFit(c) /\ NpcsFit(c)

-----------------------------------------------------------------------------
(* The manifest of M3 and the dialogue lines.                              *)

Of(objs, place, type) ==
  {o \in DOMAIN objs : objs[o].place = place /\ objs[o].type = type}

SlotsOf(objs, S) == MapThenSumSet(LAMBDA o : objs[o].slots, S)

InstanceFits(i, c) ==
  /\ i.tags \subseteq c.types[i.type].tags
  /\ i.slots = c.types[i.type].slots

\* Slip: the numbers of beds and residents agree, whoever owns them.
OneEachByNumber(objs, S, who) == Cardinality(S) = Cardinality(who)
OneEach(objs, S, who) ==
  /\ {objs[o].owner : o \in S} = who
  /\ Cardinality(S) = Cardinality(who)

HomeFits(objs, residents, home) ==
  /\ OneEach(objs, Of(objs, home, "BED"), residents)
  /\ OneEach(objs, Of(objs, home, "DINING_SEAT"), residents)
  /\ SlotsOf(objs, Of(objs, home, "FRIDGE")) >= 1
  /\ SlotsOf(objs, Of(objs, home, "SOFA")) >= Cardinality(residents)

StationsFit(objs, c) ==
  /\ \A w \in Work, t \in {"CAFE_MORNING", "CAFE_EVENING"} :
       SlotsOf(objs, {o \in Of(objs, w, "WORKSTATION") :
                        {"WORK", t} \subseteq objs[o].tags}) = Stations[w][t]
  /\ \A a \in Agent :
       LET own == {o \in DOMAIN objs : /\ objs[o].type = "WORKSTATION"
                                       /\ objs[o].owner = a}
       IN /\ Cardinality(own) = 1
          /\ \A o \in own : /\ objs[o].place = c.npcs[a].place
                            /\ c.npcs[a].tag \in objs[o].tags

PublicFits(objs) ==
  \A w \in Work :
    /\ SlotsOf(objs, Of(objs, w, "CONVERSATION_ANCHOR")) >= Capacity[w]
    /\ SlotsOf(objs, {o \in DOMAIN objs : /\ objs[o].place = w
                                          /\ "SOCIAL_POSITION" \in objs[o].tags}) >= 2

Required(c) == {c.shows[b] : b \in Bodily \cup Social}

ManifestAccepted(m, c) ==
  LET objs == m.objects IN
  /\ ~m.twice
  /\ m.places = Place /\ m.views = Agent
  /\ {objs[o].type : o \in DOMAIN objs} = Type
  /\ \A o \in DOMAIN objs : InstanceFits(objs[o], c)
  /\ \A h \in Household :
       HomeFits(objs, c.households[h].members, c.households[h].home)
  /\ StationsFit(objs, c)
  /\ PublicFits(objs)
  /\ m.animations = Required(c)
  /\ Required(c) \subseteq UNION {objs[o].shows : o \in DOMAIN objs}

LinesAccepted(d) ==
  d = Social \X {"DEFAULT"} \cup Accepting \X {"ACCEPTED", "REJECTED"}

\* render: the line an action ends with, and select_background_dialogue_line.
LineKey(b, accepted) ==
  <<b, IF b \notin Accepting THEN "DEFAULT"
       ELSE IF accepted THEN "ACCEPTED" ELSE "REJECTED">>

-----------------------------------------------------------------------------
(* The objects of the world.                                               *)

Rank(a, S) == Cardinality({b \in S : b <= a})

\* M1 numbers the beds and seats of a home by its members, the workstations
\* of a place by those who work there.
Staff(c, a) == {b \in Agent : c.npcs[b].place = c.npcs[a].place}
Made(c, place, type, n, owner, tags) ==
  [id |-> <<place, type, n>>, place |-> place, type |-> type,
   owner |-> owner, tags |-> tags, slots |-> c.types[type].slots]
SharedObjects(c) ==
  {Made(c, c.households[h].home, "FRIDGE", 1, Nobody, c.types["FRIDGE"].tags)
     : h \in Household}
HomeObjects(c) ==
  {Made(c, c.households[m[1]].home, t, Rank(m[2], c.households[m[1]].members), m[2],
        c.types[t].tags)
     : m \in {m \in Household \X Agent : m[2] \in c.households[m[1]].members},
       t \in {"BED", "DINING_SEAT"}}
WorkObjects(c) ==
  {Made(c, c.npcs[a].place, "WORKSTATION", Rank(a, Staff(c, a)), a, {"WORK", c.npcs[a].tag})
     : a \in Agent}
FixtureObjects(c) == SharedObjects(c) \cup HomeObjects(c) \cup WorkObjects(c)

Fixture(c) ==
  LET of(o) == CHOOSE x \in FixtureObjects(c) : x.id = o
  IN [o \in {x.id : x \in FixtureObjects(c)} |->
        [type |-> of(o).type, place |-> of(o).place, tags |-> of(o).tags,
         slots |-> of(o).slots, owner |-> of(o).owner]]

\* M3 takes every object of the manifest, enabled and free.
Materialized(m) ==
  [o \in DOMAIN m.objects |->
     [type |-> m.objects[o].type, place |-> m.objects[o].place,
      tags |-> m.objects[o].tags, slots |-> m.objects[o].slots,
      owner |-> m.objects[o].owner]]

-----------------------------------------------------------------------------
(* The client's scene.                                                     *)

\* M2 requires the active npc's own objects and the first fridge of its home.
RequiredObjects(objs, c) ==
  {o \in DOMAIN objs : /\ objs[o].owner = Active
                       /\ objs[o].type \in {"BED", "DINING_SEAT", "WORKSTATION"}}
  \cup {<<c.npcs[Active].home, "FRIDGE", 1>>}

ShownIn == [BED |-> "SLEEP", DINING_SEAT |-> "EAT", WORKSTATION |-> "WORK_STANDING"]

M2SlotFits(registered, type) ==
  /\ DOMAIN registered.slots # {}
  /\ type \in DOMAIN ShownIn =>
       \E n \in DOMAIN registered.slots : ShownIn[type] \in registered.slots[n]

M2SceneAccepted(s, objs, c) ==
  /\ ~s.twice
  /\ {c.npcs[Active].home, c.npcs[Active].place} \subseteq s.places
  /\ Active \in s.views
  /\ RequiredObjects(objs, c) \subseteq DOMAIN s.objects
  /\ \A o \in RequiredObjects(objs, c) :
       LET r == s.objects[o] IN
       /\ r.enabled /\ r.place = objs[o].place /\ r.type = objs[o].type
       /\ objs[o].tags \subseteq r.tags
       /\ M2SlotFits(r, objs[o].type)
  /\ {"SLEEP", "EAT", "WORK_STANDING"} \subseteq s.animations

\* Slip: an object with enough slots is good, whatever their numbers.
M3SlotsCounted(r, i) == Cardinality(DOMAIN r.slots) = i.slots
M3SlotsFit(r, i) == DOMAIN r.slots = 0 .. i.slots - 1

M3SceneAccepted(s, m) ==
  /\ ~s.twice
  /\ s.places = Place /\ s.views = m.views
  /\ DOMAIN s.objects = DOMAIN m.objects
  /\ \A o \in DOMAIN s.objects :
       LET r == s.objects[o]
           i == m.objects[o]
       IN /\ r.enabled /\ r.type = i.type /\ r.place = i.place /\ r.tags = i.tags
          /\ M3SlotsFit(r, i)
          /\ \A n \in DOMAIN r.slots : i.shows \subseteq r.slots[n]
  /\ s.animations = m.animations

Registered(objs, S, shows(_)) ==
  [o \in S |-> [type |-> objs[o].type, place |-> objs[o].place,
                tags |-> objs[o].tags, enabled |-> TRUE,
                slots |-> [n \in 0 .. objs[o].slots - 1 |-> shows(o)]]]

M2Scene(objs, c) ==
  [objects |-> Registered(objs, RequiredObjects(objs, c), LAMBDA o :
     IF objs[o].type \in DOMAIN ShownIn THEN {ShownIn[objs[o].type]} ELSE {"EAT"}),
   places |-> {c.npcs[Active].home, c.npcs[Active].place}, views |-> {Active},
   animations |-> {"SLEEP", "EAT", "WORK_STANDING"}, twice |-> FALSE]

M3Scene(objs, m) ==
  [objects |-> Registered(objs, DOMAIN objs, LAMBDA o : m.objects[o].shows),
   places |-> Place, views |-> Agent, animations |-> m.animations, twice |-> FALSE]

-----------------------------------------------------------------------------
(* Choosing objects.                                                       *)

Needs ==
  [sleep         |-> {[tag |-> "SLEEP", type |-> "BED"]},
   eat_at_home   |-> {[tag |-> "FOOD_SOURCE_HOME", type |-> "FRIDGE"],
                      [tag |-> "EAT", type |-> "DINING_SEAT"]},
   relax_at_home |-> {[tag |-> "RELAX", type |-> "SOFA"]},
   work_shift    |-> {[tag |-> "WORK", type |-> "WORKSTATION"]}]

FreeSlots(o) ==
  0 .. objects[o].slots - 1
    \ {n \in 0 .. objects[o].slots - 1 : \E b \in Agent : <<o, n>> \in held[b].slots}

Destination(a, b) ==
  IF b = "work_shift" THEN catalog.npcs[a].place ELSE catalog.npcs[a].home

\* M1 asks for the type, and for the job's tag at a workstation; M3 for the
\* capability.
Matching(a, b, need) ==
  {o \in Of(objects, Destination(a, b), need.type) :
     /\ FreeSlots(o) # {}
     /\ IF edition = "M3" THEN need.tag \in objects[o].tags
        ELSE b = "work_shift" => catalog.npcs[a].tag \in objects[o].tags}

\* One's own object first, then the lowest number.
Preferred(a, S) ==
  LET own == {o \in S : objects[o].owner = a} IN
  IF own # {} THEN CHOOSE o \in own : \A p \in own : o[3] <= p[3]
              ELSE CHOOSE o \in S : \A p \in S : o[3] <= p[3]

Bundle(a, b) == {Preferred(a, Matching(a, b, need)) : need \in Needs[b]}
HasBundle(a, b) == \A need \in Needs[b] : Matching(a, b, need) # {}

-----------------------------------------------------------------------------
ReadCatalogs ==
  /\ stage = "catalogs"
  /\ \E c \in {Catalog} \cup (IF MaxEdits > 0 THEN CatalogEdits(Catalog) ELSE {}) :
       IF CatalogAccepted(c)
       THEN /\ catalog' = c
            /\ edits' = IF c = Catalog THEN 0 ELSE 1
            /\ \/ /\ edition' = "M1" /\ stage' = "scene"
                  /\ objects' = Fixture(c)
               \/ /\ edition' = "M3" /\ stage' = "manifest"
                  /\ UNCHANGED objects
       ELSE stage' = "refused" /\ UNCHANGED <<catalog, edits, edition, objects>>
  /\ UNCHANGED <<manifest, lines, scene, held>>

ReadManifest ==
  /\ stage = "manifest"
  /\ \E m \in {Manifest} \cup (IF edits < MaxEdits THEN ManifestEdits(Manifest) ELSE {}),
        d \in {Lines} \cup (IF edits < MaxEdits THEN LinesEdits(Lines) ELSE {}) :
       LET n == edits + (IF m = Manifest THEN 0 ELSE 1) + (IF d = Lines THEN 0 ELSE 1)
       IN /\ n <= MaxEdits
          /\ IF ManifestAccepted(m, catalog) /\ LinesAccepted(d)
             THEN /\ manifest' = m /\ lines' = d /\ edits' = n
                  /\ objects' = Materialized(m)
                  /\ stage' = "scene"
             ELSE stage' = "refused" /\ UNCHANGED <<manifest, lines, objects, edits>>
  /\ UNCHANGED <<edition, catalog, scene, held>>

\* A client whose scene is refused may come again with another one.
RegisterScene ==
  /\ stage = "scene"
  /\ LET right == IF edition = "M3" THEN M3Scene(objects, manifest)
                                    ELSE M2Scene(objects, catalog)
     IN \E s \in {right} \cup (IF edits < MaxEdits THEN SceneEdits(right) ELSE {}) :
          /\ IF edition = "M3" THEN M3SceneAccepted(s, manifest)
                               ELSE M2SceneAccepted(s, objects, catalog)
          /\ scene' = s
          /\ edits' = edits + (IF s = right THEN 0 ELSE 1)
  /\ stage' = "running"
  /\ UNCHANGED <<edition, catalog, manifest, lines, objects, held>>

Runs(a, b) ==
  edition = "M3" \/ (a = Active /\ b # "relax_at_home")

Begin(a, b) ==
  /\ stage = "running" /\ Runs(a, b)
  /\ held[a] = Idle /\ HasBundle(a, b)
  /\ held' = [held EXCEPT ![a] = [doing |-> b, slots |->
       {<<o, Min(FreeSlots(o))>> : o \in Bundle(a, b)}]]
  /\ UNCHANGED <<stage, edition, edits, catalog, manifest, lines, objects, scene>>

End(a) ==
  /\ held[a] # Idle
  /\ held' = [held EXCEPT ![a] = Idle]
  /\ UNCHANGED <<stage, edition, edits, catalog, manifest, lines, objects, scene>>

Init ==
  /\ stage = "catalogs" /\ edition = "none" /\ edits = 0
  /\ catalog = NotRead /\ manifest = NotRead /\ lines = {}
  /\ objects = <<>> /\ scene = NotRead
  /\ held = [a \in Agent |-> Idle]

Next ==
  \/ ReadCatalogs \/ ReadManifest \/ RegisterScene
  \/ \E a \in Agent : End(a) \/ \E b \in Bodily : Begin(a, b)

Spec == Init /\ [][Next]_vars

-----------------------------------------------------------------------------
(* Properties.                                                             *)

Running == stage = "running"

\* Who pays for whom is told twice, by the npcs and by the households: in a
\* town that was accepted the two agree, and with them who lives together.
HouseholdsAgree ==
  Running =>
    \A a, b \in Agent :
      LET n == catalog.npcs
          together == \E h \in Household : {a, b} \subseteq catalog.households[h].members
      IN /\ (n[a].household = n[b].household) = together
         /\ (n[a].home = n[b].home) = together

Own(a, o) == objects[o].owner = a

\* Every bed, home seat and workstation offers what its owner needs it for.
Equipped ==
  \A b \in {"sleep", "eat_at_home", "work_shift"} : \A need \in Needs[b] :
    \A o \in DOMAIN objects :
      objects[o].type = need.type /\ objects[o].owner # Nobody =>
        need.tag \in objects[o].tags

\* In a town that is equipped nobody is ever kept from its own bed or from
\* its own place at work, nor eats in another's seat, whoever does what where
\* meanwhile: the rules take any free object if one's own is not, and it is.
OwnPlace ==
  Running /\ Equipped =>
    /\ \A a \in Agent, b \in {"sleep", "work_shift"} :
         held[a] = Idle /\ Runs(a, b) =>
           HasBundle(a, b) /\ \A o \in Bundle(a, b) : Own(a, o)
    /\ \A a \in Agent : \A x \in held[a].slots :
         objects[x[1]].type \in {"BED", "DINING_SEAT", "WORKSTATION"} => Own(a, x[1])

\* The client finds what an action is bound to.  In M3 that is every slot, in
\* an enabled object at the place of the action; in M2 some object of it has
\* a slot that shows the action, or the npc would stop at the entrance.  The
\* M2 registry spells out three animations whatever the catalog names, so of
\* M2 it is claimed for a catalog that names those.
SceneShowsAll ==
  \A a \in Agent : held[a] # Idle /\ (edition = "M3" \/ catalog.shows = Catalog.shows) =>
    LET b == held[a].doing IN
    /\ a \in scene.views
    /\ catalog.shows[b] \in scene.animations
    /\ IF edition = "M3"
       THEN \A x \in held[a].slots :
              /\ x[1] \in DOMAIN scene.objects
              /\ x[2] \in DOMAIN scene.objects[x[1]].slots
              /\ scene.objects[x[1]].enabled
              /\ scene.objects[x[1]].place = Destination(a, b)
       ELSE \E x \in held[a].slots :
              /\ x[1] \in DOMAIN scene.objects
              /\ \E n \in DOMAIN scene.objects[x[1]].slots :
                   catalog.shows[b] \in scene.objects[x[1]].slots[n]

\* No social action ends on the fallback line: the table of outcomes the
\* loader requires and the one the template provider asks for are the same.
SpeakersHaveLines ==
  Running /\ edition = "M3" =>
    \A b \in Social, accepted \in BOOLEAN : LineKey(b, accepted) \in lines

\* What two catalogs say of one thing agrees in every town that was accepted:
\* households and npcs, dialogue lines and the outcomes that ask for them.
CatalogsAgree == HouseholdsAgree /\ SpeakersHaveLines
=============================================================================
