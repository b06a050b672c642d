--------------------------- MODULE TownSetupProofs ---------------------------
(***************************************************************************)
(* TownSetup, for every set of agents, households and places, every files  *)
(* and any number of edited files the loaders accept: accepted catalogs    *)
(* agree (CatalogsAgree), nobody is displaced from its own bed, seat or    *)
(* station (OwnPlace), and a client that was accepted finds what actions   *)
(* are bound to (SceneShowsAll).                                           *)
(*                                                                         *)
(* The validators count: beds are as many as residents, and their owners   *)
(* are the residents.  OwnersDiffer makes one bed each of that.  The M1    *)
(* fixture numbers by rank; FixtureIds shows that no object replaces       *)
(* another.  Settled says the same of both editions, and Inv carries it to *)
(* the choice of objects: an own object can only be held by its owner      *)
(* (HoldsOwn), so it is free for an owner who is idle (OwnIsFree), so the  *)
(* rules choose it (OwnMatches), so HoldsOwn goes on to hold.              *)
(***************************************************************************)
EXTENDS TownSetup, Totals

(* An edited catalog still has types with slots.                           *)
LEMMA EditedTypes ==
  ASSUME NEW c, IsCatalogFile(c), NEW d \in CatalogEdits(c)
  PROVE  d.types \in [Type -> ObjectTypeConfig]
<1>1. /\ c = [npcs |-> c.npcs, households |-> c.households, schedules |-> c.schedules,
              travel |-> c.travel, types |-> c.types, shows |-> c.shows, twice |-> c.twice]
      /\ c.types \in [Type -> ObjectTypeConfig]
  BY DEF IsCatalogFile
<1>2. \A x : [c EXCEPT !.npcs = x].types = c.types
  BY <1>1
<1>3. \A x : [c EXCEPT !.households = x].types = c.types
  BY <1>1
<1>4. \A x : [c EXCEPT !.schedules = x].types = c.types
  BY <1>1
<1>5. \A x : [c EXCEPT !.travel = x].types = c.types
  BY <1>1
<1>6. \A x : [c EXCEPT !.shows = x].types = c.types
  BY <1>1
<1>7. \A x : [c EXCEPT !.types = x].types = x
  BY <1>1
<1>8. [c EXCEPT !.twice = TRUE].types = c.types
  BY <1>1
<1>9. ASSUME NEW t \in Type, NEW s \in OneOff(c.types[t].tags, Tag) \ {{}}
      PROVE  [c EXCEPT !.types[t].tags = s].types \in [Type -> ObjectTypeConfig]
  <2>1. s \in (SUBSET Tag) \ {{}}
    BY <1>1 DEF OneOff, ObjectTypeConfig
  <2>2. [c.types[t] EXCEPT !.tags = s] \in ObjectTypeConfig
    BY <1>1, <2>1 DEF ObjectTypeConfig
  <2>3. [c.types EXCEPT ![t] = [c.types[t] EXCEPT !.tags = s]] \in [Type -> ObjectTypeConfig]
    BY <1>1, <2>2
  <2>4. QED BY <1>7, <2>3
<1>10. ASSUME NEW t \in Type, NEW n \in 1 .. 3
       PROVE  [c EXCEPT !.types[t].slots = n].types \in [Type -> ObjectTypeConfig]
  <2>1. n \in Nat \ {0}
    OBVIOUS
  <2>2. [c.types[t] EXCEPT !.slots = n] \in ObjectTypeConfig
    BY <1>1, <2>1 DEF ObjectTypeConfig
  <2>3. [c.types EXCEPT ![t] = [c.types[t] EXCEPT !.slots = n]] \in [Type -> ObjectTypeConfig]
    BY <1>1, <2>2
  <2>4. QED BY <1>7, <2>3
<1>11. CASE d \in {[c EXCEPT !.npcs[a] = n] : a \in Agent, n \in NpcConfig}
  BY <1>1, <1>2, <1>11
<1>12. CASE d \in {[c EXCEPT !.npcs = Without(@, a)] : a \in Agent}
  BY <1>1, <1>2, <1>12
<1>13. CASE d \in {[c EXCEPT !.households[h] = x] : h \in Household, x \in HouseholdConfig}
  BY <1>1, <1>3, <1>13
<1>14. CASE d \in {[c EXCEPT !.schedules[a] = e] : a \in Agent, e \in ScheduleEntry}
  BY <1>1, <1>4, <1>14
<1>15. CASE d \in {[c EXCEPT !.travel[p] = (q :> t) @@ @] :
                     p \in Place, q \in Place, t \in 1 .. 2}
  BY <1>1, <1>5, <1>15
<1>16. CASE d \in {[c EXCEPT !.travel[p] = Without(@, q)] : p \in Place, q \in Place}
  BY <1>1, <1>5, <1>16
<1>17. CASE d \in UNION {{[c EXCEPT !.types[t].tags = s] :
                           s \in OneOff(c.types[t].tags, Tag) \ {{}}} : t \in Type}
  <2>1. PICK t \in Type : \E s \in OneOff(c.types[t].tags, Tag) \ {{}} :
                            d = [c EXCEPT !.types[t].tags = s]
    BY <1>17
  <2>2. PICK s \in OneOff(c.types[t].tags, Tag) \ {{}} : d = [c EXCEPT !.types[t].tags = s]
    BY <2>1
  <2>3. QED BY <1>9, <2>2
<1>18. CASE d \in {[c EXCEPT !.types[t].slots = n] : t \in Type, n \in 1 .. 3}
  <2>1. PICK t \in Type, n \in 1 .. 3 : d = [c EXCEPT !.types[t].slots = n]
    BY <1>18
  <2>2. QED BY <1>10, <2>1
<1>19. CASE d \in {[c EXCEPT !.shows[b] = x] : b \in Bodily \cup Social, x \in Animation}
  BY <1>1, <1>6, <1>19
<1>20. CASE d \in {[c EXCEPT !.twice = TRUE]}
  BY <1>1, <1>8, <1>20
<1>21. QED BY <1>11, <1>12, <1>13, <1>14, <1>15, <1>16, <1>17, <1>18, <1>19, <1>20
           DEF CatalogEdits

(* An edited manifest has no object the manifest has not.                  *)
LEMMA EditedObjects ==
  ASSUME NEW m, IsManifestFile(m), NEW d \in ManifestEdits(m)
  PROVE  DOMAIN d.objects \subseteq DOMAIN m.objects
<1>1. m = [objects |-> m.objects, views |-> m.views, places |-> m.places,
           animations |-> m.animations, twice |-> m.twice]
  BY DEF IsManifestFile
<1>2. \A x : [m EXCEPT !.objects = x].objects = x
  BY <1>1
<1>3. \A x : [m EXCEPT !.views = x].objects = m.objects
  BY <1>1
<1>4. \A x : [m EXCEPT !.places = x].objects = m.objects
  BY <1>1
<1>5. \A x : [m EXCEPT !.animations = x].objects = m.objects
  BY <1>1
<1>6. \A x : [m EXCEPT !.twice = x].objects = m.objects
  BY <1>1
<1>7. ASSUME NEW o, NEW i
      PROVE  DOMAIN [m EXCEPT !.objects[o] = i].objects = DOMAIN m.objects
  BY <1>2
<1>8. ASSUME NEW o, NEW p PROVE DOMAIN OwnersExchanged(m, o, p).objects = DOMAIN m.objects
  BY <1>1 DEF OwnersExchanged
<1>9. ASSUME NEW o PROVE DOMAIN [m EXCEPT !.objects = Without(@, o)].objects \subseteq DOMAIN m.objects
  BY <1>2 DEF Without
<1>10. CASE d \in UNION {{[m EXCEPT !.objects[o] = i] : i \in InstanceEdits(m.objects[o])}
                           : o \in DOMAIN m.objects}
  <2>1. PICK o \in DOMAIN m.objects : \E i \in InstanceEdits(m.objects[o]) :
                                       d = [m EXCEPT !.objects[o] = i]
    BY <1>10
  <2>2. PICK i \in InstanceEdits(m.objects[o]) : d = [m EXCEPT !.objects[o] = i]
    BY <2>1
  <2>3. QED BY <1>7, <2>2
<1>11. CASE d \in {[m EXCEPT !.objects = Without(@, o)] : o \in DOMAIN m.objects}
  BY <1>9, <1>11
<1>12. CASE d \in {OwnersExchanged(m, o, p) : o \in DOMAIN m.objects, p \in DOMAIN m.objects}
  BY <1>8, <1>12
<1>13. CASE d \in {[m EXCEPT !.views = s] : s \in OneOff(m.views, Agent)}
  BY <1>3, <1>13
<1>14. CASE d \in {[m EXCEPT !.places = s] : s \in OneOff(m.places, Place)}
  BY <1>4, <1>14
<1>15. CASE d \in {[m EXCEPT !.animations = s] : s \in OneOff(m.animations, Animation)}
  BY <1>5, <1>15
<1>16. CASE d \in {[m EXCEPT !.twice = TRUE]}
  BY <1>6, <1>16
<1>17. QED BY <1>10, <1>11, <1>12, <1>13, <1>14, <1>15, <1>16 DEF ManifestEdits

-----------------------------------------------------------------------------
(* Own objects.                                                            *)

(* The one object of a type that agent a owns at a place.                  *)
Single(objs, place, t, a, o) ==
  /\ o \in DOMAIN objs
  /\ objs[o].place = place /\ objs[o].type = t /\ objs[o].owner = a
  /\ \A p \in DOMAIN objs :
       objs[p].place = place /\ objs[p].type = t /\ objs[p].owner = a => p = o

(* Everybody has a bed and a seat at home and a place at work.             *)
Settled(objs, c) ==
  \A a \in Agent :
    /\ \A t \in {"BED", "DINING_SEAT"} : \E o : Single(objs, c.npcs[a].home, t, a, o)
    /\ \E o : /\ Single(objs, c.npcs[a].place, "WORKSTATION", a, o)
              /\ c.npcs[a].tag \in objs[o].tags

(* Objects are numbered and have slots.                                    *)
Numbered(objs) == \A o \in DOMAIN objs : o[3] \in Nat /\ objs[o].slots \in Nat \ {0}

(* Who owns one each, each owns one.                                       *)
LEMMA OwnersDiffer ==
  ASSUME NEW objs, NEW S, NEW who, IsFiniteSet(S), OneEach(objs, S, who),
         NEW o \in S, NEW p \in S, objs[o].owner = objs[p].owner
  PROVE  o = p
<1> DEFINE f == [x \in S |-> objs[x].owner]
<1>1. f \in Surjection(S, who)
  BY DEF OneEach, Surjection
<1>2. f \in Injection(S, who)
  BY <1>1, FS_SurjSameCardinalityImpliesInj DEF OneEach
<1>3. f[o] = f[p]
  OBVIOUS
<1> HIDE DEF f
<1>4. QED BY <1>2, <1>3 DEF Injection, IsInjective

LEMMA MembersAgree ==
  ASSUME NEW c, CatalogAccepted(c), NEW a \in Agent
  PROVE  LET h == c.npcs[a].household IN
         /\ h \in Household /\ a \in MembersOf[h] /\ c.households[h].members = MembersOf[h]
         /\ c.households[h].home = c.npcs[a].home /\ c.npcs[a].home = HomeOf[h]
<1>1. LET h == c.npcs[a].household IN
        /\ h \in Household /\ a \in c.households[h].members
        /\ c.households[h].home = c.npcs[a].home
  BY DEF CatalogAccepted, NpcsFit, Reciprocal
<1>2. \A h \in Household : /\ c.households[h].members = MembersOf[h]
                           /\ c.households[h].home = HomeOf[h]
  BY DEF CatalogAccepted, HouseholdsFit
<1>3. PICK h : h = c.npcs[a].household
  OBVIOUS
<1>4. h \in Household /\ a \in c.households[h].members /\ c.households[h].home = c.npcs[a].home
  BY <1>1, <1>3
<1>5. c.households[h].members = MembersOf[h] /\ c.households[h].home = HomeOf[h]
  BY <1>2, <1>4
<1>6. QED BY <1>3, <1>4, <1>5

LEMMA SettledByManifest ==
  ASSUME NEW m, NEW c, CatalogAccepted(c), ManifestAccepted(m, c),
         IsFiniteSet(DOMAIN m.objects)
  PROVE  Settled(Materialized(m), c)
<1> DEFINE objs == m.objects
           made == Materialized(m)
<1>1. /\ DOMAIN made = DOMAIN objs
      /\ \A o \in DOMAIN objs : /\ made[o].type = objs[o].type /\ made[o].place = objs[o].place
                                /\ made[o].owner = objs[o].owner /\ made[o].tags = objs[o].tags
  BY DEF Materialized
<1> SUFFICES ASSUME NEW a \in Agent
             PROVE  /\ \A t \in {"BED", "DINING_SEAT"} :
                         \E o : Single(made, c.npcs[a].home, t, a, o)
                    /\ \E o : /\ Single(made, c.npcs[a].place, "WORKSTATION", a, o)
                              /\ c.npcs[a].tag \in made[o].tags
  BY DEF Settled
<1>2. ASSUME NEW t \in {"BED", "DINING_SEAT"}
      PROVE  \E o : Single(made, c.npcs[a].home, t, a, o)
  <2>1. PICK h \in Household : /\ a \in c.households[h].members
                               /\ c.households[h].home = c.npcs[a].home
    BY MembersAgree
  <2> DEFINE S == Of(objs, c.npcs[a].home, t)
  <2>2. OneEach(objs, S, c.households[h].members)
    BY <2>1 DEF ManifestAccepted, HomeFits
  <2>3. PICK o \in S : objs[o].owner = a
    BY <2>1, <2>2 DEF OneEach
  <2>4. IsFiniteSet(S)
    BY FS_Subset DEF Of
  <2>5. \A p \in S : objs[p].owner = a => p = o
    BY <2>2, <2>3, <2>4, OwnersDiffer
  <2>6. Single(made, c.npcs[a].home, t, a, o)
    BY <1>1, <2>3, <2>5 DEF Single, Of
  <2>7. QED BY <2>6
<1>3. \E o : /\ Single(made, c.npcs[a].place, "WORKSTATION", a, o)
             /\ c.npcs[a].tag \in made[o].tags
  <2> DEFINE own == {o \in DOMAIN objs : objs[o].type = "WORKSTATION" /\ objs[o].owner = a}
  <2>1. /\ Cardinality(own) = 1
        /\ \A o \in own : objs[o].place = c.npcs[a].place /\ c.npcs[a].tag \in objs[o].tags
    BY DEF ManifestAccepted, StationsFit
  <2>2. IsFiniteSet(own)
    BY FS_Subset
  <2>3. PICK o : own = {o}
    BY <2>1, <2>2, FS_Singleton
  <2>4. /\ o \in DOMAIN objs /\ objs[o].type = "WORKSTATION" /\ objs[o].owner = a
        /\ objs[o].place = c.npcs[a].place /\ c.npcs[a].tag \in objs[o].tags
    BY <2>1, <2>3
  <2>5. \A p \in DOMAIN objs : objs[p].type = "WORKSTATION" /\ objs[p].owner = a => p = o
    BY <2>3
  <2>6. Single(made, c.npcs[a].place, "WORKSTATION", a, o) /\ c.npcs[a].tag \in made[o].tags
    BY <1>1, <2>4, <2>5 DEF Single
  <2>7. QED BY <2>6
<1>4. QED BY <1>2, <1>3

(* Numbers by rank are different numbers.                                  *)
LEMMA RanksGrow ==
  ASSUME NEW S, S \subseteq Nat, IsFiniteSet(S), NEW a \in S, NEW b \in S, a < b
  PROVE  Rank(a, S) # Rank(b, S) 
<1> DEFINE A == {x \in S : x <= a}
           B == {x \in S : x <= b}
<1>1. a \in Nat /\ b \in Nat /\ ~(b <= a) /\ b <= b
  OBVIOUS
<1>2. A \subseteq B /\ b \in B /\ b \notin A
  <2>1. \A x \in S : x <= a => x <= b
    BY <1>1
  <2>2. QED BY <1>1, <2>1
<1>3. IsFiniteSet(B)
  BY FS_Subset
<1>4. Cardinality(A) # Cardinality(B)
  BY <1>2, <1>3, FS_Subset
<1>5. QED BY <1>4 DEF Rank

LEMMA RanksDiffer ==
  ASSUME NEW S, S \subseteq Nat, IsFiniteSet(S), NEW a \in S, NEW b \in S,
         Rank(a, S) = Rank(b, S)
  PROVE  a = b
<1>1. a \in Nat /\ b \in Nat
  OBVIOUS
<1>2. a < b \/ b < a \/ a = b
  BY <1>1
<1>3. QED BY <1>2, RanksGrow

LEMMA RanksCount ==
  ASSUME NEW S, IsFiniteSet(S), NEW a PROVE Rank(a, S) \in Nat
<1>1. IsFiniteSet({b \in S : b <= a})
  BY FS_Subset
<1>2. QED BY <1>1, FS_CardinalityType DEF Rank

(* The three kinds of objects the fixture makes.                           *)
IsShared(c, x, h) ==
  h \in Household /\ x = Made(c, HomeOf[h], "FRIDGE", 1, Nobody, c.types["FRIDGE"].tags)
IsAtHome(c, x, h, a, t) ==
  /\ h \in Household /\ a \in MembersOf[h] /\ t \in {"BED", "DINING_SEAT"}
  /\ x = Made(c, HomeOf[h], t, Rank(a, MembersOf[h]), a, c.types[t].tags)
IsAtWork(c, x, a) ==
  /\ a \in Agent
  /\ x = Made(c, c.npcs[a].place, "WORKSTATION", Rank(a, Staff(c, a)), a,
              {"WORK", c.npcs[a].tag})

LEMMA MadeOf ==
  ASSUME NEW c, NEW place, NEW type, NEW n, NEW owner, NEW tags, NEW x,
         x = Made(c, place, type, n, owner, tags)
  PROVE  /\ x.id = <<place, type, n>> /\ x.place = place /\ x.type = type
         /\ x.owner = owner /\ x.tags = tags /\ x.slots = c.types[type].slots
BY DEF Made

LEMMA FixtureKinds ==
  ASSUME NEW c, CatalogAccepted(c), NEW x
  PROVE  x \in FixtureObjects(c) <=>
           \/ \E h : IsShared(c, x, h)
           \/ \E h, a, t : IsAtHome(c, x, h, a, t)
           \/ \E a : IsAtWork(c, x, a)
<1>1. \A h \in Household : /\ c.households[h].members = MembersOf[h]
                           /\ c.households[h].home = HomeOf[h]
  BY DEF CatalogAccepted, HouseholdsFit
<1>2. x \in SharedObjects(c) <=> \E h : IsShared(c, x, h)
  BY <1>1 DEF SharedObjects, IsShared
<1>3. ASSUME x \in HomeObjects(c) PROVE \E h, a, t : IsAtHome(c, x, h, a, t)
  <2>1. PICK m \in {m \in Household \X Agent : m[2] \in c.households[m[1]].members},
             t \in {"BED", "DINING_SEAT"} :
          x = Made(c, c.households[m[1]].home, t, Rank(m[2], c.households[m[1]].members),
                   m[2], c.types[t].tags)
    BY <1>3 DEF HomeObjects
  <2>2. PICK h, a : m[1] = h /\ m[2] = a
    OBVIOUS
  <2>3. h \in Household /\ a \in Agent /\ a \in c.households[h].members
    BY <2>2
  <2>4. x = Made(c, HomeOf[h], t, Rank(a, MembersOf[h]), a, c.types[t].tags)
    BY <1>1, <2>1, <2>2, <2>3
  <2>5. IsAtHome(c, x, h, a, t)
    BY <1>1, <2>3, <2>4 DEF IsAtHome
  <2>6. QED BY <2>5
<1>4. ASSUME NEW h, NEW a, NEW t, IsAtHome(c, x, h, a, t) PROVE x \in HomeObjects(c)
  <2>1. h \in Household /\ a \in MembersOf[h] /\ t \in {"BED", "DINING_SEAT"}
    BY <1>4 DEF IsAtHome
  <2>2. a \in Agent
    BY <2>1, TownConstants
  <2>3. PICK m : m = <<h, a>>
    OBVIOUS
  <2>4. /\ m \in {k \in Household \X Agent : k[2] \in c.households[k[1]].members}
        /\ m[1] = h /\ m[2] = a
    BY <1>1, <2>1, <2>2, <2>3
  <2>5. x = Made(c, c.households[m[1]].home, t, Rank(m[2], c.households[m[1]].members),
                 m[2], c.types[t].tags)
    BY <1>1, <1>4, <2>1, <2>4 DEF IsAtHome
  <2>6. QED BY <2>1, <2>4, <2>5 DEF HomeObjects
<1>5. x \in WorkObjects(c) <=> \E a : IsAtWork(c, x, a)
  BY DEF WorkObjects, IsAtWork
<1>6. x \in FixtureObjects(c) <=>
        x \in SharedObjects(c) \/ x \in HomeObjects(c) \/ x \in WorkObjects(c)
  BY DEF FixtureObjects
<1>7. QED BY <1>2, <1>3, <1>4, <1>5, <1>6

LEMMA AgentsRanked ==
  ASSUME NEW S, S \subseteq Agent
  PROVE  S \subseteq Nat /\ IsFiniteSet(S)
BY TownConstants, FS_Subset

LEMMA SharedOf ==
  ASSUME NEW c, NEW x, NEW h, IsShared(c, x, h)
  PROVE  /\ h \in Household /\ x.id = <<HomeOf[h], "FRIDGE", 1>>
         /\ x.type = "FRIDGE" /\ x.place = HomeOf[h] /\ x.owner = Nobody
         /\ x.slots = c.types["FRIDGE"].slots
BY MadeOf DEF IsShared

LEMMA AtHomeOf ==
  ASSUME NEW c, NEW x, NEW h, NEW a, NEW t, IsAtHome(c, x, h, a, t)
  PROVE  /\ h \in Household /\ a \in MembersOf[h] /\ a \in Agent
         /\ x.id = <<HomeOf[h], t, Rank(a, MembersOf[h])>>
         /\ t \in {"BED", "DINING_SEAT"}
         /\ x.type = t /\ x.place = HomeOf[h] /\ x.owner = a
         /\ x.slots = c.types[t].slots
<1>1. /\ h \in Household /\ a \in MembersOf[h] /\ t \in {"BED", "DINING_SEAT"}
      /\ x = Made(c, HomeOf[h], t, Rank(a, MembersOf[h]), a, c.types[t].tags)
  BY DEF IsAtHome
<1>2. a \in Agent
  BY <1>1, TownConstants
<1>3. QED BY <1>1, <1>2, MadeOf

LEMMA AtWorkOf ==
  ASSUME NEW c, NEW x, NEW a, IsAtWork(c, x, a)
  PROVE  /\ a \in Agent /\ x.id = <<c.npcs[a].place, "WORKSTATION", Rank(a, Staff(c, a))>>
         /\ x.type = "WORKSTATION" /\ x.place = c.npcs[a].place /\ x.owner = a
         /\ x.tags = {"WORK", c.npcs[a].tag} /\ x.slots = c.types["WORKSTATION"].slots
<1>1. /\ a \in Agent
      /\ x = Made(c, c.npcs[a].place, "WORKSTATION", Rank(a, Staff(c, a)), a,
                  {"WORK", c.npcs[a].tag})
  BY DEF IsAtWork
<1>2. QED BY <1>1, MadeOf

LEMMA SharedId ==
  ASSUME NEW c, NEW x, NEW h, IsShared(c, x, h)
  PROVE  x.id[1] = HomeOf[h] /\ x.id[2] = "FRIDGE" /\ x.id[3] = 1
<1>1. x.id = <<HomeOf[h], "FRIDGE", 1>>
  BY SharedOf
<1>2. QED BY <1>1

LEMMA AtHomeId ==
  ASSUME NEW c, NEW x, NEW h, NEW a, NEW t, IsAtHome(c, x, h, a, t)
  PROVE  x.id[1] = HomeOf[h] /\ x.id[2] = t /\ x.id[3] = Rank(a, MembersOf[h])
<1>1. x.id = <<HomeOf[h], t, Rank(a, MembersOf[h])>>
  BY AtHomeOf
<1>2. QED BY <1>1

LEMMA AtWorkId ==
  ASSUME NEW c, NEW x, NEW a, IsAtWork(c, x, a)
  PROVE  /\ x.id[1] = c.npcs[a].place /\ x.id[2] = "WORKSTATION"
         /\ x.id[3] = Rank(a, Staff(c, a))
<1>1. x.id = <<c.npcs[a].place, "WORKSTATION", Rank(a, Staff(c, a))>>
  BY AtWorkOf
<1>2. QED BY <1>1

(* The objects of the fixture are told apart by their ids.                 *)
LEMMA FixtureIds ==
  ASSUME NEW c, CatalogAccepted(c), NEW x \in FixtureObjects(c), NEW y \in FixtureObjects(c),
         x.id = y.id
  PROVE  x = y
<1>1. ASSUME NEW h, IsShared(c, x, h), NEW g, IsShared(c, y, g) PROVE x = y
  <2>1. HomeOf[h] = HomeOf[g]
    <3>1. x.id[1] = HomeOf[h] /\ y.id[1] = HomeOf[g]
      BY <1>1, SharedId
    <3>2. QED BY <3>1
  <2>2. QED BY <1>1, <2>1 DEF IsShared
<1>2. ASSUME NEW h, NEW a, NEW t, IsAtHome(c, x, h, a, t),
             NEW g, NEW b, NEW u, IsAtHome(c, y, g, b, u)
      PROVE  x = y
  <2>1. /\ x.id[1] = HomeOf[h] /\ x.id[2] = t /\ x.id[3] = Rank(a, MembersOf[h])
        /\ y.id[1] = HomeOf[g] /\ y.id[2] = u /\ y.id[3] = Rank(b, MembersOf[g])
    BY <1>2, AtHomeId
  <2>2. HomeOf[g] = HomeOf[h] /\ u = t /\ Rank(a, MembersOf[h]) = Rank(b, MembersOf[g])
    BY <2>1
  <2>3. h \in Household /\ g \in Household /\ a \in MembersOf[h] /\ b \in MembersOf[g]
    BY <1>2, AtHomeOf
  <2>4. g = h
    BY <2>2, <2>3, TownConstants
  <2>5. MembersOf[h] \subseteq Agent
    BY <2>3, TownConstants
  <2>6. MembersOf[h] \subseteq Nat /\ IsFiniteSet(MembersOf[h])
    BY <2>5, AgentsRanked
  <2>7. a = b
    BY <2>2, <2>3, <2>4, <2>6, RanksDiffer
  <2>8. QED BY <1>2, <2>2, <2>4, <2>7 DEF IsAtHome
<1>3. ASSUME NEW a, IsAtWork(c, x, a), NEW b, IsAtWork(c, y, b) PROVE x = y
  <2>1. /\ a \in Agent /\ b \in Agent
        /\ x.id[1] = c.npcs[a].place /\ x.id[3] = Rank(a, Staff(c, a))
        /\ y.id[1] = c.npcs[b].place /\ y.id[3] = Rank(b, Staff(c, b))
    BY <1>3, AtWorkOf, AtWorkId
  <2>2. c.npcs[a].place = c.npcs[b].place /\ Rank(a, Staff(c, a)) = Rank(b, Staff(c, b))
    BY <2>1
  <2>3. Staff(c, a) = Staff(c, b) /\ a \in Staff(c, a) /\ b \in Staff(c, a)
    BY <2>1, <2>2 DEF Staff
  <2>4. Staff(c, a) \subseteq Agent
    BY DEF Staff
  <2>5. Staff(c, a) \subseteq Nat /\ IsFiniteSet(Staff(c, a))
    BY <2>4, AgentsRanked
  <2>6. a = b
    BY <2>2, <2>3, <2>5, RanksDiffer
  <2>7. QED BY <1>3, <2>6 DEF IsAtWork
<1>4. \A z : /\ \A h : IsShared(c, z, h) => z.id[2] = "FRIDGE"
             /\ \A h, a, t : IsAtHome(c, z, h, a, t) => z.id[2] \in {"BED", "DINING_SEAT"}
             /\ \A a : IsAtWork(c, z, a) => z.id[2] = "WORKSTATION"
  <2>1. ASSUME NEW z, NEW h, IsShared(c, z, h) PROVE z.id[2] = "FRIDGE"
    BY <2>1, SharedId
  <2>2. ASSUME NEW z, NEW h, NEW a, NEW t, IsAtHome(c, z, h, a, t)
        PROVE  z.id[2] \in {"BED", "DINING_SEAT"}
    BY <2>2, AtHomeId, AtHomeOf
  <2>3. ASSUME NEW z, NEW a, IsAtWork(c, z, a) PROVE z.id[2] = "WORKSTATION"
    BY <2>3, AtWorkId
  <2>4. QED BY <2>1, <2>2, <2>3
<1>5. /\ (\E h : IsShared(c, x, h)) \/ (\E h, a, t : IsAtHome(c, x, h, a, t))
                                     \/ (\E a : IsAtWork(c, x, a))
      /\ (\E h : IsShared(c, y, h)) \/ (\E h, a, t : IsAtHome(c, y, h, a, t))
                                     \/ (\E a : IsAtWork(c, y, a))
  BY FixtureKinds
<1>6. QED BY <1>1, <1>2, <1>3, <1>4, <1>5

(* Under its id the fixture has the object that was made.                  *)
LEMMA FixtureHas ==
  ASSUME NEW c, CatalogAccepted(c), NEW x \in FixtureObjects(c)
  PROVE  /\ x.id \in DOMAIN Fixture(c)
         /\ Fixture(c)[x.id].place = x.place /\ Fixture(c)[x.id].type = x.type
         /\ Fixture(c)[x.id].owner = x.owner /\ Fixture(c)[x.id].tags = x.tags
         /\ Fixture(c)[x.id].slots = x.slots
<1> DEFINE of(o) == CHOOSE y \in FixtureObjects(c) : y.id = o
<1>1. PICK i : i = x.id
  OBVIOUS
<1>2. \E y \in FixtureObjects(c) : y.id = i
  BY <1>1
<1>3. of(i) \in FixtureObjects(c) /\ of(i).id = i
  BY <1>2
<1>4. of(i) = x
  <2> HIDE DEF of
  <2>1. PICK y : y = of(i)
    OBVIOUS
  <2>2. y \in FixtureObjects(c) /\ x.id = y.id
    BY <1>1, <1>3, <2>1
  <2>3. QED BY <2>1, <2>2, FixtureIds
<1>5. i \in {y.id : y \in FixtureObjects(c)}
  BY <1>1
<1>6. Fixture(c) = [o \in {y.id : y \in FixtureObjects(c)} |->
        [type |-> of(o).type, place |-> of(o).place, tags |-> of(o).tags,
         slots |-> of(o).slots, owner |-> of(o).owner]]
  BY DEF Fixture
<1> HIDE DEF of
<1>7. /\ i \in DOMAIN Fixture(c)
      /\ Fixture(c)[i] = [type |-> x.type, place |-> x.place, tags |-> x.tags,
                          slots |-> x.slots, owner |-> x.owner]
  BY <1>4, <1>5, <1>6
<1>8. QED BY <1>1, <1>7

LEMMA FixtureDomain ==
  ASSUME NEW c, NEW o \in DOMAIN Fixture(c)
  PROVE  \E x \in FixtureObjects(c) : x.id = o
BY DEF Fixture

(* The beds, seats and stations of the fixture are those of their owners.  *)
LEMMA SettledByFixture ==
  ASSUME NEW c, CatalogAccepted(c)
  PROVE  Settled(Fixture(c), c)
<1> DEFINE objs == Fixture(c)
<1> HIDE DEF objs
<1>1. \A x \in FixtureObjects(c) :
        /\ x.id \in DOMAIN objs
        /\ objs[x.id].place = x.place /\ objs[x.id].type = x.type
        /\ objs[x.id].owner = x.owner /\ objs[x.id].tags = x.tags
  BY FixtureHas DEF objs
<1>2. \A o \in DOMAIN objs : \E x \in FixtureObjects(c) : x.id = o
  BY FixtureDomain DEF objs
<1>3. ASSUME NEW x \in FixtureObjects(c), NEW place, NEW t, NEW a,
             x.place = place, x.type = t, x.owner = a,
             \A y \in FixtureObjects(c) :
               y.place = place /\ y.type = t /\ y.owner = a => y = x
      PROVE  Single(objs, place, t, a, x.id)
  <2>1. ASSUME NEW p \in DOMAIN objs,
               objs[p].place = place, objs[p].type = t, objs[p].owner = a
        PROVE  p = x.id
    <3>1. PICK y \in FixtureObjects(c) : y.id = p
      BY <1>2
    <3>2. y.place = place /\ y.type = t /\ y.owner = a
      BY <1>1, <2>1, <3>1
    <3>3. QED BY <1>3, <3>1, <3>2
  <2>2. /\ x.id \in DOMAIN objs
        /\ objs[x.id].place = place /\ objs[x.id].type = t /\ objs[x.id].owner = a
    BY <1>1, <1>3
  <2>3. QED BY <2>1, <2>2 DEF Single
<1> SUFFICES ASSUME NEW a \in Agent
             PROVE  /\ \A t \in {"BED", "DINING_SEAT"} :
                         \E o : Single(objs, c.npcs[a].home, t, a, o)
                    /\ \E o : /\ Single(objs, c.npcs[a].place, "WORKSTATION", a, o)
                              /\ c.npcs[a].tag \in objs[o].tags
  BY DEF Settled, objs
<1>4. PICK home : home = c.npcs[a].home
  OBVIOUS
<1>5. PICK place : place = c.npcs[a].place
  OBVIOUS
<1>6. a # Nobody
  BY TownConstants
<1>7. ASSUME NEW t \in {"BED", "DINING_SEAT"}
      PROVE  \E o : Single(objs, home, t, a, o)
  <2>1. PICK h \in Household : a \in MembersOf[h] /\ HomeOf[h] = home
    BY <1>4, MembersAgree
  <2>2. PICK x : x = Made(c, HomeOf[h], t, Rank(a, MembersOf[h]), a, c.types[t].tags)
    OBVIOUS
  <2>3. IsAtHome(c, x, h, a, t)
    BY <2>1, <2>2 DEF IsAtHome
  <2>4. x \in FixtureObjects(c)
    BY <2>3, FixtureKinds
  <2>5. x.place = home /\ x.type = t /\ x.owner = a
    BY <2>1, <2>3, AtHomeOf
  <2>6. ASSUME NEW y \in FixtureObjects(c), y.place = home, y.type = t, y.owner = a
        PROVE  y = x
    <3>1. ASSUME NEW g, NEW b, NEW u, IsAtHome(c, y, g, b, u) PROVE y = x
      <4>1. g \in Household /\ HomeOf[g] = home /\ u = t /\ b = a
        BY <2>6, <3>1, AtHomeOf
      <4>2. g = h
        BY <2>1, <4>1, TownConstants
      <4>3. QED BY <2>2, <3>1, <4>1, <4>2 DEF IsAtHome
    <3>2. ~ \E g : IsShared(c, y, g)
      BY <1>6, <2>6, SharedOf
    <3>3. ~ \E b : IsAtWork(c, y, b)
      <4>1. t # "WORKSTATION"
        OBVIOUS
      <4>2. QED BY <2>6, <4>1, AtWorkOf
    <3>4. QED BY <3>1, <3>2, <3>3, FixtureKinds
  <2>7. Single(objs, home, t, a, x.id)
    BY <1>3, <2>4, <2>5, <2>6
  <2>8. QED BY <2>7
<1>8. \E o : Single(objs, place, "WORKSTATION", a, o) /\ c.npcs[a].tag \in objs[o].tags
  <2>1. PICK x : x = Made(c, c.npcs[a].place, "WORKSTATION", Rank(a, Staff(c, a)), a,
                          {"WORK", c.npcs[a].tag})
    OBVIOUS
  <2>2. IsAtWork(c, x, a)
    BY <2>1 DEF IsAtWork
  <2>3. x \in FixtureObjects(c)
    BY <2>2, FixtureKinds
  <2>4. /\ x.place = place /\ x.type = "WORKSTATION" /\ x.owner = a
        /\ x.tags = {"WORK", c.npcs[a].tag}
    BY <1>5, <2>2, AtWorkOf
  <2>5. ASSUME NEW y \in FixtureObjects(c), y.place = place, y.type = "WORKSTATION", y.owner = a
        PROVE  y = x
    <3>1. ASSUME NEW b, IsAtWork(c, y, b) PROVE y = x
      <4>1. b = a
        BY <2>5, <3>1, AtWorkOf
      <4>2. QED BY <2>1, <3>1, <4>1 DEF IsAtWork
    <3>2. ~ \E g : IsShared(c, y, g)
      BY <1>6, <2>5, SharedOf
    <3>3. ~ \E g, b, u : IsAtHome(c, y, g, b, u)
      <4>1. ASSUME NEW g, NEW b, NEW u, IsAtHome(c, y, g, b, u) PROVE FALSE
        <5>1. y.type = u /\ u \in {"BED", "DINING_SEAT"}
          BY <4>1, AtHomeOf
        <5>2. QED BY <2>5, <5>1
      <4>2. QED BY <4>1
    <3>4. QED BY <3>1, <3>2, <3>3, FixtureKinds
  <2>6. Single(objs, place, "WORKSTATION", a, x.id)
    <3>1. PICK t : t = "WORKSTATION"
      OBVIOUS
    <3>2. Single(objs, place, t, a, x.id)
      BY <1>3, <2>3, <2>4, <2>5, <3>1
    <3>3. QED BY <3>1, <3>2
  <2>7. c.npcs[a].tag \in objs[x.id].tags
    BY <1>1, <2>3, <2>4
  <2>8. QED BY <2>6, <2>7
<1>9. QED BY <1>4, <1>5, <1>7, <1>8

(* Numbers and slots.                                                      *)
LEMMA NumberedByFixture ==
  ASSUME NEW c, CatalogAccepted(c), c.types \in [Type -> ObjectTypeConfig]
  PROVE  Numbered(Fixture(c))
<1>1. \A t \in Type : c.types[t].slots \in Nat \ {0}
  BY DEF ObjectTypeConfig
<1>2. ASSUME NEW x \in FixtureObjects(c)
      PROVE  x.id[3] \in Nat /\ x.slots \in Nat \ {0}
  <2>1. ASSUME NEW h, IsShared(c, x, h) PROVE x.id[3] \in Nat /\ x.slots \in Nat \ {0}
    <3>1. x.id[3] = 1 /\ x.slots = c.types["FRIDGE"].slots
      BY <2>1, SharedOf, SharedId
    <3>2. QED BY <1>1, <3>1 DEF Type
  <2>2. ASSUME NEW h, NEW a, NEW t, IsAtHome(c, x, h, a, t)
        PROVE  x.id[3] \in Nat /\ x.slots \in Nat \ {0}
    <3>1. /\ x.id[3] = Rank(a, MembersOf[h]) /\ x.slots = c.types[t].slots
          /\ t \in {"BED", "DINING_SEAT"} /\ h \in Household
      BY <2>2, AtHomeOf, AtHomeId
    <3>2. MembersOf[h] \subseteq Agent
      BY <3>1, TownConstants
    <3>3. IsFiniteSet(MembersOf[h])
      BY <3>2, AgentsRanked
    <3>4. Rank(a, MembersOf[h]) \in Nat
      BY <3>3, RanksCount
    <3>5. QED BY <1>1, <3>1, <3>4 DEF Type
  <2>3. ASSUME NEW a, IsAtWork(c, x, a) PROVE x.id[3] \in Nat /\ x.slots \in Nat \ {0}
    <3>1. x.id[3] = Rank(a, Staff(c, a)) /\ x.slots = c.types["WORKSTATION"].slots
      BY <2>3, AtWorkOf, AtWorkId
    <3>2. Staff(c, a) \subseteq Agent
      BY DEF Staff
    <3>3. IsFiniteSet(Staff(c, a))
      BY <3>2, AgentsRanked
    <3>4. Rank(a, Staff(c, a)) \in Nat
      BY <3>3, RanksCount
    <3>5. QED BY <1>1, <3>1, <3>4 DEF Type
  <2>4. QED BY <2>1, <2>2, <2>3, FixtureKinds
<1>3. ASSUME NEW o \in DOMAIN Fixture(c)
      PROVE  o[3] \in Nat /\ Fixture(c)[o].slots \in Nat \ {0}
  <2>1. PICK x \in FixtureObjects(c) : x.id = o
    BY FixtureDomain
  <2>2. Fixture(c)[o].slots = x.slots
    BY <2>1, FixtureHas
  <2>3. QED BY <1>2, <2>1, <2>2
<1>4. QED BY <1>3 DEF Numbered

LEMMA NumberedByManifest ==
  ASSUME NEW m, NEW c, ManifestAccepted(m, c), c.types \in [Type -> ObjectTypeConfig],
         DOMAIN m.objects \subseteq Place \X Type \X Nat
  PROVE  Numbered(Materialized(m))
<1>1. ASSUME NEW o \in DOMAIN m.objects
      PROVE  o[3] \in Nat /\ m.objects[o].slots \in Nat \ {0}
  <2>1. o \in Place \X Type \X Nat
    OBVIOUS
  <2>2. m.objects[o].type \in Type
    BY DEF ManifestAccepted
  <2>3. m.objects[o].slots = c.types[m.objects[o].type].slots
    BY DEF ManifestAccepted, InstanceFits
  <2>4. \A t \in Type : c.types[t].slots \in Nat \ {0}
    BY DEF ObjectTypeConfig
  <2>5. QED BY <2>1, <2>2, <2>3, <2>4
<1>2. QED BY <1>1 DEF Materialized, Numbered

-----------------------------------------------------------------------------
(* Choosing.                                                               *)

(* Of any free objects one is preferred, and an own one if there is one.   *)
LEMMA PreferredIs ==
  ASSUME NEW a, NEW S, S # {}, \A o \in S : o[3] \in Nat
  PROVE  /\ Preferred(a, S) \in S
         /\ (\E o \in S : objects[o].owner = a) => objects[Preferred(a, S)].owner = a
<1>1. ASSUME NEW T, T \subseteq S, T # {}
      PROVE  \E o \in T : \A p \in T : o[3] <= p[3]
  <2> DEFINE N == {o[3] : o \in T}
  <2>1. N \subseteq Nat /\ N # {}
    BY <1>1
  <2>2. PICK n \in N : \A k \in N : n <= k
    <3> HIDE DEF N
    <3> QED BY <2>1, Smallest
  <2>3. PICK o \in T : n = o[3]
    OBVIOUS
  <2>4. \A p \in T : p[3] \in N
    OBVIOUS
  <2>5. QED BY <2>2, <2>3, <2>4
<1> DEFINE own == {o \in S : objects[o].owner = a}
<1>2. CASE own # {}
  <2>1. Preferred(a, S) = CHOOSE o \in own : \A p \in own : o[3] <= p[3]
    BY <1>2 DEF Preferred
  <2>2. \E o \in own : \A p \in own : o[3] <= p[3]
    BY <1>1, <1>2
  <2>3. Preferred(a, S) \in own
    <3> HIDE DEF own
    <3> QED BY <2>1, <2>2
  <2>4. QED BY <2>3
<1>3. CASE own = {}
  <2>1. Preferred(a, S) = CHOOSE o \in S : \A p \in S : o[3] <= p[3]
    BY <1>3 DEF Preferred
  <2>2. \E o \in S : \A p \in S : o[3] <= p[3]
    BY <1>1
  <2>3. Preferred(a, S) \in S
    BY <2>1, <2>2
  <2>4. QED BY <1>3, <2>3
<1>4. QED BY <1>2, <1>3

LEMMA MinIs ==
  ASSUME NEW S, S \subseteq Nat, S # {}
  PROVE  Min(S) \in S
<1>1. \E n \in S : \A k \in S : n <= k
  BY Smallest
<1>2. QED BY <1>1 DEF Min

LEMMA FreeSlotIs ==
  ASSUME NEW o, objects[o].slots \in Nat \ {0}, FreeSlots(o) # {}
  PROVE  Min(FreeSlots(o)) \in 0 .. objects[o].slots - 1
<1>1. FreeSlots(o) \subseteq 0 .. objects[o].slots - 1
  BY DEF FreeSlots
<1>2. FreeSlots(o) \subseteq Nat
  BY <1>1
<1>3. Min(FreeSlots(o)) \in FreeSlots(o)
  BY <1>2, MinIs
<1>4. QED BY <1>1, <1>3

LEMMA NeedsAre ==
  ASSUME NEW b \in Bodily, NEW need \in Needs[b]
  PROVE  /\ need.type \in Type
         /\ need.type = "BED" => b = "sleep"
         /\ need.type = "DINING_SEAT" => b = "eat_at_home"
         /\ need.type = "WORKSTATION" => b = "work_shift"
BY DEF Needs, Bodily, Type

-----------------------------------------------------------------------------
(* The invariant.                                                          *)

Read == stage \in {"scene", "running"}

(* The tags of the objects do not matter in M1.                            *)
OwnFits == Equipped \/ edition = "M1"

(* Beds, home seats and stations are held by their owners only.            *)
HoldsOwn ==
  \A a \in Agent : \A x \in held[a].slots :
    objects[x[1]].type \in {"BED", "DINING_SEAT", "WORKSTATION"} => Own(a, x[1])

(* An agent at something holds what it needs for it, where it does it.     *)
Busy(a) ==
  LET b == held[a].doing IN
  /\ b \in Bodily /\ Runs(a, b)
  /\ \A x \in held[a].slots :
       /\ x[1] \in DOMAIN objects /\ x[2] \in 0 .. objects[x[1]].slots - 1
       /\ objects[x[1]].place = Destination(a, b)
  /\ \A need \in Needs[b] : \E x \in held[a].slots : objects[x[1]].type = need.type

HeldInv ==
  /\ held = [a \in Agent |-> held[a]]
  /\ stage # "running" => \A a \in Agent : held[a] = Idle
CatalogInv ==
  /\ stage \in {"manifest", "scene", "running"} =>
       /\ CatalogAccepted(catalog) /\ catalog.types \in [Type -> ObjectTypeConfig]
       /\ edition \in {"M1", "M3"}
  /\ stage = "manifest" => edition = "M3"
ObjectsInv ==
  /\ Read => Settled(objects, catalog) /\ Numbered(objects)
  /\ Read /\ edition = "M3" =>
       /\ ManifestAccepted(manifest, catalog) /\ LinesAccepted(lines)
       /\ objects = Materialized(manifest)
SceneInv ==
  Running => IF edition = "M3" THEN M3SceneAccepted(scene, manifest)
                               ELSE M2SceneAccepted(scene, objects, catalog)
BusyInv ==
  /\ Running => \A a \in Agent : held[a] = Idle \/ Busy(a)
  /\ Running /\ OwnFits => HoldsOwn

Inv == HeldInv /\ CatalogInv /\ ObjectsInv /\ SceneInv /\ BusyInv

-----------------------------------------------------------------------------
(* One's own object is free as long as one does nothing.                   *)
LEMMA OwnIsFree ==
  ASSUME NEW a \in Agent, held[a] = Idle, HoldsOwn,
         NEW o \in DOMAIN objects, objects[o].slots \in Nat \ {0}, Own(a, o),
         objects[o].type \in {"BED", "DINING_SEAT", "WORKSTATION"}
  PROVE  FreeSlots(o) # {}
<1>1. ASSUME NEW b \in Agent, NEW n, <<o, n>> \in held[b].slots PROVE FALSE
  <2>1. PICK x : x = <<o, n>>
    OBVIOUS
  <2>2. x \in held[b].slots /\ x[1] = o
    BY <1>1, <2>1
  <2>3. Own(b, o)
    BY <2>2 DEF HoldsOwn
  <2>4. b = a
    BY <2>3 DEF Own
  <2>5. held[b].slots = {}
    BY <2>4 DEF Idle
  <2>6. QED BY <2>2, <2>5
<1>2. 0 \in 0 .. objects[o].slots - 1
  OBVIOUS
<1>3. 0 \in FreeSlots(o)
  BY <1>1, <1>2 DEF FreeSlots
<1>4. QED BY <1>3

(* So it is among what the rules may choose, and no other own one is.      *)
LEMMA OwnMatches ==
  ASSUME NEW a \in Agent, held[a] = Idle, HoldsOwn, OwnFits, edition \in {"M1", "M3"},
         Settled(objects, catalog), Numbered(objects),
         NEW b \in Bodily, NEW need \in Needs[b],
         need.type \in {"BED", "DINING_SEAT", "WORKSTATION"}
  PROVE  \E o \in Matching(a, b, need) : Own(a, o)
<1>1. PICK t : t = need.type
  OBVIOUS
<1>2. \E o \in DOMAIN objects : /\ objects[o].place = Destination(a, b)
                                /\ objects[o].type = t /\ objects[o].owner = a
                                /\ b = "work_shift" => catalog.npcs[a].tag \in objects[o].tags
  <2>1. CASE t = "WORKSTATION"
    <3>1. b = "work_shift"
      BY <1>1, <2>1, NeedsAre
    <3>2. PICK o : Single(objects, catalog.npcs[a].place, "WORKSTATION", a, o)
                     /\ catalog.npcs[a].tag \in objects[o].tags
      BY DEF Settled
    <3>3. QED BY <2>1, <3>1, <3>2 DEF Single, Destination
  <2>2. CASE t \in {"BED", "DINING_SEAT"}
    <3>1. b # "work_shift"
      BY <1>1, <2>2, NeedsAre
    <3>2. PICK o : Single(objects, catalog.npcs[a].home, t, a, o)
      BY <2>2 DEF Settled
    <3>3. QED BY <3>1, <3>2 DEF Single, Destination
  <2>3. QED BY <1>1, <2>1, <2>2
<1>3. PICK o \in DOMAIN objects : /\ objects[o].place = Destination(a, b)
                                  /\ objects[o].type = t /\ objects[o].owner = a
                                  /\ b = "work_shift" => catalog.npcs[a].tag \in objects[o].tags
  BY <1>2
<1>4. FreeSlots(o) # {}
  <2>1. objects[o].slots \in Nat \ {0}
    BY DEF Numbered
  <2>2. QED BY <1>1, <1>3, <2>1, OwnIsFree DEF Own
<1>5. edition = "M3" => need.tag \in objects[o].tags
  <2>1. SUFFICES ASSUME edition = "M3" PROVE need.tag \in objects[o].tags
    OBVIOUS
  <2>2. Equipped
    BY <2>1 DEF OwnFits
  <2>3. b \in {"sleep", "eat_at_home", "work_shift"}
    BY NeedsAre
  <2>4. a # Nobody
    BY TownConstants
  <2>5. QED BY <1>1, <1>3, <2>2, <2>3, <2>4 DEF Equipped
<1>6. o \in Of(objects, Destination(a, b), need.type)
  BY <1>1, <1>3 DEF Of
<1>7. o \in Matching(a, b, need)
  BY <1>3, <1>4, <1>5, <1>6 DEF Matching
<1>8. QED BY <1>3, <1>7 DEF Own

(* What is chosen for a need.                                              *)
LEMMA MatchingIs ==
  ASSUME Numbered(objects), NEW a, NEW b, NEW need, Matching(a, b, need) # {}
  PROVE  LET o == Preferred(a, Matching(a, b, need)) IN
         /\ o \in Matching(a, b, need) /\ o \in DOMAIN objects
         /\ objects[o].place = Destination(a, b) /\ objects[o].type = need.type
         /\ FreeSlots(o) # {}
         /\ (\E p \in Matching(a, b, need) : Own(a, p)) => Own(a, o)
<1>1. PICK S : S = Matching(a, b, need)
  OBVIOUS
<1>2. \A o \in S : /\ o \in DOMAIN objects /\ objects[o].place = Destination(a, b)
                   /\ objects[o].type = need.type /\ FreeSlots(o) # {}
  BY <1>1 DEF Matching, Of
<1>3. \A o \in S : o[3] \in Nat
  BY <1>2 DEF Numbered
<1>4. PICK o : o = Preferred(a, S)
  OBVIOUS
<1>5. o \in S /\ ((\E p \in S : objects[p].owner = a) => objects[o].owner = a)
  BY <1>1, <1>3, <1>4, PreferredIs
<1>6. QED BY <1>1, <1>2, <1>4, <1>5 DEF Own

-----------------------------------------------------------------------------
(* The steps.                                                              *)

LEMMA InitInv == Init => Inv
<1> SUFFICES ASSUME Init PROVE Inv
  OBVIOUS
<1>1. stage = "catalogs" /\ held = [a \in Agent |-> Idle]
  BY DEF Init
<1>2. HeldInv
  BY <1>1 DEF HeldInv
<1>3. QED BY <1>1, <1>2 DEF Inv, CatalogInv, ObjectsInv, SceneInv, BusyInv, Read, Running

LEMMA CatalogsInv == Inv /\ ReadCatalogs => Inv'
<1> SUFFICES ASSUME Inv, ReadCatalogs PROVE Inv'
  OBVIOUS
<1>1. PICK c \in {Catalog} \cup (IF MaxEdits > 0 THEN CatalogEdits(Catalog) ELSE {}) :
        IF CatalogAccepted(c)
        THEN /\ catalog' = c
             /\ edits' = IF c = Catalog THEN 0 ELSE 1
             /\ \/ /\ edition' = "M1" /\ stage' = "scene"
                   /\ objects' = Fixture(c)
                \/ /\ edition' = "M3" /\ stage' = "manifest"
                   /\ UNCHANGED objects
        ELSE stage' = "refused" /\ UNCHANGED <<catalog, edits, edition, objects>>
  BY DEF ReadCatalogs
<1>2. stage = "catalogs" /\ UNCHANGED <<manifest, lines, scene, held>>
  BY DEF ReadCatalogs
<1>3. HeldInv'
  BY <1>2 DEF Inv, HeldInv
<1>4. c.types \in [Type -> ObjectTypeConfig]
  <2>1. CASE c = Catalog
    BY <2>1, FilesOfTheTown DEF IsCatalogFile
  <2>2. CASE c \in CatalogEdits(Catalog)
    BY <2>2, FilesOfTheTown, EditedTypes
  <2>3. QED BY <2>1, <2>2
<1>5. stage' \in {"refused", "scene", "manifest"}
  BY <1>1
<1>6. SceneInv' /\ BusyInv'
  BY <1>5 DEF SceneInv, BusyInv, Running
<1>7. CASE ~CatalogAccepted(c)
  <2>1. stage' = "refused"
    BY <1>1, <1>7
  <2>2. QED BY <1>3, <1>6, <2>1 DEF Inv, CatalogInv, ObjectsInv, Read
<1>8. CASE CatalogAccepted(c) /\ edition' = "M1" /\ stage' = "scene" /\ objects' = Fixture(c)
  <2>1. catalog' = c
    BY <1>1, <1>8
  <2>2. Settled(objects', catalog') /\ Numbered(objects')
    BY <1>4, <1>8, <2>1, SettledByFixture, NumberedByFixture
  <2>3. ObjectsInv'
    BY <1>8, <2>2 DEF ObjectsInv
  <2>4. CatalogInv'
    BY <1>4, <1>8, <2>1 DEF CatalogInv
  <2>5. QED BY <1>3, <1>6, <2>3, <2>4 DEF Inv
<1>9. CASE CatalogAccepted(c) /\ edition' = "M3" /\ stage' = "manifest"
  <2>1. catalog' = c
    BY <1>1, <1>9
  <2>2. ObjectsInv'
    BY <1>9 DEF ObjectsInv, Read
  <2>3. CatalogInv'
    BY <1>4, <1>9, <2>1 DEF CatalogInv
  <2>4. QED BY <1>3, <1>6, <2>2, <2>3 DEF Inv
<1>10. QED BY <1>1, <1>7, <1>8, <1>9

LEMMA ManifestInv == Inv /\ ReadManifest => Inv'
<1> SUFFICES ASSUME Inv, ReadManifest PROVE Inv'
  OBVIOUS
<1>1. PICK m \in {Manifest} \cup (IF edits < MaxEdits THEN ManifestEdits(Manifest) ELSE {}),
           d \in {Lines} \cup (IF edits < MaxEdits THEN LinesEdits(Lines) ELSE {}) :
        LET n == edits + (IF m = Manifest THEN 0 ELSE 1) + (IF d = Lines THEN 0 ELSE 1)
        IN /\ n <= MaxEdits
           /\ IF ManifestAccepted(m, catalog) /\ LinesAccepted(d)
              THEN /\ manifest' = m /\ lines' = d /\ edits' = n
                   /\ objects' = Materialized(m)
                   /\ stage' = "scene"
              ELSE stage' = "refused" /\ UNCHANGED <<manifest, lines, objects, edits>>
  BY DEF ReadManifest
<1>2. stage = "manifest" /\ UNCHANGED <<edition, catalog, scene, held>>
  BY DEF ReadManifest
<1>3. HeldInv'
  BY <1>2 DEF Inv, HeldInv
<1>4. /\ CatalogAccepted(catalog) /\ catalog.types \in [Type -> ObjectTypeConfig]
      /\ edition = "M3"
  BY <1>2 DEF Inv, CatalogInv
<1>5. CatalogInv'
  BY <1>1, <1>2, <1>4 DEF CatalogInv
<1>6. stage' \in {"refused", "scene"}
  BY <1>1
<1>7. SceneInv' /\ BusyInv'
  BY <1>6 DEF SceneInv, BusyInv, Running
<1>8. CASE ManifestAccepted(m, catalog) /\ LinesAccepted(d)
  <2>1. manifest' = m /\ lines' = d /\ objects' = Materialized(m) /\ stage' = "scene"
    BY <1>1, <1>8
  <2>2. DOMAIN m.objects \subseteq DOMAIN Manifest.objects
    <3>1. CASE m = Manifest
      BY <3>1
    <3>2. CASE m \in ManifestEdits(Manifest)
      BY <3>2, FilesOfTheTown, EditedObjects
    <3>3. QED BY <3>1, <3>2
  <2>3. /\ DOMAIN Manifest.objects \subseteq Place \X Type \X Nat
        /\ IsFiniteSet(DOMAIN Manifest.objects)
    BY FilesOfTheTown DEF IsManifestFile, IsPartial
  <2>4. DOMAIN m.objects \subseteq Place \X Type \X Nat /\ IsFiniteSet(DOMAIN m.objects)
    BY <2>2, <2>3, FS_Subset
  <2>5. Settled(objects', catalog') /\ Numbered(objects')
    BY <1>2, <1>4, <1>8, <2>1, <2>4, SettledByManifest, NumberedByManifest
  <2>6. ObjectsInv'
    BY <1>2, <1>4, <1>8, <2>1, <2>5 DEF ObjectsInv
  <2>7. QED BY <1>3, <1>5, <1>7, <2>6 DEF Inv
<1>9. CASE ~(ManifestAccepted(m, catalog) /\ LinesAccepted(d))
  <2>1. stage' = "refused"
    BY <1>1, <1>9
  <2>2. ObjectsInv'
    BY <2>1 DEF ObjectsInv, Read
  <2>3. QED BY <1>3, <1>5, <1>7, <2>2 DEF Inv
<1>10. QED BY <1>8, <1>9

LEMMA RegisterInv == Inv /\ RegisterScene => Inv'
<1> SUFFICES ASSUME Inv, RegisterScene PROVE Inv'
  OBVIOUS
<1>1. /\ stage = "scene" /\ stage' = "running"
      /\ UNCHANGED <<edition, catalog, manifest, lines, objects, held>>
      /\ IF edition = "M3" THEN M3SceneAccepted(scene', manifest)
                           ELSE M2SceneAccepted(scene', objects, catalog)
  BY DEF RegisterScene
<1>2. \A a \in Agent : held[a] = Idle
  BY <1>1 DEF Inv, HeldInv
<1>3. HeldInv'
  BY <1>1 DEF Inv, HeldInv
<1>4. CatalogInv' /\ ObjectsInv'
  BY <1>1 DEF Inv, CatalogInv, ObjectsInv, Read
<1>5. SceneInv'
  BY <1>1 DEF SceneInv
<1>6. BusyInv'
  BY <1>1, <1>2 DEF BusyInv, HoldsOwn, Idle
<1>7. QED BY <1>3, <1>4, <1>5, <1>6 DEF Inv

LEMMA EndInv == ASSUME NEW a \in Agent PROVE Inv /\ End(a) => Inv'
<1> SUFFICES ASSUME Inv, End(a) PROVE Inv'
  OBVIOUS
<1>1. /\ held[a] # Idle /\ held' = [held EXCEPT ![a] = Idle]
      /\ UNCHANGED <<stage, edition, edits, catalog, manifest, lines, objects, scene>>
  BY DEF End
<1>2. held = [b \in Agent |-> held[b]] /\ (stage # "running" => \A b \in Agent : held[b] = Idle)
  BY DEF Inv, HeldInv
<1>3. stage = "running"
  BY <1>1, <1>2
<1>4. held' = [b \in Agent |-> IF b = a THEN Idle ELSE held[b]]
  BY <1>1, <1>2
<1>5. \A b \in Agent : held'[b] = IF b = a THEN Idle ELSE held[b]
  BY <1>4
<1>6. HeldInv'
  BY <1>1, <1>3, <1>4 DEF HeldInv
<1>7. CatalogInv' /\ ObjectsInv' /\ SceneInv'
  BY <1>1 DEF Inv, CatalogInv, ObjectsInv, SceneInv, Read, Running
<1>8. \A b \in Agent : Busy(b) /\ b # a => Busy(b)'
  BY <1>1, <1>5 DEF Busy, Runs, Destination
<1>9. \A b \in Agent : (held[b] = Idle \/ Busy(b))
  BY <1>3 DEF Inv, BusyInv, Running
<1>10. \A b \in Agent : (held[b] = Idle \/ Busy(b))'
  BY <1>5, <1>8, <1>9
<1>11. ASSUME OwnFits' PROVE HoldsOwn'
  <2>1. OwnFits
    BY <1>1, <1>11 DEF OwnFits, Equipped
  <2>2. HoldsOwn
    BY <1>3, <2>1 DEF Inv, BusyInv, Running
  <2>3. QED BY <1>1, <1>5, <2>2 DEF HoldsOwn, Own, Idle
<1>12. BusyInv'
  BY <1>10, <1>11 DEF BusyInv
<1>13. QED BY <1>6, <1>7, <1>12 DEF Inv

LEMMA BeginInv == ASSUME NEW a \in Agent, NEW b \in Bodily PROVE Inv /\ Begin(a, b) => Inv'
<1> SUFFICES ASSUME Inv, Begin(a, b) PROVE Inv'
  OBVIOUS
<1> DEFINE slots == {<<o, Min(FreeSlots(o))>> : o \in Bundle(a, b)}
<1>1. /\ stage = "running" /\ Runs(a, b) /\ held[a] = Idle /\ HasBundle(a, b)
      /\ held' = [held EXCEPT ![a] = [doing |-> b, slots |-> slots]]
      /\ UNCHANGED <<stage, edition, edits, catalog, manifest, lines, objects, scene>>
  BY DEF Begin
<1>2. held = [d \in Agent |-> held[d]]
  BY DEF Inv, HeldInv
<1>3. held' = [d \in Agent |-> IF d = a THEN [doing |-> b, slots |-> slots] ELSE held[d]]
  BY <1>1, <1>2
<1>4. /\ \A d \in Agent : d # a => held'[d] = held[d]
      /\ held'[a].doing = b /\ held'[a].slots = slots
  BY <1>3
<1>5. /\ Numbered(objects) /\ Settled(objects, catalog) /\ edition \in {"M1", "M3"}
  BY <1>1 DEF Inv, ObjectsInv, CatalogInv, Read
<1>6. ASSUME NEW x \in slots
      PROVE  \E need \in Needs[b] :
               /\ x[1] \in DOMAIN objects /\ x[2] \in 0 .. objects[x[1]].slots - 1
               /\ objects[x[1]].place = Destination(a, b) /\ objects[x[1]].type = need.type
               /\ (\E p \in Matching(a, b, need) : Own(a, p)) => Own(a, x[1])
  <2>1. PICK o \in Bundle(a, b) : x = <<o, Min(FreeSlots(o))>>
    OBVIOUS
  <2>2. PICK need \in Needs[b] : o = Preferred(a, Matching(a, b, need))
    BY DEF Bundle
  <2>3. Matching(a, b, need) # {}
    BY <1>1 DEF HasBundle
  <2>4. /\ o \in DOMAIN objects /\ objects[o].place = Destination(a, b)
        /\ objects[o].type = need.type /\ FreeSlots(o) # {}
        /\ (\E p \in Matching(a, b, need) : Own(a, p)) => Own(a, o)
    BY <1>5, <2>2, <2>3, MatchingIs
  <2>5. objects[o].slots \in Nat \ {0}
    BY <1>5, <2>4 DEF Numbered
  <2>6. Min(FreeSlots(o)) \in 0 .. objects[o].slots - 1
    BY <2>4, <2>5, FreeSlotIs
  <2>7. PICK n : n = Min(FreeSlots(o))
    OBVIOUS
  <2>8. x[1] = o /\ x[2] = n
    BY <2>1, <2>7
  <2>9. QED BY <2>4, <2>6, <2>7, <2>8
<1>7. ASSUME NEW need \in Needs[b]
      PROVE  \E x \in slots : objects[x[1]].type = need.type
  <2>1. PICK o : o = Preferred(a, Matching(a, b, need))
    OBVIOUS
  <2>2. Matching(a, b, need) # {}
    BY <1>1 DEF HasBundle
  <2>3. objects[o].type = need.type
    BY <1>5, <2>1, <2>2, MatchingIs
  <2>4. o \in Bundle(a, b)
    BY <2>1 DEF Bundle
  <2>5. PICK x : x = <<o, Min(FreeSlots(o))>>
    OBVIOUS
  <2>6. x \in slots /\ x[1] = o
    BY <2>4, <2>5
  <2>7. QED BY <2>3, <2>6
<1> HIDE DEF slots
<1>8. Busy(a)'
  BY <1>1, <1>4, <1>6, <1>7 DEF Busy, Runs, Destination
<1>9. \A d \in Agent : Busy(d) /\ d # a => Busy(d)'
  BY <1>1, <1>4 DEF Busy, Runs, Destination
<1>10. \A d \in Agent : held[d] = Idle \/ Busy(d)
  BY <1>1 DEF Inv, BusyInv, Running
<1>11. \A d \in Agent : (held[d] = Idle \/ Busy(d))'
  BY <1>4, <1>8, <1>9, <1>10
<1>12. ASSUME OwnFits' PROVE HoldsOwn'
  <2>1. OwnFits
    BY <1>1, <1>12 DEF OwnFits, Equipped
  <2>2. HoldsOwn
    BY <1>1, <2>1 DEF Inv, BusyInv, Running
  <2>3. ASSUME NEW x \in slots,
               objects[x[1]].type \in {"BED", "DINING_SEAT", "WORKSTATION"}
        PROVE  Own(a, x[1])
    <3>1. PICK need \in Needs[b] :
            /\ objects[x[1]].type = need.type
            /\ (\E p \in Matching(a, b, need) : Own(a, p)) => Own(a, x[1])
      BY <1>6
    <3>2. \E p \in Matching(a, b, need) : Own(a, p)
      BY <1>1, <1>5, <2>1, <2>2, <2>3, <3>1, OwnMatches
    <3>3. QED BY <3>1, <3>2
  <2>4. ASSUME NEW d \in Agent, NEW x \in held'[d].slots,
               objects[x[1]].type \in {"BED", "DINING_SEAT", "WORKSTATION"}
        PROVE  Own(d, x[1])
    <3>1. CASE d = a
      BY <1>4, <2>3, <2>4, <3>1
    <3>2. CASE d # a
      BY <1>4, <2>2, <2>4, <3>2 DEF HoldsOwn
    <3>3. QED BY <3>1, <3>2
  <2>5. QED BY <1>1, <2>4 DEF HoldsOwn, Own
<1>13. HeldInv'
  BY <1>1, <1>3 DEF HeldInv
<1>14. CatalogInv' /\ ObjectsInv' /\ SceneInv'
  BY <1>1 DEF Inv, CatalogInv, ObjectsInv, SceneInv, Read, Running
<1>15. BusyInv'
  BY <1>11, <1>12 DEF BusyInv
<1>16. QED BY <1>13, <1>14, <1>15 DEF Inv

LEMMA Stutter == Inv /\ UNCHANGED vars => Inv'
<1> SUFFICES ASSUME Inv, UNCHANGED vars PROVE Inv'
  OBVIOUS
<1>1. UNCHANGED <<stage, edition, edits, catalog, manifest, lines, objects, scene, held>>
  BY DEF vars
<1>2. HeldInv' /\ CatalogInv' /\ ObjectsInv' /\ SceneInv'
  BY <1>1 DEF Inv, HeldInv, CatalogInv, ObjectsInv, SceneInv, Read, Running
<1>3. BusyInv'
  BY <1>1 DEF Inv, BusyInv, Running, Busy, Runs, Destination, HoldsOwn, Own, OwnFits, Equipped
<1>4. QED BY <1>2, <1>3 DEF Inv

(* What every town that was set up keeps to: the catalogs were accepted,   *)
(* everybody has a bed, a seat and a station, the scene shows the objects, *)
(* and who is at something holds what it needs, of its own where it has    *)
(* one.                                                                    *)
THEOREM Invariance == Spec => []Inv
<1>1. Inv /\ [Next]_vars => Inv'
  BY CatalogsInv, ManifestInv, RegisterInv, EndInv, BeginInv, Stutter DEF Next
<1>2. QED BY InitInv, <1>1, PTL DEF Spec

-----------------------------------------------------------------------------
(* The properties.                                                         *)

TogetherIn(c, a, b) == \E h \in Household : {a, b} \subseteq c.households[h].members

LEMMA Together ==
  ASSUME NEW c, CatalogAccepted(c), NEW a \in Agent, NEW b \in Agent
  PROVE  /\ (c.npcs[a].household = c.npcs[b].household) <=> TogetherIn(c, a, b)
         /\ (c.npcs[a].home = c.npcs[b].home) <=> TogetherIn(c, a, b)
<1>1. PICK g, h : g = c.npcs[a].household /\ h = c.npcs[b].household
  OBVIOUS
<1>2. /\ g \in Household /\ a \in MembersOf[g] /\ c.npcs[a].home = HomeOf[g]
      /\ h \in Household /\ b \in MembersOf[h] /\ c.npcs[b].home = HomeOf[h]
  BY <1>1, MembersAgree
<1>3. /\ \A x \in Household : c.households[x].members = MembersOf[x]
      /\ \A x, y \in Household :
           x # y => c.households[x].members \cap c.households[y].members = {}
  BY DEF CatalogAccepted, HouseholdsFit
<1>4. g = h <=> HomeOf[g] = HomeOf[h]
  BY <1>2, TownConstants
<1>5. g = h <=> \E x \in Household : {a, b} \subseteq c.households[x].members
  <2>1. ASSUME NEW x \in Household, {a, b} \subseteq c.households[x].members PROVE g = h
    <3>1. x = g
      BY <1>2, <1>3, <2>1
    <3>2. x = h
      BY <1>2, <1>3, <2>1
    <3>3. QED BY <3>1, <3>2
  <2>2. ASSUME g = h PROVE \E x \in Household : {a, b} \subseteq c.households[x].members
    BY <1>2, <1>3, <2>2
  <2>3. QED BY <2>1, <2>2
<1>6. QED BY <1>1, <1>2, <1>4, <1>5 DEF TogetherIn

LEMMA InvAgrees == Inv => CatalogsAgree
<1> SUFFICES ASSUME Inv PROVE CatalogsAgree
  OBVIOUS
<1>1. HouseholdsAgree
  <2> SUFFICES ASSUME Running, NEW a \in Agent, NEW b \in Agent
      PROVE  LET n == catalog.npcs
                 together == TogetherIn(catalog, a, b)
             IN /\ (n[a].household = n[b].household) = together
                /\ (n[a].home = n[b].home) = together
    BY DEF HouseholdsAgree, TogetherIn
  <2>1. CatalogAccepted(catalog)
    BY DEF Inv, CatalogInv, Running
  <2>2. TogetherIn(catalog, a, b) \in BOOLEAN
    BY DEF TogetherIn
  <2>3. QED BY <2>1, <2>2, Together
<1>2. SpeakersHaveLines
  <2> SUFFICES ASSUME Running, edition = "M3", NEW b \in Social, NEW accepted \in BOOLEAN
      PROVE  LineKey(b, accepted) \in lines
    BY DEF SpeakersHaveLines
  <2>1. lines = (Social \X {"DEFAULT"}) \cup (Accepting \X {"ACCEPTED", "REJECTED"})
    BY DEF Inv, ObjectsInv, Read, Running, LinesAccepted
  <2>2. CASE b \notin Accepting
    <3>1. LineKey(b, accepted) = <<b, "DEFAULT">>
      BY <2>2 DEF LineKey
    <3>2. QED BY <2>1, <3>1
  <2>3. CASE b \in Accepting
    <3>1. LineKey(b, accepted) \in {<<b, "ACCEPTED">>, <<b, "REJECTED">>}
      BY <2>3 DEF LineKey
    <3>2. QED BY <2>1, <2>3, <3>1
  <2>4. QED BY <2>2, <2>3
<1>3. QED BY <1>1, <1>2 DEF CatalogsAgree

(* What two catalogs say of one thing agrees in every town that runs,      *)
(* whatever was edited in the files: the loaders refuse the others.        *)
THEOREM AcceptedCatalogsAgree == Spec => []CatalogsAgree
BY Invariance, InvAgrees, PTL

LEMMA InvOwn == Inv => OwnPlace
<1> SUFFICES ASSUME Inv, Running, Equipped PROVE OwnPlace
  BY DEF OwnPlace
<1>1. /\ Numbered(objects) /\ Settled(objects, catalog) /\ edition \in {"M1", "M3"}
      /\ HoldsOwn /\ OwnFits
  BY DEF Inv, ObjectsInv, CatalogInv, BusyInv, Read, Running, OwnFits
<1>2. ASSUME NEW a \in Agent, NEW b \in {"sleep", "work_shift"}, held[a] = Idle
      PROVE  HasBundle(a, b) /\ \A o \in Bundle(a, b) : Own(a, o)
  <2>1. b \in Bodily
    BY DEF Bodily
  <2>2. ASSUME NEW need \in Needs[b]
        PROVE  /\ Matching(a, b, need) # {}
               /\ Own(a, Preferred(a, Matching(a, b, need)))
    <3>1. need.type \in {"BED", "DINING_SEAT", "WORKSTATION"}
      BY DEF Needs
    <3>2. PICK p \in Matching(a, b, need) : Own(a, p)
      BY <1>1, <1>2, <2>1, <3>1, OwnMatches
    <3>3. QED BY <1>1, <3>2, MatchingIs
  <2>3. QED BY <2>2 DEF HasBundle, Bundle
<1>3. \A a \in Agent : \A x \in held[a].slots :
        objects[x[1]].type \in {"BED", "DINING_SEAT", "WORKSTATION"} => Own(a, x[1])
  BY <1>1 DEF HoldsOwn
<1>4. QED BY <1>2, <1>3 DEF OwnPlace

(* Nobody is kept from its own bed, its own seat or its own place at work, *)
(* however many agents choose objects by the rules at the same time.       *)
THEOREM NobodyDisplaced == Spec => []OwnPlace
BY Invariance, InvOwn, PTL

LEMMA ShownInM3 ==
  ASSUME Inv, NEW a \in Agent, held[a] # Idle, edition = "M3"
  PROVE  LET b == held[a].doing IN
         /\ a \in scene.views /\ catalog.shows[b] \in scene.animations
         /\ \A x \in held[a].slots :
              /\ x[1] \in DOMAIN scene.objects
              /\ x[2] \in DOMAIN scene.objects[x[1]].slots
              /\ scene.objects[x[1]].enabled
              /\ scene.objects[x[1]].place = Destination(a, b)
<1>1. Running
  BY DEF Inv, HeldInv, Running
<1>2. /\ M3SceneAccepted(scene, manifest) /\ Busy(a)
      /\ ManifestAccepted(manifest, catalog) /\ objects = Materialized(manifest)
  BY <1>1 DEF Inv, SceneInv, BusyInv, ObjectsInv, Read, Running
<1>3. PICK b : b = held[a].doing
  OBVIOUS
<1>4. a \in scene.views
  BY <1>2 DEF M3SceneAccepted, ManifestAccepted
<1>5. catalog.shows[b] \in scene.animations
  <2>1. b \in Bodily
    BY <1>2, <1>3 DEF Busy
  <2>2. QED BY <1>2, <2>1 DEF M3SceneAccepted, ManifestAccepted, Required
<1>6. ASSUME NEW x \in held[a].slots
      PROVE  /\ x[1] \in DOMAIN scene.objects
             /\ x[2] \in DOMAIN scene.objects[x[1]].slots
             /\ scene.objects[x[1]].enabled
             /\ scene.objects[x[1]].place = Destination(a, b)
  <2>1. PICK o, n : o = x[1] /\ n = x[2]
    OBVIOUS
  <2>2. /\ o \in DOMAIN objects /\ n \in 0 .. objects[o].slots - 1
        /\ objects[o].place = Destination(a, b)
    BY <1>2, <1>3, <2>1 DEF Busy
  <2>3. /\ o \in DOMAIN manifest.objects
        /\ objects[o].slots = manifest.objects[o].slots
        /\ objects[o].place = manifest.objects[o].place
    BY <1>2, <2>2 DEF Materialized
  <2>4. /\ o \in DOMAIN scene.objects
        /\ scene.objects[o].enabled /\ scene.objects[o].place = manifest.objects[o].place
        /\ DOMAIN scene.objects[o].slots = 0 .. manifest.objects[o].slots - 1
    BY <1>2, <2>3 DEF M3SceneAccepted, M3SlotsFit
  <2>5. QED BY <2>1, <2>2, <2>3, <2>4
<1>7. QED BY <1>3, <1>4, <1>5, <1>6

LEMMA ShownInM2 ==
  ASSUME Inv, NEW a \in Agent, held[a] # Idle, edition # "M3", catalog.shows = Catalog.shows
  PROVE  LET b == held[a].doing IN
         /\ a \in scene.views /\ catalog.shows[b] \in scene.animations
         /\ \E x \in held[a].slots :
              /\ x[1] \in DOMAIN scene.objects
              /\ \E n \in DOMAIN scene.objects[x[1]].slots :
                   catalog.shows[b] \in scene.objects[x[1]].slots[n]
<1>1. Running
  BY DEF Inv, HeldInv, Running
<1>2. M2SceneAccepted(scene, objects, catalog) /\ Busy(a) /\ edition = "M1" /\ HoldsOwn
  BY <1>1 DEF Inv, SceneInv, BusyInv, CatalogInv, Running, OwnFits
<1>3. PICK b : b = held[a].doing
  OBVIOUS
<1>4. a = Active /\ b \in {"sleep", "eat_at_home", "work_shift"}
  BY <1>2, <1>3 DEF Busy, Runs, Bodily
<1>5. a \in scene.views
  BY <1>2, <1>4 DEF M2SceneAccepted
<1>6. PICK t \in {"BED", "DINING_SEAT", "WORKSTATION"} :
        /\ \E need \in Needs[b] : need.type = t
        /\ catalog.shows[b] = ShownIn[t] /\ t \in DOMAIN ShownIn
        /\ ShownIn[t] \in {"SLEEP", "EAT", "WORK_STANDING"}
  <2>1. /\ catalog.shows["sleep"] = "SLEEP" /\ catalog.shows["eat_at_home"] = "EAT"
        /\ catalog.shows["work_shift"] = "WORK_STANDING"
    BY FilesOfTheTown
  <2>2. CASE b = "sleep"
    BY <2>1, <2>2 DEF Needs, ShownIn
  <2>3. CASE b = "eat_at_home"
    BY <2>1, <2>3 DEF Needs, ShownIn
  <2>4. CASE b = "work_shift"
    BY <2>1, <2>4 DEF Needs, ShownIn
  <2>5. QED BY <1>4, <2>2, <2>3, <2>4
<1>7. catalog.shows[b] \in scene.animations
  BY <1>2, <1>6 DEF M2SceneAccepted
<1>8. PICK x \in held[a].slots : objects[x[1]].type = t
  BY <1>2, <1>3, <1>6 DEF Busy
<1>9. PICK o : o = x[1]
  OBVIOUS
<1>10. o \in DOMAIN objects /\ objects[o].type = t /\ objects[o].owner = Active
  BY <1>2, <1>4, <1>8, <1>9 DEF Busy, HoldsOwn, Own
<1>11. o \in RequiredObjects(objects, catalog)
  BY <1>10 DEF RequiredObjects
<1>12. o \in DOMAIN scene.objects /\ M2SlotFits(scene.objects[o], t)
  BY <1>2, <1>10, <1>11 DEF M2SceneAccepted
<1>13. \E n \in DOMAIN scene.objects[o].slots :
         catalog.shows[b] \in scene.objects[o].slots[n]
  BY <1>6, <1>12 DEF M2SlotFits
<1>14. QED BY <1>3, <1>5, <1>7, <1>8, <1>9, <1>12, <1>13

LEMMA InvShown == Inv => SceneShowsAll
BY ShownInM3, ShownInM2 DEF SceneShowsAll

(* A client that was accepted can show every action the rules begin.       *)
THEOREM AcceptedSceneShowsAll == Spec => []SceneShowsAll
BY Invariance, InvShown, PTL
=============================================================================
