-------------------------- MODULE TownEngineProofs --------------------------
(***************************************************************************)
(* Theorems about TownEngine for every house, every catalog and both       *)
(* runtime modes. Good is what every context satisfies after every part of *)
(* a minute; one lemma per method of the engine shows that it keeps it,    *)
(* and the chain of a minute is put together from those lemmas. IInv adds  *)
(* what holds between minutes only: trips are in time and ended shifts are *)
(* settled.                                                                *)
(***************************************************************************)
EXTENDS TownEngine, SequenceTheorems, FiniteSetTheorems, WellFoundedInduction, TLAPS

(* None is neither a record of an action nor of a work session.            *)
LEMMA NotNone ==
  /\ \A a \in Action : a # None
  /\ \A s \in Session : s # None
  /\ NewSession \in Session
<1>1. \A a \in Action : a # None
  BY DEF Action, None
<1>2. \A s \in Session : s # None
  BY DEF Session, None
<1>3. NewSession \in Session
  BY DEF Session, NewSession
<1>4. QED BY <1>1, <1>2, <1>3

(* The agent is on the road exactly while its action travels.              *)
Placed(w) == w.at = Traveling <=> w.action # None /\ w.action.phase = "TRAVELING"

(* Slots and the reserved portions belong to the current action, and what  *)
(* is reserved is there.                                                   *)
Held(w) ==
  /\ \A o \in Objects :
       w.slots[o] = IF w.action # None /\ o \in w.action.objects THEN w.action.id ELSE 0
  /\ w.reserved = IF w.action = None THEN 0 ELSE w.action.food
  /\ w.reserved <= w.food

(* Working, and nothing else, belongs to a session, and the session        *)
(* exists.                                                                 *)
Sessioned(w) ==
  w.action # None =>
    /\ w.action.behavior = "work_shift" <=> w.action.session # NoDay
    /\ w.action.session # NoDay => w.sessions[w.action.session] # None

(* A settled session belongs to a shift that has ended.                    *)
Done(w, d) == w.sessions[d] # None /\ w.sessions[d].finalized
Settled(w) == \A d \in Days : Done(w, d) => End(d) <= w.minute

(* The agent is listed where it stands, and the ledger is in order.        *)
Visible(w) ==
  /\ w.present = IF w.at = Traveling THEN {} ELSE {w.at}
  /\ \A i \in 1 .. Len(w.ledger) : w.ledger[i].minute <= w.minute
  /\ \A i \in 2 .. Len(w.ledger) : w.ledger[i - 1].minute <= w.ledger[i].minute

(* The agent only moves between its home and its work, sleeps at home, and *)
(* stands at the destination of what it does; the bed is always there.     *)
Located(w) ==
  /\ "bed" \in w.enabled
  /\ w.at \in {Home, Work, Traveling}
  /\ w.action # None =>
       /\ w.action.dest \in {Home, Work} /\ w.action.origin \in {Home, Work}
       /\ w.action.behavior = "sleep" => w.action.dest = Home
       /\ w.action.phase # "TRAVELING" => w.at = w.action.dest

(* What holds of every context, within a minute as well as after it.       *)
Good(w) ==
  /\ w \in Context /\ Placed(w) /\ Held(w) /\ Sessioned(w) /\ Settled(w)
  /\ Visible(w) /\ Located(w)

(* From w to v no session is lost and no settled one changes.              *)
Kept(w, v) ==
  \A d \in Days :
    w.sessions[d] # None =>
      /\ v.sessions[d] # None
      /\ w.sessions[d].finalized =>
           /\ v.sessions[d].finalized
           /\ v.sessions[d].paid = w.sessions[d].paid
           /\ v.sessions[d].effective = w.sessions[d].effective

(* A decision that leaves a context has not failed.                        *)
LEMMA ContextNotNone == ASSUME NEW w \in Context PROVE w # None
<1>1. "minute" \in DOMAIN w
  BY DEF Context
<1>2. "minute" \notin DOMAIN None
  BY DEF None
<1>3. QED BY <1>1, <1>2

(* Shifts begin and end at minutes.                                        *)
LEMMA ShiftFact ==
  ASSUME NEW d \in Days
  PROVE  d \in Int /\ Start(d) \in Int /\ End(d) \in Int
<1>1. d \in Int
  BY DEF Days
<1>2. d * DayLength \in Int
  BY <1>1, TownConstants
<1>3. QED BY <1>1, <1>2, TownConstants DEF Start, End

(* Needs stay between zero and NeedMax.                                    *)
LEMMA ClampFact == ASSUME NEW x \in Int PROVE Clamp(x) \in 0 .. NeedMax
BY TownConstants DEF Clamp

(* What a minute does to every need is a value of a need again.            *)
LEMMA NeedsFelt ==
  ASSUME NEW w, Good(w)
  PROVE  [n \in Need |-> Clamp(w.needs[n] - PassiveDecay(w, n) + ActiveDelta(w, n))]
           \in [Need -> 0 .. NeedMax]
<1>1. ASSUME NEW n \in Need
      PROVE  w.needs[n] \in Int /\ PassiveDecay(w, n) \in Int /\ ActiveDelta(w, n) \in Int
  <2>1. w.needs[n] \in 0 .. NeedMax /\ Decay[n] \in Nat /\ NeedMax \in Nat
    BY TownConstants DEF Good, Context
  <2>2. Performing(w) => w.action.behavior \in Behaviors
    BY DEF Good, Context, Performing, Action
  <2>3. QED BY <2>1, <2>2, TownConstants DEF PassiveDecay, ActiveDelta
<1>2. QED BY <1>1, ClampFact

(* Nobody is fully rested away from home: only a sleeper gains energy.     *)
Rested(w) == w.needs["energy"] < NeedMax \/ w.at = Home

(* _apply_need_changes: no settled shift is still being worked, so the     *)
(* minute it adds to the session of a worker is not added to a settled     *)
(* one.                                                                    *)
LEMMA ApplyNeedChangesGood ==
  ASSUME NEW w, Good(w), \A d \in Days : Done(w, d) => End(d) < w.minute
  PROVE  LET v == ApplyNeedChanges(w)
         IN  Good(v) /\ Kept(w, v) /\ v.minute = w.minute /\ v.version = w.version
<1> DEFINE new == [n \in Need |-> Clamp(w.needs[n] - PassiveDecay(w, n) + ActiveDelta(w, n))]
           felt == [w EXCEPT !.needs = new]
           day == w.action.session
           v == ApplyNeedChanges(w)
<1>1. Good(felt) /\ felt.sessions = w.sessions /\ felt.minute = w.minute /\ felt.version = w.version
  <2>1. felt \in Context
    BY NeedsFelt DEF Good, Context
  <2>2. /\ felt.at = w.at /\ felt.present = w.present /\ felt.ledger = w.ledger
        /\ felt.minute = w.minute /\ felt.version = w.version
        /\ felt.enabled = w.enabled /\ felt.action = w.action
    BY DEF Good, Context
  <2>3. Visible(felt) /\ Located(felt)
    BY <2>2 DEF Good, Visible, Located
  <2>4. QED BY <2>1, <2>3 DEF Good, Context, Placed, Held, Sessioned, Settled, Done
<1>2. CASE Doing(w, "work_shift") /\ Counted(w, day)
  <2> DEFINE s == w.sessions[day]
             t == [s EXCEPT !.effective = @ + 1]
  <2>1. day \in Days /\ s # None
    BY <1>2 DEF Good, Context, Action, Doing, Performing, Sessioned, NoDay, Counted
  <2>2. s \in Session
    BY <2>1 DEF Good, Context
  <2>3. t \in Session /\ t # None /\ t.finalized = s.finalized
    BY <2>2, NotNone DEF Session
  <2>4. ~s.finalized
    <3>1. w.minute <= End(day) /\ w.minute \in Int
      BY <1>2, TownConstants DEF Counted, Good, Context
    <3>2. QED BY <2>1, <3>1, ShiftFact DEF Done
  <2>5. v = [felt EXCEPT !.sessions[day].effective = @ + 1]
    BY <1>2 DEF ApplyNeedChanges
  <2>6. v.sessions = [w.sessions EXCEPT ![day] = t]
    BY <2>5, <1>1, <2>1 DEF Good, Context
  <2>7. v = [felt EXCEPT !.sessions = v.sessions]
    BY <2>5, <1>1, <2>1 DEF Good, Context
  <2>8. v \in Context
    <3>1. v.sessions \in [Days -> Session \cup {None}]
      BY <2>6, <2>3 DEF Good, Context
    <3>2. QED BY <3>1, <2>7, <1>1 DEF Good, Context
  <2>9. /\ v.minute = w.minute /\ v.version = w.version /\ v.action = w.action /\ v.at = w.at /\ v.slots = w.slots
        /\ v.reserved = w.reserved /\ v.food = w.food
        /\ v.present = w.present /\ v.ledger = w.ledger /\ v.enabled = w.enabled
    BY <2>7 DEF Good, Context
  <2>10. \A d \in Days :
          /\ w.sessions[d] # None <=> v.sessions[d] # None
          /\ Done(v, d) <=> Done(w, d)
          /\ d # day => v.sessions[d] = w.sessions[d]
    BY <2>6, <2>3, <2>1 DEF Good, Context, Done
  <2>11. Kept(w, v)
    BY <2>10, <2>4 DEF Kept, Done
  <2>12. Visible(v) /\ Located(v)
    BY <2>9 DEF Good, Visible, Located
  <2>13. QED
    BY <2>8, <2>9, <2>10, <2>11, <2>12
    DEF Good, Placed, Held, Sessioned, Settled, Context, Action, NoDay
<1>3. CASE ~(Doing(w, "work_shift") /\ Counted(w, day))
  BY <1>1, <1>3 DEF ApplyNeedChanges, Kept
<1>4. QED BY <1>2, <1>3

(* After the needs of a minute are felt nobody is fully rested elsewhere.  *)
LEMMA FeltRested ==
  ASSUME NEW w, Good(w)
  PROVE  Rested(ApplyNeedChanges(w))
<1> DEFINE felt == [w EXCEPT !.needs =
                      [n \in Need |-> Clamp(@[n] - PassiveDecay(w, n) + ActiveDelta(w, n))]]
           v == ApplyNeedChanges(w)
           e == w.needs["energy"] - PassiveDecay(w, "energy") + ActiveDelta(w, "energy")
<1>1. w \in Context /\ "energy" \in Need /\ w.needs["energy"] \in 0 .. NeedMax
  BY TownConstants DEF Good, Context
<1>2. v.needs["energy"] = Clamp(e) /\ v.at = w.at
  <2>1. felt.needs["energy"] = Clamp(e) /\ felt.at = w.at
    BY <1>1 DEF Context
  <2>2. v.needs = felt.needs /\ v.at = felt.at
    BY <1>1 DEF ApplyNeedChanges, Context
  <2>3. QED BY <2>1, <2>2
<1>3. CASE Doing(w, "sleep")
  <2>1. w.action # None /\ w.action.phase = "PERFORMING" /\ w.action.behavior = "sleep"
    BY <1>3 DEF Doing, Performing
  <2>2. w.at = Home
    BY <2>1 DEF Good, Located
  <2>3. QED BY <1>2, <2>2 DEF Rested
<1>4. CASE ~Doing(w, "sleep")
  <2>1. PassiveDecay(w, "energy") = Decay["energy"]
    BY <1>4 DEF PassiveDecay
  <2>2. ActiveDelta(w, "energy") \in Int /\ ActiveDelta(w, "energy") <= 0
    <3>1. CASE Performing(w)
      <4>1. w.action.behavior \in {"idle", "eat_at_home", "work_shift"}
        BY <1>1, <1>4, <3>1 DEF Context, Action, Behaviors, Doing, Performing
      <4>2. QED BY <3>1, <4>1, TownConstants DEF ActiveDelta, Behaviors
    <3>2. CASE ~Performing(w)
      BY <3>2 DEF ActiveDelta
    <3>3. QED BY <3>1, <3>2
  <2>3. Decay["energy"] \in Nat /\ Decay["energy"] > 0 /\ NeedMax \in Nat \ {0}
    BY TownConstants
  <2>4. e \in Int /\ e < NeedMax
    BY <1>1, <2>1, <2>2, <2>3
  <2>5. Clamp(e) < NeedMax
    BY <2>3, <2>4 DEF Clamp
  <2>6. QED BY <1>2, <2>5 DEF Rested
<1>5. QED BY <1>3, <1>4

(* _stage_event: the ledger stays in the order of its minutes.             *)
LEMMA StageGood ==
  ASSUME NEW w, Good(w), NEW type \in EventTypes, NEW day \in Days \cup {NoDay},
         NEW needs \in SUBSET Need
  PROVE  LET v == StageAbout(w, type, day, needs)
         IN  Good(v) /\ v = [w EXCEPT !.ledger = v.ledger]
<1> DEFINE e == [type |-> type, minute |-> w.minute, day |-> day, needs |-> needs]
           v == StageAbout(w, type, day, needs)
<1>1. e \in Told
  BY TownConstants DEF Told, Good, Context
<1>2. Append(w.ledger, e) \in Seq(Told)
  BY <1>1 DEF Good, Context
<1>3. v = [w EXCEPT !.ledger = Append(w.ledger, e)]
  BY DEF StageAbout
<1>4. v \in Context
  BY <1>2, <1>3 DEF Good, Context
<1>5. Visible(v)
  <2>1. /\ v.minute = w.minute /\ v.at = w.at /\ v.present = w.present
        /\ v.ledger = Append(w.ledger, e)
    BY <1>3 DEF Good, Context
  <2>2. w.ledger \in Seq(Told) /\ e.minute = w.minute /\ w.minute \in Int
    BY TownConstants DEF Good, Context
  <2> HIDE DEF v, e
  <2>3. /\ Len(v.ledger) = Len(w.ledger) + 1 /\ v.ledger[Len(w.ledger) + 1] = e
        /\ \A i \in 1 .. Len(w.ledger) : v.ledger[i] = w.ledger[i]
        /\ Len(w.ledger) \in Nat
    BY <1>1, <2>1, <2>2, AppendProperties
  <2>4. ASSUME NEW i \in 1 .. Len(v.ledger) PROVE v.ledger[i].minute <= v.minute
    <3>1. CASE i = Len(w.ledger) + 1
      BY <2>1, <2>2, <2>3, <3>1
    <3>2. CASE i # Len(w.ledger) + 1
      BY <2>1, <2>3, <3>2 DEF Good, Visible
    <3>3. QED BY <3>1, <3>2
  <2>5. ASSUME NEW i \in 2 .. Len(v.ledger) PROVE v.ledger[i - 1].minute <= v.ledger[i].minute
    <3>1. CASE i = Len(w.ledger) + 1
      <4>1. i - 1 \in 1 .. Len(w.ledger) /\ v.ledger[i] = e
        BY <2>3, <3>1
      <4>2. QED BY <2>2, <2>3, <4>1 DEF Good, Visible
    <3>2. CASE i # Len(w.ledger) + 1
      <4>1. i \in 2 .. Len(w.ledger) /\ i - 1 \in 1 .. Len(w.ledger) /\ i \in 1 .. Len(w.ledger)
        BY <2>3, <3>2
      <4>2. QED BY <2>3, <4>1 DEF Good, Visible
    <3>3. QED BY <3>1, <3>2
  <2>6. QED BY <2>1, <2>4, <2>5 DEF Good, Visible
<1>6. QED
  BY <1>3, <1>4, <1>5 DEF Good, Context, Placed, Held, Sessioned, Settled, Done, Located

(* The context with no action left: what Drop leaves of one that holds     *)
(* exactly what its action needs.                                          *)
LEMMA DropFact ==
  ASSUME NEW w, w \in Context, w.action # None,
         \A o \in Objects : w.slots[o] = IF o \in w.action.objects THEN w.action.id ELSE 0,
         w.reserved = w.action.food
  PROVE  LET v == Drop(w)
         IN  /\ v = [w EXCEPT !.slots = v.slots, !.reserved = 0, !.action = None]
             /\ v.slots = [o \in Objects |-> 0]
             /\ v \in Context /\ v.action = None /\ v.reserved = 0
<1> DEFINE v == Drop(w)
           slots == [o \in Objects |-> IF o \in w.action.objects THEN 0 ELSE w.slots[o]]
<1>1. w.action.food \in Int
  BY DEF Context, Action
<1>2. Release(w) = [w EXCEPT !.slots = slots, !.reserved = w.reserved - w.action.food]
  BY DEF Release
<1>3. w.reserved - w.action.food = 0
  BY <1>1
<1>4. slots = [o \in Objects |-> 0]
  OBVIOUS
<1>5. v = [w EXCEPT !.slots = slots, !.reserved = 0, !.action = None]
  BY <1>2, <1>3 DEF Drop, Context
<1>6. v.slots = slots
  BY <1>5 DEF Context
<1>7. v \in Context
  <2>1. slots \in [Objects -> Nat] /\ 0 \in Nat
    BY <1>4
  <2>2. QED BY <2>1, <1>5 DEF Context
<1>8. QED BY <1>4, <1>5, <1>6, <1>7 DEF Context

(* _fail_traveling_action and _cancel_traveling_action.                    *)
LEMMA AbandonTripGood ==
  ASSUME NEW w, Good(w), w.action # None, w.at = Traveling
  PROVE  LET v == AbandonTrip(w)
         IN  /\ Good(v) /\ v.action = None /\ v.minute = w.minute /\ v.version = w.version
             /\ v.sessions = w.sessions /\ v.needs = w.needs
<1> DEFINE u == Drop(w)
           v == AbandonTrip(w)
<1>1. /\ w \in Context /\ w.reserved = w.action.food
      /\ \A o \in Objects : w.slots[o] = IF o \in w.action.objects THEN w.action.id ELSE 0
  BY DEF Good, Held
<1>2. /\ u = [w EXCEPT !.slots = u.slots, !.reserved = 0, !.action = None]
      /\ u.slots = [o \in Objects |-> 0]
      /\ u \in Context /\ u.action = None /\ u.reserved = 0
  BY <1>1, DropFact
<1>3. w.action.origin \in Location
  BY DEF Good, Context, Action
<1>4. v = [u EXCEPT !.at = w.action.origin, !.present = @ \cup {w.action.origin}]
  BY DEF AbandonTrip
<1>5. v \in Context
  <2>1. u.present \cup {w.action.origin} \in SUBSET Location
    BY <1>2, <1>3 DEF Context
  <2>2. QED BY <2>1, <1>2, <1>3, <1>4 DEF Context
<1>6. /\ v.action = None /\ v.minute = w.minute /\ v.version = w.version /\ v.sessions = w.sessions
      /\ v.slots = [o \in Objects |-> 0] /\ v.reserved = 0 /\ v.food = w.food
      /\ v.at = w.action.origin /\ v.present = {w.action.origin} /\ v.ledger = w.ledger
      /\ v.needs = w.needs /\ v.enabled = w.enabled
  <2>1. /\ v.action = u.action /\ v.minute = u.minute /\ v.version = u.version /\ v.sessions = u.sessions
        /\ v.slots = u.slots /\ v.reserved = u.reserved /\ v.food = u.food
        /\ v.at = w.action.origin /\ v.present = u.present \cup {w.action.origin}
        /\ v.ledger = u.ledger /\ v.needs = u.needs /\ v.enabled = u.enabled
    BY <1>2, <1>4 DEF Context
  <2>2. u.minute = w.minute /\ u.version = w.version /\ u.sessions = w.sessions /\ u.food = w.food
        /\ u.present = w.present /\ u.ledger = w.ledger
        /\ u.needs = w.needs /\ u.enabled = w.enabled
    BY <1>1, <1>2 DEF Context
  <2>3. w.present = {}
    BY DEF Good, Visible
  <2>4. QED BY <1>2, <2>1, <2>2, <2>3
<1>7. w.food \in Nat
  BY <1>1 DEF Context
<1>8. Placed(v) /\ Held(v) /\ Sessioned(v)
  BY <1>3, <1>6, <1>7, TownConstants DEF Placed, Held, Sessioned
<1>9. Settled(v)
  BY <1>6 DEF Settled, Done, Good
<1>10. Visible(v) /\ Located(v)
  BY <1>3, <1>6, TownConstants DEF Good, Visible, Located
<1>11. QED BY <1>5, <1>6, <1>8, <1>9, <1>10 DEF Good

(* _resolve_action, served or not.                                         *)
LEMMA ResolveGood ==
  ASSUME NEW w, Good(w), w.action # None, w.action.phase = "PERFORMING"
  PROVE  LET v == Resolve(w)
         IN  /\ Good(v) /\ v.action = None /\ v.minute = w.minute /\ v.version = w.version
             /\ v.sessions = w.sessions /\ v.at = w.at
             /\ v.needs["energy"] = w.needs["energy"]
<1> DEFINE v == Resolve(w)
           fed == [w EXCEPT !.food = @ - w.action.food, !.needs = CompletionNeeds(w)]
           e == [type |-> "MEAL_CONSUMED", minute |-> w.minute, day |-> NoDay, needs |-> {}]
           told == Stage(fed, "MEAL_CONSUMED", NoDay)
<1>1. /\ w \in Context /\ w.reserved = w.action.food /\ w.reserved <= w.food
      /\ \A o \in Objects : w.slots[o] = IF o \in w.action.objects THEN w.action.id ELSE 0
      /\ w.at # Traveling
  BY DEF Good, Held, Placed
<1>2. ASSUME NEW u \in Context, u.action = w.action, u.slots = w.slots,
             u.reserved = w.reserved, u.minute = w.minute, u.version = w.version, u.sessions = w.sessions,
             u.at = w.at, u.enabled = w.enabled,
             Visible(u), v = Drop(u)
      PROVE  /\ Good(v) /\ v.action = None /\ v.minute = w.minute /\ v.version = w.version
             /\ v.sessions = w.sessions /\ v.at = w.at /\ v.needs = u.needs
  <2> HIDE DEF v
  <2>1. /\ v = [u EXCEPT !.slots = v.slots, !.reserved = 0, !.action = None]
        /\ v.slots = [o \in Objects |-> 0]
        /\ v \in Context /\ v.action = None /\ v.reserved = 0
    <3>1. /\ u.action # None /\ u.reserved = u.action.food
          /\ \A o \in Objects : u.slots[o] = IF o \in u.action.objects THEN u.action.id ELSE 0
      BY <1>1, <1>2
    <3>2. v = Drop(u)
      BY <1>2
    <3>3. QED BY <3>1, <3>2, DropFact
  <2>2. v.minute = w.minute /\ v.version = w.version /\ v.sessions = w.sessions /\ v.at = w.at /\ v.food \in Nat
    BY <1>2, <2>1 DEF Context
  <2>3. Placed(v) /\ Held(v) /\ Sessioned(v)
    BY <1>1, <2>1, <2>2 DEF Placed, Held, Sessioned
  <2>4. Settled(v)
    BY <2>2 DEF Settled, Done, Good
  <2>5. v.enabled = u.enabled /\ v.needs = u.needs
    BY <2>1 DEF Context
  <2>6. Located(v)
    BY <1>2, <2>1, <2>2, <2>5 DEF Good, Located
  <2>7. v.present = u.present /\ v.ledger = u.ledger /\ v.minute = u.minute /\ v.at = u.at
    BY <2>1 DEF Context
  <2>8. Visible(v)
    BY <1>2, <2>7 DEF Visible
  <2>9. QED BY <2>1, <2>2, <2>3, <2>4, <2>5, <2>8, <2>6 DEF Good
<1>3. CASE w.action.behavior = "eat_at_home" /\ w.food >= w.action.food
  <2>1. CompletionNeeds(w) \in [Need -> 0 .. NeedMax]
    <3>1. ASSUME NEW n \in Need PROVE w.needs[n] + MealGain[n] \in Int
      <4>1. w.needs[n] \in 0 .. NeedMax
        BY <3>1, <1>1 DEF Context
      <4>2. MealGain[n] \in Nat
        BY <3>1, TownConstants
      <4>3. QED BY <4>1, <4>2
    <3>2. QED BY <3>1, ClampFact DEF CompletionNeeds
  <2>2. w.food - w.action.food \in Nat
    BY <1>1 DEF Context
  <2>3. fed \in Context
    BY <1>1, <2>1, <2>2 DEF Context
  <2>4. e \in Told
    BY <1>1, TownConstants DEF Context, Told, EventTypes
  <2>5. told = [fed EXCEPT !.ledger = Append(w.ledger, e)]
    BY <1>1 DEF Stage, StageAbout, Context
  <2>6. Append(w.ledger, e) \in Seq(Told)
    BY <1>1, <2>4 DEF Context
  <2>7. told \in Context
    BY <2>3, <2>5, <2>6 DEF Context
  <2>8. /\ told.action = w.action /\ told.slots = w.slots /\ told.reserved = w.reserved
        /\ told.minute = w.minute /\ told.version = w.version /\ told.sessions = w.sessions /\ told.at = w.at
        /\ told.enabled = w.enabled /\ told.needs = CompletionNeeds(w)
    BY <1>1, <2>5 DEF Context
  <2>9. v = Drop(told)
    BY <1>3 DEF Resolve
  <2>10. Visible(told)
    <3>1. "MEAL_CONSUMED" \in EventTypes /\ {} \in SUBSET Need /\ NoDay \in Days \cup {NoDay}
      BY DEF EventTypes
    <3>2. Good(StageAbout(w, "MEAL_CONSUMED", NoDay, {}))
      BY <3>1, StageGood
    <3>3. LET x == StageAbout(w, "MEAL_CONSUMED", NoDay, {})
          IN  /\ told.ledger = x.ledger /\ told.minute = x.minute /\ told.at = x.at
              /\ told.present = x.present
      BY <1>1, <2>5 DEF Context, StageAbout
    <3>4. QED BY <3>2, <3>3 DEF Good, Visible
  <2>11. told.needs["energy"] = w.needs["energy"]
    <3>1. w.needs["energy"] \in 0 .. NeedMax /\ MealGain["energy"] = 0 /\ "energy" \in Need
          /\ NeedMax \in Nat
      BY <1>1, TownConstants DEF Context
    <3>2. Clamp(w.needs["energy"] + MealGain["energy"]) = w.needs["energy"]
      BY <3>1 DEF Clamp
    <3>3. QED BY <2>8, <3>1, <3>2 DEF CompletionNeeds
  <2>12. QED BY <1>2, <2>7, <2>8, <2>9, <2>10, <2>11
<1>4. CASE ~(w.action.behavior = "eat_at_home" /\ w.food >= w.action.food)
  <2>1. v = Drop(w) /\ Visible(w)
    BY <1>4 DEF Resolve, Good
  <2>2. QED BY <1>1, <1>2, <2>1
<1>5. QED BY <1>3, <1>4

(* _start_performing: on is the context with the phase already changed.    *)
Starting(w, on) ==
  /\ on = [w EXCEPT !.action.phase = "PERFORMING"]
  /\ on.action # None
  /\ on.action.behavior = w.action.behavior /\ on.action.session = w.action.session
  /\ on.sessions = w.sessions /\ on.minute = w.minute /\ on.version = w.version
  /\ on.needs = w.needs

(* _start_performing opens the session of a shift at most once.            *)
LEMMA StartPerformingGood ==
  ASSUME NEW w, NEW on, Starting(w, on), Good(on)
  PROVE  LET v == StartPerforming(w)
         IN  /\ Good(v) /\ Kept(w, v) /\ v.minute = w.minute /\ v.version = w.version
             /\ v.action = on.action /\ v.at = on.at /\ v.needs = w.needs
<1> DEFINE v == StartPerforming(w)
           day == w.action.session
           s == w.sessions[day]
           first == s.first = Never
           begun == IF s.started THEN on ELSE Stage(on, "WORK_STARTED", day)
           tardy == first /\ w.minute > Start(day) /\ ~s.late
           told == IF tardy THEN Stage(begun, "WORK_LATE", day) ELSE begun
           t == [s EXCEPT !.first = IF first THEN w.minute ELSE @,
                          !.started = TRUE, !.late = @ \/ tardy]
<1>1. on \in Context /\ on.minute \in Nat
  <2>1. on \in Context
    BY DEF Good
  <2>2. on.minute \in 0 .. MaxMinute
    BY <2>1 DEF Context
  <2>3. QED BY <2>1, <2>2
<1>2. /\ on.action # None
      /\ on.action.behavior = w.action.behavior /\ on.action.session = day
      /\ on.sessions = w.sessions /\ on.minute = w.minute /\ on.version = w.version
      /\ on.needs = w.needs
  BY DEF Starting
<1>3. CASE w.action.behavior # "work_shift"
  <2>1. v = on
    BY <1>3 DEF StartPerforming, Starting
  <2>2. QED BY <2>1, <1>2 DEF Kept
<1>4. CASE w.action.behavior = "work_shift"
  <2>1. day \in Days /\ s # None /\ s \in Session
    BY <1>1, <1>2, <1>4 DEF Good, Context, Action, Sessioned, NoDay
  <2>2. Good(begun) /\ begun = [on EXCEPT !.ledger = begun.ledger]
    <3>1. CASE s.started
      BY <3>1, <1>1 DEF Context
    <3>2. CASE ~s.started
      <4>1. "WORK_STARTED" \in EventTypes /\ {} \in SUBSET Need /\ day \in Days \cup {NoDay}
        BY <2>1 DEF EventTypes
      <4>2. begun = StageAbout(on, "WORK_STARTED", day, {})
        BY <3>2 DEF Stage
      <4>3. QED BY <4>1, <4>2, StageGood
    <3>3. QED BY <3>1, <3>2
  <2>3. Good(told) /\ told = [on EXCEPT !.ledger = told.ledger]
    <3> HIDE DEF begun, tardy
    <3>1. CASE tardy
      <4>1. "WORK_LATE" \in EventTypes /\ {} \in SUBSET Need /\ day \in Days \cup {NoDay}
        BY <2>1 DEF EventTypes
      <4>2. told = StageAbout(begun, "WORK_LATE", day, {})
        BY <3>1 DEF Stage
      <4>3. told = [begun EXCEPT !.ledger = told.ledger] /\ Good(told)
        BY <2>2, <4>1, <4>2, StageGood
      <4>4. QED BY <2>2, <4>3, <1>1 DEF Context
    <3>2. CASE ~tardy
      BY <2>2, <3>2
    <3>3. QED BY <3>1, <3>2
  <2>4. told.sessions = w.sessions /\ told.sessions \in [Days -> Session \cup {None}]
    BY <2>3, <1>1, <1>2 DEF Context
  <2>5. v = [told EXCEPT !.sessions[day] = t]
    BY <1>4 DEF StartPerforming, Starting
  <2>6. t \in Session /\ t.finalized = s.finalized /\ t.paid = s.paid /\ t.effective = s.effective
    <3>1. (s.late \/ tardy) \in BOOLEAN
      OBVIOUS
    <3>2. (IF first THEN w.minute ELSE s.first) \in Nat \cup {Never}
      BY <1>1, <1>2, <2>1 DEF Session
    <3> HIDE DEF s, first, tardy
    <3>3. QED BY <2>1, <3>1, <3>2 DEF Session
  <2> HIDE DEF told, t
  <2>7. /\ v.sessions = [w.sessions EXCEPT ![day] = t]
        /\ v = [told EXCEPT !.sessions = v.sessions]
    BY <2>3, <2>4, <2>5 DEF Good, Context
  <2>8. v \in Context
    <3>1. v.sessions \in [Days -> Session \cup {None}]
      BY <2>4, <2>6, <2>7
    <3>2. QED BY <3>1, <2>3, <2>7 DEF Good, Context
  <2>9. /\ v.minute = w.minute /\ v.version = w.version /\ v.action = on.action /\ v.at = on.at /\ v.slots = on.slots
        /\ v.reserved = on.reserved /\ v.food = on.food
    BY <2>3, <2>7, <1>1, <1>2 DEF Context
  <2>10. /\ v.present = told.present /\ v.ledger = told.ledger
        /\ v.minute = told.minute /\ v.at = told.at /\ v.needs = told.needs
        /\ v.enabled = told.enabled /\ v.action = told.action
    BY <2>3, <2>7 DEF Good, Context
  <2>11. told.needs = w.needs
    BY <2>3, <1>1, <1>2 DEF Context
  <2>12. \A d \in Days :
          /\ w.sessions[d] # None <=> v.sessions[d] # None
          /\ Done(v, d) <=> Done(w, d)
          /\ d # day => v.sessions[d] = w.sessions[d]
    BY <2>7, <2>6, <2>4, <2>1, NotNone DEF Done
  <2>13. Kept(w, v)
    <3>1. v.sessions[day] = t
      BY <2>1, <2>4, <2>7
    <3>2. QED BY <2>12, <3>1, <2>6 DEF Kept, Done
  <2>14. Placed(v) /\ Held(v)
    BY <2>9 DEF Good, Placed, Held
  <2>15. Sessioned(v)
    <3>1. v.action.session # NoDay => v.action.session \in Days
      BY <1>1, <1>2, <2>1, <2>9
    <3>2. QED BY <1>2, <2>9, <2>12, <3>1 DEF Good, Sessioned
  <2>16. Settled(v)
    BY <1>2, <2>9, <2>12 DEF Good, Settled, Done
  <2>17. Visible(v) /\ Located(v)
    BY <2>3, <2>10 DEF Good, Visible, Located
  <2>18. QED BY <2>8, <2>9, <2>10, <2>11, <2>13, <2>14, <2>15, <2>16, <2>17 DEF Good
<1>5. QED BY <1>3, <1>4

(* What a part of a minute does to a good context.                         *)
Moves(w, v) ==
  /\ Good(v) /\ Kept(w, v) /\ v.minute = w.minute /\ v.version = w.version
  /\ v.needs["energy"] = w.needs["energy"]

(* Parts of a minute follow one another.                                   *)
LEMMA MovesOn ==
  ASSUME NEW u, NEW v, NEW w, Moves(u, v), Moves(v, w)
  PROVE  Moves(u, w)
BY DEF Moves, Kept

(* What does not sleep and does not walk leaves the agent as rested.       *)
LEMMA RestedOn ==
  ASSUME NEW w, NEW v, Moves(w, v), Rested(w), w.at # Traveling => v.at = w.at
  PROVE  Rested(v)
BY TownConstants DEF Moves, Rested

(* A part of a minute may have nothing to do.                              *)
LEMMA MovesNot == ASSUME NEW w, Good(w) PROVE Moves(w, w)
BY DEF Moves, Kept

(* Nothing but the phase changes, of an agent that stands somewhere.       *)
LEMMA PhaseGood ==
  ASSUME NEW w, w \in Context, Held(w), Sessioned(w), Settled(w), Visible(w), Located(w),
         w.action # None, w.at \in Location, w.at = w.action.dest, NEW phase \in {"ALIGNING", "PERFORMING"}
  PROVE  LET v == [w EXCEPT !.action.phase = phase]
         IN  /\ Good(v) /\ v.minute = w.minute /\ v.version = w.version /\ v.sessions = w.sessions /\ v.at = w.at
             /\ v.action # None /\ v.action = [w.action EXCEPT !.phase = phase]
             /\ v.needs = w.needs
<1> DEFINE v == [w EXCEPT !.action.phase = phase]
           b == [w.action EXCEPT !.phase = phase]
<1>1. w.action \in Action
  BY DEF Context
<1>2. b \in Action /\ b # None /\ b.phase = phase
  BY <1>1, NotNone DEF Action, Phases
<1>3. /\ b.objects = w.action.objects /\ b.id = w.action.id /\ b.food = w.action.food
      /\ b.behavior = w.action.behavior /\ b.session = w.action.session
      /\ b.dest = w.action.dest /\ b.origin = w.action.origin
  BY <1>1 DEF Action
<1>4. v = [w EXCEPT !.action = b]
  OBVIOUS
<1> HIDE DEF v, b
<1>5. v \in Context
  BY <1>2, <1>4 DEF Context
<1>6. /\ v.action = b /\ v.minute = w.minute /\ v.version = w.version /\ v.sessions = w.sessions /\ v.at = w.at
      /\ v.slots = w.slots /\ v.reserved = w.reserved /\ v.food = w.food
      /\ v.present = w.present /\ v.ledger = w.ledger /\ v.enabled = w.enabled
      /\ v.needs = w.needs
  BY <1>4 DEF Context
<1>7. Placed(v)
  BY <1>2, <1>6, TownConstants DEF Placed
<1>8. Held(v)
  BY <1>2, <1>3, <1>6 DEF Held
<1>9. Sessioned(v) /\ Settled(v) /\ Visible(v) /\ Located(v)
  BY <1>2, <1>3, <1>6 DEF Sessioned, Settled, Done, Visible, Located
<1>10. QED BY <1>2, <1>5, <1>6, <1>7, <1>8, <1>9 DEF Good, b, v

(* The first minute of a performance, wherever the phase comes from.       *)
LEMMA BeginGood ==
  ASSUME NEW w, w \in Context, Held(w), Sessioned(w), Settled(w), Visible(w), Located(w),
         w.action # None, w.at \in Location, w.at = w.action.dest
  PROVE  LET v == StartPerforming(w)
         IN  Moves(w, v) /\ v.action # None /\ v.action.phase = "PERFORMING" /\ v.at = w.at
<1> DEFINE on == [w EXCEPT !.action.phase = "PERFORMING"]
<1>1. "PERFORMING" \in {"ALIGNING", "PERFORMING"}
  OBVIOUS
<1>2. /\ Good(on) /\ on.minute = w.minute /\ on.version = w.version /\ on.sessions = w.sessions /\ on.at = w.at
      /\ on.action # None /\ on.action = [w.action EXCEPT !.phase = "PERFORMING"]
      /\ on.needs = w.needs
  BY <1>1, PhaseGood
<1>3. w.action \in Action
  BY DEF Context
<1>4. /\ on.action.behavior = w.action.behavior /\ on.action.session = w.action.session
      /\ on.action.phase = "PERFORMING"
  BY <1>2, <1>3 DEF Action
<1>5. Starting(w, on)
  BY <1>2, <1>4 DEF Starting
<1>6. QED BY <1>2, <1>4, <1>5, StartPerformingGood DEF Moves

(* _arrive_action                                                          *)
LEMMA ArriveGood ==
  ASSUME NEW w, Good(w), w.action # None, w.at = Traveling
  PROVE  Moves(w, Arrive(w)) /\ Arrive(w).at # Traveling
<1> DEFINE here == [w EXCEPT !.at = w.action.dest, !.present = @ \cup {w.action.dest}]
<1>1. w \in Context /\ w.action.dest \in Location
  BY DEF Good, Context, Action
<1>2. here \in Context
  <2>1. w.present \cup {w.action.dest} \in SUBSET Location
    BY <1>1 DEF Context
  <2>2. QED BY <1>1, <2>1 DEF Context
<1>3. /\ here.action = w.action /\ here.minute = w.minute /\ here.version = w.version /\ here.sessions = w.sessions
      /\ here.slots = w.slots /\ here.reserved = w.reserved /\ here.food = w.food
      /\ here.at = w.action.dest /\ here.present = w.present \cup {w.action.dest}
      /\ here.ledger = w.ledger /\ here.enabled = w.enabled /\ here.needs = w.needs
  BY <1>1 DEF Context
<1> HIDE DEF here
<1>4. Traveling \notin Location
  BY TownConstants
<1>5. Held(here) /\ Sessioned(here) /\ Settled(here) /\ Visible(here) /\ Located(here)
  <2>1. here.present = {here.at} /\ here.at # Traveling
    BY <1>1, <1>3, <1>4 DEF Good, Visible
  <2>2. QED BY <1>3, <2>1 DEF Good, Held, Sessioned, Settled, Done, Visible, Located
<1>6. CASE w.minute < w.action.start
  <2>1. Arrive(w) = [here EXCEPT !.action.phase = "ALIGNING"]
    BY <1>6 DEF Arrive, here
  <2>2. /\ Good(Arrive(w)) /\ Arrive(w).minute = here.minute /\ Arrive(w).version = here.version
        /\ Arrive(w).sessions = here.sessions /\ Arrive(w).at = here.at
        /\ Arrive(w).needs = here.needs
    <3>1. /\ here.action # None /\ here.at \in Location /\ here.at = here.action.dest
          /\ "ALIGNING" \in {"ALIGNING", "PERFORMING"}
      BY <1>1, <1>3
    <3>2. QED BY <1>2, <1>5, <2>1, <3>1, PhaseGood
  <2>3. QED BY <1>1, <1>3, <1>4, <2>2 DEF Moves, Kept
<1>7. CASE ~(w.minute < w.action.start)
  <2>1. Arrive(w) = StartPerforming(here)
    BY <1>7 DEF Arrive, here
  <2>2. Moves(here, Arrive(w)) /\ Arrive(w).at = here.at
    BY <1>1, <1>2, <1>3, <1>5, <2>1, BeginGood
  <2>3. QED BY <1>1, <1>3, <1>4, <2>2 DEF Moves, Kept
<1>8. QED BY <1>6, <1>7

(* TripsBounded of a context.                                              *)
InTime(w) ==
  w.at = Traveling =>
    w.minute < w.action.arrival + (IF mode = "UNITY_LIVE" THEN Timeout ELSE 0)

(* A trip that goes on is one whose time has not come.                     *)
LEMMA ProgressGood ==
  ASSUME NEW w, Good(w), mode \in {"HEADLESS_FAST", "UNITY_LIVE"}
  PROVE  Moves(w, Progress(w)) /\ InTime(Progress(w))
           /\ (w.at # Traveling => Progress(w).at = w.at)
<1> DEFINE live == w.action # None /\ w.action.phase = "TRAVELING" /\ mode = "UNITY_LIVE"
<1>1. /\ w.minute \in Int
      /\ w.action # None => w.action.arrival \in Int
      /\ w.at = Traveling <=> w.action # None /\ w.action.phase = "TRAVELING"
  <2>1. w \in Context /\ Placed(w)
    BY DEF Good
  <2>2. w.minute \in 0 .. MaxMinute /\ w.action \in Action \cup {None}
    BY <2>1 DEF Context
  <2>3. QED BY <2>1, <2>2 DEF Placed, Action
<1>2. Timeout \in Nat
  BY TownConstants
<1>3. CASE live /\ TimedOut(w)
  <2>1. Progress(w) = AbandonTrip(w)
    BY <1>3 DEF Progress
  <2>2. w.at = Traveling
    BY <1>1, <1>3
  <2>3. /\ Good(Progress(w)) /\ Progress(w).action = None
        /\ Progress(w).minute = w.minute /\ Progress(w).version = w.version /\ Progress(w).sessions = w.sessions
        /\ Progress(w).needs = w.needs
    BY <1>3, <2>1, <2>2, AbandonTripGood
  <2>4. Progress(w).at # Traveling
    BY <2>3 DEF Good, Placed
  <2>5. QED BY <2>3, <2>4, <2>2 DEF Moves, Kept, InTime
<1>4. CASE live /\ ~TimedOut(w)
  <2>1. Progress(w) = w
    BY <1>4 DEF Progress
  <2>2. InTime(w)
    BY <1>1, <1>2, <1>4 DEF InTime, TimedOut
  <2>3. QED BY <2>1, <2>2, MovesNot
<1>5. CASE ~live
  <2> DEFINE u == ArriveIfDue(w)
             a == AlignIfDue(u)
  <2>1. Moves(w, u) /\ InTime(u) /\ (w.at # Traveling => u.at = w.at)
    <3>1. CASE w.action # None /\ w.action.phase = "TRAVELING" /\ w.minute >= w.action.arrival
      BY <1>1, <3>1, ArriveGood DEF ArriveIfDue, InTime
    <3>2. CASE ~(w.action # None /\ w.action.phase = "TRAVELING" /\ w.minute >= w.action.arrival)
      <4>1. u = w
        BY <3>2 DEF ArriveIfDue
      <4>2. InTime(w)
        BY <1>1, <1>2, <1>5, <3>2 DEF InTime
      <4>3. QED BY <4>1, <4>2, MovesNot
    <3>3. QED BY <3>1, <3>2
  <2> HIDE DEF u
  <2>2. Moves(u, a) /\ InTime(a) /\ a.at = u.at
    <3>1. CASE u.action # None /\ u.action.phase = "ALIGNING" /\ u.minute >= u.action.start
      <4>1. /\ u \in Context /\ Held(u) /\ Sessioned(u) /\ Settled(u)
              /\ Visible(u) /\ Located(u) /\ u.at # Traveling /\ u.at = u.action.dest
        BY <2>1, <3>1 DEF Moves, Good, Placed, Located
      <4>2. u.at \in Location
        BY <4>1 DEF Context
      <4>3. a = StartPerforming(u)
        BY <3>1 DEF AlignIfDue
      <4>4. Moves(u, a) /\ a.at = u.at
        BY <3>1, <4>1, <4>2, <4>3, BeginGood
      <4>5. QED BY <4>1, <4>4 DEF InTime
    <3>2. CASE ~(u.action # None /\ u.action.phase = "ALIGNING" /\ u.minute >= u.action.start)
      <4>1. a = u
        BY <3>2 DEF AlignIfDue
      <4>2. QED BY <2>1, <4>1, MovesNot DEF Moves
    <3>3. QED BY <3>1, <3>2
  <2> HIDE DEF a
  <2>3. Moves(a, ResolveIfDue(a)) /\ InTime(ResolveIfDue(a)) /\ ResolveIfDue(a).at = a.at
    <3>1. CASE Performing(a) /\ a.minute >= a.action.end
      <4>1. Good(a) /\ a.action # None /\ a.action.phase = "PERFORMING"
        BY <2>2, <3>1 DEF Moves, Performing
      <4>2. ResolveIfDue(a) = Resolve(a)
        BY <3>1 DEF ResolveIfDue
      <4>3. /\ Good(Resolve(a)) /\ Resolve(a).action = None
            /\ Resolve(a).minute = a.minute /\ Resolve(a).version = a.version /\ Resolve(a).sessions = a.sessions
            /\ Resolve(a).at = a.at /\ Resolve(a).needs["energy"] = a.needs["energy"]
        BY <4>1, ResolveGood
      <4>4. Resolve(a).at # Traveling
        BY <4>3 DEF Good, Placed
      <4>5. QED BY <4>2, <4>3, <4>4 DEF Moves, Kept, InTime
    <3>2. CASE ~(Performing(a) /\ a.minute >= a.action.end)
      <4>1. ResolveIfDue(a) = a
        BY <3>2 DEF ResolveIfDue
      <4>2. QED BY <2>2, <4>1, MovesNot DEF Moves
    <3>3. QED BY <3>1, <3>2
  <2>4. Progress(w) = ResolveIfDue(a)
    BY <1>5 DEF Progress, u, a
  <2>5. QED BY <2>1, <2>2, <2>3, <2>4, MovesOn
<1>6. QED BY <1>3, <1>4, <1>5

-----------------------------------------------------------------------------
(* Sessions.                                                               *)

(* A minute of the model belongs to a day of the model.                    *)
LEMMA DayFact ==
  ASSUME NEW minute \in 0 .. MaxMinute
  PROVE  /\ minute \div DayLength \in Days
         /\ \A k \in (minute \div DayLength) .. (minute \div DayLength) + WeekLength : k \in Days
<1>1. /\ DayLength \in Nat \ {0} /\ WeekLength \in Nat /\ MaxMinute \in Nat
  BY TownConstants
<1>2. minute \div DayLength \in Nat /\ MaxMinute \div DayLength \in Nat
  BY <1>1
<1>3. minute \div DayLength <= MaxMinute \div DayLength
  BY <1>1
<1>4. QED BY <1>1, <1>2, <1>3 DEF Days

(* _materialize_work_session: the shift of a day gets its session, and one *)
(* that it has is left alone.                                              *)
LEMMA MaterializeGood ==
  ASSUME NEW w, Good(w), NEW day \in Days
  PROVE  LET v == Materialize(w, day)
         IN  /\ Moves(w, v) /\ v.sessions[day] # None
             /\ v.action = w.action /\ v.at = w.at
<1> DEFINE v == Materialize(w, day)
<1>1. CASE HasSession(w, day)
  BY <1>1, MovesNot DEF Materialize, HasSession
<1>2. CASE ~HasSession(w, day)
  <2>1. v = [w EXCEPT !.sessions[day] = NewSession]
    BY <1>2 DEF Materialize
  <2>2. w \in Context /\ w.sessions \in [Days -> Session \cup {None}]
    BY DEF Good, Context
  <2>3. /\ v.sessions = [w.sessions EXCEPT ![day] = NewSession]
        /\ v = [w EXCEPT !.sessions = v.sessions]
    BY <2>1, <2>2 DEF Context
  <2> HIDE DEF v
  <2>4. NewSession \in Session /\ NewSession # None /\ ~NewSession.finalized
    BY NotNone DEF NewSession
  <2>5. v \in Context
    <3>1. v.sessions \in [Days -> Session \cup {None}]
      BY <2>2, <2>3, <2>4
    <3>2. QED BY <3>1, <2>2, <2>3 DEF Context
  <2>6. /\ v.minute = w.minute /\ v.version = w.version /\ v.action = w.action /\ v.at = w.at /\ v.slots = w.slots
        /\ v.reserved = w.reserved /\ v.food = w.food
        /\ v.present = w.present /\ v.ledger = w.ledger /\ v.enabled = w.enabled
        /\ v.needs = w.needs
    BY <2>2, <2>3 DEF Context
  <2>7. \A d \in Days : /\ w.sessions[d] # None => v.sessions[d] = w.sessions[d]
                        /\ Done(v, d) => Done(w, d)
    BY <1>2, <2>2, <2>3, <2>4 DEF HasSession, Done
  <2>8. v.sessions[day] # None
    BY <2>2, <2>3, <2>4
  <2>9. Kept(w, v)
    BY <2>7 DEF Kept
  <2>10. Placed(v) /\ Held(v) /\ Settled(v) /\ Visible(v) /\ Located(v)
    BY <2>6, <2>7 DEF Good, Placed, Held, Settled, Visible, Located
  <2>11. Sessioned(v)
    <3>1. w.action # None /\ w.action.session # NoDay => w.action.session \in Days
      BY <2>2 DEF Context, Action
    <3>2. w.action # None =>
            /\ w.action.behavior = "work_shift" <=> w.action.session # NoDay
            /\ w.action.session # NoDay => w.sessions[w.action.session] # None
      BY DEF Good, Sessioned
    <3>3. w.action # None /\ w.action.session # NoDay => v.sessions[w.action.session] # None
      BY <2>7, <3>1, <3>2
    <3>4. v.action = w.action
      BY <2>6
    <3> HIDE DEF v
    <3>5. QED BY <3>2, <3>3, <3>4 DEF Sessioned
  <2>12. QED BY <2>5, <2>6, <2>8, <2>9, <2>10, <2>11 DEF Good, Moves, v
<1>3. QED BY <1>1, <1>2

(* The last minute of a shift belongs to the shift's day.                  *)
LEMMA EndDayFact ==
  ASSUME NEW d \in Days
  PROVE  End(d) \div DayLength = d
<1>1. d \in Nat
  <2>1. d \in Int /\ d >= 0
    BY DEF Days
  <2>2. QED BY <2>1
<1>2. DayLength \in Nat \ {0} /\ ShiftEnd \in Nat /\ ShiftEnd < DayLength
  BY TownConstants, FrozenCatalog
<1>3. End(d) = d * DayLength + ShiftEnd
  BY DEF End
<1>4. QED BY <1>1, <1>2, <1>3

(* _finalize_work_session_if_due: a session is settled once, at its end.   *)
LEMMA FinalizeGood ==
  ASSUME NEW w, Good(w)
  PROVE  LET v == Finalize(w)
         IN  /\ Moves(w, v) /\ v.action = w.action /\ v.at = w.at
             /\ \A d \in Days : Scheduled(d) /\ w.minute = End(d) => Done(v, d)
<1> DEFINE v == Finalize(w)
           day == w.minute \div DayLength
           opened == Materialize(w, day)
           s == opened.sessions[day]
           t == [s EXCEPT !.finalized = TRUE]
           settled == [opened EXCEPT !.sessions[day].finalized = TRUE]
           paid == [settled EXCEPT !.money = @ + Wage, !.sessions[day].paid = TRUE]
           p == [t EXCEPT !.paid = TRUE]
<1>1. day \in Days /\ w.minute \in Int
  <2>1. w.minute \in 0 .. MaxMinute
    BY DEF Good, Context
  <2>2. QED BY <2>1, DayFact
<1>2. CASE ~Due(w, day, s)
  <2>1. v = w
    BY <1>2 DEF Finalize
  <2>2. ASSUME NEW d \in Days, Scheduled(d), w.minute = End(d) PROVE Done(w, d)
    <3>1. d = day
      BY <2>2, EndDayFact
    <3>2. s.finalized
      BY <1>1, <1>2, <2>2, <3>1 DEF Due
    <3>3. CASE HasSession(w, day)
      BY <3>1, <3>2, <3>3 DEF Materialize, HasSession, Done
    <3>4. CASE ~HasSession(w, day)
      <4>1. w.sessions \in [Days -> Session \cup {None}] /\ w \in Context
        BY DEF Good, Context
      <4>2. opened = [w EXCEPT !.sessions[day] = NewSession]
        BY <3>4 DEF Materialize
      <4>3. s = NewSession
        BY <1>1, <4>1, <4>2 DEF Context
      <4>4. QED BY <3>2, <4>3 DEF NewSession
    <3>5. QED BY <3>3, <3>4
  <2>3. QED BY <2>1, <2>2, MovesNot
<1>3. CASE Due(w, day, s)
  <2>1. /\ Moves(w, opened) /\ opened.sessions[day] # None
        /\ opened.action = w.action /\ opened.at = w.at
    BY <1>1, MaterializeGood
  <2> HIDE DEF day, opened
  <2>2. opened \in Context /\ opened.sessions \in [Days -> Session \cup {None}]
    BY <2>1 DEF Moves, Good, Context
  <2>3. s \in Session /\ ~s.finalized /\ w.minute = End(day)
    BY <1>1, <1>3, <2>1, <2>2 DEF Due
  <2>4. t \in Session /\ t # None /\ p \in Session /\ p # None
    BY <2>3, NotNone DEF Session
  <2>5. settled = [opened EXCEPT !.sessions = [opened.sessions EXCEPT ![day] = t]]
    OBVIOUS
  <2>6. ASSUME NEW u \in Context, NEW x \in Session, x # None,
               u.sessions = [opened.sessions EXCEPT ![day] = x],
               u.minute = w.minute, u.version = w.version, u.action = w.action, u.at = w.at, u.slots = opened.slots,
               u.reserved = opened.reserved, u.food = opened.food,
               u.present = opened.present, u.ledger = opened.ledger,
               u.enabled = opened.enabled, u.needs = opened.needs
        PROVE  Moves(w, u)
    <3>1. \A d \in Days : /\ d # day => u.sessions[d] = opened.sessions[d]
                          /\ opened.sessions[d] # None => u.sessions[d] # None
                          /\ Done(opened, d) => d # day
      BY <2>2, <2>3, <2>6 DEF Done
    <3>2. Kept(w, u)
      <4>1. Kept(opened, u)
        BY <3>1 DEF Kept, Done
      <4>2. QED BY <2>1, <4>1 DEF Moves, Kept
    <3>3. Placed(u) /\ Held(u) /\ Visible(u) /\ Located(u)
      <4>1. Placed(opened) /\ Held(opened) /\ Visible(opened) /\ Located(opened)
        BY <2>1 DEF Moves, Good
      <4>2. /\ u.at = opened.at /\ u.action = opened.action /\ u.enabled = opened.enabled
            /\ u.slots = opened.slots /\ u.reserved = opened.reserved /\ u.food = opened.food
            /\ u.present = opened.present /\ u.ledger = opened.ledger
            /\ u.minute = opened.minute
        BY <2>1, <2>6 DEF Moves
      <4>3. QED BY <4>1, <4>2 DEF Placed, Held, Visible, Located
    <3>4. Settled(u)
      <4>1. ASSUME NEW d \in Days, Done(u, d) PROVE End(d) <= u.minute
        <5>1. CASE d = day
          BY <1>1, <2>3, <2>6, <5>1
        <5>2. CASE d # day
          BY <2>1, <2>6, <3>1, <4>1, <5>2 DEF Done, Moves, Good, Settled
        <5>3. QED BY <5>1, <5>2
      <4>2. QED BY <4>1 DEF Settled
    <3>5. Sessioned(u)
      <4>1. opened.action # None =>
              /\ opened.action.behavior = "work_shift" <=> opened.action.session # NoDay
              /\ opened.action.session # NoDay => opened.sessions[opened.action.session] # None
        BY <2>1 DEF Moves, Good, Sessioned
      <4>2. opened.action # None /\ opened.action.session # NoDay =>
              opened.action.session \in Days
        BY <2>2 DEF Context, Action
      <4>3. opened.action # None /\ opened.action.session # NoDay =>
              u.sessions[opened.action.session] # None
        BY <3>1, <4>1, <4>2
      <4>4. QED BY <2>1, <2>6, <4>1, <4>3 DEF Sessioned
    <3>6. QED BY <2>1, <2>6, <3>2, <3>3, <3>4, <3>5 DEF Moves, Good
  <2> DEFINE u == IF Attended(s, day) THEN paid ELSE settled
             x == IF Attended(s, day) THEN p ELSE t
  <2>7. /\ u \in Context /\ x \in Session /\ x # None
        /\ u.sessions = [opened.sessions EXCEPT ![day] = x]
        /\ u.minute = w.minute /\ u.version = w.version /\ u.action = w.action /\ u.at = w.at
        /\ u.slots = opened.slots /\ u.reserved = opened.reserved /\ u.food = opened.food
        /\ u.present = opened.present /\ u.ledger = opened.ledger
        /\ u.enabled = opened.enabled /\ u.needs = opened.needs
    <3>1. opened.money + Wage \in Nat
      <4>1. opened.money \in Nat
        BY <2>2 DEF Context
      <4>2. Wage \in Nat
        BY TownConstants
      <4>3. QED BY <4>1, <4>2
    <3>2. settled = [opened EXCEPT !.sessions = [opened.sessions EXCEPT ![day] = t]]
      BY <2>5
    <3>3. paid = [opened EXCEPT !.money = @ + Wage,
                                !.sessions = [opened.sessions EXCEPT ![day] = p]]
      BY <1>1, <2>2, <3>2 DEF Context
    <3> HIDE DEF settled, paid, p, t
    <3>4. /\ [opened.sessions EXCEPT ![day] = t] \in [Days -> Session \cup {None}]
          /\ [opened.sessions EXCEPT ![day] = p] \in [Days -> Session \cup {None}]
      BY <2>2, <2>4
    <3>5. opened.minute = w.minute /\ opened.version = w.version /\ opened.action = w.action /\ opened.at = w.at
      BY <2>1 DEF Moves
    <3>6. CASE Attended(s, day)
      BY <2>2, <2>4, <3>1, <3>3, <3>4, <3>5, <3>6 DEF Context
    <3>7. CASE ~Attended(s, day)
      BY <2>2, <2>4, <3>2, <3>4, <3>5, <3>7 DEF Context
    <3>8. QED BY <3>6, <3>7
  <2> HIDE DEF u, x
  <2>8. Moves(w, u)
    BY <2>6, <2>7
  <2> DEFINE type == IF Attended(s, day) THEN "WORK_COMPLETED" ELSE "WORK_MISSED"
  <2>9. v = StageAbout(u, type, day, {})
    BY <1>3 DEF Finalize, Stage, u, day, opened
  <2>10. type \in EventTypes /\ day \in Days \cup {NoDay} /\ {} \in SUBSET Need
    BY <1>1 DEF EventTypes
  <2>11. Good(v) /\ v = [u EXCEPT !.ledger = v.ledger]
    BY <2>8, <2>9, <2>10, StageGood DEF Moves
  <2> HIDE DEF v
  <2>12. /\ v.minute = u.minute /\ v.version = u.version /\ v.sessions = u.sessions
         /\ v.action = u.action /\ v.at = u.at /\ v.needs = u.needs
    BY <2>7, <2>11 DEF Context
  <2>13. ASSUME NEW d \in Days, Scheduled(d), w.minute = End(d) PROVE Done(v, d)
    <3>1. d = day
      BY <2>13, EndDayFact DEF day
    <3>2. x.finalized
      BY <2>3, <2>4 DEF x, t, p, Session
    <3>3. v.sessions[day] = x
      BY <1>1, <2>2, <2>7, <2>12
    <3>4. QED BY <2>7, <3>1, <3>2, <3>3 DEF Done
  <2>14. QED BY <2>7, <2>8, <2>11, <2>12, <2>13 DEF Moves, Kept, v
<1>4. QED BY <1>2, <1>3

(* _update_need_crises                                                     *)
LEMMA UpdateCrisesGood ==
  ASSUME NEW w, Good(w)
  PROVE  LET v == UpdateCrises(w) IN Moves(w, v) /\ v.action = w.action /\ v.at = w.at
<1> DEFINE v == UpdateCrises(w)
           entered == InCrisis(w) \ w.crises
           told == IF entered = {} THEN w ELSE StageAbout(w, "NEED_CRISIS", NoDay, entered)
<1>1. InCrisis(w) \in SUBSET Need /\ entered \in SUBSET Need
  BY DEF InCrisis
<1>2. Good(told) /\ told = [w EXCEPT !.ledger = told.ledger]
  <2>1. w = [w EXCEPT !.ledger = w.ledger]
    BY DEF Good, Context
  <2>2. "NEED_CRISIS" \in EventTypes /\ NoDay \in Days \cup {NoDay}
    BY DEF EventTypes
  <2>3. QED BY <1>1, <2>1, <2>2, StageGood
<1> HIDE DEF told
<1>3. v = [told EXCEPT !.crises = InCrisis(w)]
  BY DEF UpdateCrises, told
<1>4. v \in Context
  BY <1>1, <1>2, <1>3 DEF Good, Context
<1>5. /\ v.minute = w.minute /\ v.version = w.version /\ v.action = w.action /\ v.at = w.at /\ v.slots = w.slots
      /\ v.reserved = w.reserved /\ v.food = w.food /\ v.sessions = w.sessions
      /\ v.present = told.present /\ v.ledger = told.ledger /\ v.minute = told.minute
      /\ v.at = told.at /\ v.enabled = told.enabled /\ v.action = told.action
      /\ v.needs = w.needs
  BY <1>2, <1>3 DEF Good, Context
<1> HIDE DEF v
<1>6. Placed(v) /\ Held(v) /\ Sessioned(v) /\ Settled(v) /\ Visible(v) /\ Located(v)
  BY <1>2, <1>5 DEF Good, Placed, Held, Sessioned, Settled, Done, Visible, Located
<1>7. QED BY <1>4, <1>5, <1>6 DEF Good, Moves, Kept, v

-----------------------------------------------------------------------------
(* The decision.                                                           *)

(* _next_work_window is the first of the coming shifts, if there is one.   *)
LEMMA WindowFact ==
  ASSUME NEW minute \in 0 .. MaxMinute
  PROVE  /\ Window(minute) \in Days \cup {NoDay}
         /\ Window(minute) # NoDay => Window(minute) \in Coming(minute)
<1>1. Coming(minute) \subseteq Days
  BY DayFact DEF Coming
<1>2. CASE Coming(minute) = {}
  BY <1>2 DEF Window
<1>3. CASE Coming(minute) # {}
  <2>1. Coming(minute) \subseteq Nat
    BY <1>1 DEF Days
  <2>2. PICK day \in Coming(minute) : \A later \in Coming(minute) :
          ~(<<later, day>> \in OpToRel(<, Nat))
    BY <1>3, <2>1, WFMin, NatLessThanWellFounded
  <2>3. \A later \in Coming(minute) : day <= later
    <3>1. ASSUME NEW later \in Coming(minute) PROVE day <= later
      <4>1. day \in Nat /\ later \in Nat
        BY <2>1
      <4>2. ~(later < day)
        BY <2>2, <4>1 DEF OpToRel
      <4>3. QED BY <4>1, <4>2
    <3>2. QED BY <3>1
  <2>4. QED BY <1>1, <1>3, <2>3 DEF Window
<1>4. QED BY <1>2, <1>3

(* When a shift may be chosen its session is there.                        *)
LEMMA OpenWindowGood ==
  ASSUME NEW w, Good(w)
  PROVE  LET v == OpenWindow(w)
         IN  /\ Moves(w, v) /\ v.action = w.action /\ v.at = w.at
             /\ LET day == Window(w.minute)
                IN  day # NoDay /\ w.minute >= Start(day) - Lead => v.sessions[day] # None
<1>1. w.minute \in 0 .. MaxMinute
  BY DEF Good, Context
<1>2. Window(w.minute) \in Days \cup {NoDay}
  BY <1>1, WindowFact
<1>3. CASE Window(w.minute) # NoDay /\ w.minute >= Start(Window(w.minute)) - Lead
  BY <1>2, <1>3, MaterializeGood DEF OpenWindow
<1>4. CASE ~(Window(w.minute) # NoDay /\ w.minute >= Start(Window(w.minute)) - Lead)
  BY <1>4, MovesNot DEF OpenWindow
<1>5. QED BY <1>3, <1>4

(* What every candidate of a free agent is.                                *)
Proposal == [behavior: Behaviors, objects: SUBSET Objects, dest: Location,
             travel: Nat, duration: Nat, food: 0 .. 1]

LEMMA CandidatesFact ==
  ASSUME NEW w, Good(w), w.action = None, NEW c \in Candidates(w)
  PROVE  /\ c \in Proposal
         /\ c.dest \in {Home, Work} /\ (c.behavior = "sleep" => c.dest = Home)
         /\ (c.travel = 0 <=> c.dest = w.at)
         /\ c.behavior = "work_shift" =>
              /\ Window(w.minute) # NoDay
              /\ w.minute >= Start(Window(w.minute)) - Lead
<1>1. /\ w.at \in Location /\ w.minute \in Nat
      /\ Window(w.minute) \in Days \cup {NoDay} /\ w.at \in {Home, Work}
  <2>1. w \in Context /\ Placed(w) /\ Located(w)
    BY DEF Good
  <2>2. w.minute \in 0 .. MaxMinute
    BY <2>1 DEF Context
  <2>3. QED BY <2>1, <2>2, WindowFact DEF Context, Placed, Located
<1>2. /\ Travel[w.at][Home] \in Nat /\ Travel[w.at][Work] \in Nat
      /\ Travel[Home][Work] \in Nat
      /\ Home \in Location /\ Work \in Location
      /\ \A b \in Behaviors : Base[b] \in Nat
      /\ Travel[w.at][Home] = 0 <=> Home = w.at
      /\ Travel[w.at][Work] = 0 <=> Work = w.at
  BY <1>1, TownConstants
<1>3. CASE c = IdleChoice(w)
  BY <1>1, <1>2, <1>3 DEF IdleChoice, Choice, Proposal, Behaviors
<1>4. CASE c \in SleepChoices(w)
  <2>1. SleepDuration(w) \in Nat
    <3>1. CASE SleepDuration(w) = Base["sleep"]
      BY <1>2, <3>1 DEF Behaviors
    <3>2. CASE SleepDuration(w) # Base["sleep"]
      <4>1. /\ Window(w.minute) \in Days
            /\ Start(Window(w.minute)) - w.minute - Travel[w.at][Home] - Travel[Home][Work]
                 >= SleepMinimum
            /\ SleepDuration(w) =
                 Start(Window(w.minute)) - w.minute - Travel[w.at][Home] - Travel[Home][Work]
        BY <1>1, <3>2 DEF SleepDuration
      <4>2. Start(Window(w.minute)) \in Int /\ SleepMinimum \in Nat
        BY <4>1, ShiftFact, TownConstants
      <4>3. QED BY <1>1, <1>2, <4>1, <4>2
    <3>3. QED BY <3>1, <3>2
  <2>2. c = Choice("sleep", {"bed"}, Home, Travel[w.at][Home], SleepDuration(w), 0)
    BY <1>4 DEF SleepChoices
  <2>3. QED BY <1>2, <2>1, <2>2 DEF Choice, Proposal, Behaviors, Objects
<1>5. CASE c \in EatChoices(w)
  <2>1. c = Choice("eat_at_home", {"fridge", "seat"}, Home, Travel[w.at][Home],
                   Base["eat_at_home"], 1)
    BY <1>5 DEF EatChoices
  <2>2. QED BY <1>2, <2>1 DEF Choice, Proposal, Behaviors, Objects
<1>6. CASE c \in WorkChoices(w)
  <2> DEFINE day == Window(w.minute)
             travel == Travel[w.at][Work]
             left == End(day) - WorkStart(w, travel, day)
             duration == IF left < Base["work_shift"] THEN left ELSE Base["work_shift"]
  <2>1. /\ day # NoDay /\ w.minute >= Start(day) - Lead /\ duration > 0
        /\ c = Choice("work_shift", {"workstation"}, Work, travel, duration, 0)
    BY <1>6 DEF WorkChoices
  <2>2. Start(day) \in Int /\ End(day) \in Int
    BY <1>1, <2>1, ShiftFact
  <2>3. left \in Int /\ Base["work_shift"] \in Nat
    BY <1>1, <1>2, <2>2 DEF WorkStart, Behaviors
  <2>4. duration \in Nat
    BY <2>1, <2>3
  <2> HIDE DEF duration
  <2>5. QED BY <1>2, <2>1, <2>4 DEF Choice, Proposal, Behaviors, Objects
<1>7. QED BY <1>3, <1>4, <1>5, <1>6 DEF Candidates

(* _create_action of an accepted proposal.                                 *)
LEMMA CreateGood ==
  ASSUME NEW w, Good(w), w.action = None, NEW c \in Proposal, c.food <= w.food - w.reserved,
         c.dest \in {Home, Work}, c.behavior = "sleep" => c.dest = Home,
         c.travel = 0 <=> c.dest = w.at,
         c.behavior = "work_shift" =>
           Window(w.minute) # NoDay /\ w.sessions[Window(w.minute)] # None
  PROVE  Moves(w, Create(w, c)) /\ InTime(Create(w, c))
<1> DEFINE day == IF c.behavior = "work_shift" THEN Window(w.minute) ELSE NoDay
           arrival == w.minute + c.travel
           start == IF day = NoDay THEN arrival ELSE WorkStart(w, c.travel, day)
           id == w.created + 1
           b == [id |-> id, behavior |-> c.behavior, phase |-> "CREATED",
                 objects |-> c.objects, food |-> c.food, dest |-> c.dest,
                 origin |-> w.at, arrival |-> arrival, start |-> start,
                 duration |-> c.duration, end |-> start + c.duration, session |-> day]
           slots == [o \in Objects |-> IF o \in c.objects THEN id ELSE w.slots[o]]
           made == [w EXCEPT !.created = id, !.slots = slots, !.reserved = @ + c.food,
                             !.action = b]
<1>1. /\ w \in Context /\ w.at \in Location /\ w.reserved = 0 /\ w.minute \in Nat
      /\ \A o \in Objects : w.slots[o] = 0
      /\ w.food \in Nat /\ w.created \in Nat
      /\ Window(w.minute) \in Days \cup {NoDay}
  <2>1. w \in Context /\ Placed(w) /\ Held(w)
    BY DEF Good
  <2>2. w.minute \in 0 .. MaxMinute
    BY <2>1 DEF Context
  <2>3. QED BY <2>1, <2>2, WindowFact DEF Context, Placed, Held
<1>2. day \in Days \cup {NoDay} /\ id \in Nat /\ arrival \in Nat /\ c.travel \in Nat
  BY <1>1 DEF Proposal
<1>3. start \in Nat
  <2>1. day # NoDay => Start(day) \in Int
    BY <1>2, ShiftFact
  <2>2. QED BY <1>1, <1>2, <2>1 DEF WorkStart
<1> HIDE DEF day, arrival, start, id
<1>4. \A phase \in Phases : [b EXCEPT !.phase = phase] \in Action
  BY <1>1, <1>2, <1>3 DEF Proposal, Action
<1>5. slots \in [Objects -> Nat] /\ w.reserved + c.food \in Nat /\ w.reserved + c.food = c.food
  BY <1>1, <1>2 DEF Proposal
<1>6. /\ b.objects = c.objects /\ b.id = id /\ b.food = c.food /\ b.session = day
      /\ b.behavior = c.behavior /\ b.arrival = arrival
  OBVIOUS
<1> HIDE DEF b, slots
<1> DEFINE Made(phase, at, present) ==
             [w EXCEPT !.at = at, !.present = present, !.created = id, !.slots = slots,
                       !.reserved = @ + c.food, !.action = [b EXCEPT !.phase = phase]]
(* The action in each phase it may begin with.                             *)
<1>7. ASSUME NEW phase \in Phases, NEW at \in Location \cup {Traveling},
             NEW present \in SUBSET Location, at = Traveling <=> phase = "TRAVELING",
             present = IF at = Traveling THEN {} ELSE {at},
             at \in {c.dest, Traveling}
      PROVE  LET v == Made(phase, at, present)
             IN  /\ Moves(w, v) /\ v.at = at /\ v.sessions = w.sessions /\ v.needs = w.needs
                 /\ v.action = [b EXCEPT !.phase = phase] /\ v.action # None
  <2> DEFINE a == [b EXCEPT !.phase = phase]
             v == Made(phase, at, present)
  <2>1. a \in Action /\ a # None /\ a.phase = phase
    BY <1>4, NotNone DEF Action, b
  <2>2. /\ a.objects = c.objects /\ a.id = id /\ a.food = c.food /\ a.session = day
        /\ a.behavior = c.behavior /\ a.dest = c.dest /\ a.origin = w.at
    BY DEF b
  <2> HIDE DEF a
  <2>3. v = [w EXCEPT !.at = at, !.present = present, !.created = id, !.slots = slots,
                      !.reserved = c.food, !.action = a]
    BY <1>5 DEF a
  <2> HIDE DEF v
  <2>4. v \in Context
    <3>1. c.food \in Nat
      BY <1>5
    <3>2. a \in Action \cup {None}
      BY <2>1
    <3>3. QED BY <1>1, <1>2, <1>5, <2>3, <3>1, <3>2 DEF Context
  <2>5. /\ v.at = at /\ v.action = a /\ v.slots = slots /\ v.reserved = c.food
        /\ v.food = w.food /\ v.sessions = w.sessions /\ v.minute = w.minute /\ v.version = w.version
        /\ v.present = present /\ v.ledger = w.ledger /\ v.enabled = w.enabled
        /\ v.needs = w.needs
    BY <1>1, <2>3 DEF Context
  <2>6. Placed(v)
    BY <1>7, <2>1, <2>5 DEF Placed
  <2>7. Held(v)
    BY <1>1, <2>1, <2>2, <2>5 DEF Held, slots, Proposal
  <2>8. Sessioned(v)
    BY <2>2, <2>5, <1>2 DEF Sessioned, day
  <2>9. Settled(v)
    BY <2>5 DEF Good, Settled, Done
  <2>10. Visible(v)
    BY <1>7, <2>5 DEF Good, Visible
  <2>11. Located(v)
    BY <1>1, <1>7, <2>1, <2>2, <2>5, TownConstants DEF Good, Located
  <2>12. Good(v) /\ Kept(w, v)
    BY <2>4, <2>5, <2>6, <2>7, <2>8, <2>9, <2>10, <2>11 DEF Good, Kept
  <2>13. QED BY <2>1, <2>5, <2>12 DEF Moves, a, v
<1>8. /\ w.present \in SUBSET Location /\ w.present \ {w.at} \in SUBSET Location
      /\ Traveling \notin Location /\ w.present = {w.at}
      /\ "TRAVELING" \in Phases /\ "ALIGNING" \in Phases /\ "PERFORMING" \in Phases
  BY <1>1, TownConstants DEF Context, Phases, Good, Visible
<1>9. CASE c.travel > 0
  <2> DEFINE v == Made("TRAVELING", Traveling, w.present \ {w.at})
  <2>1. Create(w, c) = [made EXCEPT !.at = Traveling, !.present = @ \ {w.at},
                                    !.action.phase = "TRAVELING"]
    BY <1>9 DEF Create, day, arrival, start, id, b, slots
  <2>2. Create(w, c) = v
    BY <1>1, <2>1 DEF Context
  <2> HIDE DEF Made, made
  <2>3. /\ Moves(w, v) /\ v.at = Traveling
        /\ v.action = [b EXCEPT !.phase = "TRAVELING"]
    <3>1. Traveling \in Location \cup {Traveling} /\ w.present \ {w.at} = {}
      BY <1>8
    <3>2. QED BY <1>7, <1>8, <3>1
  <2>4. v.action.arrival = arrival
    BY <2>3 DEF b
  <2> HIDE DEF v
  <2>5. InTime(v)
    BY <1>1, <1>2, <1>9, <2>3, <2>4, TownConstants DEF InTime, Moves, arrival
  <2>6. QED BY <2>2, <2>3, <2>5
<1>10. CASE ~(c.travel > 0)
  <2> DEFINE Here(phase) == Made(phase, w.at, w.present)
  <2>1. \A phase \in {"ALIGNING", "PERFORMING"} : Here(phase) = [made EXCEPT !.action.phase = phase]
    BY <1>1 DEF Context
  <2>2. /\ made.action = b /\ made.sessions = w.sessions /\ made.minute = w.minute
        /\ made.version = w.version /\ made.needs = w.needs
    BY <1>1 DEF Context
  <2> HIDE DEF Made
  <2>3. ASSUME NEW phase \in {"ALIGNING", "PERFORMING"}
        PROVE  /\ Moves(w, Here(phase)) /\ Here(phase).at = w.at
               /\ Here(phase).sessions = w.sessions /\ Here(phase).needs = w.needs
               /\ Here(phase).action = [b EXCEPT !.phase = phase] /\ Here(phase).action # None
    <3>1. /\ phase \in Phases /\ w.at \in Location \cup {Traveling}
          /\ w.at = Traveling <=> phase = "TRAVELING"
          /\ w.at = c.dest /\ w.at # Traveling
      BY <1>1, <1>2, <1>8, <1>10
    <3>2. QED BY <1>7, <1>8, <3>1
  <2> HIDE DEF Here, made
  <2>4. w.at # Traveling
    BY <1>1, <1>8
  <2>5. CASE w.minute < start
    <3>1. Create(w, c) = [made EXCEPT !.action.phase = "ALIGNING"]
      BY <1>10, <2>5 DEF Create, day, arrival, start, id, b, slots, made
    <3>2. Create(w, c) = Here("ALIGNING")
      BY <2>1, <3>1
    <3>3. QED BY <2>3, <2>4, <3>2 DEF InTime
  <2>6. CASE ~(w.minute < start)
    <3> DEFINE on == Here("PERFORMING")
    <3>1. Create(w, c) = StartPerforming(made)
      BY <1>10, <2>6 DEF Create, day, arrival, start, id, b, slots, made
    <3>2. on.action = [b EXCEPT !.phase = "PERFORMING"]
      BY <2>3
    <3>3. on.action.behavior = b.behavior /\ on.action.session = b.session
      BY <3>2 DEF b
    <3>4. Starting(made, on)
      BY <2>1, <2>2, <2>3, <3>3 DEF Starting, Moves
    <3>5. /\ Good(Create(w, c)) /\ Kept(made, Create(w, c)) /\ Create(w, c).minute = w.minute /\ Create(w, c).version = w.version
          /\ Create(w, c).at = w.at /\ Create(w, c).needs = w.needs
      BY <2>2, <2>3, <3>1, <3>4, StartPerformingGood DEF Moves
    <3>6. Kept(w, Create(w, c))
      BY <2>2, <3>5 DEF Kept
    <3>7. QED BY <2>4, <3>5, <3>6 DEF Moves, InTime
  <2>7. QED BY <2>5, <2>6
<1>11. QED BY <1>2, <1>9, <1>10

(* Homes never close.                                                      *)
LEMMA HomeIsOpen ==
  ASSUME NEW minute \in Int
  PROVE  IsOpen(Home, minute)
<1>1. DayLength \in Nat \ {0}
  BY TownConstants
<1>2. minute % DayLength \in 0 .. DayLength - 1
  BY <1>1
<1>3. QED BY <1>1, <1>2, FrozenCatalog DEF IsOpen

(* A shift that has not ended is begun while the workplace is open.        *)
LEMMA WorkIsOpen ==
  ASSUME NEW d \in Days, NEW minute \in Int, Start(d) <= minute, minute < End(d)
  PROVE  IsOpen(Work, minute)
<1>1. d \in Nat
  <2>1. d \in Int /\ d >= 0
    BY DEF Days
  <2>2. QED BY <2>1
<1>2. /\ DayLength \in Nat \ {0} /\ ShiftStart \in Nat /\ ShiftEnd \in Nat
      /\ ShiftEnd <= DayLength
  BY TownConstants
<1>3. d * DayLength + ShiftStart <= minute /\ minute < d * DayLength + ShiftEnd
  BY DEF Start, End
<1> DEFINE r == minute - d * DayLength
<1>4. d * DayLength \in Int
  BY <1>1, <1>2
<1>5. r \in Nat /\ r < DayLength /\ ShiftStart <= r /\ r < ShiftEnd
  BY <1>2, <1>3, <1>4
<1>6. minute = d * DayLength + r
  BY <1>4
<1> HIDE DEF r
<1>7. minute % DayLength = r
  BY <1>1, <1>2, <1>5, <1>6
<1>8. /\ Opens[Work] \in Nat /\ Closes[Work] \in Nat
      /\ Opens[Work] <= ShiftStart /\ ShiftEnd <= Closes[Work]
  BY TownConstants, FrozenCatalog
<1>9. QED BY <1>2, <1>5, <1>7, <1>8 DEF IsOpen

(* Idling where one stands may be refused; no other candidate is.          *)
LEMMA ErrandAccepted ==
  ASSUME NEW w, Good(w), w.action = None, NEW c \in Candidates(w), c # IdleChoice(w)
  PROVE  Accepts(w, c)
<1>1. /\ w.food \in Nat /\ w.reserved = 0 /\ w.at \in Location /\ w.minute \in Int
      /\ Window(w.minute) \in Days \cup {NoDay}
  <2>1. w \in Context /\ Placed(w) /\ Held(w)
    BY DEF Good
  <2>2. w.minute \in 0 .. MaxMinute
    BY <2>1 DEF Context
  <2>3. QED BY <2>1, <2>2, WindowFact DEF Context, Placed, Held
<1>2. Travel[w.at][Home] \in Nat /\ Travel[w.at][Work] \in Nat
  BY <1>1, TownConstants
<1>3. CASE c \in SleepChoices(w)
  <2>1. c = Choice("sleep", {"bed"}, Home, Travel[w.at][Home], SleepDuration(w), 0)
        /\ HasFreeSlot(w, "bed")
    BY <1>3 DEF SleepChoices
  <2>2. IsOpen(Home, w.minute + Travel[w.at][Home])
    BY <1>1, <1>2, HomeIsOpen
  <2>3. QED BY <1>1, <2>1, <2>2 DEF Choice, Accepts
<1>4. CASE c \in EatChoices(w)
  <2>1. /\ c = Choice("eat_at_home", {"fridge", "seat"}, Home, Travel[w.at][Home],
                      Base["eat_at_home"], 1)
        /\ HasFreeSlot(w, "fridge") /\ HasFreeSlot(w, "seat") /\ w.food - w.reserved >= 1
    BY <1>4 DEF EatChoices
  <2>2. IsOpen(Home, w.minute + Travel[w.at][Home])
    BY <1>1, <1>2, HomeIsOpen
  <2>3. QED BY <1>1, <2>1, <2>2 DEF Choice, Accepts
<1>5. CASE c \in WorkChoices(w)
  <2> DEFINE day == Window(w.minute)
             travel == Travel[w.at][Work]
             arrival == WorkStart(w, travel, day)
             left == End(day) - arrival
             duration == IF left < Base["work_shift"] THEN left ELSE Base["work_shift"]
  <2>1. /\ day # NoDay /\ duration > 0 /\ HasFreeSlot(w, "workstation")
        /\ c = Choice("work_shift", {"workstation"}, Work, travel, duration, 0)
    BY <1>5 DEF WorkChoices
  <2>2. day \in Days /\ Start(day) \in Int /\ End(day) \in Int
    BY <1>1, <2>1, ShiftFact
  <2>3. arrival \in Int /\ Start(day) <= arrival
    BY <1>1, <1>2, <2>2 DEF WorkStart
  <2>4. Base["work_shift"] \in Nat
    BY TownConstants DEF Behaviors
  <2>5. arrival < End(day)
    BY <2>1, <2>2, <2>3, <2>4
  <2> HIDE DEF duration, arrival
  <2>6. IsOpen(Work, arrival)
    BY <2>2, <2>3, <2>5, WorkIsOpen
  <2>7. /\ c.behavior = "work_shift" /\ c.objects = {"workstation"} /\ c.dest = Work
        /\ c.travel = travel /\ c.food = 0
    BY <2>1 DEF Choice
  <2>8. QED BY <1>1, <2>1, <2>6, <2>7 DEF Accepts, arrival
<1>6. QED BY <1>3, <1>4, <1>5 DEF Candidates

(* _decide_if_available: whatever the scorer ranks first and second, some  *)
(* choice is accepted.  At home idling is; at work, which may have closed, *)
(* the agent is not fully rested and sleep is a second candidate.          *)
LEMMA SomethingAccepted ==
  ASSUME NEW w, Good(w), w.action = None, Rested(w), NEW ranking \in Rankings(Candidates(w))
  PROVE  Accepts(w, Selected(w, ranking))
<1>1. ranking[1] \in Candidates(w) /\ ranking[2] \in Candidates(w)
      /\ (ranking[1] # ranking[2] \/ Candidates(w) = {ranking[1]})
  BY DEF Rankings
<1>2. /\ w.food \in Nat /\ w.reserved = 0 /\ w.minute \in Int /\ w.at \in {Home, Work}
      /\ \A o \in Objects : w.slots[o] = 0
      /\ "bed" \in w.enabled
  <2>1. w \in Context /\ Placed(w) /\ Held(w) /\ Located(w)
    BY DEF Good
  <2>2. w.minute \in 0 .. MaxMinute
    BY <2>1 DEF Context
  <2>3. QED BY <2>1, <2>2 DEF Context, Placed, Held, Located
<1>3. CASE w.at = Home
  <2>1. IsOpen(Home, w.minute + 0)
    BY <1>2, HomeIsOpen
  <2>2. Accepts(w, IdleChoice(w))
    BY <1>2, <1>3, <2>1 DEF Accepts, IdleChoice, Choice
  <2>3. QED BY <2>2 DEF Selected
<1>4. CASE w.at # Home
  <2> DEFINE sleep == Choice("sleep", {"bed"}, Home, Travel[w.at][Home], SleepDuration(w), 0)
  <2>1. sleep \in Candidates(w)
    <3>1. w.needs["energy"] < NeedMax
      BY <1>4 DEF Rested
    <3>2. HasFreeSlot(w, "bed")
      BY <1>2 DEF HasFreeSlot, Objects
    <3>3. QED BY <3>1, <3>2 DEF Candidates, SleepChoices
  <2>2. IdleChoice(w) \in Candidates(w) /\ sleep # IdleChoice(w)
    BY DEF Candidates, IdleChoice, Choice
  <2> HIDE DEF sleep
  <2>3. ranking[1] # IdleChoice(w) \/ ranking[2] # IdleChoice(w)
    BY <1>1, <2>1, <2>2
  <2>4. Accepts(w, ranking[1]) \/ Accepts(w, ranking[2])
    BY <1>1, <2>3, ErrandAccepted
  <2>5. QED BY <2>4 DEF Selected
<1>5. QED BY <1>3, <1>4

(* What _decide_if_available leaves: always a world, and a good one.       *)
LEMMA DecidedGood ==
  ASSUME NEW w, Good(w), w.action = None, Rested(w),
         LET day == Window(w.minute)
         IN  day # NoDay /\ w.minute >= Start(day) - Lead => w.sessions[day] # None,
         NEW v \in Decided(w)
  PROVE  Moves(w, v) /\ InTime(v) /\ v # None
<1>1. PICK ranking \in Rankings(Candidates(w)) :
         v = Create(w, Selected(w, ranking)) /\ Accepts(w, Selected(w, ranking))
  <2>1. \A d \in {Selected(w, ranking) : ranking \in Rankings(Candidates(w))} : Accepts(w, d)
    BY SomethingAccepted
  <2>2. QED BY <2>1 DEF Decided
<1> DEFINE c == Selected(w, ranking)
<1>2. c \in Candidates(w)
  <2>1. ranking[1] \in Candidates(w) /\ ranking[2] \in Candidates(w)
    BY DEF Rankings
  <2>2. IdleChoice(w) \in Candidates(w)
    BY DEF Candidates
  <2>3. QED BY <2>1, <2>2 DEF Selected
<1> HIDE DEF c
<1>3. c \in Proposal /\ (c.behavior = "work_shift" =>
        Window(w.minute) # NoDay /\ w.minute >= Start(Window(w.minute)) - Lead)
      /\ c.dest \in {Home, Work} /\ (c.behavior = "sleep" => c.dest = Home)
      /\ (c.travel = 0 <=> c.dest = w.at)
  BY <1>2, CandidatesFact
<1>4. c.food <= w.food - w.reserved
  <2>1. w.food - w.reserved >= c.food
    BY <1>1 DEF Accepts, c
  <2>2. c.food \in Int /\ w.food - w.reserved \in Int
    BY <1>3 DEF Good, Context, Proposal
  <2>3. QED BY <2>1, <2>2
<1>5. Moves(w, v) /\ InTime(v)
  BY <1>1, <1>3, <1>4, CreateGood DEF c
<1>6. v # None
  <2>1. v \in Context
    BY <1>5 DEF Moves, Good
  <2>2. QED BY <2>1, ContextNotNone
<1>7. QED BY <1>5, <1>6

-----------------------------------------------------------------------------
(* The invariant and the theorems.                                         *)

(* Every scheduled shift that has ended is settled.                        *)
OnTime(w) == \A d \in Days : Scheduled(d) /\ End(d) <= w.minute => Done(w, d)

(* Within a minute no settled session is lost.                             *)
LEMMA OnTimeKept ==
  ASSUME NEW w, NEW v, OnTime(w), Kept(w, v), v.minute = w.minute
  PROVE  OnTime(v)
BY DEF OnTime, Kept, Done

(* The inductive invariant, of the committed town. That a minute was not   *)
(* raised is part of it: the proof that every minute is accepted needs the *)
(* rest of it, and nothing else.                                           *)
IInv ==
  /\ mode \in {"HEADLESS_FAST", "UNITY_LIVE"} /\ raised = FALSE
  /\ Good(town) /\ InTime(town) /\ OnTime(town)

(* The fixture of the engine satisfies the invariant.                      *)
LEMMA InitIInv == Init => IInv
<1> SUFFICES ASSUME Init PROVE IInv
  OBVIOUS
<1>1. PICK food \in StartFood, enabled \in {Objects, Objects \ {"workstation"}} :
       town = [minute |-> 0, version |-> 0, at |-> Home, present |-> {Home},
               needs |-> StartNeeds,
               action |-> None, created |-> 0, enabled |-> enabled,
               slots |-> [o \in Objects |-> 0], reserved |-> 0,
               food |-> food, money |-> StartMoney,
               sessions |-> [d \in Days |-> None], crises |-> {}, ledger |-> <<>>]
  BY DEF Init
<1>2. /\ Home \in Location /\ Traveling \notin Location /\ food \in Nat /\ StartMoney \in Nat
      /\ StartNeeds \in [Need -> 0 .. NeedMax] /\ MaxMinute \in Nat
  BY TownConstants
<1>3. /\ 0 \in 0 .. MaxMinute /\ <<>> \in Seq(Told)
      /\ [o \in Objects |-> 0] \in [Objects -> Nat]
      /\ [d \in Days |-> None] \in [Days -> Session \cup {None}]
  BY <1>2
<1>4. town \in Context
  BY <1>1, <1>2, <1>3 DEF Context
<1>5. /\ town.at # Traveling /\ town.action = None /\ town.reserved = 0 /\ town.food \in Nat
      /\ \A o \in Objects : town.slots[o] = 0
      /\ \A d \in Days : town.sessions[d] = None
      /\ town.present = {town.at} /\ Len(town.ledger) = 0
      /\ town.at = Home /\ town.enabled = enabled /\ "bed" \in enabled
  BY <1>1, <1>2 DEF Objects
<1>6. /\ Placed(town) /\ Held(town) /\ Sessioned(town) /\ Settled(town) /\ InTime(town)
      /\ Visible(town) /\ Located(town)
  BY <1>5 DEF Placed, Held, Sessioned, Settled, Done, InTime, Visible, Located
<1>7. OnTime(town)
  <2>1. ASSUME NEW d \in Days PROVE ~(End(d) <= town.minute)
    <3>1. d \in Int /\ d >= 0
      BY DEF Days
    <3>2. d * DayLength >= 0 /\ d * DayLength \in Int /\ ShiftEnd > 0 /\ ShiftEnd \in Int
      BY <3>1, TownConstants
    <3>3. QED BY <1>1, <3>2 DEF End
  <2>2. QED BY <2>1 DEF OnTime
<1>8. QED BY <1>4, <1>6, <1>7 DEF Init, IInv, Good

(* assert_world_invariants accepts every good context.                     *)
LEMMA GoodIsConsistent ==
  ASSUME NEW w, Good(w)
  PROVE  Consistent(w)
<1>1. w \in Context /\ Held(w) /\ Visible(w)
  BY DEF Good
<1>2. w.food \in Nat /\ w.reserved \in Nat /\ w.money \in Nat
  BY <1>1 DEF Context
<1>3. \A o \in Objects : w.slots[o] # 0 => w.action # None /\ w.slots[o] = w.action.id
  BY <1>1 DEF Held
<1>4. QED BY <1>1, <1>2, <1>3 DEF Consistent, Visible

(* A commit of a good context is accepted and is the next version.         *)
LEMMA CommitKeeps ==
  ASSUME NEW w, Good(w), Kept(town, w), InTime(w), OnTime(w), w.version = town.version,
         IInv, Commit(w), mode' = mode
  PROVE  IInv' /\ Kept(town, town') /\ town'.version = town.version + 1
<1>1. town' = [w EXCEPT !.version = @ + 1] /\ raised' = raised
  BY GoodIsConsistent DEF Commit
<1>2. Good(w) /\ Kept(town, w) /\ w \in Context
  BY DEF Good
<1>3. w.version + 1 \in Nat
  BY <1>2 DEF Context
<1>4. town' \in Context
  BY <1>1, <1>2, <1>3 DEF Context
<1>5. /\ town'.minute = w.minute /\ town'.action = w.action /\ town'.at = w.at
      /\ town'.slots = w.slots /\ town'.reserved = w.reserved /\ town'.food = w.food
      /\ town'.sessions = w.sessions /\ town'.present = w.present /\ town'.ledger = w.ledger
      /\ town'.enabled = w.enabled /\ town'.version = w.version + 1
  BY <1>1, <1>2 DEF Context
<1>6. Good(town')
  BY <1>2, <1>4, <1>5 DEF Good, Placed, Held, Sessioned, Settled, Done, Visible, Located
<1>7. InTime(town)'
  BY <1>5 DEF InTime
<1>8. Kept(town, town')
  BY <1>2, <1>5 DEF Kept
<1>9. Good(town)' /\ OnTime(town)'
  BY <1>5, <1>6 DEF Good, Placed, Held, Sessioned, Settled, Done, Visible, Located, OnTime
<1>10. QED BY <1>1, <1>5, <1>7, <1>8, <1>9 DEF IInv

(* The new minute, before anything of it is felt.                          *)
LEMMA NewMinuteGood ==
  ASSUME Good(town), town.minute < MaxMinute
  PROVE  LET u == [town EXCEPT !.minute = @ + 1]
         IN  Good(u) /\ \A d \in Days : Done(u, d) => End(d) < u.minute
<1> DEFINE u == [town EXCEPT !.minute = @ + 1]
<1>1. town \in Context
  BY DEF Good
<1>2. /\ u.minute \in 0 .. MaxMinute /\ u.minute = town.minute + 1
      /\ town.minute \in Int
  <2>1. town.minute \in 0 .. MaxMinute
    BY <1>1 DEF Context
  <2>2. u.minute = town.minute + 1
    BY <1>1 DEF Context
  <2>3. QED BY <2>1, <2>2, TownConstants
<1>3. /\ u \in Context /\ u.sessions = town.sessions /\ u.action = town.action
      /\ u.at = town.at /\ u.slots = town.slots /\ u.reserved = town.reserved
      /\ u.food = town.food /\ u.present = town.present /\ u.ledger = town.ledger
      /\ u.version = town.version /\ u.enabled = town.enabled
  BY <1>1, <1>2 DEF Context
<1> HIDE DEF u
<1>4. \A d \in Days : Done(u, d) => End(d) < u.minute
  <2>1. ASSUME NEW d \in Days, Done(u, d) PROVE End(d) < u.minute
    <3>1. End(d) <= town.minute
      BY <1>1, <1>3, <2>1 DEF Good, Settled, Done
    <3>2. QED BY <1>2, <2>1, <3>1, ShiftFact
  <2>2. QED BY <2>1
<1>5. Good(u)
  <2>1. \A d \in Days : Done(u, d) => End(d) <= u.minute
    BY <1>2, <1>4, ShiftFact
  <2>2. Settled(u)
    BY <2>1 DEF Settled
  <2>3. Visible(u)
    <3>1. \A i \in 1 .. Len(town.ledger) :
            town.ledger[i].minute \in Nat /\ town.ledger[i].minute <= town.minute
      <4>1. town.ledger \in Seq(Told)
        BY <1>1 DEF Context
      <4>2. \A i \in 1 .. Len(town.ledger) : town.ledger[i] \in Told
        BY <4>1
      <4>3. QED BY <1>1, <4>2 DEF Good, Visible, Told
    <3>2. \A i \in 1 .. Len(town.ledger) : town.ledger[i].minute <= u.minute
      BY <1>2, <3>1
    <3>3. QED BY <1>1, <1>3, <3>2 DEF Good, Visible
  <2>4. QED BY <1>1, <1>3, <2>2, <2>3 DEF Good, Placed, Held, Sessioned, Located
<1>6. QED BY <1>4, <1>5 DEF u

(* A minute: the chain of contexts from the new minute to the commit.      *)
LEMMA AdvanceKeeps ==
  ASSUME IInv, Advance
  PROVE  IInv' /\ Kept(town, town') /\ town'.version = town.version + 1
<1> DEFINE u == [town EXCEPT !.minute = @ + 1]
<1>1. Good(town) /\ town \in Context /\ mode' = mode
      /\ mode \in {"HEADLESS_FAST", "UNITY_LIVE"}
  BY DEF IInv, Good, Advance
<1>2. /\ u.minute \in 0 .. MaxMinute /\ u.minute = town.minute + 1
      /\ town.minute \in Int
  <2>1. town.minute \in 0 .. MaxMinute /\ town.minute < MaxMinute
    BY <1>1 DEF Context, Advance
  <2>2. u.minute = town.minute + 1
    BY <1>1 DEF Context
  <2>3. QED BY <2>1, <2>2, TownConstants
<1>3. /\ u \in Context /\ u.sessions = town.sessions /\ u.action = town.action
      /\ u.at = town.at /\ u.slots = town.slots /\ u.reserved = town.reserved
      /\ u.food = town.food /\ u.present = town.present /\ u.ledger = town.ledger
      /\ u.version = town.version /\ u.enabled = town.enabled
  BY <1>1, <1>2 DEF Context
<1>4. PICK felt, moved, closed, told, next :
        /\ felt = ApplyNeedChanges(u) /\ moved = Progress(felt) /\ closed = Finalize(moved)
        /\ told = UpdateCrises(closed)
        /\ next \in IF told.action # None THEN {told} ELSE Decided(OpenWindow(told))
        /\ IF next = None THEN Raise ELSE Commit(next)
  BY DEF Advance
<1>5. Good(u) /\ \A d \in Days : Done(u, d) => End(d) < u.minute
  BY <1>1, NewMinuteGood DEF Advance
<1> HIDE DEF u
<1>7. /\ Good(felt) /\ Kept(u, felt) /\ felt.minute = u.minute /\ felt.version = u.version
  BY <1>4, <1>5, ApplyNeedChangesGood
<1>8. Moves(felt, moved) /\ InTime(moved)
  BY <1>1, <1>4, <1>7, ProgressGood DEF Moves
<1>9. /\ Moves(moved, closed) /\ closed.action = moved.action /\ closed.at = moved.at
      /\ \A d \in Days : Scheduled(d) /\ moved.minute = End(d) => Done(closed, d)
  BY <1>4, <1>8, FinalizeGood DEF Moves
<1>10. Moves(closed, told) /\ told.action = closed.action /\ told.at = closed.at
  BY <1>4, <1>9, UpdateCrisesGood DEF Moves
<1>11. Moves(felt, told) /\ InTime(told)
  BY <1>8, <1>9, <1>10, MovesOn DEF InTime, Moves
<1>12. OnTime(told)
  <2>1. Kept(u, closed) /\ closed.minute = town.minute + 1 /\ moved.minute = town.minute + 1
    <3>1. Moves(felt, closed)
      BY <1>8, <1>9, MovesOn
    <3>2. QED BY <1>2, <1>7, <1>8, <3>1 DEF Moves, Kept
  <2>2. ASSUME NEW d \in Days, Scheduled(d), End(d) <= closed.minute PROVE Done(closed, d)
    <3>1. CASE End(d) = town.minute + 1
      BY <1>9, <2>1, <2>2, <3>1
    <3>2. CASE End(d) # town.minute + 1
      <4>1. End(d) <= town.minute
        BY <1>2, <2>1, <2>2, <3>2, ShiftFact
      <4>2. Done(town, d)
        BY <2>2, <4>1 DEF IInv, OnTime
      <4>3. QED BY <1>3, <2>1, <4>2 DEF Kept, Done
    <3>3. QED BY <3>1, <3>2
  <2>3. OnTime(closed)
    BY <2>2 DEF OnTime
  <2>4. QED BY <1>10, <2>3, OnTimeKept DEF Moves
<1>13. Rested(told)
  <2>1. Rested(felt)
    BY <1>4, <1>5, FeltRested
  <2>2. Rested(moved)
    BY <1>1, <1>4, <1>7, <1>8, <2>1, ProgressGood, RestedOn
  <2>3. Rested(closed)
    BY <1>9, <2>2, RestedOn
  <2>4. QED BY <1>10, <2>3, RestedOn
<1>14. Moves(told, next) /\ InTime(next) /\ next # None
  <2>1. CASE told.action # None
    <3>1. next = told /\ Good(told)
      BY <1>4, <1>11, <2>1 DEF Moves
    <3>2. told # None
      <4>1. told \in Context
        BY <3>1 DEF Good
      <4>2. QED BY <4>1, ContextNotNone
    <3>3. QED BY <1>11, <3>1, <3>2, MovesNot
  <2>2. CASE told.action = None
    <3> DEFINE o == OpenWindow(told)
    <3>1. /\ Moves(told, o) /\ o.action = None /\ o.at = told.at
          /\ LET day == Window(told.minute)
             IN  day # NoDay /\ told.minute >= Start(day) - Lead => o.sessions[day] # None
      BY <1>11, <2>2, OpenWindowGood DEF Moves
    <3>2. next \in Decided(o) /\ o.minute = told.minute /\ Good(o)
      BY <1>4, <2>2, <3>1 DEF Moves
    <3> HIDE DEF o
    <3>3. Rested(o)
      BY <1>13, <3>1, RestedOn
    <3>4. Moves(o, next) /\ InTime(next) /\ next # None
      BY <3>1, <3>2, <3>3, DecidedGood
    <3>5. QED BY <3>1, <3>4, MovesOn
  <2>3. QED BY <2>1, <2>2
<1>15. Good(next) /\ Kept(town, next) /\ OnTime(next) /\ next.version = town.version
  <2>1. Moves(felt, next)
    BY <1>11, <1>14, MovesOn
  <2>2. OnTime(next)
    BY <1>12, <1>14, OnTimeKept DEF Moves
  <2>3. QED BY <1>3, <1>7, <2>1, <2>2 DEF Moves, Kept
<1>16. QED BY <1>1, <1>4, <1>14, <1>15, CommitKeeps

(* The reports: a confirmed arrival and an abandoned trip.                 *)
LEMMA ReportKeeps ==
  ASSUME IInv, ReportArrived \/ ReportEnded
  PROVE  IInv' /\ Kept(town, town') /\ town'.version = town.version + 1
<1> DEFINE a == town.action
           start == IF town.minute > a.start THEN town.minute ELSE a.start
           u == [town EXCEPT !.action.start = start, !.action.end = start + a.duration]
<1>1. /\ Good(town) /\ town \in Context /\ mode' = mode
      /\ a # None /\ a \in Action /\ a.phase = "TRAVELING" /\ town.at = Traveling
  BY DEF IInv, Good, Placed, Context, Reportable, ReportArrived, ReportEnded
<1>2. CASE ReportArrived
  <2> DEFINE b == [a EXCEPT !.start = start, !.end = start + a.duration]
  <2>1. start \in Nat /\ start + a.duration \in Nat
    <3>1. town.minute \in 0 .. MaxMinute /\ a.start \in Nat /\ a.duration \in Nat
      BY <1>1 DEF Context, Action
    <3>2. QED BY <3>1
  <2>2. b \in Action /\ b # None
    BY <1>1, <2>1, NotNone DEF Action
  <2>3. /\ b.phase = a.phase /\ b.objects = a.objects /\ b.id = a.id /\ b.food = a.food
        /\ b.behavior = a.behavior /\ b.session = a.session
        /\ b.dest = a.dest /\ b.origin = a.origin
    BY <1>1 DEF Action
  <2>4. u = [town EXCEPT !.action = b]
    BY <1>1 DEF Context
  <2>5. Commit(Arrive(u))
    BY <1>2 DEF ReportArrived
  <2> HIDE DEF b, u
  <2>6. u \in Context
    BY <1>1, <2>2, <2>4 DEF Context
  <2>7. /\ u.action = b /\ u.minute = town.minute /\ u.version = town.version /\ u.sessions = town.sessions
        /\ u.at = town.at /\ u.slots = town.slots /\ u.reserved = town.reserved
        /\ u.food = town.food /\ u.present = town.present /\ u.ledger = town.ledger
        /\ u.enabled = town.enabled
    BY <1>1, <2>4 DEF Context
  <2>8. Placed(u) /\ Held(u)
    BY <1>1, <2>2, <2>3, <2>7 DEF Good, Placed, Held
  <2>9. Sessioned(u) /\ Settled(u) /\ Visible(u) /\ Located(u)
    BY <1>1, <2>2, <2>3, <2>7 DEF Good, Sessioned, Settled, Done, Visible, Located
  <2>10. Moves(u, Arrive(u)) /\ Arrive(u).at # Traveling
    BY <1>1, <2>2, <2>6, <2>7, <2>8, <2>9, ArriveGood DEF Good
  <2>11. /\ Good(Arrive(u)) /\ Kept(town, Arrive(u)) /\ InTime(Arrive(u)) /\ OnTime(Arrive(u))
         /\ Arrive(u).version = town.version
    <3>1. /\ Good(Arrive(u)) /\ Kept(town, Arrive(u)) /\ InTime(Arrive(u))
          /\ Arrive(u).minute = town.minute /\ Arrive(u).version = town.version
      BY <2>7, <2>10 DEF Moves, Kept, InTime
    <3>2. QED BY <3>1, OnTimeKept DEF IInv
  <2>12. QED BY <1>1, <2>5, <2>11, CommitKeeps
<1>3. CASE ReportEnded
  <2> DEFINE v == AbandonTrip(town)
  <2>1. Good(v) /\ v.action = None /\ v.sessions = town.sessions /\ v.minute = town.minute /\ v.version = town.version
    BY <1>1, AbandonTripGood
  <2>2. Kept(town, v) /\ InTime(v)
    BY <2>1 DEF Kept, InTime, Good, Placed
  <2>3. OnTime(v)
    BY <2>1, <2>2, OnTimeKept DEF IInv
  <2>4. Commit(v)
    BY <1>3 DEF ReportEnded
  <2>5. QED BY <1>1, <2>1, <2>2, <2>3, <2>4, CommitKeeps
<1>4. QED BY <1>2, <1>3

(* The invariant is inductive.                                             *)
LEMMA Inductive ==
  IInv /\ [Next]_vars =>
    /\ IInv' /\ Kept(town, town')
    /\ ~UNCHANGED vars => town'.version = town.version + 1
<1> SUFFICES ASSUME IInv, [Next]_vars
             PROVE  /\ IInv' /\ Kept(town, town')
                    /\ ~UNCHANGED vars => town'.version = town.version + 1
  OBVIOUS
<1>1. CASE Advance
  BY <1>1, AdvanceKeeps
<1>2. CASE ReportArrived
  BY <1>2, ReportKeeps
<1>3. CASE ReportEnded
  BY <1>3, ReportKeeps
<1>4. CASE UNCHANGED vars
  BY <1>4 DEF vars, IInv, Good, Placed, Held, Sessioned, Settled, Done, Visible, Located, InTime, OnTime, Kept
<1>5. QED BY <1>1, <1>2, <1>3, <1>4 DEF Next

(* IInv holds of every committed town.                                     *)
LEMMA Invariant == Spec => []IInv
BY InitIInv, Inductive, PTL DEF Spec

(* Every record the M1 engine keeps is well formed after every commit.     *)
THEOREM TypeCorrect == Spec => []TypeOK
<1>1. IInv => TypeOK
  BY DEF IInv, Good, TypeOK
<1>2. QED BY <1>1, Invariant, PTL

(* Slots and food are held exactly for the running action, however it was  *)
(* reached and however the one before it ended.                            *)
THEOREM NothingLeaks == Spec => []HeldForAction
<1>1. IInv => HeldForAction
  BY DEF IInv, Good, Held, HeldForAction
<1>2. QED BY <1>1, Invariant, PTL

(* A trip is over by its arrival minute, or live by its timeout.           *)
THEOREM TripsAreBounded == Spec => []TripsBounded
<1>1. IInv => TripsBounded
  BY DEF IInv, InTime, TripsBounded
<1>2. QED BY <1>1, Invariant, PTL

(* Every scheduled shift is settled in the minute it ends, worked or not,  *)
(* and never before: a shift that ends before midnight on its own day.     *)
THEOREM ShiftsAreSettled == Spec => []ShiftsSettleOnTime
<1>1. IInv => ShiftsSettleOnTime
  BY DEF IInv, Good, Settled, OnTime, Done, ShiftsSettleOnTime
<1>2. QED BY <1>1, Invariant, PTL

(* A settled shift stays settled, with its minutes and its pay.            *)
THEOREM SettledStaysSettled == Spec => SettlementFinal
<1>1. IInv /\ [Next]_vars =>
        [\A d \in Days : town.sessions[d] # None /\ town.sessions[d].finalized =>
           /\ town'.sessions[d].finalized
           /\ town'.sessions[d].paid = town.sessions[d].paid
           /\ town'.sessions[d].effective = town.sessions[d].effective]_vars
  BY Inductive DEF Kept
<1>2. QED BY <1>1, Invariant, PTL DEF Spec, SettlementFinal

(* advance_to never raises: every minute finds something the resolver      *)
(* accepts, and leaves a world the invariants accept.                      *)
THEOREM NothingIsRaised == Spec => []NeverRaises
<1>1. IInv => NeverRaises
  BY DEF IInv, NeverRaises
<1>2. QED BY <1>1, Invariant, PTL
-----------------------------------------------------------------------------
(***************************************************************************)
(* What the ledger and the books say of the shifts.  The second invariant, *)
(* FInv, adds to IInv that the events of a day are what its session lived  *)
(* through (Story), that whoever began a shift is still at it and has all  *)
(* its minutes counted (Attends), that work is planned to last to the end  *)
(* of its shift (Planned) and that money and food are accounted for        *)
(* (Balanced).  Within a minute, Beginning stands for Attends before the   *)
(* needs are felt, and Fair is what every later part keeps.                *)
(***************************************************************************)

(* The engine tells of a shift what its session says, each thing once and  *)
(* a start first.                                                          *)
WorkEvents == {"WORK_STARTED", "WORK_LATE", "WORK_COMPLETED", "WORK_MISSED"}
Lived(s) ==
  IF s = None THEN {}
  ELSE {type \in WorkEvents : \/ type = "WORK_STARTED" /\ s.started
                              \/ type = "WORK_LATE" /\ s.late
                              \/ type = "WORK_COMPLETED" /\ s.paid
                              \/ type = "WORK_MISSED" /\ s.finalized /\ ~s.paid}

(* What a start comes before; live it may follow a shift that was missed.  *)
AfterStart == {"WORK_LATE", "WORK_COMPLETED"} \cup
                (IF mode = "HEADLESS_FAST" THEN {"WORK_MISSED"} ELSE {})

(* The ledger L tells of day d the events of the types T, in order.        *)
Tells(L, d, T) ==
  /\ \A i \in 1 .. Len(L) : L[i].day = d => L[i].type \in T
  /\ \A type \in T : \E i \in 1 .. Len(L) : L[i].type = type /\ L[i].day = d
  /\ \A i, j \in 1 .. Len(L) :
       L[i].day = d /\ L[j].day = d =>
         /\ L[i].type = L[j].type => i = j
         /\ L[i].type = "WORK_STARTED" /\ L[j].type \in AfterStart => i < j

Coherent(s) ==
  s # None => /\ s.started <=> s.first # Never
              /\ s.late => s.started
              /\ s.paid => s.started /\ s.finalized

Story(w) == \A d \in Days : Tells(w.ledger, d, Lived(w.sessions[d])) /\ Coherent(w.sessions[d])

(* A shift that was begun and is not settled is being worked, and every    *)
(* minute of it was counted.                                               *)
Attends(w) ==
  \A d \in Days : w.sessions[d] # None =>
    /\ Scheduled(d)
    /\ w.sessions[d].first # Never =>
         Start(d) <= w.sessions[d].first /\ w.sessions[d].first <= w.minute
    /\ w.sessions[d].first # Never /\ ~w.sessions[d].finalized =>
         /\ w.minute - w.sessions[d].first <= w.sessions[d].effective
         /\ w.minute < End(d) => Doing(w, "work_shift") /\ w.action.session = d
    /\ Done(w, d) /\ w.sessions[d].first # Never /\ w.sessions[d].first <= Start(d) + Grace =>
         w.sessions[d].paid

(* Work is planned within its shift and lasts to its end, and one eats a   *)
(* portion.                                                                *)
Planned(w) ==
  w.action # None =>
    /\ w.action.behavior = "eat_at_home" => w.action.food = 1
    /\ w.action.behavior = "work_shift" =>
         /\ Start(w.action.session) <= w.action.start
         /\ End(w.action.session) <= w.action.end
         /\ w.action.end = w.action.start + w.action.duration
         /\ w.action.phase = "TRAVELING" => w.action.arrival <= w.action.start
         /\ mode = "HEADLESS_FAST" => w.action.start < End(w.action.session)

Waits(w) ==
  w.action # None /\ w.action.phase = "ALIGNING" => w.minute < w.action.start

MealsOf(L) == {i \in 1 .. Len(L) : L[i].type = "MEAL_CONSUMED"}
PaidOf(S) == {d \in Days : S[d] # None /\ S[d].paid}
Balanced(w) ==
  /\ w.money = StartMoney + Wage * Cardinality(PaidOf(w.sessions))
  /\ w.food + Cardinality(MealsOf(w.ledger)) \in StartFood

-----------------------------------------------------------------------------
(* The next event.                                                         *)

LEMMA NextEvent ==
  ASSUME NEW L \in Seq(Told), NEW e \in Told
  PROVE  /\ Len(L) \in Nat /\ Len(Append(L, e)) = Len(L) + 1
         /\ Append(L, e)[Len(L) + 1] = e
         /\ \A i \in 1 .. Len(L) : Append(L, e)[i] = L[i]
         /\ 1 .. Len(Append(L, e)) = (1 .. Len(L)) \cup {Len(L) + 1}
<1>1. /\ Len(L) \in Nat /\ Len(Append(L, e)) = Len(L) + 1
      /\ Append(L, e)[Len(L) + 1] = e
      /\ \A i \in 1 .. Len(L) : Append(L, e)[i] = L[i]
  BY AppendProperties
<1>2. QED BY <1>1

(* An event of another day changes nothing of the story of this one.       *)
LEMMA TellsOther ==
  ASSUME NEW L \in Seq(Told), NEW e \in Told, NEW d, NEW T, Tells(L, d, T), e.day # d
  PROVE  Tells(Append(L, e), d, T)
<1> DEFINE K == Append(L, e)
           n == Len(L)
<1>1. /\ n \in Nat /\ Len(K) = n + 1 /\ K[n + 1] = e
      /\ \A i \in 1 .. n : K[i] = L[i]
      /\ 1 .. Len(K) = (1 .. n) \cup {n + 1}
  BY NextEvent
<1> HIDE DEF K, n
<1>2. \A i \in 1 .. Len(K) : K[i].day = d => i \in 1 .. n /\ K[i] = L[i]
  BY <1>1
<1>3. \A i \in 1 .. n : i \in 1 .. Len(K) /\ K[i] = L[i]
  BY <1>1
<1>4. QED BY <1>2, <1>3 DEF Tells, n, K

(* An event of this day is the next part of its story.                     *)
LEMMA TellsMore ==
  ASSUME NEW L \in Seq(Told), NEW e \in Told, NEW d, NEW T, Tells(L, d, T), e.day = d,
         e.type \notin T, e.type = "WORK_STARTED" => T \cap AfterStart = {}
  PROVE  Tells(Append(L, e), d, T \cup {e.type})
<1> DEFINE K == Append(L, e)
           n == Len(L)
<1>1. /\ n \in Nat /\ Len(K) = n + 1 /\ K[n + 1] = e
      /\ \A i \in 1 .. n : K[i] = L[i]
      /\ 1 .. Len(K) = (1 .. n) \cup {n + 1}
  BY NextEvent
<1> HIDE DEF K, n
<1>2. \A i \in 1 .. n : L[i].day = d => L[i].type \in T
  BY DEF Tells, n
<1>3. \A i \in 1 .. Len(K) : K[i].day = d => K[i].type \in T \cup {e.type}
  BY <1>1, <1>2
<1>4. \A type \in T \cup {e.type} : \E i \in 1 .. Len(K) : K[i].type = type /\ K[i].day = d
  <2>1. \A type \in T : \E i \in 1 .. n : L[i].type = type /\ L[i].day = d
    BY DEF Tells, n
  <2>2. n + 1 \in 1 .. Len(K) /\ K[n + 1].type = e.type /\ K[n + 1].day = d
    BY <1>1
  <2>3. QED BY <1>1, <2>1, <2>2
<1>5. ASSUME NEW i \in 1 .. Len(K), NEW j \in 1 .. Len(K), K[i].day = d, K[j].day = d
      PROVE  /\ K[i].type = K[j].type => i = j
             /\ K[i].type = "WORK_STARTED" /\ K[j].type \in AfterStart => i < j
  <2>1. "WORK_STARTED" \notin AfterStart
    BY DEF AfterStart
  <2>2. CASE i \in 1 .. n /\ j \in 1 .. n
    BY <1>1, <1>5, <2>2 DEF Tells, n
  <2>3. CASE i \in 1 .. n /\ j = n + 1
    <3>1. K[j] = e /\ K[i].type \in T /\ i < j
      BY <1>1, <1>2, <1>5, <2>3
    <3>2. QED BY <3>1
  <2>4. CASE i = n + 1 /\ j \in 1 .. n
    <3>1. K[i] = e /\ K[j].type \in T
      BY <1>1, <1>2, <1>5, <2>4
    <3>2. QED BY <3>1
  <2>5. CASE i = n + 1 /\ j = n + 1
    BY <1>1, <2>1, <2>5
  <2>6. QED BY <1>1, <2>2, <2>3, <2>4, <2>5
<1>6. QED BY <1>3, <1>4, <1>5 DEF Tells, K

(* Meals and paid days can be counted.                                     *)
LEMMA MealsNext ==
  ASSUME NEW L \in Seq(Told), NEW e \in Told
  PROVE  /\ IsFiniteSet(MealsOf(L)) /\ Cardinality(MealsOf(L)) \in Nat
         /\ e.type # "MEAL_CONSUMED" => MealsOf(Append(L, e)) = MealsOf(L)
         /\ e.type = "MEAL_CONSUMED" =>
              Cardinality(MealsOf(Append(L, e))) = Cardinality(MealsOf(L)) + 1
<1> DEFINE K == Append(L, e)
           n == Len(L)
<1>1. /\ n \in Nat /\ Len(K) = n + 1 /\ K[n + 1] = e
      /\ \A i \in 1 .. n : K[i] = L[i]
      /\ 1 .. Len(K) = (1 .. n) \cup {n + 1}
  BY NextEvent
<1>2. MealsOf(L) \subseteq 1 .. n
  BY DEF MealsOf
<1> HIDE DEF K, n
<1>3. IsFiniteSet(MealsOf(L)) /\ Cardinality(MealsOf(L)) \in Nat
  <2>1. IsFiniteSet(1 .. n)
    BY <1>1, FS_Interval
  <2>2. QED BY <1>2, <2>1, FS_Subset, FS_CardinalityType
<1>4. e.type # "MEAL_CONSUMED" => MealsOf(K) = MealsOf(L)
  BY <1>1 DEF MealsOf, n
<1>5. ASSUME e.type = "MEAL_CONSUMED" PROVE Cardinality(MealsOf(K)) = Cardinality(MealsOf(L)) + 1
  <2>1. MealsOf(K) = MealsOf(L) \cup {n + 1}
    BY <1>1, <1>5 DEF MealsOf, n
  <2>2. n + 1 \notin MealsOf(L)
    BY <1>1, <1>2
  <2>3. QED BY <1>3, <2>1, <2>2, FS_AddElement
<1>6. QED BY <1>3, <1>4, <1>5 DEF K

LEMMA PaidNext ==
  ASSUME NEW S, NEW d \in Days, S \in [Days -> Session \cup {None}], NEW t \in Session
  PROVE  LET R == [S EXCEPT ![d] = t]
         IN  /\ IsFiniteSet(PaidOf(S)) /\ Cardinality(PaidOf(S)) \in Nat
             /\ (t.paid <=> d \in PaidOf(S)) => PaidOf(R) = PaidOf(S)
             /\ t.paid /\ d \notin PaidOf(S) =>
                  Cardinality(PaidOf(R)) = Cardinality(PaidOf(S)) + 1
<1> DEFINE R == [S EXCEPT ![d] = t]
<1>1. R[d] = t /\ t # None /\ \A k \in Days : k # d => R[k] = S[k]
  BY NotNone
<1> HIDE DEF R
<1>2. IsFiniteSet(PaidOf(S)) /\ Cardinality(PaidOf(S)) \in Nat
  <2>1. IsFiniteSet(Days)
    <3>1. DayLength \in Nat \ {0} /\ WeekLength \in Nat /\ MaxMinute \in Nat
      BY TownConstants
    <3>2. (MaxMinute \div DayLength) + WeekLength + 1 \in Int
      BY <3>1
    <3>3. QED BY <3>2, FS_Interval DEF Days
  <2>2. PaidOf(S) \subseteq Days
    BY DEF PaidOf
  <2>3. QED BY <2>1, <2>2, FS_Subset, FS_CardinalityType
<1>3. (t.paid <=> d \in PaidOf(S)) => PaidOf(R) = PaidOf(S)
  BY <1>1 DEF PaidOf
<1>4. ASSUME t.paid, d \notin PaidOf(S)
      PROVE  Cardinality(PaidOf(R)) = Cardinality(PaidOf(S)) + 1
  <2>1. PaidOf(R) = PaidOf(S) \cup {d}
    BY <1>1, <1>4 DEF PaidOf
  <2>2. QED BY <1>2, <1>4, <2>1, FS_AddElement
<1>5. QED BY <1>2, <1>3, <1>4 DEF R

(* What a minute keeps, from the moment needs are felt.                    *)
Fair(w) == Story(w) /\ Attends(w) /\ Planned(w) /\ Balanced(w)

(* Whoever works a shift that has not ended does not stop.                 *)
MayStop(w) == \A d \in Days : w.minute < End(d) => ~(Doing(w, "work_shift") /\ w.action.session = d)

SameBooks(w, v) ==
  /\ v.ledger = w.ledger /\ v.sessions = w.sessions /\ v.minute = w.minute
  /\ v.money = w.money /\ v.food = w.food

LEMMA FairKept ==
  ASSUME NEW w, NEW v, Fair(w), SameBooks(w, v),
         \/ v.action = w.action
         \/ MayStop(w) /\ Planned(v)
  PROVE  Fair(v)
<1>1. Story(v) /\ Balanced(v)
  BY DEF Fair, Story, Balanced, SameBooks
<1>2. Planned(v)
  BY DEF Fair, Planned
<1>3. Attends(v)
  <2>1. CASE v.action = w.action
    BY <2>1 DEF Fair, Attends, SameBooks, Doing, Performing, Done
  <2>2. CASE MayStop(w)
    BY <2>2 DEF Fair, Attends, SameBooks, MayStop, Done
  <2>3. QED BY <2>1, <2>2
<1>4. QED BY <1>1, <1>2, <1>3 DEF Fair

(* An event that is not about a shift, and a meal with its portion.        *)
LEMMA FairTold ==
  ASSUME NEW w, NEW v, w \in Context, Fair(w), NEW e \in Told, e.day = NoDay,
         v.ledger = Append(w.ledger, e), v.sessions = w.sessions, v.minute = w.minute,
         v.money = w.money, v.action = w.action,
         v.food = IF e.type = "MEAL_CONSUMED" THEN w.food - 1 ELSE w.food
  PROVE  Fair(v)
<1>1. w.ledger \in Seq(Told) /\ w.food \in Nat
  BY DEF Context
<1>2. Story(v)
  <2>1. ASSUME NEW d \in Days PROVE Tells(v.ledger, d, Lived(v.sessions[d]))
    <3>1. e.day # d
      BY DEF NoDay, Days
    <3>2. QED BY <1>1, <3>1, TellsOther DEF Fair, Story
  <2>2. QED BY <2>1 DEF Fair, Story
<1>3. Balanced(v)
  <2>1. /\ Cardinality(MealsOf(w.ledger)) \in Nat
        /\ e.type # "MEAL_CONSUMED" => MealsOf(v.ledger) = MealsOf(w.ledger)
        /\ e.type = "MEAL_CONSUMED" =>
             Cardinality(MealsOf(v.ledger)) = Cardinality(MealsOf(w.ledger)) + 1
    BY <1>1, MealsNext
  <2>2. v.food + Cardinality(MealsOf(v.ledger)) = w.food + Cardinality(MealsOf(w.ledger))
    BY <1>1, <2>1
  <2>3. QED BY <2>2 DEF Fair, Balanced
<1>4. Attends(v) /\ Planned(v)
  BY DEF Fair, Attends, Planned, Doing, Performing, Done
<1>5. QED BY <1>2, <1>3, <1>4 DEF Fair

-----------------------------------------------------------------------------
(* The parts of a minute.                                                  *)

(* What remains to be felt of a minute that has just begun.                *)
Beginning(w) ==
  \A d \in Days : w.sessions[d] # None =>
    /\ Scheduled(d)
    /\ w.sessions[d].first # Never =>
         Start(d) <= w.sessions[d].first /\ w.sessions[d].first < w.minute
    /\ w.sessions[d].first # Never /\ ~w.sessions[d].finalized =>
         /\ w.minute - w.sessions[d].first <= w.sessions[d].effective + 1
         /\ w.minute <= End(d) /\ Doing(w, "work_shift") /\ w.action.session = d
    /\ Done(w, d) /\ w.sessions[d].first # Never /\ w.sessions[d].first <= Start(d) + Grace =>
         w.sessions[d].paid

LEMMA FeltFact ==
  ASSUME NEW w, Good(w)
  PROVE  LET v == ApplyNeedChanges(w)
         IN  /\ v.ledger = w.ledger /\ v.minute = w.minute /\ v.money = w.money
             /\ v.food = w.food /\ v.action = w.action
             /\ v.sessions =
                  IF Doing(w, "work_shift") /\ Counted(w, w.action.session)
                    THEN [w.sessions EXCEPT ![w.action.session].effective = @ + 1]
                    ELSE w.sessions
<1> DEFINE felt == [w EXCEPT !.needs = [n \in Need |-> Clamp(@[n] - PassiveDecay(w, n)
                                                               + ActiveDelta(w, n))]]
           day == w.action.session
           v == ApplyNeedChanges(w)
<1>1. w \in Context
  BY DEF Good
<1>2. /\ felt.ledger = w.ledger /\ felt.minute = w.minute /\ felt.money = w.money
      /\ felt.food = w.food /\ felt.action = w.action /\ felt.sessions = w.sessions
      /\ DOMAIN felt = DOMAIN w
  BY <1>1 DEF Context
<1> HIDE DEF felt
<1>3. CASE Doing(w, "work_shift") /\ Counted(w, day)
  <2>1. v = [felt EXCEPT !.sessions[day].effective = @ + 1]
    BY <1>3 DEF ApplyNeedChanges, felt
  <2>2. {"ledger", "minute", "money", "food", "action", "sessions"} \subseteq DOMAIN felt
    BY <1>1, <1>2 DEF Context
  <2>3. QED BY <1>2, <1>3, <2>1, <2>2
<1>4. CASE ~(Doing(w, "work_shift") /\ Counted(w, day))
  <2>1. v = felt
    BY <1>4 DEF ApplyNeedChanges, felt
  <2>2. QED BY <1>2, <1>4, <2>1
<1>5. QED BY <1>3, <1>4

LEMMA FeltFair ==
  ASSUME NEW w, Good(w), Story(w), Beginning(w), Planned(w), Balanced(w)
  PROVE  Fair(ApplyNeedChanges(w))
<1> DEFINE v == ApplyNeedChanges(w)
           day == w.action.session
           s == w.sessions[day]
           t == [s EXCEPT !.effective = @ + 1]
           counts == Doing(w, "work_shift") /\ Counted(w, day)
<1>1. /\ v.ledger = w.ledger /\ v.minute = w.minute /\ v.money = w.money
      /\ v.food = w.food /\ v.action = w.action
      /\ v.sessions = IF counts THEN [w.sessions EXCEPT ![day].effective = @ + 1] ELSE w.sessions
  BY FeltFact
<1>2. w.sessions \in [Days -> Session \cup {None}] /\ w.minute \in Nat
  <2>1. w.minute \in 0 .. MaxMinute
    BY DEF Good, Context
  <2>2. QED BY <2>1 DEF Good, Context
<1>3. counts => /\ day \in Days /\ s \in Session
                /\ v.sessions = [w.sessions EXCEPT ![day] = t]
                /\ t \in Session /\ t # None /\ t.effective = s.effective + 1 /\ t.first = s.first
                /\ t.started = s.started /\ t.late = s.late /\ t.finalized = s.finalized
                /\ t.paid = s.paid
  <2> SUFFICES ASSUME counts
               PROVE /\ day \in Days /\ s \in Session
                     /\ v.sessions = [w.sessions EXCEPT ![day] = t]
                     /\ t \in Session /\ t # None /\ t.effective = s.effective + 1 /\ t.first = s.first
                     /\ t.started = s.started /\ t.late = s.late /\ t.finalized = s.finalized
                     /\ t.paid = s.paid
    OBVIOUS
  <2>1. day \in Days /\ s # None
    BY DEF Good, Context, Action, Doing, Performing, Sessioned, NoDay
  <2>2. s \in Session
    BY <1>2, <2>1
  <2>3. /\ t \in Session /\ t.effective = s.effective + 1 /\ t.first = s.first
        /\ t.started = s.started /\ t.late = s.late /\ t.finalized = s.finalized
        /\ t.paid = s.paid
    BY <2>2 DEF Session
  <2>4. v.sessions = [w.sessions EXCEPT ![day] = t]
    BY <1>1
  <2>5. QED BY <2>1, <2>2, <2>3, <2>4, NotNone
<1> HIDE DEF v, t
<1>4. \A d \in Days :
        IF counts /\ d = day THEN v.sessions[d] = t /\ w.sessions[d] = s
                             ELSE v.sessions[d] = w.sessions[d]
  BY <1>1, <1>2, <1>3
<1>5. Story(v)
  <2>1. ASSUME NEW d \in Days
        PROVE  Lived(v.sessions[d]) = Lived(w.sessions[d]) /\ Coherent(v.sessions[d])
    <3>1. Coherent(w.sessions[d])
      BY DEF Story
    <3>2. CASE counts /\ d = day
      <4>1. v.sessions[d] = t /\ w.sessions[d] = s /\ t # None /\ s # None
        BY <1>3, <1>4, <3>2, NotNone
      <4>2. Lived(t) = Lived(s)
        BY <1>3, <3>2, <4>1 DEF Lived
      <4>3. Coherent(t)
        BY <1>3, <3>1, <3>2, <4>1 DEF Coherent
      <4>4. QED BY <4>1, <4>2, <4>3
    <3>3. CASE ~(counts /\ d = day)
      BY <1>4, <3>1, <3>3
    <3>4. QED BY <3>2, <3>3
  <2>2. QED BY <1>1, <2>1 DEF Story
<1>6. Balanced(v)
  <2>1. PaidOf(v.sessions) = PaidOf(w.sessions)
    BY <1>3, <1>4, NotNone DEF PaidOf
  <2>2. QED BY <1>1, <2>1 DEF Balanced
<1>7. Planned(v)
  BY <1>1 DEF Planned
<1>8. Attends(v)
  <2>1. ASSUME NEW d \in Days, v.sessions[d] # None
        PROVE  /\ Scheduled(d)
               /\ v.sessions[d].first # Never =>
                    Start(d) <= v.sessions[d].first /\ v.sessions[d].first <= v.minute
               /\ v.sessions[d].first # Never /\ ~v.sessions[d].finalized =>
                    /\ v.minute - v.sessions[d].first <= v.sessions[d].effective
                    /\ v.minute < End(d) => Doing(v, "work_shift") /\ v.action.session = d
               /\ Done(v, d) /\ v.sessions[d].first # Never /\ v.sessions[d].first <= Start(d) + Grace =>
                    v.sessions[d].paid
    <3>1. w.sessions[d] # None /\ w.sessions[d] \in Session
      BY <1>2, <1>3, <1>4, <2>1, NotNone
    <3>2. /\ v.sessions[d].first = w.sessions[d].first
          /\ v.sessions[d].finalized = w.sessions[d].finalized
          /\ v.sessions[d].paid = w.sessions[d].paid
          /\ v.sessions[d].effective =
               IF counts /\ d = day THEN w.sessions[d].effective + 1 ELSE w.sessions[d].effective
      BY <1>3, <1>4
    <3>3. /\ w.sessions[d].first \in Int /\ w.sessions[d].effective \in Int
      BY <3>1 DEF Session, Never
    <3>4. Start(d) \in Int /\ End(d) \in Int
      BY ShiftFact
    <3>5. ASSUME w.sessions[d].first # Never, ~w.sessions[d].finalized
          PROVE  counts /\ d = day /\ w.minute - w.sessions[d].first <= w.sessions[d].effective + 1
      <4>1. /\ Start(d) <= w.sessions[d].first /\ w.sessions[d].first < w.minute
            /\ w.minute - w.sessions[d].first <= w.sessions[d].effective + 1
            /\ w.minute <= End(d) /\ Doing(w, "work_shift") /\ w.action.session = d
        BY <3>1, <3>5 DEF Beginning
      <4>2. Start(d) < w.minute
        BY <1>2, <3>3, <3>4, <4>1
      <4>3. QED BY <4>1, <4>2 DEF Counted
    <3>6. Doing(v, "work_shift") <=> Doing(w, "work_shift")
      BY <1>1 DEF Doing, Performing
    <3>7. /\ Scheduled(d)
          /\ w.sessions[d].first # Never =>
               Start(d) <= w.sessions[d].first /\ w.sessions[d].first < w.minute
      BY <3>1 DEF Beginning
    <3>8. Done(w, d) /\ w.sessions[d].first # Never /\ w.sessions[d].first <= Start(d) + Grace =>
            w.sessions[d].paid
      BY <3>1 DEF Beginning
    <3>9. v.sessions[d].first # Never /\ ~v.sessions[d].finalized =>
            /\ v.minute - v.sessions[d].first <= v.sessions[d].effective
            /\ v.minute < End(d) => Doing(v, "work_shift") /\ v.action.session = d
      BY <1>1, <3>2, <3>5, <3>6
    <3>10. v.sessions[d].first # Never =>
             Start(d) <= v.sessions[d].first /\ v.sessions[d].first <= v.minute
      BY <1>1, <1>2, <3>2, <3>3, <3>7
    <3>11. Done(v, d) /\ v.sessions[d].first # Never /\ v.sessions[d].first <= Start(d) + Grace =>
             v.sessions[d].paid
      BY <3>1, <3>2, <3>8 DEF Done
    <3>12. QED BY <3>7, <3>9, <3>10, <3>11
  <2>2. QED BY <2>1 DEF Attends
<1>9. QED BY <1>5, <1>6, <1>7, <1>8 DEF Fair, v

Event(w, type, day) == [type |-> type, minute |-> w.minute, day |-> day, needs |-> {}]

(* _start_performing, as the ledger and the session see it.                *)
LEMMA PerformFact ==
  ASSUME NEW w, NEW on, Starting(w, on), Good(on), w.action.behavior = "work_shift"
  PROVE  LET v == StartPerforming(w)
             day == w.action.session
             s == on.sessions[day]
             first == s.first = Never
             tardy == first /\ on.minute > Start(day) /\ ~s.late
             begun == IF s.started THEN on.ledger
                      ELSE Append(on.ledger, Event(on, "WORK_STARTED", day))
         IN  /\ v.action = on.action /\ v.minute = on.minute /\ v.money = on.money /\ v.food = on.food
             /\ v.ledger = IF tardy THEN Append(begun, Event(on, "WORK_LATE", day)) ELSE begun
             /\ v.sessions = [on.sessions EXCEPT ![day] =
                                [s EXCEPT !.first = IF first THEN on.minute ELSE @,
                                          !.started = TRUE, !.late = @ \/ tardy]]
<1> DEFINE v == StartPerforming(w)
           day == w.action.session
           s == w.sessions[day]
           first == s.first = Never
           begun == IF s.started THEN on ELSE Stage(on, "WORK_STARTED", day)
           tardy == first /\ w.minute > Start(day) /\ ~s.late
           told == IF tardy THEN Stage(begun, "WORK_LATE", day) ELSE begun
           t == [s EXCEPT !.first = IF first THEN w.minute ELSE @,
                          !.started = TRUE, !.late = @ \/ tardy]
           fields == {"action", "minute", "money", "food", "ledger", "sessions"}
<1>1. fields \subseteq DOMAIN on /\ on.sessions = w.sessions /\ on.minute = w.minute
  BY DEF Good, Context, Starting
<1>2. v = [told EXCEPT !.sessions[day] = t]
  BY DEF StartPerforming, Starting
<1>3. /\ begun.ledger = IF s.started THEN on.ledger
                        ELSE Append(on.ledger, Event(on, "WORK_STARTED", day))
      /\ begun.action = on.action /\ begun.minute = on.minute /\ begun.money = on.money
      /\ begun.food = on.food /\ begun.sessions = on.sessions /\ DOMAIN begun = DOMAIN on
  BY <1>1 DEF Stage, StageAbout, Event
<1> HIDE DEF begun, t
<1>4. /\ told.ledger = IF tardy THEN Append(begun.ledger, Event(on, "WORK_LATE", day))
                                ELSE begun.ledger
      /\ told.action = on.action /\ told.minute = on.minute /\ told.money = on.money
      /\ told.food = on.food /\ told.sessions = on.sessions /\ DOMAIN told = DOMAIN on
  BY <1>1, <1>3 DEF Stage, StageAbout, Event
<1> HIDE DEF told
<1>5. /\ v.ledger = told.ledger /\ v.action = told.action /\ v.minute = told.minute
      /\ v.money = told.money /\ v.food = told.food
      /\ v.sessions = [told.sessions EXCEPT ![day] = t]
  BY <1>1, <1>2, <1>4
<1>6. QED BY <1>1, <1>3, <1>4, <1>5 DEF t

LEMMA PerformFair ==
  ASSUME NEW w, NEW on, Starting(w, on), Good(on), Fair(on), on.action.phase = "PERFORMING",
         on.action.behavior = "work_shift" =>
           /\ on.action.start <= on.minute
           /\ mode = "HEADLESS_FAST" => on.minute < End(on.action.session)
  PROVE  Fair(StartPerforming(w))
<1> DEFINE v == StartPerforming(w)
<1>1. CASE w.action.behavior # "work_shift"
  <2>1. v = on
    BY <1>1 DEF StartPerforming, Starting
  <2>2. QED BY <2>1
<1>2. CASE w.action.behavior = "work_shift"
  <2> DEFINE day == w.action.session
             s == on.sessions[day]
             first == s.first = Never
             tardy == first /\ on.minute > Start(day) /\ ~s.late
             e == Event(on, "WORK_STARTED", day)
             f == Event(on, "WORK_LATE", day)
             begun == IF s.started THEN on.ledger ELSE Append(on.ledger, e)
             t == [s EXCEPT !.first = IF first THEN on.minute ELSE @,
                            !.started = TRUE, !.late = @ \/ tardy]
  <2>1. /\ v.action = on.action /\ v.minute = on.minute /\ v.money = on.money /\ v.food = on.food
        /\ v.ledger = IF tardy THEN Append(begun, f) ELSE begun
        /\ v.sessions = [on.sessions EXCEPT ![day] = t]
    BY <1>2, PerformFact
  <2>2. /\ on.action # None /\ on.action.behavior = "work_shift" /\ on.action.session = day
        /\ on \in Context /\ Sessioned(on) /\ Settled(on)
    BY <1>2 DEF Starting, Good
  <2>3. day \in Days /\ s # None
    BY <2>2 DEF Context, Action, Sessioned, NoDay
  <2>4. /\ on.sessions \in [Days -> Session \cup {None}] /\ s \in Session
        /\ on.ledger \in Seq(Told) /\ on.minute \in Nat /\ on.action \in Action
    <3>1. on.minute \in 0 .. MaxMinute
      BY <2>2 DEF Context
    <3>2. QED BY <2>2, <2>3, <3>1 DEF Context
  <2>5. e \in Told /\ f \in Told /\ e.day = day /\ f.day = day
        /\ e.type = "WORK_STARTED" /\ f.type = "WORK_LATE"
    BY <2>3, <2>4 DEF Event, Told, EventTypes
  <2>6. /\ t \in Session /\ t # None /\ t.started /\ t.effective = s.effective
        /\ t.finalized = s.finalized /\ t.paid = s.paid /\ t.late = (s.late \/ tardy)
        /\ t.first = IF first THEN on.minute ELSE s.first
    <3>1. (s.late \/ tardy) \in BOOLEAN /\ (IF first THEN on.minute ELSE s.first) \in Nat \cup {Never}
      BY <2>4 DEF Session
    <3> HIDE DEF first, tardy, s
    <3>2. /\ t \in Session /\ t.started /\ t.effective = s.effective
          /\ t.finalized = s.finalized /\ t.paid = s.paid /\ t.late = (s.late \/ tardy)
          /\ t.first = IF first THEN on.minute ELSE s.first
      BY <2>4, <3>1 DEF Session
    <3>3. QED BY <3>2, NotNone
  <2>7. Coherent(s) /\ Tells(on.ledger, day, Lived(s))
    BY <2>3 DEF Fair, Story
  <2>8. s.started <=> ~first
    BY <2>3, <2>7 DEF Coherent
  <2> HIDE DEF t, e, f, v
  <2>9. \A d \in Days : v.sessions[d] = IF d = day THEN t ELSE on.sessions[d]
    BY <2>1, <2>3, <2>4
  <2>10. s.finalized => End(day) <= on.minute
    BY <2>2, <2>3 DEF Settled, Done
  <2>11. Start(day) \in Int /\ End(day) \in Int /\ Start(day) + Grace < End(day)
         /\ Start(day) <= on.minute /\ (mode = "HEADLESS_FAST" => on.minute < End(day))
    <3>1. Start(day) \in Int /\ End(day) \in Int
      BY <2>3, ShiftFact
    <3>2. Start(day) + Grace < End(day)
      <4>1. day * DayLength \in Int /\ ShiftStart \in Int /\ ShiftEnd \in Int /\ Grace \in Int
            /\ Grace < ShiftEnd - ShiftStart
        BY <2>3, TownConstants, FrozenCatalog DEF Days
      <4>2. QED BY <4>1 DEF Start, End
    <3>3. Start(day) <= on.action.start /\ on.action.start <= on.minute
      BY <2>2 DEF Fair, Planned
    <3>4. on.action.start \in Int
      BY <2>4 DEF Action
    <3>5. QED BY <2>2, <2>4, <3>1, <3>2, <3>3, <3>4
  <2>12. begun \in Seq(Told)
    BY <2>4, <2>5
  <2>13. Tells(v.ledger, day, Lived(t))
    <3>1. CASE s.started
      <4>1. v.ledger = on.ledger
        BY <2>1, <2>8, <3>1
      <4>2. Lived(t) = Lived(s)
        BY <2>3, <2>6, <2>8, <3>1 DEF Lived
      <4>3. QED BY <2>7, <4>1, <4>2
    <3>2. CASE ~s.started
      <4>1. ~s.late /\ ~s.paid
        BY <2>3, <2>7, <3>2 DEF Coherent
      <4>2. Lived(s) \cap AfterStart = {} /\ "WORK_STARTED" \notin Lived(s)
            /\ "WORK_LATE" \notin Lived(s)
        BY <2>4, <2>10, <2>11, <3>2, <4>1 DEF Lived, AfterStart
      <4>3. Tells(begun, day, Lived(s) \cup {"WORK_STARTED"})
        BY <2>4, <2>5, <2>7, <3>2, <4>2, TellsMore
      <4>4. CASE tardy
        <5>1. Tells(Append(begun, f), day, (Lived(s) \cup {"WORK_STARTED"}) \cup {f.type})
          BY <2>5, <2>12, <4>2, <4>3, TellsMore
        <5>2. Lived(t) = (Lived(s) \cup {"WORK_STARTED"}) \cup {f.type}
          BY <2>3, <2>5, <2>6, <4>4 DEF Lived, WorkEvents
        <5>3. QED BY <2>1, <4>4, <5>1, <5>2
      <4>5. CASE ~tardy
        <5>1. Lived(t) = Lived(s) \cup {"WORK_STARTED"}
          BY <2>3, <2>6, <4>5 DEF Lived, WorkEvents
        <5>2. QED BY <2>1, <4>3, <4>5, <5>1
      <4>6. QED BY <4>4, <4>5
    <3>3. QED BY <3>1, <3>2
  <2>14. Coherent(t)
    BY <2>3, <2>4, <2>6, <2>7 DEF Coherent, Never
  <2>15. Story(v)
    <3>1. ASSUME NEW d \in Days, d # day PROVE Tells(v.ledger, d, Lived(v.sessions[d]))
      <4>1. Tells(on.ledger, d, Lived(on.sessions[d])) /\ v.sessions[d] = on.sessions[d]
        BY <2>9, <3>1 DEF Fair, Story
      <4>2. Tells(begun, d, Lived(on.sessions[d]))
        BY <2>4, <2>5, <3>1, <4>1, TellsOther
      <4>3. Tells(Append(begun, f), d, Lived(on.sessions[d]))
        BY <2>5, <2>12, <3>1, <4>2, TellsOther
      <4>4. QED BY <2>1, <4>1, <4>2, <4>3
    <3>2. QED BY <2>9, <2>13, <2>14, <3>1 DEF Fair, Story
  <2>16. Balanced(v)
    <3>1. PaidOf(v.sessions) = PaidOf(on.sessions)
      BY <2>3, <2>6, <2>9 DEF PaidOf
    <3>2. MealsOf(begun) = MealsOf(on.ledger) /\ MealsOf(Append(begun, f)) = MealsOf(begun)
      BY <2>4, <2>5, <2>12, MealsNext
    <3>3. QED BY <2>1, <3>1, <3>2 DEF Fair, Balanced
  <2>17. Planned(v)
    BY <2>1 DEF Fair, Planned
  <2>18. Attends(v)
    <3>1. ASSUME NEW d \in Days, v.sessions[d] # None
          PROVE  /\ Scheduled(d)
                 /\ v.sessions[d].first # Never =>
                      Start(d) <= v.sessions[d].first /\ v.sessions[d].first <= v.minute
                 /\ v.sessions[d].first # Never /\ ~v.sessions[d].finalized =>
                      /\ v.minute - v.sessions[d].first <= v.sessions[d].effective
                      /\ v.minute < End(d) => Doing(v, "work_shift") /\ v.action.session = d
                 /\ Done(v, d) /\ v.sessions[d].first # Never /\ v.sessions[d].first <= Start(d) + Grace =>
                      v.sessions[d].paid
      <4>1. Doing(v, "work_shift") /\ v.action.session = day
        BY <2>1, <2>2 DEF Doing, Performing
      <4>2. CASE d # day
        <5>1. v.sessions[d] = on.sessions[d]
          BY <2>9, <4>2
        <5>2. on.sessions[d].first # Never /\ ~on.sessions[d].finalized => ~(on.minute < End(d))
          BY <2>2, <3>1, <4>2, <5>1 DEF Fair, Attends
        <5>3. QED BY <2>1, <3>1, <5>1, <5>2 DEF Fair, Attends, Done
      <4>3. CASE d = day
        <5>1. v.sessions[d] = t /\ on.sessions[d] = s
          BY <2>9, <4>3
        <5>2. Scheduled(day)
          BY <2>3 DEF Fair, Attends
        <5>3. CASE first
          <6>1. t.first = on.minute /\ t.effective \in Nat
            BY <2>4, <2>6, <5>3 DEF Session
          <6>2. t.first <= Start(day) + Grace => ~t.finalized
            <7>1. Grace \in Int
              BY TownConstants
            <7>2. QED BY <2>4, <2>6, <2>10, <2>11, <6>1, <7>1
          <6>3. QED BY <2>1, <2>4, <2>11, <4>1, <4>3, <5>1, <5>2, <6>1, <6>2 DEF Done
        <5>4. CASE ~first
          <6>1. t.first = s.first
            BY <2>6, <5>4
          <6>2. /\ s.first # Never => Start(day) <= s.first /\ s.first <= on.minute
                /\ s.first # Never /\ ~s.finalized => on.minute - s.first <= s.effective
                /\ s.finalized /\ s.first # Never /\ s.first <= Start(day) + Grace => s.paid
            BY <2>3 DEF Fair, Attends, Done
          <6>3. QED BY <2>1, <2>6, <4>1, <4>3, <5>1, <5>2, <6>1, <6>2 DEF Done
        <5>5. QED BY <5>3, <5>4
      <4>4. QED BY <4>2, <4>3
    <3>2. QED BY <3>1 DEF Attends
  <2>19. QED BY <2>15, <2>16, <2>17, <2>18 DEF Fair, v
<1>3. QED BY <1>1, <1>2

(* _release_reservations and the end of the action.                        *)
LEMMA DropBooks ==
  ASSUME NEW w, w \in Context
  PROVE  SameBooks(w, Drop(w)) /\ Drop(w).action = None
<1> DEFINE r == Release(w)
           fields == {"action", "minute", "money", "food", "ledger", "sessions"}
<1>1. fields \subseteq DOMAIN w
  BY DEF Context
<1>2. SameBooks(w, r) /\ fields \subseteq DOMAIN r
  BY <1>1 DEF Release, SameBooks
<1> HIDE DEF r
<1>3. SameBooks(r, [r EXCEPT !.action = None]) /\ [r EXCEPT !.action = None].action = None
  BY <1>2 DEF SameBooks
<1>4. QED BY <1>2, <1>3 DEF Drop, SameBooks, r

LEMMA DropFair ==
  ASSUME NEW w, w \in Context, Fair(w), MayStop(w)
  PROVE  Fair(Drop(w)) /\ Drop(w).action = None
<1>1. SameBooks(w, Drop(w)) /\ Drop(w).action = None
  BY DropBooks
<1>2. Planned(Drop(w))
  BY <1>1 DEF Planned
<1>3. QED BY <1>1, <1>2, FairKept

(* A trip that is given up ends no work.                                   *)
LEMMA AbandonFair ==
  ASSUME NEW w, w \in Context, Fair(w), w.action # None, w.action.phase = "TRAVELING"
  PROVE  Fair(AbandonTrip(w)) /\ AbandonTrip(w).action = None
<1> DEFINE u == Drop(w)
           v == [u EXCEPT !.at = w.action.origin, !.present = @ \cup {w.action.origin}]
<1>1. MayStop(w)
  BY DEF MayStop, Doing, Performing
<1>2. Fair(u) /\ u.action = None
  BY <1>1, DropFair
<1>3. {"action", "minute", "money", "food", "ledger", "sessions"} \subseteq DOMAIN u
  BY DEF Context, Drop, Release
<1> HIDE DEF u
<1>4. SameBooks(u, v) /\ v.action = u.action
  BY <1>3 DEF SameBooks
<1> HIDE DEF v
<1>5. Fair(v)
  BY <1>2, <1>4, FairKept
<1>6. QED BY <1>2, <1>4, <1>5 DEF AbandonTrip, u, v

(* What is resolved at its end: a shift that has not ended goes on.        *)
LEMMA ResolveFair ==
  ASSUME NEW w, Good(w), Fair(w), w.action # None, w.minute >= w.action.end
  PROVE  Fair(Resolve(w)) /\ Resolve(w).action = None
<1> DEFINE fed == [w EXCEPT !.food = @ - w.action.food, !.needs = CompletionNeeds(w)]
           e == Event(w, "MEAL_CONSUMED", NoDay)
           told == Stage(fed, "MEAL_CONSUMED", NoDay)
           fields == {"action", "minute", "money", "food", "ledger", "sessions"}
<1>1. /\ w \in Context /\ fields \subseteq DOMAIN w
      /\ w.minute \in Nat /\ w.action \in Action
  <2>1. w.minute \in 0 .. MaxMinute
    BY DEF Good, Context
  <2>2. QED BY <2>1 DEF Good, Context
<1>2. MayStop(w)
  <2>1. ASSUME NEW d \in Days, w.minute < End(d), Doing(w, "work_shift"), w.action.session = d
        PROVE  FALSE
    <3>1. End(d) <= w.action.end
      BY <2>1 DEF Fair, Planned, Doing
    <3>2. End(d) \in Int /\ w.action.end \in Int
      BY <1>1, ShiftFact DEF Action
    <3>3. QED BY <1>1, <2>1, <3>1, <3>2
  <2>2. QED BY <2>1 DEF MayStop
<1>3. CASE w.action.behavior = "eat_at_home" /\ w.food >= w.action.food
  <2>1. w.action.food = 1
    BY <1>3 DEF Fair, Planned
  <2>2. e \in Told /\ e.day = NoDay /\ e.type = "MEAL_CONSUMED"
    BY <1>1 DEF Told, EventTypes, Event
  <2>3. /\ told.ledger = Append(w.ledger, e) /\ told.sessions = w.sessions
        /\ told.minute = w.minute /\ told.money = w.money /\ told.action = w.action
        /\ told.food = w.food - 1
    BY <1>1, <2>1 DEF Stage, StageAbout, Event
  <2>4. told \in Context
    <3>1. CompletionNeeds(w) \in [Need -> 0 .. NeedMax]
      <4>1. ASSUME NEW n \in Need PROVE w.needs[n] + MealGain[n] \in Int
        <5>1. w.needs[n] \in 0 .. NeedMax
          BY <4>1, <1>1 DEF Context
        <5>2. MealGain[n] \in Nat
          BY <4>1, TownConstants
        <5>3. QED BY <5>1, <5>2
      <4>2. QED BY <4>1, ClampFact DEF CompletionNeeds
    <3>2. w.food - w.action.food \in Nat
      BY <1>1, <1>3, <2>1 DEF Context
    <3>3. fed \in Context
      BY <1>1, <3>1, <3>2 DEF Context
    <3>4. told = [fed EXCEPT !.ledger = Append(w.ledger, e)]
      BY <1>1 DEF Stage, StageAbout, Event
    <3>5. Append(w.ledger, e) \in Seq(Told)
      BY <1>1, <2>2 DEF Context
    <3>6. QED BY <3>3, <3>4, <3>5 DEF Context
  <2> HIDE DEF e, told, fed
  <2>5. Fair(told)
    BY <1>1, <2>2, <2>3, FairTold
  <2>6. MayStop(told)
    BY <1>2, <2>3 DEF MayStop, Doing, Performing
  <2>7. Resolve(w) = Drop(told)
    BY <1>3 DEF Resolve, told, fed
  <2>8. QED BY <2>4, <2>5, <2>6, <2>7, DropFair
<1>4. CASE ~(w.action.behavior = "eat_at_home" /\ w.food >= w.action.food)
  <2>1. Resolve(w) = Drop(w)
    BY <1>4 DEF Resolve
  <2>2. QED BY <1>1, <1>2, <2>1, DropFair
<1>5. QED BY <1>3, <1>4

(* The phase after the trip.                                               *)
LEMMA PhaseFair ==
  ASSUME NEW w, w \in Context, Fair(w), w.action # None, w.action.phase # "PERFORMING",
         NEW phase \in {"ALIGNING", "PERFORMING"}
  PROVE  LET v == [w EXCEPT !.action.phase = phase]
         IN  /\ Fair(v) /\ v.action.phase = phase /\ v.minute = w.minute
             /\ v.action.behavior = w.action.behavior /\ v.action.start = w.action.start
             /\ v.action.session = w.action.session
<1> DEFINE v == [w EXCEPT !.action.phase = phase]
           b == [w.action EXCEPT !.phase = phase]
<1>1. /\ {"action", "minute", "money", "food", "ledger", "sessions"} \subseteq DOMAIN w
      /\ w.action \in Action
  BY DEF Context
<1>2. /\ b.phase = phase /\ b.behavior = w.action.behavior /\ b.food = w.action.food
      /\ b.session = w.action.session /\ b.start = w.action.start /\ b.end = w.action.end
      /\ b.duration = w.action.duration
  BY <1>1 DEF Action
<1>3. v = [w EXCEPT !.action = b]
  OBVIOUS
<1> HIDE DEF b, v
<1>4. SameBooks(w, v) /\ v.action = b
  BY <1>1, <1>3 DEF SameBooks
<1>5. MayStop(w)
  BY DEF MayStop, Doing, Performing
<1>6. Planned(v)
  BY <1>2, <1>4 DEF Fair, Planned
<1>7. Fair(v)
  BY <1>4, <1>5, <1>6, FairKept
<1>8. QED BY <1>2, <1>4, <1>7 DEF SameBooks, v

(* Headless nothing is begun after the minute it was planned for.          *)
Early(w) ==
  mode = "HEADLESS_FAST" /\ w.action # None /\ w.action.behavior = "work_shift"
    /\ w.action.phase # "PERFORMING" => w.minute <= w.action.start

LEMMA BeginFair ==
  ASSUME NEW w, w \in Context, Held(w), Sessioned(w), Settled(w), Visible(w), Located(w),
         w.action # None, w.at \in Location, w.at = w.action.dest,
         Fair(w), Early(w), w.action.phase # "PERFORMING", w.action.start <= w.minute
  PROVE  LET v == StartPerforming(w)
         IN  Fair(v) /\ v.action.phase = "PERFORMING"
<1> DEFINE on == [w EXCEPT !.action.phase = "PERFORMING"]
<1>1. "PERFORMING" \in {"ALIGNING", "PERFORMING"}
  OBVIOUS
<1>2. /\ Good(on) /\ on.minute = w.minute /\ on.version = w.version /\ on.sessions = w.sessions /\ on.at = w.at
      /\ on.action # None /\ on.action = [w.action EXCEPT !.phase = "PERFORMING"]
      /\ on.needs = w.needs
  BY <1>1, PhaseGood
<1>3. /\ Fair(on) /\ on.action.phase = "PERFORMING" /\ on.minute = w.minute
      /\ on.action.behavior = w.action.behavior /\ on.action.start = w.action.start
      /\ on.action.session = w.action.session
  BY <1>1, PhaseFair
<1>4. Starting(w, on)
  BY <1>2, <1>3 DEF Starting
<1>5. ASSUME on.action.behavior = "work_shift"
      PROVE  /\ on.action.start <= on.minute
             /\ mode = "HEADLESS_FAST" => on.minute < End(on.action.session)
  <2>1. w.action.start \in Int /\ w.minute \in Int /\ w.action.session \in Days
    <3>1. w.minute \in 0 .. MaxMinute /\ w.action \in Action
      BY DEF Context
    <3>2. QED BY <1>3, <1>5, <3>1 DEF Action, Sessioned, NoDay
  <2>2. End(w.action.session) \in Int
    BY <2>1, ShiftFact
  <2>3. mode = "HEADLESS_FAST" => w.minute <= w.action.start /\ w.action.start < End(w.action.session)
    BY <1>3, <1>5 DEF Early, Fair, Planned
  <2>4. QED BY <1>3, <2>1, <2>2, <2>3
<1> HIDE DEF on
<1>6. Fair(StartPerforming(w))
  BY <1>2, <1>3, <1>4, <1>5, PerformFair
<1>7. StartPerforming(w).action = on.action
  BY <1>2, <1>4, StartPerformingGood
<1>8. QED BY <1>3, <1>6, <1>7

(* _arrive_action                                                          *)
LEMMA ArriveFair ==
  ASSUME NEW w, Good(w), Fair(w), Early(w), w.action # None, w.action.phase = "TRAVELING"
  PROVE  Fair(Arrive(w)) /\ Waits(Arrive(w)) /\ Arrive(w).action.phase # "TRAVELING"
<1> DEFINE here == [w EXCEPT !.at = w.action.dest, !.present = @ \cup {w.action.dest}]
<1>1. /\ w \in Context /\ w.action.dest \in Location /\ w.at = Traveling
      /\ w.minute \in Int /\ w.action.start \in Int
  <2>1. w.minute \in 0 .. MaxMinute /\ w.action \in Action /\ w \in Context
    BY DEF Good, Context
  <2>2. QED BY <2>1 DEF Good, Placed, Action
<1>2. here \in Context
  <2>1. w.present \cup {w.action.dest} \in SUBSET Location
    BY <1>1 DEF Context
  <2>2. QED BY <1>1, <2>1 DEF Context
<1>3. /\ here.action = w.action /\ here.minute = w.minute /\ here.sessions = w.sessions
      /\ here.slots = w.slots /\ here.reserved = w.reserved /\ here.food = w.food
      /\ here.at = w.action.dest /\ here.present = w.present \cup {w.action.dest}
      /\ here.ledger = w.ledger /\ here.enabled = w.enabled /\ here.money = w.money
  BY <1>1 DEF Context
<1> HIDE DEF here
<1>4. Traveling \notin Location
  BY TownConstants
<1>5. Held(here) /\ Sessioned(here) /\ Settled(here) /\ Visible(here) /\ Located(here)
  <2>1. here.present = {here.at} /\ here.at # Traveling
    BY <1>1, <1>3, <1>4 DEF Good, Visible
  <2>2. QED BY <1>3, <2>1 DEF Good, Held, Sessioned, Settled, Done, Visible, Located
<1>6. Fair(here) /\ Early(here)
  <2>1. SameBooks(w, here)
    BY <1>3 DEF SameBooks
  <2>2. QED BY <1>3, <2>1, FairKept DEF Early
<1>7. CASE w.minute < w.action.start
  <2>1. Arrive(w) = [here EXCEPT !.action.phase = "ALIGNING"]
    BY <1>7 DEF Arrive, here
  <2>2. "ALIGNING" \in {"ALIGNING", "PERFORMING"} /\ here.action # None
        /\ here.action.phase # "PERFORMING"
    BY <1>3
  <2>3. /\ Fair(Arrive(w)) /\ Arrive(w).action.phase = "ALIGNING" /\ Arrive(w).minute = here.minute
        /\ Arrive(w).action.start = here.action.start
    <3>1. LET v == [here EXCEPT !.action.phase = "ALIGNING"]
          IN  /\ Fair(v) /\ v.action.phase = "ALIGNING" /\ v.minute = here.minute
              /\ v.action.behavior = here.action.behavior /\ v.action.start = here.action.start
              /\ v.action.session = here.action.session
      BY <1>2, <1>6, <2>2, PhaseFair, Zenon
    <3>2. QED BY <2>1, <3>1, Zenon
  <2>4. Arrive(w).minute < Arrive(w).action.start
    <3>1. Arrive(w).minute = w.minute /\ Arrive(w).action.start = w.action.start
      BY <1>3, <2>3
    <3>2. QED BY <1>7, <3>1
  <2>5. QED BY <2>3, <2>4 DEF Waits
<1>8. CASE ~(w.minute < w.action.start)
  <2>1. Arrive(w) = StartPerforming(here)
    BY <1>8 DEF Arrive, here
  <2>2. /\ here.action # None /\ here.at \in Location /\ here.at = here.action.dest
        /\ here.action.phase # "PERFORMING" /\ here.action.start <= here.minute
    BY <1>1, <1>3, <1>8
  <2>3. Fair(Arrive(w)) /\ Arrive(w).action.phase = "PERFORMING"
    BY <1>2, <1>5, <1>6, <2>1, <2>2, BeginFair
  <2>4. QED BY <2>3 DEF Waits
<1>9. QED BY <1>7, <1>8

(* _progress_action: the trip, the wait and the end of what is done.       *)
LEMMA ProgressFair ==
  ASSUME NEW w, Good(w), Fair(w), Early(w), mode \in {"HEADLESS_FAST", "UNITY_LIVE"}
  PROVE  Fair(Progress(w)) /\ Waits(Progress(w)) /\ Good(Progress(w))
<1> DEFINE live == w.action # None /\ w.action.phase = "TRAVELING" /\ mode = "UNITY_LIVE"
           u == ArriveIfDue(w)
           a == AlignIfDue(u)
           r == ResolveIfDue(a)
<1>1. Good(Progress(w))
  BY ProgressGood DEF Moves
<1>2. CASE live /\ TimedOut(w)
  <2>1. Progress(w) = AbandonTrip(w)
    BY <1>2 DEF Progress
  <2>2. Fair(AbandonTrip(w)) /\ AbandonTrip(w).action = None
    BY <1>2, AbandonFair DEF Good
  <2>3. QED BY <1>1, <2>1, <2>2 DEF Waits
<1>3. CASE live /\ ~TimedOut(w)
  BY <1>1, <1>3 DEF Progress, Waits
<1>4. CASE ~live
  <2>1. /\ Good(u) /\ Fair(u)
        /\ u.action # None /\ u.action.phase = "ALIGNING" => Early(u)
    <3>1. CASE w.action # None /\ w.action.phase = "TRAVELING" /\ w.minute >= w.action.arrival
      <4>1. u = Arrive(w)
        BY <3>1 DEF ArriveIfDue
      <4>2. w.at = Traveling
        BY <3>1 DEF Good, Placed
      <4>3. Good(u) /\ Fair(u) /\ Waits(u)
        BY <3>1, <4>1, <4>2, ArriveGood, ArriveFair DEF Moves
      <4> HIDE DEF u
      <4>4. ASSUME u.action # None, u.action.phase = "ALIGNING" PROVE Early(u)
        <5>1. u.minute < u.action.start
          BY <4>3, <4>4 DEF Waits
        <5>2. u.minute \in Int /\ u.action.start \in Int
          <6>1. u.minute \in 0 .. MaxMinute /\ u.action \in Action
            BY <4>3, <4>4 DEF Good, Context
          <6>2. QED BY <6>1 DEF Action
        <5>3. u.minute <= u.action.start
          BY <5>1, <5>2
        <5>4. QED BY <5>3 DEF Early
      <4>5. QED BY <4>3, <4>4
    <3>2. CASE ~(w.action # None /\ w.action.phase = "TRAVELING" /\ w.minute >= w.action.arrival)
      BY <3>2 DEF ArriveIfDue
    <3>3. QED BY <3>1, <3>2
  <2> HIDE DEF u
  <2>2. Good(a) /\ Fair(a) /\ Waits(a)
    <3>1. CASE u.action # None /\ u.action.phase = "ALIGNING" /\ u.minute >= u.action.start
      <4>1. /\ u \in Context /\ Held(u) /\ Sessioned(u) /\ Settled(u)
            /\ Visible(u) /\ Located(u) /\ u.at # Traveling /\ u.at = u.action.dest
        BY <2>1, <3>1 DEF Good, Placed, Located
      <4>2. u.at \in Location /\ u.action.start <= u.minute
        <5>1. u.minute \in 0 .. MaxMinute /\ u.action \in Action
          BY <3>1, <4>1 DEF Context
        <5>2. QED BY <3>1, <4>1, <5>1 DEF Context, Action
      <4>3. a = StartPerforming(u)
        BY <3>1 DEF AlignIfDue
      <4>4. Moves(u, a)
        BY <3>1, <4>1, <4>2, <4>3, BeginGood
      <4>5. Fair(a) /\ a.action.phase = "PERFORMING"
        BY <2>1, <3>1, <4>1, <4>2, <4>3, BeginFair
      <4>6. QED BY <4>4, <4>5 DEF Moves, Waits
    <3>2. CASE ~(u.action # None /\ u.action.phase = "ALIGNING" /\ u.minute >= u.action.start)
      <4>1. a = u
        BY <3>2 DEF AlignIfDue
      <4>2. Waits(u)
        <5>1. ASSUME u.action # None, u.action.phase = "ALIGNING" PROVE u.minute < u.action.start
          <6>1. u.minute \in 0 .. MaxMinute /\ u.action \in Action
            BY <2>1, <5>1 DEF Good, Context
          <6>2. QED BY <3>2, <5>1, <6>1 DEF Action
        <5>2. QED BY <5>1 DEF Waits
      <4>3. QED BY <2>1, <4>1, <4>2
    <3>3. QED BY <3>1, <3>2
  <2> HIDE DEF a
  <2>3. Fair(r) /\ Waits(r)
    <3>1. CASE Performing(a) /\ a.minute >= a.action.end
      <4>1. r = Resolve(a)
        BY <3>1 DEF ResolveIfDue
      <4>2. Fair(Resolve(a)) /\ Resolve(a).action = None
        BY <2>2, <3>1, ResolveFair DEF Performing
      <4>3. QED BY <4>1, <4>2 DEF Waits
    <3>2. CASE ~(Performing(a) /\ a.minute >= a.action.end)
      BY <2>2, <3>2 DEF ResolveIfDue
    <3>3. QED BY <3>1, <3>2
  <2>4. Progress(w) = r
    BY <1>4 DEF Progress, u, a
  <2>5. QED BY <1>1, <2>3, <2>4
<1>5. QED BY <1>2, <1>3, <1>4

(* A session that is opened has nothing to tell yet.                       *)
LEMMA MaterializeFact ==
  ASSUME NEW w, Good(w), NEW day \in Days
  PROVE  LET v == Materialize(w, day)
         IN  /\ v.ledger = w.ledger /\ v.minute = w.minute /\ v.money = w.money
             /\ v.food = w.food /\ v.action = w.action
             /\ v.sessions = IF w.sessions[day] # None THEN w.sessions
                             ELSE [w.sessions EXCEPT ![day] = NewSession]
<1>1. {"action", "minute", "money", "food", "ledger", "sessions"} \subseteq DOMAIN w
  BY DEF Good, Context
<1>2. QED BY <1>1 DEF Materialize, HasSession

LEMMA MaterializeFair ==
  ASSUME NEW w, Good(w), Fair(w), NEW day \in Days, Scheduled(day)
  PROVE  Fair(Materialize(w, day))
<1> DEFINE v == Materialize(w, day)
<1>1. /\ v.ledger = w.ledger /\ v.minute = w.minute /\ v.money = w.money
      /\ v.food = w.food /\ v.action = w.action
      /\ v.sessions = IF w.sessions[day] # None THEN w.sessions
                      ELSE [w.sessions EXCEPT ![day] = NewSession]
  BY MaterializeFact
<1> HIDE DEF v
<1>2. CASE w.sessions[day] # None
  <2>1. SameBooks(w, v) /\ v.action = w.action
    BY <1>1, <1>2 DEF SameBooks
  <2>2. QED BY <2>1, FairKept DEF v
<1>3. CASE w.sessions[day] = None
  <2>1. w.sessions \in [Days -> Session \cup {None}]
    BY DEF Good, Context
  <2>2. \A d \in Days : v.sessions[d] = IF d = day THEN NewSession ELSE w.sessions[d]
    BY <1>1, <1>3, <2>1
  <2>3. /\ NewSession # None /\ NewSession.first = Never /\ ~NewSession.finalized
        /\ ~NewSession.paid /\ ~NewSession.started /\ ~NewSession.late
    BY NotNone DEF NewSession
  <2>4. Lived(NewSession) = Lived(None) /\ Coherent(NewSession)
    BY <2>3 DEF Lived, Coherent
  <2>5. Story(v)
    <3>1. ASSUME NEW d \in Days
          PROVE  Tells(v.ledger, d, Lived(v.sessions[d])) /\ Coherent(v.sessions[d])
      <4>1. Tells(w.ledger, d, Lived(w.sessions[d])) /\ Coherent(w.sessions[d])
        BY DEF Fair, Story
      <4>2. CASE d = day
        <5>1. v.sessions[d] = NewSession /\ w.sessions[d] = None
          BY <1>3, <2>2, <4>2
        <5>2. QED BY <1>1, <2>4, <4>1, <5>1
      <4>3. CASE d # day
        BY <1>1, <2>2, <4>1, <4>3
      <4>4. QED BY <4>2, <4>3
    <3>2. QED BY <3>1 DEF Story
  <2>6. Balanced(v)
    <3>1. PaidOf(v.sessions) = PaidOf(w.sessions)
      BY <1>3, <2>2, <2>3 DEF PaidOf
    <3>2. QED BY <1>1, <3>1 DEF Fair, Balanced
  <2>7. Planned(v)
    BY <1>1 DEF Fair, Planned
  <2>8. Attends(v)
    <3>1. ASSUME NEW d \in Days, v.sessions[d] # None
          PROVE  /\ Scheduled(d)
                 /\ v.sessions[d].first # Never =>
                      Start(d) <= v.sessions[d].first /\ v.sessions[d].first <= v.minute
                 /\ v.sessions[d].first # Never /\ ~v.sessions[d].finalized =>
                      /\ v.minute - v.sessions[d].first <= v.sessions[d].effective
                      /\ v.minute < End(d) => Doing(v, "work_shift") /\ v.action.session = d
                 /\ Done(v, d) /\ v.sessions[d].first # Never /\ v.sessions[d].first <= Start(d) + Grace =>
                      v.sessions[d].paid
      <4>1. CASE d = day
        BY <2>2, <2>3, <4>1
      <4>2. CASE d # day
        <5>1. v.sessions[d] = w.sessions[d]
          BY <2>2, <4>2
        <5>2. QED BY <1>1, <3>1, <5>1 DEF Fair, Attends, Done, Doing, Performing
      <4>3. QED BY <4>1, <4>2
    <3>2. QED BY <3>1 DEF Attends
  <2>9. QED BY <2>5, <2>6, <2>7, <2>8 DEF Fair, v
<1>4. QED BY <1>2, <1>3


(* _finalize_work_session_if_due, as the books see it.                     *)
LEMMA FinalizeFact ==
  ASSUME NEW w, Good(w)
  PROVE  LET v == Finalize(w)
             day == w.minute \div DayLength
             opened == Materialize(w, day)
             s == opened.sessions[day]
             t == [s EXCEPT !.finalized = TRUE]
         IN  /\ ~Due(w, day, s) => v = w
             /\ Due(w, day, s) =>
                  /\ v.action = w.action /\ v.minute = w.minute /\ v.food = w.food
                  /\ v.money = IF Attended(s, day) THEN w.money + Wage ELSE w.money
                  /\ v.sessions = [opened.sessions EXCEPT ![day] =
                                     IF Attended(s, day) THEN [t EXCEPT !.paid = TRUE] ELSE t]
                  /\ v.ledger = Append(w.ledger,
                       Event(w, IF Attended(s, day) THEN "WORK_COMPLETED" ELSE "WORK_MISSED", day))
<1> DEFINE v == Finalize(w)
           day == w.minute \div DayLength
           opened == Materialize(w, day)
           s == opened.sessions[day]
           t == [s EXCEPT !.finalized = TRUE]
           p == [t EXCEPT !.paid = TRUE]
           settled == [opened EXCEPT !.sessions[day].finalized = TRUE]
           paid == [settled EXCEPT !.money = @ + Wage, !.sessions[day].paid = TRUE]
           fields == {"action", "minute", "money", "food", "ledger", "sessions"}
<1>1. day \in Days /\ fields \subseteq DOMAIN w
  <2>1. w.minute \in 0 .. MaxMinute
    BY DEF Good, Context
  <2>2. fields \subseteq DOMAIN w
    BY DEF Good, Context
  <2>3. QED BY <2>1, <2>2, DayFact
<1>2. ~Due(w, day, s) => v = w
  BY DEF Finalize
<1>3. ASSUME Due(w, day, s)
      PROVE  /\ v.action = w.action /\ v.minute = w.minute /\ v.food = w.food
             /\ v.money = IF Attended(s, day) THEN w.money + Wage ELSE w.money
             /\ v.sessions = [opened.sessions EXCEPT ![day] = IF Attended(s, day) THEN p ELSE t]
             /\ v.ledger = Append(w.ledger,
                  Event(w, IF Attended(s, day) THEN "WORK_COMPLETED" ELSE "WORK_MISSED", day))
  <2>1. v = IF Attended(s, day) THEN Stage(paid, "WORK_COMPLETED", day)
                                ELSE Stage(settled, "WORK_MISSED", day)
    BY <1>3 DEF Finalize
  <2>2. /\ opened.ledger = w.ledger /\ opened.minute = w.minute /\ opened.money = w.money
        /\ opened.food = w.food /\ opened.action = w.action
    BY <1>1, MaterializeFact
  <2>3. fields \subseteq DOMAIN opened /\ day \in DOMAIN opened.sessions
    <3>1. Good(opened)
      BY <1>1, MaterializeGood DEF Moves
    <3>2. QED BY <1>1, <3>1 DEF Good, Context
  <2> HIDE DEF opened, day
  <2>4. settled = [opened EXCEPT !.sessions = [opened.sessions EXCEPT ![day] = t]]
    OBVIOUS
  <2> HIDE DEF t
  <2>5. /\ settled.sessions = [opened.sessions EXCEPT ![day] = t]
        /\ settled.ledger = w.ledger /\ settled.minute = w.minute /\ settled.money = w.money
        /\ settled.food = w.food /\ settled.action = w.action /\ fields \subseteq DOMAIN settled
    BY <2>2, <2>3, <2>4
  <2>6. settled.sessions[day] = t
    BY <2>3, <2>5
  <2> HIDE DEF settled
  <2>7. paid = [settled EXCEPT !.money = @ + Wage,
                               !.sessions = [settled.sessions EXCEPT ![day] = p]]
    BY <2>6
  <2>8. [settled.sessions EXCEPT ![day] = p] = [opened.sessions EXCEPT ![day] = p]
    BY <2>5
  <2> HIDE DEF p
  <2>9. /\ paid.sessions = [opened.sessions EXCEPT ![day] = p]
        /\ paid.ledger = w.ledger /\ paid.minute = w.minute /\ paid.money = w.money + Wage
        /\ paid.food = w.food /\ paid.action = w.action /\ fields \subseteq DOMAIN paid
    BY <2>5, <2>7, <2>8
  <2> HIDE DEF paid, v, s
  <2>10. CASE Attended(s, day)
    <3>1. v = [paid EXCEPT !.ledger =
                 Append(@, [type |-> "WORK_COMPLETED", minute |-> paid.minute, day |-> day, needs |-> {}])]
      BY <2>1, <2>10 DEF Stage, StageAbout
    <3>2. QED BY <2>9, <2>10, <3>1, <2>2 DEF Event
  <2>11. CASE ~Attended(s, day)
    <3>1. v = [settled EXCEPT !.ledger =
                 Append(@, [type |-> "WORK_MISSED", minute |-> settled.minute, day |-> day, needs |-> {}])]
      BY <2>1, <2>11 DEF Stage, StageAbout
    <3>2. QED BY <2>5, <2>11, <3>1, <2>2 DEF Event
  <2>12. QED BY <2>10, <2>11
<1>4. QED BY <1>2, <1>3 DEF v

(* The wages of one more day.                                              *)
LEMMA OneWageMore ==
  ASSUME NEW n \in Nat
  PROVE  StartMoney + Wage * (n + 1) = (StartMoney + Wage * n) + Wage
<1>1. StartMoney \in Nat /\ Wage \in Nat
  BY TownConstants
<1>2. QED BY <1>1

(* Settling keeps the grace: whoever came within it and stayed is paid.    *)
LEMMA FinalizeFair ==
  ASSUME NEW w, Good(w), Fair(w)
  PROVE  Fair(Finalize(w))
<1> DEFINE v == Finalize(w)
           day == w.minute \div DayLength
           o == Materialize(w, day)
           s == o.sessions[day]
           pays == Attended(s, day)
           t == [s EXCEPT !.finalized = TRUE]
           x == IF pays THEN [t EXCEPT !.paid = TRUE] ELSE t
           type == IF pays THEN "WORK_COMPLETED" ELSE "WORK_MISSED"
           e == Event(w, type, day)
<1>1. day \in Days /\ w.minute \in Nat
  <2>1. w.minute \in 0 .. MaxMinute
    BY DEF Good, Context
  <2>2. QED BY <2>1, DayFact
<1>2. /\ ~Due(w, day, s) => v = w
      /\ Due(w, day, s) =>
           /\ v.action = w.action /\ v.minute = w.minute /\ v.food = w.food
           /\ v.money = IF pays THEN w.money + Wage ELSE w.money
           /\ v.sessions = [o.sessions EXCEPT ![day] = x]
           /\ v.ledger = Append(w.ledger, e)
  BY FinalizeFact
<1>3. ASSUME Due(w, day, s) PROVE Fair(v)
  <2>1. Scheduled(day) /\ w.minute = End(day) /\ ~s.finalized
    BY <1>3 DEF Due
  <2>2. /\ Fair(o) /\ o.ledger = w.ledger /\ o.minute = w.minute /\ o.money = w.money
        /\ o.food = w.food /\ o.action = w.action
    BY <1>1, <2>1, MaterializeFair, MaterializeFact
  <2>3. Good(o) /\ o.sessions[day] # None
    BY <1>1, MaterializeGood DEF Moves
  <2>4. /\ v.action = w.action /\ v.minute = w.minute /\ v.food = w.food
        /\ v.money = IF pays THEN w.money + Wage ELSE w.money
        /\ v.sessions = [o.sessions EXCEPT ![day] = x]
        /\ v.ledger = Append(w.ledger, e)
    BY <1>2, <1>3
  <2> HIDE DEF v, o, day
  <2>5. o.sessions \in [Days -> Session \cup {None}] /\ s \in Session
    BY <1>1, <2>3 DEF Good, Context
  <2>6. /\ x \in Session /\ x.first = s.first /\ x.started = s.started /\ x.late = s.late
        /\ x.finalized = TRUE /\ x.effective = s.effective /\ x.paid = (pays \/ s.paid)
    <3>1. /\ t \in Session /\ t.first = s.first /\ t.started = s.started /\ t.late = s.late
          /\ t.finalized = TRUE /\ t.effective = s.effective /\ t.paid = s.paid
      BY <2>5 DEF Session
    <3>2. s.paid \in BOOLEAN
      BY <2>5 DEF Session
    <3> HIDE DEF t, s, pays
    <3>3. CASE pays
      BY <3>1, <3>3 DEF Session
    <3>4. CASE ~pays
      BY <3>1, <3>2, <3>4
    <3>5. QED BY <3>3, <3>4
  <2>7. e \in Told /\ e.day = day /\ e.type = type /\ w.ledger \in Seq(Told)
    BY <1>1 DEF Told, Event, EventTypes, Good, Context
  <2>8. Coherent(s) /\ ~s.paid
    BY <1>1, <2>1, <2>2, <2>3 DEF Fair, Story, Coherent
  <2>9. s # None /\ x # None
    BY <2>5, <2>6, NotNone
  <2> HIDE DEF e, x, t
  <2>10. \A d \in Days : v.sessions[d] = IF d = day THEN x ELSE o.sessions[d]
    BY <1>1, <2>4, <2>5
  <2>11. pays => s.first # Never
    BY DEF Attended
  <2> HIDE DEF s, pays
  <2>12. Story(v)
    <3>1. ASSUME NEW d \in Days, d # day
          PROVE  Tells(v.ledger, d, Lived(v.sessions[d])) /\ Coherent(v.sessions[d])
      <4>1. Tells(w.ledger, d, Lived(o.sessions[d])) /\ Coherent(o.sessions[d])
        BY <2>2 DEF Fair, Story
      <4>2. Tells(Append(w.ledger, e), d, Lived(o.sessions[d]))
        BY <2>7, <3>1, <4>1, TellsOther
      <4>3. QED BY <2>4, <2>10, <3>1, <4>1, <4>2
    <3>2. Tells(v.ledger, day, Lived(v.sessions[day])) /\ Coherent(v.sessions[day])
      <4>1. Tells(w.ledger, day, Lived(s))
        BY <1>1, <2>2 DEF Fair, Story, s
      <4>2. Lived(x) = Lived(s) \cup {type}
        BY <2>1, <2>6, <2>8, <2>9 DEF Lived, WorkEvents
      <4>3. type \notin Lived(s)
        BY <2>1, <2>8, <2>9 DEF Lived
      <4>4. Tells(Append(w.ledger, e), day, Lived(s) \cup {type})
        BY <2>7, <4>1, <4>3, TellsMore
      <4>5. Coherent(x)
        BY <2>6, <2>8, <2>9, <2>11 DEF Coherent
      <4>6. v.sessions[day] = x
        BY <1>1, <2>10
      <4>7. QED BY <2>4, <4>2, <4>4, <4>5, <4>6
    <3>3. QED BY <3>1, <3>2 DEF Story
  <2>13. Balanced(v)
    <3>1. MealsOf(v.ledger) = MealsOf(o.ledger)
      <4>1. e.type # "MEAL_CONSUMED"
        BY <2>7
      <4>2. QED BY <2>2, <2>4, <2>7, <4>1, MealsNext
    <3>2. day \notin PaidOf(o.sessions)
      BY <2>8 DEF PaidOf, s
    <3>3. LET R == [o.sessions EXCEPT ![day] = x]
          IN  /\ IsFiniteSet(PaidOf(o.sessions)) /\ Cardinality(PaidOf(o.sessions)) \in Nat
              /\ (x.paid <=> day \in PaidOf(o.sessions)) => PaidOf(R) = PaidOf(o.sessions)
              /\ x.paid /\ day \notin PaidOf(o.sessions) =>
                   Cardinality(PaidOf(R)) = Cardinality(PaidOf(o.sessions)) + 1
      BY <1>1, <2>5, <2>6, PaidNext
    <3>4. o.money = StartMoney + Wage * Cardinality(PaidOf(o.sessions))
      BY <2>2 DEF Fair, Balanced
    <3>5. v.money = StartMoney + Wage * Cardinality(PaidOf(v.sessions))
      <4>1. CASE pays
        <5>1. Cardinality(PaidOf(v.sessions)) = Cardinality(PaidOf(o.sessions)) + 1
          BY <2>4, <2>6, <3>2, <3>3, <4>1
        <5>2. v.money = o.money + Wage
          BY <2>2, <2>4, <4>1
        <5>3. QED BY <3>3, <3>4, <5>1, <5>2, OneWageMore
      <4>2. CASE ~pays
        <5>1. PaidOf(v.sessions) = PaidOf(o.sessions)
          BY <2>4, <2>6, <2>8, <3>2, <3>3, <4>2
        <5>2. v.money = o.money
          BY <2>2, <2>4, <4>2
        <5>3. QED BY <3>4, <5>1, <5>2
      <4>3. QED BY <4>1, <4>2
    <3>6. QED BY <2>2, <2>4, <3>1, <3>5 DEF Fair, Balanced
  <2>14. Planned(v)
    BY <2>2, <2>4 DEF Fair, Planned
  <2>15. Attends(v)
    <3>1. Start(day) \in Int /\ End(day) = Start(day) + (ShiftEnd - ShiftStart)
          /\ ShiftEnd - ShiftStart \in Int /\ Grace \in Int
      <4>1. day * DayLength \in Int /\ ShiftStart \in Int /\ ShiftEnd \in Int /\ Grace \in Int
        BY <1>1, TownConstants DEF Days
      <4>2. QED BY <4>1 DEF Start, End
    <3>2. s.first \in Int /\ s.effective \in Int
      BY <2>5 DEF Session, Never
    <3>3. /\ s.first # Never => Start(day) <= s.first /\ s.first <= w.minute
          /\ s.first # Never => w.minute - s.first <= s.effective
      BY <1>1, <2>1, <2>2, <2>3 DEF Fair, Attends, s
    <3>4. s.first # Never /\ s.first <= Start(day) + Grace => pays
      BY <2>1, <3>1, <3>2, <3>3 DEF Attended, pays
    <3>5. ASSUME NEW d \in Days, v.sessions[d] # None
          PROVE  /\ Scheduled(d)
                 /\ v.sessions[d].first # Never =>
                      Start(d) <= v.sessions[d].first /\ v.sessions[d].first <= v.minute
                 /\ v.sessions[d].first # Never /\ ~v.sessions[d].finalized =>
                      /\ v.minute - v.sessions[d].first <= v.sessions[d].effective
                      /\ v.minute < End(d) => Doing(v, "work_shift") /\ v.action.session = d
                 /\ Done(v, d) /\ v.sessions[d].first # Never /\ v.sessions[d].first <= Start(d) + Grace =>
                      v.sessions[d].paid
      <4>1. CASE d = day
        BY <2>1, <2>4, <2>6, <2>10, <3>3, <3>4, <4>1 DEF Done
      <4>2. CASE d # day
        <5>1. v.sessions[d] = o.sessions[d]
          BY <2>10, <4>2
        <5>2. QED BY <2>2, <2>4, <3>5, <5>1 DEF Fair, Attends, Done, Doing, Performing
      <4>3. QED BY <4>1, <4>2
    <3>6. QED BY <3>5 DEF Attends
  <2>16. QED BY <2>12, <2>13, <2>14, <2>15 DEF Fair
<1>4. QED BY <1>2, <1>3 DEF v

(* An alarm is no part of a shift, of a meal or of a wage.                 *)
LEMMA CrisesFair ==
  ASSUME NEW w, Good(w), Fair(w)
  PROVE  Fair(UpdateCrises(w))
<1> DEFINE v == UpdateCrises(w)
           entered == InCrisis(w) \ w.crises
           e == [type |-> "NEED_CRISIS", minute |-> w.minute, day |-> NoDay, needs |-> entered]
           told == IF entered = {} THEN w ELSE StageAbout(w, "NEED_CRISIS", NoDay, entered)
           fields == {"action", "minute", "money", "food", "ledger", "sessions", "crises"}
<1>1. fields \subseteq DOMAIN w /\ w \in Context /\ e \in Told
  <2>1. w.minute \in 0 .. MaxMinute /\ w \in Context
    BY DEF Good, Context
  <2>2. entered \in SUBSET Need
    BY DEF InCrisis
  <2>3. QED BY <2>1, <2>2 DEF Context, Told, EventTypes
<1>2. v = [told EXCEPT !.crises = InCrisis(w)]
  BY DEF UpdateCrises
<1>3. CASE entered = {}
  <2>1. v = [w EXCEPT !.crises = InCrisis(w)]
    BY <1>2, <1>3
  <2> HIDE DEF v
  <2>2. SameBooks(w, v) /\ v.action = w.action
    BY <1>1, <2>1 DEF SameBooks
  <2>3. QED BY <2>2, FairKept DEF v
<1>4. CASE entered # {}
  <2> HIDE DEF v, entered
  <2>1. told = [w EXCEPT !.ledger = Append(@, e)]
    BY <1>4 DEF StageAbout
  <2>2. v = [[w EXCEPT !.ledger = Append(@, e)] EXCEPT !.crises = InCrisis(w)]
    BY <1>2, <2>1
  <2> HIDE DEF told
  <2>3. e.day = NoDay /\ e.type # "MEAL_CONSUMED"
    OBVIOUS
  <2> HIDE DEF e
  <2>4. /\ v.ledger = Append(w.ledger, e) /\ v.sessions = w.sessions /\ v.minute = w.minute
        /\ v.money = w.money /\ v.action = w.action /\ v.food = w.food
    BY <1>1, <2>2
  <2>5. v.food = IF e.type = "MEAL_CONSUMED" THEN w.food - 1 ELSE w.food
    BY <2>3, <2>4
  <2>6. Fair(v)
    BY <1>1, <2>3, <2>4, <2>5, FairTold
  <2>7. QED BY <2>6 DEF v
<1>5. QED BY <1>3, <1>4

(* The session that is opened is of a scheduled day.                       *)
LEMMA OpenWindowFair ==
  ASSUME NEW w, Good(w), Fair(w)
  PROVE  Fair(OpenWindow(w))
<1> DEFINE day == Window(w.minute)
<1>1. w.minute \in 0 .. MaxMinute
  BY DEF Good, Context
<1>2. day # NoDay => day \in Days /\ Scheduled(day)
  <2>1. day \in Days \cup {NoDay} /\ (day # NoDay => day \in Coming(w.minute))
    BY <1>1, WindowFact
  <2>2. QED BY <2>1 DEF Coming
<1>3. CASE day # NoDay /\ w.minute >= Start(day) - Lead
  <2>1. OpenWindow(w) = Materialize(w, day)
    BY <1>3 DEF OpenWindow
  <2>2. QED BY <1>2, <1>3, <2>1, MaterializeFair
<1>4. CASE ~(day # NoDay /\ w.minute >= Start(day) - Lead)
  BY <1>4 DEF OpenWindow
<1>5. QED BY <1>3, <1>4

(* What is planned of work fills the rest of the shift.                    *)
LEMMA ErrandFact ==
  ASSUME NEW w, Good(w), w.action = None, NEW c \in Candidates(w)
  PROVE  /\ c.behavior = "eat_at_home" => c.food = 1
         /\ c.behavior = "work_shift" =>
              LET day == Window(w.minute)
                  start == WorkStart(w, c.travel, day)
              IN  /\ day \in Days /\ start \in Int
                  /\ Start(day) <= start /\ w.minute + c.travel <= start
                  /\ start < End(day) /\ End(day) <= start + c.duration
                  /\ (c.travel = 0 /\ start <= w.minute => start = w.minute)
<1>1. w.minute \in Nat /\ Window(w.minute) \in Days \cup {NoDay} /\ w.at \in Location
  <2>1. w \in Context /\ Placed(w)
    BY DEF Good
  <2>2. w.minute \in 0 .. MaxMinute
    BY <2>1 DEF Context
  <2>3. QED BY <2>1, <2>2, WindowFact DEF Context, Placed
<1>2. CASE c \notin WorkChoices(w)
  BY <1>2 DEF Candidates, IdleChoice, SleepChoices, EatChoices, Choice
<1>3. CASE c \in WorkChoices(w)
  <2> DEFINE day == Window(w.minute)
             travel == Travel[w.at][Work]
             start == WorkStart(w, travel, day)
             left == End(day) - start
             duration == IF left < Base["work_shift"] THEN left ELSE Base["work_shift"]
  <2>1. /\ day # NoDay /\ duration > 0
        /\ c = Choice("work_shift", {"workstation"}, Work, travel, duration, 0)
    BY <1>3 DEF WorkChoices
  <2>2. c.behavior = "work_shift" /\ c.travel = travel /\ c.duration = duration
    BY <2>1 DEF Choice
  <2>3. /\ Start(day) \in Int /\ End(day) = Start(day) + (ShiftEnd - ShiftStart)
        /\ ShiftEnd - ShiftStart \in Int /\ Base["work_shift"] \in Nat
        /\ ShiftEnd - ShiftStart <= Base["work_shift"] /\ day \in Days
    <3>1. day \in Days
      BY <1>1, <2>1
    <3>2. day * DayLength \in Int /\ ShiftStart \in Int /\ ShiftEnd \in Int
      BY <3>1, TownConstants DEF Days
    <3>3. "work_shift" \in Behaviors
      BY DEF Behaviors
    <3>4. Start(day) \in Int /\ End(day) = Start(day) + (ShiftEnd - ShiftStart)
          /\ ShiftEnd - ShiftStart \in Int
      BY <3>2 DEF Start, End
    <3>5. Base["work_shift"] \in Nat
      BY <3>3, TownConstants
    <3>6. QED BY <3>1, <3>4, <3>5, FrozenCatalog
  <2>4. travel \in Nat
    BY <1>1, TownConstants
  <2>5. start \in Int /\ Start(day) <= start /\ w.minute + travel <= start
        /\ (travel = 0 /\ start <= w.minute => start = w.minute)
    BY <1>1, <2>3, <2>4 DEF WorkStart
  <2> HIDE DEF start
  <2>6. duration = left /\ start < End(day) /\ End(day) <= start + duration
    BY <2>1, <2>3, <2>5
  <2> HIDE DEF duration, travel
  <2>7. QED BY <2>2, <2>3, <2>5, <2>6 DEF start
<1>4. QED BY <1>2, <1>3

(* Beginning a work minute touches the session and the ledger only.        *)
LEMMA PerformSame ==
  ASSUME NEW w, NEW on, on = [w EXCEPT !.action.phase = "PERFORMING"],
         {"minute", "version", "at", "present", "needs", "action", "created", "enabled", "slots",
          "reserved", "food", "money", "sessions", "crises", "ledger"} \subseteq DOMAIN on
  PROVE  LET v == StartPerforming(w)
         IN  /\ v.minute = on.minute /\ v.version = on.version /\ v.at = on.at
             /\ v.present = on.present /\ v.needs = on.needs /\ v.action = on.action
             /\ v.created = on.created /\ v.enabled = on.enabled /\ v.slots = on.slots
             /\ v.reserved = on.reserved /\ v.food = on.food /\ v.money = on.money
             /\ v.crises = on.crises
<1> DEFINE v == StartPerforming(w)
           day == w.action.session
           s == w.sessions[day]
           first == s.first = Never
           begun == IF s.started THEN on ELSE Stage(on, "WORK_STARTED", day)
           tardy == first /\ w.minute > Start(day) /\ ~s.late
           told == IF tardy THEN Stage(begun, "WORK_LATE", day) ELSE begun
           t == [s EXCEPT !.first = IF first THEN w.minute ELSE @,
                          !.started = TRUE, !.late = @ \/ tardy]
<1>1. v = IF w.action.behavior # "work_shift" THEN on ELSE [told EXCEPT !.sessions[day] = t]
  BY DEF StartPerforming
<1> HIDE DEF v, t, day, s, first, tardy
<1>2. /\ DOMAIN begun = DOMAIN on /\ begun.minute = on.minute /\ begun.version = on.version
      /\ begun.at = on.at /\ begun.present = on.present /\ begun.needs = on.needs
      /\ begun.action = on.action /\ begun.created = on.created
      /\ begun.enabled = on.enabled /\ begun.slots = on.slots
      /\ begun.reserved = on.reserved /\ begun.food = on.food /\ begun.money = on.money
      /\ begun.crises = on.crises /\ begun.sessions = on.sessions
  BY DEF Stage, StageAbout
<1> HIDE DEF begun
<1>3. /\ DOMAIN told = DOMAIN begun /\ told.minute = begun.minute
      /\ told.version = begun.version /\ told.at = begun.at /\ told.present = begun.present
      /\ told.needs = begun.needs /\ told.action = begun.action
      /\ told.created = begun.created /\ told.enabled = begun.enabled
      /\ told.slots = begun.slots /\ told.reserved = begun.reserved
      /\ told.food = begun.food /\ told.money = begun.money /\ told.crises = begun.crises
      /\ told.sessions = begun.sessions
  BY <1>2 DEF Stage, StageAbout
<1> HIDE DEF told
<1>4. QED BY <1>1, <1>2, <1>3 DEF v

(* _create_action: what is begun at once is worked from this minute.       *)
LEMMA CreateFair ==
  ASSUME NEW w, Good(w), Fair(w), w.action = None, NEW c \in Candidates(w),
         Good(Create(w, c)), w.reserved + c.food \in Nat,
         c.behavior = "work_shift" => w.sessions[Window(w.minute)] # None
  PROVE  Fair(Create(w, c)) /\ Waits(Create(w, c))
<1> DEFINE day == IF c.behavior = "work_shift" THEN Window(w.minute) ELSE NoDay
           arrival == w.minute + c.travel
           start == IF day = NoDay THEN arrival ELSE WorkStart(w, c.travel, day)
           id == w.created + 1
           b == [id |-> id, behavior |-> c.behavior, phase |-> "CREATED",
                 objects |-> c.objects, food |-> c.food, dest |-> c.dest,
                 origin |-> w.at, arrival |-> arrival, start |-> start,
                 duration |-> c.duration, end |-> start + c.duration, session |-> day]
           slots == [o \in Objects |-> IF o \in c.objects THEN id ELSE w.slots[o]]
           made == [w EXCEPT !.created = id, !.slots = slots, !.reserved = @ + c.food,
                             !.action = b]
           As(phase) == [b EXCEPT !.phase = phase]
           v == Create(w, c)
<1>1. w \in Context /\ MayStop(w)
  BY DEF Good, MayStop, Doing, Performing
<1>2. /\ c.behavior = "eat_at_home" => c.food = 1
      /\ c.behavior = "work_shift" =>
           /\ day \in Days /\ start \in Int
           /\ Start(day) <= start /\ arrival <= start
           /\ start < End(day) /\ End(day) <= start + c.duration
           /\ (c.travel = 0 /\ start <= w.minute => start = w.minute)
  <2>1. \A d \in Days : d # NoDay
    BY DEF Days, NoDay
  <2>2. /\ c.behavior = "eat_at_home" => c.food = 1
        /\ c.behavior = "work_shift" =>
              LET d == Window(w.minute)
                  s == WorkStart(w, c.travel, d)
              IN  /\ d \in Days /\ s \in Int
                  /\ Start(d) <= s /\ w.minute + c.travel <= s
                  /\ s < End(d) /\ End(d) <= s + c.duration
                  /\ (c.travel = 0 /\ s <= w.minute => s = w.minute)
    BY ErrandFact
  <2>3. QED BY <2>1, <2>2
<1>3. v = IF c.travel > 0
            THEN [made EXCEPT !.at = Traveling, !.present = @ \ {w.at},
                              !.action.phase = "TRAVELING"]
          ELSE IF w.minute < start THEN [made EXCEPT !.action.phase = "ALIGNING"]
          ELSE StartPerforming(made)
  BY DEF Create
<1> HIDE DEF day, arrival, start, id, slots, v
<1>4. \A phase \in Phases :
        /\ As(phase).phase = phase /\ As(phase).behavior = c.behavior /\ As(phase).food = c.food
        /\ As(phase).start = start /\ As(phase).end = start + c.duration
        /\ As(phase).duration = c.duration /\ As(phase).arrival = arrival
        /\ As(phase).session = day /\ As(phase) # None
  BY DEF None
<1>5. /\ b.behavior = c.behavior /\ b.session = day
  OBVIOUS
<1> HIDE DEF b
<1>6. /\ SameBooks(w, made) /\ made.action = b /\ made.slots = slots /\ made.at = w.at
      /\ made.version = w.version /\ made.needs = w.needs /\ made.present = w.present
      /\ made.enabled = w.enabled /\ DOMAIN made = DOMAIN w
  BY <1>1 DEF Context, SameBooks
<1>7. {"minute", "version", "at", "present", "needs", "action", "created", "enabled", "slots",
       "reserved", "food", "money", "sessions", "crises", "ledger"} \subseteq DOMAIN made
  BY <1>1, <1>6 DEF Context
<1>8. ASSUME NEW phase \in Phases, NEW u, SameBooks(w, u), u.action = As(phase)
      PROVE  Fair(u)
  <2>1. Planned(u)
    BY <1>2, <1>4, <1>8 DEF Planned
  <2>2. QED BY <1>1, <1>8, <2>1, FairKept
<1> HIDE DEF made
<1>9. CASE c.travel > 0
  <2>1. v = [made EXCEPT !.at = Traveling, !.present = @ \ {w.at}, !.action.phase = "TRAVELING"]
    BY <1>3, <1>9
  <2>2. SameBooks(w, v) /\ v.action = As("TRAVELING")
    BY <1>6, <1>7, <2>1 DEF SameBooks
  <2>3. "TRAVELING" \in Phases /\ v.action.phase = "TRAVELING"
    BY <1>4, <2>2 DEF Phases
  <2> HIDE DEF As
  <2>4. QED BY <1>8, <2>2, <2>3 DEF Waits, v
<1>10. CASE ~(c.travel > 0) /\ w.minute < start
  <2>1. v = [made EXCEPT !.action.phase = "ALIGNING"]
    BY <1>3, <1>10
  <2>2. SameBooks(w, v) /\ v.action = As("ALIGNING")
    BY <1>6, <1>7, <2>1 DEF SameBooks
  <2>3. "ALIGNING" \in Phases /\ v.action.start = start /\ v.minute = w.minute
    BY <1>4, <2>2 DEF Phases, SameBooks
  <2> HIDE DEF As
  <2>4. QED BY <1>8, <1>10, <2>2, <2>3 DEF Waits, v
<1>11. CASE ~(c.travel > 0) /\ ~(w.minute < start)
  <2> DEFINE on == [made EXCEPT !.action.phase = "PERFORMING"]
  <2>1. v = StartPerforming(made)
    BY <1>3, <1>11
  <2>2. /\ SameBooks(w, on) /\ on.action = As("PERFORMING") /\ DOMAIN on = DOMAIN made
        /\ on.version = made.version /\ on.needs = made.needs
    BY <1>6, <1>7 DEF SameBooks
  <2>3. "PERFORMING" \in Phases
    BY DEF Phases
  <2>4. /\ on.action.phase = "PERFORMING" /\ on.action.behavior = c.behavior
        /\ on.action.session = day /\ on.action.start = start
    BY <1>4, <2>2, <2>3
  <2> HIDE DEF As
  <2>5. Fair(on)
    BY <1>8, <2>2, <2>3
  <2>6. CASE c.behavior # "work_shift"
    <3>1. v = on
      BY <1>5, <1>6, <2>1, <2>6 DEF StartPerforming
    <3>2. QED BY <2>4, <2>5, <3>1 DEF Waits, v
  <2>7. CASE c.behavior = "work_shift"
    <3>1. /\ v.minute = on.minute /\ v.version = on.version /\ v.at = on.at
          /\ v.present = on.present /\ v.needs = on.needs /\ v.action = on.action
          /\ v.created = on.created /\ v.enabled = on.enabled /\ v.slots = on.slots
          /\ v.reserved = on.reserved /\ v.food = on.food /\ v.money = on.money
          /\ v.crises = on.crises
      BY <1>7, <2>1, <2>2, PerformSame
    <3>2. Good(v)
      BY DEF v
    <3>3. on.sessions = w.sessions /\ on.ledger = w.ledger /\ on.minute = w.minute
      BY <2>2 DEF SameBooks
    <3>4. Starting(made, on)
      <4>1. made.sessions = w.sessions /\ made.minute = w.minute /\ on.action # None
        BY <1>4, <1>6, <2>2, <2>3 DEF SameBooks
      <4>2. QED BY <1>5, <1>6, <2>2, <2>4, <3>3, <4>1 DEF Starting
    <3>5. on = [w EXCEPT !.created = id, !.slots = slots, !.reserved = w.reserved + c.food,
                         !.action = As("PERFORMING")]
      <4>1. on = [made EXCEPT !.action = As("PERFORMING")]
        BY <1>6 DEF As
      <4>2. QED BY <4>1 DEF made
    <3> HIDE DEF on
    <3>6. on \in Context
      <4>1. v \in Context /\ w.sessions \in [Days -> Session \cup {None}] /\ w.ledger \in Seq(Told)
        BY <1>1, <3>2 DEF Good, Context
      <4>2. on.created = id /\ on.slots = slots /\ on.action = As("PERFORMING")
        BY <1>1, <3>5 DEF Context
      <4>3. id \in Nat /\ slots \in [Objects -> Nat] /\ As("PERFORMING") \in Action \cup {None}
        BY <3>1, <4>1, <4>2 DEF Context
      <4> HIDE DEF As
      <4>4. QED BY <1>1, <3>5, <4>3 DEF Context
    <3>7. Placed(on) /\ Held(on) /\ Located(on)
      BY <3>1, <3>2 DEF Good, Placed, Held, Located
    <3>8. Visible(on)
      BY <3>1, <3>2, <3>3 DEF Good, Visible
    <3>9. Sessioned(on) /\ Settled(on)
      <4>1. w.sessions[day] # None
        BY <2>7 DEF day
      <4>2. QED BY <1>2, <2>4, <2>7, <3>1, <3>2, <3>3, <4>1 DEF Good, Sessioned, Settled, Done
    <3>10. on.action.start <= on.minute /\ on.minute < End(on.action.session)
      <4>1. c.travel \in Nat /\ w.minute \in 0 .. MaxMinute
        BY <1>1, CandidatesFact DEF Proposal, Context
      <4>2. start = w.minute
        BY <1>2, <1>11, <2>7, <4>1
      <4>3. QED BY <1>2, <2>4, <2>7, <3>3, <4>1, <4>2
    <3>11. Fair(v)
      <4>1. Good(on)
        BY <3>6, <3>7, <3>8, <3>9 DEF Good
      <4>2. Fair(StartPerforming(made))
        BY <2>4, <2>5, <3>4, <3>10, <4>1, PerformFair
      <4>3. QED BY <2>1, <4>2
    <3>12. QED BY <2>4, <3>1, <3>11 DEF Waits, v
  <2>8. QED BY <2>6, <2>7
<1>12. QED BY <1>9, <1>10, <1>11

LEMMA DecidedFair ==
  ASSUME NEW w, Good(w), Fair(w), w.action = None, Rested(w),
         LET day == Window(w.minute)
         IN  day # NoDay /\ w.minute >= Start(day) - Lead => w.sessions[day] # None,
         NEW v \in Decided(w)
  PROVE  Fair(v) /\ Waits(v)
<1>1. PICK ranking \in Rankings(Candidates(w)) : v = Create(w, Selected(w, ranking))
  <2>1. \A d \in {Selected(w, ranking) : ranking \in Rankings(Candidates(w))} : Accepts(w, d)
    BY SomethingAccepted
  <2>2. QED BY <2>1 DEF Decided
<1> DEFINE c == Selected(w, ranking)
<1>2. c \in Candidates(w)
  <2>1. ranking[1] \in Candidates(w) /\ ranking[2] \in Candidates(w)
    BY DEF Rankings
  <2>2. IdleChoice(w) \in Candidates(w)
    BY DEF Candidates
  <2>3. QED BY <2>1, <2>2 DEF Selected
<1> HIDE DEF c
<1>3. c \in Proposal /\ (c.behavior = "work_shift" => w.sessions[Window(w.minute)] # None)
  BY <1>2, CandidatesFact
<1>4. w.reserved + c.food \in Nat
  BY <1>3 DEF Good, Context, Proposal
<1>5. Good(v)
  BY DecidedGood DEF Moves
<1>6. v = Create(w, c)
  BY <1>1 DEF c
<1>7. QED BY <1>2, <1>3, <1>4, <1>5, <1>6, CreateFair

-----------------------------------------------------------------------------
(* The invariant and the theorems.                                         *)

(* A commit shows the books as the context left them.                      *)
LEMMA CommitFair ==
  ASSUME NEW w, Good(w), Fair(w), Waits(w), Commit(w), mode' = mode
  PROVE  Fair(town)' /\ Waits(town)'
<1>1. town' = [w EXCEPT !.version = @ + 1]
  BY GoodIsConsistent DEF Commit
<1>2. PICK v : v = [w EXCEPT !.version = @ + 1]
  OBVIOUS
<1>3. SameBooks(w, v) /\ v.action = w.action
  <2>1. {"version", "action", "minute", "money", "food", "ledger", "sessions"} \subseteq DOMAIN w
    BY DEF Good, Context
  <2>2. QED BY <1>2, <2>1 DEF SameBooks
<1>4. Fair(v) /\ Waits(v)
  BY <1>3, FairKept DEF Waits, SameBooks
<1>5. town' = v
  BY <1>1, <1>2
<1>6. QED BY <1>4, <1>5
    DEF Fair, Waits, Story, Tells, AfterStart, Attends, Planned, Balanced, Done, Doing, Performing

(* The new minute, of which nothing has been felt.                         *)
LEMMA BeginningFact ==
  ASSUME IInv, Fair(town), Waits(town), NEW u, u = [town EXCEPT !.minute = @ + 1]
  PROVE  /\ Story(u) /\ Beginning(u) /\ Planned(u) /\ Balanced(u) /\ Early(u)
<1>1. /\ Good(town) /\ InTime(town) /\ OnTime(town) /\ town \in Context
  BY DEF IInv, Good
<1>2. /\ u.sessions = town.sessions /\ u.action = town.action /\ u.ledger = town.ledger
      /\ u.food = town.food /\ u.money = town.money /\ u.minute = town.minute + 1
      /\ town.minute \in Nat
  <2>1. {"version", "action", "minute", "money", "food", "ledger", "sessions"} \subseteq DOMAIN town
    BY <1>1 DEF Context
  <2>2. town.minute \in 0 .. MaxMinute
    BY <1>1 DEF Context
  <2>3. QED BY <2>1, <2>2
<1>3. Story(u) /\ Planned(u) /\ Balanced(u)
  BY <1>2 DEF Fair, Story, Planned, Balanced
<1>4. Beginning(u)
  <2>1. ASSUME NEW d \in Days, u.sessions[d] # None
        PROVE  /\ Scheduled(d)
               /\ u.sessions[d].first # Never =>
                    Start(d) <= u.sessions[d].first /\ u.sessions[d].first < u.minute
               /\ u.sessions[d].first # Never /\ ~u.sessions[d].finalized =>
                    /\ u.minute - u.sessions[d].first <= u.sessions[d].effective + 1
                    /\ u.minute <= End(d) /\ Doing(u, "work_shift") /\ u.action.session = d
               /\ Done(u, d) /\ u.sessions[d].first # Never /\ u.sessions[d].first <= Start(d) + Grace =>
                    u.sessions[d].paid
    <3> DEFINE s == town.sessions[d]
    <3>1. s \in Session /\ u.sessions[d] = s
      BY <1>1, <1>2, <2>1 DEF Context
    <3>2. s.first \in Int /\ s.effective \in Int /\ Start(d) \in Int /\ End(d) \in Int
      BY <3>1, ShiftFact DEF Session, Never
    <3>3. /\ Scheduled(d)
          /\ s.first # Never => Start(d) <= s.first /\ s.first <= town.minute
          /\ s.first # Never /\ ~s.finalized =>
               /\ town.minute - s.first <= s.effective
               /\ town.minute < End(d) => Doing(town, "work_shift") /\ town.action.session = d
          /\ Done(town, d) /\ s.first # Never /\ s.first <= Start(d) + Grace => s.paid
      BY <1>2, <2>1 DEF Fair, Attends
    <3>4. ~s.finalized => town.minute < End(d)
      BY <1>1, <1>2, <3>2, <3>3 DEF OnTime, Done
    <3>5. Doing(u, "work_shift") <=> Doing(town, "work_shift")
      BY <1>2 DEF Doing, Performing
    <3> HIDE DEF s
    <3>6. /\ s.first # Never => Start(d) <= s.first /\ s.first < u.minute
          /\ s.first # Never /\ ~s.finalized =>
               /\ u.minute - s.first <= s.effective + 1
               /\ u.minute <= End(d) /\ Doing(u, "work_shift") /\ u.action.session = d
      BY <1>2, <3>2, <3>3, <3>4, <3>5
    <3>7. Done(u, d) => Done(town, d)
      BY <1>2 DEF Done
    <3>8. QED BY <3>1, <3>3, <3>6, <3>7
  <2>2. QED BY <2>1 DEF Beginning
<1>5. Early(u)
  <2>1. ASSUME mode = "HEADLESS_FAST", town.action # None, town.action.behavior = "work_shift",
               town.action.phase # "PERFORMING"
        PROVE  town.minute + 1 <= town.action.start
    <3>1. town.action \in Action
      BY <1>1, <2>1 DEF Context
    <3>2. town.action.start \in Nat /\ town.action.arrival \in Nat
          /\ town.action.phase \in {"TRAVELING", "ALIGNING"}
      BY <2>1, <3>1 DEF Action, Phases
    <3>3. CASE town.action.phase = "TRAVELING"
      <4>1. town.at = Traveling
        BY <1>1, <2>1, <3>3 DEF Good, Placed
      <4>2. town.minute < town.action.arrival + 0
        BY <1>1, <2>1, <4>1 DEF InTime
      <4>3. town.action.arrival <= town.action.start
        BY <2>1, <3>3 DEF Fair, Planned
      <4>4. QED BY <1>2, <3>2, <4>2, <4>3
    <3>4. CASE town.action.phase = "ALIGNING"
      BY <1>2, <2>1, <3>2, <3>4 DEF Waits
    <3>5. QED BY <3>2, <3>3, <3>4
  <2>2. QED BY <1>2, <2>1 DEF Early
<1>6. QED BY <1>3, <1>4, <1>5

(* What is true of a minute that has been felt is true of what follows.    *)
LEMMA AdvanceFair ==
  ASSUME IInv, Fair(town), Waits(town), Advance
  PROVE  Fair(town)' /\ Waits(town)'
<1> DEFINE u == [town EXCEPT !.minute = @ + 1]
<1>1. Good(town) /\ town \in Context /\ mode' = mode /\ mode \in {"HEADLESS_FAST", "UNITY_LIVE"}
  BY DEF IInv, Good, Advance
<1>2. PICK felt, moved, closed, told, next :
        /\ felt = ApplyNeedChanges(u) /\ moved = Progress(felt) /\ closed = Finalize(moved)
        /\ told = UpdateCrises(closed)
        /\ next \in IF told.action # None THEN {told} ELSE Decided(OpenWindow(told))
        /\ IF next = None THEN Raise ELSE Commit(next)
  BY DEF Advance
<1>3. Story(u) /\ Beginning(u) /\ Planned(u) /\ Balanced(u) /\ Early(u)
  BY BeginningFact
<1>4. Good(u) /\ \A d \in Days : Done(u, d) => End(d) < u.minute
  BY <1>1, NewMinuteGood DEF Advance
<1> HIDE DEF u
<1>5. /\ Good(felt) /\ Fair(felt) /\ Early(felt) /\ Rested(felt) /\ felt.minute = u.minute
  <2>1. Early(felt)
    BY <1>2, <1>3, <1>4, FeltFact DEF Early
  <2>2. Rested(felt)
    BY <1>2, <1>4, FeltRested
  <2>3. QED BY <1>2, <1>3, <1>4, <2>1, <2>2, ApplyNeedChangesGood, FeltFair
<1>6. Moves(felt, moved) /\ Good(moved) /\ Fair(moved) /\ Waits(moved) /\ Rested(moved)
  <2>1. Moves(felt, moved) /\ (felt.at # Traveling => moved.at = felt.at)
    BY <1>1, <1>2, <1>5, ProgressGood
  <2>2. Fair(moved) /\ Waits(moved) /\ Good(moved)
    BY <1>1, <1>2, <1>5, ProgressFair
  <2>3. QED BY <1>5, <2>1, <2>2, RestedOn
<1>7. /\ Good(closed) /\ Fair(closed) /\ Waits(closed) /\ Rested(closed)
  <2>1. Moves(moved, closed) /\ closed.action = moved.action /\ closed.at = moved.at
    BY <1>2, <1>6, FinalizeGood
  <2>2. QED BY <1>2, <1>6, <2>1, FinalizeFair, RestedOn DEF Moves, Waits
<1>8. /\ Good(told) /\ Fair(told) /\ Waits(told) /\ Rested(told)
  <2>1. Moves(closed, told) /\ told.action = closed.action /\ told.at = closed.at
    BY <1>2, <1>7, UpdateCrisesGood
  <2>2. QED BY <1>2, <1>7, <2>1, CrisesFair, RestedOn DEF Moves, Waits
<1>9. Good(next) /\ Fair(next) /\ Waits(next)
  <2>1. CASE told.action # None
    BY <1>2, <1>8, <2>1
  <2>2. CASE told.action = None
    <3> DEFINE o == OpenWindow(told)
    <3>1. /\ Moves(told, o) /\ o.action = told.action /\ o.at = told.at
          /\ LET day == Window(told.minute)
             IN  day # NoDay /\ told.minute >= Start(day) - Lead => o.sessions[day] # None
      BY <1>8, OpenWindowGood
    <3>2. Fair(o) /\ Rested(o)
      BY <1>8, <3>1, OpenWindowFair, RestedOn
    <3>3. next \in Decided(o)
      BY <1>2, <2>2
    <3> HIDE DEF o
    <3>4. Good(o) /\ o.minute = told.minute /\ o.action = None
      BY <2>2, <3>1 DEF Moves
    <3>5. Fair(next) /\ Waits(next)
      BY <3>1, <3>2, <3>3, <3>4, DecidedFair
    <3>6. Moves(o, next)
      BY <3>1, <3>2, <3>3, <3>4, DecidedGood
    <3>7. QED BY <3>5, <3>6 DEF Moves
  <2>3. QED BY <2>1, <2>2
<1>10. next # None
  <2>1. next \in Context
    BY <1>9 DEF Good
  <2>2. QED BY <2>1, ContextNotNone
<1>11. QED BY <1>1, <1>2, <1>9, <1>10, CommitFair

(* A confirmed arrival moves the work to where it begins, and its end.     *)
LEMMA ReportFair ==
  ASSUME IInv, Fair(town), Waits(town), ReportArrived \/ ReportEnded
  PROVE  Fair(town)' /\ Waits(town)'
<1> DEFINE a == town.action
           start == IF town.minute > a.start THEN town.minute ELSE a.start
           u == [town EXCEPT !.action.start = start, !.action.end = start + a.duration]
<1>1. /\ Good(town) /\ town \in Context /\ mode' = mode /\ mode = "UNITY_LIVE"
      /\ a # None /\ a \in Action /\ a.phase = "TRAVELING" /\ town.at = Traveling
  BY DEF IInv, Good, Placed, Context, Reportable, ReportArrived, ReportEnded
<1>2. CASE ReportArrived
  <2> DEFINE b == [a EXCEPT !.start = start, !.end = start + a.duration]
  <2>1. /\ start \in Nat /\ start + a.duration \in Nat /\ a.start <= start
        /\ a.start \in Nat /\ a.duration \in Nat
    <3>1. town.minute \in 0 .. MaxMinute /\ a.start \in Nat /\ a.duration \in Nat
      BY <1>1 DEF Context, Action
    <3>2. QED BY <3>1
  <2>2. b \in Action /\ b # None
    BY <1>1, <2>1, NotNone DEF Action
  <2>3. /\ b.phase = a.phase /\ b.objects = a.objects /\ b.id = a.id /\ b.food = a.food
        /\ b.behavior = a.behavior /\ b.session = a.session /\ b.arrival = a.arrival
        /\ b.dest = a.dest /\ b.origin = a.origin /\ b.duration = a.duration
        /\ b.start = start /\ b.end = start + a.duration
    BY <1>1 DEF Action
  <2>4. u = [town EXCEPT !.action = b]
    BY <1>1 DEF Context
  <2>5. Commit(Arrive(u))
    BY <1>2 DEF ReportArrived
  <2> HIDE DEF b, u
  <2>6. u \in Context
    BY <1>1, <2>2, <2>4 DEF Context
  <2>7. /\ u.action = b /\ u.minute = town.minute /\ u.version = town.version /\ u.sessions = town.sessions
        /\ u.at = town.at /\ u.slots = town.slots /\ u.reserved = town.reserved
        /\ u.food = town.food /\ u.present = town.present /\ u.ledger = town.ledger
        /\ u.enabled = town.enabled /\ u.money = town.money
    BY <1>1, <2>4 DEF Context
  <2>8. Good(u)
    BY <1>1, <2>2, <2>3, <2>6, <2>7
       DEF Good, Placed, Held, Sessioned, Settled, Done, Visible, Located
  <2>9. Fair(u)
    <3>1. SameBooks(town, u)
      BY <2>7 DEF SameBooks
    <3>2. MayStop(town)
      BY <1>1 DEF MayStop, Doing, Performing
    <3>3. Planned(u)
      <4>1. /\ b.behavior = "eat_at_home" => b.food = 1
            /\ a.behavior = "work_shift" =>
                 /\ Start(a.session) <= a.start /\ End(a.session) <= a.end
                 /\ a.end = a.start + a.duration /\ a.arrival <= a.start
        BY <1>1, <2>3 DEF Fair, Planned
      <4>2. a.behavior = "work_shift" => a.session \in Days
        BY <1>1 DEF Good, Sessioned, Action
      <4>3. a.behavior = "work_shift" => /\ Start(a.session) \in Int /\ End(a.session) \in Int
                                         /\ a.arrival \in Nat
        BY <1>1, <4>2, ShiftFact DEF Action
      <4> HIDE DEF a, start
      <4>4. a.behavior = "work_shift" =>
              /\ Start(a.session) <= start /\ End(a.session) <= start + a.duration
              /\ a.arrival <= start
        BY <2>1, <4>1, <4>3
      <4>5. QED BY <1>1, <2>3, <2>7, <4>1, <4>4 DEF Planned
    <3>4. QED BY <3>1, <3>2, <3>3, FairKept
  <2>10. Early(u)
    BY <1>1 DEF Early
  <2>11. u.action # None /\ u.action.phase = "TRAVELING"
    BY <1>1, <2>2, <2>3, <2>7
  <2>12. Fair(Arrive(u)) /\ Waits(Arrive(u))
    BY <2>8, <2>9, <2>10, <2>11, ArriveFair
  <2>13. Good(Arrive(u))
    BY <1>1, <2>7, <2>8, <2>11, ArriveGood DEF Moves
  <2>14. QED BY <1>1, <2>5, <2>12, <2>13, CommitFair
<1>3. CASE ReportEnded
  <2>1. Good(AbandonTrip(town)) /\ AbandonTrip(town).action = None
    BY <1>1, AbandonTripGood
  <2>2. Fair(AbandonTrip(town)) /\ Waits(AbandonTrip(town))
    BY <1>1, <2>1, AbandonFair DEF Waits
  <2>3. Commit(AbandonTrip(town))
    BY <1>3 DEF ReportEnded
  <2>4. QED BY <1>1, <2>1, <2>2, <2>3, CommitFair
<1>4. QED BY <1>2, <1>3

(* The fixture has nothing to tell and owes nothing.                       *)
LEMMA InitFair == Init => Fair(town) /\ Waits(town)
<1> SUFFICES ASSUME Init PROVE Fair(town) /\ Waits(town)
  OBVIOUS
<1>1. /\ town.action = None /\ town.ledger = <<>> /\ town.money = StartMoney
      /\ town.food \in StartFood /\ \A d \in Days : town.sessions[d] = None
  BY DEF Init
<1>2. Len(town.ledger) = 0
  BY <1>1
<1>3. Story(town)
  BY <1>1, <1>2 DEF Story, Tells, Lived, Coherent
<1>4. Balanced(town)
  <2>1. PaidOf(town.sessions) = {}
    BY <1>1 DEF PaidOf
  <2>2. MealsOf(town.ledger) = {}
    BY <1>2 DEF MealsOf
  <2>3. Cardinality({}) = 0
    BY FS_EmptySet
  <2>4. StartMoney + Wage * 0 = StartMoney
    BY TownConstants
  <2>5. town.food + 0 = town.food
    <3>1. town.food \in Nat
      BY <1>1, TownConstants, Zenon
    <3>2. QED BY <3>1
  <2>6. town.money = StartMoney + Wage * 0 /\ town.food + 0 \in StartFood
    BY <1>1, <2>4, <2>5, Zenon
  <2>7. QED BY <2>1, <2>2, <2>3, <2>6, Zenon DEF Balanced
<1>5. Attends(town) /\ Planned(town) /\ Waits(town)
  BY <1>1 DEF Attends, Planned, Waits
<1>6. QED BY <1>3, <1>4, <1>5 DEF Fair

FInv == IInv /\ Fair(town) /\ Waits(town)

LEMMA FairInductive == FInv /\ [Next]_vars => FInv'
<1> SUFFICES ASSUME FInv, [Next]_vars PROVE FInv'
  OBVIOUS
<1>1. IInv /\ IInv' /\ Fair(town) /\ Waits(town)
  BY Inductive DEF FInv
<1>2. Fair(town)' /\ Waits(town)'
  <2>1. CASE Advance
    BY <1>1, <2>1, AdvanceFair
  <2>2. CASE ReportArrived
    BY <1>1, <2>2, ReportFair
  <2>3. CASE ReportEnded
    BY <1>1, <2>3, ReportFair
  <2>4. ASSUME town' = town, mode' = mode PROVE Fair(town)' /\ Waits(town)'
    BY <1>1, <2>4 DEF Fair, Waits, Story, Tells, AfterStart, Attends, Planned, Balanced,
                      Done, Doing, Performing
  <2>5. QED BY <2>1, <2>2, <2>3, <2>4 DEF Next, vars
<1>3. QED BY <1>1, <1>2 DEF FInv

LEMMA FairInvariant == Spec => []FInv
<1>1. Init => FInv
  BY InitIInv, InitFair DEF FInv
<1>2. QED BY <1>1, FairInductive, PTL DEF Spec

(* What a shift lived through was told of it exactly once.                 *)
LEMMA ToldOnce ==
  ASSUME NEW d, NEW T, Tells(town.ledger, d, T), NEW type
  PROVE  /\ type \notin T => EventsOf(type, d) = {} /\ Cardinality(EventsOf(type, d)) = 0
         /\ type \in T => Cardinality(EventsOf(type, d)) = 1
<1> DEFINE E == EventsOf(type, d)
<1>1. CASE type \notin T
  <2>1. E = {}
    BY <1>1 DEF Tells, EventsOf
  <2>2. QED BY <1>1, <2>1, FS_EmptySet
<1>2. CASE type \in T
  <2>1. PICK i \in 1 .. Len(town.ledger) : town.ledger[i].type = type /\ town.ledger[i].day = d
    BY <1>2 DEF Tells
  <2>2. \A j \in E : j = i
    BY <2>1 DEF Tells, EventsOf
  <2>3. i \in E
    BY <2>1 DEF EventsOf
  <2> HIDE DEF E
  <2>4. E = {i}
    BY <2>2, <2>3
  <2>5. Cardinality(E) = 1
    BY <2>4, FS_Singleton
  <2>6. QED BY <1>2, <2>5 DEF E
<1>3. QED BY <1>1, <1>2

(* ADR-0008, decision 5: the money is one wage for each completed shift,   *)
(* the food what the meals have left, and no shift is completed twice or   *)
(* without its wage, at every moment and in both modes.                    *)
THEOREM BooksAreBalanced == Spec => []BooksBalance
<1>1. FInv => BooksBalance
  <2> SUFFICES ASSUME FInv PROVE BooksBalance
    OBVIOUS
  <2>1. Balanced(town) /\ Story(town)
    BY DEF FInv, Fair
  <2>2. PaidDays = PaidOf(town.sessions) /\ Meals = MealsOf(town.ledger)
    BY DEF PaidDays, PaidOf, Meals, MealsOf
  <2>3. ASSUME NEW d \in Days
        PROVE  Cardinality(EventsOf("WORK_COMPLETED", d)) = IF d \in PaidDays THEN 1 ELSE 0
    <3>1. Tells(town.ledger, d, Lived(town.sessions[d]))
      BY <2>1 DEF Story
    <3>2. "WORK_COMPLETED" \in Lived(town.sessions[d]) <=> d \in PaidDays
      BY DEF Lived, WorkEvents, PaidDays
    <3>3. QED BY <3>1, <3>2, ToldOnce
  <2>4. town.money = StartMoney + Wage * Cardinality(PaidDays)
    BY <2>1, <2>2, Zenon DEF Balanced
  <2>5. town.food + Cardinality(Meals) \in StartFood
    BY <2>1, <2>2, Zenon DEF Balanced
  <2>6. QED BY <2>3, <2>4, <2>5, Zenon DEF BooksBalance
<1>2. QED BY <1>1, FairInvariant, PTL

(* Every shift comes out right: its events once each and in order, settled *)
(* in the minute it ends, and paid to whoever came within the grace, with  *)
(* trips of any length and reports at any moment.                          *)
THEOREM ShiftsComeOutRight == Spec => []ShiftsRight
<1>1. FInv => ShiftsRight
  <2> SUFFICES ASSUME FInv PROVE ShiftsRight
    OBVIOUS
  <2>1. Story(town) /\ Attends(town) /\ IInv
    BY DEF FInv, Fair
  <2>2. ASSUME NEW d \in Days
        PROVE  /\ \A type \in EventTypes : Cardinality(EventsOf(type, d)) <= 1
               /\ Cardinality(Outcomes(d)) <= 1
               /\ Before(EventsOf("WORK_STARTED", d), EventsOf("WORK_LATE", d))
               /\ Before(EventsOf("WORK_STARTED", d), EventsOf("WORK_COMPLETED", d))
               /\ mode = "HEADLESS_FAST" => Before(EventsOf("WORK_STARTED", d), Outcomes(d))
    <3> DEFINE T == Lived(town.sessions[d])
    <3>1. Tells(town.ledger, d, T)
      BY <2>1 DEF Story
    <3>2. ~("WORK_COMPLETED" \in T /\ "WORK_MISSED" \in T)
      BY DEF Lived
    <3> HIDE DEF T
    <3>3. \A type \in EventTypes : Cardinality(EventsOf(type, d)) <= 1
      BY <3>1, ToldOnce
    <3>4. Cardinality(Outcomes(d)) <= 1
      <4>1. \/ EventsOf("WORK_COMPLETED", d) = {}
            \/ EventsOf("WORK_MISSED", d) = {}
        BY <3>1, <3>2, ToldOnce
      <4>2. \/ Outcomes(d) = EventsOf("WORK_MISSED", d)
            \/ Outcomes(d) = EventsOf("WORK_COMPLETED", d)
        BY <4>1 DEF Outcomes
      <4>3. "WORK_COMPLETED" \in EventTypes /\ "WORK_MISSED" \in EventTypes
        BY DEF EventTypes
      <4>4. QED BY <3>3, <4>2, <4>3
    <3>5. \A type \in AfterStart : Before(EventsOf("WORK_STARTED", d), EventsOf(type, d))
      BY <3>1 DEF Tells, Before, EventsOf
    <3>6. mode = "HEADLESS_FAST" => Before(EventsOf("WORK_STARTED", d), Outcomes(d))
      BY <3>5 DEF AfterStart, Before, Outcomes
    <3>7. QED BY <3>3, <3>4, <3>5, <3>6 DEF AfterStart
  <2>3. GraceHonoured
    BY <2>1 DEF Attends, GraceHonoured, Done
  <2>4. ShiftsSettleOnTime
    BY <2>1 DEF IInv, Good, Settled, OnTime, Done, ShiftsSettleOnTime
  <2>5. QED BY <2>2, <2>3, <2>4 DEF ShiftsRight, ShiftStory
<1>2. QED BY <1>1, FairInvariant, PTL
=============================================================================
