----------------------------- MODULE SocietyDay -----------------------------
(***************************************************************************)
(* Days of the M3 society: src/python/town_core/society/engine.py with the *)
(* needs, work sessions, breaks, wages, crises and low resources that      *)
(* Society leaves out, and with decisions ranked by Rulebook.              *)
(*                                                                         *)
(* A record w is the authority context; day is SocietyEngine.checkpoint.   *)
(* Agents act alone (no social behaviour is allowed here), headless, so an *)
(* action holds its actor, one slot of each object type it uses and the    *)
(* money and food it will cost: what Society shows of claims is assumed by *)
(* reading them off the running actions.  Actions of one minute progress   *)
(* agent by agent; their effects touch different agents and different      *)
(* reserved units, so only the order of event numbers depends on it.       *)
(***************************************************************************)
EXTENDS Rulebook, Sequences

CONSTANTS
  Agent, Household,
  Member, Home, Work, \* of each agent
  Slots,              \* object type -> slot_count
  WeekLength, Weekdays, ShiftStart, ShiftEnd, Grace,
  Decay,              \* Need -> Nat: passive decay per minute
  Wage, MoneyLow,
  StartNeeds,         \* the initial needs tried
  StartMoney, StartFood, \* Household -> Nat
  TensionMax,
  MaxFailures,        \* bound on fail_action calls
  MaxMinute           \* bound on game_minute, for model checking only

Traveling == "TRAVELING"
None == [none |-> TRUE]
NoDay == -1
Days == 0 .. (MaxMinute \div DayLength) + WeekLength
Scheduled(d) == d % WeekLength \in Weekdays
Coworkers(a) == {c \in Agent \ {a} : Work[c] = Work[a]}

ASSUME SocietyDayConstants ==
  /\ Traveling \notin Location
  /\ Member \in [Agent -> Household]
  /\ Home \in [Agent -> Location] /\ Work \in [Agent -> Location]
  /\ Weekdays # {} /\ Weekdays \subseteq 0 .. WeekLength - 1
  /\ ShiftStart < ShiftEnd /\ ShiftEnd <= DayLength
  /\ IsFiniteSet(Agent) /\ IsFiniteSet(Household)
  /\ WeekLength \in Nat /\ MaxMinute \in Nat /\ MaxFailures \in Nat
  /\ ShiftStart \in Nat /\ ShiftEnd \in Nat /\ Grace \in Nat
  /\ Wage \in Nat /\ StartMoney \in [Household -> Nat] /\ StartFood \in [Household -> Nat]
  /\ Decay \in [Need -> Nat]
  /\ StartNeeds \subseteq [Need -> 0 .. NeedMax]

(* The frozen catalog: a workplace is open through the shift, and a break  *)
(* is taken at work and no longer than the end of its window leaves.       *)
ASSUME FrozenCatalog ==
  /\ \A a \in Agent : Opens[Work[a]] <= ShiftStart /\ ShiftEnd <= Closes[Work[a]]
  /\ "take_break" \in Behavior =>
       /\ Catalog["take_break"].dest = "WORK"
       /\ Catalog["take_break"].base + Catalog["take_break"].variance <= BreakUntil + 1

VARIABLES
  day,     \* the committed authority
  failures, \* fail_action calls made
  fault    \* why the last engine call raised, "none" if it did not

vars == <<day, failures, fault>>

-----------------------------------------------------------------------------
(* The records of a context.                                               *)

NewSession(d) ==
  [start |-> d * DayLength + ShiftStart, end |-> d * DayLength + ShiftEnd, grace |-> Grace,
   effective |-> 0, first |-> Never, started |-> FALSE, late |-> FALSE,
   finalized |-> FALSE, paid |-> FALSE, breaks |-> 0]

(* _work_session: the record of a day, created when first needed.          *)
Opened(w, a, d) ==
  IF w.sessions[a][d] = None THEN [w EXCEPT !.sessions[a][d] = NewSession(d)] ELSE w

(* The first scheduled day whose shift has not ended.                      *)
ComingDay(minute) ==
  LET today == minute \div DayLength
  IN  Min({d \in today .. today + WeekLength :
             Scheduled(d) /\ minute < d * DayLength + ShiftEnd})

(* _decision_work_session keeps the record from an hour ahead of the shift. *)
DecisionSession(w, a) ==
  LET d == ComingDay(w.minute)
      s == IF w.sessions[a][d] = None THEN NewSession(d) ELSE w.sessions[a][d]
  IN  [day |-> d, session |-> s,
       world |-> IF w.minute >= s.start - Lead THEN Opened(w, a, d) ELSE w]

Event(type, who, d, need) == [type |-> type, who |-> who, day |-> d, need |-> need]
Stage(w, e) == [w EXCEPT !.told = Append(@, e)]

Busy(w, a) == w.act[a] # None
Performing(w, a) == Busy(w, a) /\ w.act[a].phase = "PERFORMING"
Doing(w, a, b) == Performing(w, a) /\ w.act[a].b = b

(* What the running actions hold.                                          *)
InHousehold(h) == {a \in Agent : Member[a] = h}
HeldMoney(w, h) ==
  MapThenSumSet(LAMBDA a : IF Busy(w, a) THEN Catalog[w.act[a].b].price ELSE 0, InHousehold(h))
HeldFood(w, h) ==
  MapThenSumSet(LAMBDA a : IF Busy(w, a) THEN Catalog[w.act[a].b].food ELSE 0, InHousehold(h))
Usable(w) ==
  {t \in DOMAIN Slots : Cardinality({a \in Agent : Busy(w, a) /\ t \in Catalog[w.act[a].b].uses})
                          < Slots[t]}

Clamp(x) == Up(0, Down(NeedMax, x))
AgentOrder == SetToSeq(Agent)
Each(Step(_, _), w) == FoldLeft(Step, w, AgentOrder)

-----------------------------------------------------------------------------
(* One minute before the decisions.                                        *)

(* A work minute counts while the shift lasts, the first one after its     *)
(* start.                                                                  *)
Counted(w, s) == s.start < w.minute /\ w.minute <= s.end

Feel(w, a) ==
  LET passive(n) == IF n = "energy" /\ Doing(w, a, "sleep") THEN 0 ELSE Decay[n]
      active(n) == IF Performing(w, a) THEN Catalog[w.act[a].b].during[n] ELSE 0
      felt == [w EXCEPT !.needs[a] = [n \in Need |-> Clamp(@[n] - passive(n) + active(n))]]
      d == w.act[a].day
  IN  IF Doing(w, a, "work_shift") /\ Counted(w, w.sessions[a][d])
        THEN [felt EXCEPT !.sessions[a][d].effective = @ + 1]
        ELSE felt
ApplyNeedChanges(w) == Each(Feel, w)

(* _start_performing: the first work minute of a session starts it.        *)
StartPerforming(w, a) ==
  LET on == [w EXCEPT !.act[a].phase = "PERFORMING"]
      d == w.act[a].day
      s == w.sessions[a][d]
      first == s.first = Never
      tardy == first /\ w.minute > s.start /\ ~s.late
      begun == IF s.started THEN on ELSE Stage(on, Event("WORK_STARTED", a, d, "none"))
      told == IF tardy THEN Stage(begun, Event("WORK_LATE", a, d, "none")) ELSE begun
  IN  IF w.act[a].b # "work_shift" THEN on
      ELSE [told EXCEPT !.sessions[a][d] =
              [s EXCEPT !.first = IF first THEN w.minute ELSE @,
                        !.started = TRUE, !.late = @ \/ tardy]]

Arrive(w, a) ==
  LET here == [w EXCEPT !.at[a] = w.act[a].dest, !.act[a].phase = "ALIGNING"]
  IN  IF w.minute >= w.act[a].start THEN StartPerforming(here, a) ELSE here

Terminate(w, a) ==
  [w EXCEPT !.act[a] = None, !.recent[a] = w.act[a].b]

(* _resolve_action for an actor alone: what was reserved is spent, the     *)
(* effects felt, a break recorded, the event told.  Slip: the groceries    *)
(* are booked, nothing is spent.                                           *)
SpentNothing(w, h, b) == [w EXCEPT !.food[h] = @ + Catalog[b].gain]
Spent(w, h, b) ==
  [w EXCEPT !.money[h] = @ - Catalog[b].price, !.food[h] = @ - Catalog[b].food + Catalog[b].gain]
(* _apply_behavior_effects: sleep and work have told on the needs by the   *)
(* minute.                                                                 *)
Lasting == {"sleep", "work_shift"}
Felt(w, a, b) ==
  [w EXCEPT !.needs[a] =
     [n \in Need |-> IF b \in Lasting THEN @[n] ELSE Clamp(@[n] + Catalog[b].delta[n])]]

(* _emit_non_social_events                                                 *)
Happened(w, a, b) ==
  CASE b \in {"eat_at_home", "eat_at_cafe"} -> Stage(w, Event("MEAL_CONSUMED", a, NoDay, b))
    [] b = "buy_groceries" -> Stage(w, Event("GROCERIES_PURCHASED", a, NoDay, b))
    [] OTHER -> w

Resolve(w, a) ==
  LET b == w.act[a].b
      felt == Felt(Spent(w, Member[a], b), a, b)
      rested == IF b = "take_break"
                  THEN [felt EXCEPT !.sessions[a][w.act[a].day].breaks = @ + 1] ELSE felt
  IN  Terminate(Happened(rested, a, b), a)

ArriveIfDue(w, a) ==
  IF Busy(w, a) /\ w.act[a].phase = "TRAVELING" /\ w.minute >= w.act[a].arrival
    THEN Arrive(w, a) ELSE w
AlignIfDue(w, a) ==
  IF Busy(w, a) /\ w.act[a].phase = "ALIGNING" /\ w.minute >= w.act[a].start
    THEN StartPerforming(w, a) ELSE w
ResolveIfDue(w, a) ==
  IF Performing(w, a) /\ w.minute >= w.act[a].end THEN Resolve(w, a) ELSE w
ProgressOne(w, a) == ResolveIfDue(AlignIfDue(ArriveIfDue(w, a), a), a)
ProgressActions(w) == Each(ProgressOne, w)

Attended(s) ==
  /\ s.first # Never /\ s.first <= s.start + s.grace
  /\ s.effective >= (s.end - s.start) - s.grace

(* A missed shift weighs on every coworker.                                *)
Burden(w, a, d) ==
  IF Coworkers(a) = {} THEN w
  ELSE [Stage(w, Event("COWORKER_EXTRA_LOAD", a, d, "none")) EXCEPT
          !.tension = [c \in Agent |-> [b \in Agent |->
                         IF c \in Coworkers(a) /\ b = a THEN Down(TensionMax, @[c][b] + 1)
                                                        ELSE @[c][b]]]]

AtShiftEnd(w, d) == w.minute = d * DayLength + ShiftEnd

FinalizeOne(w, a) ==
  LET d == w.minute \div DayLength
      opened == Opened(w, a, d)
      s == opened.sessions[a][d]
      closed == [opened EXCEPT !.sessions[a][d].finalized = TRUE,
                               !.sessions[a][d].paid = Attended(s)]
      paid == [closed EXCEPT !.money[Member[a]] = @ + Wage, !.settled = @ \cup {<<a, d>>}]
  IN  IF ~(Scheduled(d) /\ AtShiftEnd(w, d)) THEN w
      ELSE IF s.finalized THEN opened
      ELSE IF Attended(s)
        THEN Stage([paid EXCEPT !.repaid = @ \/ <<a, d>> \in w.settled],
                   Event("WORK_COMPLETED", a, d, "none"))
        ELSE Burden(Stage(closed, Event("WORK_MISSED", a, d, "none")), a, d)
FinalizeWorkSessions(w) == Each(FinalizeOne, w)

InCrisis(w, a) == {n \in Need : w.needs[a][n] <= Crisis[n]}
CrisesOne(w, a) ==
  LET entered == SetToSeq(InCrisis(w, a) \ w.crises[a])
  IN  [w EXCEPT !.crises[a] = InCrisis(w, a),
                !.told = @ \o [i \in DOMAIN entered |->
                                Event("NEED_CRISIS", a, NoDay, entered[i])]]
UpdateNeedCrises(w) == Each(CrisesOne, w)

(* A flag is raised with an event and lowered in silence.                  *)
Low(w, h) ==
  {r \in {"FOOD", "MONEY"} : IF r = "FOOD" THEN w.food[h] <= FoodLow ELSE w.money[h] <= MoneyLow}
LowEvent(h, r) ==
  Event(IF r = "FOOD" THEN "HOUSEHOLD_FOOD_LOW" ELSE "HOUSEHOLD_MONEY_LOW", h, NoDay, "none")
LowOne(w, h) ==
  LET raised == SetToSeq(Low(w, h) \ w.low[h])
  IN  [w EXCEPT !.low[h] = Low(w, h),
                !.told = @ \o [i \in DOMAIN raised |-> LowEvent(h, raised[i])]]
UpdateLowResources(w) == FoldLeft(LowOne, w, SetToSeq(Household))

-----------------------------------------------------------------------------
(* Decisions.                                                              *)

Due(w) == {a \in Agent : ~Busy(w, a) /\ w.at[a] # Traveling}

(* What agent a reads of the source state.                                 *)
View(w, a) ==
  LET h == Member[a]
  IN  [home |-> Home[a], work |-> Work[a], at |-> w.at[a], minute |-> w.minute,
       needs |-> w.needs[a], money |-> w.money[h], food |-> w.food[h],
       freeMoney |-> w.money[h] - HeldMoney(w, h), freeFood |-> w.food[h] - HeldFood(w, h),
       usable |-> Usable(w), recent |-> w.recent[a]]

Prepared(w, a) == Picks(View(w, a), DecisionSession(w, a).session)

(* _resolve_and_create's checks, against the context as it is by now; idle *)
(* where one stands is exempt from opening hours.                          *)
Accepted(w, a, b) ==
  LET v == View(w, a)
  IN  /\ b = "idle" \/ OpenOnArrival(v, b)
      /\ Affordable(v, b)
      /\ Catalog[b].uses \subseteq v.usable

(* The end of _create_action: the new action's first phase.                *)
Begun(w, a) ==
  IF w.at[a] # w.act[a].dest
    THEN [w EXCEPT !.at[a] = Traveling, !.act[a].phase = "TRAVELING"]
  ELSE IF w.minute < w.act[a].start THEN [w EXCEPT !.act[a].phase = "ALIGNING"]
  ELSE StartPerforming(w, a)

(* _create_action.                                                         *)
Create(w, a, b, duration) ==
  LET v == View(w, a)
      arrival == Arrival(v, b)
      ds == DecisionSession(w, a)
      onShift == b \in {"work_shift", "take_break"}
      start == IF b = "work_shift" THEN Up(arrival, ds.session.start) ELSE arrival
      made == [(IF onShift THEN ds.world ELSE w) EXCEPT !.act[a] =
                [b |-> b, phase |-> "RESERVING", dest |-> Destination(v, b), origin |-> w.at[a],
                 arrival |-> arrival, start |-> start, end |-> start + duration,
                 day |-> IF onShift THEN ds.day ELSE NoDay]]
  IN  Begun(made, a)

(* The first choice, or idle where it is turned down.                      *)
DecideOne(w, a, pick) ==
  IF Accepted(w, a, pick.first) THEN Create(w, a, pick.first, pick.takes)
                                ELSE Create(w, a, "idle", pick.idles)

(* The queue: work first, the others by score, here in any order.          *)
Queues(pick) ==
  {q \in SetToSeqs(DOMAIN pick) :
     \A i, j \in 1 .. Len(q) :
       pick[q[j]].first = "work_shift" /\ pick[q[i]].first # "work_shift" => j < i}

(* Enumerating opens the sessions that are near, then the queue is served. *)
OpenNear(w) ==
  Each(LAMBDA x, a : IF a \in Due(w) THEN DecisionSession(x, a).world ELSE x, w)
PicksOf(w) ==
  FoldLeft(LAMBDA P, a : {With(p, a, x) : p \in P, x \in Prepared(w, a)}, {<<>>},
           SetToSeq(Due(w)))
Served(w, pick, q) == FoldLeft(LAMBDA x, a : DecideOne(x, a, pick[a]), w, q)

-----------------------------------------------------------------------------
(* Commit: what the checkpoint's validators and the engine refuse.         *)
Fault(w) ==
  CASE \E a \in Agent, d \in Days : w.sessions[a][d] # None /\ w.sessions[a][d].breaks > 1 ->
         "second_break"
    [] w.repaid -> "wage_twice"
    [] \E h \in Household : w.money[h] < HeldMoney(w, h) \/ w.food[h] < HeldFood(w, h) ->
         "over_reserved"
    [] OTHER -> "none"
Commit(w) ==
  /\ fault' = Fault(w)
  /\ day' = IF Fault(w) = "none" THEN w ELSE day

Init ==
  /\ \E needs \in [Agent -> StartNeeds] :
       day = [minute |-> 0, needs |-> needs, at |-> Home,
              act |-> [a \in Agent |-> None], recent |-> [a \in Agent |-> "none"],
              money |-> StartMoney, food |-> StartFood,
              sessions |-> [a \in Agent |-> [d \in Days |-> None]],
              settled |-> {}, repaid |-> FALSE,
              crises |-> [a \in Agent |-> {}], low |-> [h \in Household |-> {}],
              tension |-> [c \in Agent |-> [a \in Agent |-> 0]], told |-> <<>>]
  /\ failures = 0 /\ fault = "none"

(* _advance_one_minute                                                     *)
Advance ==
  /\ fault = "none" /\ day.minute < MaxMinute
  /\ \E felt \in {ApplyNeedChanges([day EXCEPT !.minute = @ + 1, !.told = <<>>])} :
     \E moved \in {ProgressActions(felt)} :
     \E closed \in {FinalizeWorkSessions(moved)} :
     \E told \in {UpdateLowResources(UpdateNeedCrises(closed))} :
     \E open \in {OpenNear(told)} :
     \E pick \in PicksOf(open) : \E q \in Queues(pick) :
     \E next \in {Served(open, pick, q)} : Commit(next)
  /\ UNCHANGED failures

(* fail_action: the actor is back where it came from, free at once.        *)
FailAction(a) ==
  /\ fault = "none" /\ failures < MaxFailures /\ Busy(day, a)
  /\ Commit([Terminate(day, a) EXCEPT !.at[a] = day.act[a].origin, !.told = <<>>])
  /\ failures' = failures + 1

Next == Advance \/ \E a \in Agent : FailAction(a)
Spec == Init /\ [][Next]_vars

-----------------------------------------------------------------------------
(* Properties.                                                             *)

Count(type, who, need) ==
  Cardinality({i \in DOMAIN day.told : day.told[i] = Event(type, who, NoDay, need)})

(* No minute of legal steps makes the engine raise: two members of a       *)
(* household who decide in the same minute never promise the same money or *)
(* food twice, nobody takes two breaks in a shift and no wage is settled   *)
(* twice (_reserve_resource, invariants.py, _finalize_work_sessions).      *)
NeverFails == fault = "none"

(* A break never costs the wage: while it lasts, the shift was begun in    *)
(* its grace and the minutes left after the break still complete it        *)
(* (_break_preserves_completion, "completion-safe scheduled break").  The  *)
(* rule itself does not look at when the shift was begun.                  *)
BreakKeepsWage ==
  \A a \in Agent :
    Doing(day, a, "take_break") =>
      LET s == day.sessions[a][day.act[a].day]
      IN  s.finalized \/ Attended([s EXCEPT !.effective = @ + s.end - day.act[a].end])

(* With hunger at zero an agent begins an idle spell beside food it could   *)
(* still be granted only if it wanted something to eat that is gone: only   *)
(* the best candidate is tried before idle (_decide_due_agents), so it has  *)
(* to yield to another who decided in the same minute and took the slot,    *)
(* the money or the food.  Otherwise the crisis and supply terms of         *)
(* _score_one outrank all else and critical_need_block keeps it from other  *)
(* things.                                                                 *)
Feeding(w, a, b) ==
  \/ Catalog[b].delta["hunger"] > 0
  \/ /\ b = "buy_groceries" /\ w.food[Member[a]] <= FoodLow
     /\ ~WorkDue(w.minute, DecisionSession(w, a).session)
CouldFeed(w, a) == {b \in Behavior : Accepted(w, a, b) /\ Feeding(w, a, b)}
Began(a) == Busy(day', a) /\ day'.act[a] # day.act[a]

(* What an action of c holds of what agent a needs for b.                  *)
GotFirst(w, c, a, b) ==
  LET x == Catalog[w.act[c].b]
      y == Catalog[b]
  IN  \/ x.uses \cap y.uses # {}
      \/ /\ Member[c] = Member[a]
         /\ \/ x.price > 0 /\ y.price > 0
            \/ x.food > 0 /\ y.food > 0
StarvingActs ==
  [][\A a \in Agent :
       /\ day'.minute # day.minute /\ Began(a)
       /\ day'.act[a].b = "idle" /\ day'.needs[a]["hunger"] = 0 /\ CouldFeed(day', a) # {}
       => \E b \in Behavior, c \in Agent \ {a} :
            /\ Feeding(day', a, b) /\ ~Accepted(day', a, b)
            /\ Began(c) /\ GotFirst(day', c, a, b)
     ]_vars

(* Money and food change in a minute by what the minute's events tell:     *)
(* a wage for each WORK_COMPLETED, a price for each purchase, food for     *)
(* each meal at home and each purchase (_resolve_action and                *)
(* _finalize_work_sessions).                                               *)
BooksBalance ==
  [][\A h \in Household :
       LET members == InHousehold(h)
           wages == {i \in DOMAIN day'.told :
                       day'.told[i].type = "WORK_COMPLETED" /\ day'.told[i].who \in members}
           bought(b) == Cardinality({i \in DOMAIN day'.told :
                          /\ day'.told[i].type \in {"MEAL_CONSUMED", "GROCERIES_PURCHASED"}
                          /\ day'.told[i].who \in members /\ day'.told[i].need = b})
       IN  day'.minute # day.minute =>
             /\ day'.money[h] = day.money[h] + Wage * Cardinality(wages)
                  - MapThenSumSet(LAMBDA b : bought(b) * Catalog[b].price, Behavior)
             /\ day'.food[h] = day.food[h]
                  + MapThenSumSet(LAMBDA b : bought(b) * (Catalog[b].gain - Catalog[b].food), Behavior)
     ]_vars

(* A need crisis is told in the minute an agent falls into it and at no    *)
(* other, each time it does; so is a household running low                 *)
(* (_update_need_crises, _update_low_resources).                           *)
CrisesAnnounced ==
  [][day'.minute # day.minute =>
       /\ \A a \in Agent, n \in Need :
            Count("NEED_CRISIS", a, n)' =
              IF n \in InCrisis(day', a) \ InCrisis(day, a) THEN 1 ELSE 0
       /\ \A h \in Household, r \in {"FOOD", "MONEY"} :
            Cardinality({i \in DOMAIN day'.told : day'.told[i] = LowEvent(h, r)}) =
              IF r \in Low(day', h) \ Low(day, h) THEN 1 ELSE 0
     ]_vars

(* Needs are told and heeded: a crisis is announced whenever one begins,   *)
(* and who starves seeks food, though another may be served first.         *)
NeedsHeeded == CrisesAnnounced /\ StarvingActs
=============================================================================
