---------------------------- MODULE TownEngine ----------------------------
(***************************************************************************)
(* The M1 authority, one enabled agent:                                    *)
(* src/python/town_core/simulation/engine.py with the decision package.    *)
(*                                                                         *)
(* A record w stands for the WorldState and the engine's private records   *)
(* (runtimes, work sessions, reserved food, active crises, ledger); it is  *)
(* also the _TickContext of one minute.  Every method that edits a context *)
(* is an operator from contexts to contexts, and Advance composes them in  *)
(* the order of _advance_one_minute; nothing is visible before the commit. *)
(*                                                                         *)
(* Left out: mood, personality and the utility terms (any ranking of the   *)
(* candidates is possible), knowledge records (the one enabled agent is    *)
(* the only participant and witness), decision_due_at and recent_behavior  *)
(* (only scoring reads the latter, nothing the former).                    *)
(***************************************************************************)
EXTENDS Integers, Sequences, FiniteSets

CONSTANTS
  Location, Home, Work,  \* home_location_id and assigned_work_location_id
  Travel,                \* Location -> Location -> Nat: travel_minutes
  Opens, Closes,         \* Location -> minute of day: its open interval
  Need,                  \* the need axes kept, "energy" among them
  NeedMax,               \* 1.0 in the units of the levels
  Decay,                 \* Need -> Nat: passive decay per minute
  Effect,                \* behaviour -> Need -> Int: continuous delta per minute
  MealGain,              \* Need -> Nat: completion delta of eat_at_home
  Crisis,                \* Need -> Nat: need_crisis_thresholds
  Base, SleepMinimum,    \* duration_minutes: base, and base - variance for sleep
  DayLength, WeekLength, Weekdays, ShiftStart, ShiftEnd, Grace,
  Lead,                  \* the 60 minutes a shift may be chosen ahead
  Wage,                  \* economy.fixed_shift_wage
  StartNeeds, StartMoney, \* initial_needs, initial_money
  StartFood,             \* the initial_food_units tried
  Timeout,               \* movement_timeout_minutes
  MaxMinute              \* bound on game_minute, for model checking only

Traveling == "TRAVELING"
Behaviors == {"idle", "sleep", "eat_at_home", "work_shift"}
Objects == {"bed", "fridge", "seat", "workstation"}
Days == 0 .. (MaxMinute \div DayLength) + WeekLength + 1
Start(day) == day * DayLength + ShiftStart
End(day) == day * DayLength + ShiftEnd
Scheduled(day) == day % WeekLength \in Weekdays
None == [none |-> TRUE]
Never == -1
NoDay == -1

ASSUME TownConstants ==
  /\ Home \in Location /\ Work \in Location /\ Traveling \notin Location
  /\ Travel \in [Location -> [Location -> Nat]]
  /\ \A l, k \in Location : Travel[l][k] = 0 <=> l = k
  /\ Opens \in [Location -> Nat] /\ Closes \in [Location -> Nat]
  /\ "energy" \in Need
  /\ NeedMax \in Nat \ {0}
  /\ Decay \in [Need -> Nat] /\ Decay["energy"] > 0
  /\ Effect \in [Behaviors -> [Need -> Int]]
  /\ Effect["idle"]["energy"] <= 0 /\ Effect["eat_at_home"]["energy"] <= 0
  /\ Effect["work_shift"]["energy"] <= 0
  /\ MealGain \in [Need -> Nat] /\ MealGain["energy"] = 0
  /\ Crisis \in [Need -> Nat]
  /\ Base \in [Behaviors -> Nat \ {0}]
  /\ SleepMinimum \in Nat \ {0} /\ SleepMinimum <= Base["sleep"]
  /\ DayLength \in Nat \ {0} /\ WeekLength \in Nat \ {0}
  /\ Weekdays \subseteq 0 .. WeekLength - 1
  /\ ShiftStart \in Nat /\ ShiftEnd \in Nat
  /\ ShiftStart < ShiftEnd /\ ShiftEnd <= DayLength
  /\ Grace \in Nat /\ Lead \in Nat /\ Wage \in Nat
  /\ StartNeeds \in [Need -> 0 .. NeedMax] /\ StartMoney \in Nat /\ StartFood \subseteq Nat
  /\ Timeout \in Nat \ {0}
  /\ MaxMinute \in Nat

(* The frozen catalog: homes never close, the workplace is open through    *)
(* the shift, one shift is not longer than the base work duration but      *)
(* longer than its grace, and it ends before midnight (its last minute     *)
(* belongs to its own day).                                                *)
ASSUME FrozenCatalog ==
  /\ ShiftEnd < DayLength
  /\ Opens[Home] = 0 /\ Closes[Home] = DayLength
  /\ Opens[Work] <= ShiftStart /\ ShiftEnd <= Closes[Work]
  /\ ShiftEnd - ShiftStart <= Base["work_shift"]
  /\ Grace < ShiftEnd - ShiftStart

VARIABLES
  town,  \* the committed authority: WorldState and the engine's records
  mode,  \* runtime_mode
  raised \* whether advance_to or a report raised an invariant violation

vars == <<town, mode, raised>>

-----------------------------------------------------------------------------
(* The records of a context.                                               *)

Session == [effective: Nat, first: Nat \cup {Never}, started: BOOLEAN,
            late: BOOLEAN, finalized: BOOLEAN, paid: BOOLEAN]
NewSession == [effective |-> 0, first |-> Never, started |-> FALSE,
               late |-> FALSE, finalized |-> FALSE, paid |-> FALSE]

Phases == {"TRAVELING", "ALIGNING", "PERFORMING"}
Action == [id: Nat, behavior: Behaviors, phase: Phases, objects: SUBSET Objects,
           food: 0 .. 1, dest: Location, origin: Location, arrival: Nat, start: Nat,
           duration: Nat, end: Nat, session: Days \cup {NoDay}]
EventTypes == {"WORK_STARTED", "WORK_LATE", "WORK_COMPLETED", "WORK_MISSED",
               "MEAL_CONSUMED", "NEED_CRISIS"}
Told == [type: EventTypes, minute: Nat, day: Days \cup {NoDay}, needs: SUBSET Need]

(* What a _TickContext copies.                                             *)
Context == [minute: 0 .. MaxMinute, version: Nat, at: Location \cup {Traveling},
            present: SUBSET Location, needs: [Need -> 0 .. NeedMax],
            action: Action \cup {None}, created: Nat, enabled: SUBSET Objects,
            slots: [Objects -> Nat], reserved: Nat, food: Nat, money: Nat,
            sessions: [Days -> Session \cup {None}], crises: SUBSET Need, ledger: Seq(Told)]

Clamp(x) == IF x < 0 THEN 0 ELSE IF x > NeedMax THEN NeedMax ELSE x

(* EventLedger.create and _stage_event: the day of a session event, the    *)
(* needs of a crisis.                                                      *)
StageAbout(w, type, day, needs) ==
  [w EXCEPT !.ledger =
     Append(@, [type |-> type, minute |-> w.minute, day |-> day, needs |-> needs])]
Stage(w, type, day) == StageAbout(w, type, day, {})

HasSession(w, day) == w.sessions[day] # None

(* _work_session: the session of a day, created when first needed.         *)
Materialize(w, day) ==
  IF HasSession(w, day) THEN w ELSE [w EXCEPT !.sessions[day] = NewSession]

Performing(w) == w.action # None /\ w.action.phase = "PERFORMING"
Doing(w, b) == Performing(w) /\ w.action.behavior = b

-----------------------------------------------------------------------------
(* One minute, in the order of _advance_one_minute.                        *)

(* Work minutes count while the shift lasts, the first one after its start. *)
(* The slip goes on counting after its end.                                *)
CountedForever(w, day) == Start(day) < w.minute
Counted(w, day) == Start(day) < w.minute /\ w.minute <= End(day)

(* What a minute costs, and what the behaviour gives back: sleep energy,   *)
(* of which a sleeper loses none, work takes some.                         *)
PassiveDecay(w, n) == IF n = "energy" /\ Doing(w, "sleep") THEN 0 ELSE Decay[n]
ActiveDelta(w, n) == IF Performing(w) THEN Effect[w.action.behavior][n] ELSE 0

ApplyNeedChanges(w) ==
  LET felt == [w EXCEPT !.needs =
                 [n \in Need |-> Clamp(@[n] - PassiveDecay(w, n) + ActiveDelta(w, n))]]
      day == w.action.session
  IN  IF Doing(w, "work_shift") /\ Counted(w, day)
        THEN [felt EXCEPT !.sessions[day].effective = @ + 1]
        ELSE felt

(* _release_reservations: refused if another action holds a slot of this   *)
(* one; with a single agent no other action exists.                        *)
Release(w) ==
  [w EXCEPT !.slots = [o \in Objects |-> IF o \in w.action.objects THEN 0 ELSE @[o]],
            !.reserved = @ - w.action.food]

Drop(w) == [Release(w) EXCEPT !.action = None]

(* _start_performing: the first work minute of a session starts it.        *)
StartPerforming(w) ==
  LET on == [w EXCEPT !.action.phase = "PERFORMING"]
      day == w.action.session
      s == w.sessions[day]
      first == s.first = Never
      begun == IF s.started THEN on ELSE Stage(on, "WORK_STARTED", day)
      tardy == first /\ w.minute > Start(day) /\ ~s.late
      told == IF tardy THEN Stage(begun, "WORK_LATE", day) ELSE begun
  IN  IF w.action.behavior # "work_shift" THEN on
      ELSE [told EXCEPT !.sessions[day] =
              [s EXCEPT !.first = IF first THEN w.minute ELSE @,
                        !.started = TRUE, !.late = @ \/ tardy]]

Arrive(w) ==
  LET here == [w EXCEPT !.at = w.action.dest, !.present = @ \cup {w.action.dest}]
  IN  IF w.minute < w.action.start
        THEN [here EXCEPT !.action.phase = "ALIGNING"]
        ELSE StartPerforming(here)

(* _fail_traveling_action and _cancel_traveling_action: back to the origin. *)
AbandonTrip(w) ==
  [Drop(w) EXCEPT !.at = w.action.origin, !.present = @ \cup {w.action.origin}]

(* _resolve_action: eating consumes the food it reserved.                  *)
ResolveUnfed(w) ==
  IF w.action.behavior = "eat_at_home" /\ w.food >= w.action.food
    THEN Drop(Stage(w, "MEAL_CONSUMED", NoDay)) ELSE Drop(w)
CompletionNeeds(w) == [n \in Need |-> Clamp(w.needs[n] + MealGain[n])]
Resolve(w) ==
  LET fed == [w EXCEPT !.food = @ - w.action.food, !.needs = CompletionNeeds(w)]
  IN  IF w.action.behavior = "eat_at_home" /\ w.food >= w.action.food
        THEN Drop(Stage(fed, "MEAL_CONSUMED", NoDay))
        ELSE Drop(w)

ArriveIfDue(w) ==
  IF w.action # None /\ w.action.phase = "TRAVELING" /\ w.minute >= w.action.arrival
    THEN Arrive(w) ELSE w
AlignIfDue(w) ==
  IF w.action # None /\ w.action.phase = "ALIGNING" /\ w.minute >= w.action.start
    THEN StartPerforming(w) ELSE w
ResolveIfDue(w) ==
  IF Performing(w) /\ w.minute >= w.action.end THEN Resolve(w) ELSE w

TimedOut(w) == w.minute >= w.action.arrival + Timeout

Progress(w) ==
  IF w.action # None /\ w.action.phase = "TRAVELING" /\ mode = "UNITY_LIVE"
    THEN IF TimedOut(w) THEN AbandonTrip(w) ELSE w
    ELSE ResolveIfDue(AlignIfDue(ArriveIfDue(w)))

Attended(s, day) ==
  /\ s.first # Never
  /\ s.first <= Start(day) + Grace
  /\ s.effective >= (ShiftEnd - ShiftStart) - Grace

DueFromEnd(w, day, s) == Scheduled(day) /\ w.minute >= End(day)
Due(w, day, s) == Scheduled(day) /\ w.minute = End(day) /\ ~s.finalized

(* _finalize_work_session_if_due: wage and event in the same commit.       *)
Finalize(w) ==
  LET day == w.minute \div DayLength
      opened == Materialize(w, day)
      s == opened.sessions[day]
      settled == [opened EXCEPT !.sessions[day].finalized = TRUE]
  IN  IF ~Due(w, day, s) THEN w
      ELSE IF Attended(s, day)
        THEN Stage([settled EXCEPT !.money = @ + Wage, !.sessions[day].paid = TRUE],
                   "WORK_COMPLETED", day)
        ELSE Stage(settled, "WORK_MISSED", day)

(* _update_need_crises: an event for each need that enters its crisis, in  *)
(* the catalog's order (kept together here), none while the crisis lasts.  *)
InCrisis(w) == {n \in Need : w.needs[n] <= Crisis[n]}
UpdateCrises(w) ==
  LET entered == InCrisis(w) \ w.crises
      told == IF entered = {} THEN w ELSE StageAbout(w, "NEED_CRISIS", NoDay, entered)
  IN  [told EXCEPT !.crises = InCrisis(w)]

-----------------------------------------------------------------------------
(* The decision of the available agent.                                    *)

(* _next_work_window: the first scheduled day whose shift has not ended.   *)
Coming(minute) ==
  {day \in minute \div DayLength .. (minute \div DayLength) + WeekLength :
     Scheduled(day) /\ minute < End(day)}
Window(minute) ==
  IF Coming(minute) = {} THEN NoDay
  ELSE CHOOSE day \in Coming(minute) : \A later \in Coming(minute) : day <= later

OpenWindow(w) ==
  LET day == Window(w.minute)
  IN  IF day # NoDay /\ w.minute >= Start(day) - Lead THEN Materialize(w, day) ELSE w

HasFreeSlot(w, o) == o \in w.enabled /\ w.slots[o] = 0

Choice(b, objects, dest, travel, duration, food) ==
  [behavior |-> b, objects |-> objects, dest |-> dest, travel |-> travel,
   duration |-> duration, food |-> food]

IdleChoice(w) == Choice("idle", {}, w.at, 0, Base["idle"], 0)

(* Sleep is cut short so that the agent can still be at work on time.      *)
SleepDuration(w) ==
  LET day == Window(w.minute)
      spare == Start(day) - w.minute - Travel[w.at][Home] - Travel[Home][Work]
  IN  IF day # NoDay /\ w.minute < Start(day) /\ spare >= SleepMinimum /\ spare < Base["sleep"]
        THEN spare ELSE Base["sleep"]

SleepChoices(w) ==
  IF HasFreeSlot(w, "bed") /\ w.needs["energy"] < NeedMax
    THEN {Choice("sleep", {"bed"}, Home, Travel[w.at][Home], SleepDuration(w), 0)}
    ELSE {}

EatChoices(w) ==
  IF w.food - w.reserved >= 1 /\ HasFreeSlot(w, "fridge") /\ HasFreeSlot(w, "seat")
    THEN {Choice("eat_at_home", {"fridge", "seat"}, Home, Travel[w.at][Home], Base["eat_at_home"], 1)}
    ELSE {}

WorkStart(w, travel, day) ==
  IF w.minute + travel > Start(day) THEN w.minute + travel ELSE Start(day)

WorkChoices(w) ==
  LET day == Window(w.minute)
      travel == Travel[w.at][Work]
      left == End(day) - WorkStart(w, travel, day)
      duration == IF left < Base["work_shift"] THEN left ELSE Base["work_shift"]
  IN  IF /\ day # NoDay
         /\ HasSession(w, day) => ~w.sessions[day].finalized
         /\ w.minute >= Start(day) - Lead
         /\ HasFreeSlot(w, "workstation")
         /\ duration > 0
        THEN {Choice("work_shift", {"workstation"}, Work, travel, duration, 0)}
        ELSE {}

Candidates(w) == {IdleChoice(w)} \cup SleepChoices(w) \cup EatChoices(w) \cup WorkChoices(w)

IsOpen(l, minute) ==
  Opens[l] <= minute % DayLength /\ minute % DayLength < Closes[l]

(* CentralResolver.resolve of a proposal made from the same snapshot.      *)
Accepts(w, c) ==
  LET arrival == IF c.behavior = "work_shift"
                   THEN WorkStart(w, c.travel, Window(w.minute)) ELSE w.minute + c.travel
  IN  /\ w.food - w.reserved >= c.food
      /\ IsOpen(c.dest, arrival)
      /\ \A o \in c.objects : HasFreeSlot(w, o)

(* The scorer ranks the candidates in some order; the first two are tried, *)
(* then idle.                                                              *)
Rankings(C) == {r \in C \X C : r[1] # r[2] \/ C = {r[1]}}
SelectedOnce(w, ranking) ==
  IF Accepts(w, ranking[1]) THEN ranking[1] ELSE IdleChoice(w)
Selected(w, ranking) ==
  IF Accepts(w, ranking[1]) THEN ranking[1]
  ELSE IF Accepts(w, ranking[2]) THEN ranking[2]
  ELSE IdleChoice(w)

Create(w, c) ==
  LET day == IF c.behavior = "work_shift" THEN Window(w.minute) ELSE NoDay
      arrival == w.minute + c.travel
      start == IF day = NoDay THEN arrival ELSE WorkStart(w, c.travel, day)
      id == w.created + 1
      made == [w EXCEPT
        !.created = id,
        !.slots = [o \in Objects |-> IF o \in c.objects THEN id ELSE @[o]],
        !.reserved = @ + c.food,
        !.action = [id |-> id, behavior |-> c.behavior, phase |-> "CREATED",
                    objects |-> c.objects, food |-> c.food, dest |-> c.dest,
                    origin |-> w.at, arrival |-> arrival, start |-> start,
                    duration |-> c.duration, end |-> start + c.duration, session |-> day]]
  IN  IF c.travel > 0
        THEN [made EXCEPT !.at = Traveling, !.present = @ \ {w.at}, !.action.phase = "TRAVELING"]
      ELSE IF w.minute < start THEN [made EXCEPT !.action.phase = "ALIGNING"]
      ELSE StartPerforming(made)

-----------------------------------------------------------------------------
(* What assert_world_invariants and the model validators refuse.           *)
Consistent(w) ==
  /\ w.present = IF w.at = Traveling THEN {} ELSE {w.at}
  /\ \A o \in Objects : w.slots[o] # 0 => w.action # None /\ w.slots[o] = w.action.id
  /\ w.food >= 0 /\ w.reserved >= 0 /\ w.money >= 0
  /\ \A i \in 2 .. Len(w.ledger) : w.ledger[i - 1].minute <= w.ledger[i].minute

(* One commit: install the whole candidate, or raise and keep the old.     *)
Commit(w) ==
  IF Consistent(w)
    THEN town' = [w EXCEPT !.version = @ + 1] /\ raised' = raised
    ELSE town' = town /\ raised' = TRUE

Init ==
  /\ mode \in {"HEADLESS_FAST", "UNITY_LIVE"}
  /\ raised = FALSE
  /\ \E food \in StartFood, enabled \in {Objects, Objects \ {"workstation"}} :
       town = [minute |-> 0, version |-> 0, at |-> Home, present |-> {Home},
               needs |-> StartNeeds,
               action |-> None, created |-> 0, enabled |-> enabled,
               slots |-> [o \in Objects |-> 0], reserved |-> 0,
               food |-> food, money |-> StartMoney,
               sessions |-> [d \in Days |-> None], crises |-> {}, ledger |-> <<>>]

(* What _decide_if_available may leave of an available agent: the first    *)
(* acceptable choice of a ranking, created.  No world if even the idle     *)
(* fallback is refused.                                                    *)
Decided(w) ==
  LET chosen == {Selected(w, ranking) : ranking \in Rankings(Candidates(w))}
  IN  {Create(w, c) : c \in {d \in chosen : Accepts(w, d)}}
        \cup {None : c \in {d \in chosen : ~Accepts(w, d)}}

Raise == town' = town /\ raised' = TRUE

(* One minute: each step works on the context the one before it left.      *)
Advance ==
  /\ ~raised /\ town.minute < MaxMinute
  /\ \E felt \in {ApplyNeedChanges([town EXCEPT !.minute = @ + 1])} :
     \E moved \in {Progress(felt)} :
     \E closed \in {Finalize(moved)} :
     \E told \in {UpdateCrises(closed)} :
     \E next \in IF told.action # None THEN {told} ELSE Decided(OpenWindow(told)) :
       IF next = None THEN Raise ELSE Commit(next)
  /\ UNCHANGED mode

(* A report is valid only live, at the current version, while traveling.   *)
Reportable == ~raised /\ mode = "UNITY_LIVE" /\ town.at = Traveling

ReportArrived ==
  /\ Reportable
  /\ LET a == town.action
         start == IF town.minute > a.start THEN town.minute ELSE a.start
     IN  Commit(Arrive([town EXCEPT !.action.start = start,
                                    !.action.end = start + a.duration]))
  /\ UNCHANGED mode

(* report_movement_failed and report_movement_cancelled                    *)
ReportEnded == Reportable /\ Commit(AbandonTrip(town)) /\ UNCHANGED mode

Next == Advance \/ ReportArrived \/ ReportEnded
Spec == Init /\ [][Next]_vars
-----------------------------------------------------------------------------
(* Properties.                                                             *)

(* The type of every record the engine keeps.                              *)
TypeOK ==
  mode \in {"HEADLESS_FAST", "UNITY_LIVE"} /\ raised \in BOOLEAN /\ town \in Context

(* advance_to never raises: the idle fallback is refused at a workplace    *)
(* that has closed (M1 has no exemption for it), yet some other choice is  *)
(* then accepted, and no commit breaks an authority invariant.             *)
NeverRaises == ~raised

(* Slots and food are held exactly for the running action: none leaks from *)
(* a failed, cancelled, timed out or completed one, and a meal that was    *)
(* promised can be served.                                                 *)
HeldForAction ==
  LET a == town.action
      objects == IF a = None THEN {} ELSE a.objects
  IN  /\ \A o \in Objects : town.slots[o] = IF o \in objects THEN a.id ELSE 0
      /\ town.reserved = IF a = None THEN 0 ELSE a.food
      /\ town.reserved <= town.food

(* A trip is over by its arrival minute, or live by its timeout.           *)
TripsBounded ==
  town.at = Traveling =>
    town.minute < town.action.arrival + (IF mode = "UNITY_LIVE" THEN Timeout ELSE 0)

EventsOf(type, day) == {i \in 1 .. Len(town.ledger) :
                      town.ledger[i].type = type /\ town.ledger[i].day = day}
Outcomes(day) == EventsOf("WORK_COMPLETED", day) \cup EventsOf("WORK_MISSED", day)

(* ADR-0008, decision 5: money grows by one wage per completed session and *)
(* by nothing else, food shrinks by what the meals consumed.               *)
Meals == {i \in 1 .. Len(town.ledger) : town.ledger[i].type = "MEAL_CONSUMED"}
PaidDays == {d \in Days : town.sessions[d] # None /\ town.sessions[d].paid}
BooksBalance ==
  /\ town.money = StartMoney + Wage * Cardinality(PaidDays)
  /\ town.food + Cardinality(Meals) \in StartFood
  /\ \A d \in Days : Cardinality(EventsOf("WORK_COMPLETED", d)) = IF d \in PaidDays THEN 1 ELSE 0

(* The events of one shift: a start before a lateness before the outcome,  *)
(* each at most once.  Only live can a start follow the outcome, when the  *)
(* trip was reported after the shift had ended.                            *)
Before(S, T) == \A i \in S, j \in T : i < j
ShiftStory ==
  \A d \in Days :
    /\ \A type \in EventTypes : Cardinality(EventsOf(type, d)) <= 1
    /\ Cardinality(Outcomes(d)) <= 1
    /\ Before(EventsOf("WORK_STARTED", d), EventsOf("WORK_LATE", d))
    /\ Before(EventsOf("WORK_STARTED", d), EventsOf("WORK_COMPLETED", d))
    /\ mode = "HEADLESS_FAST" => Before(EventsOf("WORK_STARTED", d), Outcomes(d))

(* ADR-0008, decision 2: whoever starts a shift within the grace is paid,  *)
(* whatever minutes a live trip took or the count left out.                *)
GraceHonoured ==
  \A d \in Days :
    LET s == town.sessions[d]
    IN  s # None /\ s.finalized /\ s.first # Never /\ s.first <= Start(d) + Grace => s.paid

(* A settled shift stays settled: neither a late arrival nor work done     *)
(* after the end changes its minutes or its pay.                           *)
SettlementFinal ==
  [][\A d \in Days : town.sessions[d] # None /\ town.sessions[d].finalized =>
       /\ town'.sessions[d].finalized
       /\ town'.sessions[d].paid = town.sessions[d].paid
       /\ town'.sessions[d].effective = town.sessions[d].effective]_vars

(* Every scheduled shift is settled in the minute it ends, worked or not,  *)
(* and never before.                                                       *)
ShiftsSettleOnTime ==
  \A d \in Days :
    Scheduled(d) =>
      (End(d) <= town.minute <=> town.sessions[d] # None /\ town.sessions[d].finalized)

(* Every shift comes out right: one story, settled on time, and the grace  *)
(* honoured, for what the worker was seen to do.                           *)
ShiftsRight == ShiftStory /\ GraceHonoured /\ ShiftsSettleOnTime
=============================================================================
