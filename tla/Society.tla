------------------------------ MODULE Society ------------------------------
(***************************************************************************)
(* The M3 authority: src/python/town_core/society/engine.py.               *)
(*                                                                         *)
(* A record w, the authority context, stands for an AuthorityCheckpoint    *)
(* and for the _TickContext copied from it: every method of SocietyEngine  *)
(* that edits a context is an operator from contexts to contexts.  auth is *)
(* SocietyEngine.checkpoint, the committed state; ctx is the context being *)
(* edited.  One minute is a chain of steps on ctx (progress every action   *)
(* in id order, let every free agent decide, commit); nothing in it is     *)
(* visible before Commit, which validates the whole candidate state and    *)
(* either installs it or raises and leaves auth as it was.                 *)
(*                                                                         *)
(* Left out: needs, moods, relationships, events and dialogue (data), work *)
(* sessions and wages, opening hours (a closed location only turns a       *)
(* candidate into the idle fallback, which is a choice here anyway).       *)
(***************************************************************************)
EXTENDS Integers, FiniteSets, FiniteSetsExt

CONSTANTS
  Agent, Household, Location, Object, Behavior,
  Home,            \* Agent -> Location: home_location_id
  Member,          \* Agent -> Household: household_id
  InitialLocation, \* Agent -> Location in the checkpoint the engine loads
  InitialMoney, InitialFood, \* Household -> Nat in that checkpoint
  Capacity,        \* Location -> Nat
  Travel,          \* Location -> Location -> Nat: travel_minutes
  At,              \* Object -> Location
  SlotCount,       \* Object -> Nat: slot_count
  TypeOf,          \* Object -> its object_type
  SharedTypes,     \* object types that seat every participant of a joint action
  Rule,            \* Behavior -> the part of its BehaviorConfig that is control
  FoodLow,         \* economy.food_low_threshold
  Live,            \* runtime_mode is UNITY_LIVE rather than HEADLESS_FAST
  MovementTimeout, \* movement_timeout_minutes
  ExpirySlack,     \* the 60 minutes a reservation outlives planned_end
  Cancels,         \* whether cancel_action and fail_action are called
  MaxMinute        \* bound on game_minute, for model checking only

Idle == "idle"
None == "none"
Traveling == "TRAVELING"
Traveled == Location \cup {Traveling}
Kinds == {"PARTICIPANT", "OBJECT_SLOT", "HOUSEHOLD_RESOURCE", "LOCATION"}
ActivePhases == {"TRAVELING", "ALIGNING", "PERFORMING"}
SlotId == UNION {{o} \X (0 .. SlotCount[o] - 1) : o \in Object}

ASSUME SocietyConstants ==
  /\ None \notin Agent \cup Household \cup Location \cup Object \cup Behavior
  /\ Traveling \notin Location
  /\ Idle \in Behavior
  /\ Home \in [Agent -> Location]
  /\ InitialLocation \in [Agent -> Location]
  /\ Member \in [Agent -> Household]
  /\ InitialMoney \in [Household -> Nat] /\ InitialFood \in [Household -> Nat]
  /\ Capacity \in [Location -> Nat]
  /\ Travel \in [Location -> [Location -> Nat]]
  /\ \A l, m \in Location : l # m => Travel[l][m] > 0
  /\ At \in [Object -> Location]
  /\ SlotCount \in [Object -> Nat]
  /\ \A b \in Behavior : /\ Rule[b].duration \in Nat \ {0}
                         /\ Rule[b].startsAt \in Nat
                         /\ Rule[b].money \in Nat /\ Rule[b].food \in Nat
                         /\ Rule[b].gain \in Nat
                         /\ Rule[b].dest \in Location \cup {"HERE", "HOME"}
                         /\ Rule[b].invites \subseteq Behavior
  /\ Live \in BOOLEAN /\ Cancels \in BOOLEAN
  /\ MovementTimeout \in Nat \ {0}
  /\ ExpirySlack \in Nat
  /\ MovementTimeout <= ExpirySlack
  /\ MaxMinute \in Nat

\* An agent is no slot; an invitation costs nothing (rules.py, _draft of INVITE_JOIN).
ASSUME AgentsAreNotSlots == Agent \cap SlotId = {}
ASSUME InvitationsAreFree ==
  \A b \in Behavior : Rule[b].invites # {} => Rule[b].money = 0 /\ Rule[b].food = 0

\* Idling is drafted where the agent is and without a cost; the constructor of the
\* engine asserts the invariants of the checkpoint it is given (engine.py:222).
ASSUME IdleIsFree == Rule[Idle].dest = "HERE" /\ Rule[Idle].money = 0 /\ Rule[Idle].food = 0
ASSUME RoomAtFirst ==
  \A l \in Location : LET here == {p \in Agent : InitialLocation[p] = l}
                      IN  IsFiniteSet(here) /\ Cardinality(here) <= Capacity[l]

VARIABLES
  auth,   \* SocietyEngine.checkpoint
  ctx,    \* the _TickContext in use, equal to auth between two commits
  stage,  \* where _advance_one_minute is: "idle", "progress" or "decide"
  todo,   \* action ids left to progress, then agents left to decide
  source, \* source_state: what the candidates of this minute were enumerated from
  fault   \* why the last engine call raised, "none" if it did not

vars == <<auth, ctx, stage, todo, source, fault>>

Faults == {"none", "ledger", "room", "idle_rejected"}

ReservationRecord ==
  [owner: Nat, kind: Kinds, object: Object \cup {None}, slot: Nat,
   household: Household \cup {None}, money: Nat, food: Nat,
   location: Location \cup {None}, agent: Agent \cup {None}, expires: Nat]

-----------------------------------------------------------------------------
(* Reading a context.                                                      *)

Put(f, k, v) == [x \in DOMAIN f \cup {k} |-> IF x = k THEN v ELSE f[x]]
Drop(f, k) == [x \in DOMAIN f \ {k} |-> f[x]]
Largest(S) == CHOOSE x \in S : \A y \in S : y <= x

FreeSlots(w, o) == {s \in 0 .. SlotCount[o] - 1 : w.occupied[<<o, s>>] = 0}
FirstOf(S, n) == {s \in S : Cardinality({r \in S : r < s}) < n}

Resources(R, h) == {r \in R : r.kind = "HOUSEHOLD_RESOURCE" /\ r.household = h}
Money(R, h) == MapThenSumSet(LAMBDA r : r.money, Resources(R, h))
Food(R, h) == MapThenSumSet(LAMBDA r : r.food, Resources(R, h))

Incoming(w, l) == Cardinality({r \in w.resv : r.kind = "LOCATION" /\ r.location = l})

Participants(c) == {c.actor} \cup ({c.target} \ {None})

Destination(w, ag, b) ==
  CASE Rule[b].dest = "HERE" -> w.loc[ag]
    [] Rule[b].dest = "HOME" -> Home[ag]
    [] OTHER -> Rule[b].dest

(* Objects a behaviour needs at l: one with a free slot of each type.  A   *)
(* social behaviour takes the conversation anchor if one is free there.    *)
Bundles(w, b, l) ==
  LET usable == {o \in Object : At[o] = l /\ FreeSlots(w, o) # {}}
      anchors == {{o} : o \in {x \in usable : TypeOf[x] = "ANCHOR"}}
  IN  IF Rule[b].social
        THEN IF anchors = {} THEN {{}} ELSE anchors
        ELSE {S \in SUBSET usable : /\ Cardinality(S) = Cardinality(Rule[b].needs)
                                    /\ {TypeOf[o] : o \in S} = Rule[b].needs}

Candidate(w, ag, b, target, activity, objects) ==
  [actor |-> ag, behavior |-> b, target |-> target, activity |-> activity,
   dest |-> Destination(w, ag, b), objects |-> objects]

IdleCandidate(w, ag) == Candidate(w, ag, Idle, None, None, {})

(* What enumerate_candidates may rank first for ag.                        *)
Candidates(w, ag) ==
  LET enumerated == {b \in Behavior : Rule[b].gain > 0 => w.food[Member[ag]] <= FoodLow}
      near == {t \in Agent \ {ag} : w.loc[t] = w.loc[ag] /\ w.cur[t] = 0}
      targets(b) == IF Rule[b].social THEN near ELSE {None}
      activities(b) == IF Rule[b].invites = {} THEN {None} ELSE Rule[b].invites
  IN  UNION {{Candidate(w, ag, b, t, v, S) :
                t \in targets(b), v \in activities(b),
                S \in Bundles(w, b, Destination(w, ag, b))} : b \in enumerated}

SlotQuantity(c, o, joint) ==
  IF \/ Rule[c.behavior].social /\ TypeOf[o] = "ANCHOR"
     \/ joint /\ TypeOf[o] \in SharedTypes
  THEN Cardinality(Participants(c))
  ELSE 1

SlotClaims(w, c, joint) ==
  {k \in SlotId : /\ k[1] \in c.objects
                  /\ k[2] \in FirstOf(FreeSlots(w, k[1]), SlotQuantity(c, k[1], joint))}

(* _resource_costs: the actor's household pays, and in a joint meal or     *)
(* drink every other participant's household pays too.                     *)
MoneyCost(c, joint, h) ==
  Rule[c.behavior].money *
    Cardinality({p \in Participants(c) : Member[p] = h /\ (p = c.actor \/ joint)})
FoodCost(c, h) == IF Member[c.actor] = h THEN Rule[c.behavior].food ELSE 0

-----------------------------------------------------------------------------
(* _resolve_and_create: the checks of the central Resolver.                *)

Travelers(w, c) == {p \in Participants(c) : w.loc[p] # c.dest}

\* Slip: the agents already on their way to the destination are forgotten.
HasRoomIgnoringIncoming(w, c) ==
  Cardinality(w.occ[c.dest]) + Cardinality(Travelers(w, c)) <= Capacity[c.dest]

HasRoom(w, c) ==
  Cardinality(w.occ[c.dest]) + Incoming(w, c.dest) + Cardinality(Travelers(w, c))
    <= Capacity[c.dest]

\* Slip: what other actions have reserved is counted as still available.
CanPayIgnoringReserved(w, c, joint) ==
  \A h \in Household : /\ w.money[h] >= MoneyCost(c, joint, h)
                       /\ w.food[h] >= FoodCost(c, h)

CanPay(w, c, joint) ==
  \A h \in Household : /\ w.money[h] - Money(w.resv, h) >= MoneyCost(c, joint, h)
                       /\ w.food[h] - Food(w.resv, h) >= FoodCost(c, h)

Accepts(w, c, joint) ==
  /\ w.cur[c.actor] = 0
  /\ c.target # None => /\ w.cur[c.target] = 0
                        /\ w.loc[c.target] = w.loc[c.actor]
  /\ HasRoom(w, c)
  /\ CanPay(w, c, joint)
  /\ \A o \in c.objects : Cardinality(FreeSlots(w, o)) >= SlotQuantity(c, o, joint)

Reservation(a, expires, kind, agent, object, slot, household, money, food, location) ==
  [owner |-> a, kind |-> kind, object |-> object, slot |-> slot, household |-> household,
   money |-> money, food |-> food, location |-> location, agent |-> agent,
   expires |-> expires]

Reservations(w, c, joint, expires) ==
  LET new(kind, agent, object, slot, household, money, food, location) ==
        Reservation(w.next, expires, kind, agent, object, slot, household, money, food,
                    location)
      charged == {h \in Household : MoneyCost(c, joint, h) + FoodCost(c, h) > 0}
  IN  {new("PARTICIPANT", p, None, 0, None, 0, 0, None) : p \in Participants(c)}
      \cup {new("OBJECT_SLOT", c.actor, k[1], k[2], None, 0, 0, None) :
              k \in SlotClaims(w, c, joint)}
      \cup {new("HOUSEHOLD_RESOURCE", None, None, 0, h, MoneyCost(c, joint, h),
                FoodCost(c, h), None) : h \in charged}
      \cup {new("LOCATION", p, None, 0, None, 0, 0, c.dest) : p \in Travelers(w, c)}

NextId(w) == w.next + 1

(* _create_action, from CREATED to the phase it is left in.                *)
CreateAction(w, c, joint) ==
  LET a == w.next
      away == Travelers(w, c)
      arrival == [p \in Participants(c) |->
                    w.minute + IF p \in away THEN Travel[w.loc[p]][c.dest] ELSE 0]
      expected == Largest({arrival[p] : p \in Participants(c)})
      start == Largest({expected, Rule[c.behavior].startsAt})
      end == start + Rule[c.behavior].duration
      phase == IF away # {} THEN "TRAVELING"
               ELSE IF w.minute < start THEN "ALIGNING" ELSE "PERFORMING"
      resv == Reservations(w, c, joint, end + ExpirySlack)
  IN  [w EXCEPT
        !.next = NextId(w),
        !.act = Put(w.act, a,
          [phase |-> phase, behavior |-> c.behavior, actor |-> c.actor,
           agents |-> Participants(c), target |-> c.target, activity |-> c.activity,
           dest |-> c.dest, expected |-> expected, start |-> start, end |-> end,
           began |-> w.minute, joint |-> joint, resv |-> resv,
           origin |-> [p \in Participants(c) |-> w.loc[p]],
           arrived |-> Participants(c) \ away]),
        !.resv = w.resv \cup resv,
        !.occupied = [k \in SlotId |-> IF k \in SlotClaims(w, c, joint) THEN a
                                                                        ELSE w.occupied[k]],
        !.cur = [p \in Agent |-> IF p \in Participants(c) THEN a ELSE w.cur[p]],
        !.loc = [p \in Agent |-> IF p \in away THEN Traveling ELSE w.loc[p]],
        !.occ = [l \in Location |-> w.occ[l] \ away]]

-----------------------------------------------------------------------------
(* Progress of one action.                                                 *)

StartPerforming(w, a) ==
  [w EXCEPT !.act[a].phase = "PERFORMING", !.act[a].began = w.minute]

(* _arrive_participant for every agent in S.                               *)
ArriveParticipants(w, a, S) ==
  LET entering == {p \in S : w.loc[p] = Traveling}
      held == {r \in w.act[a].resv : r.kind = "LOCATION" /\ r.agent \in S}
  IN  [w EXCEPT
        !.loc = [p \in Agent |-> IF p \in entering THEN w.act[a].dest ELSE w.loc[p]],
        !.occ[w.act[a].dest] = @ \cup entering,
        !.resv = @ \ held,
        !.act[a].resv = @ \ held,
        !.act[a].arrived = @ \cup S]

BarrierMetByActor(w, a) == w.act[a].actor \in w.act[a].arrived \* Slip: the actor suffices.
BarrierMet(w, a) == w.act[a].arrived = w.act[a].agents

\* Slip: the slots are given back together with the room at the destination.
FinishArrivalBarrierFreeingSlots(w, a) ==
  LET held == {r \in w.act[a].resv : r.kind \in {"LOCATION", "OBJECT_SLOT"}}
  IN  [w EXCEPT !.resv = @ \ held,
                !.act[a].resv = @ \ held,
                !.occupied = [k \in SlotId |-> IF w.occupied[k] = a THEN 0 ELSE w.occupied[k]],
                !.act[a].phase = "PERFORMING"]

FinishArrivalBarrier(w, a) ==
  LET held == {r \in w.act[a].resv : r.kind = "LOCATION"}
      aligned == [w EXCEPT !.resv = @ \ held,
                           !.act[a].resv = @ \ held,
                           !.act[a].phase = "ALIGNING"]
  IN  IF w.minute >= w.act[a].start THEN StartPerforming(aligned, a) ELSE aligned

\* Slip: the object slots stay occupied.
ReleaseReservationsNotSlots(w, a) == [w EXCEPT !.resv = @ \ w.act[a].resv]

ReleaseReservations(w, a) ==
  LET slots == {<<r.object, r.slot>> : r \in {x \in w.act[a].resv : x.kind = "OBJECT_SLOT"}}
  IN  [w EXCEPT
        !.resv = @ \ w.act[a].resv,
        !.occupied = [k \in SlotId |-> IF k \in slots THEN 0 ELSE w.occupied[k]]]

\* Slip: only those who had arrived are sent back.
ReturnArrivedOnly(w, a) ==
  LET act == w.act[a]
      back == {p \in act.arrived : w.loc[p] # act.origin[p]}
  IN  [w EXCEPT
        !.loc = [p \in Agent |-> IF p \in back THEN act.origin[p] ELSE w.loc[p]],
        !.occ = [l \in Location |-> (w.occ[l] \ back) \cup {p \in back : act.origin[p] = l}]]

(* Every participant goes back to where it was when the action was created.*)
ReturnToOrigin(w, a) ==
  LET act == w.act[a]
      back == {p \in act.agents : w.loc[p] # act.origin[p]}
  IN  [w EXCEPT
        !.loc = [p \in Agent |-> IF p \in back THEN act.origin[p] ELSE w.loc[p]],
        !.occ = [l \in Location |-> (w.occ[l] \ back) \cup {p \in back : act.origin[p] = l}]]

(* _terminate_action: every reservation goes, the participants are free,   *)
(* and a failed or cancelled action sends them back.                       *)
TerminateAction(w, a, phase) ==
  LET released == ReleaseReservations(w, a)
      placed == IF phase = "COMPLETED" THEN released ELSE ReturnToOrigin(released, a)
  IN  [placed EXCEPT
        !.act = Drop(w.act, a),
        !.cur = [p \in Agent |-> IF p \in w.act[a].agents /\ w.cur[p] = a THEN 0
                                                                        ELSE w.cur[p]]]

CommitReservedResources(w, a) ==
  LET paid == {r \in w.act[a].resv : r.kind = "HOUSEHOLD_RESOURCE"}
      gain(h) == Rule[w.act[a].behavior].gain * Cardinality(Resources(paid, h))
  IN  [w EXCEPT
        !.money = [h \in Household |-> w.money[h] - Money(paid, h)],
        !.food = [h \in Household |-> w.food[h] - Food(paid, h) + gain(h)]]

\* Slip: the invited agent is left out of the joint action.
InvitedCandidateAlone(w, act, S) ==
  Candidate(w, act.actor, act.activity, None, None, S)

InvitedCandidate(w, act, S) ==
  Candidate(w, act.actor, act.activity, act.target, None, S)

(* _resolve_action.  An accepted invitation is completed first and then    *)
(* replaced by the joint action, if the Resolver takes that one.           *)
ResolveAction(w, a) ==
  LET act == w.act[a]
      settled == TerminateAction(CommitReservedResources(w, a), a, "COMPLETED")
      freed == TerminateAction(w, a, "COMPLETED")
      joined == {InvitedCandidate(freed, act, S) :
                   S \in Bundles(freed, act.activity,
                                 Destination(freed, act.actor, act.activity))}
  IN  IF act.activity = None THEN {settled}
      ELSE {settled, freed} \cup {CreateAction(freed, c, TRUE) :
                                    c \in {x \in joined : Accepts(freed, x, TRUE)}}

TimedOut(w, a) == w.minute > w.act[a].expected + MovementTimeout

(* The body of _progress_actions for one action.                           *)
Progress(w, a) ==
  LET act == w.act[a]
      arrived == IF act.phase = "TRAVELING" /\ ~Live /\ w.minute >= act.expected
                 THEN FinishArrivalBarrier(ArriveParticipants(w, a, act.agents), a)
                 ELSE w
      started == IF arrived.act[a].phase = "ALIGNING" /\ w.minute >= act.start
                 THEN StartPerforming(arrived, a)
                 ELSE arrived
  IN  IF act.phase = "TRAVELING" /\ Live /\ TimedOut(w, a)
      THEN {TerminateAction(w, a, "FAILED")}
      ELSE IF started.act[a].phase = "PERFORMING" /\ w.minute >= act.end
      THEN ResolveAction(started, a)
      ELSE {started}

-----------------------------------------------------------------------------
(* assert_society_invariants, the validation of every commit.              *)

(* An agent takes part in the action it names and in no other one.         *)
Ownership(w) ==
  /\ \A p \in Agent : w.cur[p] # 0 => w.cur[p] \in DOMAIN w.act
  /\ \A p \in Agent, a \in DOMAIN w.act : p \in w.act[a].agents <=> w.cur[p] = a

(* current_location_id and current_agent_ids tell the same story.          *)
Membership(w) ==
  \A p \in Agent, l \in Location : p \in w.occ[l] <=> w.loc[p] = l

(* Reservations belong to active actions and to their participants; every  *)
(* participant is reserved by the one action it takes part in.             *)
ReservationLedger(w) ==
  /\ \A a \in DOMAIN w.act : /\ w.act[a].resv \subseteq w.resv
                             /\ w.act[a].arrived \subseteq w.act[a].agents
  /\ \A r \in w.resv : /\ r.owner \in DOMAIN w.act
                       /\ r.agent # None => r.agent \in w.act[r.owner].agents
  /\ \A p \in Agent :
       {r.owner : r \in {x \in w.resv : x.kind = "PARTICIPANT" /\ x.agent = p}}
         = {w.cur[p]} \ {0}

(* An object slot is occupied exactly for the action that reserved it.     *)
SlotLedger(w) ==
  /\ \A k \in SlotId : w.occupied[k] # 0 =>
       \E r \in w.resv : /\ r.kind = "OBJECT_SLOT" /\ r.owner = w.occupied[k]
                         /\ r.object = k[1] /\ r.slot = k[2]
  /\ \A r \in w.resv : r.kind = "OBJECT_SLOT" => w.occupied[<<r.object, r.slot>>] = r.owner

NoneExpired(w) == \A r \in w.resv : w.minute <= r.expires

(* Nobody is promised money or food that is not there.                     *)
ResourceCover(w) ==
  \A h \in Household : Money(w.resv, h) <= w.money[h] /\ Food(w.resv, h) <= w.food[h]

(* A location never holds, or has promised room to, more than it can take. *)
LocationCapacity(w) ==
  \A l \in Location : Cardinality(w.occ[l]) + Incoming(w, l) <= Capacity[l]

LedgerInvariants(w) ==
  /\ Ownership(w) /\ Membership(w) /\ ReservationLedger(w) /\ SlotLedger(w)
  /\ NoneExpired(w) /\ ResourceCover(w)

AuthorityInvariants(w) == LedgerInvariants(w) /\ LocationCapacity(w)

-----------------------------------------------------------------------------
(* The engine.                                                             *)

InitialContext ==
  [minute |-> 0, next |-> 1, act |-> << >>, resv |-> {},
   loc |-> InitialLocation,
   occ |-> [l \in Location |-> {p \in Agent : InitialLocation[p] = l}],
   cur |-> [p \in Agent |-> 0],
   occupied |-> [k \in SlotId |-> 0],
   money |-> InitialMoney, food |-> InitialFood]

Init ==
  /\ auth = InitialContext
  /\ ctx = InitialContext
  /\ stage = "idle"
  /\ todo = {}
  /\ source = InitialContext
  /\ fault = "none"

(* _commit: validate the whole candidate state, install it or raise.       *)
Install(w) ==
  /\ stage' = "idle"
  /\ todo' = {}
  /\ IF AuthorityInvariants(w)
       THEN auth' = w /\ ctx' = w /\ source' = w /\ fault' = "none"
       ELSE /\ UNCHANGED auth /\ ctx' = auth /\ source' = auth
            /\ fault' = IF LedgerInvariants(w) THEN "room" ELSE "ledger"

BeginTick ==
  /\ stage = "idle"
  /\ auth.minute < MaxMinute
  /\ ctx' = [auth EXCEPT !.minute = @ + 1]
  /\ stage' = "progress"
  /\ todo' = DOMAIN auth.act
  /\ UNCHANGED <<auth, source, fault>>

ProgressAction ==
  /\ stage = "progress"
  /\ \E a \in todo : /\ \A b \in todo : a <= b
                     /\ ctx' \in Progress(ctx, a)
                     /\ todo' = todo \ {a}
  /\ UNCHANGED <<auth, stage, source, fault>>

Undecided(w) == {p \in Agent : w.cur[p] = 0 /\ w.loc[p] # Traveling}

(* Every agent that is free now is prepared: its candidates are enumerated *)
(* from the context as it is here, before any of them is created.          *)
BeginDecisions ==
  /\ stage = "progress"
  /\ todo = {}
  /\ stage' = "decide"
  /\ todo' = Undecided(ctx)
  /\ source' = ctx
  /\ UNCHANGED <<auth, ctx, fault>>

(* An agent another agent's action already took this minute.               *)
SkipCommitted(p) ==
  /\ stage = "decide" /\ p \in todo
  /\ ctx.cur[p] # 0
  /\ todo' = todo \ {p}
  /\ UNCHANGED <<auth, ctx, stage, source, fault>>

(* The best candidate if the Resolver accepts it, else the idle fallback,  *)
(* whose rejection is an error that loses the whole minute.                *)
DecideAgent(p) ==
  /\ stage = "decide" /\ p \in todo
  /\ ctx.cur[p] = 0
  /\ UNCHANGED auth
  /\ \E c \in Candidates(source, p) \cup {IdleCandidate(source, p)} :
       LET chosen == IF Accepts(ctx, c, FALSE) THEN c ELSE IdleCandidate(source, p)
       IN  IF Accepts(ctx, chosen, FALSE)
             THEN /\ ctx' = CreateAction(ctx, chosen, FALSE)
                  /\ todo' = todo \ {p}
                  /\ UNCHANGED <<stage, source, fault>>
             ELSE /\ ctx' = auth /\ source' = auth
                  /\ todo' = {}
                  /\ stage' = "idle"
                  /\ fault' = "idle_rejected"

Commit == stage = "decide" /\ todo = {} /\ Install(ctx)

(* report_movement_arrived, _failed and _cancelled, past their validation. *)
MovementArrived(a, p) ==
  /\ Live /\ stage = "idle"
  /\ auth.act[a].phase = "TRAVELING"
  /\ p \in auth.act[a].agents \ auth.act[a].arrived
  /\ LET arrived == ArriveParticipants(auth, a, {p})
     IN  Install(IF BarrierMet(arrived, a)
                 THEN FinishArrivalBarrier(arrived, a) ELSE arrived)

MovementEnded(a, phase) ==
  /\ Live /\ stage = "idle"
  /\ auth.act[a].phase = "TRAVELING"
  /\ Install(TerminateAction(auth, a, phase))

\* Slip: a cancelled action pays for what it had reserved.
EndActionCharged(a, phase) ==
  /\ Cancels /\ stage = "idle"
  /\ Install(TerminateAction(CommitReservedResources(auth, a), a, phase))

(* cancel_action and fail_action: whole-action termination in any phase.   *)
EndAction(a, phase) ==
  /\ Cancels /\ stage = "idle"
  /\ Install(TerminateAction(auth, a, phase))

Tick ==
  \/ BeginTick
  \/ ProgressAction
  \/ BeginDecisions
  \/ \E p \in Agent : SkipCommitted(p) \/ DecideAgent(p)
  \/ Commit

Report ==
  \E a \in DOMAIN auth.act :
    \/ \E p \in Agent : MovementArrived(a, p)
    \/ \E phase \in {"FAILED", "CANCELLED"} : MovementEnded(a, phase) \/ EndAction(a, phase)

Next == Tick \/ Report

Spec == Init /\ [][Next]_vars

-----------------------------------------------------------------------------
(* Properties.                                                             *)

ActionRecord ==
  [phase: ActivePhases, behavior: Behavior, actor: Agent, agents: SUBSET Agent,
   target: Agent \cup {None}, activity: Behavior \cup {None}, dest: Location,
   expected: Nat, start: Nat, end: Nat, began: Nat, joint: BOOLEAN,
   resv: SUBSET ReservationRecord, origin: UNION {[S -> Location] : S \in SUBSET Agent},
   arrived: SUBSET Agent]

ContextOK(w) ==
  /\ DOMAIN w = {"minute", "next", "act", "resv", "loc", "occ", "cur", "occupied",
                 "money", "food"}
  /\ w.minute \in Nat /\ w.next \in Nat \ {0}
  /\ DOMAIN w.act \subseteq 1 .. w.next - 1
  /\ \A a \in DOMAIN w.act : /\ w.act[a] \in ActionRecord
                             /\ DOMAIN w.act[a].origin = w.act[a].agents
  /\ w.resv \subseteq ReservationRecord
  /\ w.loc \in [Agent -> Traveled]
  /\ w.occ \in [Location -> SUBSET Agent]
  /\ w.cur \in [Agent -> Nat]
  /\ w.occupied \in [SlotId -> Nat]

(* The committed checkpoint and the contexts of the minute in progress are *)
(* well formed, and every action in them has an id that was issued.        *)
TypeOK ==
  /\ ContextOK(auth) /\ ContextOK(ctx) /\ ContextOK(source)
  /\ stage \in {"idle", "progress", "decide"}
  /\ todo \subseteq IF stage = "decide" THEN Agent ELSE Nat
  /\ fault \in Faults

(* The records of who uses what (actions, current_action_id, the location  *)
(* lists, reservations, occupied slots) agree after every step of a minute,*)
(* not only at the commit that checks them; no reservation outlives its    *)
(* expiry, and none is left out of its action's list.                      *)
ClaimsAgree ==
  /\ Ownership(ctx) /\ Membership(ctx)
  /\ ReservationLedger(ctx) /\ SlotLedger(ctx) /\ NoneExpired(ctx)
  /\ \A r \in ctx.resv : r \in ctx.act[r.owner].resv

(* What is reserved of a household's money and food is there, after every  *)
(* step: several actions of one household never overdraw it together.      *)
PromisesCovered == ResourceCover(ctx)

(* The headless engine never raises: the capacity check of the Resolver is *)
(* enough for every commit, and no idle fallback is rejected.              *)
NeverRaises == fault = "none"

(* Nobody aligns or performs before every participant stands at the        *)
(* destination: the arrival barrier of a shared action.                    *)
ArrivalBarrier ==
  \A a \in DOMAIN ctx.act :
    ctx.act[a].phase # "TRAVELING" =>
      /\ ctx.act[a].arrived = ctx.act[a].agents
      /\ \A p \in ctx.act[a].agents : ctx.loc[p] = ctx.act[a].dest

(* An agent is on the road exactly while an action of its own, still       *)
(* TRAVELING, waits for it: no end of an action strands a traveler.        *)
NobodyStranded ==
  \A p \in Agent :
    ctx.loc[p] = Traveling <=>
      \E a \in DOMAIN ctx.act : /\ ctx.act[a].phase = "TRAVELING"
                               /\ p \in ctx.act[a].agents \ ctx.act[a].arrived

(* A trip ends on time headless, and live within the movement timeout.     *)
TravelBounded ==
  \A a \in DOMAIN auth.act :
    auth.act[a].phase = "TRAVELING" =>
      IF Live THEN auth.minute <= auth.act[a].expected + MovementTimeout
              ELSE auth.minute < auth.act[a].expected

(* A committed minute charges each household exactly what was reserved by  *)
(* the actions whose performance ended in it, and no other step charges.   *)
SettledOnce ==
  [][LET gone == DOMAIN auth.act \ DOMAIN auth'.act
         performed == IF auth'.minute = auth.minute THEN {}
                      ELSE {a \in gone : auth.act[a].phase # "TRAVELING"}
         paid == UNION {auth.act[a].resv : a \in performed}
         bought(h) == {a \in performed : /\ Resources(auth.act[a].resv, h) # {}
                                          /\ Rule[auth.act[a].behavior].gain > 0}
         gained(h) == MapThenSumSet(LAMBDA a : Rule[auth.act[a].behavior].gain, bought(h))
     IN  \A h \in Household :
           /\ auth'.money[h] = auth.money[h] - Money(paid, h)
           /\ auth'.food[h] = auth.food[h] - Food(paid, h) + gained(h)]_auth

(* A committed minute leaves every agent with a primary action.            *)
EveryoneEngaged ==
  [][auth'.minute # auth.minute => \A p \in Agent : auth'.cur[p] # 0]_auth

(* A joint action takes the place of an accepted invitation of the same    *)
(* two agents in one commit; one side of it never exists alone.            *)
JointReplacesInvitation ==
  [][\A a \in DOMAIN auth'.act \ DOMAIN auth.act :
       auth'.act[a].joint =>
         \E b \in DOMAIN auth.act \ DOMAIN auth'.act :
            /\ auth.act[b].activity = auth'.act[a].behavior
            /\ auth.act[b].agents = auth'.act[a].agents]_auth

(* What an action holds: its participants and the slots reserved for it.   *)
Held(w) ==
  [a \in DOMAIN w.act |->
     w.act[a].agents \cup
       {<<r.object, r.slot>> : r \in {x \in w.act[a].resv : x.kind = "OBJECT_SLOT"}}]

Engaged == INSTANCE Engagements
             WITH Resource <- Agent \cup SlotId, held <- Held(auth), issued <- auth.next - 1

(* Between its first and its last commit an action holds all of its agents *)
(* and slots: they are taken together, kept, and given back together.      *)
HeldWhole == Engaged!Spec

=============================================================================
