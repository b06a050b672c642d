---------------------------- MODULE Presentation ----------------------------
(***************************************************************************)
(* What the Unity client shows of the M3 authority: the messages that      *)
(*   src/python/town_core/bridge/m3_runtime.py                             *)
(* makes of every commit of the society engine, the validators of          *)
(*   src/python/town_core/domain/protocol_models.py                        *)
(* they must pass, and the projection the client keeps of them             *)
(* (TownBridgeClient.cs, NpcView.cs, ActionPresentationGroup.cs,           *)
(* InteractionSlot.cs, NpcNavigationController.cs).                        *)
(*                                                                         *)
(* The authority is an action table with object slots: module Society has  *)
(* its schedule, prices and reservations, here they are choices.  Messages *)
(* arrive in order or are all lost with their connection; the handshake    *)
(* and the transport are module Bridge.  The clock, relationships, events  *)
(* and dialogue lines are sent too, but the client only prints them.  A    *)
(* slot stands for one (object_id, slot_index); the client finds each one  *)
(* because the registry was accepted (module TownSetup).                   *)
(***************************************************************************)
EXTENDS Naturals, FiniteSets, SequencesExt

CONSTANTS
  Agent, Place, Slot,
  PlaceOf,      \* Slot -> the place of its object
  Purse,        \* the household's money at the start
  MaxActions,   \* bounds for model checking: actions created,
  MaxVersion,   \*   commits,
  MaxLag,       \*   messages not yet applied when a minute begins or the
  MaxUp,        \*   client reports, reports under way,
  MaxCuts       \*   connections lost

ASSUME PresentationConstants ==
  /\ PlaceOf \in [Slot -> Place]
  /\ {Purse, MaxActions, MaxVersion, MaxLag, MaxUp, MaxCuts} \subseteq Nat

Traveling == "TRAVELING"
Nobody == "nobody"
NoSlot == "no slot"
NoAction == 0
Terminal == {"COMPLETED", "FAILED", "CANCELLED", "INTERRUPTED"}

VARIABLES
  town,     \* the committed world: loc, doing, purse, acts, next
  version,  \* its state_version
  tick,     \* the commit in preparation, or Closed
  wire, up, \* messages to the client, reports to the authority
  client,   \* what the client shows: views, groups, claims, purse, seen
  wrong,    \* what ever went wrong: see Malformed and Dropped
  cuts      \* connections lost so far

vars == <<town, version, tick, wire, up, client, wrong, cuts>>

Closed == [step |-> "closed"]
Malformed == "a message violates its own contract"
Dropped == "the client rejected a message"

-----------------------------------------------------------------------------
(* The authority.  A context c holds the world a commit prepares and the   *)
(* phase records it will publish, in the order they were made.             *)

Logged(c, id, phase) ==
  [c EXCEPT !.log = Append(@, [id |-> id, phase |-> phase])]

SetPhase(c, id, phase) ==
  Logged([c EXCEPT !.acts[id].phase = phase], id, phase)

\* An action that ends without success puts its agents back where they began.
Terminated(c, id, phase) ==
  LET a == c.acts[id]
      back == IF phase = "COMPLETED" THEN {} ELSE a.parts
  IN [Logged(c, id, phase) EXCEPT
        !.acts = [i \in DOMAIN c.acts \ {id} |-> c.acts[i]],
        !.loc = [p \in Agent |-> IF p \in back THEN a.origin[p] ELSE @[p]],
        !.doing = [p \in Agent |-> IF p \in a.parts THEN NoAction ELSE @[p]]]

Taken(c) == UNION {UNION Range(c.acts[i].slots) : i \in DOMAIN c.acts}
FreeAt(c, place) == {s \in Slot \ Taken(c) : PlaceOf[s] = place}

\* A proposal p asks for no slot, for one (the actor's), or for one apiece.
Bindings(c, p) ==
  CASE p.need = "none" -> {[x \in p.parts |-> {}]}
    [] p.need = "one"  -> {[x \in p.parts |-> IF x = p.actor THEN {s} ELSE {}]
                             : s \in FreeAt(c, p.dest)}
    [] p.need = "each" ->
         {b \in [p.parts -> {{s} : s \in FreeAt(c, p.dest)}] :
            \A x, y \in p.parts : x # y => b[x] # b[y]}

Available(c, p) ==
  \A x \in p.parts : c.doing[x] = NoAction /\ c.loc[x] # Traveling

\* _create_action: the phases it passes through end in the first that lasts;
\* a shift whose start is still ahead waits in ALIGNING.
Created(c, p) ==
  LET id == c.next
      away == {x \in p.parts : c.loc[x] # p.dest}
      with(b) == [actor |-> p.actor, parts |-> p.parts, target |-> p.target,
                  dest |-> p.dest, slots |-> b, phase |-> "CREATED",
                  origin |-> [x \in p.parts |-> c.loc[x]],
                  arrived |-> p.parts \ away, social |-> p.social]
      begun(b) == [c EXCEPT
        !.acts = (id :> with(b)) @@ @,
        !.doing = [x \in Agent |-> IF x \in p.parts THEN id ELSE @[x]],
        !.next = id + 1]
      reserved(b) == SetPhase(Logged(begun(b), id, "CREATED"), id, "RESERVING")
      left(b) == [reserved(b) EXCEPT
        !.loc = [x \in Agent |-> IF x \in away THEN Traveling ELSE @[x]]]
      next == IF away # {} THEN {"TRAVELING"} ELSE {"ALIGNING", "PERFORMING"}
  IN IF id > MaxActions \/ ~Available(c, p) THEN {}
     ELSE {SetPhase(left(b), id, ph) : b \in Bindings(c, p), ph \in next}

Solo(a) == [actor : {a}, parts : {{a}}, target : {Nobody}, dest : Place,
            need : {"none", "one"}, social : {FALSE}]
SocialAt(place, a) ==
  {[actor |-> a, parts |-> {a, b}, target |-> b, dest |-> place,
    need |-> "each", social |-> TRUE] : b \in Agent \ {a}}
\* What an accepted invite creates at once for both.
Joint(a) ==
  {[actor |-> a.actor, parts |-> a.parts, target |-> a.target, dest |-> place,
    need |-> n, social |-> FALSE] : place \in Place, n \in {"one", "each"}}

\* What a minute may make of action id (_progress_actions): it takes its
\* turn although an earlier action of the same minute changed the world.
Progressed(c, id) ==
  LET a == c.acts[id]
      ending == SetPhase(c, id, "RESOLVING")
      ended == Terminated(ending, id, "COMPLETED")
      paid == {[ended EXCEPT !.purse = @ - n] : n \in {0, 1} \cap 0 .. c.purse}
  IN {c} \cup
     CASE a.phase = "TRAVELING"  -> {Terminated(c, id, "FAILED")}
       [] a.phase = "ALIGNING"   -> {SetPhase(c, id, "PERFORMING")}
       [] a.phase = "PERFORMING" -> paid \cup
            (IF a.social THEN UNION {Created(ended, j) : j \in Joint(a)} ELSE {})

OpenMinute ==
  /\ tick = Closed /\ version < MaxVersion
  /\ Len(wire) <= MaxLag
  /\ tick' = [step |-> "progress", todo |-> DOMAIN town.acts, due |-> {},
              world |-> town @@ [log |-> <<>>], traces |-> <<>>]
  /\ UNCHANGED <<town, version, wire, up, client, wrong, cuts>>

ProgressAction ==
  /\ tick.step = "progress" /\ tick.todo # {}
  /\ LET id == CHOOSE i \in tick.todo : \A j \in tick.todo : i <= j IN
     \E c \in Progressed(tick.world, id) :
       tick' = [tick EXCEPT !.world = c, !.todo = @ \ {id}]
  /\ UNCHANGED <<town, version, wire, up, client, wrong, cuts>>

\* All due agents propose from the state the decisions began with.
BeginDecisions ==
  /\ tick.step = "progress" /\ tick.todo = {}
  /\ \E due \in SUBSET {a \in Agent : /\ tick.world.doing[a] = NoAction
                                      /\ tick.world.loc[a] # Traveling} :
       tick' = [tick EXCEPT !.step = "decide", !.due = due]
  /\ UNCHANGED <<town, version, wire, up, client, wrong, cuts>>

Trace(a, attempts) == [agent |-> a, attempts |-> attempts]
Rejected(cand) == [candidate |-> cand, result |-> "REJECTED"]
Accepted(cand) == [candidate |-> cand, result |-> "ACCEPTED"]

\* One decision: the first candidate, or idling where one stands if it is
\* rejected.  Whom an earlier proposal took along decides nothing anymore.
Decide(a) ==
  /\ tick.step = "decide" /\ a \in tick.due
  /\ LET c == tick.world
         here == c.loc[a]
         settle(cs, trace) == \E d \in cs :
           tick' = [tick EXCEPT !.world = d, !.due = @ \ {a},
                                !.traces = Append(@, trace)]
         idle == [actor |-> a, parts |-> {a}, target |-> Nobody, dest |-> here,
                  need |-> "none", social |-> FALSE]
     IN \/ /\ c.doing[a] # NoAction
           /\ settle({c}, Trace(a, <<[result |-> "SOCIAL_TARGET_COMMITTED"]>>))
        \/ \E p \in Solo(a) \cup {q \in SocialAt(here, a) :
                      c.loc[q.target] = here \/ c.doing[q.target] # NoAction} :
             LET made == Created(c, p) IN
             IF made # {} THEN settle(made, Trace(a, <<Accepted("best")>>))
             ELSE settle(Created(c, idle),
                         Trace(a, <<Rejected("best"), Accepted("idle")>>))
  /\ UNCHANGED <<town, version, wire, up, client, wrong, cuts>>

-----------------------------------------------------------------------------
(* The messages of a commit.                                               *)

Participants(a) ==
  [x \in a.parts |->
     [role |-> IF x = a.actor THEN "ACTOR"
               ELSE IF x = a.target THEN "TARGET" ELSE "PARTICIPANT",
      slots |-> a.slots[x],
      facing |-> IF ~a.social THEN Nobody
                 ELSE IF x = a.actor THEN a.target ELSE a.actor]]

ActionStarted(id, a) ==
  [type |-> "action_started", id |-> id, who |-> Participants(a),
   phase |-> "CREATED", joint |-> Cardinality(a.parts) >= 2, social |-> a.social]

ActivePresentation(id, a) ==
  [ActionStarted(id, a) EXCEPT !.type = "presentation", !.phase = a.phase]

Presentations(w) == {ActivePresentation(id, w.acts[id]) : id \in DOMAIN w.acts}

Snapshot ==
  [type |-> "world_snapshot", loc |-> town.loc, doing |-> town.doing,
   purse |-> town.purse, actions |-> DOMAIN town.acts,
   active |-> Presentations(town), version |-> version]

\* The message for one phase record, given the world after the commit.
PhaseMessages(r, after) ==
  CASE r.phase = "CREATED" ->
         IF r.id \in DOMAIN after.acts
         THEN <<ActionStarted(r.id, after.acts[r.id])>> ELSE <<>>
    [] r.phase = "CANCELLED" -> <<[type |-> "action_cancelled", id |-> r.id]>>
    [] OTHER -> <<[type |-> "action_phase_changed", id |-> r.id,
                   phase |-> r.phase]>>

Changed(before, after, a) ==
  {f \in {"loc", "doing"} : before[f][a] # after[f][a]}

AgentDeltas(before, after) ==
  LET delta(a) == [type |-> "agent_state_delta", agent |-> a,
                   mask |-> Changed(before, after, a),
                   loc |-> after.loc[a], doing |-> after.doing[a]]
      touched == {a \in Agent : Changed(before, after, a) # {}}
  IN SetToSeq({delta(a) : a \in touched})

HouseholdDeltas(before, after) ==
  IF before.purse = after.purse THEN <<>>
  ELSE <<[type |-> "household_state_delta", purse |-> after.purse]>>

\* Slip: what started is announced before what ended.
StartsFirst(before, after, log) ==
  LET told(starts) == SelectSeq(log, LAMBDA r : (r.phase = "CREATED") = starts)
      of(s) == FlattenSeq([i \in DOMAIN s |-> PhaseMessages(s[i], after)])
  IN of(told(TRUE)) \o of(told(FALSE))
     \o AgentDeltas(before, after) \o HouseholdDeltas(before, after)

StateMessages(before, after, log) ==
  FlattenSeq([i \in DOMAIN log |-> PhaseMessages(log[i], after)])
    \o AgentDeltas(before, after) \o HouseholdDeltas(before, after)

\* The validators of the 0.3 payloads.
WellFormedAction(m) ==
  LET who == m.who
      with(role) == {x \in DOMAIN who : who[x].role = role}
  IN /\ Cardinality(with("ACTOR")) = 1
     /\ m.joint = (Cardinality(DOMAIN who) >= 2)
     /\ \A x, y \in DOMAIN who : x # y => who[x].slots \cap who[y].slots = {}
     /\ m.social =>
          /\ Cardinality(with("TARGET")) = 1
          /\ \A x \in with("ACTOR"), y \in with("TARGET") :
               who[x].facing = y /\ who[y].facing = x

\* An agent that was taken along has no decision of its own to explain.
\* Slip: its decision is explained like the others.
ExplainsAll(t) == TRUE
Explained(t) == \A i \in DOMAIN t.attempts : "candidate" \in DOMAIN t.attempts[i]

WellFormedTrace(t) ==
  LET chosen == Last(t.attempts) IN
  /\ Len(t.attempts) <= 2
  /\ "candidate" \in DOMAIN chosen /\ chosen.result = "ACCEPTED"
  /\ \A i \in DOMAIN t.attempts :
       i < Len(t.attempts) => t.attempts[i].result # "ACCEPTED"

WellFormed(m) ==
  CASE m.type = "action_started" -> WellFormedAction(m)
    [] m.type = "world_snapshot" ->
         /\ {p.id : p \in m.active} = m.actions
         /\ Cardinality(m.active) = Cardinality(m.actions)
         /\ \A p \in m.active : WellFormedAction(p)
    [] m.type = "agent_state_delta" -> m.mask # {}
    [] OTHER -> TRUE

\* Commit context c and publish it.
Publish(c, traces) ==
  LET after == [f \in DOMAIN town |-> c[f]]
      msgs == StateMessages(town, after, c.log)
      sent == [i \in DOMAIN msgs |-> msgs[i] @@ [version |-> version + 1]]
      sound == /\ \A i \in DOMAIN sent : WellFormed(sent[i])
               /\ \A i \in DOMAIN traces :
                    Explained(traces[i]) => WellFormedTrace(traces[i])
  IN /\ town' = after
     /\ version' = version + 1
     /\ wire' = wire \o sent
     /\ wrong' = wrong \cup (IF sound THEN {} ELSE {Malformed})

Commit ==
  /\ tick.step = "decide" /\ tick.due = {}
  /\ Publish(tick.world, tick.traces)
  /\ tick' = Closed
  /\ UNCHANGED <<up, client, cuts>>

-----------------------------------------------------------------------------
(* Reports from the client.                                                *)

LiveMovement(r) ==
  /\ r.version <= version
  /\ r.type = "movement_cancelled" \/ r.version = version
  /\ r.id \in DOMAIN town.acts
  /\ LET a == town.acts[r.id] IN
     /\ a.phase = "TRAVELING" /\ r.agent \in a.parts
     /\ town.doing[r.agent] = r.id

\* report_movement_arrived: the slot must be one bound to the participant.
Admissible(r) ==
  /\ LiveMovement(r)
  /\ r.type = "movement_arrived" =>
       LET a == town.acts[r.id] IN
       /\ r.agent \notin a.arrived
       /\ IF a.slots[r.agent] # {} THEN r.slot \in a.slots[r.agent]
                                   ELSE r.slot = NoSlot

\* The last to arrive lifts the barrier; the performance may begin at once.
Arrived(c, r) ==
  LET a == c.acts[r.id]
      here == [c EXCEPT
        !.loc[r.agent] = IF @ = Traveling THEN a.dest ELSE @,
        !.acts[r.id].arrived = @ \cup {r.agent}]
      aligned == SetPhase(here, r.id, "ALIGNING")
  IN IF here.acts[r.id].arrived # a.parts THEN {here}
     ELSE {aligned, SetPhase(aligned, r.id, "PERFORMING")}

AfterReport(c, r) ==
  CASE r.type = "movement_arrived"   -> Arrived(c, r)
    [] r.type = "movement_failed"    -> {Terminated(c, r.id, "FAILED")}
    [] r.type = "movement_cancelled" -> {Terminated(c, r.id, "CANCELLED")}

\* A report that does not fit is answered with a snapshot.
Resync == /\ wire' = Append(wire, Snapshot)
          /\ wrong' = wrong \cup (IF WellFormed(Snapshot) THEN {} ELSE {Malformed})
          /\ UNCHANGED <<town, version>>

ReceiveMovement ==
  /\ tick = Closed /\ up # <<>> /\ Head(up).type # "presentation_completed"
  /\ up' = Tail(up)
  /\ LET r == Head(up) IN
     IF Admissible(r)
     THEN /\ version < MaxVersion
          /\ \E c \in AfterReport(town @@ [log |-> <<>>], r) : Publish(c, <<>>)
     ELSE Resync
  /\ UNCHANGED <<tick, client, cuts>>

ReceivePresented ==
  /\ tick = Closed /\ up # <<>> /\ Head(up).type = "presentation_completed"
  /\ up' = Tail(up)
  /\ LET r == Head(up) IN
     IF /\ r.version <= version /\ r.id \in DOMAIN town.acts
        /\ r.agent \in town.acts[r.id].parts
     THEN UNCHANGED <<town, version, wire, wrong>>
     ELSE Resync
  /\ UNCHANGED <<tick, client, cuts>>

-----------------------------------------------------------------------------
(* The client.                                                             *)

Unclaimed == <<NoAction, Nobody>>
Still == [req |-> NoAction, slot |-> NoSlot, moving |-> FALSE]

Report(cl, type, id, a, slot) ==
  [type |-> type, id |-> id, agent |-> a, slot |-> slot, version |-> cl.seen]

Unclaim(claims, slots, claim) ==
  [s \in Slot |-> IF s \in slots /\ claims[s] = claim THEN Unclaimed ELSE claims[s]]

\* ReleaseClaims of a group: each slot only if its claim is still the group's.
GroupReleased(cl, id) ==
  [cl EXCEPT
     !.groups = [i \in DOMAIN cl.groups \ {id} |-> cl.groups[i]],
     !.claims = [s \in Slot |-> IF @[s][1] = id THEN Unclaimed ELSE @[s]]]

\* CancelNavigation and ReleasePresentationClaim: drop the request in hand.
NavDropped(cl, a) ==
  LET nav == cl.views[a].nav IN
  [cl EXCEPT !.views[a].nav = Still,
             !.claims = Unclaim(@, {nav.slot}, <<nav.req, a>>)]

\* BeginNavigation: a request still in hand is cancelled and reported.
NavBegun(cl, a, id, slot) ==
  LET busy == cl.views[a].nav.req # NoAction
      free == IF busy THEN NavDropped(cl, a) ELSE cl
      said == IF busy THEN <<Report(cl, "movement_cancelled",
                                    cl.views[a].nav.req, a, NoSlot)>> ELSE <<>>
  IN [free EXCEPT
        !.views[a].nav = [req |-> id, slot |-> slot, moving |-> TRUE],
        !.out = @ \o said]

Bindable(cl, m) ==
  /\ m.id \notin DOMAIN cl.groups
  /\ \A x \in DOMAIN m.who : \A s \in m.who[x].slots :
       cl.claims[s] \in {Unclaimed, <<m.id, x>>}

\* Slip: only what has just been created sets out.
WalksWhenCreated(phase) == phase = "CREATED"
Walks(phase) == phase \in {"CREATED", "TRAVELING"}

FirstSlot(slots) == IF slots = {} THEN NoSlot ELSE CHOOSE s \in slots : TRUE

\* BindStructuredPresentation: claim every slot, then begin at each view.
Bound(cl, m) ==
  LET slots(x) == m.who[x].slots
      claimed == [cl EXCEPT
        !.groups = (m.id :> DOMAIN m.who) @@ @,
        !.claims = [s \in Slot |->
           IF \E x \in DOMAIN m.who : s \in slots(x)
           THEN <<m.id, CHOOSE x \in DOMAIN m.who : s \in slots(x)>> ELSE @[s]]]
      begin(x, c) ==
        LET shown == [c EXCEPT !.views[x].act = m.id, !.views[x].phase = m.phase]
        IN IF Walks(m.phase)
           THEN NavBegun(shown, x, m.id, FirstSlot(slots(x))) ELSE shown
  IN FoldSet(begin, claimed, DOMAIN m.who)

\* ApplyActionPhase of one view; a terminal phase empties it.
ViewPhase(x, c, id, phase) ==
  IF c.views[x].act # id THEN c
  ELSE LET shown == [c EXCEPT !.views[x].phase = phase]
           quiet == IF c.views[x].nav.req = id THEN NavDropped(shown, x) ELSE shown
       IN IF phase \in Terminal THEN [quiet EXCEPT !.views[x].act = NoAction]
          ELSE shown

\* CancelAuthoritativeAction of one view stops whatever it walks for.
ViewCancelled(x, c, id) ==
  IF c.views[x].act # id THEN c
  ELSE [NavDropped(c, x) EXCEPT !.views[x].act = NoAction,
                                !.views[x].phase = "CANCELLED"]

ActionPhaseShown(cl, m) ==
  IF m.id \in DOMAIN cl.groups
  THEN LET c == FoldSet(LAMBDA x, d : ViewPhase(x, d, m.id, m.phase),
                        cl, cl.groups[m.id])
       IN IF m.phase \in Terminal THEN GroupReleased(c, m.id) ELSE c
  ELSE FoldSet(LAMBDA x, d : ViewPhase(x, d, m.id, m.phase), cl, Agent)

ActionCancelledShown(cl, m) ==
  IF m.id \in DOMAIN cl.groups
  THEN GroupReleased(FoldSet(LAMBDA x, d : ViewCancelled(x, d, m.id),
                             cl, cl.groups[m.id]), m.id)
  ELSE cl

AgentDeltaShown(cl, m) ==
  [cl EXCEPT !.views[m.agent].loc = IF "loc" \in m.mask THEN m.loc ELSE @,
             !.views[m.agent].act = IF "doing" \in m.mask THEN m.doing ELSE @]

\* ResetPresentationProjection: release all claims, stop all walking, unreported.
Reset(cl) ==
  LET free == [cl EXCEPT !.groups = <<>>, !.claims = [s \in Slot |->
                 IF cl.claims[s][1] \in DOMAIN cl.groups THEN Unclaimed ELSE @[s]]]
      stopped == FoldSet(LAMBDA x, c : NavDropped(c, x), free, Agent)
  IN [stopped EXCEPT !.views = [x \in Agent |->
        [@[x] EXCEPT !.act = NoAction, !.phase = "NONE"]]]

Overwritten(cl, m) ==
  [Reset(cl) EXCEPT !.views = [x \in Agent |->
     [@[x] EXCEPT !.loc = m.loc[x], !.act = m.doing[x]]], !.purse = m.purse]

\* Every presentation of a snapshot can be bound: no two want one slot.
Restorable(m) ==
  \A p, q \in m.active : p # q =>
    \A x \in DOMAIN p.who, y \in DOMAIN q.who :
      p.who[x].slots \cap q.who[y].slots = {}

SnapshotShown(cl, m) ==
  FoldSet(LAMBDA p, c : Bound(c, p), Overwritten(cl, m), m.active)

Applicable(cl, m) ==
  CASE m.type = "action_started" -> Bindable(cl, m)
    [] m.type = "world_snapshot" -> Restorable(m)
    [] OTHER -> TRUE

Shown(cl, m) ==
  CASE m.type = "action_started"        -> Bound(cl, m)
    [] m.type = "action_phase_changed"  -> ActionPhaseShown(cl, m)
    [] m.type = "action_cancelled"      -> ActionCancelledShown(cl, m)
    [] m.type = "agent_state_delta"     -> AgentDeltaShown(cl, m)
    [] m.type = "household_state_delta" -> [cl EXCEPT !.purse = m.purse]
    [] m.type = "world_snapshot"        -> SnapshotShown(cl, m)

\* The client's steps touch nothing of a commit in preparation, so they are
\* interleaved between commits only.
Apply ==
  /\ tick = Closed /\ wire # <<>>
  /\ LET m == Head(wire)
         start == client @@ [out |-> <<>>]
         c == IF m.type = "world_snapshot"
              THEN SnapshotShown([start EXCEPT !.seen = m.version], m)
              ELSE Shown(start, m)
     IN /\ wire' = Tail(wire)
        /\ IF m.type # "world_snapshot" /\ m.version < client.seen
           THEN UNCHANGED <<client, up, wrong>>
           ELSE IF ~Applicable(client, m)
           THEN wrong' = wrong \cup {Dropped} /\ UNCHANGED <<client, up>>
           ELSE /\ client' = [f \in DOMAIN client |->
                                IF f = "seen" THEN m.version ELSE c[f]]
                /\ up' = up \o c.out
                /\ UNCHANGED wrong
  /\ UNCHANGED <<town, version, tick, cuts>>

MaySay == tick = Closed /\ Len(up) < MaxUp /\ Len(wire) <= MaxLag

\* A view at its goal reports it; the request stays in hand.
NavArrives(a) ==
  LET nav == client.views[a].nav IN
  /\ MaySay /\ nav.moving
  /\ client' = [client EXCEPT !.views[a].nav.moving = FALSE]
  /\ up' = Append(up, Report(client, "movement_arrived", nav.req, a, nav.slot))
  /\ UNCHANGED <<town, version, tick, wire, wrong, cuts>>

NavFails(a) ==
  LET nav == client.views[a].nav IN
  /\ MaySay /\ nav.moving
  /\ client' = NavDropped(client, a)
  /\ up' = Append(up, Report(client, "movement_failed", nav.req, a, NoSlot))
  /\ UNCHANGED <<town, version, tick, wire, wrong, cuts>>

PresentationCompleted(a) ==
  LET v == client.views[a] IN
  /\ MaySay /\ v.phase = "PERFORMING" /\ v.act # NoAction
  /\ up' = Append(up, Report(client, "presentation_completed", v.act, a, NoSlot))
  /\ UNCHANGED <<town, version, tick, wire, client, wrong, cuts>>

\* A connection is lost with all that is under way; the next one begins with
\* a snapshot (module Bridge has what lies between).
Reconnect ==
  /\ tick = Closed /\ cuts < MaxCuts
  /\ cuts' = cuts + 1
  /\ up' = <<>>
  /\ wire' = <<Snapshot>>
  /\ UNCHANGED <<town, version, tick, client, wrong>>

-----------------------------------------------------------------------------
NoView(place) == [loc |-> place, act |-> NoAction, phase |-> "NONE", nav |-> Still]

\* A first client has just applied its first snapshot.
Init ==
  /\ \E home \in [Agent -> Place] :
       /\ town = [loc |-> home, doing |-> [a \in Agent |-> NoAction],
                  purse |-> Purse, acts |-> <<>>, next |-> 1]
       /\ client = [views |-> [a \in Agent |-> NoView(home[a])], groups |-> <<>>,
                    claims |-> [s \in Slot |-> Unclaimed], purse |-> Purse,
                    seen |-> 0]
  /\ version = 0 /\ tick = Closed
  /\ wire = <<>> /\ up = <<>>
  /\ wrong = {} /\ cuts = 0

Next ==
  \/ OpenMinute \/ ProgressAction \/ BeginDecisions \/ Commit
  \/ \E a \in Agent : Decide(a)
  \/ ReceiveMovement \/ ReceivePresented
  \/ Apply \/ Reconnect
  \/ \E a \in Agent : NavArrives(a) \/ NavFails(a) \/ PresentationCompleted(a)

Spec == Init /\ [][Next]_vars

-----------------------------------------------------------------------------
(* Properties.                                                             *)

\* Every message the runtime builds passes the validators of its payload:
\* one that does not raises after the engine has committed, and its whole
\* batch is lost to the client.
MessagesWellFormed == Malformed \notin wrong

\* The client never has to reject a message: an action it binds is new to it
\* and finds each of its slots released, however reports, resyncs and
\* reconnects fell between the actions that shared a slot.
NothingDropped == Dropped \notin wrong

CaughtUp == tick = Closed /\ wire = <<>> /\ up = <<>>

\* A client that has applied everything shows what a fresh snapshot would:
\* the increments of the commits, the resyncs and the local releases of
\* failed walks add up to the authority's own state.
MirrorAgrees ==
  CaughtUp =>
    /\ client.purse = town.purse
    /\ \A a \in Agent : /\ client.views[a].loc = town.loc[a]
                        /\ client.views[a].act = town.doing[a]
    /\ DOMAIN client.groups = DOMAIN town.acts
    /\ \A i \in DOMAIN town.acts : \A x \in town.acts[i].parts :
         client.views[x].phase = town.acts[i].phase
    /\ \A s \in Slot : client.claims[s] =
         IF s \notin Taken(town) THEN Unclaimed
         ELSE CHOOSE o \in (1 .. MaxActions) \X Agent :
                /\ o[1] \in DOMAIN town.acts /\ o[2] \in town.acts[o[1]].parts
                /\ s \in town.acts[o[1]].slots[o[2]]

\* No traveller is forgotten: when nothing is under way, who still has to
\* arrive is walking there, so that a report is to come; a resync that
\* answers another agent's report does not strand it.
TravellersWalk ==
  CaughtUp =>
    \A i \in DOMAIN town.acts : \A x \in town.acts[i].parts :
      town.acts[i].phase = "TRAVELING" /\ x \notin town.acts[i].arrived =>
        client.views[x].nav.moving /\ client.views[x].nav.req = i

\* The client that has caught up is where the town is, and its walkers are on
\* their way to where the town waits for them.
ClientShowsTown == MirrorAgrees /\ TravellersWalk
=============================================================================
