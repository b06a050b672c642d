-------------------------------- MODULE Talk --------------------------------
(***************************************************************************)
(* How agents talk, and what they come to know: the social half of         *)
(* src/python/town_core/society/engine.py and rules.py, with the event     *)
(* ledger, KnowledgeRecords, ConversationRecords, cooldowns and tension.   *)
(*                                                                         *)
(* t is the authority context.  Needs, mood, money and shifts are left     *)
(* out (SocietyDay, Society): any candidate may rank first, the hash that  *)
(* decides an acceptance may say either, an agent not talking is idle or   *)
(* walks to another place, and whoever has a shift may have missed it when *)
(* it ends.  An event, a conversation or an action is named by its         *)
(* position.  Tension is in thousandths.                                   *)
(***************************************************************************)
EXTENDS Integers, Sequences, FiniteSets, FiniteSetsExt, SequencesExt

CONSTANTS
  Agent, Place,
  Work,          \* agent -> assigned_work_location_id
  ShiftEnds,     \* the minutes at which shifts end
  LoadTension,   \* 50: what a coworker's missed shift adds to the tension
  Social,        \* the social behaviors of the allowlist
  Duration,      \* behavior -> minutes
  Cooldown,      \* behavior -> minutes
  TensionDelta,  \* behavior -> [yes, no], of the target towards the actor
  Importance,    \* event type -> default_importance
  Loud,          \* event types seen by whoever is at the place
  Negative,      \* _CONFRONT_TRIGGER_EVENTS
  Sore, Angry,   \* tension that lets an agent apologize, confront
  GreetAgain,    \* 1440: minutes before another greeting
  Fresh,         \* 360: how long an event may be confronted
  TravelTime,
  StartTension,  \* initial tension of every edge
  MaxEvents,     \* bound on the ledger, for model checking only
  MaxMinute      \* bound on game_minute, for model checking only

Traveling == "TRAVELING"
NoOne == "none"
Never == -1
None == [none |-> TRUE]
Kept == {"share_event", "end_conversation"} \* never refused

ASSUME TalkConstants ==
  /\ Traveling \notin Place /\ NoOne \notin Agent
  /\ \A b \in Social \cup {"idle", "walk", "joint"} : Duration[b] \in Nat \ {0}
  /\ \A b \in Social : Cooldown[b] \in Nat
  /\ Work \in [Agent -> Place] /\ ShiftEnds \subseteq Nat /\ LoadTension \in Nat

VARIABLE t
vars == t

-----------------------------------------------------------------------------
(* Who is where, doing what.                                               *)

Parties(x) == {x.actor, x.target} \cap Agent
Busy(w, a) == \E i \in DOMAIN w.running : a \in Parties(w.running[i])
Free(w, p) == {a \in Agent : w.at[a] = p /\ ~Busy(w, a)}

(* The conversation anchor of a place has the two slots of one pair.       *)
AnchorFree(w, p) ==
  \A i \in DOMAIN w.running : ~(w.running[i].anchored /\ w.running[i].place = p)

-----------------------------------------------------------------------------
(* Knowledge and events.                                                   *)

(* _add_knowledge: what is known already is only reinforced.  Slip: the    *)
(* record takes the latest source.                                         *)
Relearn(w, a, e, source, how) ==
  [w EXCEPT !.record[a][e] = [source |-> source, how |-> how, minute |-> w.minute],
            !.known[a] = IF w.record[a][e] = None THEN Append(@, e) ELSE @]
AddKnowledge(w, a, e, source, how) ==
  IF w.record[a][e] # None THEN w
  ELSE [w EXCEPT !.record[a][e] = [source |-> source, how |-> how, minute |-> w.minute],
                 !.known[a] = Append(@, e)]

(* _stage_event by an actor, which affects some agents, with the witnesses *)
(* of a loud one.                                                          *)
StageEvent(w, type, place, actor, affected, conv) ==
  LET e == Len(w.events) + 1
      direct == {actor} \cup affected
      witnesses == IF type \in Loud THEN {a \in Agent : w.at[a] = place} \ direct ELSE {}
      told == [w EXCEPT !.events = Append(@,
                [type |-> type, minute |-> w.minute, actor |-> actor, affected |-> affected,
                 witnesses |-> witnesses, conv |-> conv])]
      heard == FoldSet(LAMBDA a, x : AddKnowledge(x, a, e, NoOne, "DIRECT_PARTICIPANT"),
                       told, direct)
  IN  FoldSet(LAMBDA a, x : AddKnowledge(x, a, e, actor, "WITNESSED"), heard, witnesses)
Participants(event) == {event.actor} \cup event.affected

-----------------------------------------------------------------------------
(* Conversations.                                                          *)

OpenBetween(w, actor, target) ==
  {c \in DOMAIN w.convs : w.convs[c].active /\ w.convs[c].pair = {actor, target}}

(* _conversation_for_social: the one ended, the pair's open one or a new   *)
(* one.                                                                    *)
Conversation(w, x) ==
  LET found == OpenBetween(w, x.actor, x.target)
      new == Len(w.convs) + 1
  IN  IF x.b = "end_conversation"
        THEN [id |-> x.conv, fresh |-> FALSE,
              world |-> [w EXCEPT !.convs[x.conv].active = FALSE, !.open = @ \ {x.conv}]]
      ELSE IF found # {} THEN [id |-> Min(found), fresh |-> FALSE, world |-> w]
      ELSE [id |-> new, fresh |-> TRUE,
            world |-> [w EXCEPT !.open = @ \cup {new},
                         !.convs = Append(@, [pair |-> {x.actor, x.target}, active |-> TRUE,
                                              lines |-> <<>>])]]

(* _social_event_types: only a greeting or a chat tells that a             *)
(* conversation has begun.                                                 *)
Greeted(w, x) ==
  \E e \in DOMAIN w.events : /\ w.events[e].type = "FIRST_GREETING"
                             /\ w.events[e].actor = x.actor /\ w.events[e].affected = {x.target}
EventTypes(w, x, yes, fresh) ==
  LET started == IF fresh THEN <<"CONVERSATION_STARTED">> ELSE <<>>
      liked == IF yes THEN "POSITIVE_INTERACTION" ELSE "AWKWARD_INTERACTION"
  IN  CASE x.b = "greet" -> (IF Greeted(w, x) THEN <<>> ELSE <<"FIRST_GREETING">>) \o started
        [] x.b = "chat" -> <<liked>> \o started
        [] x.b \in {"joke", "compliment"} -> <<liked>>
        [] x.b = "share_event" -> <<"EVENT_SHARED">>
        [] x.b = "invite_join" ->
             <<IF yes THEN "INVITATION_ACCEPTED" ELSE "INVITATION_REJECTED">>
        [] x.b = "apologize" ->
             IF yes THEN <<"APOLOGY_ACCEPTED", "CONFLICT_REDUCED">> ELSE <<"APOLOGY_REJECTED">>
        [] x.b = "confront" -> <<IF yes THEN "CONFLICT_REDUCED" ELSE "CONFLICT_ESCALATED">>
        [] OTHER -> <<"CONVERSATION_ENDED">>

-----------------------------------------------------------------------------
(* A social action completes.                                              *)

Clamp(x) == IF x < 0 THEN 0 ELSE IF x > 1000 THEN 1000 ELSE x

(* _apply_relationship_delta: the edge of one agent towards another, its   *)
(* tension and when it last changed.  Slip: when is not noted.             *)
ShiftedUnnoted(w, source, target, change) ==
  [w EXCEPT !.tension[source][target] = Clamp(@ + change)]
Shifted(w, source, target, change) ==
  [w EXCEPT !.tension[source][target] = Clamp(@ + change),
            !.last[source][target] = w.minute]
Moved(w, x, yes) ==
  Shifted(w, x.target, x.actor, IF yes THEN TensionDelta[x.b].yes ELSE TensionDelta[x.b].no)

Cooled(w, x) == [w EXCEPT !.cooldown[x.actor][x.b][x.target] = w.minute + Cooldown[x.b]]

Said(w, x, c) ==
  [w EXCEPT !.convs[c].lines =
     Append(@, [speaker |-> x.actor, b |-> x.b, event |-> x.event, minute |-> w.minute])]

(* _complete_social_effects, at the place where the two stood.             *)
Complete(w, x, yes) ==
  LET felt == IF x.b = "end_conversation" THEN w ELSE Moved(w, x, yes)
      shared == IF x.b = "share_event"
                  THEN AddKnowledge(felt, x.target, x.event, x.actor, "TOLD") ELSE felt
      talk == Conversation(shared, x)
      types == EventTypes(talk.world, x, yes, talk.fresh)
      told == FoldLeft(LAMBDA y, type : StageEvent(y, type, x.place, x.actor, {x.target}, talk.id),
                       talk.world, types)
  IN  Cooled(Said(told, x, talk.id), x)

Dropped(w, x) == [w EXCEPT !.running = SelectSeq(@, LAMBDA y : y # x)]
Begun(w, x) == [w EXCEPT !.running = Append(@, x)]

(* _resolve_action.  An accepted invitation first frees the pair, then     *)
(* counts as accepted if their joint activity could be created: Society    *)
(* has what that takes.                                                    *)
Resolve(w, x, yes, room) ==
  LET joined == Begun(Dropped(w, x), [x EXCEPT !.b = "joint", !.anchored = FALSE, !.event = 0,
                                               !.due = w.minute + Duration["joint"]])
  IN  CASE x.b \notin Social -> Dropped(w, x)
        [] x.b = "invite_join" /\ yes ->
             Complete(IF room THEN joined ELSE Dropped(w, x), x, room)
        [] OTHER -> Dropped(Complete(w, x, yes), x)

(* _progress_actions, in the order of action ids; yes holds the actions    *)
(* whose target accepts.                                                   *)
Arrived(w) ==
  FoldSet(LAMBDA x, y : [y EXCEPT !.at[x.actor] = x.place], w,
          {x \in ToSet(w.running) : x.b = "walk" /\ x.arrival <= w.minute})
DueNow(w) == SelectSeq(w.running, LAMBDA x : x.due <= w.minute)
Answers(w) ==
  SUBSET {i \in DOMAIN DueNow(w) : DueNow(w)[i].b \in Social \ Kept}
Rooms(w, yes) ==
  IF \E i \in yes : DueNow(w)[i].b = "invite_join" THEN BOOLEAN ELSE {TRUE}
Progressed(w, yes, room) ==
  FoldLeft(LAMBDA y, i : Resolve(y, DueNow(w)[i], i \in yes \/ DueNow(w)[i].b \in Kept, room),
           Arrived(w), [i \in DOMAIN DueNow(w) |-> i])

(* _finalize_work_sessions, for those who missed their shift: each of them  *)
(* is a burden to all of its coworkers, one after the other in the order of *)
(* their ids, any order here.  The shifts themselves are SocietyDay's:      *)
(* whoever has one may have missed it.                                      *)
Coworkers(a) == {c \in Agent \ {a} : Work[c] = Work[a]}
Burdened(w, a) ==
  LET missed == StageEvent(w, "WORK_MISSED", Work[a], a, {a}, 0)
      load == StageEvent(missed, "COWORKER_EXTRA_LOAD", Work[a], a, Coworkers(a), 0)
  IN  IF Coworkers(a) = {} THEN missed
      ELSE FoldSet(LAMBDA c, x : Shifted(x, c, a, LoadTension), load, Coworkers(a))
Finalized(w, absent) == FoldLeft(Burdened, w, absent)
Absences(minute) ==
  IF minute \in ShiftEnds THEN UNION {SetToSeqs(A) : A \in SUBSET Agent} ELSE {<<>>}

-----------------------------------------------------------------------------
(* What a free agent may choose.                                           *)

(* The first two targets by familiarity: any two.                          *)
TargetSets(w, a) ==
  LET there == Free(w, w.at[a]) \ {a}
  IN  IF Cardinality(there) <= 2 THEN {there} ELSE kSubset(2, there)

(* The two most important events the agent knows.                          *)
TopKnown(w, a) ==
  LET known == ToSet(w.known[a])
      before(e, f) == LET d == Importance[w.events[e].type] - Importance[w.events[f].type]
                      IN  d > 0 \/ (d = 0 /\ e < f)
  IN  {e \in known : Cardinality({f \in known : before(f, e)}) < 2}

(* _target_related_negative_event: the latest one both took part in or     *)
(* were affected by, not older than what was last said.                    *)
Causes(w, a, b) ==
  {e \in ToSet(w.known[a]) :
     /\ w.events[e].type \in Negative
     /\ {a, b} \subseteq Participants(w.events[e])
     /\ w.minute - w.events[e].minute <= Fresh
     /\ w.events[e].minute >= w.last[b][a]}
Cause(w, a, b) ==
  LET latest == Max({w.events[e].minute : e \in Causes(w, a, b)})
  IN  Min({e \in Causes(w, a, b) : w.events[e].minute = latest})

(* _append_social_drafts, for one target: the context events of the drafts *)
(* (0 for none), no draft where the set is empty.                          *)
Contexts(w, a, b, target) ==
  CASE b = "greet" /\ w.last[target][a] # Never
         /\ w.minute - w.last[target][a] < GreetAgain -> {}
    [] b = "apologize" /\ w.tension[target][a] < Sore -> {}
    [] b = "confront" /\ w.tension[target][a] < Angry ->
         IF Causes(w, a, target) = {} THEN {} ELSE {Cause(w, a, target)}
    [] b = "share_event" -> TopKnown(w, a)
    [] OTHER -> {0}

Draft(w, a, b, target, event, conv) ==
  [b |-> b, actor |-> a, target |-> target, event |-> event, conv |-> conv, place |-> w.at[a],
   anchored |-> b \in Social \ {"end_conversation"} /\ AnchorFree(w, w.at[a])]

SocialDrafts(w, a, T) ==
  UNION {{Draft(w, a, b, target, e, 0) : e \in Contexts(w, a, b, target)} :
           <<b, target>> \in {<<b, target>> \in (Social \ {"end_conversation"}) \X T :
                                w.cooldown[a][b][target] <= w.minute}}

(* end_conversation is offered for the oldest open one, wherever the other *)
(* agent is.  Slip: for the oldest one, open or not.                       *)
EndDraftsStale(w, a) ==
  LET mine == {c \in DOMAIN w.convs : a \in w.convs[c].pair}
  IN  IF mine = {} \/ "end_conversation" \notin Social THEN {}
      ELSE {Draft(w, a, "end_conversation", CHOOSE b \in w.convs[Min(mine)].pair : b # a,
                  0, Min(mine))}
EndDrafts(w, a) ==
  LET mine == {c \in DOMAIN w.convs : w.convs[c].active /\ a \in w.convs[c].pair}
  IN  IF mine = {} \/ "end_conversation" \notin Social THEN {}
      ELSE {Draft(w, a, "end_conversation", CHOOSE b \in w.convs[Min(mine)].pair : b # a,
                  0, Min(mine))}

SoloDrafts(w, a) ==
  {Draft(w, a, "idle", NoOne, 0, 0)}
    \cup {[Draft(w, a, "walk", NoOne, 0, 0) EXCEPT !.place = p] : p \in Place \ {w.at[a]}}

Candidates(w, a) ==
  SoloDrafts(w, a) \cup EndDrafts(w, a) \cup UNION {SocialDrafts(w, a, T) : T \in TargetSets(w, a)}

-----------------------------------------------------------------------------
(* Decisions.                                                              *)

(* _resolve_and_create.                                                    *)
Accepts(w, c) ==
  /\ c.target # NoOne => ~Busy(w, c.target) /\ w.at[c.target] = w.at[c.actor]
  /\ c.event # 0 => w.record[c.actor][c.event] # None
  /\ c.anchored => AnchorFree(w, c.place)

Create(w, c) ==
  LET arrival == w.minute + (IF c.b = "walk" THEN TravelTime ELSE 0)
      x == [b |-> c.b, actor |-> c.actor, target |-> c.target, event |-> c.event,
            conv |-> c.conv, place |-> c.place, anchored |-> c.anchored,
            arrival |-> arrival, due |-> arrival + Duration[c.b]]
      place == IF c.b = "walk" THEN Traveling ELSE w.at[c.actor]
  IN  [w EXCEPT !.running = Append(@, x), !.at[c.actor] = place]

(* The choices were prepared from source; a choice that is turned down     *)
(* leaves its agent idle, one who is a target by then has none.  Whoever   *)
(* invites is served first.                                                *)
ServeOne(S, a, choices) ==
  UNION {IF Busy(s.world, a) THEN {s}
         ELSE {[world |-> IF Accepts(s.world, c) THEN Create(s.world, c)
                          ELSE Create(s.world, Draft(s.world, a, "idle", NoOne, 0, 0)),
                inviting |-> c.b = "invite_join"] :
                 c \in {d \in choices : d.b = "invite_join" => s.inviting}} :
           s \in S}
Served(source) ==
  LET due == {a \in Agent : source.at[a] # Traveling /\ ~Busy(source, a)}
      start == {[world |-> source, inviting |-> TRUE]}
  IN  UNION {{s.world : s \in FoldLeft(LAMBDA S, a : ServeOne(S, a, Candidates(source, a)),
                                       start, q)} :
               q \in SetToSeqs(due)}

-----------------------------------------------------------------------------
Init ==
  \E at \in [Agent -> Place] :
    t = [minute |-> 0, at |-> at, running |-> <<>>, events |-> <<>>,
         known |-> [a \in Agent |-> <<>>],
         record |-> [a \in Agent |-> [e \in 1 .. MaxEvents |-> None]],
         convs |-> <<>>, open |-> {},
         tension |-> [a \in Agent |-> [b \in Agent |-> StartTension]],
         last |-> [a \in Agent |-> [b \in Agent |-> Never]],
         cooldown |-> [a \in Agent |-> [b \in Social |-> [c \in Agent |-> 0]]]]

(* _advance_one_minute; a social action tells two events at most, and so   *)
(* does a missed shift.                                                    *)
Talking(w) == {i \in DOMAIN w.running : w.running[i].b \in Social}
Advance ==
  /\ t.minute < MaxMinute
  /\ \E absent \in Absences(t.minute + 1) :
       /\ Len(t.events) + 2 * Cardinality(Talking(t)) + 2 * Len(absent) <= MaxEvents
       /\ \E w \in {[t EXCEPT !.minute = @ + 1]} :
          \E yes \in Answers(w) : \E room \in Rooms(w, yes) :
          \E moved \in {Progressed(w, yes, room)} :
          \E closed \in {Finalized(moved, absent)} :
            t' \in Served(closed)

Next == Advance
Spec == Init /\ [][Next]_vars

-----------------------------------------------------------------------------
(* Properties.                                                             *)

(* Whatever an agent was told goes back to somebody who was there: who     *)
(* tells an event knew it no later, and the chain of tellers never turns   *)
(* in a circle ("finite direct, witnessed and told knowledge").            *)
RECURSIVE Origin(_, _, _)
Origin(a, e, steps) ==
  LET r == t.record[a][e]
  IN  IF r.how # "TOLD" THEN {a} \cap (Participants(t.events[e]) \cup t.events[e].witnesses)
      ELSE IF steps = 0 \/ t.record[r.source][e] = None \/ t.record[r.source][e].minute > r.minute
        THEN {}
      ELSE Origin(r.source, e, steps - 1)
RumourHasOrigin ==
  \A a \in Agent : \A e \in ToSet(t.known[a]) : Origin(a, e, Cardinality(Agent)) # {}

(* Two agents have one conversation open at most, whoever speaks first,    *)
(* and the public session ids are the open ones (invariants.py,            *)
(* _conversation_for_social).                                              *)
OneOpenConversation ==
  /\ t.open = {c \in DOMAIN t.convs : t.convs[c].active}
  /\ \A c, d \in t.open : t.convs[c].pair = t.convs[d].pair => c = d

(* A conversation that was ended stays ended: its end is told once, by one *)
(* of the two, and nothing is said in it afterwards.                       *)
NothingAfterEnd ==
  \A c \in DOMAIN t.convs :
    LET lines == t.convs[c].lines
        ends == {i \in DOMAIN lines : lines[i].b = "end_conversation"}
    IN  /\ ends \subseteq {Len(lines)} /\ t.convs[c].active = (ends = {})
        /\ Cardinality({e \in DOMAIN t.events :
             t.events[e].type = "CONVERSATION_ENDED" /\ t.events[e].conv = c})
           = Cardinality(ends)
        /\ \A i \in DOMAIN lines : lines[i].speaker \in t.convs[c].pair

(* Nobody says the same thing to the same agent again before the cooldown  *)
(* of the behavior is over, whichever conversation it is said in.          *)
Lines == UNION {{[c |-> c, i |-> i] : i \in DOMAIN t.convs[c].lines} : c \in DOMAIN t.convs}
Line(l) == t.convs[l.c].lines[l.i]
CooldownsHold ==
  \A l, m \in Lines :
    /\ t.convs[l.c].pair = t.convs[m.c].pair
    /\ Line(l).speaker = Line(m).speaker /\ Line(l).b = Line(m).b
    /\ Line(l).minute < Line(m).minute
    => Line(m).minute >= Line(l).minute + Cooldown[Line(l).b]

(* Nobody confronts the same agent twice about one offence: having spoken  *)
(* moves the edge the rule reads, so the event gives no cause against that  *)
(* agent again.  An offence of many, a missed shift, may still be taken up  *)
(* with each of them, and by each of them.                                  *)
OneConfrontationPerCause ==
  \A l, m \in Lines :
    /\ Line(l).b = "confront" /\ Line(m).b = "confront" /\ Line(l).event # 0
    /\ Line(l).event = Line(m).event /\ Line(l).speaker = Line(m).speaker
    /\ t.convs[l.c].pair = t.convs[m.c].pair
    => l = m

(* A conversation is one: opened once for two, ended once for both.        *)
ConversationsWhole == OneOpenConversation /\ NothingAfterEnd

(* Nobody repeats itself to another: neither within a cooldown nor about   *)
(* an offence it has already confronted it about.                          *)
NothingTwice == CooldownsHold /\ OneConfrontationPerCause
=============================================================================
