--------------------------- MODULE SocietyProofs ---------------------------
(***************************************************************************)
(* Theorems about Society for every town, every catalog and both runtime   *)
(* modes.  Good is what every context satisfies after every step of a      *)
(* minute; one lemma per method of the engine shows that it keeps it.      *)
(* Then what Society promises: money and food that is reserved is there,   *)
(* what is settled is exactly what was reserved, and headless there is     *)
(* room for whoever was accepted, so that no commit is ever refused.       *)
(***************************************************************************)
EXTENDS Society, Totals, FiniteSetTheorems, TLAPS

CandidateRecord ==
  [actor: Agent, behavior: Behavior, target: Agent \cup {None},
   activity: Behavior \cup {None}, dest: Location, objects: SUBSET Object]

(* Participants of an action stand at its destination once they arrived    *)
(* and are on the road until then; an agent with nothing to do is          *)
(* somewhere.                                                              *)
Placed(w) ==
  /\ \A a \in DOMAIN w.act, p \in Agent :
       p \in w.act[a].agents =>
         IF p \in w.act[a].arrived
           THEN w.loc[p] = w.act[a].dest
           ELSE w.loc[p] = Traveling /\ w.act[a].phase = "TRAVELING"
  /\ \A p \in Agent : w.cur[p] = 0 => w.loc[p] # Traveling
  /\ \A a \in DOMAIN w.act : /\ w.act[a].arrived \subseteq w.act[a].agents
                             /\ w.act[a].actor \in w.act[a].agents

(* The reservations of an action are exactly the ones it lists, its        *)
(* participants are reserved, and slots are occupied for their owner.      *)
Ledger(w) ==
  /\ \A r \in w.resv : /\ r.owner \in DOMAIN w.act
                       /\ r.agent # None => r.agent \in w.act[r.owner].agents
                       /\ r.kind = "PARTICIPANT" => r.agent # None
                       /\ r.kind = "OBJECT_SLOT" => <<r.object, r.slot>> \in SlotId
  /\ \A a \in DOMAIN w.act : /\ w.act[a].resv \subseteq w.resv
                             /\ \A r \in w.resv : r \in w.act[a].resv <=> r.owner = a
  /\ \A a \in DOMAIN w.act, p \in Agent :
       p \in w.act[a].agents =>
         \E r \in w.resv : r.kind = "PARTICIPANT" /\ r.agent = p /\ r.owner = a
  /\ SlotLedger(w)

(* A trip is over before its action ends, and the action's reservations    *)
(* outlive that end by the slack.                                          *)
Dated(w) ==
  /\ \A a \in DOMAIN w.act : /\ w.act[a].expected < w.act[a].end
                             /\ w.act[a].start < w.act[a].end
  /\ \A r \in w.resv : r.expires = w.act[r.owner].end + ExpirySlack

Good(w) ==
  ContextOK(w) /\ Ownership(w) /\ Membership(w) /\ Placed(w) /\ Ledger(w) /\ Dated(w)

-----------------------------------------------------------------------------
(* Operators.                                                              *)

(* Putting one key.                                                        *)
LEMMA PutFact ==
  ASSUME NEW f, NEW k, NEW v
  PROVE  /\ DOMAIN Put(f, k, v) = DOMAIN f \cup {k}
         /\ Put(f, k, v)[k] = v
         /\ \A x \in DOMAIN f : x # k => Put(f, k, v)[x] = f[x]
BY DEF Put

(* The later of two minutes.                                               *)
LEMMA LargestOfTwo ==
  ASSUME NEW x \in Nat, NEW y \in Nat
  PROVE  /\ Largest({x, y}) \in {x, y}
         /\ Largest({x, y}) >= x /\ Largest({x, y}) >= y
<1>1. \E z \in {x, y} : \A u \in {x, y} : u <= z
  <2>1. CASE x <= y
    BY <2>1
  <2>2. CASE y <= x
    BY <2>2
  <2>3. QED BY <2>1, <2>2
<1>2. QED BY <1>1 DEF Largest

(* A slot identifier is a pair of an object and one of its slots.          *)
LEMMA SlotIdFact ==
  ASSUME NEW k \in SlotId
  PROVE  k = <<k[1], k[2]>> /\ k[1] \in Object /\ k[2] \in 0 .. SlotCount[k[1]] - 1
BY DEF SlotId

(* The participants of a candidate: one or two agents.                     *)
LEMMA ParticipantsFact ==
  ASSUME NEW c \in CandidateRecord
  PROVE  /\ Participants(c) \subseteq Agent
         /\ c.actor \in Participants(c)
         /\ \E p \in Agent : Participants(c) = {c.actor, p}
         /\ IsFiniteSet(Participants(c))
<1>1. c.actor \in Agent /\ c.target \in Agent \cup {None}
  BY DEF CandidateRecord
<1>2. Participants(c) = {c.actor} \/ Participants(c) = {c.actor, c.target}
  BY <1>1 DEF Participants
<1>3. Participants(c) \subseteq Agent /\ c.actor \in Participants(c)
  BY <1>1 DEF Participants
<1>4. \E p \in Agent : Participants(c) = {c.actor, p}
  <2>1. CASE c.target = None
    BY <1>1, <2>1 DEF Participants
  <2>2. CASE c.target # None
    BY <1>1, <2>2 DEF Participants
  <2>3. QED BY <2>1, <2>2
<1>5. IsFiniteSet(Participants(c))
  <2>1. PICK p : Participants(c) = {c.actor, p}
    BY <1>4
  <2>2. IsFiniteSet({c.actor}) /\ IsFiniteSet({p})
    BY FS_Singleton
  <2>3. IsFiniteSet({c.actor} \cup {p})
    BY <2>2, FS_Union
  <2>4. {c.actor} \cup {p} = {c.actor, p}
    OBVIOUS
  <2>5. QED BY <2>1, <2>3, <2>4
<1>6. QED BY <1>3, <1>4, <1>5

(* What an action costs a household is a number.                           *)
LEMMA CostFact ==
  ASSUME NEW c \in CandidateRecord, NEW joint \in BOOLEAN, NEW h \in Household
  PROVE  MoneyCost(c, joint, h) \in Nat /\ FoodCost(c, h) \in Nat
<1>1. c.behavior \in Behavior /\ c.actor \in Agent
  BY DEF CandidateRecord
<1>2. Rule[c.behavior].money \in Nat /\ Rule[c.behavior].food \in Nat
  BY <1>1, SocietyConstants
<1>3. DEFINE S == {p \in Participants(c) : Member[p] = h /\ (p = c.actor \/ joint)}
<1>4. Cardinality(S) \in Nat
  BY ParticipantsFact, FS_Subset, FS_CardinalityType, S \subseteq Participants(c)
<1>5. Rule[c.behavior].money * Cardinality(S) \in Nat
  BY <1>2, <1>4
<1>6. QED BY <1>2, <1>5 DEF MoneyCost, FoodCost

-----------------------------------------------------------------------------
(* The methods of the engine keep Good.                                    *)

(* The trip of one action a goes on from w to v: the participants in S are *)
(* there now, some location reservations are given back, the phase may     *)
(* change.  Nothing else differs.                                          *)
Onward(w, v, a, S, back) ==
  /\ DOMAIN v = DOMAIN w
  /\ v.minute = w.minute /\ v.next = w.next /\ v.cur = w.cur /\ v.occupied = w.occupied
  /\ DOMAIN v.act = DOMAIN w.act
  /\ \A b \in DOMAIN w.act : b # a => v.act[b] = w.act[b]
  /\ v.act[a] \in ActionRecord
  /\ v.act[a].agents = w.act[a].agents /\ v.act[a].dest = w.act[a].dest
  /\ v.act[a].actor = w.act[a].actor /\ v.act[a].origin = w.act[a].origin
  /\ v.act[a].expected = w.act[a].expected /\ v.act[a].end = w.act[a].end
  /\ v.act[a].start = w.act[a].start
  /\ v.act[a].arrived = w.act[a].arrived \cup S
  /\ v.act[a].resv = w.act[a].resv \ back
  /\ v.resv = w.resv \ back
  /\ v.loc = [p \in Agent |-> IF p \in S /\ w.loc[p] = Traveling THEN w.act[a].dest
                                                                ELSE w.loc[p]]
  /\ v.occ = [l \in Location |-> IF l = w.act[a].dest
                                   THEN w.occ[l] \cup {p \in S : w.loc[p] = Traveling}
                                   ELSE w.occ[l]]

(* The other actions are as they were, and this one is still the same.     *)
SameTrip(w, v, a) ==
  /\ v.minute = w.minute
  /\ DOMAIN v.act = DOMAIN w.act
  /\ \A b \in DOMAIN w.act : b # a => v.act[b] = w.act[b]
  /\ v.act[a].agents = w.act[a].agents
  /\ v.act[a].expected = w.act[a].expected
  /\ v.act[a].start = w.act[a].start
  /\ v.act[a].end = w.act[a].end

(* A step of that kind keeps Good, if everybody is there or nobody has     *)
(* begun to wait for the start.                                            *)
LEMMA OnwardGood ==
  ASSUME NEW w, Good(w), NEW a \in DOMAIN w.act, NEW S, S \subseteq w.act[a].agents,
         NEW back, \A r \in back : r.kind = "LOCATION" /\ r.owner = a,
         NEW v, Onward(w, v, a, S, back),
         v.act[a].arrived = v.act[a].agents
           \/ (w.act[a].phase = "TRAVELING" /\ v.act[a].phase = "TRAVELING")
  PROVE  Good(v)
<1>1. /\ w.act[a].dest \in Location /\ w.act[a].agents \subseteq Agent
      /\ Traveling \notin Location /\ w.act[a].dest \in Traveled
  BY SocietyConstants DEF Good, ContextOK, ActionRecord, Traveled
<1>2. ContextOK(v)
  <2>1. /\ v.loc \in [Agent -> Traveled]
        /\ v.occ \in [Location -> SUBSET Agent]
    BY <1>1 DEF Onward, Good, ContextOK
  <2>2. /\ v.resv \subseteq ReservationRecord
        /\ DOMAIN v.act[a].origin = v.act[a].agents
    BY DEF Onward, Good, ContextOK
  <2>3. QED BY <2>1, <2>2 DEF Onward, Good, ContextOK
<1>3. Ownership(v)
  BY DEF Good, Ownership, Onward
<1>4. Membership(v)
  BY <1>1 DEF Good, ContextOK, Membership, Onward, Traveled
<1>5. Placed(v)
  <2>1. ASSUME NEW b \in DOMAIN v.act, NEW p \in Agent, p \in v.act[b].agents
        PROVE  IF p \in v.act[b].arrived
                 THEN v.loc[p] = v.act[b].dest
                 ELSE v.loc[p] = Traveling /\ v.act[b].phase = "TRAVELING"
    <3>1. CASE b = a
      BY <2>1, <3>1, <1>1 DEF Good, Placed, Onward
    <3>2. CASE b # a
      <4>1. p \notin S
        BY <2>1, <3>2 DEF Good, Ownership, Onward
      <4>2. v.act[b] = w.act[b] /\ v.loc[p] = w.loc[p]
        BY <2>1, <3>2, <4>1 DEF Onward
      <4>3. p \in w.act[b].agents /\ b \in DOMAIN w.act
        BY <2>1, <4>2 DEF Onward
      <4>4. QED BY <4>2, <4>3 DEF Good, Placed
    <3>3. QED BY <3>1, <3>2
  <2>2. \A p \in Agent : v.cur[p] = 0 => v.loc[p] # Traveling
    BY <1>1 DEF Good, Placed, Onward
  <2>3. \A b \in DOMAIN v.act : /\ v.act[b].arrived \subseteq v.act[b].agents
                                /\ v.act[b].actor \in v.act[b].agents
    BY DEF Good, Placed, Onward
  <2>4. QED BY <2>1, <2>2, <2>3 DEF Placed
<1>6. Ledger(v)
  <2>1. \A r \in v.resv : r \in w.resv
    BY DEF Onward
  <2>2. \A b \in DOMAIN v.act : /\ v.act[b].resv \subseteq v.resv
                                /\ \A r \in v.resv : r \in v.act[b].resv <=> r.owner = b
    BY DEF Good, Ledger, Onward
  <2>3. SlotLedger(v)
    BY DEF Good, Ledger, SlotLedger, Onward
  <2>4. \A b \in DOMAIN v.act : v.act[b].agents = w.act[b].agents
    BY DEF Onward
  <2>5. \A r \in v.resv : /\ r.owner \in DOMAIN v.act
                          /\ r.agent # None => r.agent \in v.act[r.owner].agents
                          /\ r.kind = "PARTICIPANT" => r.agent # None
                          /\ r.kind = "OBJECT_SLOT" => <<r.object, r.slot>> \in SlotId
    <3>1. \A r \in w.resv : /\ r.owner \in DOMAIN w.act
                            /\ r.agent # None => r.agent \in w.act[r.owner].agents
                            /\ r.kind = "PARTICIPANT" => r.agent # None
                            /\ r.kind = "OBJECT_SLOT" => <<r.object, r.slot>> \in SlotId
      BY DEF Good, Ledger
    <3>2. DOMAIN v.act = DOMAIN w.act
      BY DEF Onward
    <3> QED BY <2>1, <2>4, <3>1, <3>2
  <2>6. ASSUME NEW b \in DOMAIN v.act, NEW p \in Agent, p \in v.act[b].agents
        PROVE  \E r \in v.resv : r.kind = "PARTICIPANT" /\ r.agent = p /\ r.owner = b
    <3>1. PICK r \in w.resv : r.kind = "PARTICIPANT" /\ r.agent = p /\ r.owner = b
      BY <2>6, <2>4 DEF Good, Ledger, Onward
    <3>2. r \in v.resv
      BY <3>1 DEF Onward
    <3>3. QED BY <3>1, <3>2
  <2>7. \A b \in DOMAIN v.act, p \in Agent : p \in v.act[b].agents =>
          \E r \in v.resv : r.kind = "PARTICIPANT" /\ r.agent = p /\ r.owner = b
    BY <2>6
  <2>8. QED BY <2>2, <2>3, <2>5, <2>7 DEF Ledger
<1>7. Dated(v)
  <2>1. \A b \in DOMAIN w.act : /\ v.act[b].expected = w.act[b].expected
                                /\ v.act[b].start = w.act[b].start
                                /\ v.act[b].end = w.act[b].end
    BY DEF Onward
  <2>2. \A r \in v.resv : r \in w.resv /\ r.owner \in DOMAIN w.act
    BY DEF Onward, Good, Ledger
  <2>3. DOMAIN v.act = DOMAIN w.act
    BY DEF Onward
  <2>4. QED BY <2>1, <2>2, <2>3 DEF Good, Dated
<1>8. QED BY <1>2, <1>3, <1>4, <1>5, <1>6, <1>7 DEF Good

(* _start_performing, of an action whose participants are all there.       *)
LEMMA StartPerformingGood ==
  ASSUME NEW w, Good(w), NEW a \in DOMAIN w.act, w.act[a].arrived = w.act[a].agents
  PROVE  LET v == StartPerforming(w, a)
         IN  Good(v) /\ SameTrip(w, v, a) /\ v.act[a].phase = "PERFORMING"
<1>1. DEFINE v == StartPerforming(w, a)
<1>2. w.act[a] \in ActionRecord /\ w.minute \in Nat /\ DOMAIN w.act[a].origin = w.act[a].agents
  BY DEF Good, ContextOK
<1>3. v.act[a] = [w.act[a] EXCEPT !.phase = "PERFORMING", !.began = w.minute]
  BY DEF StartPerforming, Good, ContextOK
<1>4. v.act[a] \in ActionRecord
  BY <1>2, <1>3 DEF ActionRecord, ActivePhases
<1>5. /\ v.act[a].agents = w.act[a].agents /\ v.act[a].dest = w.act[a].dest
      /\ v.act[a].actor = w.act[a].actor /\ v.act[a].origin = w.act[a].origin
      /\ v.act[a].expected = w.act[a].expected /\ v.act[a].end = w.act[a].end
      /\ v.act[a].start = w.act[a].start
      /\ v.act[a].arrived = w.act[a].arrived /\ v.act[a].resv = w.act[a].resv
      /\ v.act[a].phase = "PERFORMING"
  BY <1>2, <1>3 DEF ActionRecord
<1>6. /\ DOMAIN v = DOMAIN w
      /\ v.minute = w.minute /\ v.next = w.next /\ v.cur = w.cur
      /\ v.occupied = w.occupied /\ v.resv = w.resv /\ v.loc = w.loc /\ v.occ = w.occ
      /\ DOMAIN v.act = DOMAIN w.act
      /\ \A b \in DOMAIN w.act : b # a => v.act[b] = w.act[b]
  BY DEF StartPerforming, Good, ContextOK
<1>7. w.loc \in [Agent -> Traveled] /\ w.occ \in [Location -> SUBSET Agent]
  BY DEF Good, ContextOK
<1>8. Onward(w, v, a, {}, {})
  BY <1>4, <1>5, <1>6, <1>7 DEF Onward
<1>9. Good(v)
  BY <1>5, <1>8, OnwardGood
<1>10. QED BY <1>5, <1>6, <1>9 DEF SameTrip

(* _arrive_participant, of participants of an action that is TRAVELING.    *)
LEMMA ArriveParticipantsGood ==
  ASSUME NEW w, Good(w), NEW a \in DOMAIN w.act, w.act[a].phase = "TRAVELING",
         NEW S, S \subseteq w.act[a].agents
  PROVE  LET v == ArriveParticipants(w, a, S)
         IN  /\ Good(v)
             /\ SameTrip(w, v, a)
             /\ v.act[a].arrived = w.act[a].arrived \cup S
             /\ v.act[a].phase = "TRAVELING"
<1>1. DEFINE v == ArriveParticipants(w, a, S)
             held == {r \in w.act[a].resv : r.kind = "LOCATION" /\ r.agent \in S}
<1>2. w.act[a] \in ActionRecord /\ DOMAIN w.act[a].origin = w.act[a].agents
  BY DEF Good, ContextOK
<1>3. v.act[a] = [w.act[a] EXCEPT !.resv = @ \ held, !.arrived = @ \cup S]
  BY DEF ArriveParticipants, Good, ContextOK
<1>4. S \subseteq Agent /\ w.act[a].dest \in Location /\ w.act[a].resv \ held \subseteq ReservationRecord
  BY <1>2 DEF ActionRecord
<1>5. /\ v.act[a].agents = w.act[a].agents /\ v.act[a].dest = w.act[a].dest
      /\ v.act[a].actor = w.act[a].actor /\ v.act[a].origin = w.act[a].origin
      /\ v.act[a].expected = w.act[a].expected /\ v.act[a].end = w.act[a].end
      /\ v.act[a].start = w.act[a].start
      /\ v.act[a].arrived = w.act[a].arrived \cup S
      /\ v.act[a].resv = w.act[a].resv \ held
      /\ v.act[a].phase = w.act[a].phase
  BY <1>2, <1>3 DEF ActionRecord
<1>6. v.act[a] \in ActionRecord
  BY <1>2, <1>3, <1>4 DEF ActionRecord
<1>7. /\ DOMAIN v = DOMAIN w
      /\ v.minute = w.minute /\ v.next = w.next /\ v.cur = w.cur
      /\ v.occupied = w.occupied /\ v.resv = w.resv \ held
      /\ DOMAIN v.act = DOMAIN w.act
      /\ \A b \in DOMAIN w.act : b # a => v.act[b] = w.act[b]
  BY DEF ArriveParticipants, Good, ContextOK
<1>8. w.loc \in [Agent -> Traveled] /\ w.occ \in [Location -> SUBSET Agent]
  BY DEF Good, ContextOK
<1>9. /\ v.loc = [p \in Agent |-> IF p \in S /\ w.loc[p] = Traveling THEN w.act[a].dest
                                                                  ELSE w.loc[p]]
      /\ v.occ = [l \in Location |-> IF l = w.act[a].dest
                                       THEN w.occ[l] \cup {p \in S : w.loc[p] = Traveling}
                                       ELSE w.occ[l]]
  BY <1>4, <1>8 DEF ArriveParticipants, Good, ContextOK
<1>10. Onward(w, v, a, S, held)
  BY <1>5, <1>6, <1>7, <1>9 DEF Onward
<1>11. \A r \in held : r.kind = "LOCATION" /\ r.owner = a
  BY DEF Good, Ledger
<1>12. Good(v)
  BY <1>5, <1>10, <1>11, OnwardGood
<1>13. QED BY <1>5, <1>7, <1>12 DEF SameTrip

(* An action that aligns is still an action, whatever it holds.            *)
LEMMA AlignedRecord ==
  ASSUME NEW x \in ActionRecord, NEW R \in SUBSET ReservationRecord
  PROVE  [x EXCEPT !.resv = R, !.phase = "ALIGNING"] \in ActionRecord
BY DEF ActionRecord, ActivePhases

(* _finish_arrival_barrier, once every participant has arrived.            *)
LEMMA FinishArrivalBarrierGood ==
  ASSUME NEW w, Good(w), NEW a \in DOMAIN w.act, w.act[a].arrived = w.act[a].agents
  PROVE  LET v == FinishArrivalBarrier(w, a)
         IN  Good(v) /\ SameTrip(w, v, a) /\ v.act[a].phase # "TRAVELING"
<1>1. DEFINE held == {r \in w.act[a].resv : r.kind = "LOCATION"}
             aligned == [w.act[a] EXCEPT !.resv = @ \ held, !.phase = "ALIGNING"]
             v == [w EXCEPT !.resv = @ \ held, !.act[a].resv = @ \ held,
                            !.act[a].phase = "ALIGNING"]
<1>2. /\ w.act[a] \in ActionRecord
      /\ w.loc \in [Agent -> Traveled] /\ w.occ \in [Location -> SUBSET Agent]
  BY DEF Good, ContextOK
<1>3. v.act[a] = aligned
  BY DEF Good, ContextOK
<1>4. /\ DOMAIN v = DOMAIN w
      /\ v.minute = w.minute /\ v.next = w.next /\ v.cur = w.cur
      /\ v.occupied = w.occupied /\ v.resv = w.resv \ held
      /\ v.loc = w.loc /\ v.occ = w.occ
      /\ DOMAIN v.act = DOMAIN w.act
      /\ \A b \in DOMAIN w.act : b # a => v.act[b] = w.act[b]
  BY DEF Good, ContextOK
<1>5. FinishArrivalBarrier(w, a) \in {v, StartPerforming(v, a)}
  BY DEF FinishArrivalBarrier
<1> HIDE DEF v
<1>6. aligned \in ActionRecord
  <2>1. w.act[a].resv \ held \subseteq ReservationRecord
    BY <1>2 DEF ActionRecord
  <2> QED BY <1>2, <2>1, AlignedRecord
<1>7. /\ aligned.agents = w.act[a].agents /\ aligned.dest = w.act[a].dest
      /\ aligned.actor = w.act[a].actor /\ aligned.origin = w.act[a].origin
      /\ aligned.expected = w.act[a].expected /\ aligned.end = w.act[a].end
      /\ aligned.start = w.act[a].start
      /\ aligned.arrived = w.act[a].arrived
      /\ aligned.resv = w.act[a].resv \ held
      /\ aligned.phase = "ALIGNING"
  BY <1>2 DEF ActionRecord
<1> HIDE DEF aligned
<1>8. Onward(w, v, a, {}, held)
  BY <1>2, <1>3, <1>4, <1>6, <1>7 DEF Onward
<1>9. \A r \in held : r.kind = "LOCATION" /\ r.owner = a
  BY DEF Good, Ledger
<1>10. Good(v)
  BY <1>3, <1>7, <1>8, <1>9, OnwardGood
<1>11. SameTrip(w, v, a) /\ v.act[a].phase = "ALIGNING"
  BY <1>3, <1>4, <1>7 DEF SameTrip
<1>12. DEFINE t == StartPerforming(v, a)
<1>13. Good(t) /\ SameTrip(v, t, a) /\ t.act[a].phase = "PERFORMING"
  BY <1>3, <1>4, <1>7, <1>10, StartPerformingGood
<1> HIDE DEF t
<1>14. SameTrip(w, t, a)
  BY <1>11, <1>13 DEF SameTrip
<1>15. QED BY <1>5, <1>10, <1>11, <1>13, <1>14 DEF t

(* Action a is gone from w to v: what it reserved is free, its agents have *)
(* nothing to do, and those in back are where they came from.              *)
Ended(w, v, a, back) ==
  /\ DOMAIN v = DOMAIN w
  /\ v.minute = w.minute /\ v.next = w.next
  /\ DOMAIN v.act = DOMAIN w.act \ {a}
  /\ \A b \in DOMAIN w.act \ {a} : v.act[b] = w.act[b]
  /\ v.resv = w.resv \ w.act[a].resv
  /\ v.occupied =
       [k \in SlotId |->
          IF \E r \in w.act[a].resv : r.kind = "OBJECT_SLOT" /\ k = <<r.object, r.slot>>
            THEN 0 ELSE w.occupied[k]]
  /\ v.cur = [p \in Agent |-> IF p \in w.act[a].agents THEN 0 ELSE w.cur[p]]
  /\ v.loc = [p \in Agent |-> IF p \in back THEN w.act[a].origin[p] ELSE w.loc[p]]
  /\ v.occ = [l \in Location |-> (w.occ[l] \ back)
                                   \cup {p \in back : w.act[a].origin[p] = l}]

(* An action that ends leaves what stays Good.                              *)
LEMMA EndedGood ==
  ASSUME NEW w, Good(w), NEW a \in DOMAIN w.act, NEW back, NEW v, Ended(w, v, a, back),
         \/ back = {p \in w.act[a].agents : w.loc[p] # w.act[a].origin[p]}
         \/ back = {} /\ w.act[a].arrived = w.act[a].agents
  PROVE  Good(v)
<1>1. /\ w.act[a].agents \subseteq Agent
      /\ \A p \in w.act[a].agents : w.act[a].origin[p] \in Location
      /\ w.act[a].dest \in Location
      /\ back \subseteq w.act[a].agents
  BY DEF Good, ContextOK, ActionRecord
<1>2. a \in Nat /\ a # 0 /\ \A p \in w.act[a].agents : w.cur[p] = a
  BY <1>1 DEF Good, ContextOK, Ownership
<1>3. \A b \in DOMAIN v.act : b # a /\ b \in DOMAIN w.act /\ v.act[b] = w.act[b]
  BY DEF Ended
<1>4. \A b \in DOMAIN v.act : w.act[b].agents \cap w.act[a].agents = {}
  BY <1>1, <1>2, <1>3 DEF Good, Ownership
<1>5. ContextOK(v)
  <2>1. v.loc \in [Agent -> Traveled] /\ v.occ \in [Location -> SUBSET Agent]
    BY <1>1 DEF Ended, Good, ContextOK, Traveled
  <2>2. v.cur \in [Agent -> Nat] /\ v.occupied \in [SlotId -> Nat]
    BY DEF Ended, Good, ContextOK
  <2>3. QED BY <1>3, <2>1, <2>2 DEF Ended, Good, ContextOK
<1>6. Ownership(v)
  <2>1. ASSUME NEW p \in Agent, v.cur[p] # 0
        PROVE  v.cur[p] \in DOMAIN v.act
    <3>1. p \notin w.act[a].agents /\ v.cur[p] = w.cur[p]
      BY <2>1 DEF Ended
    <3>2. w.cur[p] \in DOMAIN w.act /\ w.cur[p] # a
      BY <2>1, <3>1 DEF Good, Ownership
    <3>3. QED BY <3>1, <3>2 DEF Ended
  <2>2. ASSUME NEW p \in Agent, NEW b \in DOMAIN v.act
        PROVE  p \in v.act[b].agents <=> v.cur[p] = b
    <3>1. b # 0 /\ b \in DOMAIN w.act /\ b # a /\ v.act[b] = w.act[b]
      BY <1>3 DEF Good, ContextOK
    <3>2. CASE p \in w.act[a].agents
      BY <3>1, <3>2, <1>4 DEF Ended
    <3>3. CASE p \notin w.act[a].agents
      BY <3>1, <3>3 DEF Ended, Good, Ownership
    <3>4. QED BY <3>2, <3>3
  <2>3. QED BY <2>1, <2>2 DEF Ownership
<1>7. Membership(v)
  BY <1>1, SocietyConstants DEF Ended, Good, ContextOK, Membership, Traveled
<1>8. Placed(v)
  <2>1. ASSUME NEW b \in DOMAIN v.act, NEW p \in Agent, p \in v.act[b].agents
        PROVE  IF p \in v.act[b].arrived
                 THEN v.loc[p] = v.act[b].dest
                 ELSE v.loc[p] = Traveling /\ v.act[b].phase = "TRAVELING"
    <3>1. p \notin back /\ v.loc[p] = w.loc[p]
      BY <2>1, <1>1, <1>3, <1>4 DEF Ended
    <3>2. p \in w.act[b].agents /\ b \in DOMAIN w.act /\ v.act[b] = w.act[b]
      BY <2>1, <1>3
    <3>3. QED BY <3>1, <3>2 DEF Good, Placed
  <2>2. ASSUME NEW p \in Agent, v.cur[p] = 0
        PROVE  v.loc[p] # Traveling
    <3>1. CASE p \in w.act[a].agents
      BY <3>1, <1>1, SocietyConstants DEF Ended, Good, Placed
    <3>2. CASE p \notin w.act[a].agents
      BY <2>2, <3>2, <1>1 DEF Ended, Good, Placed
    <3>3. QED BY <3>1, <3>2
  <2>3. \A b \in DOMAIN v.act : /\ v.act[b].arrived \subseteq v.act[b].agents
                                /\ v.act[b].actor \in v.act[b].agents
    BY <1>3 DEF Good, Placed
  <2>4. QED BY <2>1, <2>2, <2>3 DEF Placed
<1>9. Ledger(v)
  <2>1. \A r \in v.resv : r \in w.resv /\ r.owner # a /\ r.owner \in DOMAIN v.act
    BY DEF Ended, Good, Ledger
  <2>2. \A r \in w.resv : r.owner # a => r \in v.resv
    BY DEF Ended, Good, Ledger
  <2>3. \A r \in v.resv : /\ r.owner \in DOMAIN v.act
                          /\ r.agent # None => r.agent \in v.act[r.owner].agents
                          /\ r.kind = "PARTICIPANT" => r.agent # None
                          /\ r.kind = "OBJECT_SLOT" => <<r.object, r.slot>> \in SlotId
    BY <2>1, <1>3 DEF Good, Ledger
  <2>4. \A b \in DOMAIN v.act : /\ v.act[b].resv \subseteq v.resv
                                /\ \A r \in v.resv : r \in v.act[b].resv <=> r.owner = b
    BY <2>1, <2>2, <1>3 DEF Good, Ledger
  <2>5. \A b \in DOMAIN v.act, p \in Agent : p \in v.act[b].agents =>
          \E r \in v.resv : r.kind = "PARTICIPANT" /\ r.agent = p /\ r.owner = b
    BY <2>2, <1>3 DEF Good, Ledger
  <2>6. ASSUME NEW k \in SlotId, v.occupied[k] # 0
        PROVE  \E r \in v.resv : /\ r.kind = "OBJECT_SLOT" /\ r.owner = v.occupied[k]
                                 /\ r.object = k[1] /\ r.slot = k[2]
    <3>1. v.occupied[k] = w.occupied[k]
      BY <2>6 DEF Ended
    <3>2. PICK r \in w.resv : /\ r.kind = "OBJECT_SLOT" /\ r.owner = w.occupied[k]
                              /\ r.object = k[1] /\ r.slot = k[2]
      BY <2>6, <3>1 DEF Good, Ledger, SlotLedger
    <3>3. k = <<r.object, r.slot>>
      BY <3>2, SlotIdFact
    <3>4. r \notin w.act[a].resv
      BY <2>6, <3>2, <3>3 DEF Ended
    <3>5. r \in v.resv
      BY <3>4 DEF Ended
    <3>6. QED BY <3>1, <3>2, <3>5
  <2>7. ASSUME NEW r \in v.resv, r.kind = "OBJECT_SLOT"
        PROVE  v.occupied[<<r.object, r.slot>>] = r.owner
    <3>1. DEFINE k == <<r.object, r.slot>>
    <3>2. k \in SlotId /\ w.occupied[k] = r.owner /\ r.owner # a
      BY <2>1, <2>7 DEF Good, Ledger, SlotLedger
    <3>3. ~ \E q \in w.act[a].resv : q.kind = "OBJECT_SLOT" /\ k = <<q.object, q.slot>>
      BY <3>2 DEF Good, Ledger, SlotLedger
    <3>4. QED BY <3>2, <3>3 DEF Ended
  <2>8. SlotLedger(v)
    BY <2>6, <2>7 DEF SlotLedger
  <2>9. QED BY <2>3, <2>4, <2>5, <2>8 DEF Ledger
<1>10. Dated(v)
  <2>1. \A r \in v.resv : r \in w.resv /\ r.owner \in DOMAIN v.act
    BY DEF Ended, Good, Ledger
  <2>2. QED BY <1>3, <2>1 DEF Good, Dated
<1>11. QED BY <1>5, <1>6, <1>7, <1>8, <1>9, <1>10 DEF Good

(* _terminate_action: an action that completed had all its agents there.   *)
LEMMA TerminateActionGood ==
  ASSUME NEW w, Good(w), NEW a \in DOMAIN w.act, NEW phase,
         phase = "COMPLETED" => w.act[a].arrived = w.act[a].agents
  PROVE  LET v == TerminateAction(w, a, phase)
         IN  /\ Good(v)
             /\ DOMAIN v.act = DOMAIN w.act \ {a}
             /\ v.minute = w.minute
             /\ \A b \in DOMAIN w.act \ {a} : v.act[b] = w.act[b]
             /\ \A p \in w.act[a].agents : v.cur[p] = 0
             /\ v.resv \subseteq w.resv
<1>1. DEFINE v == TerminateAction(w, a, phase)
             back == IF phase = "COMPLETED" THEN {}
                     ELSE {p \in w.act[a].agents : w.loc[p] # w.act[a].origin[p]}
             slots == {<<r.object, r.slot>> :
                         r \in {x \in w.act[a].resv : x.kind = "OBJECT_SLOT"}}
             u == ReleaseReservations(w, a)
<1>2. /\ w.loc \in [Agent -> Traveled] /\ w.occ \in [Location -> SUBSET Agent]
      /\ w.act[a].agents \subseteq Agent
      /\ \A p \in w.act[a].agents : w.cur[p] = a
  BY DEF Good, ContextOK, ActionRecord, Ownership
<1>3. /\ DOMAIN u = DOMAIN w
      /\ u.minute = w.minute /\ u.next = w.next /\ u.act = w.act /\ u.cur = w.cur
      /\ u.loc = w.loc /\ u.occ = w.occ
      /\ u.resv = w.resv \ w.act[a].resv
      /\ u.occupied = [k \in SlotId |-> IF k \in slots THEN 0 ELSE w.occupied[k]]
  BY DEF ReleaseReservations, Good, ContextOK
<1>4. /\ DOMAIN v = DOMAIN w
      /\ v.minute = w.minute /\ v.next = w.next
      /\ v.resv = u.resv /\ v.occupied = u.occupied
      /\ v.act = Drop(w.act, a)
      /\ v.cur = [p \in Agent |-> IF p \in w.act[a].agents /\ w.cur[p] = a THEN 0
                                                                      ELSE w.cur[p]]
      /\ v.loc = [p \in Agent |-> IF p \in back THEN w.act[a].origin[p] ELSE w.loc[p]]
      /\ v.occ = [l \in Location |-> (w.occ[l] \ back)
                                       \cup {p \in back : w.act[a].origin[p] = l}]
  <2>1. CASE phase = "COMPLETED"
    BY <1>2, <1>3, <2>1 DEF TerminateAction, Good, ContextOK
  <2>2. CASE phase # "COMPLETED"
    BY <1>2, <1>3, <2>2 DEF TerminateAction, ReturnToOrigin, Good, ContextOK
  <2>3. QED BY <2>1, <2>2
<1>5. Ended(w, v, a, back)
  <2>1. \A k : k \in slots <=>
          \E r \in w.act[a].resv : r.kind = "OBJECT_SLOT" /\ k = <<r.object, r.slot>>
    OBVIOUS
  <2>2. v.occupied =
          [k \in SlotId |->
             IF \E r \in w.act[a].resv : r.kind = "OBJECT_SLOT" /\ k = <<r.object, r.slot>>
               THEN 0 ELSE w.occupied[k]]
    BY <1>3, <1>4, <2>1
  <2>3. v.cur = [p \in Agent |-> IF p \in w.act[a].agents THEN 0 ELSE w.cur[p]]
    BY <1>2, <1>4
  <2>4. /\ DOMAIN v.act = DOMAIN w.act \ {a}
        /\ \A b \in DOMAIN w.act \ {a} : v.act[b] = w.act[b]
    <3>1. v.act = [x \in DOMAIN w.act \ {a} |-> w.act[x]]
      BY <1>4 DEF Drop
    <3> HIDE DEF v
    <3>2. QED BY <3>1
  <2>5. v.resv = w.resv \ w.act[a].resv
    BY <1>3, <1>4
  <2> HIDE DEF v, u, slots
  <2>6. QED BY <1>4, <2>2, <2>3, <2>4, <2>5 DEF Ended
<1>6. Good(v)
  BY <1>5, EndedGood
<1>7. QED BY <1>2, <1>4, <1>5, <1>6 DEF Ended


(* _commit_reserved_resources touches nothing but balances.                *)
LEMMA CommitReservedResourcesGood ==
  ASSUME NEW w, Good(w), NEW a
  PROVE  LET v == CommitReservedResources(w, a)
         IN  /\ Good(v)
             /\ v.minute = w.minute /\ v.next = w.next /\ v.act = w.act
             /\ v.resv = w.resv /\ v.loc = w.loc /\ v.cur = w.cur
<1>1. DEFINE v == CommitReservedResources(w, a)
<1>2. /\ DOMAIN v = DOMAIN w
      /\ v.minute = w.minute /\ v.next = w.next /\ v.act = w.act /\ v.resv = w.resv
      /\ v.loc = w.loc /\ v.occ = w.occ /\ v.cur = w.cur /\ v.occupied = w.occupied
  BY DEF CommitReservedResources, Good, ContextOK
<1> HIDE DEF v
<1>3. ContextOK(v)
  BY <1>2 DEF Good, ContextOK
<1>4. Ownership(v) /\ Membership(v)
  BY <1>2 DEF Good, Ownership, Membership
<1>5. Placed(v)
  BY <1>2 DEF Good, Placed
<1>6. Ledger(v)
  BY <1>2 DEF Good, Ledger, SlotLedger
<1>7. Dated(v)
  BY <1>2 DEF Good, Dated
<1>8. QED BY <1>2, <1>3, <1>4, <1>5, <1>6, <1>7 DEF Good, v

-----------------------------------------------------------------------------
(* Creating an action.                                                     *)

(* The reservations a new action gets.                                     *)
LEMMA ReservationsFact ==
  ASSUME NEW w, w.next \in Nat, NEW c \in CandidateRecord, NEW joint \in BOOLEAN,
         NEW expires \in Nat
  PROVE  LET R == Reservations(w, c, joint, expires)
         IN  /\ R \subseteq ReservationRecord
             /\ \A r \in R : /\ r.owner = w.next /\ r.expires = expires
                             /\ r.agent # None => r.agent \in Participants(c)
                             /\ r.kind = "PARTICIPANT" => r.agent # None
                             /\ r.kind = "OBJECT_SLOT" =>
                                  <<r.object, r.slot>> \in SlotClaims(w, c, joint)
             /\ \A p \in Participants(c) :
                  \E r \in R : r.kind = "PARTICIPANT" /\ r.agent = p
             /\ \A k \in SlotClaims(w, c, joint) :
                  \E r \in R : /\ r.kind = "OBJECT_SLOT"
                               /\ r.object = k[1] /\ r.slot = k[2]
<1>1. DEFINE R == Reservations(w, c, joint, expires)
             charged == {h \in Household : MoneyCost(c, joint, h) + FoodCost(c, h) > 0}
             slots == SlotClaims(w, c, joint)
             P == {Reservation(w.next, expires, "PARTICIPANT", p, None, 0, None, 0, 0, None) :
                     p \in Participants(c)}
             O == {Reservation(w.next, expires, "OBJECT_SLOT", c.actor, k[1], k[2], None, 0,
                               0, None) : k \in slots}
             H == {Reservation(w.next, expires, "HOUSEHOLD_RESOURCE", None, None, 0, h,
                               MoneyCost(c, joint, h), FoodCost(c, h), None) : h \in charged}
             L == {Reservation(w.next, expires, "LOCATION", p, None, 0, None, 0, 0, c.dest) :
                     p \in Travelers(w, c)}
<1>2. R = P \cup O \cup H \cup L
  BY DEF Reservations
<1>3. /\ Participants(c) \subseteq Agent /\ c.actor \in Participants(c)
      /\ Travelers(w, c) \subseteq Participants(c) /\ c.dest \in Location
      /\ None \notin Agent
  BY ParticipantsFact, SocietyConstants DEF Travelers, CandidateRecord
<1>4. slots \subseteq SlotId
  BY DEF SlotClaims
<1>5. \A k \in slots : k = <<k[1], k[2]>> /\ k[1] \in Object /\ k[2] \in Nat
  BY <1>4, SlotIdFact, SocietyConstants
<1>6. \A h \in charged : MoneyCost(c, joint, h) \in Nat /\ FoodCost(c, h) \in Nat
  BY CostFact
<1>7. \A r \in P : /\ r \in ReservationRecord /\ r.owner = w.next /\ r.expires = expires
                   /\ r.kind = "PARTICIPANT" /\ r.agent \in Participants(c)
  BY <1>3 DEF Reservation, ReservationRecord, Kinds
<1>8. \A r \in O : /\ r \in ReservationRecord /\ r.owner = w.next /\ r.expires = expires
                   /\ r.kind = "OBJECT_SLOT" /\ r.agent \in Participants(c)
                   /\ <<r.object, r.slot>> \in slots
  BY <1>3, <1>5 DEF Reservation, ReservationRecord, Kinds
<1>9. \A r \in H : /\ r \in ReservationRecord /\ r.owner = w.next /\ r.expires = expires
                   /\ r.kind = "HOUSEHOLD_RESOURCE" /\ r.agent = None
  BY <1>6 DEF Reservation, ReservationRecord, Kinds
<1>10. \A r \in L : /\ r \in ReservationRecord /\ r.owner = w.next /\ r.expires = expires
                    /\ r.kind = "LOCATION" /\ r.agent \in Participants(c)
  BY <1>3 DEF Reservation, ReservationRecord, Kinds
<1>11. ASSUME NEW p \in Participants(c)
       PROVE  \E r \in P : r.kind = "PARTICIPANT" /\ r.agent = p
  <2>1. PICK r \in P :
          r = Reservation(w.next, expires, "PARTICIPANT", p, None, 0, None, 0, 0, None)
    OBVIOUS
  <2>2. QED BY <2>1 DEF Reservation
<1>12. ASSUME NEW k \in slots
       PROVE  \E r \in O : r.kind = "OBJECT_SLOT" /\ r.object = k[1] /\ r.slot = k[2]
  <2>1. PICK r \in O : r = Reservation(w.next, expires, "OBJECT_SLOT", c.actor, k[1], k[2],
                                      None, 0, 0, None)
    OBVIOUS
  <2>2. QED BY <2>1 DEF Reservation
<1> HIDE DEF P, O, H, L, slots, R
<1>13. R \subseteq ReservationRecord
  BY <1>2, <1>7, <1>8, <1>9, <1>10
<1>14. \A r \in R : /\ r.owner = w.next /\ r.expires = expires
                    /\ r.agent # None => r.agent \in Participants(c)
                    /\ r.kind = "PARTICIPANT" => r.agent # None
                    /\ r.kind = "OBJECT_SLOT" => <<r.object, r.slot>> \in slots
  BY <1>2, <1>3, <1>7, <1>8, <1>9, <1>10
<1>15. QED BY <1>2, <1>11, <1>12, <1>13, <1>14 DEF R, slots


(* From w to v the agents in P, all free, get the new action: it reserves  *)
(* R and the slots in K, and those in away set out for its destination.    *)
Created(w, v, P, away, R, K) ==
  LET a == w.next IN
  /\ DOMAIN v = DOMAIN w
  /\ v.minute = w.minute /\ v.next = a + 1
  /\ DOMAIN v.act = DOMAIN w.act \cup {a}
  /\ \A b \in DOMAIN w.act : v.act[b] = w.act[b]
  /\ v.act[a] \in ActionRecord
  /\ v.act[a].agents = P /\ v.act[a].actor \in P /\ v.act[a].resv = R
  /\ DOMAIN v.act[a].origin = P
  /\ v.act[a].expected < v.act[a].end /\ v.act[a].start < v.act[a].end
  /\ \A r \in R : r.expires = v.act[a].end + ExpirySlack
  /\ v.act[a].arrived = P \ away
  /\ away # {} => v.act[a].phase = "TRAVELING"
  /\ \A p \in P \ away : w.loc[p] = v.act[a].dest
  /\ v.resv = w.resv \cup R
  /\ v.occupied = [k \in SlotId |-> IF k \in K THEN a ELSE w.occupied[k]]
  /\ v.cur = [p \in Agent |-> IF p \in P THEN a ELSE w.cur[p]]
  /\ v.loc = [p \in Agent |-> IF p \in away THEN Traveling ELSE w.loc[p]]
  /\ v.occ = [l \in Location |-> w.occ[l] \ away]

(* An action that is created of agents and slots that were free keeps Good. *)
LEMMA CreatedGood ==
  ASSUME NEW w, Good(w), NEW P, P \subseteq Agent, NEW away, away \subseteq P,
         \A p \in P : w.cur[p] = 0,
         NEW K, K \subseteq SlotId, \A k \in K : w.occupied[k] = 0,
         NEW R, R \subseteq ReservationRecord,
         \A r \in R : /\ r.owner = w.next
                      /\ r.agent # None => r.agent \in P
                      /\ r.kind = "PARTICIPANT" => r.agent # None
                      /\ r.kind = "OBJECT_SLOT" => <<r.object, r.slot>> \in K,
         \A p \in P : \E r \in R : r.kind = "PARTICIPANT" /\ r.agent = p,
         \A k \in K : \E r \in R : r.kind = "OBJECT_SLOT" /\ r.object = k[1] /\ r.slot = k[2],
         NEW v, Created(w, v, P, away, R, K)
  PROVE  Good(v)
<1>1. DEFINE a == w.next
<1>2. /\ a \in Nat /\ a # 0 /\ a \notin DOMAIN w.act
      /\ \A r \in w.resv : r.owner # a /\ r.owner \in DOMAIN w.act
      /\ \A p \in Agent : w.cur[p] # a
      /\ 0 \notin DOMAIN w.act
  <2>1. w.next \in Nat \ {0} /\ DOMAIN w.act \subseteq 1 .. w.next - 1
    BY DEF Good, ContextOK
  <2>2. a \in Nat /\ a # 0 /\ a \notin DOMAIN w.act /\ 0 \notin DOMAIN w.act
    BY <2>1
  <2>3. QED BY <2>2 DEF Good, Ledger, Ownership
<1>3. \A p \in P, b \in DOMAIN w.act : p \notin w.act[b].agents
  BY <1>2 DEF Good, Ownership
<1>4. ContextOK(v)
  <2>1. v.next \in Nat \ {0} /\ v.minute \in Nat /\ DOMAIN v.act \subseteq 1 .. v.next - 1
    BY <1>2 DEF Created, Good, ContextOK
  <2>2. \A b \in DOMAIN v.act : /\ v.act[b] \in ActionRecord
                                /\ DOMAIN v.act[b].origin = v.act[b].agents
    BY <1>2 DEF Created, Good, ContextOK
  <2>3. v.loc \in [Agent -> Traveled] /\ v.occ \in [Location -> SUBSET Agent]
    BY DEF Created, Good, ContextOK, Traveled
  <2>4. v.cur \in [Agent -> Nat] /\ v.occupied \in [SlotId -> Nat]
    BY <1>2 DEF Created, Good, ContextOK
  <2>5. v.resv \subseteq ReservationRecord
    BY DEF Created, Good, ContextOK
  <2>6. QED BY <2>1, <2>2, <2>3, <2>4, <2>5 DEF Created, Good, ContextOK
<1>5. Ownership(v)
  <2>1. \A p \in Agent : v.cur[p] # 0 => v.cur[p] \in DOMAIN v.act
    BY DEF Created, Good, Ownership
  <2>2. ASSUME NEW p \in Agent, NEW b \in DOMAIN v.act
        PROVE  p \in v.act[b].agents <=> v.cur[p] = b
    <3>1. CASE b = a
      BY <3>1, <1>2 DEF Created
    <3>2. CASE b # a
      <4>1. b \in DOMAIN w.act /\ v.act[b] = w.act[b] /\ b # 0
        BY <3>2, <1>2 DEF Created
      <4>2. CASE p \in P
        BY <3>2, <4>1, <4>2, <1>3 DEF Created
      <4>3. CASE p \notin P
        BY <4>1, <4>3 DEF Created, Good, Ownership
      <4>4. QED BY <4>2, <4>3
    <3>3. QED BY <3>1, <3>2
  <2>3. QED BY <2>1, <2>2 DEF Ownership
<1>6. Membership(v)
  BY SocietyConstants DEF Created, Good, ContextOK, Membership
<1>7. Placed(v)
  <2>1. ASSUME NEW b \in DOMAIN v.act, NEW p \in Agent, p \in v.act[b].agents
        PROVE  IF p \in v.act[b].arrived
                 THEN v.loc[p] = v.act[b].dest
                 ELSE v.loc[p] = Traveling /\ v.act[b].phase = "TRAVELING"
    <3>1. CASE b = a
      BY <2>1, <3>1 DEF Created
    <3>2. CASE b # a
      <4>1. b \in DOMAIN w.act /\ v.act[b] = w.act[b]
        BY <3>2 DEF Created
      <4>2. p \notin P /\ v.loc[p] = w.loc[p]
        BY <2>1, <4>1, <1>3 DEF Created
      <4>3. QED BY <2>1, <4>1, <4>2 DEF Good, Placed
    <3>3. QED BY <3>1, <3>2
  <2>2. \A p \in Agent : v.cur[p] = 0 => v.loc[p] # Traveling
    BY <1>2 DEF Created, Good, Placed
  <2>3. \A b \in DOMAIN v.act : /\ v.act[b].arrived \subseteq v.act[b].agents
                                /\ v.act[b].actor \in v.act[b].agents
    BY DEF Created, Good, Placed
  <2>4. QED BY <2>1, <2>2, <2>3 DEF Placed
<1>8. Ledger(v)
  <2>1. \A r \in v.resv : /\ r.owner \in DOMAIN v.act
                          /\ r.agent # None => r.agent \in v.act[r.owner].agents
                          /\ r.kind = "PARTICIPANT" => r.agent # None
                          /\ r.kind = "OBJECT_SLOT" => <<r.object, r.slot>> \in SlotId
    BY DEF Created, Good, Ledger
  <2>2. ASSUME NEW b \in DOMAIN v.act
        PROVE  /\ v.act[b].resv \subseteq v.resv
               /\ \A r \in v.resv : r \in v.act[b].resv <=> r.owner = b
    <3>1. CASE b = a
      BY <3>1, <1>2 DEF Created
    <3>2. CASE b # a
      <4>1. b \in DOMAIN w.act /\ v.act[b] = w.act[b]
        BY <3>2 DEF Created
      <4>2. w.act[b].resv \subseteq w.resv /\ \A r \in w.resv : r \in w.act[b].resv <=> r.owner = b
        BY <4>1 DEF Good, Ledger
      <4>3. \A r \in R : r.owner # b /\ r \notin w.resv
        BY <3>2, <1>2
      <4>4. QED BY <4>1, <4>2, <4>3 DEF Created
    <3>3. QED BY <3>1, <3>2
  <2>3. ASSUME NEW b \in DOMAIN v.act, NEW p \in Agent, p \in v.act[b].agents
        PROVE  \E r \in v.resv : r.kind = "PARTICIPANT" /\ r.agent = p /\ r.owner = b
    <3>1. CASE b = a
      <4>1. PICK r \in R : r.kind = "PARTICIPANT" /\ r.agent = p
        BY <2>3, <3>1 DEF Created
      <4>2. QED BY <3>1, <4>1 DEF Created
    <3>2. CASE b # a
      <4>1. b \in DOMAIN w.act /\ v.act[b] = w.act[b]
        BY <3>2 DEF Created
      <4>2. PICK r \in w.resv : r.kind = "PARTICIPANT" /\ r.agent = p /\ r.owner = b
        BY <2>3, <4>1 DEF Good, Ledger
      <4>3. QED BY <4>2 DEF Created
    <3>3. QED BY <3>1, <3>2
  <2>4. ASSUME NEW k \in SlotId, v.occupied[k] # 0
        PROVE  \E r \in v.resv : /\ r.kind = "OBJECT_SLOT" /\ r.owner = v.occupied[k]
                                 /\ r.object = k[1] /\ r.slot = k[2]
    <3>1. CASE k \in K
      <4>1. PICK r \in R : r.kind = "OBJECT_SLOT" /\ r.object = k[1] /\ r.slot = k[2]
        BY <3>1
      <4>2. v.occupied[k] = a /\ r \in v.resv /\ r.owner = a
        BY <3>1, <4>1 DEF Created
      <4>3. QED BY <4>1, <4>2
    <3>2. CASE k \notin K
      <4>1. v.occupied[k] = w.occupied[k]
        BY <3>2 DEF Created
      <4>2. PICK r \in w.resv : /\ r.kind = "OBJECT_SLOT" /\ r.owner = w.occupied[k]
                                /\ r.object = k[1] /\ r.slot = k[2]
        BY <2>4, <4>1 DEF Good, Ledger, SlotLedger
      <4>3. r \in v.resv
        BY DEF Created
      <4>4. QED BY <4>1, <4>2, <4>3
    <3>3. QED BY <3>1, <3>2
  <2>5. ASSUME NEW r \in v.resv, r.kind = "OBJECT_SLOT"
        PROVE  v.occupied[<<r.object, r.slot>>] = r.owner
    <3>1. CASE r \in R
      BY <3>1, <2>5 DEF Created
    <3>2. CASE r \notin R
      <4>1. r \in w.resv /\ <<r.object, r.slot>> \in SlotId
        BY <3>2, <2>1, <2>5 DEF Created
      <4>2. w.occupied[<<r.object, r.slot>>] = r.owner /\ r.owner # 0
        BY <4>1, <2>5, <1>2 DEF Good, Ledger, SlotLedger
      <4>3. QED BY <4>1, <4>2 DEF Created
    <3>3. QED BY <3>1, <3>2
  <2>6. SlotLedger(v)
    BY <2>4, <2>5 DEF SlotLedger
  <2>7. QED BY <2>1, <2>2, <2>3, <2>6 DEF Ledger
<1>9. Dated(v)
  <2>1. \A b \in DOMAIN v.act : /\ v.act[b].expected < v.act[b].end
                                /\ v.act[b].start < v.act[b].end
    BY DEF Created, Good, Dated
  <2>2. ASSUME NEW r \in w.resv
        PROVE  r.expires = v.act[r.owner].end + ExpirySlack
    <3>1. r.owner \in DOMAIN w.act /\ v.act[r.owner] = w.act[r.owner]
      BY <1>2 DEF Created
    <3>2. QED BY <3>1 DEF Good, Dated
  <2>3. ASSUME NEW r \in R
        PROVE  r.expires = v.act[r.owner].end + ExpirySlack
    <3>1. r.owner = w.next
      OBVIOUS
    <3>2. r.expires = v.act[w.next].end + ExpirySlack
      BY DEF Created
    <3>3. QED BY <3>1, <3>2
  <2>4. v.resv = w.resv \cup R
    BY DEF Created
  <2>5. QED BY <2>1, <2>2, <2>3, <2>4 DEF Dated
<1>10. QED BY <1>4, <1>5, <1>6, <1>7, <1>8, <1>9 DEF Good


(* What an agent may be offered is a candidate, as long as the agent is    *)
(* somewhere: its destination is a location.                               *)
LEMMA CandidatesFact ==
  ASSUME NEW w, ContextOK(w), NEW p \in Agent, w.loc[p] # Traveling,
         NEW c \in Candidates(w, p) \cup {IdleCandidate(w, p)}
  PROVE  c \in CandidateRecord /\ c.actor = p
<1>1. \A b \in Behavior : Destination(w, p, b) \in Location
  BY SocietyConstants DEF Destination, ContextOK, Traveled
<1>2. \A b \in Behavior, l \in Location : \A S \in Bundles(w, b, l) : S \subseteq Object
  BY DEF Bundles
<1>3. ASSUME NEW b \in Behavior, NEW t \in Agent \cup {None},
             NEW activity \in Behavior \cup {None}, NEW S \in SUBSET Object
      PROVE  /\ Candidate(w, p, b, t, activity, S) \in CandidateRecord
             /\ Candidate(w, p, b, t, activity, S).actor = p
  BY <1>1, <1>3 DEF Candidate, CandidateRecord
<1>4. CASE c = IdleCandidate(w, p)
  BY <1>3, <1>4, SocietyConstants DEF IdleCandidate
<1>5. CASE c \in Candidates(w, p)
  <2> DEFINE near == {t \in Agent \ {p} : w.loc[t] = w.loc[p] /\ w.cur[t] = 0}
  <2>1. PICK b \in Behavior :
          \E t \in IF Rule[b].social THEN near ELSE {None},
             activity \in IF Rule[b].invites = {} THEN {None} ELSE Rule[b].invites,
             S \in Bundles(w, b, Destination(w, p, b)) :
               c = Candidate(w, p, b, t, activity, S)
    BY <1>5 DEF Candidates
  <2>2. PICK t \in IF Rule[b].social THEN near ELSE {None},
             activity \in IF Rule[b].invites = {} THEN {None} ELSE Rule[b].invites,
             S \in Bundles(w, b, Destination(w, p, b)) :
               c = Candidate(w, p, b, t, activity, S)
    BY <2>1
  <2>3. t \in Agent \cup {None}
    OBVIOUS
  <2>4. activity \in Behavior \cup {None}
    BY SocietyConstants
  <2>5. S \in SUBSET Object
    BY <1>1, <1>2
  <2>6. QED BY <1>3, <2>2, <2>3, <2>4, <2>5
<1>6. QED BY <1>4, <1>5

(* From w to v there is one more action, with time left, for c's agents.   *)
Engages(w, v, c) ==
  /\ v.minute = w.minute
  /\ DOMAIN v.act = DOMAIN w.act \cup {w.next}
  /\ \A b \in DOMAIN w.act : v.act[b] = w.act[b]
  /\ IF v.act[w.next].phase = "TRAVELING" THEN v.act[w.next].expected > w.minute
                                         ELSE v.act[w.next].end > w.minute
  /\ v.cur = [p \in Agent |-> IF p \in Participants(c) THEN w.next ELSE w.cur[p]]

(* _create_action, of a candidate the Resolver accepted.                   *)
LEMMA CreateActionGood ==
  ASSUME NEW w, Good(w), NEW c \in CandidateRecord, NEW joint \in BOOLEAN,
         Accepts(w, c, joint), NEW v, v = CreateAction(w, c, joint)
  PROVE  Good(v) /\ Engages(w, v, c)
<1>1. DEFINE a == w.next
             P == Participants(c)
             away == Travelers(w, c)
             arrival == [p \in P |->
                           w.minute + IF p \in away THEN Travel[w.loc[p]][c.dest] ELSE 0]
             expected == Largest({arrival[p] : p \in P})
             start == Largest({expected, Rule[c.behavior].startsAt})
             end == start + Rule[c.behavior].duration
             phase == IF away # {} THEN "TRAVELING"
                      ELSE IF w.minute < start THEN "ALIGNING" ELSE "PERFORMING"
             R == Reservations(w, c, joint, end + ExpirySlack)
             K == SlotClaims(w, c, joint)
             origin == [p \in P |-> w.loc[p]]
             new == [phase |-> phase, behavior |-> c.behavior, actor |-> c.actor,
                     agents |-> P, target |-> c.target, activity |-> c.activity,
                     dest |-> c.dest, expected |-> expected, start |-> start, end |-> end,
                     began |-> w.minute, joint |-> joint, resv |-> R,
                     origin |-> origin, arrived |-> P \ away]
<1>2. /\ c.actor \in Agent /\ c.behavior \in Behavior /\ c.target \in Agent \cup {None}
      /\ c.activity \in Behavior \cup {None} /\ c.dest \in Location /\ None \notin Agent
  BY SocietyConstants DEF CandidateRecord
<1>3. P \subseteq Agent /\ c.actor \in P /\ away \subseteq P
  BY ParticipantsFact DEF Travelers
<1>4. \A p \in P : w.cur[p] = 0 /\ w.loc[p] \in Location
  <2>1. \A p \in P : w.cur[p] = 0
    BY <1>2 DEF Accepts, Participants
  <2>2. QED BY <1>3, <2>1 DEF Good, Placed, ContextOK, Traveled
<1>5. /\ w.minute \in Nat /\ a \in Nat \ {0} /\ DOMAIN w.act \subseteq 1 .. a - 1
      /\ w.occ \in [Location -> SUBSET Agent] /\ w.loc \in [Agent -> Traveled]
      /\ w.cur \in [Agent -> Nat] /\ w.occupied \in [SlotId -> Nat]
      /\ DOMAIN w = {"minute", "next", "act", "resv", "loc", "occ", "cur", "occupied",
                     "money", "food"}
  BY DEF Good, ContextOK
<1>6. \A p \in P : /\ arrival[p] \in Nat
                   /\ arrival[p] >= w.minute
                   /\ p \in away => arrival[p] > w.minute
  BY <1>2, <1>4, <1>5, SocietyConstants DEF Travelers
<1>7. expected \in Nat /\ expected >= w.minute /\ (away # {} => expected > w.minute)
  <2>1. PICK q \in Agent : P = {c.actor, q}
    BY ParticipantsFact
  <2>2. {arrival[p] : p \in P} = {arrival[c.actor], arrival[q]}
    BY <2>1
  <2>3. /\ expected \in {arrival[c.actor], arrival[q]}
        /\ expected >= arrival[c.actor] /\ expected >= arrival[q]
    BY <1>6, <2>1, <2>2, LargestOfTwo
  <2> HIDE DEF arrival, expected
  <2>4. \A p \in P : expected >= arrival[p]
    BY <2>1, <2>3
  <2>5. QED BY <1>3, <1>5, <1>6, <2>1, <2>3, <2>4
<1>8. /\ start \in Nat /\ start >= expected
      /\ end \in Nat /\ end > start /\ end > expected /\ end > w.minute
  <2>1. /\ Rule[c.behavior].startsAt \in Nat /\ Rule[c.behavior].duration \in Nat
        /\ Rule[c.behavior].duration > 0
    BY <1>2, SocietyConstants
  <2> HIDE DEF expected
  <2>2. start \in Nat /\ start >= expected
    BY <1>7, <2>1, LargestOfTwo
  <2> HIDE DEF start
  <2>3. QED BY <1>5, <1>7, <2>1, <2>2
<1> HIDE DEF expected, start, end
<1>9. end + ExpirySlack \in Nat
  BY <1>8, SocietyConstants
<1>10. /\ R \subseteq ReservationRecord
       /\ \A r \in R : /\ r.owner = a /\ r.expires = end + ExpirySlack
                       /\ r.agent # None => r.agent \in P
                       /\ r.kind = "PARTICIPANT" => r.agent # None
                       /\ r.kind = "OBJECT_SLOT" => <<r.object, r.slot>> \in K
       /\ \A p \in P : \E r \in R : r.kind = "PARTICIPANT" /\ r.agent = p
       /\ \A k \in K : \E r \in R : r.kind = "OBJECT_SLOT" /\ r.object = k[1] /\ r.slot = k[2]
  BY <1>5, <1>9, ReservationsFact
<1>11. K \subseteq SlotId /\ \A k \in K : w.occupied[k] = 0
  <2>1. \A k \in K : k \in SlotId /\ k[2] \in FreeSlots(w, k[1])
    BY DEF SlotClaims, FirstOf
  <2>2. \A k \in K : w.occupied[<<k[1], k[2]>>] = 0 /\ k = <<k[1], k[2]>>
    BY <2>1, SlotIdFact DEF FreeSlots
  <2>3. QED BY <2>1, <2>2
<1> HIDE DEF R, K
<1>12. origin \in UNION {[S -> Location] : S \in SUBSET Agent} /\ DOMAIN origin = P
  BY <1>3, <1>4
<1> HIDE DEF origin, P, away
<1>13. phase \in ActivePhases
  BY DEF ActivePhases
<1>14. new \in ActionRecord
  BY <1>2, <1>3, <1>5, <1>7, <1>8, <1>10, <1>12, <1>13 DEF ActionRecord
<1>15. /\ DOMAIN v = DOMAIN w
       /\ v.minute = w.minute /\ v.next = a + 1
       /\ v.act = Put(w.act, a, new)
       /\ v.resv = w.resv \cup R
       /\ v.occupied = [k \in SlotId |-> IF k \in K THEN a ELSE w.occupied[k]]
       /\ v.cur = [p \in Agent |-> IF p \in P THEN a ELSE w.cur[p]]
       /\ v.loc = [p \in Agent |-> IF p \in away THEN Traveling ELSE w.loc[p]]
       /\ v.occ = [l \in Location |-> w.occ[l] \ away]
  BY <1>5 DEF CreateAction, NextId, P, away, R, K, origin, expected, start, end
<1>16. a \notin DOMAIN w.act
  BY <1>5
<1>17. /\ DOMAIN v.act = DOMAIN w.act \cup {a}
       /\ v.act[a] = new
       /\ \A b \in DOMAIN w.act : v.act[b] = w.act[b]
  <2> HIDE DEF new
  <2>1. v.act = [x \in DOMAIN w.act \cup {a} |-> IF x = a THEN new ELSE w.act[x]]
    BY <1>15 DEF Put
  <2>2. QED BY <1>16, <2>1
<1>18. \A p \in P \ away : w.loc[p] = c.dest
  BY DEF P, away, Travelers
<1>19. Created(w, v, P, away, R, K)
  <2>1. /\ new.agents = P /\ new.actor = c.actor /\ new.resv = R /\ new.origin = origin
        /\ new.expected = expected /\ new.start = start /\ new.end = end /\ new.arrived = P \ away
        /\ new.dest = c.dest
        /\ away # {} => new.phase = "TRAVELING"
    OBVIOUS
  <2> HIDE DEF new
  <2>2. QED BY <1>3, <1>8, <1>10, <1>12, <1>14, <1>15, <1>17, <1>18, <2>1 DEF Created
<1>20. Good(v)
  BY <1>3, <1>4, <1>10, <1>11, <1>19, CreatedGood
<1>21. IF v.act[a].phase = "TRAVELING" THEN v.act[a].expected > w.minute
                                       ELSE v.act[a].end > w.minute
  BY <1>7, <1>8, <1>17
<1>22. QED BY <1>15, <1>17, <1>20, <1>21 DEF P, Engages


-----------------------------------------------------------------------------
(* Time.  A committed action is on time: a trip within its deadline, what  *)
(* follows before its end, or at most as late as its last participant.  In *)
(* a minute that has begun an action not yet looked at is a minute behind. *)
OnTime(w, a) ==
  LET act == w.act[a]
  IN  IF act.phase = "TRAVELING"
        THEN IF Live THEN w.minute <= act.expected + MovementTimeout
                     ELSE w.minute < act.expected
        ELSE w.minute < act.end \/ w.minute <= act.expected + MovementTimeout

Pending(w, a) ==
  LET act == w.act[a]
  IN  IF act.phase = "TRAVELING"
        THEN IF Live THEN w.minute <= act.expected + MovementTimeout + 1
                     ELSE w.minute <= act.expected
        ELSE w.minute <= act.end \/ w.minute <= act.expected + MovementTimeout + 1

(* From w to v action a went on, or ended, or was replaced; the actions    *)
(* that were there besides it are untouched and any new one is on time.    *)
Advanced(w, v, a) ==
  /\ v.minute = w.minute
  /\ \A b \in DOMAIN w.act \ {a} : b \in DOMAIN v.act /\ v.act[b] = w.act[b]
  /\ \A b \in DOMAIN v.act : b \in DOMAIN w.act \ {a} \/ OnTime(v, b)

(* The participants of an action that is no longer on the way are there.   *)
LEMMA AllArrived ==
  ASSUME NEW w, Good(w), NEW a \in DOMAIN w.act, w.act[a].phase # "TRAVELING"
  PROVE  w.act[a].arrived = w.act[a].agents
<1>1. w.act[a].agents \subseteq Agent
  BY DEF Good, ContextOK, ActionRecord
<1>2. QED BY <1>1 DEF Good, Placed

(* The minutes an action names are numbers.                                *)
LEMMA MinutesFact ==
  ASSUME NEW w, Good(w), NEW a \in DOMAIN w.act
  PROVE  /\ w.minute \in Nat /\ MovementTimeout \in Nat /\ ExpirySlack \in Nat
         /\ MovementTimeout <= ExpirySlack
         /\ w.act[a].expected \in Nat /\ w.act[a].start \in Nat /\ w.act[a].end \in Nat
         /\ w.act[a].expected < w.act[a].end /\ w.act[a].start < w.act[a].end
         /\ w.act[a].phase \in ActivePhases
BY SocietyConstants DEF Good, ContextOK, ActionRecord, Dated

(* A new action is on time.                                                *)
LEMMA CreateActionOnTime ==
  ASSUME NEW w, Good(w), NEW c \in CandidateRecord, NEW joint \in BOOLEAN,
         Accepts(w, c, joint), NEW v, v = CreateAction(w, c, joint)
  PROVE  OnTime(v, w.next)
<1>1. Good(v) /\ Engages(w, v, c)
  BY CreateActionGood
<1>2. w.next \in DOMAIN v.act
  BY <1>1 DEF Engages
<1>3. /\ v.minute \in Nat /\ MovementTimeout \in Nat
      /\ v.act[w.next].expected \in Nat /\ v.act[w.next].end \in Nat
  BY <1>1, <1>2, MinutesFact
<1>4. QED BY <1>1, <1>3 DEF OnTime, Engages

(* _resolve_action: settled, or replaced by the joint action.              *)
LEMMA ResolveActionGood ==
  ASSUME NEW w, Good(w), NEW a \in DOMAIN w.act, w.act[a].phase # "TRAVELING",
         NEW v \in ResolveAction(w, a)
  PROVE  Good(v) /\ Advanced(w, v, a)
<1>1. w.act[a].arrived = w.act[a].agents
  BY AllArrived
<1>2. DEFINE act == w.act[a]
             paid == CommitReservedResources(w, a)
             settled == TerminateAction(paid, a, "COMPLETED")
             freed == TerminateAction(w, a, "COMPLETED")
<1>3. Good(settled) /\ Advanced(w, settled, a)
  <2>1. Good(paid) /\ paid.minute = w.minute /\ paid.act = w.act
    BY CommitReservedResourcesGood
  <2> HIDE DEF paid
  <2>2. /\ Good(settled) /\ DOMAIN settled.act = DOMAIN w.act \ {a}
        /\ settled.minute = w.minute
        /\ \A b \in DOMAIN w.act \ {a} : settled.act[b] = w.act[b]
    BY <1>1, <2>1, TerminateActionGood
  <2> HIDE DEF settled
  <2>3. QED BY <2>2 DEF Advanced
<1>4. /\ Good(freed) /\ DOMAIN freed.act = DOMAIN w.act \ {a} /\ freed.minute = w.minute
      /\ \A b \in DOMAIN w.act \ {a} : freed.act[b] = w.act[b]
      /\ \A p \in act.agents : freed.cur[p] = 0
  BY <1>1, TerminateActionGood
<1>5. CASE v = settled \/ v = freed
  <2> HIDE DEF settled, freed
  <2>1. Advanced(w, freed, a)
    BY <1>4 DEF Advanced
  <2>2. QED BY <1>3, <1>4, <1>5, <2>1
<1>6. CASE v # settled /\ v # freed
  <2>1. act.activity # None
    BY <1>6 DEF ResolveAction
  <2>2. PICK c : /\ \E S \in Bundles(freed, act.activity,
                                     Destination(freed, act.actor, act.activity)) :
                      c = InvitedCandidate(freed, act, S)
                 /\ Accepts(freed, c, TRUE)
                 /\ v = CreateAction(freed, c, TRUE)
    BY <1>6, <2>1 DEF ResolveAction
  <2>3. /\ act.actor \in Agent /\ act.activity \in Behavior
        /\ act.target \in Agent \cup {None} /\ act.actor \in act.agents
    BY <2>1 DEF Good, ContextOK, ActionRecord, Placed
  <2> HIDE DEF freed, settled, act
  <2>4. freed.loc[act.actor] # Traveling /\ freed.loc \in [Agent -> Traveled]
    BY <1>4, <2>3 DEF Good, Placed, ContextOK
  <2>5. Destination(freed, act.actor, act.activity) \in Location
    BY <2>3, <2>4, SocietyConstants DEF Destination, Traveled
  <2>6. c \in CandidateRecord
    <3>1. PICK S \in Bundles(freed, act.activity,
                             Destination(freed, act.actor, act.activity)) :
                 c = InvitedCandidate(freed, act, S)
      BY <2>2
    <3>2. S \subseteq Object
      BY DEF Bundles
    <3>3. QED BY <2>3, <2>5, <3>1, <3>2 DEF InvitedCandidate, Candidate, CandidateRecord
  <2>7. Good(v) /\ Engages(freed, v, c)
    BY <1>4, <2>2, <2>6, CreateActionGood
  <2>8. OnTime(v, freed.next)
    BY <1>4, <2>2, <2>6, CreateActionOnTime
  <2>9. QED BY <1>4, <2>7, <2>8 DEF Advanced, Engages
<1>7. QED BY <1>5, <1>6

(* One action of _progress_actions.                                        *)
LEMMA ProgressGood ==
  ASSUME NEW w, Good(w), NEW a \in DOMAIN w.act, Pending(w, a), NEW v \in Progress(w, a)
  PROVE  Good(v) /\ Advanced(w, v, a)
<1>1. DEFINE act == w.act[a]
             there == FinishArrivalBarrier(ArriveParticipants(w, a, act.agents), a)
             arrived == IF act.phase = "TRAVELING" /\ ~Live /\ w.minute >= act.expected
                        THEN there ELSE w
             started == IF arrived.act[a].phase = "ALIGNING" /\ w.minute >= act.start
                        THEN StartPerforming(arrived, a) ELSE arrived
<1>2. CASE act.phase = "TRAVELING" /\ Live /\ TimedOut(w, a)
  <2>1. v = TerminateAction(w, a, "FAILED")
    BY <1>2 DEF Progress
  <2>2. /\ Good(v) /\ DOMAIN v.act = DOMAIN w.act \ {a} /\ v.minute = w.minute
        /\ \A b \in DOMAIN w.act \ {a} : v.act[b] = w.act[b]
    BY <2>1, TerminateActionGood
  <2>3. QED BY <2>2 DEF Advanced
<1>3. CASE ~(act.phase = "TRAVELING" /\ Live /\ TimedOut(w, a))
  <2>1. /\ Good(arrived) /\ SameTrip(w, arrived, a)
        /\ arrived.act[a].phase = "TRAVELING" =>
             arrived = w /\ ~(~Live /\ w.minute >= act.expected)
    <3>1. CASE act.phase = "TRAVELING" /\ ~Live /\ w.minute >= act.expected
      <4>1. DEFINE u == ArriveParticipants(w, a, act.agents)
      <4>2. Good(u) /\ SameTrip(w, u, a) /\ u.act[a].arrived = act.arrived \cup act.agents
        BY <3>1, ArriveParticipantsGood
      <4> HIDE DEF u
      <4>3. u.act[a].arrived = u.act[a].agents /\ a \in DOMAIN u.act
        BY <4>2 DEF SameTrip, Good, Placed
      <4>4. /\ Good(FinishArrivalBarrier(u, a)) /\ SameTrip(u, FinishArrivalBarrier(u, a), a)
            /\ FinishArrivalBarrier(u, a).act[a].phase # "TRAVELING"
        BY <4>2, <4>3, FinishArrivalBarrierGood
      <4>5. arrived = FinishArrivalBarrier(u, a)
        BY <3>1 DEF u
      <4>6. SameTrip(w, FinishArrivalBarrier(u, a), a)
        BY <4>2, <4>4 DEF SameTrip
      <4>7. QED BY <4>4, <4>5, <4>6
    <3>2. CASE ~(act.phase = "TRAVELING" /\ ~Live /\ w.minute >= act.expected)
      <4>1. arrived = w
        BY <3>2
      <4>2. QED BY <3>2, <4>1 DEF SameTrip
    <3>3. QED BY <3>1, <3>2
  <2>2. v \in IF started.act[a].phase = "PERFORMING" /\ w.minute >= act.end
              THEN ResolveAction(started, a) ELSE {started}
    BY <1>3 DEF Progress
  <2> HIDE DEF arrived, there
  <2>3. /\ Good(started) /\ SameTrip(w, started, a)
        /\ started.act[a].phase = "TRAVELING" => arrived.act[a].phase = "TRAVELING"
        /\ started.act[a].phase = "ALIGNING" => w.minute < act.start
    <3>1. a \in DOMAIN arrived.act
      BY <2>1 DEF SameTrip
    <3>2. CASE arrived.act[a].phase = "ALIGNING" /\ w.minute >= act.start
      <4>1. started = StartPerforming(arrived, a)
        BY <3>2
      <4> HIDE DEF started
      <4>2. /\ Good(started) /\ SameTrip(arrived, started, a)
            /\ started.act[a].phase = "PERFORMING"
        BY <2>1, <3>1, <3>2, <4>1, AllArrived, StartPerformingGood
      <4>3. SameTrip(w, started, a)
        BY <2>1, <4>2 DEF SameTrip
      <4>4. QED BY <4>2, <4>3
    <3>3. CASE ~(arrived.act[a].phase = "ALIGNING" /\ w.minute >= act.start)
      <4>1. w.minute \in Nat /\ act.start \in Nat
        BY MinutesFact
      <4>2. QED BY <2>1, <3>3, <4>1
    <3>4. QED BY <3>2, <3>3
  <2> HIDE DEF started
  <2>4. CASE started.act[a].phase = "PERFORMING" /\ w.minute >= act.end
    <3>1. v \in ResolveAction(started, a) /\ a \in DOMAIN started.act
      BY <2>2, <2>3, <2>4 DEF SameTrip
    <3>2. Good(v) /\ Advanced(started, v, a)
      BY <2>3, <2>4, <3>1, ResolveActionGood
    <3>3. QED BY <2>3, <3>2 DEF Advanced, SameTrip
  <2>5. CASE ~(started.act[a].phase = "PERFORMING" /\ w.minute >= act.end)
    <3>1. v = started /\ a \in DOMAIN started.act
      BY <2>2, <2>3, <2>5 DEF SameTrip
    <3>2. /\ started.minute = w.minute /\ started.act[a].expected = act.expected
          /\ started.act[a].start = act.start /\ started.act[a].end = act.end
      BY <2>3 DEF SameTrip
    <3>3. OnTime(started, a)
      <4>1. CASE started.act[a].phase = "TRAVELING"
        <5>1. arrived = w /\ ~(~Live /\ w.minute >= act.expected)
              /\ act.phase = "TRAVELING"
          BY <2>1, <2>3, <4>1
        <5>2. QED BY <1>3, <3>2, <4>1, <5>1, MinutesFact DEF OnTime, TimedOut
      <4>2. CASE started.act[a].phase = "ALIGNING"
        BY <2>3, <3>2, <4>2, MinutesFact DEF OnTime
      <4>3. CASE started.act[a].phase = "PERFORMING"
        BY <2>5, <3>2, <4>3, MinutesFact DEF OnTime
      <4>4. QED BY <2>3, <3>1, <4>1, <4>2, <4>3, MinutesFact DEF ActivePhases
    <3>4. QED BY <2>3, <3>1, <3>3 DEF Advanced, SameTrip
  <2>6. QED BY <2>4, <2>5
<1>4. QED BY <1>2, <1>3


-----------------------------------------------------------------------------
(* The inductive invariant: between two minutes the context is the         *)
(* checkpoint; in a minute the actions are brought up to date one by one,  *)
(* then every agent left without one is still to decide, on candidates     *)
(* enumerated while it was somewhere.                                      *)
IInv ==
  /\ Good(auth) /\ \A a \in DOMAIN auth.act : OnTime(auth, a)
  /\ Good(ctx) /\ ContextOK(source)
  /\ stage \in {"idle", "progress", "decide"} /\ fault \in Faults
  /\ stage = "idle" => ctx = auth /\ todo = {}
  /\ stage # "idle" => ctx.minute = auth.minute + 1
  /\ stage = "progress" =>
       /\ todo \subseteq DOMAIN ctx.act
       /\ \A a \in DOMAIN ctx.act : IF a \in todo THEN Pending(ctx, a) ELSE OnTime(ctx, a)
  /\ stage = "decide" =>
       /\ todo \subseteq Agent
       /\ \A p \in todo : source.loc[p] # Traveling
       /\ \A p \in Agent : ctx.cur[p] = 0 => p \in todo
       /\ \A a \in DOMAIN ctx.act : OnTime(ctx, a)

(* The checkpoint a run starts from.                                       *)
LEMMA InitInv == Init => IInv
<1>1. DEFINE w == InitialContext
<1>2. /\ DOMAIN w = {"minute", "next", "act", "resv", "loc", "occ", "cur", "occupied",
                     "money", "food"}
      /\ w.minute = 0 /\ w.next = 1 /\ DOMAIN w.act = {} /\ w.resv = {}
      /\ w.loc = InitialLocation
      /\ w.occ = [l \in Location |-> {p \in Agent : InitialLocation[p] = l}]
      /\ w.cur = [p \in Agent |-> 0] /\ w.occupied = [k \in SlotId |-> 0]
  BY DEF InitialContext
<1> HIDE DEF w
<1>3. ContextOK(w)
  BY <1>2, SocietyConstants DEF ContextOK, Traveled
<1>4. Ownership(w) /\ Membership(w)
  BY <1>2, SocietyConstants DEF Ownership, Membership
<1>5. Placed(w)
  BY <1>2, SocietyConstants DEF Placed
<1>6. Ledger(w) /\ Dated(w)
  BY <1>2 DEF Ledger, SlotLedger, Dated
<1>7. Good(w)
  BY <1>3, <1>4, <1>5, <1>6 DEF Good
<1>8. QED BY <1>2, <1>3, <1>7 DEF Init, IInv, Faults, w

(* _commit, whether it installs the candidate state or raises.             *)
LEMMA InstallInv ==
  ASSUME IInv, NEW v, Good(v), \A a \in DOMAIN v.act : OnTime(v, a), Install(v)
  PROVE  IInv'
<1>1. CASE AuthorityInvariants(v)
  <2>1. auth' = v /\ ctx' = v /\ source' = v /\ stage' = "idle" /\ todo' = {} /\ fault' = "none"
    BY <1>1 DEF Install
  <2>2. ContextOK(v)
    BY DEF Good
  <2>3. QED BY <2>1, <2>2 DEF IInv, Faults
<1>2. CASE ~AuthorityInvariants(v)
  <2>1. /\ auth' = auth /\ ctx' = auth /\ source' = auth /\ stage' = "idle" /\ todo' = {}
        /\ fault' \in Faults
    BY <1>2 DEF Install, Faults
  <2>2. ContextOK(auth)
    BY DEF IInv, Good
  <2>3. QED BY <2>1, <2>2 DEF IInv
<1>3. QED BY <1>1, <1>2

(* A minute later nothing has happened yet.                                *)
LEMMA BeginTickInv ==
  ASSUME IInv, BeginTick
  PROVE  IInv'
<1>1. DEFINE v == [auth EXCEPT !.minute = @ + 1]
<1>2. /\ ctx' = v /\ stage = "idle" /\ stage' = "progress" /\ todo' = DOMAIN auth.act
      /\ auth' = auth /\ source' = source /\ fault' = fault
  BY DEF BeginTick
<1>3. Good(auth) /\ auth.minute \in Nat
  BY DEF IInv, Good, ContextOK
<1>4. /\ DOMAIN v = DOMAIN auth /\ v.minute = auth.minute + 1 /\ v.next = auth.next
      /\ v.act = auth.act /\ v.resv = auth.resv /\ v.loc = auth.loc /\ v.occ = auth.occ
      /\ v.cur = auth.cur /\ v.occupied = auth.occupied
  BY DEF IInv, Good, ContextOK
<1> HIDE DEF v
<1>5. ContextOK(v)
  BY <1>3, <1>4 DEF Good, ContextOK
<1>6. Ownership(v) /\ Membership(v) /\ Dated(v)
  BY <1>3, <1>4 DEF Good, Ownership, Membership, Dated
<1>7. Placed(v)
  BY <1>3, <1>4 DEF Good, Placed
<1>8. Ledger(v)
  BY <1>3, <1>4 DEF Good, Ledger, SlotLedger
<1>9. Good(v)
  BY <1>5, <1>6, <1>7, <1>8 DEF Good
<1>10. ASSUME NEW a \in DOMAIN v.act
       PROVE  Pending(v, a)
  <2>1. a \in DOMAIN auth.act /\ OnTime(auth, a) /\ v.act[a] = auth.act[a]
    BY <1>4 DEF IInv
  <2>2. QED BY <1>3, <1>4, <2>1, MinutesFact DEF OnTime, Pending
<1>11. QED BY <1>2, <1>4, <1>9, <1>10 DEF IInv

(* One action of _progress_actions.                                        *)
LEMMA ProgressActionInv ==
  ASSUME IInv, ProgressAction
  PROVE  IInv'
<1>1. PICK a \in todo : ctx' \in Progress(ctx, a) /\ todo' = todo \ {a}
  BY DEF ProgressAction
<1>2. stage = "progress" /\ stage' = "progress" /\ UNCHANGED <<auth, source, fault>>
  BY DEF ProgressAction
<1>3. /\ Good(ctx) /\ a \in DOMAIN ctx.act /\ Pending(ctx, a) /\ todo \subseteq DOMAIN ctx.act
      /\ \A b \in DOMAIN ctx.act : IF b \in todo THEN Pending(ctx, b) ELSE OnTime(ctx, b)
  BY <1>1, <1>2 DEF IInv
<1>4. Good(ctx') /\ Advanced(ctx, ctx', a)
  BY <1>1, <1>3, ProgressGood
<1>5. todo' \subseteq DOMAIN ctx'.act
  BY <1>1, <1>3, <1>4 DEF Advanced
<1>6. ASSUME NEW b \in DOMAIN ctx'.act
      PROVE  IF b \in todo' THEN Pending(ctx', b) ELSE OnTime(ctx', b)
  <2>1. CASE b \in DOMAIN ctx.act \ {a}
    <3>1. ctx'.act[b] = ctx.act[b] /\ ctx'.minute = ctx.minute
      BY <1>4, <2>1 DEF Advanced
    <3>2. b \in todo' <=> b \in todo
      BY <1>1, <2>1
    <3>3. QED BY <1>3, <2>1, <3>1, <3>2 DEF Pending, OnTime
  <2>2. CASE b \notin DOMAIN ctx.act \ {a}
    <3>1. OnTime(ctx', b)
      BY <1>4, <2>2 DEF Advanced
    <3>2. b \notin todo'
      BY <1>1, <1>3, <2>2
    <3>3. QED BY <3>1, <3>2
  <2>3. QED BY <2>1, <2>2
<1>7. ctx'.minute = auth'.minute + 1
  BY <1>2, <1>4 DEF IInv, Advanced
<1>8. QED BY <1>2, <1>4, <1>5, <1>6, <1>7 DEF IInv

(* Whoever has nothing to do when the decisions begin is asked.            *)
LEMMA BeginDecisionsInv ==
  ASSUME IInv, BeginDecisions
  PROVE  IInv'
<1>1. /\ stage = "progress" /\ todo = {} /\ stage' = "decide" /\ todo' = Undecided(ctx)
      /\ source' = ctx /\ auth' = auth /\ ctx' = ctx /\ fault' = fault
  BY DEF BeginDecisions
<1>2. Good(ctx) /\ ContextOK(ctx) /\ \A a \in DOMAIN ctx.act : OnTime(ctx, a)
  BY <1>1 DEF IInv, Good
<1>3. \A p \in Agent : ctx.cur[p] = 0 => p \in Undecided(ctx)
  BY <1>2 DEF Good, Placed, Undecided
<1>4. Undecided(ctx) \subseteq Agent /\ \A p \in Undecided(ctx) : ctx.loc[p] # Traveling
  BY DEF Undecided
<1>5. ctx.minute = auth.minute + 1
  BY <1>1 DEF IInv
<1>6. QED BY <1>1, <1>2, <1>3, <1>4, <1>5 DEF IInv

(* An agent that was taken in the meantime decides nothing.                *)
LEMMA SkipCommittedInv ==
  ASSUME IInv, NEW p \in Agent, SkipCommitted(p)
  PROVE  IInv'
BY DEF IInv, SkipCommitted

(* A decision, whether it is accepted, falls back to idle or raises.       *)
LEMMA DecideAgentInv ==
  ASSUME IInv, NEW p \in Agent, DecideAgent(p)
  PROVE  IInv'
<1>1. stage = "decide" /\ p \in todo /\ auth' = auth
  BY DEF DecideAgent
<1>2. /\ Good(auth) /\ \A a \in DOMAIN auth.act : OnTime(auth, a)
      /\ Good(ctx) /\ ContextOK(source) /\ source.loc[p] # Traveling
      /\ fault \in Faults /\ ctx.minute = auth.minute + 1
      /\ todo \subseteq Agent /\ \A q \in todo : source.loc[q] # Traveling
      /\ \A q \in Agent : ctx.cur[q] = 0 => q \in todo
      /\ \A a \in DOMAIN ctx.act : OnTime(ctx, a)
  BY <1>1 DEF IInv
<1>3. PICK c \in Candidates(source, p) \cup {IdleCandidate(source, p)} :
        LET chosen == IF Accepts(ctx, c, FALSE) THEN c ELSE IdleCandidate(source, p)
        IN  IF Accepts(ctx, chosen, FALSE)
              THEN /\ ctx' = CreateAction(ctx, chosen, FALSE)
                   /\ todo' = todo \ {p}
                   /\ UNCHANGED <<stage, source, fault>>
              ELSE /\ ctx' = auth /\ source' = auth
                   /\ todo' = {}
                   /\ stage' = "idle"
                   /\ fault' = "idle_rejected"
  BY DEF DecideAgent
<1>4. DEFINE chosen == IF Accepts(ctx, c, FALSE) THEN c ELSE IdleCandidate(source, p)
<1>5. chosen \in CandidateRecord /\ chosen.actor = p
  BY <1>2, CandidatesFact
<1>6. CASE Accepts(ctx, chosen, FALSE)
  <2>1. /\ ctx' = CreateAction(ctx, chosen, FALSE) /\ todo' = todo \ {p}
        /\ stage' = "decide" /\ source' = source /\ fault' = fault
    BY <1>1, <1>3, <1>6
  <2> HIDE DEF chosen
  <2>2. Good(ctx') /\ Engages(ctx, ctx', chosen) /\ OnTime(ctx', ctx.next)
    BY <1>2, <1>5, <1>6, <2>1, CreateActionGood, CreateActionOnTime
  <2>3. ASSUME NEW a \in DOMAIN ctx'.act
        PROVE  OnTime(ctx', a)
    <3>1. CASE a \in DOMAIN ctx.act
      <4>1. ctx'.act[a] = ctx.act[a] /\ ctx'.minute = ctx.minute
        BY <2>2, <3>1 DEF Engages
      <4>2. QED BY <1>2, <3>1, <4>1 DEF OnTime
    <3>2. CASE a \notin DOMAIN ctx.act
      BY <2>2, <3>2 DEF Engages
    <3>3. QED BY <3>1, <3>2
  <2>4. ASSUME NEW q \in Agent, ctx'.cur[q] = 0
        PROVE  q \in todo'
    <3>1. q \notin Participants(chosen) /\ ctx.cur[q] = 0
      BY <1>2, <2>2, <2>4 DEF Engages, Good, ContextOK
    <3>2. q # p
      BY <1>5, <3>1 DEF Participants
    <3>3. QED BY <1>2, <2>1, <3>1, <3>2
  <2>5. ctx'.minute = auth'.minute + 1
    BY <1>1, <1>2, <2>2 DEF Engages
  <2>6. QED BY <1>1, <1>2, <2>1, <2>2, <2>3, <2>4, <2>5 DEF IInv
<1>7. CASE ~Accepts(ctx, chosen, FALSE)
  <2>1. /\ ctx' = auth /\ source' = auth /\ todo' = {} /\ stage' = "idle"
        /\ fault' = "idle_rejected"
    BY <1>3, <1>7
  <2>2. ContextOK(auth)
    BY <1>2 DEF Good
  <2>3. QED BY <1>1, <1>2, <2>1, <2>2 DEF IInv, Faults
<1>8. QED BY <1>6, <1>7

(* An arrival: what is committed is the trip going on, or the barrier met. *)
LEMMA MovementArrivedInv ==
  ASSUME IInv, NEW a \in DOMAIN auth.act, NEW p \in Agent, MovementArrived(a, p)
  PROVE  IInv'
<1>1. DEFINE u == ArriveParticipants(auth, a, {p})
             v == IF BarrierMet(u, a) THEN FinishArrivalBarrier(u, a) ELSE u
<1>2. /\ Good(auth) /\ Live /\ auth.act[a].phase = "TRAVELING"
      /\ {p} \subseteq auth.act[a].agents /\ Install(v)
      /\ \A b \in DOMAIN auth.act : OnTime(auth, b)
  BY DEF MovementArrived, IInv
<1>3. Good(u) /\ SameTrip(auth, u, a)
  BY <1>2, ArriveParticipantsGood
<1> HIDE DEF u
<1>4. a \in DOMAIN u.act
  BY <1>3 DEF SameTrip
<1>5. Good(v) /\ SameTrip(u, v, a)
  <2>1. CASE BarrierMet(u, a)
    BY <1>3, <1>4, <2>1, FinishArrivalBarrierGood DEF BarrierMet
  <2>2. CASE ~BarrierMet(u, a)
    BY <1>3, <2>2 DEF SameTrip
  <2>3. QED BY <2>1, <2>2
<1> HIDE DEF v
<1>6. SameTrip(auth, v, a)
  BY <1>3, <1>5 DEF SameTrip
<1>7. ASSUME NEW b \in DOMAIN v.act
      PROVE  OnTime(v, b)
  <2>1. b \in DOMAIN auth.act /\ OnTime(auth, b) /\ v.minute = auth.minute
    BY <1>2, <1>6, <1>7 DEF SameTrip
  <2>2. CASE b = a
    BY <1>2, <1>6, <2>1, <2>2, MinutesFact DEF SameTrip, OnTime
  <2>3. CASE b # a
    BY <1>6, <2>1, <2>3 DEF SameTrip, OnTime
  <2>4. QED BY <2>2, <2>3
<1>8. QED BY <1>2, <1>5, <1>7, InstallInv

(* A report or a call that ends a whole action.                            *)
LEMMA EndingInv ==
  ASSUME IInv, NEW a \in DOMAIN auth.act, NEW phase, phase # "COMPLETED",
         Install(TerminateAction(auth, a, phase))
  PROVE  IInv'
<1>1. DEFINE v == TerminateAction(auth, a, phase)
<1>2. Good(auth) /\ \A b \in DOMAIN auth.act : OnTime(auth, b)
  BY DEF IInv
<1>3. /\ Good(v) /\ DOMAIN v.act = DOMAIN auth.act \ {a} /\ v.minute = auth.minute
      /\ \A b \in DOMAIN auth.act \ {a} : v.act[b] = auth.act[b]
  BY <1>2, TerminateActionGood
<1>4. Install(v)
  OBVIOUS
<1> HIDE DEF v
<1>5. \A b \in DOMAIN v.act : OnTime(v, b)
  BY <1>2, <1>3 DEF OnTime
<1>6. QED BY <1>3, <1>4, <1>5, InstallInv

(* Every step keeps the inductive invariant.                               *)
LEMMA NextInv ==
  ASSUME IInv, [Next]_vars
  PROVE  IInv'
<1>1. CASE BeginTick
  BY <1>1, BeginTickInv
<1>2. CASE ProgressAction
  BY <1>2, ProgressActionInv
<1>3. CASE BeginDecisions
  BY <1>3, BeginDecisionsInv
<1>4. ASSUME NEW p \in Agent, SkipCommitted(p)
      PROVE  IInv'
  BY <1>4, SkipCommittedInv
<1>5. ASSUME NEW p \in Agent, DecideAgent(p)
      PROVE  IInv'
  BY <1>5, DecideAgentInv
<1>6. CASE Commit
  <2>1. Good(ctx) /\ (\A a \in DOMAIN ctx.act : OnTime(ctx, a)) /\ Install(ctx)
    BY <1>6 DEF Commit, IInv
  <2>2. QED BY <2>1, InstallInv
<1>7. ASSUME NEW a \in DOMAIN auth.act, NEW p \in Agent, MovementArrived(a, p)
      PROVE  IInv'
  BY <1>7, MovementArrivedInv
<1>8. ASSUME NEW a \in DOMAIN auth.act, NEW phase \in {"FAILED", "CANCELLED"},
             MovementEnded(a, phase) \/ EndAction(a, phase)
      PROVE  IInv'
  BY <1>8, EndingInv DEF MovementEnded, EndAction
<1>9. CASE UNCHANGED vars
  BY <1>9 DEF IInv, vars
<1>10. QED BY <1>1, <1>2, <1>3, <1>4, <1>5, <1>6, <1>7, <1>8, <1>9 DEF Next, Tick, Report

-----------------------------------------------------------------------------
(* Theorems.                                                               *)

(* The inductive invariant holds in every reachable state.                 *)
THEOREM Inductive == Spec => []IInv
<1>1. Init => IInv
  BY InitInv
<1>2. IInv /\ [Next]_vars => IInv'
  BY NextInv
<1>3. QED BY <1>1, <1>2, PTL DEF Spec

(* The checkpoint and the contexts of a minute are well formed.            *)
THEOREM TypeCorrect == Spec => []TypeOK
<1>1. IInv => TypeOK
  <2> SUFFICES ASSUME IInv PROVE TypeOK
    OBVIOUS
  <2>2. ContextOK(auth) /\ ContextOK(ctx) /\ ContextOK(source)
    BY DEF IInv, Good
  <2>3. todo \subseteq IF stage = "decide" THEN Agent ELSE Nat
    BY <2>2 DEF IInv, ContextOK
  <2>4. QED BY <2>2, <2>3 DEF IInv, TypeOK
<1>2. QED BY <1>1, Inductive, PTL

(* Every context of the inductive invariant agrees on who uses what.       *)
LEMMA InvClaims ==
  ASSUME IInv
  PROVE  ClaimsAgree
<1>1. Good(ctx) /\ Ownership(ctx) /\ Membership(ctx) /\ SlotLedger(ctx)
  BY DEF IInv, Good, Ledger
<1>2. ReservationLedger(ctx)
  <2>1. /\ \A a \in DOMAIN ctx.act : /\ ctx.act[a].resv \subseteq ctx.resv
                                     /\ ctx.act[a].arrived \subseteq ctx.act[a].agents
        /\ \A r \in ctx.resv : /\ r.owner \in DOMAIN ctx.act
                               /\ r.agent # None => r.agent \in ctx.act[r.owner].agents
    BY <1>1 DEF Good, Ledger, Placed
  <2>2. ASSUME NEW p \in Agent
        PROVE  {r.owner : r \in {x \in ctx.resv : x.kind = "PARTICIPANT" /\ x.agent = p}}
                 = {ctx.cur[p]} \ {0}
    <3>1. ASSUME NEW r \in ctx.resv, r.kind = "PARTICIPANT", r.agent = p
          PROVE  r.owner = ctx.cur[p] /\ r.owner # 0
      <4>1. r.owner \in DOMAIN ctx.act /\ p \in ctx.act[r.owner].agents
        BY <3>1, <1>1 DEF Good, Ledger
      <4>2. r.owner = ctx.cur[p]
        BY <4>1, <1>1 DEF Ownership
      <4>3. QED BY <4>1, <4>2, <1>1 DEF Good, ContextOK
    <3>2. ASSUME ctx.cur[p] # 0
          PROVE  \E r \in ctx.resv : /\ r.kind = "PARTICIPANT" /\ r.agent = p
                                     /\ r.owner = ctx.cur[p]
      <4>1. ctx.cur[p] \in DOMAIN ctx.act /\ p \in ctx.act[ctx.cur[p]].agents
        BY <3>2, <1>1 DEF Ownership
      <4>2. QED BY <4>1, <1>1 DEF Good, Ledger
    <3>3. QED BY <3>1, <3>2
  <2>3. QED BY <2>1, <2>2 DEF ReservationLedger
<1>3. NoneExpired(ctx)
  <2>1. ASSUME NEW r \in ctx.resv
        PROVE  ctx.minute <= r.expires
    <3>1. DEFINE a == r.owner
    <3>2. a \in DOMAIN ctx.act /\ r.expires = ctx.act[a].end + ExpirySlack
      BY <1>1 DEF Good, Ledger, Dated
    <3>3. OnTime(ctx, a) \/ Pending(ctx, a)
      BY <3>2 DEF IInv
    <3> HIDE DEF a
    <3>4. QED BY <1>1, <3>2, <3>3, MinutesFact DEF OnTime, Pending
  <2>2. QED BY <2>1 DEF NoneExpired
<1>4. \A r \in ctx.resv : r \in ctx.act[r.owner].resv
  BY <1>1 DEF Good, Ledger
<1>5. QED BY <1>1, <1>2, <1>3, <1>4 DEF ClaimsAgree

(* The five records of who uses what agree after every step of a minute,   *)
(* and no reservation outlives its expiry.                                 *)
THEOREM ClaimsAlwaysAgree == Spec => []ClaimsAgree
<1>1. IInv => ClaimsAgree
  BY InvClaims
<1>2. QED BY <1>1, Inductive, PTL

(* The arrival barrier: nobody aligns or performs before every participant *)
(* stands at the destination.                                              *)
THEOREM BarrierHolds == Spec => []ArrivalBarrier
<1>1. IInv => ArrivalBarrier
  <2> SUFFICES ASSUME IInv, NEW a \in DOMAIN ctx.act, ctx.act[a].phase # "TRAVELING"
                 PROVE  /\ ctx.act[a].arrived = ctx.act[a].agents
                        /\ \A p \in ctx.act[a].agents : ctx.loc[p] = ctx.act[a].dest
    BY DEF ArrivalBarrier
  <2>2. Good(ctx) /\ ctx.act[a].agents \subseteq Agent
    BY DEF IInv, Good, ContextOK, ActionRecord
  <2>3. ctx.act[a].arrived = ctx.act[a].agents
    BY <2>2, AllArrived
  <2>4. QED BY <2>2, <2>3 DEF Good, Placed
<1>2. QED BY <1>1, Inductive, PTL

(* An agent is on the road exactly while an action of its own waits for    *)
(* it: no failure, cancellation or timeout strands a traveler.             *)
THEOREM NobodyIsStranded == Spec => []NobodyStranded
<1>1. IInv => NobodyStranded
  <2> SUFFICES ASSUME IInv, NEW p \in Agent
                 PROVE  ctx.loc[p] = Traveling <=>
                          \E a \in DOMAIN ctx.act :
                             /\ ctx.act[a].phase = "TRAVELING"
                             /\ p \in ctx.act[a].agents \ ctx.act[a].arrived
    BY DEF NobodyStranded
  <2>2. Good(ctx)
    BY DEF IInv
  <2>3. ASSUME ctx.loc[p] = Traveling
        PROVE  \E a \in DOMAIN ctx.act : /\ ctx.act[a].phase = "TRAVELING"
                                         /\ p \in ctx.act[a].agents \ ctx.act[a].arrived
    <3>1. DEFINE a == ctx.cur[p]
    <3>2. a \in DOMAIN ctx.act /\ p \in ctx.act[a].agents
      BY <2>2, <2>3 DEF Good, Placed, Ownership
    <3>3. ctx.act[a].dest # Traveling
      BY <2>2, <3>2, SocietyConstants DEF Good, ContextOK, ActionRecord
    <3> HIDE DEF a
    <3>4. QED BY <2>2, <2>3, <3>2, <3>3 DEF Good, Placed
  <2>4. ASSUME NEW a \in DOMAIN ctx.act, p \in ctx.act[a].agents \ ctx.act[a].arrived
        PROVE  ctx.loc[p] = Traveling
    BY <2>2, <2>4 DEF Good, Placed
  <2>5. QED BY <2>3, <2>4
<1>2. QED BY <1>1, Inductive, PTL

(* Every committed trip is within its deadline.                            *)
THEOREM TripsAreBounded == Spec => []TravelBounded
<1>1. IInv => TravelBounded
  BY DEF IInv, TravelBounded, OnTime
<1>2. QED BY <1>1, Inductive, PTL

(* A minute that is committed leaves nobody without a primary action.      *)
THEOREM EveryoneIsEngaged == Spec => EveryoneEngaged
<1>1. DEFINE Kept == auth'.minute # auth.minute => \A p \in Agent : auth'.cur[p] # 0
<1>2. ASSUME IInv, [Next]_vars
      PROVE  auth' = auth \/ Kept
  <2>1. ASSUME NEW v, v.minute = auth.minute, Install(v)
        PROVE  auth'.minute = auth.minute
    BY <2>1 DEF Install
  <2>2. CASE BeginTick \/ ProgressAction \/ BeginDecisions \/ UNCHANGED vars
    BY <2>2 DEF BeginTick, ProgressAction, BeginDecisions, vars
  <2>3. ASSUME NEW p \in Agent, SkipCommitted(p) \/ DecideAgent(p)
        PROVE  auth' = auth
    BY <2>3 DEF SkipCommitted, DecideAgent
  <2>4. CASE Commit
    <3>1. \A p \in Agent : ctx.cur[p] # 0
      BY <1>2, <2>4 DEF Commit, IInv
    <3>2. auth' = auth \/ auth' = ctx
      BY <2>4 DEF Commit, Install
    <3>3. QED BY <3>1, <3>2
  <2>5. ASSUME NEW a \in DOMAIN auth.act, NEW p \in Agent, MovementArrived(a, p)
        PROVE  auth'.minute = auth.minute
    <3>1. DEFINE u == ArriveParticipants(auth, a, {p})
                 v == IF BarrierMet(u, a) THEN FinishArrivalBarrier(u, a) ELSE u
    <3>2. /\ Good(auth) /\ auth.act[a].phase = "TRAVELING" /\ {p} \subseteq auth.act[a].agents
          /\ Install(v)
      BY <1>2, <2>5 DEF MovementArrived, IInv
    <3>3. Good(u) /\ SameTrip(auth, u, a)
      BY <3>2, ArriveParticipantsGood
    <3> HIDE DEF u
    <3>4. v.minute = u.minute
      <4>1. a \in DOMAIN u.act
        BY <3>3 DEF SameTrip
      <4>2. CASE BarrierMet(u, a)
        <5>1. SameTrip(u, FinishArrivalBarrier(u, a), a)
          BY <3>3, <4>1, <4>2, FinishArrivalBarrierGood DEF BarrierMet
        <5>2. QED BY <4>2, <5>1 DEF SameTrip
      <4>3. QED BY <4>2
    <3> HIDE DEF v
    <3>5. QED BY <2>1, <3>2, <3>3, <3>4 DEF SameTrip
  <2>6. ASSUME NEW a \in DOMAIN auth.act, NEW phase \in {"FAILED", "CANCELLED"},
               MovementEnded(a, phase) \/ EndAction(a, phase)
        PROVE  auth'.minute = auth.minute
    <3>1. DEFINE v == TerminateAction(auth, a, phase)
    <3>2. Good(auth) /\ Install(v)
      BY <1>2, <2>6 DEF MovementEnded, EndAction, IInv
    <3>3. v.minute = auth.minute
      BY <3>2, TerminateActionGood
    <3> HIDE DEF v
    <3>4. QED BY <2>1, <3>2, <3>3
  <2>7. QED BY <1>2, <2>2, <2>3, <2>4, <2>5, <2>6 DEF Next, Tick, Report
<1>3. IInv /\ [Next]_vars => [Kept]_auth
  BY <1>2
<1>4. QED BY <1>3, Inductive, PTL DEF Spec, EveryoneEngaged

-----------------------------------------------------------------------------
(* What steps do.  Every method of the engine that edits a context is one  *)
(* of three things: a trip that goes on, an action that ends or an action   *)
(* that begins.  On these rest the proofs that engagements are kept whole,  *)
(* that a joint action stands for an invitation, and those of what Society *)
(* promises.                                                               *)

-----------------------------------------------------------------------------
(* Rooms.                                                                  *)

Expected(w, l) == {r \in w.resv : r.kind = "LOCATION" /\ r.location = l}

(* The room at a location suffices for those who are there and those it is *)
(* promised to, and every participant on the road has such a promise.      *)
Roomy(w) ==
  /\ \A l \in Location : /\ IsFiniteSet(w.occ[l]) /\ IsFiniteSet(Expected(w, l))
                          /\ Cardinality(w.occ[l]) + Cardinality(Expected(w, l)) <= Capacity[l]
  /\ \A a \in DOMAIN w.act, p \in Agent :
       p \in w.act[a].agents /\ p \notin w.act[a].arrived =>
         \E r \in w.resv : /\ r.kind = "LOCATION" /\ r.agent = p /\ r.owner = a
                           /\ r.location = w.act[a].dest

(* A set that another one can be counted with is no larger.                *)
LEMMA NoLarger ==
  ASSUME NEW S, NEW T, IsFiniteSet(T), NEW f \in [S -> T],
         \A x, y \in S : f[x] = f[y] => x = y
  PROVE  IsFiniteSet(S) /\ Cardinality(S) <= Cardinality(T)
<1>1. f \in Injection(S, T)
  BY DEF Injection, IsInjective
<1>2. QED BY <1>1, FS_Injection

(* When an action has ended, or nobody of it is on the road any more, its  *)
(* reservations can be given back and the room still suffices.             *)
LEMMA RoomyLess ==
  ASSUME NEW w, Roomy(w), NEW v, NEW o, v.occ = w.occ, v.resv \subseteq w.resv,
         \A r \in w.resv \ v.resv : r.owner = o,
         DOMAIN v.act \subseteq DOMAIN w.act,
         \A b \in DOMAIN v.act :
           /\ v.act[b].agents = w.act[b].agents /\ v.act[b].dest = w.act[b].dest
           /\ v.act[b].arrived = w.act[b].arrived
           /\ b = o => v.act[b].arrived = v.act[b].agents
  PROVE  Roomy(v)
<1>1. ASSUME NEW l \in Location
      PROVE  /\ IsFiniteSet(v.occ[l]) /\ IsFiniteSet(Expected(v, l))
             /\ Cardinality(v.occ[l]) + Cardinality(Expected(v, l)) <= Capacity[l]
  <2>1. PICK O, E, F : O = w.occ[l] /\ E = Expected(w, l) /\ F = Expected(v, l)
    OBVIOUS
  <2>2. F \subseteq E
    BY <2>1 DEF Expected
  <2>3. /\ IsFiniteSet(O) /\ IsFiniteSet(E) /\ Cardinality(O) + Cardinality(E) <= Capacity[l]
    BY <2>1, Zenon DEF Roomy
  <2>4. /\ IsFiniteSet(F) /\ Cardinality(F) <= Cardinality(E)
        /\ Cardinality(F) \in Nat /\ Cardinality(E) \in Nat /\ Cardinality(O) \in Nat
    BY <2>2, <2>3, FS_Subset, FS_CardinalityType
  <2>5. Capacity[l] \in Nat
    BY SocietyConstants
  <2>6. Cardinality(O) + Cardinality(F) <= Capacity[l]
    BY <2>3, <2>4, <2>5
  <2>7. QED BY <2>1, <2>3, <2>4, <2>6, Zenon
<1>2. ASSUME NEW a \in DOMAIN v.act, NEW p \in Agent,
             p \in v.act[a].agents, p \notin v.act[a].arrived
      PROVE  \E r \in v.resv : /\ r.kind = "LOCATION" /\ r.agent = p /\ r.owner = a
                               /\ r.location = v.act[a].dest
  <2>1. /\ a \in DOMAIN w.act /\ p \in w.act[a].agents /\ p \notin w.act[a].arrived
        /\ v.act[a].dest = w.act[a].dest
    BY <1>2
  <2>2. PICK r \in w.resv : /\ r.kind = "LOCATION" /\ r.agent = p /\ r.owner = a
                            /\ r.location = w.act[a].dest
    BY <2>1 DEF Roomy
  <2>3. r.owner # o
    BY <1>2, <2>2
  <2>4. QED BY <1>2, <2>1, <2>2, <2>3
<1>3. QED BY <1>1, <1>2 DEF Roomy

(* Who arrives uses the room it was promised.                              *)
LEMMA RoomyArrive ==
  ASSUME NEW w, Good(w), Roomy(w), NEW a \in DOMAIN w.act, NEW S, S \subseteq w.act[a].agents
  PROVE  Roomy(ArriveParticipants(w, a, S))
<1>1. DEFINE v == ArriveParticipants(w, a, S)
             held == {r \in w.act[a].resv : r.kind = "LOCATION" /\ r.agent \in S}
             entering == {p \in S : w.loc[p] = Traveling}
             dest == w.act[a].dest
<1>2. w.act[a] \in ActionRecord /\ w.occ \in [Location -> SUBSET Agent]
  BY DEF Good, ContextOK
<1>3. /\ v.resv = w.resv \ held /\ DOMAIN v.act = DOMAIN w.act
      /\ v.occ = [w.occ EXCEPT ![dest] = @ \cup entering]
      /\ \A b \in DOMAIN w.act : b # a => v.act[b] = w.act[b]
      /\ v.act[a] = [w.act[a] EXCEPT !.resv = @ \ held, !.arrived = @ \cup S]
  BY DEF ArriveParticipants, Good, ContextOK
<1>4. dest \in Location /\ w.act[a].agents \subseteq Agent
  BY <1>2 DEF ActionRecord
<1>5. \A r \in w.resv : r \in w.act[a].resv <=> r.owner = a
  BY DEF Good, Ledger
<1>6. \A r \in held : r.owner = a /\ r.agent \in S /\ r \in w.resv /\ r.kind = "LOCATION"
  BY <1>5 DEF Good, Ledger
<1>7. \A p \in entering : \E r \in held : r.agent = p /\ r.location = dest
  <2>1. TAKE p \in entering
  <2>2. p \in Agent /\ p \in w.act[a].agents /\ w.loc[p] = Traveling
    BY <1>4
  <2>3. p \notin w.act[a].arrived
    BY <1>4, <2>2, SocietyConstants DEF Good, Placed
  <2>4. PICK r \in w.resv : /\ r.kind = "LOCATION" /\ r.agent = p /\ r.owner = a
                            /\ r.location = dest
    BY <2>2, <2>3 DEF Roomy
  <2>5. QED BY <1>5, <2>4
<1> HIDE DEF v, held, entering, dest
<1>8. ASSUME NEW l \in Location
      PROVE  /\ IsFiniteSet(v.occ[l]) /\ IsFiniteSet(Expected(v, l))
             /\ Cardinality(v.occ[l]) + Cardinality(Expected(v, l)) <= Capacity[l]
  <2>1. PICK O, E, F : O = w.occ[l] /\ E = Expected(w, l) /\ F = Expected(v, l)
    OBVIOUS
  <2>2. /\ IsFiniteSet(O) /\ IsFiniteSet(E) /\ Cardinality(O) + Cardinality(E) <= Capacity[l]
    BY <2>1, Zenon DEF Roomy
  <2>3. Capacity[l] \in Nat
    BY SocietyConstants
  <2>4. CASE l # dest
    <3>1. v.occ[l] = O
      BY <1>2, <1>3, <2>1, <2>4
    <3>2. F \subseteq E
      BY <1>3, <2>1 DEF Expected
    <3>3. /\ IsFiniteSet(F) /\ Cardinality(F) <= Cardinality(E)
          /\ Cardinality(F) \in Nat /\ Cardinality(E) \in Nat /\ Cardinality(O) \in Nat
      BY <2>2, <3>2, FS_Subset, FS_CardinalityType
    <3>4. Cardinality(O) + Cardinality(F) <= Capacity[l]
      BY <2>2, <2>3, <3>3
    <3>5. QED BY <2>1, <2>2, <3>1, <3>3, <3>4, Zenon
  <2>5. CASE l = dest
    <3>1. v.occ[l] = O \cup entering
      BY <1>2, <1>3, <2>1, <2>5
    <3>2. DEFINE K == {r \in held : r.location = dest}
    <3>3. K \subseteq E /\ F = E \ K
      BY <1>3, <1>6, <2>1, <2>5 DEF Expected
    <3>4. IsFiniteSet(K) /\ Cardinality(K) \in Nat /\ Cardinality(E) \in Nat
      BY <2>2, <3>3, FS_Subset, FS_CardinalityType
    <3>5. IsFiniteSet(entering) /\ Cardinality(entering) <= Cardinality(K)
      <4>1. DEFINE f == [p \in entering |-> CHOOSE r \in K : r.agent = p]
      <4>2. \A p \in entering : f[p] \in K /\ f[p].agent = p
        BY <1>7
      <4> HIDE DEF K
      <4>3. f \in [entering -> K]
        BY <4>2
      <4> HIDE DEF f
      <4>4. QED BY <3>4, <4>2, <4>3, NoLarger
    <3> HIDE DEF K
    <3>6. /\ IsFiniteSet(F) /\ Cardinality(F) = Cardinality(E) - Cardinality(K)
      <4>1. E \cap K = K
        BY <3>3
      <4>2. IsFiniteSet(E \ K) /\ Cardinality(E \ K) = Cardinality(E) - Cardinality(E \cap K)
        BY <2>2, FS_Difference
      <4>3. QED BY <3>3, <4>1, <4>2, Zenon
    <3>7. /\ IsFiniteSet(O \cup entering)
          /\ Cardinality(O \cup entering)
               = Cardinality(O) + Cardinality(entering) - Cardinality(O \cap entering)
          /\ Cardinality(O \cap entering) \in Nat
          /\ Cardinality(O) \in Nat /\ Cardinality(entering) \in Nat
      <4>1. IsFiniteSet(O \cap entering)
        BY <2>2, FS_Intersection
      <4>2. QED BY <2>2, <3>5, <4>1, FS_Union, FS_CardinalityType
    <3>8. Cardinality(O \cup entering) + Cardinality(F) <= Capacity[l]
      BY <2>2, <2>3, <3>4, <3>5, <3>6, <3>7
    <3>9. QED BY <2>1, <3>1, <3>6, <3>7, <3>8, Zenon
  <2>6. QED BY <2>4, <2>5
<1>9. ASSUME NEW b \in DOMAIN v.act, NEW p \in Agent,
             p \in v.act[b].agents, p \notin v.act[b].arrived
      PROVE  \E r \in v.resv : /\ r.kind = "LOCATION" /\ r.agent = p /\ r.owner = b
                               /\ r.location = v.act[b].dest
  <2>1. /\ b \in DOMAIN w.act /\ p \in w.act[b].agents /\ p \notin w.act[b].arrived
        /\ v.act[b].dest = w.act[b].dest
        /\ b = a => p \notin S
    <3>1. /\ v.act[a].agents = w.act[a].agents /\ v.act[a].dest = w.act[a].dest
          /\ v.act[a].arrived = w.act[a].arrived \cup S
      BY <1>2, <1>3 DEF ActionRecord
    <3>2. CASE b = a
      BY <1>3, <1>9, <3>1, <3>2
    <3>3. CASE b # a
      BY <1>3, <1>9, <3>3
    <3>4. QED BY <3>2, <3>3
  <2>2. PICK r \in w.resv : /\ r.kind = "LOCATION" /\ r.agent = p /\ r.owner = b
                            /\ r.location = w.act[b].dest
    BY <2>1 DEF Roomy
  <2>3. r \notin held
    BY <1>6, <2>1, <2>2
  <2>4. QED BY <1>3, <2>1, <2>2, <2>3
<1>10. Roomy(v)
  BY <1>8, <1>9 DEF Roomy
<1>11. QED BY <1>10 DEF v

-----------------------------------------------------------------------------
(* How a minute is put together, for the proofs about resources, rooms and *)
(* engagements: a trip goes on, an action ends, an action begins.          *)

(* From w to v the trip of action a went on: reservations of room at its   *)
(* destination may be given back, as much room as is left suffices, and    *)
(* nothing else of what is claimed differs.                                *)
WentOn(w, v, a) ==
  /\ Good(v)
  /\ v.minute = w.minute /\ v.next = w.next /\ v.cur = w.cur /\ v.occupied = w.occupied
  /\ v.money = w.money /\ v.food = w.food
  /\ DOMAIN v.act = DOMAIN w.act
  /\ \A b \in DOMAIN w.act : b # a => v.act[b] = w.act[b]
  /\ v.act[a].behavior = w.act[a].behavior /\ v.act[a].actor = w.act[a].actor
  /\ v.act[a].agents = w.act[a].agents /\ v.act[a].target = w.act[a].target
  /\ v.act[a].activity = w.act[a].activity /\ v.act[a].dest = w.act[a].dest
  /\ v.act[a].expected = w.act[a].expected /\ v.act[a].start = w.act[a].start
  /\ v.act[a].end = w.act[a].end /\ v.act[a].joint = w.act[a].joint
  /\ v.act[a].phase = "TRAVELING" => w.act[a].phase = "TRAVELING"
  /\ v.resv \subseteq w.resv
  /\ \A r \in w.resv \ v.resv : r.kind = "LOCATION" /\ r.owner = a
  /\ Roomy(w) => Roomy(v)

LEMMA WentOnTwice ==
  ASSUME NEW w, NEW u, NEW v, NEW a, WentOn(w, u, a), WentOn(u, v, a)
  PROVE  WentOn(w, v, a)
BY DEF WentOn

LEMMA WentNowhere ==
  ASSUME NEW w, Good(w), NEW a
  PROVE  WentOn(w, w, a)
BY DEF WentOn

(* _start_performing.                                                      *)
LEMMA StartWentOn ==
  ASSUME NEW w, Good(w), NEW a \in DOMAIN w.act, w.act[a].arrived = w.act[a].agents
  PROVE  WentOn(w, StartPerforming(w, a), a)
<1>1. DEFINE v == StartPerforming(w, a)
<1>2. w.act[a] \in ActionRecord
  BY DEF Good, ContextOK
<1>3. /\ v.minute = w.minute /\ v.next = w.next /\ v.cur = w.cur /\ v.occupied = w.occupied
      /\ v.money = w.money /\ v.food = w.food /\ v.resv = w.resv
      /\ DOMAIN v.act = DOMAIN w.act
      /\ \A b \in DOMAIN w.act : b # a => v.act[b] = w.act[b]
      /\ v.act[a] = [w.act[a] EXCEPT !.phase = "PERFORMING", !.began = w.minute]
  BY DEF StartPerforming, Good, ContextOK
<1>4. Good(v)
  BY StartPerformingGood
<1> HIDE DEF v
<1>5. /\ v.act[a].behavior = w.act[a].behavior /\ v.act[a].actor = w.act[a].actor
      /\ v.act[a].agents = w.act[a].agents /\ v.act[a].target = w.act[a].target
      /\ v.act[a].activity = w.act[a].activity /\ v.act[a].dest = w.act[a].dest
      /\ v.act[a].expected = w.act[a].expected /\ v.act[a].start = w.act[a].start
      /\ v.act[a].end = w.act[a].end /\ v.act[a].joint = w.act[a].joint
      /\ v.act[a].phase = "PERFORMING" /\ v.act[a].arrived = w.act[a].arrived
  BY <1>2, <1>3 DEF ActionRecord
<1>6. Roomy(w) => Roomy(v)
  <2>1. v.occ = w.occ
    BY DEF v, StartPerforming, Good, ContextOK
  <2>2. \A b \in DOMAIN v.act :
           /\ v.act[b].agents = w.act[b].agents /\ v.act[b].dest = w.act[b].dest
           /\ v.act[b].arrived = w.act[b].arrived
           /\ (b = a => v.act[b].arrived = v.act[b].agents)
    BY <1>3, <1>5
  <2>3. ASSUME Roomy(w) PROVE Roomy(v)
    <3>1. v.resv \subseteq w.resv /\ \A r \in w.resv \ v.resv : r.owner = a
      BY <1>3
    <3>2. DOMAIN v.act \subseteq DOMAIN w.act
      BY <1>3
    <3>3. QED BY <2>1, <2>2, <2>3, <3>1, <3>2, RoomyLess
  <2>4. QED BY <2>3
<1>7. QED BY <1>3, <1>4, <1>5, <1>6 DEF WentOn, v

(* _arrive_participant, of participants of an action that is TRAVELING.    *)
LEMMA ArriveWentOn ==
  ASSUME NEW w, Good(w), NEW a \in DOMAIN w.act, w.act[a].phase = "TRAVELING",
         NEW S, S \subseteq w.act[a].agents
  PROVE  WentOn(w, ArriveParticipants(w, a, S), a)
<1>1. DEFINE v == ArriveParticipants(w, a, S)
             held == {r \in w.act[a].resv : r.kind = "LOCATION" /\ r.agent \in S}
<1>2. w.act[a] \in ActionRecord
  BY DEF Good, ContextOK
<1>3. /\ v.minute = w.minute /\ v.next = w.next /\ v.cur = w.cur /\ v.occupied = w.occupied
      /\ v.money = w.money /\ v.food = w.food /\ v.resv = w.resv \ held
      /\ DOMAIN v.act = DOMAIN w.act
      /\ \A b \in DOMAIN w.act : b # a => v.act[b] = w.act[b]
      /\ v.act[a] = [w.act[a] EXCEPT !.resv = @ \ held, !.arrived = @ \cup S]
  BY DEF ArriveParticipants, Good, ContextOK
<1>4. Good(v)
  BY ArriveParticipantsGood
<1>5. /\ \A r \in held : r.kind = "LOCATION" /\ r.owner = a
      /\ Roomy(w) => Roomy(v)
  BY RoomyArrive DEF Good, Ledger
<1> HIDE DEF v, held
<1>6. /\ v.act[a].behavior = w.act[a].behavior /\ v.act[a].actor = w.act[a].actor
      /\ v.act[a].agents = w.act[a].agents /\ v.act[a].target = w.act[a].target
      /\ v.act[a].activity = w.act[a].activity /\ v.act[a].dest = w.act[a].dest
      /\ v.act[a].expected = w.act[a].expected /\ v.act[a].start = w.act[a].start
      /\ v.act[a].end = w.act[a].end /\ v.act[a].joint = w.act[a].joint
      /\ v.act[a].phase = w.act[a].phase
  BY <1>2, <1>3 DEF ActionRecord
<1>7. QED BY <1>3, <1>4, <1>5, <1>6 DEF WentOn, v

(* _finish_arrival_barrier, once every participant has arrived.            *)
LEMMA FinishWentOn ==
  ASSUME NEW w, Good(w), NEW a \in DOMAIN w.act, w.act[a].arrived = w.act[a].agents
  PROVE  WentOn(w, FinishArrivalBarrier(w, a), a)
<1>1. DEFINE held == {r \in w.act[a].resv : r.kind = "LOCATION"}
             v == [w EXCEPT !.resv = @ \ held, !.act[a].resv = @ \ held,
                            !.act[a].phase = "ALIGNING"]
             t == FinishArrivalBarrier(w, a)
<1>2. w.act[a] \in ActionRecord
  BY DEF Good, ContextOK
<1>3. /\ v.minute = w.minute /\ v.next = w.next /\ v.cur = w.cur /\ v.occupied = w.occupied
      /\ v.money = w.money /\ v.food = w.food /\ v.resv = w.resv \ held
      /\ DOMAIN v.act = DOMAIN w.act
      /\ \A b \in DOMAIN w.act : b # a => v.act[b] = w.act[b]
      /\ v.act[a] = [w.act[a] EXCEPT !.resv = @ \ held, !.phase = "ALIGNING"]
      /\ DOMAIN v = DOMAIN w
  BY DEF Good, ContextOK
<1>4. Good(t)
  BY FinishArrivalBarrierGood
<1>5. \A r \in held : r.kind = "LOCATION" /\ r.owner = a
  BY DEF Good, Ledger
<1>0. v.occ = w.occ
  BY DEF Good, ContextOK
<1>6. t = IF w.minute >= w.act[a].start THEN StartPerforming(v, a) ELSE v
  BY DEF FinishArrivalBarrier
<1> HIDE DEF v, t, held
<1>7. t = v \/ t = [v EXCEPT !.act[a].phase = "PERFORMING", !.act[a].began = v.minute]
  BY <1>6 DEF StartPerforming
<1>8. CASE t = v
  <2>1. /\ t.act[a].behavior = w.act[a].behavior /\ t.act[a].actor = w.act[a].actor
        /\ t.act[a].agents = w.act[a].agents /\ t.act[a].target = w.act[a].target
        /\ t.act[a].activity = w.act[a].activity /\ t.act[a].dest = w.act[a].dest
        /\ t.act[a].expected = w.act[a].expected /\ t.act[a].start = w.act[a].start
        /\ t.act[a].end = w.act[a].end /\ t.act[a].joint = w.act[a].joint
        /\ t.act[a].phase = "ALIGNING" /\ t.act[a].arrived = w.act[a].arrived
        /\ t.occ = w.occ
    BY <1>0, <1>2, <1>3, <1>8 DEF ActionRecord
  <2>2. \A b \in DOMAIN t.act :
           /\ t.act[b].agents = w.act[b].agents /\ t.act[b].dest = w.act[b].dest
           /\ t.act[b].arrived = w.act[b].arrived
           /\ (b = a => t.act[b].arrived = t.act[b].agents)
    BY <1>3, <1>8, <2>1
  <2>3. ASSUME Roomy(w) PROVE Roomy(t)
    <3>1. t.resv \subseteq w.resv /\ \A r \in w.resv \ t.resv : r.owner = a
      BY <1>3, <1>8, <2>1, <1>5
    <3>2. DOMAIN t.act \subseteq DOMAIN w.act /\ t.occ = w.occ
      BY <1>3, <1>8, <2>1
    <3>3. QED BY <2>2, <2>3, <3>1, <3>2, RoomyLess
  <2>4. QED BY <1>3, <1>4, <1>5, <1>8, <2>1, <2>3 DEF WentOn, t
<1>9. CASE t = [v EXCEPT !.act[a].phase = "PERFORMING", !.act[a].began = v.minute]
  <2>1. v = [f \in DOMAIN v |-> v[f]] /\ DOMAIN v = DOMAIN w /\ a \in DOMAIN v.act
    BY <1>3 DEF v
  <2>2. /\ t.minute = w.minute /\ t.next = w.next /\ t.cur = w.cur
        /\ t.occupied = w.occupied
        /\ t.money = w.money /\ t.food = w.food /\ t.resv = w.resv \ held
        /\ t.occ = w.occ /\ DOMAIN t.act = DOMAIN w.act
        /\ \A b \in DOMAIN w.act : b # a => t.act[b] = w.act[b]
        /\ t.act[a] = [v.act[a] EXCEPT !.phase = "PERFORMING", !.began = v.minute]
    BY <1>0, <1>3, <1>9, <2>1 DEF Good, ContextOK
  <2>3. /\ t.act[a].behavior = w.act[a].behavior /\ t.act[a].actor = w.act[a].actor
        /\ t.act[a].agents = w.act[a].agents /\ t.act[a].target = w.act[a].target
        /\ t.act[a].activity = w.act[a].activity /\ t.act[a].dest = w.act[a].dest
        /\ t.act[a].expected = w.act[a].expected /\ t.act[a].start = w.act[a].start
        /\ t.act[a].end = w.act[a].end /\ t.act[a].joint = w.act[a].joint
        /\ t.act[a].phase = "PERFORMING" /\ t.act[a].arrived = w.act[a].arrived
    BY <1>2, <1>3, <2>2 DEF ActionRecord
  <2>4. \A b \in DOMAIN t.act :
           /\ t.act[b].agents = w.act[b].agents /\ t.act[b].dest = w.act[b].dest
           /\ t.act[b].arrived = w.act[b].arrived
           /\ (b = a => t.act[b].arrived = t.act[b].agents)
    BY <1>3, <2>2, <2>3
  <2>5. ASSUME Roomy(w) PROVE Roomy(t)
    <3>1. t.resv \subseteq w.resv /\ \A r \in w.resv \ t.resv : r.owner = a
      BY <1>3, <2>2, <2>3, <1>5
    <3>2. DOMAIN t.act \subseteq DOMAIN w.act /\ t.occ = w.occ
      BY <1>3, <2>2, <2>3
    <3>3. QED BY <2>4, <2>5, <3>1, <3>2, RoomyLess
  <2>6. QED BY <1>4, <1>5, <2>2, <2>3, <2>5 DEF WentOn, t
<1>10. QED BY <1>7, <1>8, <1>9

(* From w to v action a ended: what it had reserved is free.               *)
ActionEnds(w, v, a) ==
  /\ Good(v)
  /\ v.minute = w.minute /\ v.next = w.next /\ v.money = w.money /\ v.food = w.food
  /\ DOMAIN v.act = DOMAIN w.act \ {a}
  /\ \A b \in DOMAIN w.act \ {a} : v.act[b] = w.act[b]
  /\ v.resv = w.resv \ w.act[a].resv
  /\ v.cur = [p \in Agent |-> IF p \in w.act[a].agents THEN 0 ELSE w.cur[p]]

(* _terminate_action; who completed an action stays where it is.           *)
LEMMA TerminateEnds ==
  ASSUME NEW w, Good(w), NEW a \in DOMAIN w.act, NEW phase,
         phase = "COMPLETED" => w.act[a].arrived = w.act[a].agents
  PROVE  LET v == TerminateAction(w, a, phase)
         IN  /\ ActionEnds(w, v, a)
             /\ phase = "COMPLETED" => v.loc = w.loc /\ v.occ = w.occ
<1>1. DEFINE v == TerminateAction(w, a, phase)
             u == ReleaseReservations(w, a)
<1>2. /\ Good(v) /\ DOMAIN v.act = DOMAIN w.act \ {a} /\ v.minute = w.minute
      /\ \A b \in DOMAIN w.act \ {a} : v.act[b] = w.act[b]
  BY TerminateActionGood
<1>3. /\ DOMAIN u = DOMAIN w
      /\ u.next = w.next /\ u.money = w.money /\ u.food = w.food
      /\ u.loc = w.loc /\ u.occ = w.occ /\ u.resv = w.resv \ w.act[a].resv
  BY DEF ReleaseReservations, Good, ContextOK
<1>4. /\ v.next = u.next /\ v.money = u.money /\ v.food = u.food /\ v.resv = u.resv
      /\ phase = "COMPLETED" => v.loc = u.loc /\ v.occ = u.occ
      /\ v.cur = [p \in Agent |-> IF p \in w.act[a].agents /\ w.cur[p] = a THEN 0
                                                                        ELSE w.cur[p]]
  <2>1. CASE phase = "COMPLETED"
    BY <1>3, <2>1 DEF TerminateAction, Good, ContextOK
  <2>2. CASE phase # "COMPLETED"
    BY <1>3, <2>2 DEF TerminateAction, ReturnToOrigin, Good, ContextOK
  <2>3. QED BY <2>1, <2>2
<1>5. \A p \in Agent : p \in w.act[a].agents => w.cur[p] = a
  BY DEF Good, Ownership
<1> HIDE DEF v, u
<1>6. v.cur = [p \in Agent |-> IF p \in w.act[a].agents THEN 0 ELSE w.cur[p]]
  BY <1>4, <1>5
<1>7. QED BY <1>2, <1>3, <1>4, <1>6 DEF ActionEnds, v

(* From w to v candidate c became an action that reserved R.               *)
ActionBegins(w, v, c, joint, R) ==
  /\ Good(v)
  /\ v.minute = w.minute /\ v.next = w.next + 1 /\ v.money = w.money /\ v.food = w.food
  /\ w.next \notin DOMAIN w.act
  /\ DOMAIN v.act = DOMAIN w.act \cup {w.next}
  /\ \A b \in DOMAIN w.act : v.act[b] = w.act[b]
  /\ v.act[w.next].agents = Participants(c)
  /\ v.act[w.next].actor = c.actor /\ v.act[w.next].target = c.target
  /\ v.act[w.next].behavior = c.behavior
  /\ v.act[w.next].activity = c.activity
  /\ v.act[w.next].dest = c.dest
  /\ v.act[w.next].joint = joint
  /\ v.act[w.next].resv = R
  /\ v.resv = w.resv \cup R
  /\ R \cap w.resv = {}
  /\ R \subseteq ReservationRecord
  /\ \E expires \in Nat : R = Reservations(w, c, joint, expires)
  /\ v.cur = [p \in Agent |-> IF p \in Participants(c) THEN w.next ELSE w.cur[p]]
  /\ v.loc = [p \in Agent |-> IF p \in Travelers(w, c) THEN Traveling ELSE w.loc[p]]
  /\ v.occ = [l \in Location |-> w.occ[l] \ Travelers(w, c)]

(* _create_action, of a candidate the Resolver accepted.                   *)
LEMMA CreateBegins ==
  ASSUME NEW w, Good(w), NEW c \in CandidateRecord, NEW joint \in BOOLEAN,
         Accepts(w, c, joint), NEW v, v = CreateAction(w, c, joint)
  PROVE  \E R : ActionBegins(w, v, c, joint, R)
<1>1. DEFINE a == w.next
             R == v.act[a].resv
<1>2. Good(v) /\ Engages(w, v, c)
  BY CreateActionGood
<1>3. a \in Nat /\ DOMAIN w.act \subseteq 1 .. a - 1 /\ a \notin DOMAIN w.act
  BY DEF Good, ContextOK
<1>4. DEFINE away == Travelers(w, c)
             P == Participants(c)
             arrival == [p \in P |->
                           w.minute + IF p \in away THEN Travel[w.loc[p]][c.dest] ELSE 0]
             expected == Largest({arrival[p] : p \in P})
             start == Largest({expected, Rule[c.behavior].startsAt})
             end == start + Rule[c.behavior].duration
             phase == IF away # {} THEN "TRAVELING"
                      ELSE IF w.minute < start THEN "ALIGNING" ELSE "PERFORMING"
             Q == Reservations(w, c, joint, end + ExpirySlack)
             new == [phase |-> phase, behavior |-> c.behavior, actor |-> c.actor,
                     agents |-> P, target |-> c.target, activity |-> c.activity,
                     dest |-> c.dest, expected |-> expected, start |-> start, end |-> end,
                     began |-> w.minute, joint |-> joint, resv |-> Q,
                     origin |-> [p \in P |-> w.loc[p]], arrived |-> P \ away]
<1>5. /\ v.next = a + 1 /\ v.money = w.money /\ v.food = w.food
      /\ v.loc = [p \in Agent |-> IF p \in away THEN Traveling ELSE w.loc[p]]
      /\ v.occ = [l \in Location |-> w.occ[l] \ away]
      /\ v.act = Put(w.act, a, new)
      /\ v.resv = w.resv \cup Q
  BY DEF CreateAction, NextId, Good, ContextOK
<1> HIDE DEF expected, start, end, phase, Q, away, P, new
<1>6. v.act[a] = new /\ a \in DOMAIN v.act
  <2>1. v.act = Put(w.act, a, new)
    BY <1>5
  <2>2. /\ DOMAIN Put(w.act, a, new) = DOMAIN w.act \cup {a}
        /\ Put(w.act, a, new)[a] = new
    BY DEF Put
  <2>3. QED BY <2>1, <2>2
<1>7. R = Reservations(w, c, joint, end + ExpirySlack) /\ v.act[a].end = end /\ R = Q
  BY <1>6 DEF Q, new
<1>8. end + ExpirySlack \in Nat
  <2>1. v.act[a] \in ActionRecord
    BY <1>2, <1>6 DEF Good, ContextOK
  <2>2. end \in Nat
    BY <1>7, <2>1 DEF ActionRecord
  <2>3. ExpirySlack \in Nat
    BY SocietyConstants
  <2> HIDE DEF end
  <2>4. QED BY <2>2, <2>3
<1>9. /\ Q \subseteq ReservationRecord
      /\ \A r \in Q : /\ r.owner = a /\ r.expires = end + ExpirySlack
                      /\ r.agent # None => r.agent \in P
                      /\ r.kind = "PARTICIPANT" => r.agent # None
                      /\ r.kind = "OBJECT_SLOT" =>
                           <<r.object, r.slot>> \in SlotClaims(w, c, joint)
      /\ \A p \in P : \E r \in Q : r.kind = "PARTICIPANT" /\ r.agent = p
      /\ \A k \in SlotClaims(w, c, joint) :
           \E r \in Q : r.kind = "OBJECT_SLOT" /\ r.object = k[1] /\ r.slot = k[2]
  BY <1>3, <1>8, ReservationsFact DEF Q, P
<1>10. R \cap w.resv = {}
  <2>1. \A r \in w.resv : r.owner \in DOMAIN w.act
    BY DEF Good, Ledger
  <2>2. QED BY <1>3, <1>7, <1>9, <2>1
<1>11. v.resv = w.resv \cup R
  BY <1>5, <1>7
<1>12. /\ v.act[a].agents = Participants(c) /\ v.act[a].behavior = c.behavior
       /\ v.act[a].actor = c.actor /\ v.act[a].target = c.target
       /\ v.act[a].activity = c.activity /\ v.act[a].dest = c.dest
       /\ v.act[a].joint = joint
  BY <1>6 DEF P, new
<1>13. \E e \in Nat : R = Reservations(w, c, joint, e)
  BY <1>7, <1>8
<1> HIDE DEF R
<1>14. v.act[a].resv = R
  BY DEF R
<1>15. ActionBegins(w, v, c, joint, R)
  BY <1>2, <1>3, <1>5, <1>7, <1>9, <1>10, <1>11, <1>12, <1>13, <1>14
     DEF ActionBegins, Engages, away, P
<1>16. QED BY <1>15

(* _resolve_action: the action is paid for and completed, or it is         *)
(* completed as it is, with or without the joint action in its place.      *)
LEMMA ResolveShape ==
  ASSUME NEW w, Good(w), NEW a \in DOMAIN w.act, w.act[a].phase # "TRAVELING",
         NEW v \in ResolveAction(w, a)
  PROVE  \/ v = TerminateAction(CommitReservedResources(w, a), a, "COMPLETED")
         \/ /\ w.act[a].activity \in Behavior
            /\ \/ v = TerminateAction(w, a, "COMPLETED")
               \/ \E c \in CandidateRecord :
                    LET freed == TerminateAction(w, a, "COMPLETED")
                    IN  /\ Accepts(freed, c, TRUE) /\ v = CreateAction(freed, c, TRUE)
                        /\ c.behavior = w.act[a].activity
                        /\ c.actor = w.act[a].actor /\ c.target = w.act[a].target
                        /\ c.activity = None
<1>1. w.act[a].arrived = w.act[a].agents
  BY AllArrived
<1>2. DEFINE act == w.act[a]
             settled == TerminateAction(CommitReservedResources(w, a), a, "COMPLETED")
             freed == TerminateAction(w, a, "COMPLETED")
<1>3. Good(freed) /\ \A p \in act.agents : freed.cur[p] = 0
  BY <1>1, TerminateActionGood
<1>4. act.activity \in Behavior \cup {None}
  BY DEF Good, ContextOK, ActionRecord
<1>5. SUFFICES ASSUME v # settled, v # freed
               PROVE  /\ act.activity \in Behavior
                      /\ \E c \in CandidateRecord :
                           /\ Accepts(freed, c, TRUE) /\ v = CreateAction(freed, c, TRUE)
                           /\ c.behavior = act.activity
                           /\ c.actor = act.actor /\ c.target = act.target
                           /\ c.activity = None
  <2>1. CASE act.activity = None
    <3>1. v = settled
      BY <2>1 DEF ResolveAction
    <3>2. QED BY <3>1
  <2>2. CASE act.activity # None
    BY <1>4, <1>5, <2>2
  <2>3. QED BY <2>1, <2>2
<1>6. act.activity # None
  BY <1>5 DEF ResolveAction
<1>7. PICK c : /\ \E S \in Bundles(freed, act.activity,
                                   Destination(freed, act.actor, act.activity)) :
                    c = InvitedCandidate(freed, act, S)
               /\ Accepts(freed, c, TRUE)
               /\ v = CreateAction(freed, c, TRUE)
  BY <1>5, <1>6 DEF ResolveAction
<1>8. /\ act.actor \in Agent /\ act.activity \in Behavior
      /\ act.target \in Agent \cup {None} /\ act.actor \in act.agents
  BY <1>6 DEF Good, ContextOK, ActionRecord, Placed
<1> HIDE DEF freed, settled, act
<1>9. freed.loc[act.actor] # Traveling /\ freed.loc \in [Agent -> Traveled]
  BY <1>3, <1>8 DEF Good, Placed, ContextOK
<1>10. Destination(freed, act.actor, act.activity) \in Location
  BY <1>8, <1>9, SocietyConstants DEF Destination, Traveled
<1>11. /\ c \in CandidateRecord /\ c.behavior = act.activity /\ c.actor = act.actor
       /\ c.target = act.target /\ c.activity = None
  <2>1. PICK S \in Bundles(freed, act.activity,
                           Destination(freed, act.actor, act.activity)) :
               c = InvitedCandidate(freed, act, S)
    BY <1>7
  <2>2. S \subseteq Object
    BY DEF Bundles
  <2>3. QED BY <1>8, <1>10, <2>1, <2>2 DEF InvitedCandidate, Candidate, CandidateRecord
<1>12. QED BY <1>7, <1>8, <1>11

(* One action of _progress_actions: its trip goes on, and then perhaps it  *)
(* is resolved, or it has timed out.                                       *)
LEMMA ProgressShape ==
  ASSUME NEW w, Good(w), NEW a \in DOMAIN w.act, NEW v \in Progress(w, a)
  PROVE  \/ /\ Live /\ w.act[a].phase = "TRAVELING"
            /\ v = TerminateAction(w, a, "FAILED")
         \/ /\ ~(w.act[a].phase = "TRAVELING" /\ Live /\ TimedOut(w, a))
            /\ \E u : /\ WentOn(w, u, a)
                      /\ w.act[a].phase = "TRAVELING" =>
                           u.act[a].phase = "TRAVELING"
                             \/ (~Live /\ w.minute >= w.act[a].expected)
                      /\ \/ v = u
                         \/ /\ u.act[a].phase = "PERFORMING" /\ w.minute >= w.act[a].end
                            /\ v \in ResolveAction(u, a)
<1>1. DEFINE act == w.act[a]
             met == ArriveParticipants(w, a, act.agents)
             there == FinishArrivalBarrier(met, a)
             arrived == IF act.phase = "TRAVELING" /\ ~Live /\ w.minute >= act.expected
                        THEN there ELSE w
             started == IF arrived.act[a].phase = "ALIGNING" /\ w.minute >= act.start
                        THEN StartPerforming(arrived, a) ELSE arrived
<1>2. CASE act.phase = "TRAVELING" /\ Live /\ TimedOut(w, a)
  BY <1>2 DEF Progress
<1>3. CASE ~(act.phase = "TRAVELING" /\ Live /\ TimedOut(w, a))
  <2>1. /\ WentOn(w, arrived, a)
        /\ act.phase = "TRAVELING" =>
             arrived.act[a].phase = "TRAVELING" \/ (~Live /\ w.minute >= act.expected)
    <3>1. CASE act.phase = "TRAVELING" /\ ~Live /\ w.minute >= act.expected
      <4>1. /\ Good(met) /\ SameTrip(w, met, a)
            /\ met.act[a].arrived = act.arrived \cup act.agents
        BY <3>1, ArriveParticipantsGood
      <4>2. WentOn(w, met, a)
        BY <3>1, ArriveWentOn
      <4> HIDE DEF met
      <4>3. met.act[a].arrived = met.act[a].agents /\ a \in DOMAIN met.act
        BY <4>1 DEF SameTrip, Good, Placed
      <4>4. WentOn(met, there, a)
        BY <4>1, <4>3, FinishWentOn
      <4>5. WentOn(w, there, a)
        BY <4>2, <4>4, WentOnTwice
      <4>6. QED BY <3>1, <4>5
    <3>2. CASE ~(act.phase = "TRAVELING" /\ ~Live /\ w.minute >= act.expected)
      BY <3>2, WentNowhere
    <3>3. QED BY <3>1, <3>2
  <2>2. v \in IF started.act[a].phase = "PERFORMING" /\ w.minute >= act.end
              THEN ResolveAction(started, a) ELSE {started}
    BY <1>3 DEF Progress
  <2> HIDE DEF arrived, there, met
  <2>3. /\ WentOn(w, started, a)
        /\ act.phase = "TRAVELING" =>
             started.act[a].phase = "TRAVELING" \/ (~Live /\ w.minute >= act.expected)
    <3>1. CASE arrived.act[a].phase = "ALIGNING" /\ w.minute >= act.start
      <4>1. Good(arrived) /\ a \in DOMAIN arrived.act
        BY <2>1 DEF WentOn
      <4>2. arrived.act[a].arrived = arrived.act[a].agents
        BY <3>1, <4>1, AllArrived
      <4>3. WentOn(arrived, StartPerforming(arrived, a), a)
        BY <4>1, <4>2, StartWentOn
      <4>4. WentOn(w, StartPerforming(arrived, a), a)
        BY <2>1, <4>3, WentOnTwice
      <4>5. QED BY <2>1, <3>1, <4>4
    <3>2. CASE ~(arrived.act[a].phase = "ALIGNING" /\ w.minute >= act.start)
      BY <2>1, <3>2
    <3>3. QED BY <3>1, <3>2
  <2> HIDE DEF started
  <2>4. \/ v = started
        \/ /\ started.act[a].phase = "PERFORMING" /\ w.minute >= act.end
           /\ v \in ResolveAction(started, a)
    BY <2>2
  <2>5. QED BY <1>3, <2>3, <2>4
<1>4. QED BY <1>2, <1>3

(* Only an invitation names an activity.                                   *)
LEMMA InvitationsInvite ==
  ASSUME NEW w, NEW p \in Agent, NEW c \in Candidates(w, p) \cup {IdleCandidate(w, p)},
         c.activity # None
  PROVE  Rule[c.behavior].invites # {}
<1>1. CASE c = IdleCandidate(w, p)
  BY <1>1 DEF IdleCandidate, Candidate
<1>2. CASE c \in Candidates(w, p)
  <2> DEFINE near == {t \in Agent \ {p} : w.loc[t] = w.loc[p] /\ w.cur[t] = 0}
  <2>1. PICK b \in Behavior :
          \E t \in IF Rule[b].social THEN near ELSE {None},
             activity \in IF Rule[b].invites = {} THEN {None} ELSE Rule[b].invites,
             S \in Bundles(w, b, Destination(w, p, b)) :
               c = Candidate(w, p, b, t, activity, S)
    BY <1>2 DEF Candidates
  <2>2. PICK t, activity, S : /\ activity \in IF Rule[b].invites = {} THEN {None}
                                                                      ELSE Rule[b].invites
                              /\ c = Candidate(w, p, b, t, activity, S)
    BY <2>1
  <2>3. c.activity = activity /\ c.behavior = b
    BY <2>2 DEF Candidate
  <2>4. QED BY <2>2, <2>3
<1>3. QED BY <1>1, <1>2

(* A decision: an accepted candidate of this agent, or the minute is lost. *)
LEMMA DecideShape ==
  ASSUME IInv, NEW p \in Agent, DecideAgent(p)
  PROVE  /\ stage = "decide" /\ p \in todo /\ ctx.cur[p] = 0 /\ auth' = auth
         /\ \/ /\ ~Accepts(ctx, IdleCandidate(source, p), FALSE)
               /\ ctx' = auth /\ source' = auth /\ todo' = {} /\ stage' = "idle"
               /\ fault' = "idle_rejected"
            \/ /\ \E c \in CandidateRecord : /\ c.actor = p
                                             /\ c.activity # None => Rule[c.behavior].invites # {}
                                             /\ Accepts(ctx, c, FALSE)
                                             /\ ctx' = CreateAction(ctx, c, FALSE)
               /\ todo' = todo \ {p}
               /\ UNCHANGED <<stage, source, fault>>
<1>1. stage = "decide" /\ p \in todo /\ auth' = auth /\ ctx.cur[p] = 0
  BY DEF DecideAgent
<1>2. ContextOK(source) /\ source.loc[p] # Traveling
  BY <1>1 DEF IInv
<1>3. PICK c \in Candidates(source, p) \cup {IdleCandidate(source, p)} :
        LET chosen == IF Accepts(ctx, c, FALSE) THEN c ELSE IdleCandidate(source, p)
        IN  IF Accepts(ctx, chosen, FALSE)
              THEN /\ ctx' = CreateAction(ctx, chosen, FALSE)
                   /\ todo' = todo \ {p}
                   /\ UNCHANGED <<stage, source, fault>>
              ELSE /\ ctx' = auth /\ source' = auth
                   /\ todo' = {}
                   /\ stage' = "idle"
                   /\ fault' = "idle_rejected"
  BY DEF DecideAgent
<1>4. DEFINE chosen == IF Accepts(ctx, c, FALSE) THEN c ELSE IdleCandidate(source, p)
<1>5. /\ chosen \in CandidateRecord /\ chosen.actor = p
      /\ chosen.activity # None => Rule[chosen.behavior].invites # {}
  <2>1. chosen \in Candidates(source, p) \cup {IdleCandidate(source, p)}
    OBVIOUS
  <2> HIDE DEF chosen
  <2>2. QED BY <1>2, <2>1, CandidatesFact, InvitationsInvite
<1>6. CASE Accepts(ctx, chosen, FALSE)
  <2>1. /\ ctx' = CreateAction(ctx, chosen, FALSE) /\ todo' = todo \ {p}
        /\ UNCHANGED <<stage, source, fault>>
    BY <1>3, <1>6
  <2> HIDE DEF chosen
  <2>2. QED BY <1>1, <1>5, <1>6, <2>1
<1>7. CASE ~Accepts(ctx, chosen, FALSE)
  <2>1. chosen = IdleCandidate(source, p)
    BY <1>7
  <2>2. /\ ctx' = auth /\ source' = auth /\ todo' = {} /\ stage' = "idle"
        /\ fault' = "idle_rejected"
    BY <1>3, <1>7
  <2>3. QED BY <1>1, <1>7, <2>1, <2>2
<1>8. QED BY <1>6, <1>7

(* _commit installs the candidate state or goes back to the checkpoint.    *)
LEMMA InstallShape ==
  ASSUME NEW v, Install(v)
  PROVE  /\ stage' = "idle" /\ todo' = {}
         /\ ctx' = auth' /\ source' = auth'
         /\ (AuthorityInvariants(v) /\ auth' = v /\ fault' = "none") \/ auth' = auth
BY DEF Install

(* A report or a call is a trip that goes on, or an action that ends.      *)
LEMMA ReportShape ==
  ASSUME IInv, Report
  PROVE  \E a \in DOMAIN auth.act : \E v :
           /\ stage = "idle" /\ (Live \/ Cancels)
           /\ Install(v)
           /\ WentOn(auth, v, a) \/ ActionEnds(auth, v, a)
<1>1. Good(auth)
  BY DEF IInv
<1>2. PICK a \in DOMAIN auth.act :
        \/ \E p \in Agent : MovementArrived(a, p)
        \/ \E phase \in {"FAILED", "CANCELLED"} : MovementEnded(a, phase) \/ EndAction(a, phase)
  BY DEF Report
<1>3. ASSUME NEW p \in Agent, MovementArrived(a, p)
      PROVE  \E v : /\ stage = "idle" /\ (Live \/ Cancels)
                    /\ Install(v) /\ WentOn(auth, v, a)
  <2>1. DEFINE u == ArriveParticipants(auth, a, {p})
               v == IF BarrierMet(u, a) THEN FinishArrivalBarrier(u, a) ELSE u
  <2>2. /\ Live /\ stage = "idle" /\ auth.act[a].phase = "TRAVELING"
        /\ {p} \subseteq auth.act[a].agents /\ Install(v)
    BY <1>3 DEF MovementArrived
  <2>3. Good(u) /\ SameTrip(auth, u, a)
    BY <1>1, <2>2, ArriveParticipantsGood
  <2>4. WentOn(auth, u, a)
    BY <1>1, <2>2, ArriveWentOn
  <2> HIDE DEF u
  <2>5. WentOn(auth, v, a)
    <3>1. CASE BarrierMet(u, a)
      <4>1. a \in DOMAIN u.act
        BY <2>3 DEF SameTrip
      <4>2. WentOn(u, FinishArrivalBarrier(u, a), a)
        BY <2>3, <3>1, <4>1, FinishWentOn DEF BarrierMet
      <4>3. QED BY <2>4, <3>1, <4>2, WentOnTwice
    <3>2. QED BY <2>4, <3>1
  <2> HIDE DEF v
  <2>6. QED BY <2>2, <2>5
<1>4. ASSUME NEW phase \in {"FAILED", "CANCELLED"},
             MovementEnded(a, phase) \/ EndAction(a, phase)
      PROVE  \E v : /\ stage = "idle" /\ (Live \/ Cancels)
                    /\ Install(v) /\ ActionEnds(auth, v, a)
  <2>1. DEFINE v == TerminateAction(auth, a, phase)
  <2>2. stage = "idle" /\ (Live \/ Cancels) /\ Install(v)
    BY <1>4 DEF MovementEnded, EndAction
  <2>3. ActionEnds(auth, v, a)
    BY <1>1, TerminateEnds
  <2> HIDE DEF v
  <2>4. QED BY <2>2, <2>3
<1>5. QED BY <1>2, <1>3, <1>4

-----------------------------------------------------------------------------
(* What a commit changes of the engagements.                               *)

(* The reservations an action keeps to its end.                            *)
Kept(w, a) == {r \in w.act[a].resv : r.kind # "LOCATION"}

(* From w to v no action changed what it is or what it keeps, new actions  *)
(* have new ids, and a joint one stands for an action of B that is gone,   *)
(* an invitation of the same agents to what they now do.                   *)
Follows(w, v, B) ==
  /\ v.next >= w.next
  /\ \A a \in DOMAIN v.act :
       IF a \in DOMAIN w.act
         THEN /\ v.act[a].agents = w.act[a].agents
              /\ v.act[a].behavior = w.act[a].behavior
              /\ v.act[a].activity = w.act[a].activity
              /\ v.act[a].joint = w.act[a].joint
              /\ Kept(v, a) = Kept(w, a)
         ELSE a >= w.next
  /\ \A a \in DOMAIN v.act \ DOMAIN w.act :
       v.act[a].joint => \E b \in B \ DOMAIN v.act :
                            /\ w.act[b].activity = v.act[a].behavior
                            /\ w.act[b].agents = v.act[a].agents

(* The agents of an action are its actor and its target.                   *)
Paired(w) == \A a \in DOMAIN w.act : w.act[a].agents = Participants(w.act[a])

LEMMA FollowsOn ==
  ASSUME NEW u, Good(u), NEW w, NEW v, NEW A, A \subseteq DOMAIN u.act,
         NEW B, B \subseteq A \cap DOMAIN w.act,
         Good(w), Good(v), Follows(u, w, A), Follows(w, v, B)
  PROVE  Follows(u, v, A)
<1>1. /\ u.next \in Nat /\ w.next \in Nat /\ v.next \in Nat
      /\ u.next <= w.next /\ w.next <= v.next
      /\ \A a \in DOMAIN u.act : a \in Nat /\ a < u.next
      /\ \A a \in DOMAIN v.act : a \in Nat
  BY DEF Good, ContextOK, Follows
<1>2. u.next <= v.next
  BY <1>1
<1>3. \A a \in DOMAIN v.act : a \notin DOMAIN w.act => a >= u.next /\ a \notin DOMAIN u.act
  BY <1>1 DEF Follows
<1>4. ASSUME NEW a \in DOMAIN v.act
      PROVE  IF a \in DOMAIN u.act
               THEN /\ v.act[a].agents = u.act[a].agents
                    /\ v.act[a].behavior = u.act[a].behavior
                    /\ v.act[a].activity = u.act[a].activity
                    /\ v.act[a].joint = u.act[a].joint
                    /\ Kept(v, a) = Kept(u, a)
               ELSE a >= u.next
  BY <1>3 DEF Follows
<1>5. ASSUME NEW a \in DOMAIN v.act \ DOMAIN u.act, v.act[a].joint
      PROVE  \E b \in A \ DOMAIN v.act : /\ u.act[b].activity = v.act[a].behavior
                                       /\ u.act[b].agents = v.act[a].agents
  <2>1. CASE a \in DOMAIN w.act
    <3>1. /\ w.act[a].joint /\ v.act[a].behavior = w.act[a].behavior
          /\ v.act[a].agents = w.act[a].agents
      BY <1>5, <2>1 DEF Follows
    <3>2. PICK b \in A \ DOMAIN w.act : /\ u.act[b].activity = w.act[a].behavior
                                      /\ u.act[b].agents = w.act[a].agents
      BY <1>5, <2>1, <3>1 DEF Follows
    <3>3. b \notin DOMAIN v.act
      BY <1>3, <3>2
    <3>4. QED BY <3>1, <3>2, <3>3
  <2>2. CASE a \notin DOMAIN w.act
    <3>1. PICK b \in B \ DOMAIN v.act : /\ w.act[b].activity = v.act[a].behavior
                                        /\ w.act[b].agents = v.act[a].agents
      BY <1>5, <2>2 DEF Follows
    <3>2. w.act[b].activity = u.act[b].activity /\ w.act[b].agents = u.act[b].agents
      BY <3>1 DEF Follows
    <3>3. QED BY <3>1, <3>2
  <2>3. QED BY <2>1, <2>2
<1>6. QED BY <1>2, <1>4, <1>5 DEF Follows

(* An action keeps what it reserved, save the room at its destination.     *)
LEMMA WentOnFollows ==
  ASSUME NEW w, Good(w), NEW a \in DOMAIN w.act, NEW v, WentOn(w, v, a)
  PROVE  Follows(w, v, {}) /\ (Paired(w) => Paired(v))
<1>1. /\ \A r \in w.resv : r \in w.act[a].resv <=> r.owner = a
      /\ \A r \in v.resv : r \in v.act[a].resv <=> r.owner = a
      /\ w.act[a].resv \subseteq w.resv /\ v.act[a].resv \subseteq v.resv
      /\ v.resv \subseteq w.resv
      /\ \A r \in w.resv \ v.resv : r.kind = "LOCATION"
  BY DEF WentOn, Good, Ledger
<1>2. Kept(v, a) = Kept(w, a)
  BY <1>1 DEF Kept
<1>3. \A b \in DOMAIN w.act : b # a => Kept(v, b) = Kept(w, b)
  BY DEF Kept, WentOn
<1>4. v.next = w.next /\ w.next \in Nat
  BY DEF WentOn, Good, ContextOK
<1>5. Follows(w, v, {})
  BY <1>2, <1>3, <1>4 DEF Follows, WentOn
<1>6. ASSUME Paired(w), NEW b \in DOMAIN v.act
      PROVE  v.act[b].agents = Participants(v.act[b])
  <2>1. b \in DOMAIN w.act /\ w.act[b].agents = Participants(w.act[b])
    BY <1>6 DEF Paired, WentOn
  <2>2. CASE b = a
    BY <2>1, <2>2 DEF WentOn, Participants
  <2>3. CASE b # a
    BY <2>1, <2>3 DEF WentOn
  <2>4. QED BY <2>2, <2>3
<1>7. QED BY <1>5, <1>6 DEF Paired

LEMMA ActionEndsFollows ==
  ASSUME NEW w, Good(w), NEW a \in DOMAIN w.act, NEW v, ActionEnds(w, v, a)
  PROVE  Follows(w, v, {}) /\ (Paired(w) => Paired(v))
<1>1. /\ DOMAIN v.act = DOMAIN w.act \ {a} /\ \A b \in DOMAIN v.act : v.act[b] = w.act[b]
      /\ v.next = w.next /\ w.next \in Nat
  BY DEF ActionEnds, Good, ContextOK
<1>2. \A b \in DOMAIN v.act : Kept(v, b) = Kept(w, b)
  BY <1>1 DEF Kept
<1>3. QED BY <1>1, <1>2 DEF Follows, Paired

LEMMA ActionBeginsFollows ==
  ASSUME NEW w, Good(w), NEW c \in CandidateRecord, NEW joint \in BOOLEAN, NEW R, NEW v,
         ActionBegins(w, v, c, joint, R), NEW B,
         joint => \E b \in B \ DOMAIN v.act : /\ w.act[b].activity = c.behavior
                                             /\ w.act[b].agents = Participants(c)
  PROVE  Follows(w, v, B) /\ (Paired(w) => Paired(v))
<1>1. /\ DOMAIN v.act = DOMAIN w.act \cup {w.next} /\ \A b \in DOMAIN w.act : v.act[b] = w.act[b]
      /\ v.next = w.next + 1 /\ w.next \in Nat
      /\ v.act[w.next].joint = joint /\ v.act[w.next].behavior = c.behavior
      /\ v.act[w.next].agents = Participants(c)
      /\ w.next \notin DOMAIN w.act
  BY DEF ActionBegins, Good, ContextOK
<1>2. \A b \in DOMAIN w.act : Kept(v, b) = Kept(w, b)
  BY <1>1 DEF Kept
<1>3. Follows(w, v, B)
  BY <1>1, <1>2 DEF Follows
<1>4. ASSUME Paired(w), NEW b \in DOMAIN v.act
      PROVE  v.act[b].agents = Participants(v.act[b])
  <2>1. CASE b = w.next
    <3>1. v.act[b].actor = c.actor /\ v.act[b].target = c.target
      BY <2>1 DEF ActionBegins
    <3>2. QED BY <1>1, <2>1, <3>1 DEF Participants
  <2>2. CASE b # w.next
    BY <1>1, <1>4, <2>2 DEF Paired
  <2>3. QED BY <2>1, <2>2
<1>5. QED BY <1>3, <1>4 DEF Paired

(* One action of _progress_actions: the joint action stands for it.        *)
LEMMA ProgressFollows ==
  ASSUME NEW w, Good(w), Paired(w), NEW a \in DOMAIN w.act, NEW v \in Progress(w, a)
  PROVE  Good(v) /\ Paired(v) /\ Follows(w, v, {a})
<1>1. ASSUME NEW x, NEW y, Good(x), Paired(x), DOMAIN x.act = DOMAIN w.act,
             Follows(w, x, {}), Good(y), Follows(x, y, {a}), Paired(y)
      PROVE  Good(y) /\ Paired(y) /\ Follows(w, y, {a})
  <2>1. Follows(w, x, {a})
    BY <1>1 DEF Follows
  <2>2. {a} \subseteq DOMAIN w.act /\ {a} \subseteq {a} \cap DOMAIN x.act
    BY <1>1
  <2>3. Follows(w, y, {a})
    BY <1>1, <2>1, <2>2, FollowsOn
  <2>4. QED BY <1>1, <2>3
<1>2. ASSUME NEW x, Good(x), Paired(x), a \in DOMAIN x.act, NEW y, ActionEnds(x, y, a)
      PROVE  Good(y) /\ Paired(y) /\ Follows(x, y, {a})
  <2>1. Good(y) /\ Paired(y) /\ Follows(x, y, {})
    BY <1>2, ActionEndsFollows DEF ActionEnds
  <2>2. QED BY <2>1 DEF Follows
<1>3. CASE Live /\ w.act[a].phase = "TRAVELING" /\ v = TerminateAction(w, a, "FAILED")
  <2>1. ActionEnds(w, TerminateAction(w, a, "FAILED"), a)
    BY TerminateEnds
  <2>2. QED BY <1>2, <1>3, <2>1
<1>4. ASSUME NEW u, WentOn(w, u, a),
             v = u \/ (u.act[a].phase = "PERFORMING" /\ v \in ResolveAction(u, a))
      PROVE  Good(v) /\ Paired(v) /\ Follows(w, v, {a})
  <2>1. /\ Good(u) /\ Paired(u) /\ Follows(w, u, {}) /\ DOMAIN u.act = DOMAIN w.act
        /\ a \in DOMAIN u.act
    BY <1>4, WentOnFollows DEF WentOn
  <2>2. CASE v = u
    BY <2>1, <2>2 DEF Follows
  <2>3. CASE v # u
    <3>1. u.act[a].phase # "TRAVELING" /\ v \in ResolveAction(u, a)
      BY <1>4, <2>3
    <3>2. u.act[a].arrived = u.act[a].agents
      BY <2>1, <3>1, AllArrived
    <3>3. DEFINE freed == TerminateAction(u, a, "COMPLETED")
                 paying == CommitReservedResources(u, a)
                 settled == TerminateAction(paying, a, "COMPLETED")
    <3>4. ActionEnds(u, freed, a)
      BY <2>1, <3>2, TerminateEnds
    <3>5. Good(settled) /\ Paired(settled) /\ Follows(u, settled, {a})
      <4>1. Good(paying) /\ paying.act = u.act /\ paying.next = u.next
        BY <2>1, CommitReservedResourcesGood
      <4> HIDE DEF paying
      <4>2. ActionEnds(paying, settled, a)
        BY <2>1, <3>2, <4>1, TerminateEnds
      <4> HIDE DEF settled
      <4>3. Good(settled) /\ Paired(settled) /\ Follows(paying, settled, {a})
        BY <1>2, <2>1, <4>1, <4>2 DEF Paired
      <4>4. Follows(u, settled, {a})
        BY <4>1, <4>3 DEF Follows, Kept
      <4>5. QED BY <4>3, <4>4
    <3> HIDE DEF freed, settled
    <3>6. ASSUME NEW c \in CandidateRecord, Accepts(freed, c, TRUE),
                 v = CreateAction(freed, c, TRUE),
                 c.behavior = u.act[a].activity,
                 c.actor = u.act[a].actor, c.target = u.act[a].target
          PROVE  Good(v) /\ Paired(v) /\ Follows(u, v, {a})
      <4>1. Good(freed) /\ Paired(freed)
        BY <1>2, <2>1, <3>4
      <4>2. PICK R : ActionBegins(freed, v, c, TRUE, R)
        BY <3>6, <4>1, CreateBegins
      <4>3. /\ DOMAIN freed.act = DOMAIN u.act \ {a} /\ freed.next = u.next
            /\ \A b \in DOMAIN freed.act : freed.act[b] = u.act[b]
            /\ DOMAIN v.act = DOMAIN freed.act \cup {freed.next}
            /\ \A b \in DOMAIN freed.act : v.act[b] = freed.act[b]
            /\ v.next = freed.next + 1 /\ u.next \in Nat
            /\ DOMAIN u.act \subseteq 1 .. u.next - 1
            /\ v.act[u.next].behavior = c.behavior
            /\ v.act[u.next].agents = Participants(c)
        BY <2>1, <3>4, <4>2 DEF ActionEnds, ActionBegins, Good, ContextOK
      <4>4. Participants(c) = u.act[a].agents
        BY <2>1, <3>6 DEF Paired, Participants
      <4>5. /\ \A b \in DOMAIN v.act : b \in DOMAIN u.act => /\ v.act[b] = u.act[b]
                                                             /\ Kept(v, b) = Kept(u, b)
            /\ \A b \in DOMAIN v.act : b \notin DOMAIN u.act => b = u.next
            /\ a \notin DOMAIN v.act /\ v.next >= u.next
        BY <2>1, <4>3 DEF Kept
      <4>6. Follows(u, v, {a})
        <5>1. u.next <= v.next
          BY <4>5
        <5>2. ASSUME NEW b \in DOMAIN v.act
              PROVE  IF b \in DOMAIN u.act
                       THEN /\ v.act[b].agents = u.act[b].agents
                            /\ v.act[b].behavior = u.act[b].behavior
                            /\ v.act[b].activity = u.act[b].activity
                            /\ v.act[b].joint = u.act[b].joint
                            /\ Kept(v, b) = Kept(u, b)
                       ELSE b >= u.next
          <6>1. CASE b \in DOMAIN u.act
            <7>1. v.act[b] = u.act[b] /\ Kept(v, b) = Kept(u, b)
              BY <4>5, <6>1
            <7>2. QED BY <6>1, <7>1
          <6>2. CASE b \notin DOMAIN u.act
            <7>1. b = u.next /\ u.next \in Nat
              BY <4>3, <4>5, <6>2
            <7>2. b >= u.next
              BY <7>1
            <7>3. QED BY <6>2, <7>2
          <6>3. QED BY <6>1, <6>2
        <5>3. ASSUME NEW b \in DOMAIN v.act \ DOMAIN u.act, v.act[b].joint
              PROVE  \E d \in {a} \ DOMAIN v.act : /\ u.act[d].activity = v.act[b].behavior
                                                   /\ u.act[d].agents = v.act[b].agents
          <6>1. b = u.next
            BY <4>5
          <6>2. u.act[a].activity = v.act[b].behavior /\ u.act[a].agents = v.act[b].agents
            BY <3>6, <4>3, <4>4, <6>1
          <6>3. QED BY <4>5, <6>2
        <5>4. QED BY <5>1, <5>2, <5>3 DEF Follows
      <4>7. Good(v) /\ Paired(v)
        <5>1. Good(v)
          BY <4>2 DEF ActionBegins
        <5>2. ASSUME NEW b \in DOMAIN v.act PROVE v.act[b].agents = Participants(v.act[b])
          <6>1. CASE b \in DOMAIN u.act
            BY <2>1, <4>5, <6>1 DEF Paired
          <6>2. CASE b \notin DOMAIN u.act
            <7>1. b = freed.next
              BY <4>3, <4>5, <6>2
            <7>2. v.act[b].actor = c.actor /\ v.act[b].target = c.target
                  /\ v.act[b].agents = Participants(c)
              BY <4>2, <7>1 DEF ActionBegins
            <7>3. QED BY <7>2 DEF Participants
          <6>3. QED BY <6>1, <6>2
        <5>3. QED BY <5>1, <5>2 DEF Paired
      <4>8. QED BY <4>6, <4>7
    <3>7. \/ v = settled \/ v = freed
          \/ \E c \in CandidateRecord : /\ Accepts(freed, c, TRUE)
                                        /\ v = CreateAction(freed, c, TRUE)
                                        /\ c.behavior = u.act[a].activity
                                        /\ c.actor = u.act[a].actor
                                        /\ c.target = u.act[a].target
      BY <2>1, <3>1, ResolveShape DEF freed, settled
    <3>8. Good(v) /\ Paired(v) /\ Follows(u, v, {a})
      <4>1. Good(freed) /\ Paired(freed) /\ Follows(u, freed, {a})
        BY <1>2, <2>1, <3>4
      <4>2. QED BY <3>5, <3>6, <3>7, <4>1
    <3>9. QED BY <1>1, <2>1, <3>8
  <2>4. QED BY <2>2, <2>3
<1>5. QED BY <1>3, <1>4, ProgressShape

(* The inductive invariant: whatever a minute has done so far, its context *)
(* follows the checkpoint.                                                 *)
FInv ==
  /\ IInv
  /\ Paired(auth) /\ Paired(ctx)
  /\ Follows(auth, ctx, DOMAIN auth.act)
  /\ stage = "progress" => todo \subseteq DOMAIN auth.act

(* What a step does to the checkpoint.                                     *)
LEMMA FollowsItself ==
  ASSUME NEW w, Good(w)
  PROVE  Follows(w, w, DOMAIN w.act)
<1>1. w.next \in Nat
  BY DEF Good, ContextOK
<1>2. QED BY <1>1 DEF Follows

LEMMA InitFInv ==
  ASSUME Init
  PROVE  FInv
<1>1. IInv
  BY InitInv
<1>2. Good(auth) /\ ctx = auth /\ stage = "idle"
  BY <1>1 DEF Init, IInv
<1>3. Paired(auth)
  <2>1. DOMAIN auth.act = {}
    BY DEF Init, InitialContext
  <2>2. QED BY <2>1 DEF Paired
<1>4. QED BY <1>1, <1>2, <1>3, FollowsItself DEF FInv

LEMMA NextFInv ==
  ASSUME FInv, [Next]_vars
  PROVE  FInv' /\ Good(auth) /\ Good(auth') /\ Follows(auth, auth', DOMAIN auth.act)
<1>1. IInv' /\ IInv
  BY NextInv DEF FInv
<1>2. /\ Good(auth) /\ Good(ctx) /\ Good(auth') /\ Good(ctx')
      /\ Paired(auth) /\ Paired(ctx)
      /\ Follows(auth, ctx, DOMAIN auth.act) /\ Follows(auth, auth, DOMAIN auth.act)
  BY <1>1, FollowsItself DEF FInv, IInv
<1>3. ASSUME NEW v, Good(v), Paired(v), Follows(auth, v, DOMAIN auth.act), Install(v)
      PROVE  FInv' /\ Follows(auth, auth', DOMAIN auth.act)
  <2>1. ctx' = auth' /\ (auth' = v \/ auth' = auth) /\ stage' = "idle"
    BY <1>3, InstallShape
  <2>2. Follows(auth', auth', DOMAIN auth'.act)
    BY <1>2, FollowsItself
  <2>3. Paired(auth') /\ Follows(auth, auth', DOMAIN auth.act)
    BY <1>2, <1>3, <2>1
  <2>4. QED BY <1>1, <2>1, <2>2, <2>3 DEF FInv
<1>4. ASSUME NEW v, Good(v), Paired(v), NEW B, B \subseteq DOMAIN auth.act \cap DOMAIN ctx.act,
             Follows(ctx, v, B)
      PROVE  Follows(auth, v, DOMAIN auth.act)
  BY <1>2, <1>4, FollowsOn
<1>5. CASE BeginTick
  <2>1. /\ auth' = auth /\ ctx'.act = auth.act /\ ctx'.next = auth.next
        /\ stage' = "progress" /\ todo' = DOMAIN auth.act
    BY <1>2, <1>5 DEF BeginTick, Good, ContextOK
  <2>2. Paired(ctx') /\ Follows(auth, ctx', DOMAIN auth.act)
    BY <1>2, <2>1 DEF Paired, Follows, Kept
  <2>3. QED BY <1>1, <1>2, <2>1, <2>2 DEF FInv
<1>6. CASE ProgressAction
  <2>1. PICK a \in todo : ctx' \in Progress(ctx, a) /\ todo' = todo \ {a}
    BY <1>6 DEF ProgressAction
  <2>2. /\ a \in DOMAIN ctx.act /\ auth' = auth /\ a \in DOMAIN auth.act
        /\ todo \subseteq DOMAIN auth.act /\ stage = "progress"
    BY <1>1, <1>6, <2>1 DEF ProgressAction, IInv, FInv
  <2>3. PICK v : v = ctx'
    OBVIOUS
  <2>4. Good(v) /\ Paired(v) /\ Follows(ctx, v, {a})
    BY <1>2, <2>1, <2>2, <2>3, ProgressFollows
  <2>5. Follows(auth, v, DOMAIN auth.act)
    BY <1>4, <2>2, <2>4
  <2>6. Paired(ctx') /\ Follows(auth, ctx', DOMAIN auth.act)
    BY <2>3, <2>4, <2>5
  <2>7. todo' \subseteq DOMAIN auth.act
    BY <2>1, <2>2
  <2>8. QED BY <1>1, <1>2, <2>2, <2>6, <2>7 DEF FInv
<1>7. CASE BeginDecisions
  <2>1. auth' = auth /\ ctx' = ctx /\ stage' = "decide"
    BY <1>7 DEF BeginDecisions
  <2>2. QED BY <1>1, <1>2, <2>1 DEF FInv
<1>8. ASSUME NEW p \in Agent, SkipCommitted(p)
      PROVE  FInv' /\ Follows(auth, auth', DOMAIN auth.act)
  <2>1. auth' = auth /\ ctx' = ctx /\ stage' = "decide"
    BY <1>8 DEF SkipCommitted
  <2>2. QED BY <1>1, <1>2, <2>1 DEF FInv
<1>9. ASSUME NEW p \in Agent, DecideAgent(p)
      PROVE  FInv' /\ Follows(auth, auth', DOMAIN auth.act)
  <2>1. /\ auth' = auth
        /\ \/ ctx' = auth /\ stage' = "idle"
           \/ /\ \E c \in CandidateRecord : /\ Accepts(ctx, c, FALSE)
                                            /\ ctx' = CreateAction(ctx, c, FALSE)
              /\ stage' = "decide"
    BY <1>1, <1>9, DecideShape
  <2>2. CASE ctx' = auth /\ stage' = "idle"
    BY <1>1, <1>2, <2>1, <2>2 DEF FInv
  <2>3. ASSUME NEW c \in CandidateRecord, Accepts(ctx, c, FALSE),
               ctx' = CreateAction(ctx, c, FALSE), stage' = "decide"
        PROVE  FInv'
    <3>1. PICK v : v = ctx'
      OBVIOUS
    <3>2. PICK R : ActionBegins(ctx, v, c, FALSE, R)
      BY <1>2, <2>3, <3>1, CreateBegins
    <3>3. Good(v) /\ Paired(v) /\ Follows(ctx, v, {})
      <4>1. Good(v)
        BY <3>2 DEF ActionBegins
      <4>2. Follows(ctx, v, {}) /\ (Paired(ctx) => Paired(v))
        BY <1>2, <2>3, <3>2, ActionBeginsFollows
      <4>3. QED BY <1>2, <4>1, <4>2
    <3>4. Follows(auth, v, DOMAIN auth.act)
      BY <1>4, <3>3
    <3>5. Paired(ctx') /\ Follows(auth, ctx', DOMAIN auth.act)
      BY <3>1, <3>3, <3>4
    <3>6. QED BY <1>1, <1>2, <2>1, <2>3, <3>5 DEF FInv
  <2>4. QED BY <1>2, <2>1, <2>2, <2>3
<1>10. CASE Commit
  <2>1. Install(ctx)
    BY <1>10 DEF Commit
  <2>2. QED BY <1>2, <1>3, <2>1
<1>11. CASE Report
  <2>1. PICK a \in DOMAIN auth.act :
          \E v : Install(v) /\ (WentOn(auth, v, a) \/ ActionEnds(auth, v, a))
    BY <1>1, <1>11, ReportShape
  <2>2. PICK v : Install(v) /\ (WentOn(auth, v, a) \/ ActionEnds(auth, v, a))
    BY <2>1
  <2>3. Good(v) /\ Paired(v) /\ Follows(auth, v, {})
    BY <1>2, <2>2, WentOnFollows, ActionEndsFollows DEF WentOn, ActionEnds
  <2>4. Follows(auth, v, DOMAIN auth.act)
    BY <2>3 DEF Follows
  <2>5. Install(v)
    BY <2>2
  <2>6. QED BY <1>2, <1>3, <2>3, <2>4, <2>5
<1>12. CASE UNCHANGED vars
  <2>1. auth' = auth /\ ctx' = ctx /\ stage' = stage /\ todo' = todo
    BY <1>12 DEF vars
  <2>2. QED BY <1>1, <1>2, <2>1 DEF FInv
<1>13. QED BY <1>2, <1>5, <1>6, <1>7, <1>8, <1>9, <1>10, <1>11, <1>12 DEF Next, Tick


(* The slots an action holds are kept to its end.                          *)
Slots(S) == {<<r.object, r.slot>> : r \in {x \in S : x.kind = "OBJECT_SLOT"}}

LEMMA SlotsKept ==
  ASSUME NEW w, NEW a
  PROVE  Slots(w.act[a].resv) = Slots(Kept(w, a))
<1>1. {x \in w.act[a].resv : x.kind = "OBJECT_SLOT"}
        = {x \in Kept(w, a) : x.kind = "OBJECT_SLOT"}
  BY DEF Kept
<1>2. QED BY <1>1, Zenon DEF Slots

LEMMA HeldFact ==
  ASSUME NEW w
  PROVE  /\ DOMAIN Held(w) = DOMAIN w.act
         /\ \A a \in DOMAIN w.act : Held(w)[a] = w.act[a].agents \cup Slots(w.act[a].resv)
BY DEF Held, Slots

(* What two actions hold has nothing in common.                            *)
LEMMA HeldApart ==
  ASSUME NEW w, Good(w), NEW a \in DOMAIN w.act, NEW b \in DOMAIN w.act, a # b
  PROVE  Held(w)[a] \cap Held(w)[b] = {}
<1>1. /\ \A r \in w.act[a].resv : r \in w.resv /\ r.owner = a
      /\ \A r \in w.act[b].resv : r \in w.resv /\ r.owner = b
      /\ \A r \in w.resv : r.kind = "OBJECT_SLOT" =>
            /\ w.occupied[<<r.object, r.slot>>] = r.owner
            /\ <<r.object, r.slot>> \in SlotId
  BY DEF Good, Ledger, SlotLedger
<1>2. w.act[a].agents \subseteq Agent /\ w.act[b].agents \subseteq Agent
  BY DEF Good, ContextOK, ActionRecord
<1>3. w.act[a].agents \cap w.act[b].agents = {}
  BY <1>2 DEF Good, Ownership
<1>4. \A k \in Slots(w.act[a].resv) : k \in SlotId /\ w.occupied[k] = a
  BY <1>1 DEF Slots
<1>5. \A k \in Slots(w.act[b].resv) : k \in SlotId /\ w.occupied[k] = b
  BY <1>1 DEF Slots
<1>6. Agent \cap SlotId = {}
  BY AgentsAreNotSlots
<1>7. ASSUME NEW x, x \in Held(w)[a], x \in Held(w)[b]
      PROVE  FALSE
  <2>1. x \in w.act[a].agents \/ x \in Slots(w.act[a].resv)
    BY <1>7, HeldFact
  <2>2. x \in w.act[b].agents \/ x \in Slots(w.act[b].resv)
    BY <1>7, HeldFact
  <2>3. QED BY <1>2, <1>3, <1>4, <1>5, <1>6, <2>1, <2>2
<1>8. QED BY <1>7

(* A commit of the engine is a commit of the engagements.                  *)
LEMMA HeldCommit ==
  ASSUME Good(auth), Good(auth'), Follows(auth, auth', DOMAIN auth.act)
  PROVE  Engaged!Commit
<1>1. PICK w : w = auth
  OBVIOUS
<1>2. PICK v : v = auth'
  OBVIOUS
<1>3. Good(w) /\ Good(v) /\ Follows(w, v, DOMAIN w.act)
  BY <1>1, <1>2
<1>4. w.next \in Nat \ {0} /\ v.next \in Nat /\ v.next >= w.next
  BY <1>3 DEF Good, ContextOK, Follows
<1>5. ASSUME NEW a \in DOMAIN v.act
      PROVE  IF a \in DOMAIN w.act
               THEN Held(v)[a] = Held(w)[a]
               ELSE /\ a \in (w.next - 1) + 1 .. v.next - 1
                    /\ Held(v)[a] \in (SUBSET (Agent \cup SlotId)) \ {{}}
  <2>1. CASE a \in DOMAIN w.act
    <3>1. v.act[a].agents = w.act[a].agents /\ Kept(v, a) = Kept(w, a)
      BY <1>3, <2>1 DEF Follows
    <3>2. Slots(v.act[a].resv) = Slots(w.act[a].resv)
      <4>1. Slots(v.act[a].resv) = Slots(Kept(v, a)) /\ Slots(w.act[a].resv) = Slots(Kept(w, a))
        BY SlotsKept
      <4>2. QED BY <3>1, <4>1, Zenon
    <3>3. Held(v)[a] = v.act[a].agents \cup Slots(v.act[a].resv)
      BY HeldFact
    <3>4. Held(w)[a] = w.act[a].agents \cup Slots(w.act[a].resv)
      BY <2>1, HeldFact
    <3>5. Held(v)[a] = Held(w)[a]
      BY <3>1, <3>2, <3>3, <3>4, Zenon
    <3>6. QED BY <2>1, <3>5
  <2>2. CASE a \notin DOMAIN w.act
    <3>1. a >= w.next
      BY <1>3, <2>2 DEF Follows
    <3>2. a \in 1 .. v.next - 1
      BY <1>3 DEF Good, ContextOK
    <3>3. v.act[a].agents \subseteq Agent /\ v.act[a].agents # {}
      BY <1>3 DEF Good, ContextOK, ActionRecord, Placed
    <3>4. Slots(v.act[a].resv) \subseteq SlotId
      BY <1>3 DEF Slots, Good, Ledger
    <3>5. Held(v)[a] = v.act[a].agents \cup Slots(v.act[a].resv)
      BY HeldFact
    <3>6. Held(v)[a] \in (SUBSET (Agent \cup SlotId)) \ {{}}
      BY <3>3, <3>4, <3>5
    <3>7. a \in (w.next - 1) + 1 .. v.next - 1
      BY <1>4, <3>1, <3>2
    <3>8. QED BY <2>2, <3>6, <3>7
  <2>3. QED BY <2>1, <2>2
<1>6. /\ DOMAIN Held(v) = DOMAIN v.act /\ DOMAIN Held(w) = DOMAIN w.act
  BY HeldFact
<1>7. \A a, b \in DOMAIN Held(v) : a # b => Held(v)[a] \cap Held(v)[b] = {}
  BY <1>3, <1>6, HeldApart
<1>8. PICK was : was = Held(auth)
  OBVIOUS
<1>9. PICK is : is = Held(auth')
  OBVIOUS
<1>10. was = Held(w) /\ is = Held(v)
  BY <1>1, <1>2, <1>8, <1>9, Zenon
<1>11. /\ v.next - 1 >= w.next - 1
       /\ \A e \in DOMAIN is : IF e \in DOMAIN was
                               THEN is[e] = was[e]
                               ELSE /\ e \in (w.next - 1) + 1 .. v.next - 1
                                    /\ is[e] \in (SUBSET (Agent \cup SlotId)) \ {{}}
       /\ \A d, e \in DOMAIN is : d # e => is[d] \cap is[e] = {}
  BY <1>4, <1>5, <1>6, <1>7, <1>10
<1>12. QED BY <1>1, <1>2, <1>8, <1>9, <1>11 DEF Engaged!Commit, Engaged!NoneShared

LEMMA HeldAtFirst ==
  ASSUME Init
  PROVE  Engaged!Init
<1>1. DOMAIN auth.act = {} /\ auth.next = 1
  BY DEF Init, InitialContext
<1>2. Held(auth) = << >>
  BY <1>1 DEF Held
<1>3. QED BY <1>1, <1>2 DEF Engaged!Init

(* Between its first and its last commit an action holds all its agents    *)
(* and slots, taken together and given back together, and no two actions   *)
(* ever hold the same one: the authority refines Engagements.              *)
THEOREM EngagementsAreKept == Spec => HeldWhole
<1>1. Init => FInv /\ Engaged!Init
  BY InitFInv, HeldAtFirst
<1>2. FInv /\ [Next]_vars => FInv' /\ [Engaged!Commit]_<<Held(auth), auth.next - 1>>
  BY NextFInv, HeldCommit
<1>3. QED BY <1>1, <1>2, PTL DEF Spec, HeldWhole, Engaged!Spec

(* A joint action appears in the same commit that ends the invitation it   *)
(* answers, of the same two agents, whatever else the minute does.         *)
THEOREM JointsReplaceInvitations == Spec => JointReplacesInvitation
<1>1. Init => FInv
  BY InitFInv
<1>2. FInv /\ [Next]_vars =>
        /\ FInv'
        /\ [\A a \in DOMAIN auth'.act \ DOMAIN auth.act :
              auth'.act[a].joint =>
                \E b \in DOMAIN auth.act \ DOMAIN auth'.act :
                   /\ auth.act[b].activity = auth'.act[a].behavior
                   /\ auth.act[b].agents = auth'.act[a].agents]_auth
  <2>1. SUFFICES ASSUME FInv, [Next]_vars
                 PROVE  /\ FInv'
                        /\ \A a \in DOMAIN auth'.act \ DOMAIN auth.act :
                             auth'.act[a].joint =>
                               \E b \in DOMAIN auth.act \ DOMAIN auth'.act :
                                  /\ auth.act[b].activity = auth'.act[a].behavior
                                  /\ auth.act[b].agents = auth'.act[a].agents
    OBVIOUS
  <2>2. FInv' /\ Follows(auth, auth', DOMAIN auth.act)
    BY <2>1, NextFInv
  <2>3. QED BY <2>2 DEF Follows
<1>3. QED BY <1>1, <1>2, PTL DEF Spec, JointReplacesInvitation

-----------------------------------------------------------------------------
(* What is promised.                                                       *)

MoneyOf == [r \in ReservationRecord |-> r.money]
FoodOf == [r \in ReservationRecord |-> r.food]

(* The balances are amounts, a household has finitely many reservations of *)
(* them, and together these are covered.                                   *)
Covered(w) ==
  /\ w.money \in [Household -> Nat] /\ w.food \in [Household -> Nat]
  /\ \A h \in Household : IsFiniteSet(Resources(w.resv, h))
  /\ ResourceCover(w)

-----------------------------------------------------------------------------
(* What is reserved is a total.                                            *)

LEMMA Amounts ==
  /\ MoneyOf \in [ReservationRecord -> Nat]
  /\ FoodOf \in [ReservationRecord -> Nat]
BY DEF MoneyOf, FoodOf, ReservationRecord

LEMMA MoneyIsTotal ==
  ASSUME NEW R, R \subseteq ReservationRecord, NEW h, IsFiniteSet(Resources(R, h))
  PROVE  Money(R, h) = Total(MoneyOf, Resources(R, h))
<1>1. PICK S : S = Resources(R, h)
  OBVIOUS
<1>2. IsFiniteSet(S) /\ S \subseteq ReservationRecord
  BY <1>1 DEF Resources
<1>3. PICK g : Adds(g, MoneyOf, S)
  BY <1>2, AddsExists
<1>4. \A s \in SUBSET S : s # {} => Next1(s) \in ReservationRecord
  BY <1>2 DEF Next1
<1>5. g = [s \in SUBSET S |-> IF s = {} THEN 0
                              ELSE Next1(s).money + g[s \ {Next1(s)}]]
  BY <1>3, <1>4 DEF Adds, MoneyOf
<1>6. DEFINE iter == CHOOSE it : it = [s \in SUBSET S |->
                       IF s = {} THEN 0 ELSE Next1(s).money + it[s \ {Next1(s)}]]
<1>7. iter = [s \in SUBSET S |-> IF s = {} THEN 0
                              ELSE Next1(s).money + iter[s \ {Next1(s)}]]
  BY <1>5
<1>8. Money(R, h) = iter[S]
  BY <1>1 DEF Money, MapThenSumSet, MapThenFoldSet, Next1
<1>9. Adds(iter, MoneyOf, S)
  <2> HIDE DEF iter
  <2> QED BY <1>4, <1>7 DEF Adds, MoneyOf
<1> HIDE DEF iter
<1>10. QED BY <1>1, <1>2, <1>8, <1>9, AddsTotal

LEMMA FoodIsTotal ==
  ASSUME NEW R, R \subseteq ReservationRecord, NEW h, IsFiniteSet(Resources(R, h))
  PROVE  Food(R, h) = Total(FoodOf, Resources(R, h))
<1>1. PICK S : S = Resources(R, h)
  OBVIOUS
<1>2. IsFiniteSet(S) /\ S \subseteq ReservationRecord
  BY <1>1 DEF Resources
<1>3. PICK g : Adds(g, FoodOf, S)
  BY <1>2, AddsExists
<1>4. \A s \in SUBSET S : s # {} => Next1(s) \in ReservationRecord
  BY <1>2 DEF Next1
<1>5. g = [s \in SUBSET S |-> IF s = {} THEN 0
                              ELSE Next1(s).food + g[s \ {Next1(s)}]]
  BY <1>3, <1>4 DEF Adds, FoodOf
<1>6. DEFINE iter == CHOOSE it : it = [s \in SUBSET S |->
                       IF s = {} THEN 0 ELSE Next1(s).food + it[s \ {Next1(s)}]]
<1>7. iter = [s \in SUBSET S |-> IF s = {} THEN 0
                              ELSE Next1(s).food + iter[s \ {Next1(s)}]]
  BY <1>5
<1>8. Food(R, h) = iter[S]
  BY <1>1 DEF Food, MapThenSumSet, MapThenFoldSet, Next1
<1>9. Adds(iter, FoodOf, S)
  <2> HIDE DEF iter
  <2> QED BY <1>4, <1>7 DEF Adds, FoodOf
<1> HIDE DEF iter
<1>10. QED BY <1>1, <1>2, <1>8, <1>9, AddsTotal

(* What a part of the reservations holds, what is left without it.         *)
LEMMA Without ==
  ASSUME NEW R, R \subseteq ReservationRecord, NEW h, IsFiniteSet(Resources(R, h)),
         NEW Q, Q \subseteq R
  PROVE  /\ IsFiniteSet(Resources(Q, h)) /\ IsFiniteSet(Resources(R \ Q, h))
         /\ Money(R, h) \in Nat /\ Money(Q, h) \in Nat
         /\ Food(R, h) \in Nat /\ Food(Q, h) \in Nat
         /\ Money(R \ Q, h) = Money(R, h) - Money(Q, h)
         /\ Food(R \ Q, h) = Food(R, h) - Food(Q, h)
         /\ Money(Q, h) <= Money(R, h) /\ Food(Q, h) <= Food(R, h)
<1>1. PICK S : S = Resources(R, h)
  OBVIOUS
<1>2. PICK T : T = Resources(Q, h)
  OBVIOUS
<1>3. /\ T \subseteq S /\ Resources(R \ Q, h) = S \ T /\ S \subseteq ReservationRecord
      /\ Q \subseteq ReservationRecord /\ R \ Q \subseteq ReservationRecord
  BY <1>1, <1>2 DEF Resources
<1>4. IsFiniteSet(S) /\ IsFiniteSet(T) /\ IsFiniteSet(S \ T)
  BY <1>1, <1>3, FS_Subset, FS_Difference
<1>5. /\ Money(R, h) = Total(MoneyOf, S) /\ Money(Q, h) = Total(MoneyOf, T)
      /\ Money(R \ Q, h) = Total(MoneyOf, S \ T)
      /\ Food(R, h) = Total(FoodOf, S) /\ Food(Q, h) = Total(FoodOf, T)
      /\ Food(R \ Q, h) = Total(FoodOf, S \ T)
  BY <1>1, <1>2, <1>3, <1>4, MoneyIsTotal, FoodIsTotal
<1>6. /\ Total(MoneyOf, S \ T) = Total(MoneyOf, S) - Total(MoneyOf, T)
      /\ Total(MoneyOf, T) <= Total(MoneyOf, S)
      /\ Total(MoneyOf, S) \in Nat /\ Total(MoneyOf, T) \in Nat
  BY <1>3, <1>4, Amounts, TotalPart
<1>7. /\ Total(FoodOf, S \ T) = Total(FoodOf, S) - Total(FoodOf, T)
      /\ Total(FoodOf, T) <= Total(FoodOf, S)
      /\ Total(FoodOf, S) \in Nat /\ Total(FoodOf, T) \in Nat
  BY <1>3, <1>4, Amounts, TotalPart
<1>8. QED BY <1>2, <1>3, <1>4, <1>5, <1>6, <1>7

(* The reservations of an action are among those of the ledger.            *)
LEMMA OwnReservations ==
  ASSUME NEW w, Good(w), NEW a \in DOMAIN w.act
  PROVE  w.act[a].resv \subseteq w.resv /\ w.resv \subseteq ReservationRecord
BY DEF Good, ContextOK, Ledger

(* Giving reservations back leaves the others covered.                     *)
LEMMA CoveredAfterRelease ==
  ASSUME NEW w, Good(w), Covered(w),
         NEW v, v.money = w.money, v.food = w.food, v.resv \subseteq w.resv
  PROVE  Covered(v)
<1>1. w.resv \subseteq ReservationRecord
  BY DEF Good, ContextOK
<1>2. ASSUME NEW h \in Household
      PROVE  /\ IsFiniteSet(Resources(v.resv, h))
             /\ Money(v.resv, h) <= v.money[h] /\ Food(v.resv, h) <= v.food[h]
  <2>1. /\ IsFiniteSet(Resources(w.resv, h))
        /\ Money(w.resv, h) <= w.money[h] /\ Food(w.resv, h) <= w.food[h]
        /\ w.money[h] \in Nat /\ w.food[h] \in Nat
    BY DEF Covered, ResourceCover
  <2>2. /\ IsFiniteSet(Resources(v.resv, h))
        /\ Money(v.resv, h) <= Money(w.resv, h) /\ Food(v.resv, h) <= Food(w.resv, h)
        /\ Money(v.resv, h) \in Nat /\ Food(v.resv, h) \in Nat
        /\ Money(w.resv, h) \in Nat /\ Food(w.resv, h) \in Nat
    BY <1>1, <2>1, Without
  <2>3. QED BY <2>1, <2>2
<1>3. QED BY <1>2 DEF Covered, ResourceCover

(* _commit_reserved_resources and the release: what is paid was reserved.  *)
LEMMA CoveredAfterPayment ==
  ASSUME NEW w, Good(w), Covered(w), NEW a \in DOMAIN w.act,
         NEW v, v.money = CommitReservedResources(w, a).money,
         v.food = CommitReservedResources(w, a).food,
         v.resv = w.resv \ w.act[a].resv
  PROVE  Covered(v)
<1>1. DEFINE Q == w.act[a].resv
             paid == {r \in Q : r.kind = "HOUSEHOLD_RESOURCE"}
             gain(h) == Rule[w.act[a].behavior].gain * Cardinality(Resources(paid, h))
<1>2. /\ v.money = [h \in Household |-> w.money[h] - Money(paid, h)]
      /\ v.food = [h \in Household |-> w.food[h] - Food(paid, h) + gain(h)]
  BY DEF CommitReservedResources, Good, ContextOK
<1>3. Q \subseteq w.resv /\ w.resv \subseteq ReservationRecord
  BY OwnReservations
<1>4. \A h : Resources(paid, h) = Resources(Q, h)
  BY DEF Resources
<1>5. \A h : Money(paid, h) = Money(Q, h) /\ Food(paid, h) = Food(Q, h)
  BY <1>4 DEF Money, Food
<1>6. Rule[w.act[a].behavior].gain \in Nat
  BY SocietyConstants DEF Good, ContextOK, ActionRecord
<1> HIDE DEF Q, paid
<1>7. ASSUME NEW h \in Household
      PROVE  /\ IsFiniteSet(Resources(v.resv, h))
             /\ v.money[h] \in Nat /\ v.food[h] \in Nat
             /\ Money(v.resv, h) <= v.money[h] /\ Food(v.resv, h) <= v.food[h]
  <2>1. /\ IsFiniteSet(Resources(w.resv, h))
        /\ Money(w.resv, h) <= w.money[h] /\ Food(w.resv, h) <= w.food[h]
        /\ w.money[h] \in Nat /\ w.food[h] \in Nat
    BY DEF Covered, ResourceCover
  <2>2. /\ IsFiniteSet(Resources(Q, h)) /\ IsFiniteSet(Resources(w.resv \ Q, h))
        /\ Money(w.resv, h) \in Nat /\ Money(Q, h) \in Nat
        /\ Food(w.resv, h) \in Nat /\ Food(Q, h) \in Nat
        /\ Money(w.resv \ Q, h) = Money(w.resv, h) - Money(Q, h)
        /\ Food(w.resv \ Q, h) = Food(w.resv, h) - Food(Q, h)
        /\ Money(Q, h) <= Money(w.resv, h) /\ Food(Q, h) <= Food(w.resv, h)
    BY <1>3, <2>1, Without
  <2>3. gain(h) \in Nat
    <3>1. Cardinality(Resources(paid, h)) \in Nat
      BY <1>4, <2>2, FS_CardinalityType
    <3>2. QED BY <1>6, <3>1
  <2> HIDE DEF gain
  <2>4. /\ v.money[h] = w.money[h] - Money(Q, h)
        /\ v.food[h] = w.food[h] - Food(Q, h) + gain(h)
    BY <1>2, <1>5
  <2>5. v.resv = w.resv \ Q
    BY DEF Q
  <2>6. /\ Resources(v.resv, h) = Resources(w.resv \ Q, h)
        /\ Money(v.resv, h) = Money(w.resv \ Q, h)
        /\ Food(v.resv, h) = Food(w.resv \ Q, h)
    BY <2>5, Zenon
  <2>7. IsFiniteSet(Resources(v.resv, h))
    BY <2>2, <2>6, Zenon
  <2>8. QED BY <2>1, <2>2, <2>3, <2>4, <2>6, <2>7
<1>8. v.money \in [Household -> Nat] /\ v.food \in [Household -> Nat]
  BY <1>2, <1>7
<1>9. QED BY <1>7, <1>8 DEF Covered, ResourceCover

(* What a new action reserves of a household: at most one reservation, of  *)
(* exactly what the action costs that household.                           *)
LEMMA Charge ==
  ASSUME NEW w, w.next \in Nat, NEW c \in CandidateRecord, NEW joint \in BOOLEAN,
         NEW expires \in Nat, NEW h \in Household
  PROVE  LET R == Reservations(w, c, joint, expires)
         IN  \/ Resources(R, h) = {}
             \/ \E r \in ReservationRecord : /\ Resources(R, h) = {r}
                                             /\ r.money = MoneyCost(c, joint, h)
                                             /\ r.food = FoodCost(c, h)
                                             /\ MoneyCost(c, joint, h) + FoodCost(c, h) > 0
<1>1. DEFINE R == Reservations(w, c, joint, expires)
             charged == {k \in Household : MoneyCost(c, joint, k) + FoodCost(c, k) > 0}
             slots == SlotClaims(w, c, joint)
             res(k) == Reservation(w.next, expires, "HOUSEHOLD_RESOURCE", None, None, 0, k,
                                   MoneyCost(c, joint, k), FoodCost(c, k), None)
             P == {Reservation(w.next, expires, "PARTICIPANT", p, None, 0, None, 0, 0, None) :
                     p \in Participants(c)}
             O == {Reservation(w.next, expires, "OBJECT_SLOT", c.actor, k[1], k[2], None, 0,
                               0, None) : k \in slots}
             H == {res(k) : k \in charged}
             L == {Reservation(w.next, expires, "LOCATION", p, None, 0, None, 0, 0, c.dest) :
                     p \in Travelers(w, c)}
<1>2. R = P \cup O \cup H \cup L
  BY DEF Reservations
<1>3. /\ \A r \in P : r.kind = "PARTICIPANT"
      /\ \A r \in O : r.kind = "OBJECT_SLOT"
      /\ \A r \in L : r.kind = "LOCATION"
  BY DEF Reservation
<1>4. /\ \A k : res(k).kind = "HOUSEHOLD_RESOURCE"
      /\ \A k : res(k).household = k
      /\ res(h).money = MoneyCost(c, joint, h) /\ res(h).food = FoodCost(c, h)
  BY DEF Reservation
<1>5. res(h) \in ReservationRecord
  BY CostFact DEF Reservation, ReservationRecord, Kinds
<1> HIDE DEF P, O, L, res, R
<1>6. Resources(R, h) = {r \in H : r.household = h}
  BY <1>2, <1>3, <1>4 DEF Resources
<1>7. CASE h \in charged
  <2>1. Resources(R, h) = {res(h)}
    BY <1>4, <1>6, <1>7
  <2>2. QED BY <1>4, <1>5, <1>7, <2>1 DEF R
<1>8. CASE h \notin charged
  <2>1. Resources(R, h) = {}
    BY <1>4, <1>6, <1>8
  <2>2. QED BY <2>1 DEF R
<1>9. QED BY <1>7, <1>8

(* A new action is promised only what the Resolver has seen uncommitted.   *)
LEMMA CoveredAfterCreation ==
  ASSUME NEW w, Good(w), Covered(w), NEW c \in CandidateRecord, NEW joint \in BOOLEAN,
         Accepts(w, c, joint), NEW v, NEW R, ActionBegins(w, v, c, joint, R)
  PROVE  Covered(v)
<1>1. PICK expires \in Nat : R = Reservations(w, c, joint, expires)
  BY DEF ActionBegins
<1>2. /\ w.next \in Nat /\ w.resv \subseteq ReservationRecord
      /\ R \subseteq ReservationRecord /\ R \cap w.resv = {}
      /\ v.resv = w.resv \cup R /\ v.money = w.money /\ v.food = w.food
      /\ w.money \in [Household -> Nat] /\ w.food \in [Household -> Nat]
  BY DEF Good, ContextOK, ActionBegins, Covered
<1>3. ASSUME NEW h \in Household
      PROVE  /\ IsFiniteSet(Resources(v.resv, h))
             /\ Money(v.resv, h) <= v.money[h] /\ Food(v.resv, h) <= v.food[h]
  <2>1. PICK S : S = Resources(w.resv, h)
    OBVIOUS
  <2>2. PICK T : T = Resources(R, h)
    OBVIOUS
  <2>3. /\ S \subseteq ReservationRecord /\ T \subseteq ReservationRecord /\ S \cap T = {}
        /\ Resources(v.resv, h) = S \cup T /\ IsFiniteSet(S)
        /\ v.resv \subseteq ReservationRecord
    BY <1>2, <2>1, <2>2 DEF Resources, Covered
  <2>4. MoneyCost(c, joint, h) \in Nat /\ FoodCost(c, h) \in Nat
    BY CostFact
  <2>5. /\ IsFiniteSet(T)
        /\ Total(MoneyOf, T) <= MoneyCost(c, joint, h)
        /\ Total(FoodOf, T) <= FoodCost(c, h)
    <3>1. CASE T = {}
      BY <2>4, <3>1, TotalOfNothing, FS_EmptySet
    <3>2. CASE T # {}
      <4>1. PICK r \in ReservationRecord : /\ T = {r}
                                           /\ r.money = MoneyCost(c, joint, h)
                                           /\ r.food = FoodCost(c, h)
        BY <1>1, <1>2, <2>2, <3>2, Charge
      <4>2. /\ Total(MoneyOf, {r}) = MoneyOf[r]
            /\ Total(FoodOf, {r}) = FoodOf[r]
        BY Amounts, TotalOfOne
      <4>3. MoneyOf[r] = r.money /\ FoodOf[r] = r.food
        BY DEF MoneyOf, FoodOf
      <4>4. IsFiniteSet({r})
        BY FS_Singleton
      <4>5. QED BY <2>4, <4>1, <4>2, <4>3, <4>4
    <3>3. QED BY <3>1, <3>2
  <2>6. PICK U : U = Resources(v.resv, h)
    OBVIOUS
  <2>7. /\ IsFiniteSet(U) /\ Total(MoneyOf, U) = Total(MoneyOf, S \cup T)
        /\ Total(FoodOf, U) = Total(FoodOf, S \cup T)
    <3>1. U = S \cup T
      BY <2>3, <2>6
    <3>2. IsFiniteSet(S \cup T)
      BY <2>3, <2>5, FS_Union
    <3>3. QED BY <3>1, <3>2, Zenon
  <2>8. /\ Total(MoneyOf, S \cup T) = Total(MoneyOf, S) + Total(MoneyOf, T)
        /\ Total(MoneyOf, S) \in Nat /\ Total(MoneyOf, T) \in Nat
    BY <2>3, <2>5, Amounts, TotalUnion
  <2>9. /\ Total(FoodOf, S \cup T) = Total(FoodOf, S) + Total(FoodOf, T)
        /\ Total(FoodOf, S) \in Nat /\ Total(FoodOf, T) \in Nat
    BY <2>3, <2>5, Amounts, TotalUnion
  <2>10. /\ Money(v.resv, h) = Total(MoneyOf, U) /\ Food(v.resv, h) = Total(FoodOf, U)
         /\ Money(w.resv, h) = Total(MoneyOf, S) /\ Food(w.resv, h) = Total(FoodOf, S)
    <3>1. v.resv \subseteq ReservationRecord /\ w.resv \subseteq ReservationRecord
      BY <1>2, <2>3
    <3>2. IsFiniteSet(Resources(v.resv, h)) /\ IsFiniteSet(Resources(w.resv, h))
      BY <2>1, <2>3, <2>6, <2>7
    <3>3. QED BY <2>1, <2>6, <3>1, <3>2, MoneyIsTotal, FoodIsTotal
  <2>11. /\ w.money[h] - Money(w.resv, h) >= MoneyCost(c, joint, h)
         /\ w.food[h] - Food(w.resv, h) >= FoodCost(c, h)
    BY DEF Accepts, CanPay
  <2>12. /\ w.money[h] \in Nat /\ w.food[h] \in Nat
         /\ v.money[h] = w.money[h] /\ v.food[h] = w.food[h]
    BY <1>2
  <2>13. IsFiniteSet(Resources(v.resv, h))
    BY <2>6, <2>7
  <2>14. QED BY <2>4, <2>5, <2>7, <2>8, <2>9, <2>10, <2>11, <2>12, <2>13
<1>4. QED BY <1>2, <1>3 DEF Covered, ResourceCover

(* Progress of one action.                                                 *)
LEMMA CoveredAfterProgress ==
  ASSUME NEW w, Good(w), Covered(w), NEW a \in DOMAIN w.act, NEW v \in Progress(w, a)
  PROVE  Covered(v)
<1>1. ASSUME NEW x, Good(x), Covered(x), NEW y, ActionEnds(x, y, a)
      PROVE  Covered(y)
  <2>1. y.money = x.money /\ y.food = x.food /\ y.resv \subseteq x.resv
    BY <1>1 DEF ActionEnds
  <2>2. QED BY <1>1, <2>1, CoveredAfterRelease
<1>2. CASE Live /\ w.act[a].phase = "TRAVELING" /\ v = TerminateAction(w, a, "FAILED")
  <2>1. ActionEnds(w, TerminateAction(w, a, "FAILED"), a)
    BY TerminateEnds
  <2>2. QED BY <1>1, <1>2, <2>1
<1>3. ASSUME NEW u, WentOn(w, u, a),
             v = u \/ (u.act[a].phase = "PERFORMING" /\ v \in ResolveAction(u, a))
      PROVE  Covered(v)
  <2>1. Good(u) /\ a \in DOMAIN u.act
    BY <1>3 DEF WentOn
  <2>2. Covered(u)
    <3>1. u.money = w.money /\ u.food = w.food /\ u.resv \subseteq w.resv
      BY <1>3 DEF WentOn
    <3>2. QED BY <3>1, CoveredAfterRelease
  <2>3. CASE v # u
    <3>1. u.act[a].phase # "TRAVELING" /\ v \in ResolveAction(u, a)
      BY <1>3, <2>3
    <3>2. u.act[a].arrived = u.act[a].agents
      BY <2>1, <3>1, AllArrived
    <3>3. DEFINE freed == TerminateAction(u, a, "COMPLETED")
                 paying == CommitReservedResources(u, a)
                 settled == TerminateAction(paying, a, "COMPLETED")
    <3>4. Good(freed) /\ Covered(freed)
      <4>1. ActionEnds(u, freed, a)
        BY <2>1, <3>2, TerminateEnds
      <4> HIDE DEF freed
      <4>2. QED BY <1>1, <2>1, <2>2, <4>1 DEF ActionEnds
    <3>5. Covered(settled)
      <4>1. Good(paying) /\ paying.act = u.act /\ paying.resv = u.resv
        BY <2>1, CommitReservedResourcesGood
      <4>2. ActionEnds(paying, settled, a)
        <5> HIDE DEF paying
        <5> QED BY <2>1, <3>2, <4>1, TerminateEnds
      <4> HIDE DEF settled
      <4>3. /\ settled.money = paying.money /\ settled.food = paying.food
            /\ settled.resv = paying.resv \ paying.act[a].resv
        BY <4>2 DEF ActionEnds
      <4>4. settled.resv = u.resv \ u.act[a].resv
        BY <4>1, <4>3, Zenon
      <4>5. QED BY <2>1, <2>2, <4>3, <4>4, CoveredAfterPayment
    <3> HIDE DEF freed, settled
    <3>6. ASSUME NEW c \in CandidateRecord, Accepts(freed, c, TRUE),
                 v = CreateAction(freed, c, TRUE)
          PROVE  Covered(v)
      <4>1. PICK R : ActionBegins(freed, v, c, TRUE, R)
        BY <3>4, <3>6, CreateBegins
      <4>2. QED BY <3>4, <3>6, <4>1, CoveredAfterCreation
    <3>7. v = settled \/ v = freed \/
          \E c \in CandidateRecord : Accepts(freed, c, TRUE) /\ v = CreateAction(freed, c, TRUE)
      BY <2>1, <3>1, ResolveShape DEF freed, settled
    <3>8. QED BY <3>4, <3>5, <3>6, <3>7
  <2>4. QED BY <2>2, <2>3
<1>4. QED BY <1>2, <1>3, ProgressShape

(* The inductive invariant: the committed promises are covered, and those  *)
(* of the minute in progress are.                                          *)
PInv == IInv /\ Covered(auth) /\ Covered(ctx)

LEMMA InitPInv ==
  ASSUME Init
  PROVE  PInv
<1>1. IInv
  BY InitInv
<1>2. /\ auth.resv = {} /\ auth.money = InitialMoney /\ auth.food = InitialFood
      /\ ctx = auth
  BY DEF Init, InitialContext
<1>3. \A h \in Household : InitialMoney[h] \in Nat /\ InitialFood[h] \in Nat
  BY SocietyConstants
<1>4. ASSUME NEW h \in Household
      PROVE  /\ IsFiniteSet(Resources({}, h))
             /\ Money({}, h) <= InitialMoney[h] /\ Food({}, h) <= InitialFood[h]
  <2>1. Resources({}, h) = {}
    BY DEF Resources
  <2>2. IsFiniteSet(Resources({}, h))
    BY <2>1, FS_EmptySet
  <2>3. Money({}, h) = Total(MoneyOf, Resources({}, h))
    BY <2>2, MoneyIsTotal
  <2>4. Food({}, h) = Total(FoodOf, Resources({}, h))
    BY <2>2, FoodIsTotal
  <2>5. Money({}, h) = 0 /\ Food({}, h) = 0
    BY <2>1, <2>3, <2>4, TotalOfNothing
  <2>6. QED BY <1>3, <2>2, <2>5
<1>5. Covered(auth)
  BY <1>2, <1>4, SocietyConstants DEF Covered, ResourceCover
<1>6. QED BY <1>1, <1>2, <1>5 DEF PInv

LEMMA NextPInv ==
  ASSUME PInv, [Next]_vars
  PROVE  PInv'
<1>1. IInv' /\ IInv
  BY NextInv DEF PInv
<1>2. Good(auth) /\ Good(ctx) /\ Covered(auth) /\ Covered(ctx)
  BY DEF PInv, IInv
<1>3. ASSUME NEW v, Covered(v), Install(v)
      PROVE  PInv'
  <2>1. ctx' = auth' /\ (auth' = v \/ auth' = auth)
    BY <1>3, InstallShape
  <2>2. QED BY <1>1, <1>2, <1>3, <2>1 DEF PInv
<1>4. CASE BeginTick
  <2>1. /\ auth' = auth /\ ctx'.money = auth.money /\ ctx'.food = auth.food
        /\ ctx'.resv = auth.resv
    BY <1>2, <1>4 DEF BeginTick, Good, ContextOK
  <2>2. Covered(ctx')
    BY <1>2, <2>1, CoveredAfterRelease
  <2>3. QED BY <1>1, <1>2, <2>1, <2>2 DEF PInv
<1>5. CASE ProgressAction
  <2>1. PICK a \in todo : ctx' \in Progress(ctx, a)
    BY <1>5 DEF ProgressAction
  <2>2. a \in DOMAIN ctx.act /\ auth' = auth
    BY <1>1, <1>5, <2>1 DEF ProgressAction, IInv
  <2>3. Covered(ctx')
    BY <1>2, <2>1, <2>2, CoveredAfterProgress
  <2>4. QED BY <1>1, <1>2, <2>2, <2>3 DEF PInv
<1>6. CASE BeginDecisions
  BY <1>1, <1>2, <1>6 DEF BeginDecisions, PInv
<1>7. ASSUME NEW p \in Agent, SkipCommitted(p)
      PROVE  PInv'
  BY <1>1, <1>2, <1>7 DEF SkipCommitted, PInv
<1>8. ASSUME NEW p \in Agent, DecideAgent(p)
      PROVE  PInv'
  <2>1. /\ auth' = auth
        /\ \/ ctx' = auth
           \/ \E c \in CandidateRecord : /\ Accepts(ctx, c, FALSE)
                                         /\ ctx' = CreateAction(ctx, c, FALSE)
    BY <1>1, <1>8, DecideShape
  <2>2. CASE ctx' = auth
    BY <1>1, <1>2, <2>1, <2>2 DEF PInv
  <2>3. ASSUME NEW c \in CandidateRecord, Accepts(ctx, c, FALSE),
               ctx' = CreateAction(ctx, c, FALSE)
        PROVE  PInv'
    <3>1. PICK v : v = ctx'
      OBVIOUS
    <3>2. PICK R : ActionBegins(ctx, v, c, FALSE, R)
      BY <1>2, <2>3, <3>1, CreateBegins
    <3>3. Covered(v)
      BY <1>2, <2>3, <3>2, CoveredAfterCreation
    <3>4. QED BY <1>1, <1>2, <2>1, <3>1, <3>3 DEF PInv
  <2>4. QED BY <2>1, <2>2, <2>3
<1>9. CASE Commit
  <2>1. Install(ctx)
    BY <1>9 DEF Commit
  <2>2. QED BY <1>2, <1>3, <2>1
<1>10. CASE Report
  <2>1. PICK a \in DOMAIN auth.act :
          \E v : Install(v) /\ (WentOn(auth, v, a) \/ ActionEnds(auth, v, a))
    BY <1>1, <1>10, ReportShape
  <2>2. PICK v : Install(v) /\ (WentOn(auth, v, a) \/ ActionEnds(auth, v, a))
    BY <2>1
  <2>3. v.money = auth.money /\ v.food = auth.food /\ v.resv \subseteq auth.resv
    BY <2>2 DEF WentOn, ActionEnds
  <2>4. Covered(v)
    BY <1>2, <2>3, CoveredAfterRelease
  <2>5. QED BY <1>3, <2>2, <2>4
<1>11. CASE UNCHANGED vars
  BY <1>1, <1>2, <1>11 DEF PInv, vars
<1>12. QED BY <1>4, <1>5, <1>6, <1>7, <1>8, <1>9, <1>10, <1>11 DEF Next, Tick

(* Nobody is promised money or food that is not there, after every step:   *)
(* several actions of a household never overdraw it together.              *)
THEOREM PromisesAreCovered == Spec => []PromisesCovered
<1>1. Init => PInv
  BY InitPInv
<1>2. PInv /\ [Next]_vars => PInv'
  BY NextPInv
<1>3. PInv => PromisesCovered
  BY DEF PInv, Covered, PromisesCovered
<1>4. QED BY <1>1, <1>2, <1>3, PTL DEF Spec


-----------------------------------------------------------------------------
(* Settlement: what a committed minute charges.                            *)

(* An action holds at most one reservation of a household's resources, and *)
(* an invitation holds none.                                               *)
ChargedOnce(w) ==
  \A a \in DOMAIN w.act, h \in Household :
    /\ \/ Resources(w.act[a].resv, h) = {}
       \/ \E r \in ReservationRecord : Resources(w.act[a].resv, h) = {r}
    /\ w.act[a].activity # None => Resources(w.act[a].resv, h) = {}

LEMMA ResourcesKept ==
  ASSUME NEW w, NEW a, NEW h
  PROVE  Resources(w.act[a].resv, h) = Resources(Kept(w, a), h)
BY DEF Kept, Resources

LEMMA ChargedOnceSame ==
  ASSUME NEW w, ChargedOnce(w), NEW v, v.act = w.act
  PROVE  ChargedOnce(v)
<1>1. ASSUME NEW a \in DOMAIN v.act, NEW h \in Household
      PROVE  /\ \/ Resources(v.act[a].resv, h) = {}
                \/ \E r \in ReservationRecord : Resources(v.act[a].resv, h) = {r}
             /\ v.act[a].activity # None => Resources(v.act[a].resv, h) = {}
  <2>1. v.act[a] = w.act[a] /\ a \in DOMAIN w.act
    OBVIOUS
  <2>2. /\ \/ Resources(w.act[a].resv, h) = {}
           \/ \E r \in ReservationRecord : Resources(w.act[a].resv, h) = {r}
        /\ w.act[a].activity # None => Resources(w.act[a].resv, h) = {}
    BY <2>1, Zenon DEF ChargedOnce
  <2>3. QED BY <2>1, <2>2, Zenon
<1>2. QED BY <1>1 DEF ChargedOnce

LEMMA ChargedOnceStays ==
  ASSUME NEW w, ChargedOnce(w), NEW v, NEW B, Follows(w, v, B),
         DOMAIN v.act \subseteq DOMAIN w.act
  PROVE  ChargedOnce(v)
<1>1. ASSUME NEW a \in DOMAIN v.act, NEW h \in Household
      PROVE  /\ Resources(v.act[a].resv, h) = Resources(w.act[a].resv, h)
             /\ v.act[a].activity = w.act[a].activity /\ a \in DOMAIN w.act
  <2>1. Kept(v, a) = Kept(w, a) /\ v.act[a].activity = w.act[a].activity /\ a \in DOMAIN w.act
    BY DEF Follows
  <2>2. /\ Resources(v.act[a].resv, h) = Resources(Kept(v, a), h)
        /\ Resources(w.act[a].resv, h) = Resources(Kept(w, a), h)
    BY ResourcesKept
  <2>3. Resources(v.act[a].resv, h) = Resources(w.act[a].resv, h)
    BY <2>1, <2>2, Zenon
  <2>4. QED BY <2>1, <2>3
<1>2. ASSUME NEW a \in DOMAIN v.act, NEW h \in Household
      PROVE  /\ \/ Resources(v.act[a].resv, h) = {}
                \/ \E r \in ReservationRecord : Resources(v.act[a].resv, h) = {r}
             /\ v.act[a].activity # None => Resources(v.act[a].resv, h) = {}
  <2>1. PICK S : S = Resources(w.act[a].resv, h)
    OBVIOUS
  <2>2. Resources(v.act[a].resv, h) = S
    BY <1>1, <2>1, Zenon
  <2>3. /\ S = {} \/ \E r \in ReservationRecord : S = {r}
        /\ w.act[a].activity # None => S = {}
    BY <1>1, <2>1, Zenon DEF ChargedOnce
  <2>4. v.act[a].activity # None => S = {}
    BY <1>1, <2>3
  <2>5. QED BY <2>2, <2>3, <2>4, Zenon
<1>3. QED BY <1>2 DEF ChargedOnce

LEMMA ChargedOnceBegins ==
  ASSUME NEW w, Good(w), ChargedOnce(w), NEW c \in CandidateRecord, NEW joint \in BOOLEAN,
         c.activity # None => Rule[c.behavior].invites # {},
         NEW v, NEW R, ActionBegins(w, v, c, joint, R)
  PROVE  ChargedOnce(v)
<1>1. /\ DOMAIN v.act = DOMAIN w.act \cup {w.next} /\ w.next \in Nat
      /\ v.act[w.next].resv = R /\ v.act[w.next].activity = c.activity
      /\ \A b \in DOMAIN w.act : v.act[b] = w.act[b]
  BY DEF ActionBegins, Good, ContextOK
<1>2. PICK expires \in Nat : R = Reservations(w, c, joint, expires)
  BY DEF ActionBegins
<1>3. ASSUME NEW h \in Household
      PROVE  /\ Resources(R, h) = {} \/ \E r \in ReservationRecord : Resources(R, h) = {r}
             /\ c.activity # None => Resources(R, h) = {}
  <2>1. PICK S : S = Resources(R, h)
    OBVIOUS
  <2>2. \/ S = {}
        \/ /\ \E r \in ReservationRecord : S = {r}
           /\ MoneyCost(c, joint, h) + FoodCost(c, h) > 0
    BY <1>1, <1>2, <2>1, Charge
  <2>3. ASSUME c.activity # None
        PROVE  MoneyCost(c, joint, h) = 0 /\ FoodCost(c, h) = 0
    <3>1. Rule[c.behavior].money = 0 /\ Rule[c.behavior].food = 0
      BY <2>3, InvitationsAreFree DEF CandidateRecord
    <3>2. DEFINE S2 == {p \in Participants(c) : Member[p] = h /\ (p = c.actor \/ joint)}
    <3>3. Cardinality(S2) \in Nat
      BY ParticipantsFact, FS_Subset, FS_CardinalityType, S2 \subseteq Participants(c)
    <3>4. 0 * Cardinality(S2) = 0
      <4> HIDE DEF S2
      <4> QED BY <3>3
    <3>5. QED BY <3>1, <3>4 DEF MoneyCost, FoodCost
  <2>4. c.activity # None => S = {}
    BY <2>2, <2>3
  <2>5. QED BY <2>1, <2>2, <2>4
<1>4. ASSUME NEW a \in DOMAIN v.act, NEW h \in Household
      PROVE  /\ \/ Resources(v.act[a].resv, h) = {}
                \/ \E r \in ReservationRecord : Resources(v.act[a].resv, h) = {r}
             /\ v.act[a].activity # None => Resources(v.act[a].resv, h) = {}
  <2>1. CASE a \in DOMAIN w.act
    <3>1. v.act[a] = w.act[a]
      BY <1>1, <2>1
    <3>2. /\ \/ Resources(w.act[a].resv, h) = {}
             \/ \E r \in ReservationRecord : Resources(w.act[a].resv, h) = {r}
          /\ w.act[a].activity # None => Resources(w.act[a].resv, h) = {}
      BY <2>1, Zenon DEF ChargedOnce
    <3>3. QED BY <3>1, <3>2, Zenon
  <2>2. CASE a = w.next
    BY <1>1, <1>3, <2>2, Zenon
  <2>3. QED BY <1>1, <2>1, <2>2
<1>5. QED BY <1>4 DEF ChargedOnce

(* What one action costs a household, and what it brings home.             *)
Brings(w, a, h) == IF Resources(w.act[a].resv, h) = {} THEN 0 ELSE Rule[w.act[a].behavior].gain

Pays(w, v, a) ==
  \A h \in Household : /\ v.money[h] = w.money[h] - Money(w.act[a].resv, h)
                       /\ v.food[h] = w.food[h] - Food(w.act[a].resv, h) + Brings(w, a, h)

(* _commit_reserved_resources charges an action for what it has reserved.  *)
LEMMA CommitPays ==
  ASSUME NEW w, Good(w), ChargedOnce(w), NEW a \in DOMAIN w.act,
         NEW v, v.money = CommitReservedResources(w, a).money,
         v.food = CommitReservedResources(w, a).food
  PROVE  Pays(w, v, a)
<1>1. DEFINE Q == w.act[a].resv
             paid == {r \in Q : r.kind = "HOUSEHOLD_RESOURCE"}
             gain(h) == Rule[w.act[a].behavior].gain * Cardinality(Resources(paid, h))
<1>2. /\ v.money = [h \in Household |-> w.money[h] - Money(paid, h)]
      /\ v.food = [h \in Household |-> w.food[h] - Food(paid, h) + gain(h)]
  BY DEF CommitReservedResources, Good, ContextOK
<1>3. \A h : Resources(paid, h) = Resources(Q, h)
  BY DEF Resources
<1>4. \A h : Money(paid, h) = Money(Q, h) /\ Food(paid, h) = Food(Q, h)
  BY <1>3 DEF Money, Food
<1>5. PICK g : g = Rule[w.act[a].behavior].gain
  OBVIOUS
<1>6. g \in Nat
  BY <1>5, SocietyConstants DEF Good, ContextOK, ActionRecord
<1>7. ASSUME NEW h \in Household
      PROVE  gain(h) = Brings(w, a, h)
  <2>1. PICK S : S = Resources(Q, h)
    OBVIOUS
  <2>2. S = {} \/ \E r \in ReservationRecord : S = {r}
    BY <2>1, Zenon DEF ChargedOnce
  <2>3. Cardinality(S) = IF S = {} THEN 0 ELSE 1
    BY <2>2, FS_EmptySet, FS_Singleton
  <2>4. gain(h) = g * Cardinality(S)
    BY <1>3, <1>5, <2>1, Zenon
  <2>5. Brings(w, a, h) = IF S = {} THEN 0 ELSE g
    BY <1>5, <2>1 DEF Brings
  <2> HIDE DEF gain
  <2>6. QED BY <1>6, <2>3, <2>4, <2>5
<1> HIDE DEF gain, paid
<1>8. ASSUME NEW h \in Household
      PROVE  /\ v.money[h] = w.money[h] - Money(Q, h)
             /\ v.food[h] = w.food[h] - Food(Q, h) + Brings(w, a, h)
  <2>1. /\ v.money[h] = w.money[h] - Money(paid, h)
        /\ v.food[h] = w.food[h] - Food(paid, h) + gain(h)
    BY <1>2
  <2>2. QED BY <1>4, <1>7, <2>1, Zenon
<1>9. QED BY <1>8 DEF Pays

(* One action of _progress_actions: it goes on, its trip fails, or it is   *)
(* over and has been paid for.                                             *)
LEMMA ProgressPays ==
  ASSUME NEW w, Good(w), Paired(w), ChargedOnce(w), Covered(w), NEW a \in DOMAIN w.act,
         w.act[a].phase = "TRAVELING" /\ ~Live => w.minute < w.act[a].end,
         NEW v \in Progress(w, a)
  PROVE  /\ ChargedOnce(v)
         /\ v.minute = w.minute
         /\ \A b \in DOMAIN w.act \ {a} : b \in DOMAIN v.act /\ v.act[b] = w.act[b]
         /\ IF a \notin DOMAIN v.act /\ w.act[a].phase # "TRAVELING"
              THEN Pays(w, v, a)
              ELSE v.money = w.money /\ v.food = w.food
<1>1. ASSUME NEW x, Good(x), ChargedOnce(x), a \in DOMAIN x.act, NEW y, ActionEnds(x, y, a)
      PROVE  /\ ChargedOnce(y) /\ Good(y) /\ y.minute = x.minute
             /\ \A b \in DOMAIN x.act \ {a} : b \in DOMAIN y.act /\ y.act[b] = x.act[b]
             /\ a \notin DOMAIN y.act /\ y.money = x.money /\ y.food = x.food
  <2>1. Follows(x, y, {}) /\ DOMAIN y.act \subseteq DOMAIN x.act
    BY <1>1, ActionEndsFollows DEF ActionEnds
  <2>2. QED BY <1>1, <2>1, ChargedOnceStays DEF ActionEnds
<1>2. CASE Live /\ w.act[a].phase = "TRAVELING" /\ v = TerminateAction(w, a, "FAILED")
  <2>1. ActionEnds(w, TerminateAction(w, a, "FAILED"), a)
    BY TerminateEnds
  <2>2. QED BY <1>1, <1>2, <2>1
<1>3. ASSUME NEW u, WentOn(w, u, a),
             w.act[a].phase = "TRAVELING" => u.act[a].phase = "TRAVELING" \/ ~Live,
             v = u \/ (/\ u.act[a].phase = "PERFORMING" /\ w.minute >= w.act[a].end
                       /\ v \in ResolveAction(u, a))
      PROVE  /\ ChargedOnce(v)
             /\ v.minute = w.minute
             /\ \A b \in DOMAIN w.act \ {a} : b \in DOMAIN v.act /\ v.act[b] = w.act[b]
             /\ IF a \notin DOMAIN v.act /\ w.act[a].phase # "TRAVELING"
                  THEN Pays(w, v, a)
                  ELSE v.money = w.money /\ v.food = w.food
  <2>1. /\ Good(u) /\ a \in DOMAIN u.act /\ DOMAIN u.act = DOMAIN w.act
        /\ u.minute = w.minute /\ u.money = w.money /\ u.food = w.food
        /\ \A b \in DOMAIN w.act : b # a => u.act[b] = w.act[b]
        /\ u.act[a].behavior = w.act[a].behavior
    BY <1>3 DEF WentOn
  <2>2. Follows(w, u, {})
    BY <1>3, WentOnFollows
  <2>3. ChargedOnce(u)
    BY <2>1, <2>2, ChargedOnceStays
  <2>4. CASE v = u
    BY <2>1, <2>3, <2>4
  <2>5. CASE v # u
    <3>1. /\ u.act[a].phase # "TRAVELING" /\ v \in ResolveAction(u, a)
          /\ w.minute >= w.act[a].end
      BY <1>3, <2>5
    <3>2. w.act[a].phase # "TRAVELING"
      <4>1. SUFFICES ASSUME w.act[a].phase = "TRAVELING" PROVE FALSE
        OBVIOUS
      <4>2. ~Live
        BY <1>3, <3>1, <4>1
      <4>3. w.minute < w.act[a].end
        BY <4>1, <4>2
      <4>4. w.minute \in Nat /\ w.act[a].end \in Nat
        BY DEF Good, ContextOK, ActionRecord
      <4>5. QED BY <3>1, <4>3, <4>4
    <3>3. u.act[a].arrived = u.act[a].agents
      BY <2>1, <3>1, AllArrived
    <3>4. /\ \A h : Resources(u.act[a].resv, h) = Resources(w.act[a].resv, h)
          /\ \A h : Money(u.act[a].resv, h) = Money(w.act[a].resv, h)
          /\ \A h : Food(u.act[a].resv, h) = Food(w.act[a].resv, h)
          /\ \A h : Brings(u, a, h) = Brings(w, a, h)
      <4>1. Kept(u, a) = Kept(w, a)
        BY <2>1, <2>2 DEF Follows
      <4>2. \A h : /\ Resources(u.act[a].resv, h) = Resources(Kept(u, a), h)
                   /\ Resources(w.act[a].resv, h) = Resources(Kept(w, a), h)
        BY ResourcesKept
      <4>3. \A h : Resources(u.act[a].resv, h) = Resources(w.act[a].resv, h)
        BY <4>1, <4>2, Zenon
      <4>4. \A h : Money(u.act[a].resv, h) = Money(w.act[a].resv, h)
        BY <4>3 DEF Money
      <4>5. \A h : Food(u.act[a].resv, h) = Food(w.act[a].resv, h)
        BY <4>3 DEF Food
      <4>6. \A h : Brings(u, a, h) = Brings(w, a, h)
        BY <2>1, <4>3, Zenon DEF Brings
      <4>7. QED BY <4>3, <4>4, <4>5, <4>6
    <3>5. DEFINE freed == TerminateAction(u, a, "COMPLETED")
                 paying == CommitReservedResources(u, a)
                 settled == TerminateAction(paying, a, "COMPLETED")
    <3>6. /\ ChargedOnce(freed) /\ Good(freed) /\ freed.minute = w.minute
          /\ \A b \in DOMAIN w.act \ {a} : b \in DOMAIN freed.act /\ freed.act[b] = w.act[b]
          /\ a \notin DOMAIN freed.act /\ freed.money = w.money /\ freed.food = w.food
      <4>1. ActionEnds(u, freed, a)
        BY <2>1, <3>3, TerminateEnds
      <4> HIDE DEF freed
      <4>2. QED BY <1>1, <2>1, <2>3, <4>1
    <3>7. /\ ChargedOnce(settled) /\ settled.minute = w.minute
          /\ \A b \in DOMAIN w.act \ {a} : b \in DOMAIN settled.act /\ settled.act[b] = w.act[b]
          /\ a \notin DOMAIN settled.act /\ settled.money = paying.money
          /\ settled.food = paying.food
      <4>1. Good(paying) /\ paying.act = u.act /\ paying.minute = u.minute
        BY <2>1, CommitReservedResourcesGood
      <4> HIDE DEF paying
      <4>2. ActionEnds(paying, settled, a)
        BY <2>1, <3>3, <4>1, TerminateEnds
      <4> HIDE DEF settled
      <4>3. ChargedOnce(paying)
        BY <2>3, <4>1, ChargedOnceSame
      <4>4. a \in DOMAIN paying.act
        BY <2>1, <4>1
      <4>5. QED BY <1>1, <2>1, <4>1, <4>2, <4>3, <4>4
    <3>8. Pays(w, settled, a)
      <4>1. Pays(u, settled, a)
        <5> HIDE DEF settled
        <5> QED BY <2>1, <2>3, <3>7, CommitPays
      <4> HIDE DEF settled
      <4>2. QED BY <2>1, <3>4, <4>1 DEF Pays
    <3> HIDE DEF freed, settled, paying
    <3>9. ASSUME w.act[a].activity # None, NEW x, x.money = w.money, x.food = w.food
          PROVE  Pays(w, x, a)
      <4>1. ASSUME NEW h \in Household
            PROVE  /\ x.money[h] = w.money[h] - Money(w.act[a].resv, h)
                   /\ x.food[h] = w.food[h] - Food(w.act[a].resv, h) + Brings(w, a, h)
        <5>1. Resources(w.act[a].resv, h) = {}
          BY <3>9 DEF ChargedOnce
        <5>2. Money(w.act[a].resv, h) = 0 /\ Food(w.act[a].resv, h) = 0
          <6>1. IsFiniteSet(Resources(w.act[a].resv, h))
            BY <5>1, FS_EmptySet
          <6>2. w.act[a].resv \subseteq ReservationRecord
            BY OwnReservations
          <6>3. /\ Money(w.act[a].resv, h) = Total(MoneyOf, Resources(w.act[a].resv, h))
                /\ Food(w.act[a].resv, h) = Total(FoodOf, Resources(w.act[a].resv, h))
            BY <6>1, <6>2, MoneyIsTotal, FoodIsTotal
          <6>4. QED BY <5>1, <6>3, TotalOfNothing
        <5>3. Brings(w, a, h) = 0
          BY <5>1 DEF Brings
        <5>4. w.money[h] \in Nat /\ w.food[h] \in Nat
          BY DEF Covered
        <5>5. QED BY <3>9, <5>2, <5>3, <5>4
      <4>2. QED BY <4>1 DEF Pays
    <3>10. w.act[a].activity = u.act[a].activity
      BY <1>3 DEF WentOn
    <3>11. ASSUME NEW c \in CandidateRecord, Accepts(freed, c, TRUE),
                  v = CreateAction(freed, c, TRUE), c.activity = None
           PROVE  /\ ChargedOnce(v) /\ v.minute = w.minute
                  /\ \A b \in DOMAIN w.act \ {a} : b \in DOMAIN v.act /\ v.act[b] = w.act[b]
                  /\ v.money = w.money /\ v.food = w.food
                  /\ a \notin DOMAIN v.act
      <4>1. PICK R : ActionBegins(freed, v, c, TRUE, R)
        BY <3>6, <3>11, CreateBegins
      <4>2. ChargedOnce(v)
        BY <3>6, <3>11, <4>1, ChargedOnceBegins
      <4>3. v.minute = w.minute /\ v.money = w.money /\ v.food = w.food
        BY <3>6, <4>1 DEF ActionBegins
      <4>4. \A b \in DOMAIN w.act \ {a} : b \in DOMAIN v.act /\ v.act[b] = w.act[b]
        BY <3>6, <4>1 DEF ActionBegins
      <4>5. a \notin DOMAIN v.act
        <5>1. u.next = freed.next /\ a < u.next /\ u.next \in Nat
          <6>1. ActionEnds(u, freed, a)
            BY <2>1, <3>3, TerminateEnds DEF freed
          <6>2. QED BY <2>1, <6>1 DEF ActionEnds, Good, ContextOK
        <5>2. DOMAIN v.act = DOMAIN freed.act \cup {freed.next}
          BY <4>1 DEF ActionBegins
        <5>3. a \in Nat
          BY <2>1 DEF Good, ContextOK
        <5>4. QED BY <3>6, <5>1, <5>2, <5>3
      <4>6. QED BY <4>2, <4>3, <4>4, <4>5
    <3>12. \/ v = settled
           \/ /\ w.act[a].activity # None
              /\ \/ v = freed
                 \/ \E c \in CandidateRecord : /\ Accepts(freed, c, TRUE)
                                               /\ v = CreateAction(freed, c, TRUE)
                                               /\ c.activity = None
      <4>1. None \notin Behavior
        BY SocietyConstants
      <4>2. \/ v = settled
            \/ /\ u.act[a].activity \in Behavior
               /\ \/ v = freed
                  \/ \E c \in CandidateRecord : /\ Accepts(freed, c, TRUE)
                                                /\ v = CreateAction(freed, c, TRUE)
                                                /\ c.activity = None
        BY <2>1, <3>1, ResolveShape DEF freed, settled, paying
      <4>3. QED BY <3>10, <4>1, <4>2
    <3>13. CASE v = settled
      BY <3>2, <3>7, <3>8, <3>13
    <3>14. CASE w.act[a].activity # None /\ v = freed
      BY <3>2, <3>6, <3>9, <3>14
    <3>15. ASSUME w.act[a].activity # None,
                  NEW c \in CandidateRecord, Accepts(freed, c, TRUE),
                  v = CreateAction(freed, c, TRUE), c.activity = None
           PROVE  /\ ChargedOnce(v) /\ v.minute = w.minute
                  /\ \A b \in DOMAIN w.act \ {a} : b \in DOMAIN v.act /\ v.act[b] = w.act[b]
                  /\ a \notin DOMAIN v.act /\ Pays(w, v, a)
      BY <3>9, <3>11, <3>15
    <3>16. QED BY <3>2, <3>12, <3>13, <3>14, <3>15
  <2>6. QED BY <2>4, <2>5
<1>4. QED BY <1>2, <1>3, ProgressShape

(* The performances that ended between w and v.                            *)
Performed(w, v) == {a \in DOMAIN w.act \ DOMAIN v.act : w.act[a].phase # "TRAVELING"}

Spent(w, S) == UNION {w.act[a].resv : a \in S}
Bought(w, S, h) == {a \in S : /\ Resources(w.act[a].resv, h) # {}
                              /\ Rule[w.act[a].behavior].gain > 0}
Gained(w, S) == MapThenSumSet(LAMBDA a : Rule[w.act[a].behavior].gain, S)
GainOf(w) == [a \in DOMAIN w.act |-> Rule[w.act[a].behavior].gain]

(* The balances of v are those of w after the actions of S were settled.   *)
Books(w, S, v) ==
  \A h \in Household :
    /\ v.money[h] = w.money[h] - Money(Spent(w, S), h)
    /\ v.food[h] = w.food[h] - Food(Spent(w, S), h) + Gained(w, Bought(w, S, h))

LEMMA ActionsFinite ==
  ASSUME NEW w, Good(w), NEW S, S \subseteq DOMAIN w.act
  PROVE  IsFiniteSet(S)
<1>1. DOMAIN w.act \subseteq 1 .. w.next - 1 /\ w.next - 1 \in Int
  BY DEF Good, ContextOK
<1>2. PICK n \in Int : n = w.next - 1
  BY <1>1
<1>3. IsFiniteSet(1 .. n)
  BY FS_Interval
<1>4. S \subseteq 1 .. n
  BY <1>1, <1>2
<1>5. QED BY <1>3, <1>4, FS_Subset

LEMMA GainedIsTotal ==
  ASSUME NEW w, Good(w), NEW S, S \subseteq DOMAIN w.act
  PROVE  /\ Gained(w, S) = Total(GainOf(w), S)
         /\ GainOf(w) \in [DOMAIN w.act -> Nat]
         /\ IsFiniteSet(S)
<1>1. IsFiniteSet(S)
  BY ActionsFinite
<1>2. PICK g : Adds(g, GainOf(w), S)
  BY <1>1, AddsExists
<1>3. \A s \in SUBSET S : s # {} => Next1(s) \in DOMAIN w.act
  BY DEF Next1
<1>4. g = [s \in SUBSET S |-> IF s = {} THEN 0
                              ELSE Rule[w.act[Next1(s)].behavior].gain + g[s \ {Next1(s)}]]
  BY <1>2, <1>3 DEF Adds, GainOf
<1>5. DEFINE iter == CHOOSE it : it = [s \in SUBSET S |->
               IF s = {} THEN 0
               ELSE Rule[w.act[Next1(s)].behavior].gain + it[s \ {Next1(s)}]]
<1>6. iter = [s \in SUBSET S |->
               IF s = {} THEN 0
               ELSE Rule[w.act[Next1(s)].behavior].gain + iter[s \ {Next1(s)}]]
  BY <1>4
<1>7. Gained(w, S) = iter[S]
  BY DEF Gained, MapThenSumSet, MapThenFoldSet, Next1
<1>8. Adds(iter, GainOf(w), S)
  <2> HIDE DEF iter
  <2> QED BY <1>3, <1>6 DEF Adds, GainOf
<1> HIDE DEF iter
<1>9. \A a \in DOMAIN w.act : Rule[w.act[a].behavior].gain \in Nat
  BY SocietyConstants DEF Good, ContextOK, ActionRecord
<1>10. GainOf(w) \in [DOMAIN w.act -> Nat]
  BY <1>9 DEF GainOf
<1>11. QED BY <1>1, <1>7, <1>8, <1>10, AddsTotal

(* One more action that is settled.                                        *)
LEMMA SpentWithOne ==
  ASSUME NEW w, Good(w), Covered(w), NEW S, S \subseteq DOMAIN w.act,
         NEW a \in DOMAIN w.act, a \notin S, NEW h \in Household
  PROVE  /\ Money(Spent(w, S \cup {a}), h) = Money(Spent(w, S), h) + Money(w.act[a].resv, h)
         /\ Food(Spent(w, S \cup {a}), h) = Food(Spent(w, S), h) + Food(w.act[a].resv, h)
         /\ Money(Spent(w, S), h) \in Nat /\ Money(w.act[a].resv, h) \in Nat
         /\ Food(Spent(w, S), h) \in Nat /\ Food(w.act[a].resv, h) \in Nat
<1>1. PICK R : R = Spent(w, S \cup {a})
  OBVIOUS
<1>2. PICK Q : Q = w.act[a].resv
  OBVIOUS
<1>3. /\ \A b \in DOMAIN w.act : /\ w.act[b].resv \subseteq w.resv
                                 /\ \A r \in w.act[b].resv : r.owner = b
      /\ w.resv \subseteq ReservationRecord
  BY DEF Good, ContextOK, Ledger
<1>4. R \subseteq w.resv /\ Q \subseteq R /\ R \subseteq ReservationRecord
  BY <1>1, <1>2, <1>3 DEF Spent
<1>5. R \ Q = Spent(w, S)
  <2>1. \A b \in S : w.act[b].resv \cap Q = {}
    BY <1>2, <1>3
  <2>2. QED BY <1>1, <1>2, <2>1 DEF Spent
<1>6. IsFiniteSet(Resources(R, h))
  <2>1. Resources(R, h) \subseteq Resources(w.resv, h)
    BY <1>4 DEF Resources
  <2>2. QED BY <2>1, FS_Subset DEF Covered
<1>7. /\ Money(R, h) \in Nat /\ Money(Q, h) \in Nat
      /\ Food(R, h) \in Nat /\ Food(Q, h) \in Nat
      /\ Money(R \ Q, h) = Money(R, h) - Money(Q, h)
      /\ Food(R \ Q, h) = Food(R, h) - Food(Q, h)
      /\ Money(Q, h) <= Money(R, h) /\ Food(Q, h) <= Food(R, h)
  BY <1>4, <1>6, Without
<1>8. /\ Money(R \ Q, h) = Money(Spent(w, S), h)
      /\ Food(R \ Q, h) = Food(Spent(w, S), h)
      /\ Money(R, h) = Money(Spent(w, S \cup {a}), h)
      /\ Food(R, h) = Food(Spent(w, S \cup {a}), h)
      /\ Money(Q, h) = Money(w.act[a].resv, h) /\ Food(Q, h) = Food(w.act[a].resv, h)
  BY <1>1, <1>2, <1>5, Zenon
<1>9. QED BY <1>7, <1>8

LEMMA GainedWithOne ==
  ASSUME NEW w, Good(w), NEW S, S \subseteq DOMAIN w.act,
         NEW a \in DOMAIN w.act, a \notin S, NEW h
  PROVE  /\ Gained(w, Bought(w, S \cup {a}, h)) = Gained(w, Bought(w, S, h)) + Brings(w, a, h)
         /\ Gained(w, Bought(w, S, h)) \in Nat /\ Brings(w, a, h) \in Nat
<1>1. PICK B : B = Bought(w, S, h)
  OBVIOUS
<1>2. PICK C : C = Bought(w, S \cup {a}, h)
  OBVIOUS
<1>3. B \subseteq DOMAIN w.act /\ C \subseteq DOMAIN w.act /\ a \notin B
  BY <1>1, <1>2 DEF Bought
<1>4. /\ Gained(w, B) = Total(GainOf(w), B) /\ Gained(w, C) = Total(GainOf(w), C)
      /\ GainOf(w) \in [DOMAIN w.act -> Nat] /\ IsFiniteSet(B)
  BY <1>3, GainedIsTotal
<1>5. GainOf(w)[a] = Rule[w.act[a].behavior].gain /\ GainOf(w)[a] \in Nat
  BY <1>4 DEF GainOf
<1>6. Total(GainOf(w), B) \in Nat
  BY <1>3, <1>4, TotalType
<1>7. Total(GainOf(w), C) = Total(GainOf(w), B) + Brings(w, a, h) /\ Brings(w, a, h) \in Nat
  <2>1. CASE Resources(w.act[a].resv, h) # {} /\ Rule[w.act[a].behavior].gain > 0
    <3>1. C = B \cup {a}
      BY <1>1, <1>2, <2>1 DEF Bought
    <3>2. Total(GainOf(w), B \cup {a}) = GainOf(w)[a] + Total(GainOf(w), B)
      BY <1>3, <1>4, TotalAdd
    <3>3. Brings(w, a, h) = GainOf(w)[a]
      BY <1>5, <2>1 DEF Brings
    <3>4. Total(GainOf(w), C) = Total(GainOf(w), B \cup {a})
      BY <3>1, Zenon
    <3>5. QED BY <1>5, <1>6, <3>2, <3>3, <3>4
  <2>2. CASE ~(Resources(w.act[a].resv, h) # {} /\ Rule[w.act[a].behavior].gain > 0)
    <3>1. C = B
      BY <1>1, <1>2, <2>2 DEF Bought
    <3>2. Brings(w, a, h) = 0
      BY <1>5, <2>2 DEF Brings
    <3>3. Total(GainOf(w), C) = Total(GainOf(w), B)
      BY <3>1, Zenon
    <3>4. QED BY <1>6, <3>2, <3>3
  <2>3. QED BY <2>1, <2>2
<1>8. QED BY <1>1, <1>2, <1>4, <1>6, <1>7

LEMMA BooksWithOne ==
  ASSUME NEW w, Good(w), Covered(w), NEW S, S \subseteq DOMAIN w.act,
         NEW a \in DOMAIN w.act, a \notin S, NEW x, Books(w, S, x), x.act[a] = w.act[a],
         NEW y, Pays(x, y, a)
  PROVE  Books(w, S \cup {a}, y)
<1>1. ASSUME NEW h \in Household
      PROVE  /\ y.money[h] = w.money[h] - Money(Spent(w, S \cup {a}), h)
             /\ y.food[h] = w.food[h] - Food(Spent(w, S \cup {a}), h)
                              + Gained(w, Bought(w, S \cup {a}, h))
  <2>1. /\ y.money[h] = x.money[h] - Money(x.act[a].resv, h)
        /\ y.food[h] = x.food[h] - Food(x.act[a].resv, h) + Brings(x, a, h)
    BY DEF Pays
  <2>2. /\ Money(x.act[a].resv, h) = Money(w.act[a].resv, h)
        /\ Food(x.act[a].resv, h) = Food(w.act[a].resv, h)
        /\ Brings(x, a, h) = Brings(w, a, h)
    BY Zenon DEF Brings
  <2>3. /\ x.money[h] = w.money[h] - Money(Spent(w, S), h)
        /\ x.food[h] = w.food[h] - Food(Spent(w, S), h) + Gained(w, Bought(w, S, h))
    BY DEF Books
  <2>4. /\ Money(Spent(w, S \cup {a}), h) = Money(Spent(w, S), h) + Money(w.act[a].resv, h)
        /\ Food(Spent(w, S \cup {a}), h) = Food(Spent(w, S), h) + Food(w.act[a].resv, h)
        /\ Money(Spent(w, S), h) \in Nat /\ Money(w.act[a].resv, h) \in Nat
        /\ Food(Spent(w, S), h) \in Nat /\ Food(w.act[a].resv, h) \in Nat
    BY SpentWithOne
  <2>5. /\ Gained(w, Bought(w, S \cup {a}, h)) = Gained(w, Bought(w, S, h)) + Brings(w, a, h)
        /\ Gained(w, Bought(w, S, h)) \in Nat /\ Brings(w, a, h) \in Nat
    BY GainedWithOne
  <2>6. w.money[h] \in Nat /\ w.food[h] \in Nat
    BY DEF Covered
  <2>7. QED BY <2>1, <2>2, <2>3, <2>4, <2>5, <2>6
<1>2. QED BY <1>1 DEF Books

LEMMA BooksOfNothing ==
  ASSUME NEW w, Good(w), Covered(w), NEW v, v.money = w.money, v.food = w.food
  PROVE  Books(w, {}, v)
<1>1. ASSUME NEW h \in Household
      PROVE  /\ v.money[h] = w.money[h] - Money(Spent(w, {}), h)
             /\ v.food[h] = w.food[h] - Food(Spent(w, {}), h) + Gained(w, Bought(w, {}, h))
  <2>1. Spent(w, {}) = {} /\ Bought(w, {}, h) = {}
    BY DEF Spent, Bought
  <2>2. Resources({}, h) = {} /\ IsFiniteSet({})
    BY FS_EmptySet DEF Resources
  <2>3. Money({}, h) = 0 /\ Food({}, h) = 0
    BY <2>2, MoneyIsTotal, FoodIsTotal, TotalOfNothing
  <2>4. Gained(w, {}) = 0
    BY GainedIsTotal, TotalOfNothing
  <2>5. /\ Money(Spent(w, {}), h) = 0 /\ Food(Spent(w, {}), h) = 0
        /\ Gained(w, Bought(w, {}, h)) = 0
    BY <2>1, <2>3, <2>4, Zenon
  <2>6. w.money[h] \in Nat /\ w.food[h] \in Nat
    BY DEF Covered
  <2>7. QED BY <2>5, <2>6
<1>2. QED BY <1>1 DEF Books

(* The inductive invariant: the checkpoint less what the actions settled   *)
(* so far in this minute cost is what the context holds.                   *)
SInv ==
  /\ PInv /\ FInv
  /\ ChargedOnce(auth) /\ ChargedOnce(ctx)
  /\ stage # "idle" => Books(auth, Performed(auth, ctx), ctx)
  /\ stage = "progress" => \A a \in todo : ctx.act[a] = auth.act[a]

(* What a step does to the balances of the checkpoint.                     *)
Settles(w, v) ==
  Books(w, IF v.minute = w.minute THEN {} ELSE Performed(w, v), v)

LEMMA InitSInv ==
  ASSUME Init
  PROVE  SInv
<1>1. PInv /\ FInv
  BY InitPInv, InitFInv
<1>2. stage = "idle" /\ ctx = auth /\ DOMAIN auth.act = {}
  BY DEF Init, InitialContext
<1>3. ChargedOnce(auth)
  BY <1>2 DEF ChargedOnce
<1>4. ChargedOnce(ctx)
  BY <1>2, <1>3
<1>5. QED BY <1>1, <1>2, <1>3, <1>4 DEF SInv

LEMMA NextSInv ==
  ASSUME SInv, [Next]_vars
  PROVE  SInv' /\ Settles(auth, auth')
<1>1. IInv /\ IInv' /\ PInv /\ PInv' /\ FInv /\ FInv'
  BY NextInv, NextPInv, NextFInv DEF SInv, PInv
<1>2. /\ Good(auth) /\ Good(ctx) /\ Covered(auth) /\ Covered(ctx)
      /\ ChargedOnce(auth) /\ ChargedOnce(ctx) /\ Paired(ctx) /\ Paired(auth)
      /\ Follows(auth, ctx, DOMAIN auth.act)
  BY <1>1 DEF IInv, PInv, FInv, SInv
<1>3. Books(auth, {}, auth)
  BY <1>2, BooksOfNothing
<1>4. ASSUME auth' = auth
      PROVE  Settles(auth, auth') /\ ChargedOnce(auth')
  BY <1>2, <1>3, <1>4 DEF Settles
<1>5. ASSUME stage' = "idle", ctx' = auth', Settles(auth, auth'), ChargedOnce(auth')
      PROVE  SInv' /\ Settles(auth, auth')
  BY <1>1, <1>5 DEF SInv
<1>6. CASE BeginTick
  <2>1. /\ auth' = auth /\ ctx'.act = auth.act /\ ctx'.money = auth.money
        /\ ctx'.food = auth.food /\ stage' = "progress" /\ todo' = DOMAIN auth.act
    BY <1>2, <1>6 DEF BeginTick, Good, ContextOK
  <2>2. PICK v : v = ctx'
    OBVIOUS
  <2>3. ChargedOnce(v) /\ Books(auth, {}, v)
    BY <1>2, <2>1, <2>2, ChargedOnceSame, BooksOfNothing
  <2>4. Performed(auth, v) = {}
    BY <2>1, <2>2 DEF Performed
  <2>5. Books(auth, Performed(auth, v), v)
    BY <2>3, <2>4, Zenon
  <2>6. Books(auth', Performed(auth', ctx'), ctx') /\ ChargedOnce(ctx')
    BY <2>1, <2>2, <2>3, <2>5, Zenon
  <2>7. QED BY <1>1, <1>4, <2>1, <2>6 DEF SInv
<1>7. CASE ProgressAction
  <2>1. PICK a \in todo : /\ \A b \in todo : a <= b
                          /\ ctx' \in Progress(ctx, a) /\ todo' = todo \ {a}
    BY <1>7 DEF ProgressAction
  <2>2. /\ a \in DOMAIN ctx.act /\ a \in DOMAIN auth.act /\ auth' = auth
        /\ stage = "progress" /\ stage' = "progress"
        /\ ctx.act[a] = auth.act[a] /\ ctx.minute = auth.minute + 1
        /\ todo \subseteq DOMAIN ctx.act /\ todo \subseteq DOMAIN auth.act
        /\ \A b \in todo : ctx.act[b] = auth.act[b]
        /\ OnTime(auth, a)
        /\ Books(auth, Performed(auth, ctx), ctx)
    BY <1>1, <1>7, <2>1 DEF ProgressAction, IInv, FInv, SInv
  <2>3. ctx.act[a].phase = "TRAVELING" /\ ~Live => ctx.minute < ctx.act[a].end
    <3>1. /\ ctx.minute \in Nat /\ auth.minute \in Nat
          /\ auth.act[a].expected \in Nat /\ auth.act[a].end \in Nat
          /\ auth.act[a].expected < auth.act[a].end
      BY <1>2, <2>2 DEF Good, ContextOK, ActionRecord, Dated
    <3>2. auth.act[a].phase = "TRAVELING" /\ ~Live => auth.minute < auth.act[a].expected
      BY <2>2 DEF OnTime
    <3>3. QED BY <2>2, <3>1, <3>2
  <2>4. PICK y : y = ctx'
    OBVIOUS
  <2>5. /\ ChargedOnce(y)
        /\ \A b \in DOMAIN ctx.act \ {a} : b \in DOMAIN y.act /\ y.act[b] = ctx.act[b]
        /\ IF a \notin DOMAIN y.act /\ ctx.act[a].phase # "TRAVELING"
             THEN Pays(ctx, y, a)
             ELSE y.money = ctx.money /\ y.food = ctx.food
    BY <1>2, <2>1, <2>2, <2>3, <2>4, ProgressPays
  <2>6. Follows(ctx, y, {a})
    BY <1>2, <2>1, <2>2, <2>4, ProgressFollows
  <2>7. \A b \in DOMAIN auth.act : b \in DOMAIN y.act => b \in DOMAIN ctx.act
    <3>1. \A b \in DOMAIN auth.act : b \in Nat /\ b < auth.next
      BY <1>2 DEF Good, ContextOK
    <3>2. auth.next \in Nat /\ ctx.next \in Nat /\ auth.next <= ctx.next
      BY <1>2 DEF Good, ContextOK, Follows
    <3>3. \A b \in DOMAIN y.act : b \notin DOMAIN ctx.act => b >= ctx.next
      BY <2>6 DEF Follows
    <3>4. QED BY <3>1, <3>2, <3>3
  <2>8. Books(auth, Performed(auth, y), y)
    <3>1. PICK S : S = Performed(auth, ctx)
      OBVIOUS
    <3>2. S \subseteq DOMAIN auth.act /\ a \notin S /\ Books(auth, S, ctx)
      BY <2>2, <3>1 DEF Performed
    <3>3. CASE a \notin DOMAIN y.act /\ ctx.act[a].phase # "TRAVELING"
      <4>1. Performed(auth, y) = S \cup {a}
        BY <2>2, <2>5, <2>7, <3>1, <3>3 DEF Performed
      <4>2. Books(auth, S \cup {a}, y)
        BY <1>2, <2>2, <2>5, <3>2, <3>3, BooksWithOne
      <4>3. QED BY <4>1, <4>2, Zenon
    <3>4. CASE ~(a \notin DOMAIN y.act /\ ctx.act[a].phase # "TRAVELING")
      <4>1. Performed(auth, y) = S
        BY <2>2, <2>5, <2>7, <3>1, <3>4 DEF Performed
      <4>2. y.money = ctx.money /\ y.food = ctx.food
        BY <2>5, <3>4
      <4>3. Books(auth, S, y)
        BY <3>2, <4>2, Zenon DEF Books
      <4>4. QED BY <4>1, <4>3, Zenon
    <3>5. QED BY <3>3, <3>4
  <2>9. \A b \in todo' : y.act[b] = auth.act[b]
    BY <2>1, <2>2, <2>5
  <2>10. /\ Books(auth', Performed(auth', ctx'), ctx') /\ ChargedOnce(ctx')
         /\ \A b \in todo' : ctx'.act[b] = auth'.act[b]
    BY <2>2, <2>4, <2>5, <2>8, <2>9, Zenon
  <2>11. QED BY <1>1, <1>4, <2>2, <2>10 DEF SInv
<1>8. CASE BeginDecisions
  <2>1. auth' = auth /\ ctx' = ctx /\ stage = "progress" /\ stage' = "decide"
    BY <1>8 DEF BeginDecisions
  <2>2. Books(auth', Performed(auth', ctx'), ctx') /\ ChargedOnce(ctx')
    BY <1>2, <2>1 DEF SInv
  <2>3. QED BY <1>1, <1>4, <2>1, <2>2 DEF SInv
<1>9. ASSUME NEW p \in Agent, SkipCommitted(p)
      PROVE  SInv' /\ Settles(auth, auth')
  <2>1. auth' = auth /\ ctx' = ctx /\ stage = "decide" /\ stage' = "decide"
    BY <1>9 DEF SkipCommitted
  <2>2. Books(auth', Performed(auth', ctx'), ctx') /\ ChargedOnce(ctx')
    BY <1>2, <2>1 DEF SInv
  <2>3. QED BY <1>1, <1>4, <2>1, <2>2 DEF SInv
<1>10. ASSUME NEW p \in Agent, DecideAgent(p)
       PROVE  SInv' /\ Settles(auth, auth')
  <2>1. /\ auth' = auth /\ stage = "decide"
        /\ \/ ctx' = auth /\ stage' = "idle"
           \/ /\ \E c \in CandidateRecord : /\ c.activity # None => Rule[c.behavior].invites # {}
                                            /\ Accepts(ctx, c, FALSE)
                                            /\ ctx' = CreateAction(ctx, c, FALSE)
              /\ stage' = stage
    BY <1>1, <1>10, DecideShape
  <2>2. CASE ctx' = auth /\ stage' = "idle"
    BY <1>4, <1>5, <2>1, <2>2
  <2>3. ASSUME NEW c \in CandidateRecord,
               c.activity # None => Rule[c.behavior].invites # {},
               Accepts(ctx, c, FALSE), ctx' = CreateAction(ctx, c, FALSE), stage' = stage
        PROVE  SInv' /\ Settles(auth, auth')
    <3>1. PICK y : y = ctx'
      OBVIOUS
    <3>2. PICK R : ActionBegins(ctx, y, c, FALSE, R)
      BY <1>2, <2>3, <3>1, CreateBegins
    <3>3. ChargedOnce(y)
      BY <1>2, <2>3, <3>2, ChargedOnceBegins
    <3>4. /\ y.money = ctx.money /\ y.food = ctx.food
          /\ DOMAIN y.act = DOMAIN ctx.act \cup {ctx.next}
      BY <3>2 DEF ActionBegins
    <3>5. ctx.next \notin DOMAIN auth.act
      <4>1. \A b \in DOMAIN auth.act : b \in Nat /\ b < auth.next
        BY <1>2 DEF Good, ContextOK
      <4>2. auth.next \in Nat /\ ctx.next \in Nat /\ auth.next <= ctx.next
        BY <1>2 DEF Good, ContextOK, Follows
      <4>3. QED BY <4>1, <4>2
    <3>6. Performed(auth, y) = Performed(auth, ctx)
      BY <3>4, <3>5 DEF Performed
    <3>7. Books(auth, Performed(auth, ctx), ctx)
      BY <2>1 DEF SInv
    <3>8. Books(auth, Performed(auth, ctx), y)
      BY <3>4, <3>7, Zenon DEF Books
    <3>9. Books(auth, Performed(auth, y), y)
      BY <3>6, <3>8, Zenon
    <3>10. Books(auth', Performed(auth', ctx'), ctx') /\ ChargedOnce(ctx')
      BY <2>1, <3>1, <3>3, <3>9, Zenon
    <3>11. QED BY <1>1, <1>4, <2>1, <2>3, <3>10 DEF SInv
  <2>4. QED BY <2>1, <2>2, <2>3
<1>11. CASE Commit
  <2>1. Install(ctx) /\ stage = "decide"
    BY <1>11 DEF Commit
  <2>2. stage' = "idle" /\ ctx' = auth' /\ (auth' = ctx \/ auth' = auth)
    <3>1. PICK v : v = ctx
      OBVIOUS
    <3>2. stage' = "idle" /\ ctx' = auth' /\ (auth' = v \/ auth' = auth)
      BY <2>1, <3>1, InstallShape
    <3>3. QED BY <3>1, <3>2
  <2>3. CASE auth' = auth
    BY <1>4, <1>5, <2>2, <2>3
  <2>4. CASE auth' = ctx
    <3>1. Books(auth, Performed(auth, ctx), ctx)
      BY <2>1 DEF SInv
    <3>2. ctx.minute # auth.minute
      BY <1>1, <1>2, <2>1 DEF IInv, Good, ContextOK
    <3>3. Settles(auth, ctx)
      BY <3>1, <3>2 DEF Settles
    <3>4. Settles(auth, auth') /\ ChargedOnce(auth')
      BY <1>2, <2>4, <3>3
    <3>5. QED BY <1>5, <2>2, <3>4
  <2>5. QED BY <2>2, <2>3, <2>4
<1>12. CASE Report
  <2>1. PICK a \in DOMAIN auth.act :
          \E v : Install(v) /\ (WentOn(auth, v, a) \/ ActionEnds(auth, v, a))
    BY <1>1, <1>12, ReportShape
  <2>2. PICK v : Install(v) /\ (WentOn(auth, v, a) \/ ActionEnds(auth, v, a))
    BY <2>1
  <2>3. /\ v.money = auth.money /\ v.food = auth.food /\ v.minute = auth.minute
        /\ DOMAIN v.act \subseteq DOMAIN auth.act
    BY <2>2 DEF WentOn, ActionEnds
  <2>4. Follows(auth, v, {})
    BY <1>2, <2>2, WentOnFollows, ActionEndsFollows
  <2>5. ChargedOnce(v) /\ Settles(auth, v)
    <3>1. ChargedOnce(v)
      BY <1>2, <2>3, <2>4, ChargedOnceStays
    <3>2. Books(auth, {}, v)
      BY <1>2, <2>3, BooksOfNothing
    <3>3. QED BY <2>3, <3>1, <3>2 DEF Settles
  <2>6. stage' = "idle" /\ ctx' = auth' /\ (auth' = v \/ auth' = auth)
    BY <2>2, InstallShape
  <2>7. Settles(auth, auth') /\ ChargedOnce(auth')
    BY <1>4, <2>5, <2>6
  <2>8. QED BY <1>5, <2>6, <2>7
<1>13. CASE UNCHANGED vars
  <2>1. auth' = auth /\ ctx' = ctx /\ stage' = stage /\ todo' = todo
    BY <1>13 DEF vars
  <2>2. /\ ChargedOnce(ctx')
        /\ stage' # "idle" => Books(auth', Performed(auth', ctx'), ctx')
        /\ stage' = "progress" => \A a \in todo' : ctx'.act[a] = auth'.act[a]
    BY <1>2, <2>1 DEF SInv
  <2>3. QED BY <1>1, <1>4, <2>1, <2>2 DEF SInv
<1>14. QED BY <1>6, <1>7, <1>8, <1>9, <1>10, <1>11, <1>12, <1>13 DEF Next, Tick

(* A committed minute charges each household exactly what the performances *)
(* that ended in it had reserved, each once, and credits what they brought;*)
(* no report, failure, cancellation or lost minute touches a balance.      *)
THEOREM SettlementIsExact == Spec => SettledOnce
<1>1. Init => SInv
  BY InitSInv
<1>2. SInv /\ [Next]_vars => SInv' /\ Settles(auth, auth')
  BY NextSInv
<1>3. Settles(auth, auth') =>
        LET gone == DOMAIN auth.act \ DOMAIN auth'.act
            performed == IF auth'.minute = auth.minute THEN {}
                         ELSE {a \in gone : auth.act[a].phase # "TRAVELING"}
            paid == UNION {auth.act[a].resv : a \in performed}
            bought(h) == {a \in performed : /\ Resources(auth.act[a].resv, h) # {}
                                             /\ Rule[auth.act[a].behavior].gain > 0}
            gained(h) == MapThenSumSet(LAMBDA a : Rule[auth.act[a].behavior].gain, bought(h))
        IN  \A h \in Household :
              /\ auth'.money[h] = auth.money[h] - Money(paid, h)
              /\ auth'.food[h] = auth.food[h] - Food(paid, h) + gained(h)
  BY DEF Settles, Books, Performed, Spent, Bought, Gained, MapThenSumSet
<1>4. QED BY <1>1, <1>2, <1>3, PTL DEF Spec, SettledOnce

-----------------------------------------------------------------------------
(* Rooms: the headless engine never raises.                                *)

(* An action that begins takes no more room than the Resolver found.       *)
LEMMA RoomyBegins ==
  ASSUME NEW w, Good(w), Roomy(w), NEW c \in CandidateRecord, NEW joint \in BOOLEAN,
         Accepts(w, c, joint), NEW R, NEW v, ActionBegins(w, v, c, joint, R)
  PROVE  Roomy(v)
<1>1. PICK away : away = Travelers(w, c)
  OBVIOUS
<1>2. PICK K : K = {r \in R : r.kind = "LOCATION"}
  OBVIOUS
<1>3. PICK expires \in Nat : R = Reservations(w, c, joint, expires)
  BY DEF ActionBegins
<1>4. \A r \in K : \E p \in away :
        r = Reservation(w.next, expires, "LOCATION", p, None, 0, None, 0, 0, c.dest)
  BY <1>1, <1>2, <1>3 DEF Reservations, Reservation
<1>5. \A p \in away :
        Reservation(w.next, expires, "LOCATION", p, None, 0, None, 0, 0, c.dest) \in R
  BY <1>1, <1>3 DEF Reservations
<1>6. /\ \A r \in K : r.agent \in away /\ r.location = c.dest /\ r.owner = w.next
      /\ \A r, q \in K : r.agent = q.agent => r = q
  BY <1>4 DEF Reservation
<1>7. \A p \in away : \E r \in R : /\ r.kind = "LOCATION" /\ r.agent = p
                                   /\ r.owner = w.next /\ r.location = c.dest
  BY <1>5 DEF Reservation
<1>8. /\ IsFiniteSet(away) /\ Cardinality(away) \in Nat
  <2>1. away \subseteq Participants(c)
    BY <1>1 DEF Travelers
  <2>2. QED BY <2>1, ParticipantsFact, FS_Subset, FS_CardinalityType
<1>9. IsFiniteSet(K) /\ Cardinality(K) <= Cardinality(away) /\ Cardinality(K) \in Nat
  <2>1. DEFINE f == [r \in K |-> r.agent]
  <2>2. f \in [K -> away] /\ \A r, q \in K : f[r] = f[q] => r = q
    BY <1>6
  <2> HIDE DEF f
  <2>3. QED BY <1>8, <2>2, NoLarger, FS_CardinalityType
<1>10. c.dest \in Location /\ Participants(c) \subseteq Agent
  BY ParticipantsFact DEF CandidateRecord
<1>11. /\ v.resv = w.resv \cup R /\ w.next \notin DOMAIN w.act
       /\ DOMAIN v.act = DOMAIN w.act \cup {w.next}
       /\ \A b \in DOMAIN w.act : v.act[b] = w.act[b]
       /\ v.act[w.next].agents = Participants(c) /\ v.act[w.next].dest = c.dest
       /\ v.loc = [p \in Agent |-> IF p \in away THEN Traveling ELSE w.loc[p]]
       /\ v.occ = [l \in Location |-> w.occ[l] \ away]
       /\ Good(v)
  BY <1>1 DEF ActionBegins
<1>12. ASSUME NEW l \in Location
       PROVE  /\ IsFiniteSet(v.occ[l]) /\ IsFiniteSet(Expected(v, l))
              /\ Cardinality(v.occ[l]) + Cardinality(Expected(v, l)) <= Capacity[l]
  <2>1. PICK O, E, P, F : O = w.occ[l] /\ E = Expected(w, l) /\ P = v.occ[l] /\ F = Expected(v, l)
    OBVIOUS
  <2>2. /\ IsFiniteSet(O) /\ IsFiniteSet(E) /\ Cardinality(O) + Cardinality(E) <= Capacity[l]
    BY <2>1, Zenon DEF Roomy
  <2>3. Capacity[l] \in Nat
    BY SocietyConstants
  <2>4. P \subseteq O
    BY <1>11, <2>1
  <2>5. /\ IsFiniteSet(P) /\ Cardinality(P) <= Cardinality(O)
        /\ Cardinality(P) \in Nat /\ Cardinality(O) \in Nat /\ Cardinality(E) \in Nat
    BY <2>2, <2>4, FS_Subset, FS_CardinalityType
  <2>6. CASE l # c.dest
    <3>1. F \subseteq E
      BY <1>2, <1>6, <1>11, <2>1, <2>6 DEF Expected
    <3>2. IsFiniteSet(F) /\ Cardinality(F) <= Cardinality(E) /\ Cardinality(F) \in Nat
      BY <2>2, <3>1, FS_Subset, FS_CardinalityType
    <3>3. Cardinality(P) + Cardinality(F) <= Capacity[l]
      BY <2>2, <2>3, <2>5, <3>2
    <3>4. QED BY <2>1, <2>5, <3>2, <3>3, Zenon
  <2>7. CASE l = c.dest
    <3>1. Cardinality(O) + Cardinality(E) + Cardinality(away) <= Capacity[l]
      <4>1. HasRoom(w, c)
        BY DEF Accepts
      <4>2. Cardinality(O) + Incoming(w, l) + Cardinality(away) <= Capacity[l]
        BY <1>1, <2>1, <2>7, <4>1, Zenon DEF HasRoom
      <4>3. Incoming(w, l) = Cardinality(E)
        BY <2>1, Zenon DEF Incoming, Expected
      <4>4. QED BY <4>2, <4>3, Zenon
    <3>2. F \subseteq E \cup K
      BY <1>2, <1>11, <2>1 DEF Expected
    <3>3. /\ IsFiniteSet(E \cup K)
          /\ Cardinality(E \cup K) = Cardinality(E) + Cardinality(K) - Cardinality(E \cap K)
          /\ Cardinality(E \cap K) \in Nat /\ Cardinality(E \cup K) \in Nat
      <4>1. IsFiniteSet(E \cap K)
        BY <2>2, FS_Intersection
      <4>2. QED BY <1>9, <2>2, <4>1, FS_Union, FS_CardinalityType
    <3>4. IsFiniteSet(F) /\ Cardinality(F) <= Cardinality(E \cup K) /\ Cardinality(F) \in Nat
      BY <3>2, <3>3, FS_Subset, FS_CardinalityType
    <3>5. Cardinality(P) + Cardinality(F) <= Capacity[l]
      BY <1>8, <1>9, <2>3, <2>5, <3>1, <3>3, <3>4
    <3>6. QED BY <2>1, <2>5, <3>4, <3>5, Zenon
  <2>8. QED BY <2>6, <2>7
<1>13. ASSUME NEW b \in DOMAIN v.act, NEW p \in Agent,
              p \in v.act[b].agents, p \notin v.act[b].arrived
       PROVE  \E r \in v.resv : /\ r.kind = "LOCATION" /\ r.agent = p /\ r.owner = b
                                /\ r.location = v.act[b].dest
  <2>1. CASE b \in DOMAIN w.act
    <3>1. PICK r \in w.resv : /\ r.kind = "LOCATION" /\ r.agent = p /\ r.owner = b
                              /\ r.location = w.act[b].dest
      BY <1>11, <1>13, <2>1 DEF Roomy
    <3>2. QED BY <1>11, <2>1, <3>1
  <2>2. CASE b = w.next
    <3>1. v.loc[p] = Traveling
      BY <1>11, <1>13 DEF Good, Placed
    <3>2. p \in away
      <4>1. p \in Participants(c)
        BY <1>11, <1>13, <2>2
      <4>2. ASSUME p \notin away PROVE FALSE
        <5>1. w.loc[p] = c.dest /\ v.loc[p] = w.loc[p]
          BY <1>1, <1>11, <4>1, <4>2 DEF Travelers
        <5>2. QED BY <1>10, <3>1, <5>1, SocietyConstants
      <4>3. QED BY <4>2
    <3>3. QED BY <1>7, <1>11, <2>2, <3>2
  <2>3. QED BY <1>11, <2>1, <2>2
<1>14. QED BY <1>12, <1>13 DEF Roomy

(* An action that ends without anybody leaving a place takes no room.      *)
LEMMA RoomyEnds ==
  ASSUME NEW w, Good(w), Roomy(w), NEW a \in DOMAIN w.act, NEW v, ActionEnds(w, v, a),
         v.occ = w.occ
  PROVE  Roomy(v)
<1>1. /\ v.resv = w.resv \ w.act[a].resv /\ DOMAIN v.act = DOMAIN w.act \ {a}
      /\ \A b \in DOMAIN v.act : v.act[b] = w.act[b]
  BY DEF ActionEnds
<1>2. \A r \in w.act[a].resv : r.owner = a
  BY DEF Good, Ledger
<1>3. v.resv \subseteq w.resv /\ \A r \in w.resv \ v.resv : r.owner = a
  BY <1>1, <1>2
<1>4. DOMAIN v.act \subseteq DOMAIN w.act
  BY <1>1
<1>5. \A b \in DOMAIN v.act :
        /\ v.act[b].agents = w.act[b].agents /\ v.act[b].dest = w.act[b].dest
        /\ v.act[b].arrived = w.act[b].arrived
        /\ (b = a => v.act[b].arrived = v.act[b].agents)
  BY <1>1
<1>6. Roomy(w) /\ v.occ = w.occ
  OBVIOUS
<1>7. QED BY ONLY <1>3, <1>4, <1>5, <1>6, RoomyLess, SMTT(30)

(* One action of _progress_actions, headless.                              *)
LEMMA RoomyProgress ==
  ASSUME ~Live, NEW w, Good(w), Roomy(w), NEW a \in DOMAIN w.act, NEW v \in Progress(w, a)
  PROVE  Roomy(v)
<1>1. PICK u : /\ WentOn(w, u, a)
               /\ \/ v = u
                  \/ u.act[a].phase = "PERFORMING" /\ v \in ResolveAction(u, a)
  BY ProgressShape
<1>2. Good(u) /\ a \in DOMAIN u.act /\ Roomy(u)
  BY <1>1 DEF WentOn
<1>3. CASE v # u
  <2>1. u.act[a].phase # "TRAVELING" /\ v \in ResolveAction(u, a)
    BY <1>1, <1>3
  <2>2. u.act[a].arrived = u.act[a].agents
    BY <1>2, <2>1, AllArrived
  <2>3. DEFINE freed == TerminateAction(u, a, "COMPLETED")
               paying == CommitReservedResources(u, a)
               settled == TerminateAction(paying, a, "COMPLETED")
  <2>4. ActionEnds(u, freed, a) /\ freed.occ = u.occ
    BY <1>2, <2>2, TerminateEnds
  <2>5. Good(freed) /\ Roomy(freed)
    <3> HIDE DEF freed
    <3>1. QED BY <1>2, <2>4, RoomyEnds DEF ActionEnds
  <2>6. Roomy(settled)
    <3>1. Good(paying) /\ paying.act = u.act /\ paying.resv = u.resv
      BY <1>2, CommitReservedResourcesGood
    <3>2. paying.occ = u.occ
      BY <1>2 DEF CommitReservedResources, Good, ContextOK
    <3> HIDE DEF paying
    <3>3. Roomy(paying)
      BY <1>2, <3>1, <3>2 DEF Roomy, Expected
    <3>4. ActionEnds(paying, settled, a) /\ settled.occ = paying.occ
      BY <1>2, <2>2, <3>1, TerminateEnds
    <3> HIDE DEF settled
    <3>5. a \in DOMAIN paying.act
      BY <1>2, <3>1
    <3>6. QED BY <3>1, <3>3, <3>4, <3>5, RoomyEnds
  <2> HIDE DEF freed, settled
  <2>7. ASSUME NEW c \in CandidateRecord, Accepts(freed, c, TRUE),
               v = CreateAction(freed, c, TRUE)
        PROVE  Roomy(v)
    <3>1. PICK R : ActionBegins(freed, v, c, TRUE, R)
      BY <2>5, <2>7, CreateBegins
    <3>2. QED BY <2>5, <2>7, <3>1, RoomyBegins
  <2>8. \/ v = settled \/ v = freed
        \/ \E c \in CandidateRecord : Accepts(freed, c, TRUE) /\ v = CreateAction(freed, c, TRUE)
    BY <1>2, <2>1, ResolveShape DEF freed, settled
  <2>9. QED BY <2>5, <2>6, <2>7, <2>8
<1>4. QED BY <1>2, <1>3

(* The inductive invariant of the headless engine: the room suffices at    *)
(* every moment of a minute, and an agent that is still to decide has not  *)
(* moved since its candidates were enumerated.                             *)
NInv ==
  /\ PInv
  /\ Roomy(auth) /\ Roomy(ctx)
  /\ stage = "decide" => \A p \in todo : ctx.cur[p] = 0 => ctx.loc[p] = source.loc[p]
  /\ fault = "none"

(* The idle fallback is at hand: it needs no room, no objects, no money.   *)
LEMMA IdleAccepted ==
  ASSUME NInv, stage = "decide", NEW p \in Agent, p \in todo, ctx.cur[p] = 0
  PROVE  Accepts(ctx, IdleCandidate(source, p), FALSE)
<1>1. DEFINE c == IdleCandidate(source, p)
<1>2. /\ c.actor = p /\ c.target = None /\ c.objects = {} /\ c.behavior = Idle
      /\ c.dest = source.loc[p]
  BY IdleIsFree DEF IdleCandidate, Candidate, Destination
<1>3. c.dest = ctx.loc[p] /\ c.dest \in Location
  <2>1. ContextOK(source) /\ source.loc[p] # Traveling /\ ctx.loc[p] = source.loc[p]
    BY DEF NInv, PInv, IInv
  <2>2. QED BY <1>2, <2>1 DEF ContextOK, Traveled
<1> HIDE DEF c
<1>4. Participants(c) = {p}
  BY <1>2 DEF Participants
<1>5. HasRoom(ctx, c)
  <2>1. PICK O, E : O = ctx.occ[c.dest] /\ E = Expected(ctx, c.dest)
    OBVIOUS
  <2>2. /\ IsFiniteSet(O) /\ IsFiniteSet(E)
        /\ Cardinality(O) + Cardinality(E) <= Capacity[c.dest]
    BY <1>3, <2>1, Zenon DEF NInv, Roomy
  <2>3. Travelers(ctx, c) = {}
    BY <1>3, <1>4 DEF Travelers
  <2>4. Cardinality(Travelers(ctx, c)) = 0
    BY <2>3, FS_EmptySet, Zenon
  <2>5. Incoming(ctx, c.dest) = Cardinality(E)
    BY <2>1, Zenon DEF Incoming, Expected
  <2>6. Cardinality(O) \in Nat /\ Cardinality(E) \in Nat
    BY <2>2, FS_CardinalityType
  <2>7. Cardinality(O) + Cardinality(E) + Cardinality(Travelers(ctx, c)) <= Capacity[c.dest]
    BY <2>2, <2>4, <2>6
  <2>8. QED BY <2>1, <2>5, <2>7, Zenon DEF HasRoom
<1>6. CanPay(ctx, c, FALSE)
  <2>1. ASSUME NEW h \in Household
        PROVE  /\ ctx.money[h] - Money(ctx.resv, h) >= MoneyCost(c, FALSE, h)
               /\ ctx.food[h] - Food(ctx.resv, h) >= FoodCost(c, h)
    <3>1. MoneyCost(c, FALSE, h) = 0
      <4>1. DEFINE payers == {q \in Participants(c) : Member[q] = h /\ (q = c.actor \/ FALSE)}
      <4>2. payers \subseteq {p}
        BY <1>4
      <4>3. Cardinality(payers) \in Nat
        BY <4>2, FS_Singleton, FS_Subset, FS_CardinalityType
      <4>4. MoneyCost(c, FALSE, h) = Rule[c.behavior].money * Cardinality(payers)
        BY DEF MoneyCost
      <4> HIDE DEF payers
      <4>5. Rule[c.behavior].money = 0
        BY <1>2, IdleIsFree
      <4>6. MoneyCost(c, FALSE, h) = 0 * Cardinality(payers)
        BY <4>4, <4>5, Zenon
      <4>7. \A n \in Nat : 0 * n = 0
        OBVIOUS
      <4>8. QED BY <4>3, <4>6, <4>7, Zenon
    <3>2. FoodCost(c, h) = 0
      BY <1>2, IdleIsFree DEF FoodCost
    <3>3. /\ Money(ctx.resv, h) <= ctx.money[h] /\ Food(ctx.resv, h) <= ctx.food[h]
          /\ ctx.money[h] \in Nat /\ ctx.food[h] \in Nat
          /\ IsFiniteSet(Resources(ctx.resv, h)) /\ ctx.resv \subseteq ReservationRecord
      BY DEF NInv, PInv, IInv, Good, ContextOK, Covered, ResourceCover
    <3>4. Money(ctx.resv, h) \in Nat /\ Food(ctx.resv, h) \in Nat
      BY <3>3, Without
    <3>5. \A x, y \in Nat : x <= y => y - x >= 0
      OBVIOUS
    <3>6. ctx.money[h] - Money(ctx.resv, h) >= 0 /\ ctx.food[h] - Food(ctx.resv, h) >= 0
      BY <3>3, <3>4, <3>5, Zenon
    <3>7. QED BY <3>1, <3>2, <3>6, Zenon
  <2>2. QED BY <2>1 DEF CanPay
<1>7. ctx.cur[c.actor] = 0 /\ c.target = None /\ c.objects = {}
  BY <1>2
<1>8. Accepts(ctx, c, FALSE)
  BY <1>5, <1>6, <1>7 DEF Accepts
<1>9. QED BY <1>8 DEF c

(* The candidate state of a minute passes the validation of its commit.    *)
LEMMA CommitPasses ==
  ASSUME NInv
  PROVE  AuthorityInvariants(ctx)
<1>1. /\ Ownership(ctx) /\ Membership(ctx)
      /\ ReservationLedger(ctx) /\ SlotLedger(ctx) /\ NoneExpired(ctx)
  BY InvClaims DEF NInv, PInv, ClaimsAgree
<1>2. ResourceCover(ctx)
  BY DEF NInv, PInv, Covered
<1>3. LocationCapacity(ctx)
  <2>1. ASSUME NEW l \in Location
        PROVE  Cardinality(ctx.occ[l]) + Incoming(ctx, l) <= Capacity[l]
    <3>1. Cardinality(ctx.occ[l]) + Cardinality(Expected(ctx, l)) <= Capacity[l]
      BY Zenon DEF NInv, Roomy
    <3>2. Incoming(ctx, l) = Cardinality(Expected(ctx, l))
      BY Zenon DEF Incoming, Expected
    <3>3. QED BY <3>1, <3>2, Zenon
  <2>2. QED BY <2>1 DEF LocationCapacity
<1>4. QED BY <1>1, <1>2, <1>3 DEF AuthorityInvariants, LedgerInvariants

LEMMA InitNInv ==
  ASSUME Init
  PROVE  NInv
<1>1. PInv
  BY InitPInv
<1>2. PICK w : w = InitialContext
  OBVIOUS
<1>3. auth = w /\ ctx = w /\ stage = "idle" /\ fault = "none"
  BY <1>2 DEF Init
<1>4. /\ w.resv = {} /\ DOMAIN w.act = {}
      /\ w.occ = [l \in Location |-> {p \in Agent : InitialLocation[p] = l}]
  BY <1>2 DEF InitialContext
<1>5. ASSUME NEW l \in Location
      PROVE  /\ IsFiniteSet(w.occ[l]) /\ IsFiniteSet(Expected(w, l))
             /\ Cardinality(w.occ[l]) + Cardinality(Expected(w, l)) <= Capacity[l]
  <2>1. PICK O, E : O = w.occ[l] /\ E = Expected(w, l)
    OBVIOUS
  <2>2. E = {}
    BY <1>4, <2>1 DEF Expected
  <2>3. IsFiniteSet(E) /\ Cardinality(E) = 0
    BY <2>2, FS_EmptySet
  <2>4. O = {p \in Agent : InitialLocation[p] = l}
    BY <1>4, <2>1
  <2>5. IsFiniteSet(O) /\ Cardinality(O) <= Capacity[l]
    BY <2>4, RoomAtFirst, Zenon
  <2>6. Cardinality(O) + Cardinality(E) <= Capacity[l]
    BY <2>3, <2>5, FS_CardinalityType, SocietyConstants
  <2>7. QED BY <2>1, <2>3, <2>5, <2>6, Zenon
<1>6. Roomy(w)
  BY <1>4, <1>5 DEF Roomy
<1>7. QED BY <1>1, <1>3, <1>6 DEF NInv

LEMMA NextNInv ==
  ASSUME ~Live, ~Cancels, NInv, [Next]_vars
  PROVE  NInv'
<1>1. PInv' /\ PInv /\ IInv
  BY NextPInv DEF NInv, PInv
<1>2. /\ Good(auth) /\ Good(ctx) /\ Roomy(auth) /\ Roomy(ctx) /\ fault = "none"
  BY <1>1 DEF NInv, IInv
<1>3. CASE BeginTick
  <2>1. /\ auth' = auth /\ ctx'.act = auth.act /\ ctx'.occ = auth.occ
        /\ ctx'.resv = auth.resv /\ stage' = "progress" /\ fault' = fault
    BY <1>2, <1>3 DEF BeginTick, Good, ContextOK
  <2>2. Roomy(ctx')
    BY <1>2, <2>1 DEF Roomy, Expected
  <2>3. QED BY <1>1, <1>2, <2>1, <2>2 DEF NInv
<1>4. CASE ProgressAction
  <2>1. PICK a \in todo : ctx' \in Progress(ctx, a)
    BY <1>4 DEF ProgressAction
  <2>2. /\ a \in DOMAIN ctx.act /\ auth' = auth /\ stage' = "progress" /\ fault' = fault
    BY <1>1, <1>4, <2>1 DEF ProgressAction, IInv
  <2>3. Roomy(ctx')
    BY <1>2, <2>1, <2>2, RoomyProgress
  <2>4. QED BY <1>1, <1>2, <2>2, <2>3 DEF NInv
<1>5. CASE BeginDecisions
  <2>1. auth' = auth /\ ctx' = ctx /\ source' = ctx /\ fault' = fault
    BY <1>5 DEF BeginDecisions
  <2>2. QED BY <1>1, <1>2, <2>1 DEF NInv
<1>6. ASSUME NEW p \in Agent, SkipCommitted(p)
      PROVE  NInv'
  <2>1. /\ auth' = auth /\ ctx' = ctx /\ source' = source /\ fault' = fault
        /\ stage = "decide" /\ todo' \subseteq todo
    BY <1>6 DEF SkipCommitted
  <2>2. QED BY <1>1, <1>2, <2>1 DEF NInv
<1>7. ASSUME NEW p \in Agent, DecideAgent(p)
      PROVE  NInv'
  <2>1. stage = "decide" /\ p \in todo /\ ctx.cur[p] = 0 /\ auth' = auth
    BY <1>1, <1>7, DecideShape
  <2>2. Accepts(ctx, IdleCandidate(source, p), FALSE)
    BY <2>1, IdleAccepted
  <2>3. PICK c \in CandidateRecord : Accepts(ctx, c, FALSE) /\ ctx' = CreateAction(ctx, c, FALSE)
    BY <1>1, <1>7, <2>2, DecideShape
  <2>4. todo' = todo \ {p} /\ UNCHANGED <<stage, source, fault>>
    BY <1>1, <1>7, <2>2, DecideShape
  <2>5. PICK v : v = ctx'
    OBVIOUS
  <2>6. PICK R : ActionBegins(ctx, v, c, FALSE, R)
    BY <1>2, <2>3, <2>5, CreateBegins
  <2>7. Roomy(v)
    BY <1>2, <2>3, <2>6, RoomyBegins
  <2>8. ASSUME NEW q \in todo', v.cur[q] = 0
        PROVE  v.loc[q] = source.loc[q]
    <3>1. q \in Agent /\ q \in todo
      BY <1>1, <2>1, <2>4 DEF IInv
    <3>2. /\ v.cur = [x \in Agent |-> IF x \in Participants(c) THEN ctx.next ELSE ctx.cur[x]]
          /\ v.loc = [x \in Agent |-> IF x \in Travelers(ctx, c) THEN Traveling ELSE ctx.loc[x]]
          /\ ctx.next # 0
      BY <1>2, <2>6 DEF ActionBegins, Good, ContextOK
    <3>3. q \notin Participants(c)
      BY <2>8, <3>1, <3>2
    <3>4. q \notin Travelers(ctx, c)
      BY <3>3 DEF Travelers
    <3>5. ctx.cur[q] = 0 /\ v.loc[q] = ctx.loc[q]
      BY <2>8, <3>1, <3>2, <3>3, <3>4
    <3>6. QED BY <2>1, <3>1, <3>5 DEF NInv
  <2>9. \A q \in todo' : ctx'.cur[q] = 0 => ctx'.loc[q] = source'.loc[q]
    BY <2>4, <2>5, <2>8
  <2>10. QED BY <1>1, <1>2, <2>1, <2>4, <2>5, <2>7, <2>9 DEF NInv
<1>8. CASE Commit
  <2>1. AuthorityInvariants(ctx)
    BY CommitPasses
  <2>2. auth' = ctx /\ ctx' = ctx /\ fault' = "none" /\ stage' = "idle"
    BY <1>8, <2>1 DEF Commit, Install
  <2>3. QED BY <1>1, <1>2, <2>2 DEF NInv
<1>9. CASE Report
  BY <1>1, <1>9, ReportShape
<1>10. CASE UNCHANGED vars
  BY <1>1, <1>10 DEF NInv, vars
<1>11. QED BY <1>3, <1>4, <1>5, <1>6, <1>7, <1>8, <1>9, <1>10 DEF Next, Tick

(* The headless engine, where nobody cancels an action from outside, never *)
(* raises: what the Resolver checks when it accepts a candidate is enough  *)
(* for the capacity check of every later commit, and the idle fallback is  *)
(* never rejected, so that no minute is ever lost.                         *)
THEOREM HeadlessNeverRaises == ~Live /\ ~Cancels => (Spec => []NeverRaises)
<1> SUFFICES ASSUME ~Live, ~Cancels PROVE Spec => []NeverRaises
  OBVIOUS
<1>1. Init => NInv
  BY InitNInv
<1>2. NInv /\ [Next]_vars => NInv'
  BY NextNInv
<1>3. NInv => NeverRaises
  BY DEF NInv, NeverRaises
<1>4. QED BY <1>1, <1>2, <1>3, PTL DEF Spec
=============================================================================
