------------------------------ MODULE Rulebook ------------------------------
(***************************************************************************)
(* SocietyRulebook, src/python/town_core/society/rules.py: what a free     *)
(* agent may do, how long it would take and which of it may rank first.    *)
(*                                                                         *)
(* v is what a decision reads of the source state about one agent, s its   *)
(* current or coming work session.  Scores are in hundredths of a utility  *)
(* point, needs in units of 1/NeedMax; the hash that draws durations and   *)
(* the noise is any value of its range.  The behaviours here are those of  *)
(* an allowlist without social ones (Talk has those), so the relationship, *)
(* known-event and conflict terms of a score are zero.                     *)
(***************************************************************************)
EXTENDS Integers, FiniteSets, FiniteSetsExt, SequencesExt, TLC

CONSTANTS
  Location, Need, NeedMax,
  Behavior,    \* behavior_allowlist
  Catalog,     \* Behavior -> the BehaviorConfig and the rule that admits it
  Rank,        \* Behavior -> position in the catalog
  Travel, Opens, Closes, DayLength,
  Hour, Lead,  \* 60 minutes, as a unit of scores and ahead of a shift
  BreakFrom, BreakUntil, \* the break window: 120 after the start, 30 before the end
  LongestNap,  \* 120: sleep while another need is low
  Crisis, Floor, Priority, \* need_crisis_thresholds, liveness floor, priority
  FoodLow,
  MaxCandidates,
  Weights,     \* utility.weights, and the bonuses, in hundredths
  Discipline, Frugality, \* personality, in hundredths
  Noise        \* deterministic_noise_amplitude, in hundredths

Never == -1
Up(x, y) == IF x >= y THEN x ELSE y
Down(x, y) == IF x <= y THEN x ELSE y

ASSUME RulebookConstants ==
  /\ "idle" \in Behavior /\ IsFiniteSet(Behavior)
  /\ NeedMax \in Nat \ {0} /\ Hour \in Nat \ {0} /\ DayLength \in Nat \ {0}
  /\ MaxCandidates \in Nat \ {0}
  /\ \A b \in Behavior :
       /\ Catalog[b].base \in Nat \ {0} /\ Catalog[b].variance \in Nat
       /\ Catalog[b].price \in Nat /\ Catalog[b].food \in Nat /\ Catalog[b].gain \in Nat
       /\ Catalog[b].delta \in [Need -> Int] /\ Catalog[b].during \in [Need -> Int]
  /\ Catalog["idle"].uses = {} /\ Catalog["idle"].dest = "HERE"
  /\ Catalog["idle"].price = 0 /\ Catalog["idle"].food = 0
  /\ \A l, k \in Location : Travel[l][k] \in Nat /\ (l = k => Travel[l][k] = 0)
  /\ Lead \in Nat /\ BreakFrom \in Nat /\ BreakUntil \in Nat /\ LongestNap \in Nat
  /\ \A n \in Need : Crisis[n] \in 0 .. NeedMax /\ Floor[n] \in 0 .. NeedMax

-----------------------------------------------------------------------------
(* The work session and the clock.                                         *)

LocationOpen(l, minute) ==
  Opens[l] <= minute % DayLength /\ minute % DayLength < Closes[l]

WorkDue(minute, s) ==
  ~s.finalized /\ s.start - Lead <= minute /\ minute < s.end

BreakLegal(v, s) ==
  /\ ~s.finalized
  /\ v.at = v.work
  /\ s.start + BreakFrom <= v.minute /\ v.minute < s.end - BreakUntil
  /\ s.effective > 0
  /\ s.breaks = 0

(* Slip: the minutes of the break itself are counted as work.              *)
BreakIgnored(from, d, s) ==
  s.effective + Up(0, s.end - from) >= (s.end - s.start) - s.grace
BreakPreservesCompletion(from, d, s) ==
  s.effective + Up(0, s.end - (from + d)) >= (s.end - s.start) - s.grace

ScheduleConflict(from, d, s) ==
  IF s.finalized THEN 0
  ELSE Up(0, Down(from + d, s.end) - Up(from, s.start))

-----------------------------------------------------------------------------
(* Candidates.                                                             *)

Destination(v, b) ==
  CASE Catalog[b].dest = "HERE" -> v.at
    [] Catalog[b].dest = "HOME" -> v.home
    [] Catalog[b].dest = "WORK" -> v.work
    [] OTHER -> Catalog[b].dest
TravelTo(v, b) == Travel[v.at][Destination(v, b)]
Arrival(v, b) == v.minute + TravelTo(v, b)

Threshold(n) == Up(Crisis[n], Floor[n])

(* _draft: the drawn duration, cut for a nap, a lonely evening or a shift. *)
Durations(v, b, s) ==
  LET shortest == Up(1, Catalog[b].base - Catalog[b].variance)
      drawn == shortest .. Catalog[b].base + Catalog[b].variance
      others == Need \ {"energy"}
      start == Up(Arrival(v, b), s.start)
  IN  CASE b = "sleep" /\ (\E n \in others : v.needs[n] = 0) -> {shortest}
        [] b = "sleep" /\ (\E n \in others : v.needs[n] <= Threshold(n)) ->
             {Down(d, LongestNap) : d \in drawn}
        [] b = "watch_tv" /\ v.needs["social"] = 0 -> {shortest}
        [] b = "work_shift" -> {Up(1, Down(Catalog[b].base, s.end - start))}
        [] OTHER -> drawn

(* The rule of enumerate_candidates that admits one behaviour.             *)
Wanted(v, b) == Catalog[b].axis = "none" \/ v.needs[Catalog[b].axis] < Catalog[b].below
(* Slip: what others have reserved is spent again.                         *)
AffordableOnPaper(v, b) == Catalog[b].price <= v.money /\ Catalog[b].food <= v.food
Affordable(v, b) == Catalog[b].price <= v.freeMoney /\ Catalog[b].food <= v.freeFood
Lacking(v, b) == Catalog[b].gain > 0 => v.food <= FoodLow
Timely(v, b, s, d) ==
  /\ b = "work_shift" => WorkDue(v.minute, s)
  /\ b = "take_break" => BreakLegal(v, s) /\ BreakPreservesCompletion(Arrival(v, b), d, s)

(* enumerate_candidates, with d the duration drawn for each behaviour.     *)
Enumerated(v, s, d) ==
  {b \in Behavior :
     b = "idle" \/ ( /\ Wanted(v, b) /\ Affordable(v, b) /\ Lacking(v, b)
                     /\ Catalog[b].uses \subseteq v.usable
                     /\ Timely(v, b, s, d[b]) )}

(* _cap_drafts keeps idle, then work, then the catalog's order.            *)
Capped(C) ==
  LET place(b) == IF b = "work_shift" THEN 0 ELSE Rank[b]
      ahead(b) == {c \in C \ {"idle"} : place(c) < place(b)}
  IN  {"idle"} \cup {b \in C \ {"idle"} : Cardinality(ahead(b)) < MaxCandidates - 1}

-----------------------------------------------------------------------------
(* _score_one: the terms of a score.                                       *)

Wish(level, change) ==
  IF change >= 0 THEN change * (NeedMax - level) * (NeedMax - level) * 4
                 ELSE change * Up(level, NeedMax \div 4) * NeedMax
NeedTerm(v, b) ==
  (Weights.needs * MapThenSumSet(LAMBDA n : Wish(v.needs[n], Catalog[b].delta[n]), Need))
    \div (NeedMax * NeedMax * NeedMax)

ScheduleTerm(v, b, d, s) ==
  LET keen == (Weights.schedule * (100 + Discipline)) \div 100
  IN  CASE b = "work_shift" -> IF v.minute >= s.start THEN 2 * keen ELSE keen
        [] b = "take_break" -> 2 * keen
        [] b = "idle" -> 0
        [] OTHER -> -((ScheduleConflict(Arrival(v, b), d, s) * keen) \div Hour)

CostTerm(v, b) ==
  -((Weights.money * Catalog[b].price * (100 + Frugality)) \div (100 * Up(1, v.money)))
  - ((Weights.travel * TravelTo(v, b)) \div Hour)
  - (IF v.recent = b THEN Weights.repetition ELSE 0)

OpenOnArrival(v, b) == LocationOpen(Destination(v, b), Arrival(v, b))

(* Near a shift a need at its floor calls for recovery only where it is    *)
(* worst.                                                                  *)
Urgent(v, b, n, s) ==
  \/ ~WorkDue(v.minute, s) \/ b = "take_break" \/ v.needs[n] = 0
  \/ n = "hunger" /\ v.needs[n] <= Floor[n]

(* The low needs that b eases, where it can be had.  Slip: whether the     *)
(* place is open does not matter.                                          *)
EasedAnywhere(v, b, s) ==
  {n \in Need : v.needs[n] <= Threshold(n) /\ Catalog[b].delta[n] > 0 /\ Urgent(v, b, n, s)}
Eased(v, b, s) ==
  {n \in Need : /\ v.needs[n] <= Threshold(n) /\ Catalog[b].delta[n] > 0
                /\ OpenOnArrival(v, b) /\ Urgent(v, b, n, s)}
CrisisTerm(v, b, s) ==
  LET bonus(n) == (Weights.recovery * Priority[n] * (2 * Threshold(n) - v.needs[n]))
                    \div Up(1, Threshold(n))
  IN  MapThenSumSet(bonus, Eased(v, b, s))

SupplyTerm(v, b, s) ==
  IF b = "buy_groceries" /\ ~WorkDue(v.minute, s) /\ OpenOnArrival(v, b)
    THEN (Weights.supply * Up(0, FoodLow + 1 - v.food)) \div (FoodLow + 1)
    ELSE 0

BarTerm(v, b, s) ==
  IF /\ b = "drink_at_bar" /\ Destination(v, b) = v.at
     /\ OpenOnArrival(v, b) /\ ~WorkDue(v.minute, s)
    THEN Weights.bar ELSE 0

(* critical_need_block: no work with a need at zero, and with hunger at    *)
(* zero nothing but what feeds the agent or its household.                 *)
Zero(v) == {n \in Need : v.needs[n] = 0}
Blocked(v, b) ==
  \/ b = "work_shift" /\ Zero(v) # {}
  \/ /\ "hunger" \in Zero(v) /\ b # "idle" /\ Catalog[b].delta["hunger"] <= 0
     /\ ~(b = "buy_groceries" /\ v.food <= FoodLow)

(* Every term but the schedule's, which depends on the drawn duration.     *)
Standing(v, s) ==
  {[b |-> b,
    score |-> NeedTerm(v, b) + Catalog[b].mood + CostTerm(v, b)
                + CrisisTerm(v, b, s) + SupplyTerm(v, b, s) + BarTerm(v, b, s)
                - (IF Blocked(v, b) THEN Weights.block * Cardinality(Zero(v)) ELSE 0)] :
     b \in Behavior}

(* score_candidates: idle pays a penalty if something else beats it; with  *)
(* the noise, what may come first is what no other candidate beats surely. *)
MayRankFirst(v, s, d, standing) ==
  LET C == Capped(Enumerated(v, s, d))
      scored == {[b |-> x.b, score |-> x.score + ScheduleTerm(v, x.b, d[x.b], s)] :
                   x \in {y \in standing : y.b \in C}}
      best == Max({x.score : x \in {y \in scored : y.b # "idle"}} \cup {-Weights.block})
      penalties == (IF best + Noise > Weights.idle THEN {Weights.idle} ELSE {})
                     \cup (IF best - Noise <= Weights.idle THEN {0} ELSE {})
      total(x, p) == IF x.b = "idle" THEN x.score - p ELSE x.score
  IN  {x.b : x \in {y \in scored : \E p \in penalties :
                      \A z \in scored : total(y, p) + 2 * Noise >= total(z, p)}}

With(p, k, x) == [c \in DOMAIN p \cup {k} |-> IF c = k THEN x ELSE p[c]]

(* Every draw of the durations, and the candidates that may then be first. *)
Draws(v, s) ==
  FoldLeft(LAMBDA D, b : {With(d, b, n) : d \in D, n \in Durations(v, b, s)}, {<<>>},
           SetToSeq(Behavior))
Picks(v, s) ==
  LET standing == Standing(v, s)
  IN  UNION {{[first |-> b, takes |-> d[b], idles |-> d["idle"]] :
                b \in MayRankFirst(v, s, d, standing)} : d \in Draws(v, s)}
=============================================================================
