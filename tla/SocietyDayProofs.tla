--------------------------- MODULE SocietyDayProofs ---------------------------
(***************************************************************************)
(* Theorems about SocietyDay, for any agents, households, catalog, week    *)
(* and starting stock: no call of the engine raises and a break never      *)
(* costs the wage.                                                         *)
(*                                                                         *)
(* A minute is a chain of folds over the agents.  Sound is what a context  *)
(* satisfies between any two steps of it: the sessions count no minute     *)
(* twice, a running break is the first of its shift and safe, a settled    *)
(* wage is of a finalized shift, and what the running actions will cost is *)
(* there (Covered).  A step concerns one agent (Moves), so one lemma per   *)
(* method shows that it leaves that agent sound and pays for what it does; *)
(* the others, and what they hold, are as before.  A choice is drawn       *)
(* before any of the queue decides and stays Ready until its turn.         *)
(***************************************************************************)
EXTENDS SocietyDay, Totals

-----------------------------------------------------------------------------
(* Folds.                                                                  *)

(* One step of what is folded: k says which operator.                      *)
OpenOne(w, x, a) == IF a \in Due(w) THEN DecisionSession(x, a).world ELSE x
ServeOne(pick, x, a) == DecideOne(x, a, pick[a])
DrawOne(v, s, D, b) == {With(d, b, n) : d \in D, n \in Durations(v, b, s)}
PickOne(w, P, a) == {With(p, a, x) : p \in P, x \in Prepared(w, a)}

OneStep(k, w, x) ==
  IF k.op = "feel" THEN Feel(w, x)
  ELSE IF k.op = "progress" THEN ProgressOne(w, x)
  ELSE IF k.op = "finalize" THEN FinalizeOne(w, x)
  ELSE IF k.op = "crises" THEN CrisesOne(w, x)
  ELSE IF k.op = "low" THEN LowOne(w, x)
  ELSE IF k.op = "open" THEN OpenOne(k.from, w, x)
  ELSE IF k.op = "serve" THEN ServeOne(k.pick, w, x)
  ELSE IF k.op = "draw" THEN DrawOne(k.view, k.session, w, x)
  ELSE PickOne(k.from, w, x)

(* g is the recursive function by which FoldLeft takes these steps.        *)
Takes(g, k, w, q, S) ==
  g = [s \in SUBSET S |-> IF s = {} THEN w ELSE OneStep(k, g[s \ {Max(s)}], q[Max(s)])]

(* st goes from w step by step along q.                                    *)
Trace(st, k, w, q, n) ==
  /\ st[0] = w
  /\ \A i \in 1 .. n : st[i] = OneStep(k, st[i - 1], q[i])

(* With one step more there is such a function too.                        *)
LEMMA TakesOn ==
  ASSUME NEW k, NEW w, NEW q, NEW n \in Nat, NEW g, Takes(g, k, w, q, 1 .. n)
  PROVE  \E h : Takes(h, k, w, q, 1 .. n + 1)
<1> DEFINE G == [s \in SUBSET (1 .. n + 1) |->
                   IF n + 1 \in s THEN OneStep(k, g[s \ {n + 1}], q[n + 1]) ELSE g[s]]
<1>1. ASSUME NEW s \in SUBSET (1 .. n + 1)
      PROVE  G[s] = IF s = {} THEN w ELSE OneStep(k, G[s \ {Max(s)}], q[Max(s)])
  <2>1. CASE n + 1 \in s
    <3>1. Max(s) = n + 1
      BY <2>1, Greatest
    <3>2. s \ {n + 1} \in SUBSET (1 .. n + 1) /\ n + 1 \notin s \ {n + 1}
      OBVIOUS
    <3>3. G[s \ {n + 1}] = g[s \ {n + 1}]
      BY <3>2
    <3>4. QED BY <2>1, <3>1, <3>3
  <2>2. CASE n + 1 \notin s
    <3>0. \A x \in 1 .. n + 1 : x # n + 1 => x \in 1 .. n
      OBVIOUS
    <3>1. s \in SUBSET (1 .. n) /\ s \ {Max(s)} \in SUBSET (1 .. n)
          /\ s \ {Max(s)} \in SUBSET (1 .. n + 1) /\ n + 1 \notin s \ {Max(s)}
      BY <2>2, <3>0
    <3>2. g[s] = IF s = {} THEN w ELSE OneStep(k, g[s \ {Max(s)}], q[Max(s)])
      BY <3>1 DEF Takes
    <3>3. QED BY <2>2, <3>1, <3>2
  <2>3. QED BY <2>1, <2>2
<1>2. Takes(G, k, w, q, 1 .. n + 1)
  <2> DEFINE F == [s \in SUBSET (1 .. n + 1) |->
                     IF s = {} THEN w ELSE OneStep(k, G[s \ {Max(s)}], q[Max(s)])]
  <2>1. DOMAIN F = SUBSET (1 .. n + 1) /\ DOMAIN G = SUBSET (1 .. n + 1)
        /\ F = [s \in SUBSET (1 .. n + 1) |-> F[s]] /\ G = [s \in SUBSET (1 .. n + 1) |-> G[s]]
    OBVIOUS
  <2>2. \A s \in SUBSET (1 .. n + 1) : F[s] = G[s]
    <3> HIDE DEF G
    <3> QED BY <1>1
  <2>3. F = G
    <3> HIDE DEF F, G
    <3> QED BY <2>1, <2>2
  <2> HIDE DEF G
  <2>4. QED BY <2>3 DEF Takes
<1>3. QED BY <1>2

(* There is such a function for every sequence, and it takes a trace.      *)
LEMMA TakesExist ==
  ASSUME NEW k, NEW w, NEW q, NEW n \in Nat
  PROVE  \E g : Takes(g, k, w, q, 1 .. n)
<1> DEFINE S == {i \in Nat : \E g : Takes(g, k, w, q, 1 .. i)}
<1>1. 0 \in S
  <2>1. SUBSET (1 .. 0) = {{}}
    OBVIOUS
  <2>2. Takes([s \in SUBSET (1 .. 0) |-> w], k, w, q, 1 .. 0)
    BY <2>1 DEF Takes
  <2>3. QED BY <2>2
<1>2. \A i \in 0 .. n : i # n /\ i \in S => i + 1 \in S
  BY TakesOn
<1>3. \A i \in 0 .. n : i \in S
  <2> HIDE DEF S
  <2> QED BY <1>1, <1>2, StepByStep
<1>4. QED BY <1>3

LEMMA TakesTrace ==
  ASSUME NEW k, NEW w, NEW q, NEW n \in Nat, NEW g, Takes(g, k, w, q, 1 .. n),
         NEW st, st = [i \in 0 .. n |-> g[1 .. i]]
  PROVE  Trace(st, k, w, q, n)
<1>1. \A s \in SUBSET (1 .. n) : g[s] = IF s = {} THEN w ELSE OneStep(k, g[s \ {Max(s)}], q[Max(s)])
  BY DEF Takes
<1>2. 1 .. 0 = {} /\ 0 \in 0 .. n
  OBVIOUS
<1>3. ASSUME NEW i \in 1 .. n PROVE g[1 .. i] = OneStep(k, g[1 .. i - 1], q[i])
  <2>1. 1 .. i \in SUBSET (1 .. n) /\ 1 .. i # {} /\ i \in 1 .. i /\ (1 .. i) \ {i} = 1 .. i - 1
    OBVIOUS
  <2>2. Max(1 .. i) = i
    <3>1. i - 1 \in Nat /\ (i - 1) + 1 = i
      OBVIOUS
    <3>2. PICK m \in Nat : m = i - 1
      BY <3>1
    <3>3. m + 1 = i /\ 1 .. i \in SUBSET (1 .. m + 1) /\ m + 1 \in 1 .. i
      BY <3>2
    <3>4. QED BY <3>3, Greatest
  <2>3. QED BY <1>1, <2>1, <2>2
<1>4. g[1 .. 0] = w
  BY <1>1, <1>2
<1>5. \A i \in 1 .. n : i \in 0 .. n /\ i - 1 \in 0 .. n
  OBVIOUS
<1>6. QED BY <1>2, <1>3, <1>4, <1>5 DEF Trace

(* The folds of the model take such steps.                                 *)
FeelKey == [op |-> "feel"]
ProgressKey == [op |-> "progress"]
FinalizeKey == [op |-> "finalize"]
CrisesKey == [op |-> "crises"]
LowKey == [op |-> "low"]
OpenKey(from) == [op |-> "open", from |-> from]
ServeKey(pick) == [op |-> "serve", pick |-> pick]
DrawKey(view, session) == [op |-> "draw", view |-> view, session |-> session]
PickKey(from) == [op |-> "pick", from |-> from]

LEMMA Keys ==
  /\ \A w, x : OneStep(FeelKey, w, x) = Feel(w, x)
  /\ \A w, x : OneStep(ProgressKey, w, x) = ProgressOne(w, x)
  /\ \A w, x : OneStep(FinalizeKey, w, x) = FinalizeOne(w, x)
  /\ \A w, x : OneStep(CrisesKey, w, x) = CrisesOne(w, x)
  /\ \A w, x : OneStep(LowKey, w, x) = LowOne(w, x)
  /\ \A from, w, x : OneStep(OpenKey(from), w, x) = OpenOne(from, w, x)
  /\ \A pick, w, x : OneStep(ServeKey(pick), w, x) = ServeOne(pick, w, x)
  /\ \A view, session, w, x : OneStep(DrawKey(view, session), w, x) = DrawOne(view, session, w, x)
  /\ \A from, w, x : OneStep(PickKey(from), w, x) = PickOne(from, w, x)
<1>1. FeelKey.op = "feel"
  BY DEF FeelKey
<1>2. ProgressKey.op = "progress"
  BY DEF ProgressKey
<1>3. FinalizeKey.op = "finalize"
  BY DEF FinalizeKey
<1>4. CrisesKey.op = "crises"
  BY DEF CrisesKey
<1>5. LowKey.op = "low"
  BY DEF LowKey
<1>6. \A from : OpenKey(from).op = "open" /\ OpenKey(from).from = from
  BY DEF OpenKey
<1>7. \A pick : ServeKey(pick).op = "serve" /\ ServeKey(pick).pick = pick
  BY DEF ServeKey
<1>8. \A view, session : DrawKey(view, session).op = "draw" /\ DrawKey(view, session).view = view /\ DrawKey(view, session).session = session
  BY DEF DrawKey
<1>9. \A from : PickKey(from).op = "pick" /\ PickKey(from).from = from
  BY DEF PickKey
<1>10. QED BY <1>1, <1>2, <1>3, <1>4, <1>5, <1>6, <1>7, <1>8, <1>9 DEF OneStep

LEMMA FeelFold ==
  ASSUME NEW w, NEW n \in Nat, DOMAIN AgentOrder = 1 .. n
  PROVE  \E st : Trace(st, FeelKey, w, AgentOrder, n) /\ ApplyNeedChanges(w) = st[n]
<1> DEFINE T(g) == g = [s \in SUBSET DOMAIN AgentOrder |->
                          IF s = {} THEN w ELSE Feel(g[s \ {Max(s)}], AgentOrder[Max(s)])]
<1>0. \A v, x : Feel(v, x) = OneStep(FeelKey, v, x)
  BY Keys
<1>1. \A g : T(g) <=> Takes(g, FeelKey, w, AgentOrder, 1 .. n)
  BY <1>0 DEF Takes
<1>2. \E g : T(g)
  BY <1>1, TakesExist
<1>3. PICK g : g = (CHOOSE h : T(h)) /\ T(g)
  <2> HIDE DEF T
  <2> QED BY <1>2
<1>4. ApplyNeedChanges(w) = g[DOMAIN AgentOrder]
  BY <1>3 DEF ApplyNeedChanges, Each, FoldLeft, MapThenFoldSet
<1>5. PICK st : st = [i \in 0 .. n |-> g[1 .. i]]
  OBVIOUS
<1>6. Trace(st, FeelKey, w, AgentOrder, n)
  <2>1. Takes(g, FeelKey, w, AgentOrder, 1 .. n)
    <3> HIDE DEF T
    <3> QED BY <1>1, <1>3
  <2>2. QED BY <1>5, <2>1, TakesTrace
<1>7. st[n] = g[1 .. n]
  BY <1>5
<1>8. QED BY <1>4, <1>6, <1>7

LEMMA ProgressFold ==
  ASSUME NEW w, NEW n \in Nat, DOMAIN AgentOrder = 1 .. n
  PROVE  \E st : Trace(st, ProgressKey, w, AgentOrder, n) /\ ProgressActions(w) = st[n]
<1> DEFINE T(g) == g = [s \in SUBSET DOMAIN AgentOrder |->
                          IF s = {} THEN w ELSE ProgressOne(g[s \ {Max(s)}], AgentOrder[Max(s)])]
<1>0. \A v, x : ProgressOne(v, x) = OneStep(ProgressKey, v, x)
  BY Keys
<1>1. \A g : T(g) <=> Takes(g, ProgressKey, w, AgentOrder, 1 .. n)
  BY <1>0 DEF Takes
<1>2. \E g : T(g)
  BY <1>1, TakesExist
<1>3. PICK g : g = (CHOOSE h : T(h)) /\ T(g)
  <2> HIDE DEF T
  <2> QED BY <1>2
<1>4. ProgressActions(w) = g[DOMAIN AgentOrder]
  BY <1>3 DEF ProgressActions, Each, FoldLeft, MapThenFoldSet
<1>5. PICK st : st = [i \in 0 .. n |-> g[1 .. i]]
  OBVIOUS
<1>6. Trace(st, ProgressKey, w, AgentOrder, n)
  <2>1. Takes(g, ProgressKey, w, AgentOrder, 1 .. n)
    <3> HIDE DEF T
    <3> QED BY <1>1, <1>3
  <2>2. QED BY <1>5, <2>1, TakesTrace
<1>7. st[n] = g[1 .. n]
  BY <1>5
<1>8. QED BY <1>4, <1>6, <1>7

LEMMA FinalizeFold ==
  ASSUME NEW w, NEW n \in Nat, DOMAIN AgentOrder = 1 .. n
  PROVE  \E st : Trace(st, FinalizeKey, w, AgentOrder, n) /\ FinalizeWorkSessions(w) = st[n]
<1> DEFINE T(g) == g = [s \in SUBSET DOMAIN AgentOrder |->
                          IF s = {} THEN w ELSE FinalizeOne(g[s \ {Max(s)}], AgentOrder[Max(s)])]
<1>0. \A v, x : FinalizeOne(v, x) = OneStep(FinalizeKey, v, x)
  BY Keys
<1>1. \A g : T(g) <=> Takes(g, FinalizeKey, w, AgentOrder, 1 .. n)
  BY <1>0 DEF Takes
<1>2. \E g : T(g)
  BY <1>1, TakesExist
<1>3. PICK g : g = (CHOOSE h : T(h)) /\ T(g)
  <2> HIDE DEF T
  <2> QED BY <1>2
<1>4. FinalizeWorkSessions(w) = g[DOMAIN AgentOrder]
  BY <1>3 DEF FinalizeWorkSessions, Each, FoldLeft, MapThenFoldSet
<1>5. PICK st : st = [i \in 0 .. n |-> g[1 .. i]]
  OBVIOUS
<1>6. Trace(st, FinalizeKey, w, AgentOrder, n)
  <2>1. Takes(g, FinalizeKey, w, AgentOrder, 1 .. n)
    <3> HIDE DEF T
    <3> QED BY <1>1, <1>3
  <2>2. QED BY <1>5, <2>1, TakesTrace
<1>7. st[n] = g[1 .. n]
  BY <1>5
<1>8. QED BY <1>4, <1>6, <1>7

LEMMA CrisesFold ==
  ASSUME NEW w, NEW n \in Nat, DOMAIN AgentOrder = 1 .. n
  PROVE  \E st : Trace(st, CrisesKey, w, AgentOrder, n) /\ UpdateNeedCrises(w) = st[n]
<1> DEFINE T(g) == g = [s \in SUBSET DOMAIN AgentOrder |->
                          IF s = {} THEN w ELSE CrisesOne(g[s \ {Max(s)}], AgentOrder[Max(s)])]
<1>0. \A v, x : CrisesOne(v, x) = OneStep(CrisesKey, v, x)
  BY Keys
<1>1. \A g : T(g) <=> Takes(g, CrisesKey, w, AgentOrder, 1 .. n)
  BY <1>0 DEF Takes
<1>2. \E g : T(g)
  BY <1>1, TakesExist
<1>3. PICK g : g = (CHOOSE h : T(h)) /\ T(g)
  <2> HIDE DEF T
  <2> QED BY <1>2
<1>4. UpdateNeedCrises(w) = g[DOMAIN AgentOrder]
  BY <1>3 DEF UpdateNeedCrises, Each, FoldLeft, MapThenFoldSet
<1>5. PICK st : st = [i \in 0 .. n |-> g[1 .. i]]
  OBVIOUS
<1>6. Trace(st, CrisesKey, w, AgentOrder, n)
  <2>1. Takes(g, CrisesKey, w, AgentOrder, 1 .. n)
    <3> HIDE DEF T
    <3> QED BY <1>1, <1>3
  <2>2. QED BY <1>5, <2>1, TakesTrace
<1>7. st[n] = g[1 .. n]
  BY <1>5
<1>8. QED BY <1>4, <1>6, <1>7

LEMMA LowFold ==
  ASSUME NEW w, NEW n \in Nat, DOMAIN SetToSeq(Household) = 1 .. n
  PROVE  \E st : Trace(st, LowKey, w, SetToSeq(Household), n) /\ UpdateLowResources(w) = st[n]
<1> DEFINE T(g) == g = [s \in SUBSET DOMAIN SetToSeq(Household) |->
                          IF s = {} THEN w ELSE LowOne(g[s \ {Max(s)}], SetToSeq(Household)[Max(s)])]
<1>0. \A v, x : LowOne(v, x) = OneStep(LowKey, v, x)
  BY Keys
<1>1. \A g : T(g) <=> Takes(g, LowKey, w, SetToSeq(Household), 1 .. n)
  BY <1>0 DEF Takes
<1>2. \E g : T(g)
  BY <1>1, TakesExist
<1>3. PICK g : g = (CHOOSE h : T(h)) /\ T(g)
  <2> HIDE DEF T
  <2> QED BY <1>2
<1>4. UpdateLowResources(w) = g[DOMAIN SetToSeq(Household)]
  BY <1>3 DEF UpdateLowResources, FoldLeft, MapThenFoldSet
<1>5. PICK st : st = [i \in 0 .. n |-> g[1 .. i]]
  OBVIOUS
<1>6. Trace(st, LowKey, w, SetToSeq(Household), n)
  <2>1. Takes(g, LowKey, w, SetToSeq(Household), 1 .. n)
    <3> HIDE DEF T
    <3> QED BY <1>1, <1>3
  <2>2. QED BY <1>5, <2>1, TakesTrace
<1>7. st[n] = g[1 .. n]
  BY <1>5
<1>8. QED BY <1>4, <1>6, <1>7

LEMMA OpenFold ==
  ASSUME NEW from, NEW n \in Nat, DOMAIN AgentOrder = 1 .. n
  PROVE  \E st : Trace(st, OpenKey(from), from, AgentOrder, n) /\ OpenNear(from) = st[n]
<1> DEFINE T(g) == g = [s \in SUBSET DOMAIN AgentOrder |->
                          IF s = {} THEN from ELSE OpenOne(from, g[s \ {Max(s)}], AgentOrder[Max(s)])]
<1>0. \A v, x : OpenOne(from, v, x) = OneStep(OpenKey(from), v, x)
  BY Keys
<1>1. \A g : T(g) <=> Takes(g, OpenKey(from), from, AgentOrder, 1 .. n)
  BY <1>0 DEF Takes
<1>2. \E g : T(g)
  BY <1>1, TakesExist
<1>3. PICK g : g = (CHOOSE h : T(h)) /\ T(g)
  <2> HIDE DEF T
  <2> QED BY <1>2
<1>4. OpenNear(from) = g[DOMAIN AgentOrder]
  BY <1>3 DEF OpenNear, Each, OpenOne, FoldLeft, MapThenFoldSet
<1>5. PICK st : st = [i \in 0 .. n |-> g[1 .. i]]
  OBVIOUS
<1>6. Trace(st, OpenKey(from), from, AgentOrder, n)
  <2>1. Takes(g, OpenKey(from), from, AgentOrder, 1 .. n)
    <3> HIDE DEF T
    <3> QED BY <1>1, <1>3
  <2>2. QED BY <1>5, <2>1, TakesTrace
<1>7. st[n] = g[1 .. n]
  BY <1>5
<1>8. QED BY <1>4, <1>6, <1>7

LEMMA ServeFold ==
  ASSUME NEW pick, NEW w, NEW q, NEW n \in Nat, DOMAIN q = 1 .. n
  PROVE  \E st : Trace(st, ServeKey(pick), w, q, n) /\ Served(w, pick, q) = st[n]
<1> DEFINE T(g) == g = [s \in SUBSET DOMAIN q |->
                          IF s = {} THEN w ELSE ServeOne(pick, g[s \ {Max(s)}], q[Max(s)])]
<1>0. \A v, x : ServeOne(pick, v, x) = OneStep(ServeKey(pick), v, x)
  BY Keys
<1>1. \A g : T(g) <=> Takes(g, ServeKey(pick), w, q, 1 .. n)
  BY <1>0 DEF Takes
<1>2. \E g : T(g)
  BY <1>1, TakesExist
<1>3. PICK g : g = (CHOOSE h : T(h)) /\ T(g)
  <2> HIDE DEF T
  <2> QED BY <1>2
<1>4. Served(w, pick, q) = g[DOMAIN q]
  BY <1>3 DEF Served, ServeOne, FoldLeft, MapThenFoldSet
<1>5. PICK st : st = [i \in 0 .. n |-> g[1 .. i]]
  OBVIOUS
<1>6. Trace(st, ServeKey(pick), w, q, n)
  <2>1. Takes(g, ServeKey(pick), w, q, 1 .. n)
    <3> HIDE DEF T
    <3> QED BY <1>1, <1>3
  <2>2. QED BY <1>5, <2>1, TakesTrace
<1>7. st[n] = g[1 .. n]
  BY <1>5
<1>8. QED BY <1>4, <1>6, <1>7

LEMMA DrawFold ==
  ASSUME NEW view, NEW session, NEW n \in Nat, DOMAIN SetToSeq(Behavior) = 1 .. n
  PROVE  \E st : Trace(st, DrawKey(view, session), {<<>>}, SetToSeq(Behavior), n) /\ Draws(view, session) = st[n]
<1> DEFINE T(g) == g = [s \in SUBSET DOMAIN SetToSeq(Behavior) |->
                          IF s = {} THEN {<<>>} ELSE DrawOne(view, session, g[s \ {Max(s)}], SetToSeq(Behavior)[Max(s)])]
<1>0. \A v, x : DrawOne(view, session, v, x) = OneStep(DrawKey(view, session), v, x)
  BY Keys
<1>1. \A g : T(g) <=> Takes(g, DrawKey(view, session), {<<>>}, SetToSeq(Behavior), 1 .. n)
  BY <1>0 DEF Takes
<1>2. \E g : T(g)
  BY <1>1, TakesExist
<1>3. PICK g : g = (CHOOSE h : T(h)) /\ T(g)
  <2> HIDE DEF T
  <2> QED BY <1>2
<1>4. Draws(view, session) = g[DOMAIN SetToSeq(Behavior)]
  BY <1>3 DEF Draws, DrawOne, FoldLeft, MapThenFoldSet
<1>5. PICK st : st = [i \in 0 .. n |-> g[1 .. i]]
  OBVIOUS
<1>6. Trace(st, DrawKey(view, session), {<<>>}, SetToSeq(Behavior), n)
  <2>1. Takes(g, DrawKey(view, session), {<<>>}, SetToSeq(Behavior), 1 .. n)
    <3> HIDE DEF T
    <3> QED BY <1>1, <1>3
  <2>2. QED BY <1>5, <2>1, TakesTrace
<1>7. st[n] = g[1 .. n]
  BY <1>5
<1>8. QED BY <1>4, <1>6, <1>7

LEMMA PickFold ==
  ASSUME NEW from, NEW n \in Nat, DOMAIN SetToSeq(Due(from)) = 1 .. n
  PROVE  \E st : Trace(st, PickKey(from), {<<>>}, SetToSeq(Due(from)), n) /\ PicksOf(from) = st[n]
<1> DEFINE T(g) == g = [s \in SUBSET DOMAIN SetToSeq(Due(from)) |->
                          IF s = {} THEN {<<>>} ELSE PickOne(from, g[s \ {Max(s)}], SetToSeq(Due(from))[Max(s)])]
<1>0. \A v, x : PickOne(from, v, x) = OneStep(PickKey(from), v, x)
  BY Keys
<1>1. \A g : T(g) <=> Takes(g, PickKey(from), {<<>>}, SetToSeq(Due(from)), 1 .. n)
  BY <1>0 DEF Takes
<1>2. \E g : T(g)
  BY <1>1, TakesExist
<1>3. PICK g : g = (CHOOSE h : T(h)) /\ T(g)
  <2> HIDE DEF T
  <2> QED BY <1>2
<1>4. PicksOf(from) = g[DOMAIN SetToSeq(Due(from))]
  BY <1>3 DEF PicksOf, PickOne, FoldLeft, MapThenFoldSet
<1>5. PICK st : st = [i \in 0 .. n |-> g[1 .. i]]
  OBVIOUS
<1>6. Trace(st, PickKey(from), {<<>>}, SetToSeq(Due(from)), n)
  <2>1. Takes(g, PickKey(from), {<<>>}, SetToSeq(Due(from)), 1 .. n)
    <3> HIDE DEF T
    <3> QED BY <1>1, <1>3
  <2>2. QED BY <1>5, <2>1, TakesTrace
<1>7. st[n] = g[1 .. n]
  BY <1>5
<1>8. QED BY <1>4, <1>6, <1>7

-----------------------------------------------------------------------------
(* Orders.                                                                 *)

(* q names every member of S once.                                         *)
InOrder(q, S, n) ==
  /\ q \in [1 .. n -> S]
  /\ \A i, j \in 1 .. n : q[i] = q[j] => i = j
  /\ \A x \in S : \E i \in 1 .. n : q[i] = x

LEMMA OrderOfAll ==
  ASSUME NEW S, IsFiniteSet(S), NEW n, n = Cardinality(S), NEW q \in [1 .. n -> S],
         \A i, j \in 1 .. n : q[i] = q[j] => i = j
  PROVE  InOrder(q, S, n)
<1>1. n \in Nat
  BY FS_CardinalityType
<1>2. IsFiniteSet(1 .. n) /\ Cardinality(1 .. n) = n
  BY <1>1, FS_Interval
<1>3. q \in Injection(1 .. n, S)
  BY DEF Injection, IsInjective
<1>4. q \in Surjection(1 .. n, S)
  BY <1>2, <1>3, FS_Injection
<1>5. \A x \in S : \E i \in 1 .. n : q[i] = x
  BY <1>4 DEF Surjection
<1>6. QED BY <1>5 DEF InOrder

LEMMA SeqOfAll ==
  ASSUME NEW S, IsFiniteSet(S)
  PROVE  /\ Cardinality(S) \in Nat
         /\ DOMAIN SetToSeq(S) = 1 .. Cardinality(S)
         /\ InOrder(SetToSeq(S), S, Cardinality(S))
<1>1. PICK n : n = Cardinality(S)
  OBVIOUS
<1>2. n \in Nat /\ ExistsBijection(1 .. n, S)
  BY <1>1, FS_CardinalityType
<1>3. \E q \in [1 .. n -> S] : IsInjective(q)
  BY <1>2 DEF ExistsBijection, Bijection, Injection
<1>4. SetToSeq(S) \in [1 .. n -> S] /\ IsInjective(SetToSeq(S))
  BY <1>1, <1>3 DEF SetToSeq
<1>5. PICK q : q = SetToSeq(S)
  OBVIOUS
<1>6. q \in [1 .. n -> S] /\ \A i, j \in 1 .. n : q[i] = q[j] => i = j
  BY <1>4, <1>5 DEF IsInjective
<1>7. InOrder(q, S, n)
  BY <1>1, <1>6, OrderOfAll
<1>8. QED BY <1>1, <1>2, <1>5, <1>6, <1>7

-----------------------------------------------------------------------------
(* The clock.                                                              *)

LEMMA Quotient ==
  ASSUME NEW m \in Nat, NEW D \in Nat \ {0}
  PROVE  /\ m \div D \in Nat
         /\ m < (m \div D + 1) * D
<1>1. PICK t \in Int : t = m \div D
  OBVIOUS
<1>2. PICK r \in 0 .. D - 1 : r = m % D
  OBVIOUS
<1>3. m = D * t + r
  BY <1>1, <1>2
<1>4. t \in Nat
  BY <1>1
<1>5. (t + 1) * D = D * t + D
  OBVIOUS
<1>6. QED BY <1>1, <1>3, <1>4, <1>5

LEMMA DayOfMinute ==
  ASSUME NEW m \in Nat
  PROVE  /\ m \div DayLength \in Nat
         /\ m < (m \div DayLength + 1) * DayLength
BY Quotient, RulebookConstants

LEMMA TodayInDays ==
  ASSUME NEW m \in 0 .. MaxMinute
  PROVE  /\ m \div DayLength \in Days
         /\ \A d \in m \div DayLength .. m \div DayLength + WeekLength : d \in Days
<1>1. DayLength \in Nat \ {0} /\ WeekLength \in Nat /\ MaxMinute \in Nat
  BY RulebookConstants, SocietyDayConstants
<1>2. PICK D \in Nat \ {0} : D = DayLength
  BY <1>1
<1>3. m \div D <= MaxMinute \div D /\ m \div D \in Nat /\ MaxMinute \div D \in Nat
  BY <1>1
<1>4. QED BY <1>1, <1>2, <1>3 DEF Days

LEMMA LaterDay ==
  ASSUME NEW d \in Nat, NEW t \in Nat, t < d, NEW D \in Nat
  PROVE  (t + 1) * D <= d * D
<1>1. PICK k \in Nat : d = (t + 1) + k
  <2>1. d - (t + 1) \in Nat /\ d = (t + 1) + (d - (t + 1))
    OBVIOUS
  <2>2. QED BY <2>1
<1>2. d * D = (t + 1) * D + k * D
  BY <1>1
<1>3. k * D \in Nat /\ (t + 1) * D \in Nat
  OBVIOUS
<1>4. QED BY <1>2, <1>3

(* Some day of the coming week has a shift.                                *)
LEMMA ShiftAhead ==
  ASSUME NEW t \in Nat
  PROVE  \E d \in t + 1 .. t + WeekLength : Scheduled(d)
<1>1. PICK W \in Nat : W = WeekLength
  BY SocietyDayConstants
<1>2. PICK k \in Weekdays : k \in 0 .. W - 1
  BY <1>1, SocietyDayConstants
<1>3. W \in Nat \ {0} /\ k \in Nat /\ k < W
  BY <1>1, <1>2
<1>4. PICK n \in Nat : n = (t + 1) \div W
  BY <1>3
<1>5. PICK r \in 0 .. W - 1 : r = (t + 1) % W
  BY <1>3
<1>6. t + 1 = W * n + r
  BY <1>3, <1>4, <1>5
<1>7. ASSUME NEW j \in Nat PROVE (W * j + k) % W = k
  BY <1>2, <1>3
<1>8. CASE r <= k
  <2>1. PICK d \in Nat : d = W * n + k
    BY <1>3
  <2>2. d \in t + 1 .. t + W
    BY <1>3, <1>6, <1>8, <2>1
  <2>3. d % W = k
    BY <1>7, <2>1
  <2>4. QED BY <1>1, <1>2, <2>2, <2>3 DEF Scheduled
<1>9. CASE k < r
  <2>1. PICK d \in Nat : d = W * (n + 1) + k
    BY <1>3
  <2>2. W * (n + 1) = W * n + W
    BY <1>3
  <2>3. d \in t + 1 .. t + W
    BY <1>3, <1>6, <1>9, <2>1, <2>2
  <2>4. n + 1 \in Nat
    OBVIOUS
  <2>5. d % W = k
    BY <1>7, <2>1, <2>4
  <2>6. QED BY <1>1, <1>2, <2>3, <2>5 DEF Scheduled
<1>10. QED BY <1>3, <1>5, <1>8, <1>9

(* The coming shift is on a day of the model.                              *)
LEMMA ComingInDays ==
  ASSUME NEW m \in 0 .. MaxMinute
  PROVE  /\ ComingDay(m) \in Days
         /\ m < ComingDay(m) * DayLength + ShiftEnd
<1>1. PICK t \in Nat : t = m \div DayLength
  BY DayOfMinute, SocietyDayConstants
<1>2. m \in Nat /\ WeekLength \in Nat /\ DayLength \in Nat /\ ShiftEnd \in Nat
  BY SocietyDayConstants, RulebookConstants
<1>3. m < (t + 1) * DayLength
  BY <1>1, <1>2, DayOfMinute
<1>4. PICK C : C = {d \in t .. t + WeekLength : Scheduled(d) /\ m < d * DayLength + ShiftEnd}
  OBVIOUS
<1>5. PICK d \in t + 1 .. t + WeekLength : Scheduled(d)
  BY ShiftAhead
<1>6. d \in Nat /\ t < d /\ d \in t .. t + WeekLength
  BY <1>2
<1>7. (t + 1) * DayLength <= d * DayLength
  BY <1>2, <1>6, LaterDay
<1>8. m < d * DayLength + ShiftEnd
  <2>1. (t + 1) * DayLength \in Nat /\ d * DayLength \in Nat
    BY <1>2, <1>6
  <2>2. QED BY <1>2, <1>3, <1>7, <2>1
<1>9. d \in C /\ C \subseteq Nat
  BY <1>2, <1>4, <1>5, <1>6, <1>8
<1>10. PICK e \in C : \A x \in C : e <= x
  BY <1>9, Smallest
<1>11. ComingDay(m) = Min(C)
  BY <1>1, <1>4 DEF ComingDay
<1>12. Min(C) \in C
  BY <1>10 DEF Min
<1>13. QED BY <1>1, <1>4, <1>11, <1>12, TodayInDays

-----------------------------------------------------------------------------
(* The invariant.                                                          *)

(* An authority context is a record of these fields; agents, days and      *)
(* households have each their entry, and no wage was settled twice.        *)
Context(w) ==
  w = [minute |-> w.minute, needs |-> w.needs, at |-> w.at, act |-> w.act,
       recent |-> w.recent, money |-> w.money, food |-> w.food,
       sessions |-> w.sessions, settled |-> w.settled, repaid |-> w.repaid,
       crises |-> w.crises, low |-> w.low, tension |-> w.tension, told |-> w.told]
Basic(w) ==
  /\ Context(w)
  /\ w.minute \in 0 .. MaxMinute
  /\ w.at = [a \in Agent |-> w.at[a]]
  /\ w.act = [a \in Agent |-> w.act[a]]
  /\ w.sessions = [a \in Agent |-> w.sessions[a]]
  /\ \A a \in Agent : w.sessions[a] = [d \in Days |-> w.sessions[a][d]]
  /\ w.money \in [Household -> Int] /\ w.food \in [Household -> Int]
  /\ w.repaid = FALSE

(* The record of a day's shift by minute m: minutes count from the first   *)
(* on, and at most one break is taken.                                     *)
SessionShape(s, d) ==
  /\ s = [start |-> d * DayLength + ShiftStart, end |-> d * DayLength + ShiftEnd,
          grace |-> Grace, effective |-> s.effective, first |-> s.first,
          started |-> s.started, late |-> s.late, finalized |-> s.finalized,
          paid |-> s.paid, breaks |-> s.breaks]
  /\ s.finalized \in BOOLEAN
SessionSound(s, d, m) ==
  /\ SessionShape(s, d)
  /\ s.effective \in Nat /\ s.breaks \in {0, 1}
  /\ \/ s.first = Never /\ s.effective = 0
     \/ s.first \in Nat /\ s.first + s.effective <= m

(* The shift was begun in its grace, and if the rest of it is worked from  *)
(* minute e on, it is complete.                                            *)
Safe(s, e) ==
  /\ s.first # Never /\ s.first <= s.start + s.grace
  /\ s.effective + s.end - e >= (s.end - s.start) - s.grace

OnShift == {"work_shift", "take_break"}

(* A running action t of an agent whose sessions are S: who works has      *)
(* begun, and who takes a break takes the first, which the wage survives.  *)
ActionShape(t) ==
  t = [b |-> t.b, phase |-> t.phase, dest |-> t.dest, origin |-> t.origin,
       arrival |-> t.arrival, start |-> t.start, end |-> t.end, day |-> t.day]
BreakSound(t, s) ==
  s.breaks = 0 /\ t.end \in Int /\ (s.finalized \/ Safe(s, t.end))
ActionSound(t, S) ==
  /\ ActionShape(t) /\ t.b \in Behavior
  /\ t.b \in OnShift => t.day \in Days /\ S[t.day] # None
  /\ t.b = "work_shift" /\ t.phase = "PERFORMING" => S[t.day].first # Never
  /\ t.b = "take_break" => BreakSound(t, S[t.day])

SessionsSound(S, m) == \A d \in Days : S[d] = None \/ SessionSound(S[d], d, m)
SettledSound(w, a) ==
  \A d : <<a, d>> \in w.settled =>
           d \in Days /\ w.sessions[a][d] # None /\ w.sessions[a][d].finalized = TRUE
AgentSound(w, a, m) ==
  /\ w.act[a] = None \/ ActionSound(w.act[a], w.sessions[a])
  /\ SessionsSound(w.sessions[a], m)
  /\ SettledSound(w, a)

(* What the running actions will cost is there.                            *)
Covered(w) ==
  \A h \in Household : HeldMoney(w, h) <= w.money[h] /\ HeldFood(w, h) <= w.food[h]

Sound(w) ==
  /\ Basic(w)
  /\ \A a \in Agent : AgentSound(w, a, w.minute)
  /\ Covered(w)

(* The inductive invariant.                                                *)
DayInv == Sound(day) /\ fault = "none"

-----------------------------------------------------------------------------
(* What steps leave alone.                                                 *)

Accounts(w, x) == x.money = w.money /\ x.food = w.food
Rest(w, x) == x.minute = w.minute /\ x.settled = w.settled /\ x.repaid = w.repaid
Elsewhere(w, x, a) ==
  \A c \in Agent \ {a} :
    x.act[c] = w.act[c] /\ x.sessions[c] = w.sessions[c] /\ x.at[c] = w.at[c]

(* Only what the invariant does not look at is another.                    *)
Same(w, x) ==
  /\ Context(x) /\ Rest(w, x) /\ Accounts(w, x)
  /\ x.at = w.at /\ x.act = w.act /\ x.sessions = w.sessions

(* Only agent a's part is another.                                         *)
Turn(w, x, a) ==
  /\ Basic(x) /\ Rest(w, x) /\ Accounts(w, x) /\ Elsewhere(w, x, a)
(* And a's action is for the same behaviour.                               *)
Goes(w, x, a) ==
  /\ Turn(w, x, a)
  /\ x.act[a] = None <=> w.act[a] = None
  /\ x.act[a].b = w.act[a].b

SetAct(w, a, t) == [w EXCEPT !.act[a] = t]
SetSession(w, a, d, s) == [w EXCEPT !.sessions[a][d] = s]
SetTold(w, q) == [w EXCEPT !.told = q]

LEMMA SameBasic ==
  ASSUME NEW w, NEW x, Basic(w), Same(w, x)
  PROVE  Basic(x)
BY DEF Basic, Same, Rest, Accounts

LEMMA SameTurn ==
  ASSUME NEW w, NEW x, NEW a \in Agent, Basic(w), Same(w, x)
  PROVE  Goes(w, x, a)
BY SameBasic DEF Goes, Turn, Elsewhere, Same

LEMMA SetTold_Same ==
  ASSUME NEW w, NEW q, Context(w)
  PROVE  Same(w, SetTold(w, q))
<1>1. PICK x : x = SetTold(w, q)
  OBVIOUS
<1>2. x = [minute |-> w.minute, needs |-> w.needs, at |-> w.at, act |-> w.act,
       recent |-> w.recent, money |-> w.money, food |-> w.food,
       sessions |-> w.sessions, settled |-> w.settled, repaid |-> w.repaid,
       crises |-> w.crises, low |-> w.low, tension |-> w.tension, told |-> q]
  BY <1>1 DEF Context, SetTold
<1>3. QED BY <1>1, <1>2 DEF Same, Context, Rest, Accounts

LEMMA SetAct_Turn ==
  ASSUME NEW w, NEW t, NEW a \in Agent, Basic(w), NEW x, x = SetAct(w, a, t)
  PROVE  /\ Turn(w, x, a)
         /\ x.act[a] = t /\ x.sessions[a] = w.sessions[a] /\ x.at[a] = w.at[a]
<1>1. PICK f : f = [w.act EXCEPT ![a] = t]
  OBVIOUS
<1>2. x = [minute |-> w.minute, needs |-> w.needs, at |-> w.at, act |-> f,
       recent |-> w.recent, money |-> w.money, food |-> w.food,
       sessions |-> w.sessions, settled |-> w.settled, repaid |-> w.repaid,
       crises |-> w.crises, low |-> w.low, tension |-> w.tension, told |-> w.told]
  BY <1>1 DEF Basic, Context, SetAct
<1>3. w.act = [c \in Agent |-> w.act[c]]
  BY DEF Basic
<1>4. f[a] = t /\ (\A c \in Agent \ {a} : f[c] = w.act[c]) /\ f = [c \in Agent |-> f[c]]
  BY <1>1, <1>3
<1>5. x.act = f /\ Context(x) /\ Rest(w, x) /\ Accounts(w, x)
      /\ x.sessions = w.sessions /\ x.at = w.at
  BY <1>2 DEF Context, Rest, Accounts
<1>6. Basic(x)
  BY <1>4, <1>5 DEF Basic, Rest, Accounts
<1>7. Elsewhere(w, x, a)
  BY <1>4, <1>5 DEF Elsewhere
<1>8. QED BY <1>4, <1>5, <1>6, <1>7 DEF Turn

LEMMA SetSession_Turn ==
  ASSUME NEW w, NEW a \in Agent, NEW d \in Days, NEW s, Basic(w),
         NEW x, x = SetSession(w, a, d, s)
  PROVE  /\ Turn(w, x, a)
         /\ x.act[a] = w.act[a] /\ x.at[a] = w.at[a]
         /\ x.sessions[a][d] = s
         /\ \A e \in Days : e # d => x.sessions[a][e] = w.sessions[a][e]
<1>1. PICK g : g = [w.sessions[a] EXCEPT ![d] = s]
  OBVIOUS
<1>2. PICK f : f = [w.sessions EXCEPT ![a] = g]
  OBVIOUS
<1>3. x = [minute |-> w.minute, needs |-> w.needs, at |-> w.at, act |-> w.act,
       recent |-> w.recent, money |-> w.money, food |-> w.food,
       sessions |-> f, settled |-> w.settled, repaid |-> w.repaid,
       crises |-> w.crises, low |-> w.low, tension |-> w.tension, told |-> w.told]
  BY <1>1, <1>2 DEF Basic, Context, SetSession
<1>4. w.sessions = [c \in Agent |-> w.sessions[c]] /\ w.sessions[a] = [e \in Days |-> w.sessions[a][e]]
  BY DEF Basic
<1>5. g[d] = s /\ (\A e \in Days : e # d => g[e] = w.sessions[a][e]) /\ g = [e \in Days |-> g[e]]
  BY <1>1, <1>4
<1>6. f[a] = g /\ (\A c \in Agent \ {a} : f[c] = w.sessions[c]) /\ f = [c \in Agent |-> f[c]]
  BY <1>2, <1>4
<1>7. x.sessions = f /\ Context(x) /\ Rest(w, x) /\ Accounts(w, x)
      /\ x.act = w.act /\ x.at = w.at
  BY <1>3 DEF Context, Rest, Accounts
<1>8. \A c \in Agent : f[c] = [e \in Days |-> f[c][e]]
  <2>1. ASSUME NEW c \in Agent, c # a PROVE f[c] = [e \in Days |-> f[c][e]]
    BY <1>6, <2>1 DEF Basic
  <2>2. QED BY <1>5, <1>6, <2>1
<1>9. Basic(x)
  BY <1>6, <1>7, <1>8 DEF Basic, Rest, Accounts
<1>10. Elsewhere(w, x, a)
  BY <1>6, <1>7 DEF Elsewhere
<1>11. QED BY <1>5, <1>6, <1>7, <1>9, <1>10 DEF Turn

(* Turns of one agent compose.                                             *)
LEMMA TurnTwice ==
  ASSUME NEW w, NEW x, NEW y, NEW a \in Agent, Turn(w, x, a), Turn(x, y, a)
  PROVE  Turn(w, y, a)
BY DEF Turn, Rest, Accounts, Elsewhere

LEMMA GoesTwice ==
  ASSUME NEW w, NEW x, NEW y, NEW a \in Agent, Goes(w, x, a), Goes(x, y, a)
  PROVE  Goes(w, y, a)
BY TurnTwice DEF Goes

LEMMA SameTwice ==
  ASSUME NEW w, NEW x, NEW y, Same(w, x), Same(x, y)
  PROVE  Same(w, y)
BY DEF Same, Rest, Accounts

(* The others are as sound as before.                                      *)
LEMMA OthersSound ==
  ASSUME NEW w, NEW x, NEW a \in Agent, Turn(w, x, a), NEW m,
         NEW c \in Agent, c # a, AgentSound(w, c, m)
  PROVE  AgentSound(x, c, m)
BY DEF Turn, Elsewhere, Rest, AgentSound, SettledSound

LEMMA SameSound ==
  ASSUME NEW w, NEW x, Same(w, x), NEW m, NEW c \in Agent, AgentSound(w, c, m)
  PROVE  AgentSound(x, c, m)
BY DEF Same, Rest, AgentSound, SettledSound

-----------------------------------------------------------------------------
(* Sessions.                                                               *)

(* A record is not the absence of one.                                     *)
LEMMA SessionIsSome ==
  ASSUME NEW s, NEW d, SessionShape(s, d)
  PROVE  s # None
<1>1. DOMAIN s = {"start", "end", "grace", "effective", "first", "started", "late",
                  "finalized", "paid", "breaks"}
  BY DEF SessionShape
<1>2. DOMAIN None = {"none"}
  BY DEF None
<1>3. "start" \in DOMAIN s /\ "start" \notin DOMAIN None
  BY <1>1, <1>2
<1>4. QED BY <1>3

LEMMA ActionIsSome ==
  ASSUME NEW t, ActionShape(t)
  PROVE  t # None
<1>1. DOMAIN t = {"b", "phase", "dest", "origin", "arrival", "start", "end", "day"}
  BY DEF ActionShape
<1>2. DOMAIN None = {"none"}
  BY DEF None
<1>3. "b" \in DOMAIN t /\ "b" \notin DOMAIN None
  BY <1>1, <1>2
<1>4. QED BY <1>3

LEMMA NewSessionSound ==
  ASSUME NEW d, NEW m
  PROVE  SessionSound(NewSession(d), d, m)
<1>1. PICK s : s = NewSession(d)
  OBVIOUS
<1>2. /\ SessionShape(s, d)
      /\ s.effective = 0 /\ s.breaks = 0 /\ s.first = Never
  BY <1>1 DEF SessionShape, NewSession
<1>3. QED BY <1>1, <1>2 DEF SessionSound

LEMMA LaterSessions ==
  ASSUME NEW S, NEW m \in Int, NEW n \in Int, m <= n, SessionsSound(S, m)
  PROVE  SessionsSound(S, n)
<1>1. ASSUME NEW s, NEW d, SessionSound(s, d, m) PROVE SessionSound(s, d, n)
  BY <1>1 DEF SessionSound
<1>2. QED BY <1>1 DEF SessionsSound

LEMMA LaterSound ==
  ASSUME NEW w, NEW a, NEW m \in Int, NEW n \in Int, m <= n, AgentSound(w, a, m)
  PROVE  AgentSound(w, a, n)
BY LaterSessions DEF AgentSound

(* What a change of a session must respect of an action t of that day.     *)
Respects(s, r, t, d) ==
  /\ s # None /\ s.first # Never => r.first # Never
  /\ s # None /\ s.finalized = TRUE => r.finalized = TRUE
  /\ t # None /\ t.b = "take_break" /\ t.day = d => BreakSound(t, r)

LEMMA SessionChanges ==
  ASSUME NEW w, NEW a \in Agent, NEW d \in Days, NEW m, NEW r, Basic(w),
         AgentSound(w, a, m), SessionSound(r, d, m),
         Respects(w.sessions[a][d], r, w.act[a], d),
         NEW x, x = SetSession(w, a, d, r)
  PROVE  /\ Goes(w, x, a) /\ x.act[a] = w.act[a] /\ x.at[a] = w.at[a] /\ AgentSound(x, a, m)
         /\ x.sessions[a][d] = r
<1>1. /\ Turn(w, x, a)
      /\ x.act[a] = w.act[a] /\ x.at[a] = w.at[a]
      /\ x.sessions[a][d] = r
      /\ \A e \in Days : e # d => x.sessions[a][e] = w.sessions[a][e]
  BY SetSession_Turn
<1>2. Goes(w, x, a)
  BY <1>1 DEF Goes
<1>3. r # None
  BY SessionIsSome DEF SessionSound
<1>4. PICK t : t = w.act[a]
  OBVIOUS
<1>5. t = None \/ ActionSound(t, x.sessions[a])
  <2>1. SUFFICES ASSUME t # None PROVE ActionSound(t, x.sessions[a])
    OBVIOUS
  <2>2. ActionSound(t, w.sessions[a])
    BY <1>4, <2>1 DEF AgentSound
  <2>3. t.b \in OnShift => t.day \in Days /\ x.sessions[a][t.day] # None
    BY <1>1, <1>3, <2>2 DEF ActionSound
  <2>4. t.b = "work_shift" /\ t.phase = "PERFORMING" => x.sessions[a][t.day].first # Never
    <3>1. SUFFICES ASSUME t.b = "work_shift", t.phase = "PERFORMING"
                   PROVE  x.sessions[a][t.day].first # Never
      OBVIOUS
    <3>2. t.day \in Days /\ w.sessions[a][t.day] # None /\ w.sessions[a][t.day].first # Never
      BY <2>2, <3>1 DEF ActionSound, OnShift
    <3>3. CASE t.day = d
      BY <1>1, <3>2, <3>3 DEF Respects
    <3>4. CASE t.day # d
      BY <1>1, <3>2, <3>4
    <3>5. QED BY <3>3, <3>4
  <2>5. t.b = "take_break" => BreakSound(t, x.sessions[a][t.day])
    <3>1. SUFFICES ASSUME t.b = "take_break" PROVE BreakSound(t, x.sessions[a][t.day])
      OBVIOUS
    <3>2. t.day \in Days /\ BreakSound(t, w.sessions[a][t.day])
      BY <2>2, <3>1 DEF ActionSound, OnShift
    <3>3. CASE t.day = d
      BY <1>1, <1>4, <2>1, <3>1, <3>3 DEF Respects
    <3>4. CASE t.day # d
      BY <1>1, <3>2, <3>4
    <3>5. QED BY <3>3, <3>4
  <2>6. QED BY <2>2, <2>3, <2>4, <2>5 DEF ActionSound
<1>6. SessionsSound(x.sessions[a], m)
  <2>1. SessionsSound(w.sessions[a], m)
    BY DEF AgentSound
  <2>2. QED BY <1>1, <2>1 DEF SessionsSound
<1>7. SettledSound(x, a)
  <2>1. ASSUME NEW e, <<a, e>> \in w.settled
        PROVE  e \in Days /\ x.sessions[a][e] # None /\ x.sessions[a][e].finalized = TRUE
    <3>1. e \in Days /\ w.sessions[a][e] # None /\ w.sessions[a][e].finalized = TRUE
      BY <2>1 DEF AgentSound, SettledSound
    <3>2. CASE e = d
      BY <1>1, <1>3, <3>1, <3>2 DEF Respects
    <3>3. CASE e # d
      BY <1>1, <3>1, <3>3
    <3>4. QED BY <3>1, <3>2, <3>3
  <2>2. x.settled = w.settled
    BY <1>1 DEF Turn, Rest
  <2>3. QED BY <2>1, <2>2 DEF SettledSound
<1>8. QED BY <1>1, <1>2, <1>4, <1>5, <1>6, <1>7 DEF AgentSound

(* A change of the action alone.                                           *)
LEMMA ActionChanges ==
  ASSUME NEW w, NEW a \in Agent, NEW m, NEW t, Basic(w), AgentSound(w, a, m),
         t = None \/ ActionSound(t, w.sessions[a]),
         NEW x, x = SetAct(w, a, t)
  PROVE  /\ Turn(w, x, a) /\ x.act[a] = t /\ x.at[a] = w.at[a]
         /\ x.sessions[a] = w.sessions[a] /\ AgentSound(x, a, m)
<1>1. /\ Turn(w, x, a)
      /\ x.act[a] = t /\ x.sessions[a] = w.sessions[a] /\ x.at[a] = w.at[a]
  BY SetAct_Turn
<1>2. x.settled = w.settled
  BY <1>1 DEF Turn, Rest
<1>3. QED BY <1>1, <1>2 DEF AgentSound, SettledSound

(* The session of a day, opened where there was none.                      *)
LEMMA OpenedSound ==
  ASSUME NEW w, NEW a \in Agent, NEW d \in Days, NEW m, Basic(w), AgentSound(w, a, m),
         NEW x, x = Opened(w, a, d)
  PROVE  /\ Goes(w, x, a) /\ x.act[a] = w.act[a] /\ x.at[a] = w.at[a] /\ AgentSound(x, a, m)
         /\ x.sessions[a][d] # None
         /\ x.sessions[a][d] =
              IF w.sessions[a][d] = None THEN NewSession(d) ELSE w.sessions[a][d]
<1>1. CASE w.sessions[a][d] # None
  <2>1. x = w
    BY <1>1 DEF Opened
  <2>2. QED BY <1>1, <2>1 DEF Goes, Turn, Rest, Accounts, Elsewhere
<1>2. CASE w.sessions[a][d] = None
  <2>1. x = SetSession(w, a, d, NewSession(d))
    BY <1>2 DEF Opened, SetSession
  <2>2. PICK r : r = NewSession(d)
    OBVIOUS
  <2>3. SessionSound(r, d, m) /\ r # None
    BY <2>2, NewSessionSound, SessionIsSome DEF SessionSound
  <2>4. PICK t : t = w.act[a]
    OBVIOUS
  <2>5. ~(t # None /\ t.b = "take_break" /\ t.day = d)
    BY <1>2, <2>4 DEF AgentSound, ActionSound, OnShift
  <2>6. Respects(w.sessions[a][d], r, w.act[a], d)
    BY <1>2, <2>4, <2>5 DEF Respects
  <2>7. x = SetSession(w, a, d, r)
    BY <2>1, <2>2
  <2>8. /\ Goes(w, x, a) /\ x.act[a] = w.act[a] /\ x.at[a] = w.at[a] /\ AgentSound(x, a, m)
        /\ x.sessions[a][d] = r
    BY <2>3, <2>6, <2>7, SessionChanges
  <2>9. QED BY <1>2, <2>2, <2>3, <2>8
<1>3. QED BY <1>1, <1>2

-----------------------------------------------------------------------------
(* A minute is felt.                                                       *)

SetNeeds(w, a, e) == [w EXCEPT !.needs[a] = e]
LEMMA SetNeeds_Same ==
  ASSUME NEW w, NEW a, NEW e, Context(w), NEW x, x = SetNeeds(w, a, e)
  PROVE  Same(w, x)
<1>1. PICK f : f = [w.needs EXCEPT ![a] = e]
  OBVIOUS
<1>2. x = [minute |-> w.minute, needs |-> f, at |-> w.at, act |-> w.act,
       recent |-> w.recent, money |-> w.money, food |-> w.food,
       sessions |-> w.sessions, settled |-> w.settled, repaid |-> w.repaid,
       crises |-> w.crises, low |-> w.low, tension |-> w.tension, told |-> w.told]
  BY <1>1 DEF Context, SetNeeds
<1>3. QED BY <1>2 DEF Same, Context, Rest, Accounts

(* One more work minute of a session.                                      *)
Longer(s) == [s EXCEPT !.effective = @ + 1]

LEMMA LongerSound ==
  ASSUME NEW s, NEW d, NEW m \in Nat, SessionSound(s, d, m - 1), s.first # Never
  PROVE  /\ SessionSound(Longer(s), d, m)
         /\ Longer(s).first = s.first /\ Longer(s).finalized = s.finalized
<1>1. PICK r : r = Longer(s)
  OBVIOUS
<1>2. r = [start |-> d * DayLength + ShiftStart, end |-> d * DayLength + ShiftEnd,
          grace |-> Grace, effective |-> s.effective + 1, first |-> s.first,
          started |-> s.started, late |-> s.late, finalized |-> s.finalized,
          paid |-> s.paid, breaks |-> s.breaks]
  BY <1>1 DEF Longer, SessionSound, SessionShape
<1>3. SessionShape(r, d) /\ r.breaks = s.breaks
      /\ r.effective = s.effective + 1 /\ r.first = s.first /\ r.finalized = s.finalized
  BY <1>2 DEF SessionShape, SessionSound
<1>4. s.first \in Nat /\ s.effective \in Nat /\ s.first + s.effective <= m - 1
  BY DEF SessionSound
<1>5. r.effective \in Nat /\ r.first + r.effective <= m
  BY <1>3, <1>4
<1>6. QED BY <1>1, <1>3, <1>4, <1>5 DEF SessionSound

NeedsFelt(w, a) ==
  [n \in Need |-> Clamp(w.needs[a][n]
     - (IF n = "energy" /\ Doing(w, a, "sleep") THEN 0 ELSE Decay[n])
     + (IF Performing(w, a) THEN Catalog[w.act[a].b].during[n] ELSE 0))]

LEMMA FeelParts ==
  ASSUME NEW w, NEW a, NEW felt, felt = SetNeeds(w, a, NeedsFelt(w, a))
  PROVE  Feel(w, a) =
           IF Doing(w, a, "work_shift") /\ Counted(w, w.sessions[a][w.act[a].day])
             THEN [felt EXCEPT !.sessions[a][w.act[a].day].effective = @ + 1]
             ELSE felt
BY DEF Feel, SetNeeds, NeedsFelt

LEMMA FeelStep ==
  ASSUME NEW w, NEW a \in Agent, Basic(w), AgentSound(w, a, w.minute - 1),
         NEW x, x = Feel(w, a)
  PROVE  Goes(w, x, a) /\ AgentSound(x, a, w.minute)
<1>1. PICK felt : felt = SetNeeds(w, a, NeedsFelt(w, a))
  OBVIOUS
<1>2. PICK m \in Nat : m = w.minute
  BY SocietyDayConstants DEF Basic
<1>3. Same(w, felt)
  BY <1>1, SetNeeds_Same DEF Basic
<1>4. Goes(w, felt, a) /\ Basic(felt)
  BY <1>3, SameTurn, SameBasic
<1>5. AgentSound(felt, a, m - 1)
  BY <1>2, <1>3, SameSound
<1>6. AgentSound(felt, a, m)
  <2>1. m - 1 \in Int /\ m \in Int /\ m - 1 <= m
    OBVIOUS
  <2>2. QED BY <1>5, <2>1, LaterSound
<1>7. CASE Doing(w, a, "work_shift") /\ Counted(w, w.sessions[a][w.act[a].day])
  <2>1. PICK t : t = w.act[a]
    OBVIOUS
  <2>2. t # None /\ t.b = "work_shift" /\ t.phase = "PERFORMING"
    BY <1>7, <2>1 DEF Doing, Performing, Busy
  <2>3. ActionSound(t, w.sessions[a])
    BY <2>1, <2>2 DEF AgentSound
  <2>4. PICK d \in Days : d = t.day
    BY <2>2, <2>3 DEF ActionSound, OnShift
  <2>5. PICK s : s = felt.sessions[a][d]
    OBVIOUS
  <2>6. s = w.sessions[a][d] /\ felt.act[a] = t
    BY <1>3, <2>1, <2>5 DEF Same
  <2>7. s # None /\ s.first # Never
    BY <2>2, <2>3, <2>4, <2>6 DEF ActionSound, OnShift
  <2>8. SessionSound(s, d, m - 1)
    BY <1>5, <2>5, <2>7 DEF AgentSound, SessionsSound
  <2>9. PICK r : r = Longer(s)
    OBVIOUS
  <2>10. SessionSound(r, d, m) /\ r.first = s.first /\ r.finalized = s.finalized
    BY <2>7, <2>8, <2>9, LongerSound
  <2>11. Feel(w, a) = [felt EXCEPT !.sessions[a][d].effective = @ + 1]
    BY <1>1, <1>7, <2>1, <2>4, FeelParts
  <2>12. Feel(w, a) = SetSession(felt, a, d, r)
    BY <2>5, <2>9, <2>11 DEF SetSession, Longer
  <2>13. t.b # "take_break"
    BY <2>2
  <2>14. Respects(s, r, t, d)
    BY <2>7, <2>10, <2>13 DEF Respects
  <2>15. Goes(felt, x, a) /\ AgentSound(x, a, m)
    <3>1. Respects(felt.sessions[a][d], r, felt.act[a], d)
      BY <2>5, <2>6, <2>14
    <3>2. SessionSound(r, d, m) /\ x = SetSession(felt, a, d, r) /\ Basic(felt)
      BY <1>4, <2>10, <2>12
    <3>3. QED BY <1>6, <3>1, <3>2, SessionChanges
  <2>16. QED BY <1>2, <1>4, <2>15, GoesTwice
<1>8. CASE ~(Doing(w, a, "work_shift") /\ Counted(w, w.sessions[a][w.act[a].day]))
  <2>1. x = felt
    BY <1>1, <1>8, FeelParts
  <2>2. QED BY <1>2, <1>4, <1>6, <2>1
<1>9. QED BY <1>7, <1>8

-----------------------------------------------------------------------------
(* Actions progress.                                                       *)

(* Events told change nothing else.                                        *)
LEMMA StageSame ==
  ASSUME NEW w, NEW e, Context(w)
  PROVE  Same(w, Stage(w, e))
<1>1. Stage(w, e) = SetTold(w, Append(w.told, e))
  BY DEF Stage, SetTold
<1>2. QED BY <1>1, SetTold_Same

(* The action in another phase.                                            *)
InPhase(t, p) == [t EXCEPT !.phase = p]

LEMMA PhaseSound ==
  ASSUME NEW t, NEW S, NEW p, ActionSound(t, S),
         t.b = "work_shift" /\ p = "PERFORMING" => S[t.day].first # Never
  PROVE  /\ ActionSound(InPhase(t, p), S)
         /\ InPhase(t, p).b = t.b /\ InPhase(t, p).day = t.day /\ InPhase(t, p) # None
<1>1. PICK r : r = InPhase(t, p)
  OBVIOUS
<1>2. r = [b |-> t.b, phase |-> p, dest |-> t.dest, origin |-> t.origin,
           arrival |-> t.arrival, start |-> t.start, end |-> t.end, day |-> t.day]
  BY <1>1 DEF InPhase, ActionSound, ActionShape
<1>3. ActionShape(r) /\ r.b = t.b /\ r.day = t.day /\ r.phase = p /\ r.end = t.end
  BY <1>2 DEF ActionShape
<1>4. ActionSound(r, S)
  BY <1>3 DEF ActionSound, BreakSound
<1>5. QED BY <1>1, <1>3, <1>4, ActionIsSome

(* The first work minute of a session.                                     *)
Started(s, m, l) == [s EXCEPT !.first = IF s.first = Never THEN m ELSE @,
                              !.started = TRUE, !.late = l]

LEMMA StartedSound ==
  ASSUME NEW s, NEW d, NEW m \in Nat, NEW l, SessionSound(s, d, m),
         NEW r, r = Started(s, m, l)
  PROVE  /\ SessionSound(r, d, m) /\ r.first # Never /\ r.finalized = s.finalized
<1>1. PICK f : f = IF s.first = Never THEN m ELSE s.first
  OBVIOUS
<1>2. r = [start |-> d * DayLength + ShiftStart, end |-> d * DayLength + ShiftEnd,
          grace |-> Grace, effective |-> s.effective, first |-> f,
          started |-> TRUE, late |-> l, finalized |-> s.finalized,
          paid |-> s.paid, breaks |-> s.breaks]
  <2>1. r = [s EXCEPT !.first = f, !.started = TRUE, !.late = l]
    BY <1>1 DEF Started
  <2>2. PICK b, e, ef, fn, pd, br :
           b = d * DayLength + ShiftStart /\ e = d * DayLength + ShiftEnd
           /\ ef = s.effective /\ fn = s.finalized /\ pd = s.paid /\ br = s.breaks
    OBVIOUS
  <2>3. PICK si, sd, sl : si = s.first /\ sd = s.started /\ sl = s.late
    OBVIOUS
  <2>4. s = [start |-> b, end |-> e, grace |-> Grace, effective |-> ef, first |-> si,
             started |-> sd, late |-> sl, finalized |-> fn, paid |-> pd, breaks |-> br]
    BY <2>2, <2>3 DEF SessionSound, SessionShape
  <2>5. r = [start |-> b, end |-> e, grace |-> Grace, effective |-> ef, first |-> f,
             started |-> TRUE, late |-> l, finalized |-> fn, paid |-> pd, breaks |-> br]
    BY <2>1, <2>4
  <2>6. QED BY <2>2, <2>5
<1>3. SessionShape(r, d) /\ r.breaks = s.breaks
      /\ r.effective = s.effective /\ r.first = f /\ r.finalized = s.finalized
  BY <1>2 DEF SessionShape, SessionSound
<1>4. f \in Nat /\ f + s.effective <= m /\ s.effective \in Nat
  <2>1. \/ s.first = Never /\ s.effective = 0
        \/ s.first \in Nat /\ s.first + s.effective <= m
    BY DEF SessionSound
  <2>2. s.effective \in Nat
    BY DEF SessionSound
  <2>3. QED BY <1>1, <2>1, <2>2 DEF Never
<1>5. f # Never
  BY <1>4 DEF Never
<1>6. QED BY <1>3, <1>4, <1>5 DEF SessionSound

(* _start_performing                                                       *)
LEMMA StartParts ==
  ASSUME NEW w, NEW a \in Agent, Basic(w), NEW t, t = w.act[a], t.b = "work_shift",
         t.day \in Days, NEW x, x = StartPerforming(w, a)
  PROVE  \E l : \E y : \E z :
           /\ y = SetSession(w, a, t.day, Started(w.sessions[a][t.day], w.minute, l))
           /\ z = SetAct(y, a, InPhase(t, "PERFORMING"))
           /\ Same(z, x)
<1>1. PICK d \in Days : d = t.day
  OBVIOUS
<1>2. PICK s : s = w.sessions[a][d]
  OBVIOUS
<1>3. PICK tardy : tardy = (s.first = Never /\ w.minute > s.start /\ ~s.late)
  OBVIOUS
<1>4. PICK l : l = (s.late \/ tardy)
  OBVIOUS
<1>5. PICK on : on = SetAct(w, a, InPhase(t, "PERFORMING"))
  OBVIOUS
<1>6. on = [w EXCEPT !.act[a].phase = "PERFORMING"]
  BY <1>5 DEF SetAct, InPhase
<1>7. Basic(on)
  BY <1>5, SetAct_Turn DEF Turn
<1>8. PICK begun : begun = IF s.started THEN on ELSE Stage(on, Event("WORK_STARTED", a, d, "none"))
  OBVIOUS
<1>9. Same(on, begun)
  <2>1. Same(on, on)
    BY <1>7 DEF Same, Basic, Rest, Accounts
  <2>2. Same(on, Stage(on, Event("WORK_STARTED", a, d, "none")))
    BY <1>7, StageSame DEF Basic
  <2>3. QED BY <1>8, <2>1, <2>2
<1>10. PICK told : told = IF tardy THEN Stage(begun, Event("WORK_LATE", a, d, "none")) ELSE begun
  OBVIOUS
<1>11. Same(on, told)
  <2>1. Same(begun, Stage(begun, Event("WORK_LATE", a, d, "none")))
    BY <1>9, StageSame DEF Same
  <2>2. QED BY <1>9, <1>10, <2>1, SameTwice
<1>12. PICK r : r = Started(s, w.minute, l)
  OBVIOUS
<1>13. x = SetSession(told, a, d, r)
  BY <1>1, <1>2, <1>3, <1>4, <1>6, <1>8, <1>10, <1>12
     DEF StartPerforming, Started, SetSession
<1>14. PICK f : f = [w.act EXCEPT ![a] = InPhase(t, "PERFORMING")]
  OBVIOUS
<1>15. PICK g : g = [w.sessions EXCEPT ![a][d] = r]
  OBVIOUS
<1>16. on = [minute |-> w.minute, needs |-> w.needs, at |-> w.at, act |-> f,
       recent |-> w.recent, money |-> w.money, food |-> w.food,
       sessions |-> w.sessions, settled |-> w.settled, repaid |-> w.repaid,
       crises |-> w.crises, low |-> w.low, tension |-> w.tension, told |-> w.told]
  BY <1>5, <1>14 DEF SetAct, Basic, Context
<1>17. /\ Context(told) /\ Rest(w, told) /\ Accounts(w, told)
       /\ told.at = w.at /\ told.act = f /\ told.sessions = w.sessions
  BY <1>11, <1>16 DEF Same, Rest, Accounts
<1>18. x = [minute |-> told.minute, needs |-> told.needs, at |-> told.at, act |-> told.act,
       recent |-> told.recent, money |-> told.money, food |-> told.food,
       sessions |-> g, settled |-> told.settled, repaid |-> told.repaid,
       crises |-> told.crises, low |-> told.low, tension |-> told.tension, told |-> told.told]
  BY <1>13, <1>15, <1>17 DEF SetSession, Context
<1>19. /\ Context(x) /\ Rest(w, x) /\ Accounts(w, x)
       /\ x.at = w.at /\ x.act = f /\ x.sessions = g
  BY <1>17, <1>18 DEF Context, Rest, Accounts
<1>20. PICK y : y = SetSession(w, a, d, r)
  OBVIOUS
<1>21. y = [minute |-> w.minute, needs |-> w.needs, at |-> w.at, act |-> w.act,
       recent |-> w.recent, money |-> w.money, food |-> w.food,
       sessions |-> g, settled |-> w.settled, repaid |-> w.repaid,
       crises |-> w.crises, low |-> w.low, tension |-> w.tension, told |-> w.told]
  BY <1>15, <1>20 DEF SetSession, Basic, Context
<1>22. PICK z : z = SetAct(y, a, InPhase(t, "PERFORMING"))
  OBVIOUS
<1>23. z = [minute |-> w.minute, needs |-> w.needs, at |-> w.at, act |-> f,
       recent |-> w.recent, money |-> w.money, food |-> w.food,
       sessions |-> g, settled |-> w.settled, repaid |-> w.repaid,
       crises |-> w.crises, low |-> w.low, tension |-> w.tension, told |-> w.told]
  BY <1>14, <1>21, <1>22 DEF SetAct
<1>24. Same(z, x)
  BY <1>19, <1>23 DEF Same, Rest, Accounts
<1>25. QED BY <1>1, <1>2, <1>12, <1>20, <1>22, <1>24

LEMMA StartPerformingStep ==
  ASSUME NEW w, NEW a \in Agent, Basic(w), w.act[a] # None, AgentSound(w, a, w.minute),
         NEW x, x = StartPerforming(w, a)
  PROVE  Goes(w, x, a) /\ AgentSound(x, a, w.minute)
<1>1. PICK t : t = w.act[a]
  OBVIOUS
<1>2. PICK m \in Nat : m = w.minute
  BY SocietyDayConstants DEF Basic
<1>3. t # None /\ ActionSound(t, w.sessions[a])
  BY <1>1 DEF AgentSound
<1>4. PICK u : u = InPhase(t, "PERFORMING")
  OBVIOUS
<1>5. CASE t.b # "work_shift"
  <2>1. x = [w EXCEPT !.act[a].phase = "PERFORMING"]
    BY <1>1, <1>5 DEF StartPerforming
  <2>2. x = SetAct(w, a, u)
    BY <1>1, <1>4, <2>1 DEF SetAct, InPhase
  <2>3. ActionSound(u, w.sessions[a]) /\ u.b = t.b /\ u # None
    BY <1>3, <1>4, <1>5, PhaseSound
  <2>4. Turn(w, x, a) /\ x.act[a] = u /\ AgentSound(x, a, m)
    BY <1>2, <2>2, <2>3, ActionChanges
  <2>5. QED BY <1>1, <1>2, <1>3, <2>3, <2>4 DEF Goes
<1>6. CASE t.b = "work_shift"
  <2>1. PICK d \in Days : d = t.day /\ w.sessions[a][d] # None
    BY <1>3, <1>6 DEF ActionSound, OnShift
  <2>2. PICK l, y, z :
           /\ y = SetSession(w, a, t.day, Started(w.sessions[a][t.day], w.minute, l))
           /\ z = SetAct(y, a, u)
           /\ Same(z, x)
    BY <1>1, <1>4, <1>6, <2>1, StartParts
  <2>3. PICK s : s = w.sessions[a][d]
    OBVIOUS
  <2>4. PICK r : r = Started(s, m, l)
    OBVIOUS
  <2>5. SessionSound(s, d, m)
    BY <1>2, <2>1, <2>3 DEF AgentSound, SessionsSound
  <2>6. SessionSound(r, d, m) /\ r.first # Never /\ r.finalized = s.finalized
    BY <2>4, <2>5, StartedSound
  <2>7. Respects(w.sessions[a][d], r, w.act[a], d)
    BY <1>1, <1>6, <2>3, <2>6 DEF Respects
  <2>8. y = SetSession(w, a, d, r)
    BY <1>2, <2>1, <2>2, <2>3, <2>4
  <2>9. AgentSound(w, a, m)
    BY <1>2
  <2>10. /\ Goes(w, y, a) /\ y.act[a] = w.act[a] /\ AgentSound(y, a, m)
         /\ y.sessions[a][d] = r
    BY <2>6, <2>7, <2>8, <2>9, SessionChanges
  <2>11. ActionSound(t, y.sessions[a]) /\ Basic(y)
    BY <1>1, <1>3, <2>10 DEF AgentSound, Goes, Turn
  <2>12. y.sessions[a][t.day].first # Never
    BY <2>1, <2>6, <2>10
  <2>13. ActionSound(u, y.sessions[a]) /\ u.b = t.b /\ u # None
    BY <1>4, <2>11, <2>12, PhaseSound
  <2>14. z = SetAct(y, a, u) /\ Same(z, x)
    BY <2>2
  <2>15. Turn(y, z, a) /\ z.act[a] = u /\ AgentSound(z, a, m)
    BY <2>10, <2>11, <2>13, <2>14, ActionChanges
  <2>16. Goes(y, z, a) /\ Basic(z)
    BY <1>1, <1>3, <2>10, <2>13, <2>15 DEF Goes, Turn
  <2>17. Goes(z, x, a) /\ AgentSound(x, a, m)
    BY <2>14, <2>15, <2>16, SameTurn, SameSound
  <2>18. QED BY <1>2, <2>10, <2>16, <2>17, GoesTwice
<1>7. QED BY <1>5, <1>6

(* _arrive, _align                                                         *)
SetAt(w, a, l) == [w EXCEPT !.at[a] = l]

LEMMA SetAtStep ==
  ASSUME NEW w, NEW l, NEW a \in Agent, NEW m, Basic(w), AgentSound(w, a, m),
         NEW x, x = SetAt(w, a, l)
  PROVE  /\ Goes(w, x, a) /\ x.act[a] = w.act[a] /\ x.sessions[a] = w.sessions[a]
         /\ AgentSound(x, a, m)
<1>1. PICK f : f = [w.at EXCEPT ![a] = l]
  OBVIOUS
<1>2. x = [minute |-> w.minute, needs |-> w.needs, at |-> f, act |-> w.act,
       recent |-> w.recent, money |-> w.money, food |-> w.food,
       sessions |-> w.sessions, settled |-> w.settled, repaid |-> w.repaid,
       crises |-> w.crises, low |-> w.low, tension |-> w.tension, told |-> w.told]
  BY <1>1 DEF Basic, Context, SetAt
<1>3. w.at = [c \in Agent |-> w.at[c]]
  BY DEF Basic
<1>4. (\A c \in Agent \ {a} : f[c] = w.at[c]) /\ f = [c \in Agent |-> f[c]]
  BY <1>1, <1>3
<1>5. x.at = f /\ Context(x) /\ Rest(w, x) /\ Accounts(w, x)
      /\ x.sessions = w.sessions /\ x.act = w.act
  BY <1>2 DEF Context, Rest, Accounts
<1>6. Basic(x)
  BY <1>4, <1>5 DEF Basic, Rest, Accounts
<1>7. Elsewhere(w, x, a)
  BY <1>4, <1>5 DEF Elsewhere
<1>8. AgentSound(x, a, m)
  BY <1>5 DEF AgentSound, SettledSound, Rest
<1>9. QED BY <1>5, <1>6, <1>7, <1>8 DEF Goes, Turn

LEMMA ArriveStep ==
  ASSUME NEW w, NEW a \in Agent, Basic(w), w.act[a] # None, AgentSound(w, a, w.minute),
         NEW x, x = Arrive(w, a)
  PROVE  Goes(w, x, a) /\ AgentSound(x, a, w.minute)
<1>1. PICK t : t = w.act[a]
  OBVIOUS
<1>2. PICK m : m = w.minute
  OBVIOUS
<1>3. ActionSound(t, w.sessions[a])
  BY <1>1 DEF AgentSound
<1>4. PICK y : y = SetAt(w, a, t.dest)
  OBVIOUS
<1>5. AgentSound(w, a, m)
  BY <1>2
<1>6. /\ Goes(w, y, a) /\ y.act[a] = w.act[a] /\ y.sessions[a] = w.sessions[a]
      /\ AgentSound(y, a, m)
  BY <1>4, <1>5, SetAtStep
<1>7. PICK u : u = InPhase(t, "ALIGNING")
  OBVIOUS
<1>8. ActionSound(u, y.sessions[a]) /\ u.b = t.b /\ u # None
  BY <1>3, <1>6, <1>7, PhaseSound
<1>9. PICK z : z = SetAct(y, a, u)
  OBVIOUS
<1>10. Basic(y)
  BY <1>6 DEF Goes, Turn
<1>11. Turn(y, z, a) /\ z.act[a] = u /\ AgentSound(z, a, m)
  BY <1>6, <1>8, <1>9, <1>10, ActionChanges
<1>12. Goes(y, z, a) /\ Basic(z)
  BY <1>1, <1>6, <1>8, <1>11 DEF Goes, Turn
<1>13. Goes(w, z, a)
  BY <1>6, <1>12, GoesTwice
<1>14. z = [w EXCEPT !.at[a] = w.act[a].dest, !.act[a].phase = "ALIGNING"]
  BY <1>1, <1>4, <1>7, <1>9 DEF SetAct, SetAt, InPhase, Basic, Context
<1>15. CASE w.minute >= w.act[a].start
  <2>1. x = StartPerforming(z, a)
    BY <1>14, <1>15 DEF Arrive
  <2>2. z.minute = m
    BY <1>2, <1>13 DEF Goes, Turn, Rest
  <2>3. Goes(z, x, a) /\ AgentSound(x, a, m)
    BY <1>8, <1>11, <1>12, <2>1, <2>2, StartPerformingStep
  <2>4. QED BY <1>2, <1>13, <2>3, GoesTwice
<1>16. CASE ~(w.minute >= w.act[a].start)
  <2>1. x = z
    BY <1>14, <1>16 DEF Arrive
  <2>2. QED BY <1>2, <1>11, <1>13, <2>1
<1>17. QED BY <1>15, <1>16

LEMMA GoesNowhere ==
  ASSUME NEW w, NEW a, Basic(w)
  PROVE  Goes(w, w, a)
BY DEF Goes, Turn, Rest, Accounts, Elsewhere

LEMMA ArriveIfDueStep ==
  ASSUME NEW w, NEW a \in Agent, Basic(w), AgentSound(w, a, w.minute),
         NEW x, x = ArriveIfDue(w, a)
  PROVE  Goes(w, x, a) /\ AgentSound(x, a, w.minute)
<1>1. CASE x = w
  BY <1>1, GoesNowhere
<1>2. CASE x = Arrive(w, a) /\ Busy(w, a)
  BY <1>2, ArriveStep DEF Busy
<1>3. QED BY <1>1, <1>2 DEF ArriveIfDue

LEMMA AlignIfDueStep ==
  ASSUME NEW w, NEW a \in Agent, Basic(w), AgentSound(w, a, w.minute),
         NEW x, x = AlignIfDue(w, a)
  PROVE  Goes(w, x, a) /\ AgentSound(x, a, w.minute)
<1>1. CASE x = w
  BY <1>1, GoesNowhere
<1>2. CASE x = StartPerforming(w, a) /\ Busy(w, a)
  BY <1>2, StartPerformingStep DEF Busy
<1>3. QED BY <1>1, <1>2 DEF AlignIfDue

(* What an agent's running action will cost.                               *)
PriceOf(t) == IF t = None THEN 0 ELSE Catalog[t.b].price
FoodOf(t) == IF t = None THEN 0 ELSE Catalog[t.b].food

(* What household h pays when agent a's action t gives way to u is no more *)
(* than what t held and u does not.                                        *)
Booked(w, x, a) ==
  \A h \in Household :
    /\ x.money[h] - w.money[h] >=
         IF Member[a] = h THEN PriceOf(x.act[a]) - PriceOf(w.act[a]) ELSE 0
    /\ x.food[h] - w.food[h] >=
         IF Member[a] = h THEN FoodOf(x.act[a]) - FoodOf(w.act[a]) ELSE 0

(* No wage of another agent's is settled.                                  *)
OwnWage(w, x, a) ==
  \A c \in Agent \ {a} : \A d : <<c, d>> \in x.settled => <<c, d>> \in w.settled

Moves(w, x, a) ==
  /\ Basic(x) /\ x.minute = w.minute
  /\ Elsewhere(w, x, a) /\ Booked(w, x, a) /\ OwnWage(w, x, a)

LEMMA PricesKnown ==
  ASSUME NEW t, t = None \/ t.b \in Behavior
  PROVE  PriceOf(t) \in Nat /\ FoodOf(t) \in Nat
BY RulebookConstants DEF PriceOf, FoodOf

LEMMA GoesMoves ==
  ASSUME NEW w, NEW x, NEW a \in Agent, Basic(w), Goes(w, x, a),
         w.act[a] = None \/ w.act[a].b \in Behavior
  PROVE  Moves(w, x, a)
<1>1. PriceOf(x.act[a]) = PriceOf(w.act[a]) /\ FoodOf(x.act[a]) = FoodOf(w.act[a])
  BY DEF Goes, PriceOf, FoodOf
<1>2. PriceOf(w.act[a]) \in Nat /\ FoodOf(w.act[a]) \in Nat
  BY PricesKnown
<1>3. x.money = w.money /\ x.food = w.food /\ w.money \in [Household -> Int]
      /\ w.food \in [Household -> Int]
  BY DEF Goes, Turn, Accounts, Basic
<1>4. Booked(w, x, a)
  BY <1>1, <1>2, <1>3 DEF Booked
<1>5. OwnWage(w, x, a)
  BY DEF OwnWage, Goes, Turn, Rest
<1>6. QED BY <1>4, <1>5 DEF Moves, Goes, Turn, Rest

LEMMA MovesTwice ==
  ASSUME NEW w, NEW x, NEW y, NEW a \in Agent, Basic(w), Moves(w, x, a), Moves(x, y, a),
         w.act[a] = None \/ w.act[a].b \in Behavior,
         x.act[a] = None \/ x.act[a].b \in Behavior,
         y.act[a] = None \/ y.act[a].b \in Behavior
  PROVE  Moves(w, y, a)
<1>1. PICK p, q, r, f, g, k :
        /\ p = PriceOf(w.act[a]) /\ q = PriceOf(x.act[a]) /\ r = PriceOf(y.act[a])
        /\ f = FoodOf(w.act[a]) /\ g = FoodOf(x.act[a]) /\ k = FoodOf(y.act[a])
  OBVIOUS
<1>2. p \in Nat /\ q \in Nat /\ r \in Nat /\ f \in Nat /\ g \in Nat /\ k \in Nat
  BY <1>1, PricesKnown
<1>3. ASSUME NEW h \in Household
      PROVE  /\ y.money[h] - w.money[h] >= IF Member[a] = h THEN r - p ELSE 0
             /\ y.food[h] - w.food[h] >= IF Member[a] = h THEN k - f ELSE 0
  <2>1. /\ w.money[h] \in Int /\ x.money[h] \in Int /\ y.money[h] \in Int
        /\ w.food[h] \in Int /\ x.food[h] \in Int /\ y.food[h] \in Int
    BY DEF Moves, Basic
  <2>2. /\ x.money[h] - w.money[h] >= IF Member[a] = h THEN q - p ELSE 0
        /\ x.food[h] - w.food[h] >= IF Member[a] = h THEN g - f ELSE 0
    BY <1>1 DEF Moves, Booked
  <2>3. /\ y.money[h] - x.money[h] >= IF Member[a] = h THEN r - q ELSE 0
        /\ y.food[h] - x.food[h] >= IF Member[a] = h THEN k - g ELSE 0
    BY <1>1 DEF Moves, Booked
  <2>4. QED BY <1>2, <2>1, <2>2, <2>3
<1>4. Booked(w, y, a)
  BY <1>1, <1>3 DEF Booked
<1>5. OwnWage(w, y, a)
  BY DEF OwnWage, Moves
<1>6. QED BY <1>4, <1>5 DEF Moves, Elsewhere

(* _resolve_action.                                                        *)
Rested(s) == [s EXCEPT !.breaks = @ + 1]

LEMMA RestedSound ==
  ASSUME NEW s, NEW d, NEW m, SessionSound(s, d, m), s.breaks = 0, NEW r, r = Rested(s)
  PROVE  SessionSound(r, d, m) /\ r.first = s.first /\ r.finalized = s.finalized
<1>1. PICK b, e, ef, fn, pd :
         b = d * DayLength + ShiftStart /\ e = d * DayLength + ShiftEnd
         /\ ef = s.effective /\ fn = s.finalized /\ pd = s.paid
  OBVIOUS
<1>2. PICK si, sd, sl : si = s.first /\ sd = s.started /\ sl = s.late
  OBVIOUS
<1>3. s = [start |-> b, end |-> e, grace |-> Grace, effective |-> ef, first |-> si,
           started |-> sd, late |-> sl, finalized |-> fn, paid |-> pd, breaks |-> 0]
  BY <1>1, <1>2 DEF SessionSound, SessionShape
<1>4. r = [start |-> b, end |-> e, grace |-> Grace, effective |-> ef, first |-> si,
           started |-> sd, late |-> sl, finalized |-> fn, paid |-> pd, breaks |-> 1]
  BY <1>3 DEF Rested
<1>5. /\ SessionShape(r, d) /\ r.breaks = 1
      /\ r.effective = s.effective /\ r.first = s.first /\ r.finalized = s.finalized
  BY <1>1, <1>2, <1>4 DEF SessionShape, SessionSound
<1>6. QED BY <1>5 DEF SessionSound

(* What it leaves: y is x but for needs, events, money and food.           *)
LEMMA ResolveParts ==
  ASSUME NEW w, NEW a \in Agent, Basic(w), NEW t, t = w.act[a], t # None, t.b \in Behavior,
         NEW x, x = Resolve(w, a)
  PROVE  /\ Context(x) /\ Rest(w, x) /\ x.at = w.at
         /\ x.act = [w.act EXCEPT ![a] = None]
         /\ x.money = [w.money EXCEPT ![Member[a]] = @ - Catalog[t.b].price]
         /\ x.food = [w.food EXCEPT ![Member[a]] =
                        @ - Catalog[t.b].food + Catalog[t.b].gain]
         /\ x.sessions = IF t.b = "take_break"
                           THEN [w.sessions EXCEPT ![a][t.day] = Rested(@)]
                           ELSE w.sessions
<1>1. PICK b \in Behavior : b = t.b
  OBVIOUS
<1>2. PICK M, F, G : /\ M = [w.money EXCEPT ![Member[a]] = @ - Catalog[b].price]
                  /\ F = [w.food EXCEPT ![Member[a]] = @ - Catalog[b].food + Catalog[b].gain]
                  /\ G = [w.sessions EXCEPT ![a][t.day] = Rested(@)]
  OBVIOUS
<1>3. PICK spent : spent = Spent(w, Member[a], b)
  OBVIOUS
<1>4. spent = [minute |-> w.minute, needs |-> w.needs, at |-> w.at, act |-> w.act,
       recent |-> w.recent, money |-> M, food |-> F,
       sessions |-> w.sessions, settled |-> w.settled, repaid |-> w.repaid,
       crises |-> w.crises, low |-> w.low, tension |-> w.tension, told |-> w.told]
  BY <1>2, <1>3 DEF Spent, Basic, Context
<1>5. /\ Context(spent) /\ Rest(w, spent) /\ spent.at = w.at /\ spent.act = w.act
      /\ spent.money = M /\ spent.food = F /\ spent.sessions = w.sessions
  BY <1>4 DEF Context, Rest
<1>6. PICK felt : felt = Felt(spent, a, b)
  OBVIOUS
<1>7. Same(spent, felt)
  <2>1. PICK e : e = [n \in Need |-> IF b \in Lasting THEN spent.needs[a][n]
                                     ELSE Clamp(spent.needs[a][n] + Catalog[b].delta[n])]
    OBVIOUS
  <2>2. felt = SetNeeds(spent, a, e)
    BY <1>6, <2>1 DEF Felt, SetNeeds
  <2>3. QED BY <1>5, <2>2, SetNeeds_Same
<1>8. /\ Context(felt) /\ Rest(w, felt) /\ felt.at = w.at /\ felt.act = w.act
      /\ felt.money = M /\ felt.food = F /\ felt.sessions = w.sessions
  BY <1>5, <1>7 DEF Same, Rest, Accounts
<1>9. PICK rested : rested = IF b = "take_break"
                  THEN [felt EXCEPT !.sessions[a][felt.act[a].day].breaks = @ + 1] ELSE felt
  OBVIOUS
<1>10. /\ Context(rested) /\ Rest(w, rested) /\ rested.at = w.at /\ rested.act = w.act
       /\ rested.money = M /\ rested.food = F
       /\ rested.sessions = IF b = "take_break" THEN G ELSE w.sessions
  <2>1. CASE b = "take_break"
    <3>1. rested = [felt EXCEPT !.sessions = [w.sessions EXCEPT ![a][t.day].breaks = @ + 1]]
      BY <1>8, <1>9, <2>1
    <3>2. G = [w.sessions EXCEPT ![a][t.day].breaks = @ + 1]
      BY <1>2 DEF Rested
    <3>3. rested = [felt EXCEPT !.sessions = G]
      BY <3>1, <3>2
    <3>4. rested = [minute |-> felt.minute, needs |-> felt.needs, at |-> felt.at,
            act |-> felt.act, recent |-> felt.recent, money |-> felt.money,
            food |-> felt.food, sessions |-> G, settled |-> felt.settled,
            repaid |-> felt.repaid, crises |-> felt.crises, low |-> felt.low,
            tension |-> felt.tension, told |-> felt.told]
      BY <1>8, <3>3 DEF Context
    <3>5. QED BY <1>8, <2>1, <3>4 DEF Context, Rest
  <2>2. CASE b # "take_break"
    BY <1>8, <1>9, <2>2
  <2>3. QED BY <2>1, <2>2
<1>11. PICK told : told = Happened(rested, a, b)
  OBVIOUS
<1>12. Same(rested, told)
  <2>1. Same(rested, rested)
    BY <1>10 DEF Same, Rest, Accounts
  <2>2. \A e : Same(rested, Stage(rested, e))
    BY <1>10, StageSame
  <2>3. QED BY <1>11, <2>1, <2>2 DEF Happened
<1>13. /\ Context(told) /\ Rest(w, told) /\ told.at = w.at /\ told.act = w.act
       /\ told.money = M /\ told.food = F
       /\ told.sessions = IF b = "take_break" THEN G ELSE w.sessions
  BY <1>10, <1>12 DEF Same, Rest, Accounts
<1>14. x = Terminate(told, a)
  BY <1>1, <1>3, <1>6, <1>8, <1>9, <1>11 DEF Resolve
<1>15. x = [minute |-> told.minute, needs |-> told.needs, at |-> told.at,
            act |-> [told.act EXCEPT ![a] = None],
            recent |-> [told.recent EXCEPT ![a] = told.act[a].b], money |-> told.money,
            food |-> told.food, sessions |-> told.sessions, settled |-> told.settled,
            repaid |-> told.repaid, crises |-> told.crises, low |-> told.low,
            tension |-> told.tension, told |-> told.told]
  BY <1>13, <1>14 DEF Terminate, Context
<1>16. /\ Context(x) /\ Rest(w, x) /\ x.at = w.at /\ x.act = [w.act EXCEPT ![a] = None]
       /\ x.money = M /\ x.food = F
       /\ x.sessions = IF b = "take_break" THEN G ELSE w.sessions
  BY <1>13, <1>15 DEF Context, Rest
<1>17. QED BY <1>1, <1>2, <1>16

LEMMA ResolveStep ==
  ASSUME NEW w, NEW a \in Agent, Basic(w), w.act[a] # None, AgentSound(w, a, w.minute),
         NEW x, x = Resolve(w, a)
  PROVE  Moves(w, x, a) /\ AgentSound(x, a, w.minute)
<1>1. PICK t : t = w.act[a]
  OBVIOUS
<1>2. t # None /\ t.b \in Behavior /\ ActionSound(t, w.sessions[a])
  BY <1>1 DEF AgentSound, ActionSound
<1>3. PICK m : m = w.minute
  OBVIOUS
<1>4. PICK h \in Household : h = Member[a]
  BY SocietyDayConstants
<1>5. PICK p \in Nat, f \in Nat, g \in Nat :
        p = Catalog[t.b].price /\ f = Catalog[t.b].food /\ g = Catalog[t.b].gain
  BY <1>2, RulebookConstants
<1>6. /\ Context(x) /\ Rest(w, x) /\ x.at = w.at
      /\ x.act = [w.act EXCEPT ![a] = None]
      /\ x.money = [w.money EXCEPT ![h] = @ - p]
      /\ x.food = [w.food EXCEPT ![h] = @ - f + g]
      /\ x.sessions = IF t.b = "take_break"
                        THEN [w.sessions EXCEPT ![a][t.day] = Rested(@)]
                        ELSE w.sessions
  <2>1. /\ Context(x) /\ Rest(w, x) /\ x.at = w.at
        /\ x.act = [w.act EXCEPT ![a] = None]
        /\ x.money = [w.money EXCEPT ![Member[a]] = @ - Catalog[t.b].price]
        /\ x.food = [w.food EXCEPT ![Member[a]] =
                       @ - Catalog[t.b].food + Catalog[t.b].gain]
        /\ x.sessions = IF t.b = "take_break"
                          THEN [w.sessions EXCEPT ![a][t.day] = Rested(@)]
                          ELSE w.sessions
    BY <1>1, <1>2, ResolveParts
  <2>2. x.money = [w.money EXCEPT ![h] = @ - p]
    BY <1>4, <1>5, <2>1
  <2>3. x.food = [w.food EXCEPT ![h] = @ - f + g]
    BY <1>4, <1>5, <2>1
  <2>4. QED BY <2>1, <2>2, <2>3
<1>7. w.money \in [Household -> Int] /\ w.food \in [Household -> Int]
  BY DEF Basic
<1>8. x.money \in [Household -> Int] /\ x.food \in [Household -> Int]
  BY <1>5, <1>6, <1>7
<1>9. /\ x.money[h] = w.money[h] - p /\ x.food[h] = w.food[h] - f + g
      /\ \A k \in Household : k # h => x.money[k] = w.money[k] /\ x.food[k] = w.food[k]
  BY <1>6, <1>7
<1>10. w.act = [c \in Agent |-> w.act[c]]
  BY DEF Basic
<1>11. x.act[a] = None /\ x.act = [c \in Agent |-> x.act[c]]
       /\ \A c \in Agent \ {a} : x.act[c] = w.act[c]
  BY <1>6, <1>10
<1>12. Booked(w, x, a)
  <2>1. PriceOf(x.act[a]) = 0 /\ FoodOf(x.act[a]) = 0
        /\ PriceOf(w.act[a]) = p /\ FoodOf(w.act[a]) = f
    BY <1>1, <1>2, <1>5, <1>11 DEF PriceOf, FoodOf
  <2>2. ASSUME NEW k \in Household
        PROVE  /\ x.money[k] - w.money[k] >= IF h = k THEN 0 - p ELSE 0
               /\ x.food[k] - w.food[k] >= IF h = k THEN 0 - f ELSE 0
    <3>1. w.money[k] \in Int /\ w.food[k] \in Int
      BY <1>7
    <3>2. QED BY <1>5, <1>9, <3>1
  <2>3. QED BY <1>4, <2>1, <2>2 DEF Booked
<1>13. PICK W : W = w.sessions[a]
  OBVIOUS
<1>14. /\ w.sessions = [c \in Agent |-> w.sessions[c]]
       /\ W = [d \in Days |-> W[d]] /\ SessionsSound(W, m)
       /\ \A c \in Agent : w.sessions[c] = [d \in Days |-> w.sessions[c][d]]
  BY <1>3, <1>13 DEF Basic, AgentSound
<1>15. PICK X : X = x.sessions[a]
  OBVIOUS
<1>16. /\ SessionsSound(X, m) /\ X = [d \in Days |-> X[d]]
       /\ \A d \in Days : W[d] # None => X[d] # None /\ X[d].finalized = W[d].finalized
       /\ x.sessions = [c \in Agent |-> x.sessions[c]]
       /\ \A c \in Agent \ {a} : x.sessions[c] = w.sessions[c]
  <2>1. CASE t.b # "take_break"
    BY <1>6, <1>13, <1>14, <1>15, <2>1
  <2>2. CASE t.b = "take_break"
    <3>1. PICK d \in Days : d = t.day /\ W[d] # None /\ W[d].breaks = 0
      BY <1>2, <1>13, <2>2 DEF ActionSound, OnShift, BreakSound
    <3>2. PICK s : s = W[d] /\ SessionSound(s, d, m) /\ s.breaks = 0
      BY <1>14, <3>1 DEF SessionsSound
    <3>3. PICK r : r = Rested(s)
      OBVIOUS
    <3>4. SessionSound(r, d, m) /\ r.finalized = s.finalized
      BY <3>2, <3>3, RestedSound
    <3>5. r # None
      BY <3>4, SessionIsSome DEF SessionSound
    <3>6. x.sessions = [w.sessions EXCEPT ![a] = [W EXCEPT ![d] = r]]
      BY <1>6, <1>13, <2>2, <3>1, <3>2, <3>3
    <3>7. X = [W EXCEPT ![d] = r] /\ x.sessions = [c \in Agent |-> x.sessions[c]]
          /\ \A c \in Agent \ {a} : x.sessions[c] = w.sessions[c]
      BY <1>14, <1>15, <3>6
    <3>8. X[d] = r /\ X = [e \in Days |-> X[e]] /\ \A e \in Days : e # d => X[e] = W[e]
      BY <1>14, <3>7
    <3>9. SessionsSound(X, m)
      BY <1>14, <3>4, <3>8 DEF SessionsSound
    <3>10. QED BY <3>2, <3>4, <3>5, <3>7, <3>8, <3>9
  <2>3. QED BY <2>1, <2>2
<1>17. \A c \in Agent : x.sessions[c] = [d \in Days |-> x.sessions[c][d]]
  BY <1>14, <1>15, <1>16
<1>18. Basic(x)
  BY <1>6, <1>8, <1>11, <1>16, <1>17 DEF Basic, Rest
<1>19. Elsewhere(w, x, a)
  BY <1>6, <1>11, <1>16 DEF Elsewhere
<1>20. SettledSound(x, a)
  BY <1>6, <1>13, <1>15, <1>16 DEF SettledSound, Rest, AgentSound
<1>21. AgentSound(x, a, m)
  BY <1>11, <1>15, <1>16, <1>20 DEF AgentSound
<1>22. OwnWage(w, x, a)
  BY <1>6 DEF OwnWage, Rest
<1>23. QED BY <1>3, <1>6, <1>12, <1>18, <1>19, <1>21, <1>22 DEF Moves, Rest

LEMMA BehaviorKnown ==
  ASSUME NEW w, NEW a, NEW m, AgentSound(w, a, m)
  PROVE  w.act[a] = None \/ w.act[a].b \in Behavior
BY DEF AgentSound, ActionSound

LEMMA ProgressStep ==
  ASSUME NEW w, NEW a \in Agent, Basic(w), AgentSound(w, a, w.minute),
         NEW x, x = ProgressOne(w, a)
  PROVE  Moves(w, x, a) /\ AgentSound(x, a, w.minute)
<1>1. PICK m : m = w.minute
  OBVIOUS
<1>2. PICK y : y = ArriveIfDue(w, a)
  OBVIOUS
<1>3. Goes(w, y, a) /\ AgentSound(y, a, m)
  BY <1>1, <1>2, ArriveIfDueStep
<1>4. Basic(y) /\ y.minute = m
  BY <1>1, <1>3 DEF Goes, Turn, Rest
<1>5. PICK z : z = AlignIfDue(y, a)
  OBVIOUS
<1>6. Goes(y, z, a) /\ AgentSound(z, a, m)
  BY <1>3, <1>4, <1>5, AlignIfDueStep
<1>7. Basic(z) /\ z.minute = m
  BY <1>4, <1>6 DEF Goes, Turn, Rest
<1>8. Goes(w, z, a)
  BY <1>3, <1>6, GoesTwice
<1>9. Moves(w, z, a)
  BY <1>8, GoesMoves, BehaviorKnown
<1>10. x = IF Performing(z, a) /\ z.minute >= z.act[a].end THEN Resolve(z, a) ELSE z
  BY <1>2, <1>5 DEF ProgressOne, ResolveIfDue
<1>11. CASE x = z
  BY <1>1, <1>6, <1>9, <1>11
<1>12. CASE x = Resolve(z, a) /\ z.act[a] # None
  <2>1. Moves(z, x, a) /\ AgentSound(x, a, m)
    BY <1>6, <1>7, <1>12, ResolveStep
  <2>2. Moves(w, x, a)
    BY <1>6, <1>9, <2>1, MovesTwice, BehaviorKnown
  <2>3. QED BY <1>1, <2>1, <2>2
<1>13. QED BY <1>10, <1>11, <1>12 DEF Performing, Busy

-----------------------------------------------------------------------------
(* Shifts end.                                                             *)

Closed(s) == [s EXCEPT !.finalized = TRUE, !.paid = Attended(s)]

LEMMA ClosedSound ==
  ASSUME NEW s, NEW d, NEW m, SessionSound(s, d, m), NEW r, r = Closed(s)
  PROVE  /\ SessionSound(r, d, m)
         /\ r.first = s.first /\ r.breaks = s.breaks /\ r.finalized = TRUE
<1>1. PICK b, e, ef, br :
         b = d * DayLength + ShiftStart /\ e = d * DayLength + ShiftEnd
         /\ ef = s.effective /\ br = s.breaks
  OBVIOUS
<1>2. PICK si, sd, sl, fn, pd :
         si = s.first /\ sd = s.started /\ sl = s.late /\ fn = s.finalized /\ pd = s.paid
  OBVIOUS
<1>3. s = [start |-> b, end |-> e, grace |-> Grace, effective |-> ef, first |-> si,
           started |-> sd, late |-> sl, finalized |-> fn, paid |-> pd, breaks |-> br]
  BY <1>1, <1>2 DEF SessionSound, SessionShape
<1>4. PICK p : p = Attended(s)
  OBVIOUS
<1>5. r = [start |-> b, end |-> e, grace |-> Grace, effective |-> ef, first |-> si,
           started |-> sd, late |-> sl, finalized |-> TRUE, paid |-> p, breaks |-> br]
  BY <1>3, <1>4 DEF Closed
<1>6. /\ SessionShape(r, d) /\ r.breaks = s.breaks
      /\ r.effective = s.effective /\ r.first = s.first /\ r.finalized = TRUE
  BY <1>1, <1>2, <1>5 DEF SessionShape
<1>7. QED BY <1>6 DEF SessionSound

LEMMA BurdenSame ==
  ASSUME NEW w, NEW a, NEW d, Context(w)
  PROVE  Same(w, Burden(w, a, d))
<1> DEFINE y == Stage(w, Event("COWORKER_EXTRA_LOAD", a, d, "none"))
           f == [c \in Agent |-> [b \in Agent |->
                   IF c \in Coworkers(a) /\ b = a THEN Down(TensionMax, y.tension[c][b] + 1)
                                                  ELSE y.tension[c][b]]]
           z == [y EXCEPT !.tension = f]
<1>1. Same(w, w)
  BY DEF Same, Rest, Accounts
<1>2. Burden(w, a, d) = IF Coworkers(a) = {} THEN w ELSE z
  BY DEF Burden
<1>3. Same(w, y)
  BY StageSame
<1>4. Same(y, z)
  <2> HIDE DEF y, f
  <2>1. z = [minute |-> y.minute, needs |-> y.needs, at |-> y.at, act |-> y.act,
       recent |-> y.recent, money |-> y.money, food |-> y.food,
       sessions |-> y.sessions, settled |-> y.settled, repaid |-> y.repaid,
       crises |-> y.crises, low |-> y.low, tension |-> f, told |-> y.told]
    BY <1>3 DEF Same, Context
  <2> HIDE DEF z
  <2>2. QED BY <2>1 DEF Same, Context, Rest, Accounts
<1> HIDE DEF y, f, z
<1>5. QED BY <1>1, <1>2, <1>3, <1>4, SameTwice

(* The wage of a day.                                                      *)
Paid(w, a, d) ==
  [w EXCEPT !.money[Member[a]] = @ + Wage, !.settled = @ \cup {<<a, d>>},
           !.repaid = FALSE]

LEMMA PaidStep ==
  ASSUME NEW w, NEW a \in Agent, NEW d \in Days, NEW m, Basic(w), AgentSound(w, a, m),
         w.sessions[a][d] # None, w.sessions[a][d].finalized = TRUE,
         NEW x, x = Paid(w, a, d)
  PROVE  Moves(w, x, a) /\ AgentSound(x, a, m)
<1>1. PICK h \in Household : h = Member[a]
  BY SocietyDayConstants
<1>2. PICK M, S : M = [w.money EXCEPT ![h] = @ + Wage] /\ S = w.settled \cup {<<a, d>>}
  OBVIOUS
<1>3. x = [minute |-> w.minute, needs |-> w.needs, at |-> w.at, act |-> w.act,
       recent |-> w.recent, money |-> M, food |-> w.food,
       sessions |-> w.sessions, settled |-> S, repaid |-> FALSE,
       crises |-> w.crises, low |-> w.low, tension |-> w.tension, told |-> w.told]
  BY <1>1, <1>2 DEF Paid, Basic, Context
<1>4. /\ Context(x) /\ x.minute = w.minute /\ x.repaid = FALSE
      /\ x.at = w.at /\ x.act = w.act /\ x.sessions = w.sessions /\ x.food = w.food
      /\ x.money = M /\ x.settled = S
  BY <1>3 DEF Context
<1>5. w.money \in [Household -> Int] /\ w.food \in [Household -> Int] /\ Wage \in Nat
  BY SocietyDayConstants DEF Basic
<1>6. /\ x.money \in [Household -> Int]
      /\ \A k \in Household : x.money[k] >= w.money[k] /\ x.food[k] = w.food[k]
  <2>1. M \in [Household -> Int] /\ M[h] = w.money[h] + Wage
        /\ \A k \in Household : k # h => M[k] = w.money[k]
    BY <1>2, <1>5
  <2>2. \A k \in Household : w.money[k] \in Int
    BY <1>5
  <2>3. w.money[h] + Wage >= w.money[h]
    BY <1>5, <2>2
  <2>4. \A k \in Household : M[k] >= w.money[k]
    BY <2>1, <2>2, <2>3
  <2>5. QED BY <1>4, <2>1, <2>4
<1>7. Basic(x)
  BY <1>4, <1>6 DEF Basic
<1>8. Elsewhere(w, x, a)
  BY <1>4 DEF Elsewhere
<1>9. Booked(w, x, a)
  <2>1. PriceOf(w.act[a]) \in Nat /\ FoodOf(w.act[a]) \in Nat
    BY PricesKnown, BehaviorKnown
  <2>2. PriceOf(x.act[a]) = PriceOf(w.act[a]) /\ FoodOf(x.act[a]) = FoodOf(w.act[a])
    BY <1>4
  <2>3. \A k \in Household : x.money[k] \in Int /\ w.money[k] \in Int /\ w.food[k] \in Int
    BY <1>5, <1>6
  <2>4. ASSUME NEW k \in Household
        PROVE  /\ x.money[k] - w.money[k] >= 0 /\ x.food[k] - w.food[k] >= 0
    BY <1>6, <2>3
  <2>5. PriceOf(x.act[a]) - PriceOf(w.act[a]) = 0 /\ FoodOf(x.act[a]) - FoodOf(w.act[a]) = 0
    BY <2>1, <2>2
  <2>6. QED BY <2>4, <2>5 DEF Booked
<1>10. OwnWage(w, x, a)
  <2>1. ASSUME NEW c \in Agent, c # a, NEW e, <<c, e>> \in x.settled
        PROVE  <<c, e>> \in w.settled
    <3>1. <<c, e>> # <<a, d>>
      BY <2>1
    <3>2. QED BY <1>2, <1>4, <2>1, <3>1
  <2>2. QED BY <2>1 DEF OwnWage
<1>11. SettledSound(x, a)
  <2>1. ASSUME NEW e, <<a, e>> \in x.settled
        PROVE  e \in Days /\ x.sessions[a][e] # None /\ x.sessions[a][e].finalized = TRUE
    <3>1. CASE <<a, e>> \in w.settled
      BY <1>4, <3>1 DEF AgentSound, SettledSound
    <3>2. CASE <<a, e>> = <<a, d>>
      BY <1>4, <3>2
    <3>3. QED BY <1>2, <1>4, <2>1, <3>1, <3>2
  <2>2. QED BY <2>1 DEF SettledSound
<1>12. QED BY <1>4, <1>7, <1>8, <1>9, <1>10, <1>11 DEF Moves, AgentSound

LEMMA SameStep ==
  ASSUME NEW w, NEW a \in Agent, NEW m, Basic(w), AgentSound(w, a, m), NEW x, Same(w, x)
  PROVE  Moves(w, x, a) /\ AgentSound(x, a, m)
<1>1. Goes(w, x, a) /\ AgentSound(x, a, m)
  BY SameTurn, SameSound
<1>2. QED BY <1>1, GoesMoves, BehaviorKnown

(* _finalize_work_sessions                                                 *)
LEMMA FinalizeStep ==
  ASSUME NEW w, NEW a \in Agent, Basic(w), AgentSound(w, a, w.minute),
         NEW x, x = FinalizeOne(w, a)
  PROVE  Moves(w, x, a) /\ AgentSound(x, a, w.minute)
<1>1. PICK m : m = w.minute
  OBVIOUS
<1>2. PICK d \in Days : d = w.minute \div DayLength
  BY TodayInDays DEF Basic
<1>3. PICK opened : opened = Opened(w, a, d)
  OBVIOUS
<1>4. AgentSound(w, a, m)
  BY <1>1
<1>5. /\ Goes(w, opened, a) /\ opened.act[a] = w.act[a] /\ AgentSound(opened, a, m)
      /\ opened.sessions[a][d] # None
  BY <1>3, <1>4, OpenedSound
<1>6. Basic(opened) /\ opened.settled = w.settled
  BY <1>5 DEF Goes, Turn, Rest
<1>7. Moves(w, opened, a)
  BY <1>5, GoesMoves, BehaviorKnown
<1>8. PICK s : s = opened.sessions[a][d]
  OBVIOUS
<1>9. SessionSound(s, d, m) /\ s # None
  BY <1>5, <1>8 DEF AgentSound, SessionsSound
<1>10. PICK r : r = Closed(s)
  OBVIOUS
<1>11. /\ SessionSound(r, d, m)
       /\ r.first = s.first /\ r.breaks = s.breaks /\ r.finalized = TRUE
  BY <1>9, <1>10, ClosedSound
<1>12. PICK closed : closed = SetSession(opened, a, d, r)
  OBVIOUS
<1>13. closed = [opened EXCEPT !.sessions[a][d].finalized = TRUE,
                               !.sessions[a][d].paid = Attended(s)]
  BY <1>6, <1>8, <1>10, <1>12 DEF SetSession, Closed, Basic, Context
<1>14. Respects(opened.sessions[a][d], r, opened.act[a], d)
  <2>1. PICK t : t = opened.act[a]
    OBVIOUS
  <2>2. ASSUME t # None, t.b = "take_break", t.day = d PROVE BreakSound(t, r)
    <3>1. BreakSound(t, s)
      BY <1>5, <1>8, <2>1, <2>2 DEF AgentSound, ActionSound
    <3>2. QED BY <1>11, <3>1 DEF BreakSound
  <2>3. QED BY <1>8, <1>11, <2>1, <2>2 DEF Respects
<1>15. Goes(opened, closed, a) /\ AgentSound(closed, a, m) /\ closed.sessions[a][d] = r
  BY <1>5, <1>6, <1>11, <1>12, <1>14, SessionChanges
<1>16. Basic(closed) /\ closed.settled = w.settled
  BY <1>6, <1>15 DEF Goes, Turn, Rest
<1>17. Moves(opened, closed, a)
  BY <1>5, <1>6, <1>15, GoesMoves, BehaviorKnown
<1>18. Moves(w, closed, a)
  BY <1>4, <1>5, <1>7, <1>15, <1>17, MovesTwice, BehaviorKnown
<1>19. CASE ~(Scheduled(d) /\ AtShiftEnd(w, d))
  <2>1. x = w
    BY <1>2, <1>19 DEF FinalizeOne
  <2>2. Moves(w, w, a)
    BY GoesNowhere, GoesMoves, BehaviorKnown
  <2>3. QED BY <1>1, <1>4, <2>1, <2>2
<1>20. CASE Scheduled(d) /\ AtShiftEnd(w, d) /\ s.finalized
  <2>1. x = opened
    BY <1>2, <1>3, <1>8, <1>20 DEF FinalizeOne
  <2>2. QED BY <1>1, <1>5, <1>7, <2>1
<1>21. CASE Scheduled(d) /\ AtShiftEnd(w, d) /\ ~s.finalized /\ Attended(s)
  <2>1. <<a, d>> \notin w.settled
    <3>1. <<a, d>> \in opened.settled => s.finalized = TRUE
      BY <1>5, <1>8 DEF AgentSound, SettledSound
    <3>2. QED BY <1>6, <1>21, <3>1
  <2>2. PICK paid : paid = Paid(closed, a, d)
    OBVIOUS
  <2>3. r # None
    BY <1>11, SessionIsSome DEF SessionSound
  <2>4. closed.sessions[a][d] # None /\ closed.sessions[a][d].finalized = TRUE
    BY <1>11, <1>15, <2>3
  <2>5. AgentSound(closed, a, m)
    BY <1>15
  <2>6. Moves(closed, paid, a) /\ AgentSound(paid, a, m)
    BY <1>16, <2>2, <2>4, <2>5, PaidStep
  <2>7. Basic(paid)
    BY <2>6 DEF Moves
  <2>8. paid = [[closed EXCEPT !.money[Member[a]] = @ + Wage, !.settled = @ \cup {<<a, d>>}]
                  EXCEPT !.repaid = @ \/ <<a, d>> \in w.settled]
    <3>1. closed.repaid = FALSE
      BY <1>16 DEF Basic
    <3>2. (closed.repaid \/ <<a, d>> \in w.settled) = FALSE
      BY <2>1, <3>1
    <3>3. PICK P : P = [closed EXCEPT !.money[Member[a]] = @ + Wage, !.settled = @ \cup {<<a, d>>}]
      OBVIOUS
    <3>4. P.repaid = closed.repaid
      BY <1>16, <3>3 DEF Basic, Context
    <3>5. [P EXCEPT !.repaid = @ \/ <<a, d>> \in w.settled] = [P EXCEPT !.repaid = FALSE]
      BY <3>2, <3>4
    <3>6. paid = [P EXCEPT !.repaid = FALSE]
      BY <1>16, <2>2, <3>3 DEF Paid, Basic, Context
    <3>7. QED BY <3>3, <3>5, <3>6
  <2>9. x = Stage(paid, Event("WORK_COMPLETED", a, d, "none"))
    BY <1>2, <1>3, <1>8, <1>13, <1>21, <2>8 DEF FinalizeOne
  <2>10. Same(paid, x)
    BY <2>7, <2>9, StageSame DEF Basic
  <2>11. Moves(paid, x, a) /\ AgentSound(x, a, m)
    BY <2>6, <2>7, <2>10, SameStep
  <2>12. Moves(w, paid, a)
    BY <1>4, <1>15, <1>18, <2>6, MovesTwice, BehaviorKnown
  <2>13. Moves(w, x, a)
    BY <1>4, <2>6, <2>11, <2>12, MovesTwice, BehaviorKnown
  <2>14. QED BY <1>1, <2>11, <2>13
<1>22. CASE Scheduled(d) /\ AtShiftEnd(w, d) /\ ~s.finalized /\ ~Attended(s)
  <2>1. PICK y : y = Stage(closed, Event("WORK_MISSED", a, d, "none"))
    OBVIOUS
  <2>2. Same(closed, y)
    BY <1>16, <2>1, StageSame DEF Basic
  <2>3. x = Burden(y, a, d)
    BY <1>2, <1>3, <1>8, <1>13, <1>22, <2>1 DEF FinalizeOne
  <2>4. Same(y, x)
    BY <2>2, <2>3, BurdenSame DEF Same
  <2>5. Same(closed, x)
    BY <2>2, <2>4, SameTwice
  <2>6. Moves(closed, x, a) /\ AgentSound(x, a, m)
    BY <1>15, <1>16, <2>5, SameStep
  <2>7. Moves(w, x, a)
    BY <1>4, <1>15, <1>18, <2>6, MovesTwice, BehaviorKnown
  <2>8. QED BY <1>1, <2>6, <2>7
<1>23. QED BY <1>19, <1>20, <1>21, <1>22

-----------------------------------------------------------------------------
(* What is held is covered.                                                *)

Priced(w) == [c \in Agent |-> PriceOf(w.act[c])]
Fed(w) == [c \in Agent |-> FoodOf(w.act[c])]
Known(w) == \A c \in Agent : w.act[c] = None \/ w.act[c].b \in Behavior

LEMMA HouseholdFinite ==
  ASSUME NEW h
  PROVE  IsFiniteSet(InHousehold(h)) /\ InHousehold(h) \subseteq Agent
<1>1. InHousehold(h) \in SUBSET Agent
  BY DEF InHousehold
<1>2. QED BY <1>1, FS_Subset, SocietyDayConstants

LEMMA PricedType ==
  ASSUME NEW w, Known(w)
  PROVE  Priced(w) \in [Agent -> Nat] /\ Fed(w) \in [Agent -> Nat]
<1>1. \A c \in Agent : PriceOf(w.act[c]) \in Nat /\ FoodOf(w.act[c]) \in Nat
  BY PricesKnown DEF Known
<1>2. QED BY <1>1 DEF Priced, Fed

LEMMA MoneyTotal ==
  ASSUME NEW w, NEW h
  PROVE  HeldMoney(w, h) = Total(Priced(w), InHousehold(h))
<1>1. PICK S : S = InHousehold(h)
  OBVIOUS
<1>2. IsFiniteSet(S) /\ S \subseteq Agent
  BY <1>1, HouseholdFinite
<1>3. PICK g : Adds(g, Priced(w), S)
  BY <1>2, AddsExists
<1>4. \A s \in SUBSET S : s # {} => Next1(s) \in Agent
  BY <1>2 DEF Next1
<1>5. \A s \in SUBSET S : s # {} =>
        Priced(w)[Next1(s)] = IF Busy(w, Next1(s)) THEN Catalog[w.act[Next1(s)].b].price ELSE 0
  BY <1>4 DEF Priced, PriceOf, Busy
<1>6. g = [s \in SUBSET S |-> IF s = {} THEN 0
             ELSE (IF Busy(w, Next1(s)) THEN Catalog[w.act[Next1(s)].b].price ELSE 0)
                    + g[s \ {Next1(s)}]]
  BY <1>3, <1>5 DEF Adds
<1>7. DEFINE iter == CHOOSE it : it = [s \in SUBSET S |-> IF s = {} THEN 0
             ELSE (IF Busy(w, Next1(s)) THEN Catalog[w.act[Next1(s)].b].price ELSE 0)
                    + it[s \ {Next1(s)}]]
<1>8. iter = [s \in SUBSET S |-> IF s = {} THEN 0
             ELSE (IF Busy(w, Next1(s)) THEN Catalog[w.act[Next1(s)].b].price ELSE 0)
                    + iter[s \ {Next1(s)}]]
  BY <1>6
<1>9. HeldMoney(w, h) = iter[S]
  BY <1>1 DEF HeldMoney, MapThenSumSet, MapThenFoldSet, Next1
<1>10. Adds(iter, Priced(w), S)
  <2> HIDE DEF iter
  <2> QED BY <1>5, <1>8 DEF Adds
<1> HIDE DEF iter
<1>11. QED BY <1>1, <1>2, <1>9, <1>10, AddsTotal

LEMMA FoodTotal ==
  ASSUME NEW w, NEW h
  PROVE  HeldFood(w, h) = Total(Fed(w), InHousehold(h))
<1>1. PICK S : S = InHousehold(h)
  OBVIOUS
<1>2. IsFiniteSet(S) /\ S \subseteq Agent
  BY <1>1, HouseholdFinite
<1>3. PICK g : Adds(g, Fed(w), S)
  BY <1>2, AddsExists
<1>4. \A s \in SUBSET S : s # {} => Next1(s) \in Agent
  BY <1>2 DEF Next1
<1>5. \A s \in SUBSET S : s # {} =>
        Fed(w)[Next1(s)] = IF Busy(w, Next1(s)) THEN Catalog[w.act[Next1(s)].b].food ELSE 0
  BY <1>4 DEF Fed, FoodOf, Busy
<1>6. g = [s \in SUBSET S |-> IF s = {} THEN 0
             ELSE (IF Busy(w, Next1(s)) THEN Catalog[w.act[Next1(s)].b].food ELSE 0)
                    + g[s \ {Next1(s)}]]
  BY <1>3, <1>5 DEF Adds
<1>7. DEFINE iter == CHOOSE it : it = [s \in SUBSET S |-> IF s = {} THEN 0
             ELSE (IF Busy(w, Next1(s)) THEN Catalog[w.act[Next1(s)].b].food ELSE 0)
                    + it[s \ {Next1(s)}]]
<1>8. iter = [s \in SUBSET S |-> IF s = {} THEN 0
             ELSE (IF Busy(w, Next1(s)) THEN Catalog[w.act[Next1(s)].b].food ELSE 0)
                    + iter[s \ {Next1(s)}]]
  BY <1>6
<1>9. HeldFood(w, h) = iter[S]
  BY <1>1 DEF HeldFood, MapThenSumSet, MapThenFoldSet, Next1
<1>10. Adds(iter, Fed(w), S)
  <2> HIDE DEF iter
  <2> QED BY <1>5, <1>8 DEF Adds
<1> HIDE DEF iter
<1>11. QED BY <1>1, <1>2, <1>9, <1>10, AddsTotal

(* A total in which one number is another.                                 *)
LEMMA TotalChanges ==
  ASSUME NEW f \in [Agent -> Nat], NEW g \in [Agent -> Nat], NEW a \in Agent,
         \A c \in Agent \ {a} : g[c] = f[c], NEW S, IsFiniteSet(S), S \subseteq Agent
  PROVE  /\ Total(f, S) \in Nat /\ Total(g, S) \in Nat
         /\ Total(g, S) = Total(f, S) + (IF a \in S THEN g[a] - f[a] ELSE 0)
<1>0. f \in [Agent -> Int] /\ g \in [Agent -> Int] /\ f[a] \in Nat /\ g[a] \in Nat
  OBVIOUS
<1>1. Total(f, S) \in Nat /\ Total(g, S) \in Nat
  BY TotalType
<1>2. CASE a \notin S
  <2>1. \A c \in S : f[c] = g[c]
    BY <1>2
  <2>2. Total(f, S) = Total(g, S)
    BY <2>1, TotalSame
  <2>3. QED BY <1>1, <1>2, <2>2
<1>3. CASE a \in S
  <2>1. PICK T : T = S \ {a}
    OBVIOUS
  <2>2. IsFiniteSet(T) /\ T \subseteq Agent /\ \A c \in T : f[c] = g[c]
    BY <2>1, FS_RemoveElement
  <2>3. Total(f, T) = Total(g, T) /\ Total(f, T) \in Nat
    BY <2>2, TotalSame, TotalType
  <2>4. Total(f, S) = f[a] + Total(f, T)
    BY <1>0, <1>3, <2>1, TotalTake
  <2>5. Total(g, S) = g[a] + Total(g, T)
    BY <1>0, <1>3, <2>1, TotalTake
  <2>6. QED BY <1>0, <1>1, <1>3, <2>3, <2>4, <2>5
<1>4. QED BY <1>2, <1>3

LEMMA HeldChanges ==
  ASSUME NEW w, NEW x, NEW a \in Agent, Known(w), Known(x), Elsewhere(w, x, a),
         NEW h \in Household
  PROVE  /\ HeldMoney(w, h) \in Nat /\ HeldMoney(x, h) \in Nat
         /\ HeldFood(w, h) \in Nat /\ HeldFood(x, h) \in Nat
         /\ HeldMoney(x, h) = HeldMoney(w, h)
              + (IF Member[a] = h THEN PriceOf(x.act[a]) - PriceOf(w.act[a]) ELSE 0)
         /\ HeldFood(x, h) = HeldFood(w, h)
              + (IF Member[a] = h THEN FoodOf(x.act[a]) - FoodOf(w.act[a]) ELSE 0)
<1>1. PICK S : S = InHousehold(h)
  OBVIOUS
<1>2. IsFiniteSet(S) /\ S \subseteq Agent /\ (a \in S <=> Member[a] = h)
  BY <1>1, HouseholdFinite DEF InHousehold
<1>3. PICK f, g, k, l : f = Priced(w) /\ g = Priced(x) /\ k = Fed(w) /\ l = Fed(x)
  OBVIOUS
<1>4. f \in [Agent -> Nat] /\ g \in [Agent -> Nat] /\ k \in [Agent -> Nat] /\ l \in [Agent -> Nat]
  BY <1>3, PricedType
<1>5. /\ \A c \in Agent \ {a} : g[c] = f[c] /\ l[c] = k[c]
      /\ f[a] = PriceOf(w.act[a]) /\ g[a] = PriceOf(x.act[a])
      /\ k[a] = FoodOf(w.act[a]) /\ l[a] = FoodOf(x.act[a])
  BY <1>3 DEF Elsewhere, Priced, Fed
<1>6. /\ Total(f, S) \in Nat /\ Total(g, S) \in Nat
      /\ Total(g, S) = Total(f, S) + (IF a \in S THEN g[a] - f[a] ELSE 0)
  BY <1>2, <1>4, <1>5, TotalChanges
<1>7. /\ Total(k, S) \in Nat /\ Total(l, S) \in Nat
      /\ Total(l, S) = Total(k, S) + (IF a \in S THEN l[a] - k[a] ELSE 0)
  BY <1>2, <1>4, <1>5, TotalChanges
<1>8. /\ HeldMoney(w, h) = Total(f, S) /\ HeldMoney(x, h) = Total(g, S)
      /\ HeldFood(w, h) = Total(k, S) /\ HeldFood(x, h) = Total(l, S)
  BY <1>1, <1>3, MoneyTotal, FoodTotal
<1>9. QED BY <1>2, <1>5, <1>6, <1>7, <1>8

(* A move leaves what is held covered, and everyone sound.                 *)
LEMMA MoveCovered ==
  ASSUME NEW w, NEW x, NEW a \in Agent, Basic(w), Covered(w), Known(w), Known(x),
         Moves(w, x, a)
  PROVE  Covered(x)
<1>1. ASSUME NEW h \in Household
      PROVE  HeldMoney(x, h) <= x.money[h] /\ HeldFood(x, h) <= x.food[h]
  <2>1. PICK p, f : /\ p = IF Member[a] = h THEN PriceOf(x.act[a]) - PriceOf(w.act[a]) ELSE 0
                    /\ f = IF Member[a] = h THEN FoodOf(x.act[a]) - FoodOf(w.act[a]) ELSE 0
    OBVIOUS
  <2>2. p \in Int /\ f \in Int
    BY <2>1, PricesKnown DEF Known
  <2>3. /\ HeldMoney(w, h) \in Nat /\ HeldMoney(x, h) \in Nat
        /\ HeldFood(w, h) \in Nat /\ HeldFood(x, h) \in Nat
        /\ HeldMoney(x, h) = HeldMoney(w, h) + p
        /\ HeldFood(x, h) = HeldFood(w, h) + f
    BY <2>1, HeldChanges DEF Moves
  <2>4. x.money[h] - w.money[h] >= p /\ x.food[h] - w.food[h] >= f
    BY <2>1 DEF Moves, Booked
  <2>5. /\ w.money[h] \in Int /\ w.food[h] \in Int
        /\ x.money[h] \in Int /\ x.food[h] \in Int
    BY DEF Moves, Basic
  <2>6. HeldMoney(w, h) <= w.money[h] /\ HeldFood(w, h) <= w.food[h]
    BY DEF Covered
  <2>7. QED BY <2>2, <2>3, <2>4, <2>5, <2>6
<1>2. QED BY <1>1 DEF Covered

LEMMA MoveOthers ==
  ASSUME NEW w, NEW x, NEW a \in Agent, Moves(w, x, a), NEW m,
         NEW c \in Agent, c # a, AgentSound(w, c, m)
  PROVE  AgentSound(x, c, m)
<1>1. x.act[c] = w.act[c] /\ x.sessions[c] = w.sessions[c]
      /\ \A d : <<c, d>> \in x.settled => <<c, d>> \in w.settled
  BY DEF Moves, Elsewhere, OwnWage
<1>2. QED BY <1>1 DEF AgentSound, SettledSound

LEMMA MoveSound ==
  ASSUME NEW w, NEW x, NEW a \in Agent, Sound(w), Moves(w, x, a),
         AgentSound(x, a, w.minute)
  PROVE  Sound(x)
<1>1. PICK m : m = w.minute /\ x.minute = m
  BY DEF Moves
<1>2. \A c \in Agent : AgentSound(w, c, m)
  BY <1>1 DEF Sound
<1>3. \A c \in Agent : AgentSound(x, c, m)
  BY <1>1, <1>2, MoveOthers
<1>4. Known(w) /\ Known(x)
  BY <1>2, <1>3, BehaviorKnown DEF Known
<1>5. Covered(x)
  BY <1>4, MoveCovered DEF Sound
<1>6. QED BY <1>1, <1>3, <1>5 DEF Sound, Moves

(* What changes nothing of it leaves a context sound.                      *)
LEMMA SameContextSound ==
  ASSUME NEW w, NEW x, Sound(w), Same(w, x)
  PROVE  Sound(x)
<1>1. Basic(x) /\ x.minute = w.minute
  BY SameBasic DEF Sound, Same, Rest
<1>2. \A c \in Agent : AgentSound(x, c, x.minute)
  BY <1>1, SameSound DEF Sound
<1>3. x.act = w.act /\ x.money = w.money /\ x.food = w.food
  BY DEF Same, Accounts
<1>4. Priced(x) = Priced(w) /\ Fed(x) = Fed(w)
  BY <1>3 DEF Priced, Fed
<1>5. \A h \in Household : HeldMoney(x, h) = HeldMoney(w, h) /\ HeldFood(x, h) = HeldFood(w, h)
  BY <1>4, MoneyTotal, FoodTotal
<1>6. QED BY <1>1, <1>2, <1>3, <1>5 DEF Sound, Covered

-----------------------------------------------------------------------------
(* A minute up to the decisions.                                           *)

AgentCount == Cardinality(Agent)

LEMMA Agents ==
  /\ AgentCount \in Nat /\ DOMAIN AgentOrder = 1 .. AgentCount
  /\ InOrder(AgentOrder, Agent, AgentCount)
BY SeqOfAll, SocietyDayConstants DEF AgentOrder, AgentCount

NewMinute(w) == [w EXCEPT !.minute = @ + 1, !.told = <<>>]

LEMMA NextMinute ==
  ASSUME NEW w, Sound(w), w.minute < MaxMinute,
         NEW x, x = NewMinute(w)
  PROVE  /\ Basic(x) /\ Covered(x) /\ x.minute \in Nat
         /\ \A a \in Agent : AgentSound(x, a, x.minute - 1)
<1>1. PICK m, nothing : m = w.minute + 1 /\ nothing = <<>>
  OBVIOUS
<1>2. x = [minute |-> m, needs |-> w.needs, at |-> w.at, act |-> w.act,
       recent |-> w.recent, money |-> w.money, food |-> w.food,
       sessions |-> w.sessions, settled |-> w.settled, repaid |-> w.repaid,
       crises |-> w.crises, low |-> w.low, tension |-> w.tension, told |-> nothing]
  BY <1>1 DEF NewMinute, Sound, Basic, Context
<1>3. /\ Context(x) /\ x.minute = m /\ x.at = w.at /\ x.act = w.act
      /\ x.money = w.money /\ x.food = w.food /\ x.sessions = w.sessions
      /\ x.settled = w.settled /\ x.repaid = w.repaid
  BY <1>2 DEF Context
<1>4. w.minute \in 0 .. MaxMinute /\ MaxMinute \in Nat
  BY SocietyDayConstants DEF Sound, Basic
<1>5. m \in 0 .. MaxMinute /\ m \in Nat /\ x.minute - 1 = w.minute
  BY <1>1, <1>3, <1>4
<1>6. Basic(x)
  BY <1>3, <1>5 DEF Sound, Basic
<1>7. Priced(x) = Priced(w) /\ Fed(x) = Fed(w)
  BY <1>3 DEF Priced, Fed
<1>8. \A h \in Household : HeldMoney(x, h) = HeldMoney(w, h) /\ HeldFood(x, h) = HeldFood(w, h)
  BY <1>7, MoneyTotal, FoodTotal
<1>9. Covered(x)
  BY <1>3, <1>8 DEF Sound, Covered
<1>10. \A a \in Agent : AgentSound(w, a, w.minute)
  BY DEF Sound
<1>11. \A a \in Agent : AgentSound(x, a, w.minute)
  BY <1>3, <1>10 DEF AgentSound, SettledSound
<1>12. QED BY <1>3, <1>5, <1>6, <1>9, <1>11

(* The first i agents have felt the minute.                                *)
FeltSome(x, m, i) ==
  /\ Basic(x) /\ Covered(x) /\ x.minute = m
  /\ \A j \in 1 .. AgentCount :
       AgentSound(x, AgentOrder[j], IF j <= i THEN m ELSE m - 1)

LEMMA FeltNext ==
  ASSUME NEW x, NEW m \in Nat, NEW i \in 1 .. AgentCount, FeltSome(x, m, i - 1),
         NEW y, y = Feel(x, AgentOrder[i])
  PROVE  FeltSome(y, m, i)
<1>1. PICK n \in Nat : n = AgentCount
  BY Agents
<1>2. PICK q : q = AgentOrder
  OBVIOUS
<1>3. q \in [1 .. n -> Agent] /\ \A j, k \in 1 .. n : q[j] = q[k] => j = k
  BY <1>1, <1>2, Agents DEF InOrder
<1>4. PICK a \in Agent : a = q[i]
  BY <1>1, <1>3
<1>5. \A j \in 1 .. n : AgentSound(x, q[j], IF j <= i - 1 THEN m ELSE m - 1)
  BY <1>1, <1>2 DEF FeltSome
<1>6. ~(i <= i - 1)
  BY <1>1
<1>7. AgentSound(x, a, m - 1)
  BY <1>1, <1>4, <1>5, <1>6
<1>8. Basic(x) /\ Covered(x) /\ x.minute = m
  BY DEF FeltSome
<1>9. Goes(x, y, a) /\ AgentSound(y, a, m)
  BY <1>2, <1>4, <1>7, <1>8, FeelStep
<1>10. Moves(x, y, a)
  BY <1>7, <1>8, <1>9, GoesMoves, BehaviorKnown
<1>11. \A c \in Agent : \E k : AgentSound(x, c, k)
  BY <1>1, <1>2, <1>5, Agents DEF InOrder
<1>12. \A c \in Agent : c # a => \E k : AgentSound(y, c, k)
  BY <1>10, <1>11, MoveOthers
<1>13. Known(x) /\ Known(y)
  BY <1>9, <1>11, <1>12, BehaviorKnown DEF Known
<1>14. Covered(y)
  BY <1>8, <1>10, <1>13, MoveCovered
<1>15. ASSUME NEW j \in 1 .. n PROVE AgentSound(y, q[j], IF j <= i THEN m ELSE m - 1)
  <2>1. CASE j = i
    BY <1>1, <1>4, <1>9, <2>1
  <2>2. CASE j # i
    <3>1. q[j] \in Agent /\ q[j] # a
      BY <1>1, <1>3, <1>4, <2>2
    <3>2. (j <= i) <=> (j <= i - 1)
      BY <1>1, <2>2
    <3>3. AgentSound(x, q[j], IF j <= i THEN m ELSE m - 1)
      BY <1>5, <3>2
    <3>4. QED BY <1>10, <3>1, <3>3, MoveOthers
  <2>3. QED BY <2>1, <2>2
<1>16. Basic(y) /\ y.minute = m
  BY <1>8, <1>10 DEF Moves
<1>17. QED BY <1>1, <1>2, <1>14, <1>15, <1>16 DEF FeltSome

LEMMA FeltAll ==
  ASSUME NEW w, Basic(w), Covered(w), w.minute \in Nat,
         \A a \in Agent : AgentSound(w, a, w.minute - 1)
  PROVE  Sound(ApplyNeedChanges(w))
<1>1. PICK m \in Nat : m = w.minute
  OBVIOUS
<1>2. PICK n \in Nat : n = AgentCount
  BY Agents
<1>3. PICK q : q = AgentOrder
  OBVIOUS
<1>4. DOMAIN q = 1 .. n /\ InOrder(q, Agent, n)
  BY <1>2, <1>3, Agents
<1>5. PICK st : Trace(st, FeelKey, w, q, n) /\ ApplyNeedChanges(w) = st[n]
  BY <1>3, <1>4, FeelFold
<1>6. DEFINE S == {i \in 0 .. n : FeltSome(st[i], m, i)}
<1>7. 0 \in S
  <2>1. \A j \in 1 .. n : ~(j <= 0) /\ q[j] \in Agent
    BY <1>4 DEF InOrder
  <2>2. FeltSome(w, m, 0)
    BY <1>1, <1>2, <1>3, <2>1 DEF FeltSome
  <2>3. QED BY <1>5, <2>2 DEF Trace
<1>8. ASSUME NEW i \in 0 .. n, i # n, i \in S PROVE i + 1 \in S
  <2>1. PICK k \in 1 .. n : k = i + 1 /\ k - 1 = i
    BY <1>8
  <2>2. st[k] = OneStep(FeelKey, st[k - 1], q[k])
    BY <1>5, <2>1 DEF Trace
  <2>3. st[k] = Feel(st[i], AgentOrder[k])
    BY <1>3, <2>1, <2>2, Keys
  <2>4. FeltSome(st[i], m, k - 1)
    BY <1>8, <2>1
  <2>5. FeltSome(st[k], m, k)
    BY <1>2, <2>3, <2>4, FeltNext
  <2>6. QED BY <2>1, <2>5
<1>9. \A i \in 0 .. n : i \in S
  <2> HIDE DEF S
  <2> QED BY <1>7, <1>8, StepByStep
<1>10. FeltSome(st[n], m, n)
  BY <1>9
<1>11. \A a \in Agent : AgentSound(st[n], a, m)
  <2>1. ASSUME NEW a \in Agent PROVE AgentSound(st[n], a, m)
    <3>1. PICK j \in 1 .. n : q[j] = a
      BY <1>4 DEF InOrder
    <3>2. j <= n
      OBVIOUS
    <3>3. QED BY <1>2, <1>3, <1>10, <3>1, <3>2 DEF FeltSome
  <2>2. QED BY <2>1
<1>12. QED BY <1>5, <1>10, <1>11 DEF Sound, FeltSome

LEMMA ProgressSound ==
  ASSUME NEW x, Sound(x), NEW a \in Agent, NEW y, y = ProgressOne(x, a)
  PROVE  Sound(y)
<1>1. Basic(x) /\ AgentSound(x, a, x.minute)
  BY DEF Sound
<1>2. Moves(x, y, a) /\ AgentSound(y, a, x.minute)
  BY <1>1, ProgressStep
<1>3. QED BY <1>2, MoveSound

LEMMA FinalizeSound ==
  ASSUME NEW x, Sound(x), NEW a \in Agent, NEW y, y = FinalizeOne(x, a)
  PROVE  Sound(y)
<1>1. Basic(x) /\ AgentSound(x, a, x.minute)
  BY DEF Sound
<1>2. Moves(x, y, a) /\ AgentSound(y, a, x.minute)
  BY <1>1, FinalizeStep
<1>3. QED BY <1>2, MoveSound

(* Crises and low resources are noted and told.                            *)
LEMMA CrisesSound ==
  ASSUME NEW x, Sound(x), NEW a \in Agent, NEW y, y = CrisesOne(x, a)
  PROVE  Sound(y)
<1>1. PICK f, e : y = [x EXCEPT !.crises = f, !.told = e]
  <2> DEFINE f == [x.crises EXCEPT ![a] = InCrisis(x, a)]
             entered == SetToSeq(InCrisis(x, a) \ x.crises[a])
             e == x.told \o [i \in DOMAIN entered |-> Event("NEED_CRISIS", a, NoDay, entered[i])]
  <2>1. y = [x EXCEPT !.crises = f, !.told = e]
    BY DEF CrisesOne
  <2> HIDE DEF f, e
  <2>2. QED BY <2>1
<1>2. PICK z : z = [x EXCEPT !.crises = f, !.told = e]
  OBVIOUS
<1>3. z = [minute |-> x.minute, needs |-> x.needs, at |-> x.at, act |-> x.act,
       recent |-> x.recent, money |-> x.money, food |-> x.food,
       sessions |-> x.sessions, settled |-> x.settled, repaid |-> x.repaid,
       crises |-> f, low |-> x.low, tension |-> x.tension, told |-> e]
  BY <1>2 DEF Sound, Basic, Context
<1>4. PICK v : v = z /\ Same(x, v)
  BY <1>3 DEF Same, Context, Rest, Accounts
<1>5. y = v
  BY <1>1, <1>2, <1>4
<1>6. QED BY <1>4, <1>5, SameContextSound

LEMMA LowSound ==
  ASSUME NEW x, Sound(x), NEW a \in Household, NEW y, y = LowOne(x, a)
  PROVE  Sound(y)
<1>1. PICK f, e : y = [x EXCEPT !.low = f, !.told = e]
  <2> DEFINE f == [x.low EXCEPT ![a] = Low(x, a)]
             raised == SetToSeq(Low(x, a) \ x.low[a])
             e == x.told \o [i \in DOMAIN raised |-> LowEvent(a, raised[i])]
  <2>1. y = [x EXCEPT !.low = f, !.told = e]
    BY DEF LowOne
  <2> HIDE DEF f, e
  <2>2. QED BY <2>1
<1>2. PICK z : z = [x EXCEPT !.low = f, !.told = e]
  OBVIOUS
<1>3. z = [minute |-> x.minute, needs |-> x.needs, at |-> x.at, act |-> x.act,
       recent |-> x.recent, money |-> x.money, food |-> x.food,
       sessions |-> x.sessions, settled |-> x.settled, repaid |-> x.repaid,
       crises |-> x.crises, low |-> f, tension |-> x.tension, told |-> e]
  BY <1>2 DEF Sound, Basic, Context
<1>4. PICK v : v = z /\ Same(x, v)
  BY <1>3 DEF Same, Context, Rest, Accounts
<1>5. y = v
  BY <1>1, <1>2, <1>4
<1>6. QED BY <1>4, <1>5, SameContextSound

(* _decision_work_session                                                  *)
LEMMA DecisionStep ==
  ASSUME NEW x, NEW a \in Agent, NEW m, Basic(x), AgentSound(x, a, m),
         NEW d, d = ComingDay(x.minute),
         NEW y, y = DecisionSession(x, a).world
  PROVE  /\ d \in Days /\ (y = x \/ y = Opened(x, a, d))
         /\ Goes(x, y, a) /\ y.act[a] = x.act[a] /\ y.at[a] = x.at[a] /\ AgentSound(y, a, m)
<1>1. d \in Days
  BY ComingInDays DEF Basic
<1>2. y = x \/ y = Opened(x, a, d)
  BY DEF DecisionSession
<1>3. CASE y = x
  BY <1>1, <1>3, GoesNowhere
<1>4. CASE y = Opened(x, a, d)
  BY <1>1, <1>4, OpenedSound
<1>5. QED BY <1>1, <1>2, <1>3, <1>4

LEMMA OpenSound ==
  ASSUME NEW w, NEW x, Sound(x), NEW a \in Agent, NEW y, y = OpenOne(w, x, a)
  PROVE  Sound(y)
<1>1. CASE a \notin Due(w)
  BY <1>1 DEF OpenOne
<1>2. CASE a \in Due(w)
  <2>1. Basic(x) /\ AgentSound(x, a, x.minute)
    BY DEF Sound
  <2>2. y = DecisionSession(x, a).world
    BY <1>2 DEF OpenOne
  <2>3. Goes(x, y, a) /\ AgentSound(y, a, x.minute)
    BY <2>1, <2>2, DecisionStep
  <2>4. Moves(x, y, a)
    BY <2>1, <2>3, GoesMoves, BehaviorKnown
  <2>5. QED BY <2>3, <2>4, MoveSound
<1>3. QED BY <1>1, <1>2

LEMMA ProgressAll ==
  ASSUME NEW w, Sound(w)
  PROVE  Sound(ProgressActions(w))
<1>1. PICK n, q : n \in Nat /\ q = AgentOrder /\ DOMAIN q = 1 .. n /\ InOrder(q, Agent, n)
  BY Agents
<1>2. PICK st : Trace(st, ProgressKey, w, q, n) /\ ProgressActions(w) = st[n]
  BY <1>1, ProgressFold
<1>3. DEFINE S == {i \in 0 .. n : Sound(st[i])}
<1>4. 0 \in S
  BY <1>1, <1>2 DEF Trace
<1>5. ASSUME NEW i \in 0 .. n, i # n, i \in S PROVE i + 1 \in S
  <2>1. PICK k \in 1 .. n : k = i + 1 /\ k - 1 = i
    BY <1>1, <1>5
  <2>2. st[k] = OneStep(ProgressKey, st[k - 1], q[k])
    BY <1>2, <2>1 DEF Trace
  <2>3. PICK a \in Agent : a = q[k]
    BY <1>1 DEF InOrder
  <2>4. PICK x : x = st[i] /\ Sound(x)
    BY <1>5
  <2>5. PICK y : y = st[k] /\ y = ProgressOne(x, a)
    BY <2>1, <2>2, <2>3, <2>4, Keys
  <2>6. Sound(y)
    BY <2>4, <2>5, ProgressSound
  <2>7. Sound(st[k])
    BY <2>5, <2>6
  <2>8. QED BY <2>1, <2>7
<1>6. \A i \in 0 .. n : i \in S
  <2> HIDE DEF S
  <2> QED BY <1>1, <1>4, <1>5, StepByStep
<1>7. QED BY <1>1, <1>2, <1>6

LEMMA FinalizeAll ==
  ASSUME NEW w, Sound(w)
  PROVE  Sound(FinalizeWorkSessions(w))
<1>1. PICK n, q : n \in Nat /\ q = AgentOrder /\ DOMAIN q = 1 .. n /\ InOrder(q, Agent, n)
  BY Agents
<1>2. PICK st : Trace(st, FinalizeKey, w, q, n) /\ FinalizeWorkSessions(w) = st[n]
  BY <1>1, FinalizeFold
<1>3. DEFINE S == {i \in 0 .. n : Sound(st[i])}
<1>4. 0 \in S
  BY <1>1, <1>2 DEF Trace
<1>5. ASSUME NEW i \in 0 .. n, i # n, i \in S PROVE i + 1 \in S
  <2>1. PICK k \in 1 .. n : k = i + 1 /\ k - 1 = i
    BY <1>1, <1>5
  <2>2. st[k] = OneStep(FinalizeKey, st[k - 1], q[k])
    BY <1>2, <2>1 DEF Trace
  <2>3. PICK a \in Agent : a = q[k]
    BY <1>1 DEF InOrder
  <2>4. PICK x : x = st[i] /\ Sound(x)
    BY <1>5
  <2>5. PICK y : y = st[k] /\ y = FinalizeOne(x, a)
    BY <2>1, <2>2, <2>3, <2>4, Keys
  <2>6. Sound(y)
    BY <2>4, <2>5, FinalizeSound
  <2>7. Sound(st[k])
    BY <2>5, <2>6
  <2>8. QED BY <2>1, <2>7
<1>6. \A i \in 0 .. n : i \in S
  <2> HIDE DEF S
  <2> QED BY <1>1, <1>4, <1>5, StepByStep
<1>7. QED BY <1>1, <1>2, <1>6

LEMMA CrisesAll ==
  ASSUME NEW w, Sound(w)
  PROVE  Sound(UpdateNeedCrises(w))
<1>1. PICK n, q : n \in Nat /\ q = AgentOrder /\ DOMAIN q = 1 .. n /\ InOrder(q, Agent, n)
  BY Agents
<1>2. PICK st : Trace(st, CrisesKey, w, q, n) /\ UpdateNeedCrises(w) = st[n]
  BY <1>1, CrisesFold
<1>3. DEFINE S == {i \in 0 .. n : Sound(st[i])}
<1>4. 0 \in S
  BY <1>1, <1>2 DEF Trace
<1>5. ASSUME NEW i \in 0 .. n, i # n, i \in S PROVE i + 1 \in S
  <2>1. PICK k \in 1 .. n : k = i + 1 /\ k - 1 = i
    BY <1>1, <1>5
  <2>2. st[k] = OneStep(CrisesKey, st[k - 1], q[k])
    BY <1>2, <2>1 DEF Trace
  <2>3. PICK a \in Agent : a = q[k]
    BY <1>1 DEF InOrder
  <2>4. PICK x : x = st[i] /\ Sound(x)
    BY <1>5
  <2>5. PICK y : y = st[k] /\ y = CrisesOne(x, a)
    BY <2>1, <2>2, <2>3, <2>4, Keys
  <2>6. Sound(y)
    BY <2>4, <2>5, CrisesSound
  <2>7. Sound(st[k])
    BY <2>5, <2>6
  <2>8. QED BY <2>1, <2>7
<1>6. \A i \in 0 .. n : i \in S
  <2> HIDE DEF S
  <2> QED BY <1>1, <1>4, <1>5, StepByStep
<1>7. QED BY <1>1, <1>2, <1>6

LEMMA LowAll ==
  ASSUME NEW w, Sound(w)
  PROVE  Sound(UpdateLowResources(w))
<1>1. PICK n, q : n \in Nat /\ q = SetToSeq(Household) /\ DOMAIN q = 1 .. n /\ InOrder(q, Household, n)
  BY SeqOfAll, SocietyDayConstants
<1>2. PICK st : Trace(st, LowKey, w, q, n) /\ UpdateLowResources(w) = st[n]
  BY <1>1, LowFold
<1>3. DEFINE S == {i \in 0 .. n : Sound(st[i])}
<1>4. 0 \in S
  BY <1>1, <1>2 DEF Trace
<1>5. ASSUME NEW i \in 0 .. n, i # n, i \in S PROVE i + 1 \in S
  <2>1. PICK k \in 1 .. n : k = i + 1 /\ k - 1 = i
    BY <1>1, <1>5
  <2>2. st[k] = OneStep(LowKey, st[k - 1], q[k])
    BY <1>2, <2>1 DEF Trace
  <2>3. PICK a \in Household : a = q[k]
    BY <1>1 DEF InOrder
  <2>4. PICK x : x = st[i] /\ Sound(x)
    BY <1>5
  <2>5. PICK y : y = st[k] /\ y = LowOne(x, a)
    BY <2>1, <2>2, <2>3, <2>4, Keys
  <2>6. Sound(y)
    BY <2>4, <2>5, LowSound
  <2>7. Sound(st[k])
    BY <2>5, <2>6
  <2>8. QED BY <2>1, <2>7
<1>6. \A i \in 0 .. n : i \in S
  <2> HIDE DEF S
  <2> QED BY <1>1, <1>4, <1>5, StepByStep
<1>7. QED BY <1>1, <1>2, <1>6

LEMMA OpenAll ==
  ASSUME NEW w, Sound(w)
  PROVE  Sound(OpenNear(w))
<1>1. PICK n, q : n \in Nat /\ q = AgentOrder /\ DOMAIN q = 1 .. n /\ InOrder(q, Agent, n)
  BY Agents
<1>2. PICK st : Trace(st, OpenKey(w), w, q, n) /\ OpenNear(w) = st[n]
  BY <1>1, OpenFold
<1>3. DEFINE S == {i \in 0 .. n : Sound(st[i])}
<1>4. 0 \in S
  BY <1>1, <1>2 DEF Trace
<1>5. ASSUME NEW i \in 0 .. n, i # n, i \in S PROVE i + 1 \in S
  <2>1. PICK k \in 1 .. n : k = i + 1 /\ k - 1 = i
    BY <1>1, <1>5
  <2>2. st[k] = OneStep(OpenKey(w), st[k - 1], q[k])
    BY <1>2, <2>1 DEF Trace
  <2>3. PICK a \in Agent : a = q[k]
    BY <1>1 DEF InOrder
  <2>4. PICK x : x = st[i] /\ Sound(x)
    BY <1>5
  <2>5. PICK y : y = st[k] /\ y = OpenOne(w, x, a)
    BY <2>1, <2>2, <2>3, <2>4, Keys
  <2>6. Sound(y)
    BY <2>4, <2>5, OpenSound
  <2>7. Sound(st[k])
    BY <2>5, <2>6
  <2>8. QED BY <2>1, <2>7
<1>6. \A i \in 0 .. n : i \in S
  <2> HIDE DEF S
  <2> QED BY <1>1, <1>4, <1>5, StepByStep
<1>7. QED BY <1>1, <1>2, <1>6

-----------------------------------------------------------------------------
(* What may be chosen.                                                     *)

(* One of F[a] for each member a of T.                                     *)
ChosenOf(p, F, T) == DOMAIN p = T /\ \A a \in T : p[a] \in F[a]
Chosen(P, F, a) == {With(p, a, x) : p \in P, x \in F[a]}
FirstOf(q, i) == {q[j] : j \in 1 .. i}

LEMMA ChosenNext ==
  ASSUME NEW P, NEW F, NEW T, NEW a, a \notin T, \A p \in P : ChosenOf(p, F, T),
         NEW e \in Chosen(P, F, a), NEW U, U = T \cup {a}
  PROVE  ChosenOf(e, F, U)
<1>1. PICK p \in P, x \in F[a] : e = With(p, a, x)
  BY DEF Chosen
<1>2. DOMAIN p = T /\ \A c \in T : p[c] \in F[c]
  BY <1>1 DEF ChosenOf
<1>3. a \notin DOMAIN p
  BY <1>2
<1>4. e = With(p, a, x)
  BY <1>1
<1>5. DOMAIN e = DOMAIN p \cup {a} /\ e[a] = x /\ \A c \in DOMAIN p : e[c] = p[c]
  BY <1>3, <1>4 DEF With
<1>6. QED BY <1>1, <1>2, <1>5 DEF ChosenOf

LEMMA ChosenAll ==
  ASSUME NEW S, NEW n \in Nat, NEW q, InOrder(q, S, n), NEW F, NEW st,
         st[0] = {<<>>},
         \A i \in 1 .. n : st[i] = Chosen(st[i - 1], F, q[i])
  PROVE  \A p \in st[n] : ChosenOf(p, F, S)
<1> DEFINE C == {i \in 0 .. n : \A p \in st[i] : ChosenOf(p, F, FirstOf(q, i))}
<1>1. q \in [1 .. n -> S] /\ (\A i, j \in 1 .. n : q[i] = q[j] => i = j)
      /\ \A x \in S : \E i \in 1 .. n : q[i] = x
  BY DEF InOrder
<1>2. 0 \in C
  <2>1. PICK T : T = FirstOf(q, 0)
    OBVIOUS
  <2>2. PICK p : p = <<>>
    OBVIOUS
  <2>3. T = {}
    BY <2>1 DEF FirstOf
  <2>4. DOMAIN p = {}
    BY <2>2
  <2>5. ChosenOf(p, F, T)
    BY <2>3, <2>4 DEF ChosenOf
  <2>6. \A e \in st[0] : ChosenOf(e, F, FirstOf(q, 0))
    BY <2>1, <2>2, <2>5
  <2>7. 0 \in 0 .. n
    OBVIOUS
  <2>8. QED BY <2>6, <2>7
<1>3. ASSUME NEW i \in 0 .. n, i # n, i \in C PROVE i + 1 \in C
  <2>1. PICK k \in 1 .. n : k = i + 1 /\ k - 1 = i
    BY <1>3
  <2>2. PICK a, T, U, P : a = q[k] /\ T = FirstOf(q, i) /\ U = FirstOf(q, k) /\ P = st[i]
    OBVIOUS
  <2>3. U = T \cup {a} /\ a \notin T
    <3>1. \A j \in 1 .. k : j = k \/ j \in 1 .. i
      BY <2>1
    <3>2. \A j \in 1 .. i : j \in 1 .. k /\ j \in 1 .. n /\ j # k
      BY <2>1
    <3>3. QED BY <1>1, <2>1, <2>2, <3>1, <3>2 DEF FirstOf
  <2>4. \A p \in P : ChosenOf(p, F, T)
    BY <1>3, <2>2
  <2>5. st[k] = Chosen(P, F, a)
    BY <2>1, <2>2
  <2>6. \A e \in st[k] : ChosenOf(e, F, U)
    BY <2>3, <2>4, <2>5, ChosenNext
  <2>7. k \in 0 .. n
    BY <2>1
  <2>8. k \in C
    BY <2>2, <2>6, <2>7
  <2>9. QED BY <2>1, <2>8
<1>4. \A i \in 0 .. n : i \in C
  <2> HIDE DEF C
  <2> QED BY <1>2, <1>3, StepByStep
<1>5. FirstOf(q, n) = S
  BY <1>1 DEF FirstOf
<1>6. n \in C
  <2> HIDE DEF C
  <2> QED BY <1>4
<1>7. \A p \in st[n] : ChosenOf(p, F, FirstOf(q, n))
  BY <1>6
<1>8. QED BY <1>5, <1>7

LEMMA DrawsChosen ==
  ASSUME NEW v, NEW s, NEW d \in Draws(v, s)
  PROVE  \A b \in Behavior : d[b] \in Durations(v, b, s)
<1>1. PICK n, q : n \in Nat /\ q = SetToSeq(Behavior) /\ DOMAIN q = 1 .. n /\ InOrder(q, Behavior, n)
  BY SeqOfAll, RulebookConstants
<1>2. PICK st : Trace(st, DrawKey(v, s), {<<>>}, q, n) /\ Draws(v, s) = st[n]
  BY <1>1, DrawFold
<1>3. PICK F : F = [b \in Behavior |-> Durations(v, b, s)]
  OBVIOUS
<1>4. ASSUME NEW i \in 1 .. n
      PROVE  st[i] = Chosen(st[i - 1], F, q[i])
  <2>1. st[i] = OneStep(DrawKey(v, s), st[i - 1], q[i])
    BY <1>2 DEF Trace
  <2>2. PICK b \in Behavior : b = q[i]
    BY <1>1 DEF InOrder
  <2>3. PICK D : D = st[i - 1]
    OBVIOUS
  <2>4. st[i] = {With(p, b, x) : p \in D, x \in Durations(v, b, s)}
    BY <2>1, <2>2, <2>3, Keys DEF DrawOne
  <2>5. F[b] = Durations(v, b, s)
    BY <1>3
  <2>6. st[i] = Chosen(D, F, b)
    BY <2>4, <2>5 DEF Chosen
  <2>7. QED BY <2>2, <2>3, <2>6
<1>5. st[0] = {<<>>}
  BY <1>2 DEF Trace
<1>6. \A p \in st[n] : ChosenOf(p, F, Behavior)
  BY <1>1, <1>4, <1>5, ChosenAll
<1>7. QED BY <1>2, <1>3, <1>6 DEF ChosenOf

LEMMA PicksChosen ==
  ASSUME NEW w, NEW pick \in PicksOf(w)
  PROVE  /\ DOMAIN pick = Due(w)
         /\ \A a \in Due(w) : pick[a] \in Prepared(w, a)
<1>0. IsFiniteSet(Due(w))
  <2>1. Due(w) \in SUBSET Agent
    BY DEF Due
  <2>2. QED BY <2>1, FS_Subset, SocietyDayConstants
<1>1. PICK n, q : n \in Nat /\ q = SetToSeq(Due(w)) /\ DOMAIN q = 1 .. n /\ InOrder(q, Due(w), n)
  BY <1>0, SeqOfAll
<1>2. PICK st : Trace(st, PickKey(w), {<<>>}, q, n) /\ PicksOf(w) = st[n]
  BY <1>1, PickFold
<1>3. PICK F : F = [a \in Due(w) |-> Prepared(w, a)]
  OBVIOUS
<1>4. ASSUME NEW i \in 1 .. n
      PROVE  st[i] = Chosen(st[i - 1], F, q[i])
  <2>1. st[i] = OneStep(PickKey(w), st[i - 1], q[i])
    BY <1>2 DEF Trace
  <2>2. PICK a \in Due(w) : a = q[i]
    BY <1>1 DEF InOrder
  <2>3. PICK P : P = st[i - 1]
    OBVIOUS
  <2>4. st[i] = {With(p, a, x) : p \in P, x \in Prepared(w, a)}
    BY <2>1, <2>2, <2>3, Keys DEF PickOne
  <2>5. F[a] = Prepared(w, a)
    BY <1>3
  <2>6. st[i] = Chosen(P, F, a)
    BY <2>4, <2>5 DEF Chosen
  <2>7. QED BY <2>2, <2>3, <2>6
<1>5. st[0] = {<<>>}
  BY <1>2 DEF Trace
<1>6. \A p \in st[n] : ChosenOf(p, F, Due(w))
  BY <1>1, <1>4, <1>5, ChosenAll
<1>7. QED BY <1>2, <1>3, <1>6 DEF ChosenOf

(* What ranks first was enumerated.                                        *)
LEMMA CappedEnumerated ==
  ASSUME NEW C, "idle" \in C
  PROVE  Capped(C) \subseteq C
BY DEF Capped

LEMMA FirstCapped ==
  ASSUME NEW v, NEW s, NEW d, NEW standing, NEW b \in MayRankFirst(v, s, d, standing)
  PROVE  b \in Capped(Enumerated(v, s, d))
BY DEF MayRankFirst

LEMMA FirstEnumerated ==
  ASSUME NEW v, NEW s, NEW d, NEW standing, NEW b \in MayRankFirst(v, s, d, standing)
  PROVE  b \in Enumerated(v, s, d)
<1>1. "idle" \in Enumerated(v, s, d)
  BY RulebookConstants DEF Enumerated
<1>2. QED BY <1>1, FirstCapped, CappedEnumerated

LEMMA PickOrigin ==
  ASSUME NEW v, NEW s, NEW x \in Picks(v, s)
  PROVE  \E d \in Draws(v, s) : \E b \in MayRankFirst(v, s, d, Standing(v, s)) :
           x = [first |-> b, takes |-> d[b], idles |-> d["idle"]]
<1>1. PICK S : S = Standing(v, s)
  OBVIOUS
<1>2. PICK G : G = [d \in Draws(v, s) |->
                     {[first |-> b, takes |-> d[b], idles |-> d["idle"]] :
                        b \in MayRankFirst(v, s, d, S)}]
  OBVIOUS
<1>3. x \in UNION {G[d] : d \in Draws(v, s)}
  BY <1>1, <1>2 DEF Picks
<1>4. PICK d \in Draws(v, s) : x \in G[d]
  BY <1>3
<1>5. x \in {[first |-> b, takes |-> d[b], idles |-> d["idle"]] :
                        b \in MayRankFirst(v, s, d, S)}
  BY <1>2, <1>4
<1>6. QED BY <1>1, <1>5

LEMMA PickFacts ==
  ASSUME NEW v, NEW s, NEW x \in Picks(v, s)
  PROVE  /\ x.first \in Behavior /\ x.takes \in Durations(v, x.first, s)
         /\ x.first # "idle" => Timely(v, x.first, s, x.takes)
<1>1. PICK d, b : /\ d \in Draws(v, s) /\ b \in MayRankFirst(v, s, d, Standing(v, s))
                  /\ x = [first |-> b, takes |-> d[b], idles |-> d["idle"]]
  BY PickOrigin
<1>2. b \in Enumerated(v, s, d)
  <2>1. PICK S : S = Standing(v, s)
    OBVIOUS
  <2>2. b \in MayRankFirst(v, s, d, S)
    BY <1>1, <2>1
  <2>3. QED BY <2>2, FirstEnumerated
<1>3. b \in Behavior /\ (b # "idle" => Timely(v, b, s, d[b]))
  BY <1>2 DEF Enumerated
<1>4. d[b] \in Durations(v, b, s)
  BY <1>1, <1>3, DrawsChosen
<1>5. x.first = b /\ x.takes = d[b]
  BY <1>1
<1>6. QED BY <1>3, <1>4, <1>5


-----------------------------------------------------------------------------
(* A choice made holds until its turn comes.                               *)

Near(w, a) ==
  LET d == ComingDay(w.minute)
  IN  IF w.sessions[a][d] = None THEN NewSession(d) ELSE w.sessions[a][d]

BreakReady(w, a, takes) ==
  /\ w.at[a] = Work[a] /\ takes \in Int
  /\ Near(w, a).effective > 0 /\ Near(w, a).breaks = 0
  /\ Safe(Near(w, a), w.minute + takes)
ShiftReady(w, a, b, takes) ==
  /\ b = "work_shift" => WorkDue(w.minute, Near(w, a))
  /\ b = "take_break" => BreakReady(w, a, takes)
Ready(w, a, p) == p.first \in Behavior /\ ShiftReady(w, a, p.first, p.takes)

LEMMA NearSound ==
  ASSUME NEW w, NEW a \in Agent, Basic(w), NEW m, AgentSound(w, a, m),
         NEW d, d = ComingDay(w.minute), NEW s, s = Near(w, a)
  PROVE  d \in Days /\ SessionSound(s, d, m)
<1>1. d \in Days
  BY ComingInDays DEF Basic
<1>2. CASE w.sessions[a][d] = None
  BY <1>1, <1>2, NewSessionSound DEF Near
<1>3. CASE w.sessions[a][d] # None
  BY <1>1, <1>3 DEF Near, AgentSound, SessionsSound
<1>4. QED BY <1>1, <1>2, <1>3

LEMMA ReadyStays ==
  ASSUME NEW w, NEW x, NEW a, NEW p, Ready(w, a, p),
         x.minute = w.minute, x.at[a] = w.at[a], x.sessions[a] = w.sessions[a]
  PROVE  Ready(x, a, p)
<1>1. Near(x, a) = Near(w, a)
  BY DEF Near
<1>2. QED BY <1>1 DEF Ready, ShiftReady, BreakReady

(* A break that may begin ends in its session and is safe.                 *)
LEMMA BreakIsSafe ==
  ASSUME NEW s, NEW d, NEW m \in Nat, SessionSound(s, d, m), d \in Int, NEW v, v.minute = m,
         NEW n \in Nat, n <= BreakUntil + 1,
         BreakLegal(v, s), BreakPreservesCompletion(m, n, s)
  PROVE  Safe(s, m + n)
<1>1. PICK e, g, b \in Int : e = s.end /\ g = s.start /\ b = s.start + s.grace
  <2>1. d * DayLength + ShiftEnd \in Int /\ d * DayLength + ShiftStart \in Int /\ Grace \in Int
    BY SocietyDayConstants, RulebookConstants
  <2>2. s.end = d * DayLength + ShiftEnd /\ s.start = d * DayLength + ShiftStart /\ s.grace = Grace
    BY DEF SessionSound, SessionShape
  <2>3. s.start + s.grace \in Int
    BY <2>1, <2>2
  <2>4. QED BY <2>1, <2>2, <2>3
<1>2. PICK k \in Nat, u \in Nat, r \in Int : k = s.effective /\ u = BreakUntil /\ r = s.grace
  BY SocietyDayConstants, RulebookConstants DEF SessionSound, SessionShape
<1>3. m < e - u /\ k > 0
  BY <1>1, <1>2 DEF BreakLegal
<1>4. m + n <= e
  BY <1>2, <1>3
<1>5. Up(0, e - (m + n)) = e - (m + n)
  BY <1>4 DEF Up
<1>6. k + (e - (m + n)) >= (e - g) - r
  BY <1>1, <1>2, <1>5 DEF BreakPreservesCompletion
<1>7. PICK f \in Nat : f = s.first /\ f + k <= m
  BY <1>2, <1>3 DEF SessionSound
<1>8. b = g + r
  BY <1>1, <1>2
<1>9. f <= b
  BY <1>6, <1>7, <1>8
<1>10. k + e - (m + n) >= (e - g) - r
  BY <1>6
<1>11. s.first # Never
  BY <1>7 DEF Never
<1>12. QED BY <1>1, <1>2, <1>7, <1>9, <1>10, <1>11 DEF Safe

(* A choice prepared is ready.                                             *)
LEMMA BreakArrival ==
  ASSUME NEW v, v.at = v.work, v.work \in Location, v.minute \in Nat, "take_break" \in Behavior
  PROVE  Arrival(v, "take_break") = v.minute /\ Destination(v, "take_break") = v.work
<1>1. Destination(v, "take_break") = v.work
  BY FrozenCatalog DEF Destination
<1>2. TravelTo(v, "take_break") = 0
  BY <1>1, RulebookConstants DEF TravelTo
<1>3. QED BY <1>1, <1>2 DEF Arrival

LEMMA BreakDrawn ==
  ASSUME NEW v, NEW s, "take_break" \in Behavior, NEW n \in Durations(v, "take_break", s)
  PROVE  n \in Nat /\ n <= BreakUntil + 1
<1>1. PICK b, r \in Nat : b = Catalog["take_break"].base /\ r = Catalog["take_break"].variance
  BY RulebookConstants
<1>2. n \in Up(1, b - r) .. b + r
  BY <1>1 DEF Durations
<1>3. b \in Nat
  BY <1>1, RulebookConstants
<1>4. Up(1, b - r) \in Nat
  BY <1>1, <1>3 DEF Up
<1>5. b + r <= BreakUntil + 1 /\ BreakUntil \in Nat
  BY <1>1, FrozenCatalog, RulebookConstants
<1>6. QED BY <1>1, <1>2, <1>3, <1>4, <1>5

LEMMA PreparedReady ==
  ASSUME NEW w, NEW a \in Agent, Basic(w), AgentSound(w, a, w.minute),
         NEW p \in Prepared(w, a)
  PROVE  Ready(w, a, p)
<1>1. PICK v, s, d : v = View(w, a) /\ s = Near(w, a) /\ d = ComingDay(w.minute)
  OBVIOUS
<1>2. PICK m \in Nat : m = w.minute
  BY SocietyDayConstants DEF Basic
<1>3. d \in Days /\ SessionSound(s, d, m)
  BY <1>1, <1>2, NearSound
<1>4. DecisionSession(w, a).session = s
  BY <1>1 DEF DecisionSession, Near
<1>5. p \in Picks(v, s)
  BY <1>1, <1>4 DEF Prepared
<1>6. /\ p.first \in Behavior /\ p.takes \in Durations(v, p.first, s)
      /\ p.first # "idle" => Timely(v, p.first, s, p.takes)
  BY <1>5, PickFacts
<1>7. v.minute = m /\ v.at = w.at[a] /\ v.work = Work[a]
  BY <1>1, <1>2 DEF View
<1>8. PICK n : n = p.takes
  OBVIOUS
<1>9. ASSUME p.first = "work_shift" PROVE WorkDue(w.minute, Near(w, a))
  <2>1. WorkDue(v.minute, s)
    BY <1>6, <1>9 DEF Timely
  <2>2. QED BY <1>1, <1>2, <1>7, <2>1
<1>10. ASSUME p.first = "take_break" PROVE BreakReady(w, a, p.takes)
  <2>1. BreakLegal(v, s) /\ BreakPreservesCompletion(Arrival(v, "take_break"), n, s)
    BY <1>6, <1>8, <1>10 DEF Timely
  <2>2. v.at = v.work /\ s.effective > 0 /\ s.breaks = 0
    BY <2>1 DEF BreakLegal
  <2>3. "take_break" \in Behavior /\ n \in Durations(v, "take_break", s)
    BY <1>6, <1>8, <1>10
  <2>4. n \in Nat /\ n <= BreakUntil + 1
    BY <2>3, BreakDrawn
  <2>5. v.work \in Location /\ v.minute \in Nat
    BY <1>7, SocietyDayConstants
  <2>6. Arrival(v, "take_break") = m
    BY <1>7, <2>2, <2>3, <2>5, BreakArrival
  <2>7. BreakPreservesCompletion(m, n, s)
    BY <2>1, <2>6
  <2>8. d \in Int
    BY <1>3 DEF Days
  <2>9. Safe(s, m + n)
    BY <1>3, <1>7, <2>1, <2>4, <2>7, <2>8, BreakIsSafe
  <2>10. QED BY <1>1, <1>2, <1>7, <1>8, <2>2, <2>4, <2>9 DEF BreakReady
<1>11. QED BY <1>6, <1>9, <1>10 DEF Ready, ShiftReady

-----------------------------------------------------------------------------
(* An action is made.                                                      *)

LEMMA InPhaseStep ==
  ASSUME NEW w, NEW a \in Agent, NEW m, Basic(w), AgentSound(w, a, m),
         NEW t, t = w.act[a], t # None, NEW p, p # "PERFORMING",
         NEW x, x = SetAct(w, a, InPhase(t, p))
  PROVE  Goes(w, x, a) /\ AgentSound(x, a, m)
<1>1. ActionSound(t, w.sessions[a])
  BY DEF AgentSound
<1>2. PICK u : u = InPhase(t, p)
  OBVIOUS
<1>3. ActionSound(u, w.sessions[a]) /\ u.b = t.b /\ u # None
  BY <1>1, <1>2, PhaseSound
<1>4. x = SetAct(w, a, u)
  BY <1>2
<1>5. Turn(w, x, a) /\ x.act[a] = u /\ AgentSound(x, a, m)
  BY <1>3, <1>4, ActionChanges
<1>6. QED BY <1>3, <1>5 DEF Goes

LEMMA BegunStep ==
  ASSUME NEW w, NEW a \in Agent, Basic(w), w.act[a] # None, AgentSound(w, a, w.minute),
         NEW x, x = Begun(w, a)
  PROVE  Goes(w, x, a) /\ AgentSound(x, a, w.minute)
<1>1. PICK t, m : t = w.act[a] /\ m = w.minute
  OBVIOUS
<1>2. AgentSound(w, a, m) /\ t # None
  BY <1>1
<1>3. CASE x = [w EXCEPT !.at[a] = Traveling, !.act[a].phase = "TRAVELING"]
  <2>1. PICK y : y = SetAt(w, a, Traveling)
    OBVIOUS
  <2>2. Goes(w, y, a) /\ y.act[a] = w.act[a] /\ AgentSound(y, a, m)
    BY <1>2, <2>1, SetAtStep
  <2>3. Basic(y)
    BY <2>2 DEF Goes, Turn
  <2>4. x = SetAct(y, a, InPhase(t, "TRAVELING"))
    BY <1>1, <1>3, <2>1 DEF SetAct, SetAt, InPhase, Basic, Context
  <2>5. Goes(y, x, a) /\ AgentSound(x, a, m)
    <3>1. "TRAVELING" # "PERFORMING" /\ t = y.act[a]
      BY <1>1, <2>2
    <3>2. QED BY <1>2, <2>2, <2>3, <2>4, <3>1, InPhaseStep
  <2>6. QED BY <1>1, <2>2, <2>5, GoesTwice
<1>4. CASE x = [w EXCEPT !.act[a].phase = "ALIGNING"]
  <2>1. x = SetAct(w, a, InPhase(t, "ALIGNING"))
    BY <1>1, <1>4 DEF SetAct, InPhase
  <2>2. "ALIGNING" # "PERFORMING"
    OBVIOUS
  <2>3. QED BY <1>1, <1>2, <2>1, <2>2, InPhaseStep
<1>5. CASE x = StartPerforming(w, a)
  BY <1>5, StartPerformingStep
<1>6. QED BY <1>3, <1>4, <1>5 DEF Begun

(* What a decision writes down for a behaviour b.                          *)
Made(w, a, b, takes) ==
  LET v == View(w, a)
      s == Near(w, a)
      start == IF b = "work_shift" THEN Up(Arrival(v, b), s.start) ELSE Arrival(v, b)
  IN  [b |-> b, phase |-> "RESERVING", dest |-> Destination(v, b), origin |-> w.at[a],
       arrival |-> Arrival(v, b), start |-> start, end |-> start + takes,
       day |-> IF b \in OnShift THEN ComingDay(w.minute) ELSE NoDay]

Ground(w, a, b) == IF b \in OnShift THEN DecisionSession(w, a).world ELSE w

LEMMA CreateParts ==
  ASSUME NEW w, NEW a, NEW b, NEW takes,
         NEW y, y = Ground(w, a, b)
  PROVE  Create(w, a, b, takes) = Begun(SetAct(y, a, Made(w, a, b, takes)), a)
BY DEF Create, Ground, SetAct, Made, OnShift, DecisionSession, Near

(* The session of the day it is for is there.                              *)
LEMMA ShiftOpened ==
  ASSUME NEW w, NEW a \in Agent, Basic(w), AgentSound(w, a, w.minute),
         NEW b \in OnShift, NEW takes, ShiftReady(w, a, b, takes),
         NEW d, d = ComingDay(w.minute), NEW y, y = DecisionSession(w, a).world
  PROVE  y.sessions[a][d] = Near(w, a) /\ y.sessions[a][d] # None
<1>1. PICK s, m : s = Near(w, a) /\ m = w.minute
  OBVIOUS
<1>2. d \in Days /\ SessionSound(s, d, m)
  BY <1>1, NearSound
<1>3. s # None
  BY <1>2, SessionIsSome DEF SessionSound
<1>4. y = IF w.minute >= s.start - Lead THEN Opened(w, a, d) ELSE w
  BY <1>1 DEF DecisionSession, Near
<1>5. s = IF w.sessions[a][d] = None THEN NewSession(d) ELSE w.sessions[a][d]
  BY <1>1 DEF Near
<1>6. CASE w.minute >= s.start - Lead
  <2>1. y = Opened(w, a, d)
    BY <1>4, <1>6
  <2>2. y.sessions[a][d] = IF w.sessions[a][d] = None THEN NewSession(d) ELSE w.sessions[a][d]
    <3>1. AgentSound(w, a, m)
      BY <1>1
    <3>2. QED BY <1>2, <2>1, <3>1, OpenedSound
  <2>3. QED BY <1>1, <1>3, <1>5, <2>2
<1>7. CASE ~(w.minute >= s.start - Lead)
  <2>1. y = w
    BY <1>4, <1>7
  <2>2. b = "take_break"
    <3>1. PICK g \in Int, l \in Int, n \in Int : g = s.start /\ l = Lead /\ n = w.minute
      <4>1. s.start = d * DayLength + ShiftStart
        BY <1>2 DEF SessionSound, SessionShape
      <4>2. d \in Int
        BY <1>2 DEF Days
      <4>3. s.start \in Int /\ Lead \in Int /\ w.minute \in Int
        BY <4>1, <4>2, SocietyDayConstants, RulebookConstants DEF Basic
      <4>4. QED BY <4>3
    <3>2. ~WorkDue(w.minute, s)
      BY <1>7, <3>1 DEF WorkDue
    <3>3. QED BY <1>1, <3>2 DEF ShiftReady, OnShift
  <2>3. s.effective > 0
    BY <1>1, <2>2 DEF ShiftReady, BreakReady
  <2>4. w.sessions[a][d] # None
    <3>1. SUFFICES ASSUME w.sessions[a][d] = None PROVE FALSE
      OBVIOUS
    <3>2. s = NewSession(d)
      BY <1>5, <3>1
    <3>3. s.effective = 0
      BY <3>2 DEF NewSession
    <3>4. QED BY <2>3, <3>3
  <2>5. QED BY <1>1, <1>3, <1>5, <2>1, <2>4
<1>8. QED BY <1>6, <1>7

LEMMA MadeSound ==
  ASSUME NEW w, NEW a \in Agent, Basic(w), AgentSound(w, a, w.minute),
         NEW b \in Behavior, NEW takes, ShiftReady(w, a, b, takes),
         NEW y, y = Ground(w, a, b),
         NEW t, t = Made(w, a, b, takes)
  PROVE  ActionSound(t, y.sessions[a]) /\ t.b = b
<1>1. PICK v, s, d, start, end, on :
        /\ v = View(w, a) /\ s = Near(w, a) /\ d = ComingDay(w.minute)
        /\ start = IF b = "work_shift" THEN Up(Arrival(v, b), s.start) ELSE Arrival(v, b)
        /\ end = start + takes
        /\ on = IF b \in OnShift THEN d ELSE NoDay
  OBVIOUS
<1>2. t = [b |-> b, phase |-> "RESERVING", dest |-> Destination(v, b), origin |-> w.at[a],
           arrival |-> Arrival(v, b), start |-> start, end |-> end, day |-> on]
  BY <1>1 DEF Made
<1>3. ActionShape(t) /\ t.b = b /\ t.phase = "RESERVING" /\ t.end = end /\ t.day = on
  BY <1>2 DEF ActionShape
<1>4. PICK m \in Nat : m = w.minute
  BY SocietyDayConstants DEF Basic
<1>5. d \in Days /\ SessionSound(s, d, m)
  BY <1>1, <1>4, NearSound
<1>6. ASSUME b \in OnShift
      PROVE  on = d /\ y.sessions[a][d] = s /\ y.sessions[a][d] # None
  BY <1>1, <1>6, ShiftOpened DEF Ground
<1>7. ASSUME b = "take_break" PROVE BreakSound(t, s)
  <2>1. BreakReady(w, a, takes)
    BY <1>7 DEF ShiftReady
  <2>2. /\ w.at[a] = Work[a] /\ takes \in Int /\ s.breaks = 0
        /\ Safe(s, m + takes)
    BY <1>1, <1>4, <2>1 DEF BreakReady
  <2>3. v.at = v.work /\ v.work \in Location /\ v.minute = m
    BY <1>1, <1>4, <2>2, SocietyDayConstants DEF View
  <2>4. Arrival(v, "take_break") = m
    BY <1>7, <2>3, BreakArrival
  <2>5. end = m + takes
    BY <1>1, <1>7, <2>4
  <2>6. QED BY <1>3, <2>2, <2>5 DEF BreakSound
<1>8. b = "take_break" => b \in OnShift
  BY DEF OnShift
<1>9. t.b \in OnShift => t.day \in Days /\ y.sessions[a][t.day] # None
  BY <1>3, <1>5, <1>6
<1>10. t.b = "take_break" => BreakSound(t, y.sessions[a][t.day])
  BY <1>3, <1>6, <1>7, <1>8
<1>11. QED BY <1>3, <1>9, <1>10 DEF ActionSound

LEMMA CreateStep ==
  ASSUME NEW w, NEW a \in Agent, Basic(w), w.act[a] = None, AgentSound(w, a, w.minute),
         NEW b \in Behavior, NEW takes, ShiftReady(w, a, b, takes),
         NEW x, x = Create(w, a, b, takes)
  PROVE  /\ Turn(w, x, a) /\ AgentSound(x, a, w.minute)
         /\ x.act[a] # None /\ x.act[a].b = b
<1>1. PICK y : y = Ground(w, a, b)
  OBVIOUS
<1>2. PICK m : m = w.minute
  OBVIOUS
<1>3. Goes(w, y, a) /\ AgentSound(y, a, m)
  <2>1. CASE b \in OnShift
    <3>1. y = DecisionSession(w, a).world /\ AgentSound(w, a, m)
      BY <1>1, <1>2, <2>1 DEF Ground
    <3>2. PICK d : d = ComingDay(w.minute)
      OBVIOUS
    <3>3. QED BY <3>1, <3>2, DecisionStep
  <2>2. CASE b \notin OnShift
    BY <1>1, <1>2, <2>2, GoesNowhere DEF Ground
  <2>3. QED BY <2>1, <2>2
<1>4. PICK t : t = Made(w, a, b, takes)
  OBVIOUS
<1>5. ActionSound(t, y.sessions[a]) /\ t.b = b
  BY <1>1, <1>4, MadeSound
<1>6. t # None
  BY <1>5, ActionIsSome DEF ActionSound
<1>7. Basic(y) /\ Turn(w, y, a) /\ y.minute = m
  BY <1>2, <1>3 DEF Goes, Turn, Rest
<1>8. PICK z : z = SetAct(y, a, t)
  OBVIOUS
<1>9. Turn(y, z, a) /\ z.act[a] = t /\ AgentSound(z, a, m)
  BY <1>3, <1>5, <1>7, <1>8, ActionChanges
<1>10. Basic(z) /\ z.minute = m
  BY <1>7, <1>9 DEF Turn, Rest
<1>11. x = Begun(z, a)
  BY <1>1, <1>4, <1>8, CreateParts
<1>12. Goes(z, x, a) /\ AgentSound(x, a, m)
  <2>1. z.act[a] # None /\ AgentSound(z, a, z.minute)
    BY <1>6, <1>9, <1>10
  <2>2. QED BY <1>10, <1>11, <2>1, BegunStep
<1>13. Turn(z, x, a) /\ x.act[a] # None /\ x.act[a].b = b
  BY <1>5, <1>6, <1>9, <1>12 DEF Goes
<1>14. Turn(w, x, a)
  BY <1>7, <1>9, <1>13, TurnTwice
<1>15. QED BY <1>2, <1>12, <1>13, <1>14

(* What it will cost is not promised to anyone else.                       *)
LEMMA MadeCovered ==
  ASSUME NEW w, NEW x, NEW a \in Agent, Sound(w), w.act[a] = None,
         Turn(w, x, a), AgentSound(x, a, w.minute),
         NEW b \in Behavior, x.act[a] # None, x.act[a].b = b,
         Affordable(View(w, a), b)
  PROVE  Sound(x)
<1>1. PICK m : m = w.minute /\ x.minute = m
  BY DEF Turn, Rest
<1>2. \A c \in Agent : AgentSound(w, c, m)
  BY <1>1 DEF Sound
<1>3. \A c \in Agent : AgentSound(x, c, m)
  BY <1>1, <1>2, OthersSound
<1>4. Known(w) /\ Known(x)
  BY <1>2, <1>3, BehaviorKnown DEF Known
<1>5. Basic(w) /\ Basic(x) /\ Elsewhere(w, x, a) /\ x.money = w.money /\ x.food = w.food
  BY DEF Sound, Turn, Accounts
<1>6. PICK p, f \in Nat : p = Catalog[b].price /\ f = Catalog[b].food
  BY RulebookConstants
<1>7. /\ PriceOf(w.act[a]) = 0 /\ FoodOf(w.act[a]) = 0
      /\ PriceOf(x.act[a]) = p /\ FoodOf(x.act[a]) = f
  BY <1>6 DEF PriceOf, FoodOf
<1>8. p \in Nat
  BY <1>6, RulebookConstants
<1>9. ASSUME NEW h \in Household
      PROVE  HeldMoney(x, h) <= x.money[h] /\ HeldFood(x, h) <= x.food[h]
  <2>1. /\ HeldMoney(w, h) \in Nat /\ HeldMoney(x, h) \in Nat
        /\ HeldFood(w, h) \in Nat /\ HeldFood(x, h) \in Nat
        /\ HeldMoney(x, h) = HeldMoney(w, h) + (IF Member[a] = h THEN p - 0 ELSE 0)
        /\ HeldFood(x, h) = HeldFood(w, h) + (IF Member[a] = h THEN f - 0 ELSE 0)
    BY <1>4, <1>5, <1>7, HeldChanges
  <2>2. w.money[h] \in Int /\ w.food[h] \in Int
    BY <1>5 DEF Basic
  <2>3. HeldMoney(w, h) <= w.money[h] /\ HeldFood(w, h) <= w.food[h]
    BY DEF Sound, Covered
  <2>4. CASE Member[a] = h
    <3>1. p <= w.money[h] - HeldMoney(w, h) /\ f <= w.food[h] - HeldFood(w, h)
      BY <1>6, <2>4 DEF Affordable, View
    <3>2. QED BY <1>5, <1>6, <1>8, <2>1, <2>2, <2>4, <3>1
  <2>5. CASE Member[a] # h
    BY <1>5, <2>1, <2>2, <2>3, <2>5
  <2>6. QED BY <2>4, <2>5
<1>10. QED BY <1>1, <1>3, <1>5, <1>9 DEF Sound, Covered

(* Idle costs nothing.                                                     *)
LEMMA IdleAffordable ==
  ASSUME NEW w, NEW a \in Agent, Sound(w)
  PROVE  Affordable(View(w, a), "idle")
<1>1. PICK h \in Household : h = Member[a]
  BY SocietyDayConstants
<1>2. Known(w)
  BY BehaviorKnown DEF Sound, Known
<1>3. Elsewhere(w, w, a)
  BY DEF Elsewhere
<1>4. HeldMoney(w, h) \in Nat /\ HeldFood(w, h) \in Nat
  BY <1>2, <1>3, HeldChanges
<1>5. HeldMoney(w, h) <= w.money[h] /\ HeldFood(w, h) <= w.food[h]
      /\ w.money[h] \in Int /\ w.food[h] \in Int
  BY DEF Sound, Covered, Basic
<1>6. 0 <= w.money[h] - HeldMoney(w, h) /\ 0 <= w.food[h] - HeldFood(w, h)
  BY <1>4, <1>5
<1>7. QED BY <1>1, <1>6, RulebookConstants DEF Affordable, View

LEMMA DecideSound ==
  ASSUME NEW w, NEW a \in Agent, Sound(w), w.act[a] = None, NEW p, Ready(w, a, p),
         NEW x, x = DecideOne(w, a, p)
  PROVE  Sound(x) /\ Turn(w, x, a)
<1>1. Basic(w) /\ AgentSound(w, a, w.minute)
  BY DEF Sound
<1>2. CASE Accepted(w, a, p.first)
  <2>1. PICK b \in Behavior : b = p.first
    BY DEF Ready
  <2>2. x = Create(w, a, b, p.takes) /\ ShiftReady(w, a, b, p.takes)
    BY <1>2, <2>1 DEF DecideOne, Ready
  <2>3. /\ Turn(w, x, a) /\ AgentSound(x, a, w.minute)
        /\ x.act[a] # None /\ x.act[a].b = b
    BY <1>1, <2>2, CreateStep
  <2>4. Affordable(View(w, a), b)
    BY <1>2, <2>1 DEF Accepted
  <2>5. QED BY <2>3, <2>4, MadeCovered
<1>3. CASE ~Accepted(w, a, p.first)
  <2>1. PICK b \in Behavior : b = "idle"
    BY RulebookConstants
  <2>2. x = Create(w, a, b, p.idles) /\ ShiftReady(w, a, b, p.idles)
    BY <1>3, <2>1 DEF DecideOne, ShiftReady
  <2>3. /\ Turn(w, x, a) /\ AgentSound(x, a, w.minute)
        /\ x.act[a] # None /\ x.act[a].b = b
    BY <1>1, <2>2, CreateStep
  <2>4. Affordable(View(w, a), b)
    BY <2>1, IdleAffordable
  <2>5. QED BY <2>3, <2>4, MadeCovered
<1>4. QED BY <1>2, <1>3

-----------------------------------------------------------------------------
(* The queue is served.                                                    *)

LEMMA QueueOrder ==
  ASSUME NEW S, IsFiniteSet(S), NEW pick, DOMAIN pick = S, NEW q \in Queues(pick)
  PROVE  \E n \in Nat : DOMAIN q = 1 .. n /\ InOrder(q, S, n)
<1>1. PICK n : n = Cardinality(S)
  OBVIOUS
<1>2. n \in Nat
  BY <1>1, FS_CardinalityType
<1>3. q \in SetToSeqs(S)
  BY DEF Queues
<1>4. q \in [1 .. n -> S] /\ \A i, j \in 1 .. n : i # j => q[i] # q[j]
  BY <1>1, <1>3 DEF SetToSeqs
<1>5. InOrder(q, S, n)
  BY <1>1, <1>4, OrderOfAll
<1>6. QED BY <1>2, <1>4, <1>5

(* The first i of the queue have decided; the others may still.            *)
ServedSome(x, pick, q, n, i) ==
  /\ Sound(x)
  /\ \A j \in 1 .. n : i < j => x.act[q[j]] = None /\ Ready(x, q[j], pick[q[j]])

LEMMA ServedNext ==
  ASSUME NEW n \in Nat, NEW q, q \in [1 .. n -> Agent],
         \A i, j \in 1 .. n : q[i] = q[j] => i = j,
         NEW pick, NEW i \in 1 .. n, NEW x, ServedSome(x, pick, q, n, i - 1),
         NEW y, y = ServeOne(pick, x, q[i])
  PROVE  ServedSome(y, pick, q, n, i)
<1>1. PICK a \in Agent : a = q[i]
  OBVIOUS
<1>2. PICK p : p = pick[a]
  OBVIOUS
<1>3. i - 1 < i
  OBVIOUS
<1>4. Sound(x) /\ x.act[a] = None /\ Ready(x, a, p)
  BY <1>1, <1>2, <1>3 DEF ServedSome
<1>5. y = DecideOne(x, a, p)
  BY <1>1, <1>2 DEF ServeOne
<1>6. Sound(y) /\ Turn(x, y, a)
  BY <1>4, <1>5, DecideSound
<1>7. ASSUME NEW j \in 1 .. n, i < j
      PROVE  y.act[q[j]] = None /\ Ready(y, q[j], pick[q[j]])
  <2>1. PICK c \in Agent : c = q[j] /\ c # a
    BY <1>1, <1>7
  <2>2. i - 1 < j
    BY <1>7
  <2>3. PICK r : r = pick[c]
    OBVIOUS
  <2>4. x.act[c] = None /\ Ready(x, c, r)
    BY <2>1, <2>2, <2>3 DEF ServedSome
  <2>5. /\ y.act[c] = x.act[c] /\ y.sessions[c] = x.sessions[c] /\ y.at[c] = x.at[c]
        /\ y.minute = x.minute
    BY <1>6, <2>1 DEF Turn, Elsewhere, Rest
  <2>6. Ready(y, c, r)
    BY <2>4, <2>5, ReadyStays
  <2>7. QED BY <2>1, <2>3, <2>4, <2>5, <2>6
<1>8. QED BY <1>6, <1>7 DEF ServedSome

LEMMA ServedAll ==
  ASSUME NEW w, Sound(w), NEW pick \in PicksOf(w), NEW q \in Queues(pick)
  PROVE  Sound(Served(w, pick, q))
<1>1. PICK S : S = Due(w) /\ S \subseteq Agent
  BY DEF Due
<1>2. IsFiniteSet(S)
  BY <1>1, FS_Subset, SocietyDayConstants
<1>3. DOMAIN pick = S /\ \A a \in S : pick[a] \in Prepared(w, a)
  BY <1>1, PicksChosen
<1>4. PICK n \in Nat : DOMAIN q = 1 .. n /\ InOrder(q, S, n)
  BY <1>2, <1>3, QueueOrder
<1>5. q \in [1 .. n -> S] /\ q \in [1 .. n -> Agent]
      /\ \A i, j \in 1 .. n : q[i] = q[j] => i = j
  BY <1>1, <1>4 DEF InOrder
<1>6. PICK st : Trace(st, ServeKey(pick), w, q, n) /\ Served(w, pick, q) = st[n]
  BY <1>4, ServeFold
<1>7. DEFINE D == {i \in 0 .. n : ServedSome(st[i], pick, q, n, i)}
<1>8. 0 \in D
  <2>1. ASSUME NEW j \in 1 .. n PROVE w.act[q[j]] = None /\ Ready(w, q[j], pick[q[j]])
    <3>1. PICK a \in S : a = q[j]
      BY <1>5
    <3>2. PICK p : p = pick[a] /\ p \in Prepared(w, a)
      BY <1>3
    <3>3. Basic(w) /\ AgentSound(w, a, w.minute) /\ a \in Agent
      BY <1>1 DEF Sound
    <3>4. Ready(w, a, p)
      BY <3>2, <3>3, PreparedReady
    <3>5. w.act[a] = None
      BY <1>1 DEF Due, Busy
    <3>6. QED BY <3>1, <3>2, <3>4, <3>5
  <2>2. ServedSome(w, pick, q, n, 0)
    BY <2>1 DEF ServedSome
  <2>3. QED BY <1>6, <2>2 DEF Trace
<1>9. ASSUME NEW i \in 0 .. n, i # n, i \in D PROVE i + 1 \in D
  <2>1. PICK k \in 1 .. n : k = i + 1 /\ k - 1 = i
    BY <1>9
  <2>2. st[k] = OneStep(ServeKey(pick), st[k - 1], q[k])
    BY <1>6, <2>1 DEF Trace
  <2>3. PICK x : x = st[i] /\ ServedSome(x, pick, q, n, k - 1)
    BY <1>9, <2>1
  <2>4. PICK y : y = st[k] /\ y = ServeOne(pick, x, q[k])
    BY <2>1, <2>2, <2>3, Keys
  <2>5. ServedSome(y, pick, q, n, k)
    BY <1>5, <2>3, <2>4, ServedNext
  <2>6. ServedSome(st[k], pick, q, n, k) /\ k \in 0 .. n
    BY <2>1, <2>4, <2>5
  <2>7. QED BY <2>1, <2>6
<1>10. \A i \in 0 .. n : i \in D
  <2> HIDE DEF D
  <2> QED BY <1>8, <1>9, StepByStep
<1>11. ServedSome(st[n], pick, q, n, n)
  BY <1>10
<1>12. QED BY <1>6, <1>11 DEF ServedSome

-----------------------------------------------------------------------------
(* The steps.                                                              *)

(* Nothing is refused of a sound context.                                  *)
LEMMA SoundHasNoFault ==
  ASSUME NEW w, Sound(w)
  PROVE  Fault(w) = "none"
<1>1. ASSUME NEW a \in Agent, NEW d \in Days, w.sessions[a][d] # None
      PROVE  ~(w.sessions[a][d].breaks > 1)
  <2>1. PICK s : s = w.sessions[a][d] /\ SessionSound(s, d, w.minute)
    BY <1>1 DEF Sound, AgentSound, SessionsSound
  <2>2. s.breaks \in {0, 1}
    BY <2>1 DEF SessionSound
  <2>3. ~(s.breaks > 1)
    BY <2>2
  <2>4. QED BY <2>1, <2>3
<1>2. ASSUME NEW h \in Household
      PROVE  ~(w.money[h] < HeldMoney(w, h)) /\ ~(w.food[h] < HeldFood(w, h))
  <2>1. CASE Agent = {}
    <3>1. InHousehold(h) = {}
      BY <2>1 DEF InHousehold
    <3>2. HeldMoney(w, h) \in Int /\ HeldFood(w, h) \in Int
      <4>1. Known(w) /\ IsFiniteSet(InHousehold(h)) /\ InHousehold(h) \subseteq Agent
        BY <2>1, HouseholdFinite DEF Known
      <4>2. Priced(w) \in [Agent -> Nat] /\ Fed(w) \in [Agent -> Nat]
        BY <4>1, PricedType
      <4>3. QED BY <4>1, <4>2, TotalType, MoneyTotal, FoodTotal
    <3>3. QED BY <3>2 DEF Sound, Covered, Basic
  <2>2. CASE Agent # {}
    <3>1. PICK a \in Agent : TRUE
      BY <2>2
    <3>2. Known(w) /\ Elsewhere(w, w, a)
      BY BehaviorKnown DEF Sound, Known, Elsewhere
    <3>3. HeldMoney(w, h) \in Nat /\ HeldFood(w, h) \in Nat
      BY <3>2, HeldChanges
    <3>4. QED BY <3>3 DEF Sound, Covered, Basic
  <2>3. QED BY <2>1, <2>2
<1>3. w.repaid = FALSE
  BY DEF Sound, Basic
<1>4. QED BY <1>1, <1>2, <1>3 DEF Fault

LEMMA CommitStep ==
  ASSUME NEW w, Sound(w), Commit(w)
  PROVE  DayInv'
<1>1. Fault(w) = "none"
  BY SoundHasNoFault
<1>2. fault' = "none" /\ day' = w
  BY <1>1 DEF Commit
<1>3. Sound(day)'
  BY <1>2
<1>4. QED BY <1>2, <1>3 DEF DayInv

(* _advance_one_minute                                                     *)
LEMMA AdvanceStep ==
  ASSUME DayInv, Advance
  PROVE  DayInv'
<1>1. PICK felt, moved, closed, told, open :
        /\ day.minute < MaxMinute
        /\ felt = ApplyNeedChanges(NewMinute(day))
        /\ moved = ProgressActions(felt)
        /\ closed = FinalizeWorkSessions(moved)
        /\ told = UpdateLowResources(UpdateNeedCrises(closed))
        /\ open = OpenNear(told)
        /\ \E pick \in PicksOf(open) : \E q \in Queues(pick) : Commit(Served(open, pick, q))
  BY DEF Advance, NewMinute
<1>2. Sound(day)
  BY DEF DayInv
<1>3. PICK new : new = NewMinute(day)
  OBVIOUS
<1>4. /\ Basic(new) /\ Covered(new) /\ new.minute \in Nat
      /\ \A a \in Agent : AgentSound(new, a, new.minute - 1)
  BY <1>1, <1>2, <1>3, NextMinute
<1>5. Sound(felt)
  <2>1. felt = ApplyNeedChanges(new)
    BY <1>1, <1>3
  <2>2. QED BY <1>4, <2>1, FeltAll
<1>6. Sound(moved)
  BY <1>1, <1>5, ProgressAll
<1>7. Sound(closed)
  BY <1>1, <1>6, FinalizeAll
<1>8. PICK noted : noted = UpdateNeedCrises(closed)
  OBVIOUS
<1>9. Sound(noted)
  BY <1>7, <1>8, CrisesAll
<1>10. Sound(told)
  BY <1>1, <1>8, <1>9, LowAll
<1>11. Sound(open)
  BY <1>1, <1>10, OpenAll
<1>12. PICK pick \in PicksOf(open) : \E q \in Queues(pick) : Commit(Served(open, pick, q))
  BY <1>1
<1>13. PICK q \in Queues(pick) : Commit(Served(open, pick, q))
  BY <1>12
<1>14. Sound(Served(open, pick, q))
  BY <1>11, ServedAll
<1>15. PICK w : w = Served(open, pick, q)
  OBVIOUS
<1>16. Sound(w) /\ Commit(w)
  BY <1>13, <1>14, <1>15
<1>17. QED BY <1>16, CommitStep

(* fail_action                                                             *)
Failed(w, a) == [Terminate(w, a) EXCEPT !.at[a] = w.act[a].origin, !.told = <<>>]

LEMMA FailedStep ==
  ASSUME NEW w, NEW a \in Agent, Sound(w), w.act[a] # None, NEW x, x = Failed(w, a)
  PROVE  Sound(x)
<1>1. PICK f, g, r, nothing :
        /\ f = [w.act EXCEPT ![a] = None] /\ g = [w.at EXCEPT ![a] = w.act[a].origin]
        /\ r = [w.recent EXCEPT ![a] = w.act[a].b] /\ nothing = <<>>
  OBVIOUS
<1>2. x = [minute |-> w.minute, needs |-> w.needs, at |-> g, act |-> f,
       recent |-> r, money |-> w.money, food |-> w.food,
       sessions |-> w.sessions, settled |-> w.settled, repaid |-> w.repaid,
       crises |-> w.crises, low |-> w.low, tension |-> w.tension, told |-> nothing]
  BY <1>1 DEF Failed, Terminate, Sound, Basic, Context
<1>3. Basic(w) /\ AgentSound(w, a, w.minute)
  BY DEF Sound
<1>4. w.act = [c \in Agent |-> w.act[c]] /\ w.at = [c \in Agent |-> w.at[c]]
  BY <1>3 DEF Basic
<1>5. /\ f[a] = None /\ f = [c \in Agent |-> f[c]] /\ g = [c \in Agent |-> g[c]]
      /\ \A c \in Agent \ {a} : f[c] = w.act[c] /\ g[c] = w.at[c]
  BY <1>1, <1>4
<1>6. /\ Context(x) /\ x.minute = w.minute /\ x.at = g /\ x.act = f
      /\ x.money = w.money /\ x.food = w.food /\ x.sessions = w.sessions
      /\ x.settled = w.settled /\ x.repaid = w.repaid
  BY <1>2 DEF Context
<1>7. Basic(x)
  BY <1>3, <1>5, <1>6 DEF Basic
<1>8. Elsewhere(w, x, a) /\ OwnWage(w, x, a)
  BY <1>5, <1>6 DEF Elsewhere, OwnWage
<1>9. Booked(w, x, a)
  <2>1. PICK p, k \in Nat : p = PriceOf(w.act[a]) /\ k = FoodOf(w.act[a])
    BY <1>3, PricesKnown, BehaviorKnown
  <2>2. p \in Nat
    BY <1>3, <2>1, PricesKnown, BehaviorKnown
  <2>3. PriceOf(x.act[a]) = 0 /\ FoodOf(x.act[a]) = 0
    BY <1>5, <1>6 DEF PriceOf, FoodOf
  <2>4. ASSUME NEW h \in Household
        PROVE  /\ x.money[h] - w.money[h] >= IF Member[a] = h THEN 0 - p ELSE 0
               /\ x.food[h] - w.food[h] >= IF Member[a] = h THEN 0 - k ELSE 0
    <3>1. w.money[h] \in Int /\ w.food[h] \in Int
      BY <1>3 DEF Basic
    <3>2. QED BY <1>6, <2>1, <2>2, <3>1
  <2>5. QED BY <2>1, <2>3, <2>4 DEF Booked
<1>10. Moves(w, x, a)
  BY <1>6, <1>7, <1>8, <1>9 DEF Moves
<1>11. AgentSound(x, a, w.minute)
  BY <1>3, <1>5, <1>6 DEF AgentSound, SettledSound
<1>12. QED BY <1>10, <1>11, MoveSound

LEMMA FailStep ==
  ASSUME DayInv, NEW a \in Agent, FailAction(a)
  PROVE  DayInv'
<1>1. PICK x : x = Failed(day, a)
  OBVIOUS
<1>2. Commit(x) /\ day.act[a] # None
  BY <1>1 DEF FailAction, Failed, Busy
<1>3. Sound(x)
  BY <1>1, <1>2, FailedStep DEF DayInv
<1>4. QED BY <1>2, <1>3, CommitStep

(* Nobody holds anything at first.                                         *)
LEMMA TotalZero ==
  ASSUME NEW f, NEW S, IsFiniteSet(S), S \subseteq Agent, f = [c \in Agent |-> 0]
  PROVE  Total(f, S) = 0
<1>1. PICK g : g = [s \in SUBSET S |-> 0]
  OBVIOUS
<1>2. \A s \in SUBSET S : s # {} => Next1(s) \in Agent
  BY DEF Next1
<1>3. Adds(g, f, S)
  BY <1>1, <1>2 DEF Adds
<1>4. Total(f, S) = g[S]
  BY <1>3, AddsTotal
<1>5. QED BY <1>1, <1>4

LEMMA InitStep ==
  ASSUME Init
  PROVE  DayInv
<1>1. PICK w : w = day
  OBVIOUS
<1>2. /\ w.minute = 0 /\ w.at = Home /\ w.act = [a \in Agent |-> None]
      /\ w.money = StartMoney /\ w.food = StartFood
      /\ w.sessions = [a \in Agent |-> [d \in Days |-> None]]
      /\ w.settled = {} /\ w.repaid = FALSE /\ Context(w)
  BY <1>1 DEF Init, Context
<1>3. Basic(w)
  BY <1>2, SocietyDayConstants DEF Basic
<1>4. \A a \in Agent : AgentSound(w, a, w.minute)
  BY <1>2 DEF AgentSound, SessionsSound, SettledSound
<1>5. ASSUME NEW h \in Household
      PROVE  HeldMoney(w, h) <= w.money[h] /\ HeldFood(w, h) <= w.food[h]
  <2>1. Priced(w) = [c \in Agent |-> 0] /\ Fed(w) = [c \in Agent |-> 0]
    BY <1>2 DEF Priced, Fed, PriceOf, FoodOf
  <2>2. HeldMoney(w, h) = 0 /\ HeldFood(w, h) = 0
    BY <2>1, HouseholdFinite, MoneyTotal, FoodTotal, TotalZero
  <2>3. w.money[h] \in Nat /\ w.food[h] \in Nat
    BY <1>2, SocietyDayConstants
  <2>4. QED BY <2>2, <2>3
<1>6. Sound(w)
  BY <1>3, <1>4, <1>5 DEF Sound, Covered
<1>7. fault = "none"
  BY DEF Init
<1>8. QED BY <1>1, <1>6, <1>7 DEF DayInv

-----------------------------------------------------------------------------
(* Theorems.                                                               *)

(* In every reachable state the authority is sound and no call has raised: *)
(* the argument for the two below.                                         *)
THEOREM DayInvariant == Spec => []DayInv
<1>1. Init => DayInv
  BY InitStep
<1>2. DayInv /\ [Next]_vars => DayInv'
  <2>1. CASE UNCHANGED vars
    BY <2>1 DEF vars, DayInv
  <2>2. ASSUME DayInv, Advance PROVE DayInv'
    BY <2>2, AdvanceStep
  <2>3. ASSUME DayInv, NEW a \in Agent, FailAction(a) PROVE DayInv'
    BY <2>3, FailStep
  <2>4. QED BY <2>1, <2>2, <2>3 DEF Next
<1>3. QED BY <1>1, <1>2, PTL DEF Spec

(* No sequence of minutes and failed actions makes the engine raise, for   *)
(* any agents, catalog, week and starting stock: nothing is promised twice *)
(* within a household, nobody takes a second break in a shift and no wage  *)
(* is settled twice.                                                       *)
THEOREM NothingFails == Spec => []NeverFails
<1>1. DayInv => NeverFails
  BY DEF DayInv, NeverFails
<1>2. QED BY <1>1, DayInvariant, PTL

(* While a break lasts, the shift was begun in its grace and what is left  *)
(* of it after the break still completes it.                               *)
THEOREM BreaksKeepTheWage == Spec => []BreakKeepsWage
<1>1. DayInv => BreakKeepsWage
  <2>1. SUFFICES ASSUME DayInv, NEW a \in Agent, Doing(day, a, "take_break"),
                        NEW s, s = day.sessions[a][day.act[a].day], ~s.finalized
                 PROVE  Attended([s EXCEPT !.effective = @ + s.end - day.act[a].end])
    BY DEF BreakKeepsWage
  <2>2. PICK t : t = day.act[a]
    OBVIOUS
  <2>3. t # None /\ t.b = "take_break"
    BY <2>1, <2>2 DEF Doing, Performing, Busy
  <2>4. AgentSound(day, a, day.minute)
    BY <2>1 DEF DayInv, Sound
  <2>5. ActionSound(t, day.sessions[a])
    BY <2>2, <2>3, <2>4 DEF AgentSound
  <2>6. PICK d \in Days : d = t.day /\ s # None /\ BreakSound(t, s)
    BY <2>1, <2>2, <2>3, <2>5 DEF ActionSound, OnShift
  <2>7. SessionShape(s, d)
    BY <2>1, <2>2, <2>4, <2>6 DEF AgentSound, SessionsSound, SessionSound
  <2>8. Safe(s, t.end)
    BY <2>1, <2>6 DEF BreakSound
  <2>9. PICK r : r = [s EXCEPT !.effective = @ + s.end - t.end]
    OBVIOUS
  <2>10. /\ r.first = s.first /\ r.start = s.start /\ r.grace = s.grace /\ r.end = s.end
         /\ r.effective = s.effective + s.end - t.end
    BY <2>7, <2>9 DEF SessionShape
  <2>11. Attended(r)
    BY <2>8, <2>10 DEF Safe, Attended
  <2>12. QED BY <2>2, <2>9, <2>11
<1>2. QED BY <1>1, DayInvariant, PTL
=============================================================================
