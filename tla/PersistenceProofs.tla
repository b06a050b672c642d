------------------------- MODULE PersistenceProofs -------------------------
(***************************************************************************)
(* Theorems about Persistence: whatever is killed, resumed or driven in     *)
(* other chunks, for every seed (plot), every checkpoint interval and any   *)
(* number of runs, the runs of a seed agree (HistoriesAgree), their         *)
(* directories are whole (DirectoriesWhole), no checkpoint is lost or       *)
(* changed (CheckpointsStable) and a replay that comes to its report has    *)
(* rebuilt what a run left behind (ReplaysAgree).                          *)
(*                                                                         *)
(* What runs are compared with is not a state of any of them: History, the  *)
(* authority at every minute of a run that nothing disturbs.  A checkpoint  *)
(* that was loaded has its knowledge records in another order than the     *)
(* process that wrote it, so that a resumed run and the run it resumes are  *)
(* never equal in memory, only Alike.  CommitAlike is the heart: a commit   *)
(* of two states that are Alike leaves two that are, with the same log.     *)
(*                                                                         *)
(* A replay is compared with the same history: after n records it is at     *)
(* the last minute whose records it has all read (Reached), which holds     *)
(* whichever checkpoint it started from, since a patch takes any state that *)
(* is the same as the one before a commit to one that is the same as the    *)
(* one after it (PatchRestores).  It is never refused where the final       *)
(* checkpoint is not: this one is accepted exactly when what every agent    *)
(* knows in the end ascends (Calm), and then all its records of events it   *)
(* learnt came in that order, through whatever patches (Orderly).          *)
(***************************************************************************)
EXTENDS Persistence, Totals, SequenceTheorems

-----------------------------------------------------------------------------
(* Folds.                                                                  *)

(* One step of what is folded: k says which operator.                      *)
Recording(ed, w, new) ==
  IF ed = "M3"
    THEN [body |-> Body(w, new), previous |-> w.chain, next |-> Append(w.chain, Body(w, new))]
    ELSE [body |-> Body(w, new), previous |-> Public(w),
          next |-> Public([new EXCEPT !.version = w.version + 1])]
Emission(ed, w, new) ==
  Numbered("decision", w.created, new.created)
    \o Numbered("action", w.created, new.created)
    \o Numbered("event", Len(w.events), Len(new.events))
    \o Numbered("dialogue", w.lines, new.lines)
    \o <<[kind |-> "transaction", payload |-> Recording(ed, w, new)]>>
Closing(ed, w, new) ==
  LET envelopes == Envelopes(w.count, Emission(ed, w, new))
  IN  [new EXCEPT !.version = @ + 1, !.chain = Append(@, Body(w, new)),
                  !.count = @ + Len(envelopes), !.log = @ \o envelopes]
Playing(w, steps) == FoldLeft(Perform, [w EXCEPT !.minute = @ + 1], steps)
Committing(ed, p, w) == Closing(ed, w, Playing(w, p[w.minute + 1]))

Picked(w, x, kind) == IF x.kind = kind THEN Append(w, x) ELSE w
Owned(w, x, a) == IF x[1] = a THEN Append(w, x[2]) ELSE w
TownRecord(w, x) ==
  IF w = None \/ x.payload.body.id # w.version + 1 THEN None ELSE ApplyTown(w, x.payload)

Step(k, w, x) ==
  IF k.op = "learn" THEN Learn(w, x, k.event)
  ELSE IF k.op = "tell" THEN Told(w, x)
  ELSE IF k.op = "perform" THEN Perform(w, x)
  ELSE IF k.op = "commit" THEN Committing(k.edition, k.plot, w)
  ELSE IF k.op = "replay" THEN ReplayRecord(w, x, k.dir)
  ELSE IF k.op = "town" THEN TownRecord(w, x)
  ELSE IF k.op = "own" THEN Owned(w, x, k.agent)
  ELSE Picked(w, x, k.kind)

(* g is the recursive function by which FoldLeft takes these steps.        *)
Takes(g, k, w, q, S) ==
  g = [s \in SUBSET S |-> IF s = {} THEN w ELSE Step(k, g[s \ {Max(s)}], q[Max(s)])]

(* st goes from w step by step along q.                                    *)
Trace(st, k, w, q, n) ==
  /\ st[0] = w
  /\ \A i \in 1 .. n : st[i] = Step(k, st[i - 1], q[i])

(* With one step more there is such a function too.                        *)
LEMMA TakesOn ==
  ASSUME NEW k, NEW w, NEW q, NEW n \in Nat, NEW g, Takes(g, k, w, q, 1 .. n)
  PROVE  \E h : Takes(h, k, w, q, 1 .. n + 1)
<1> DEFINE G == [s \in SUBSET (1 .. n + 1) |->
                   IF n + 1 \in s THEN Step(k, g[s \ {n + 1}], q[n + 1]) ELSE g[s]]
<1>1. ASSUME NEW s \in SUBSET (1 .. n + 1)
      PROVE  G[s] = IF s = {} THEN w ELSE Step(k, G[s \ {Max(s)}], q[Max(s)])
  <2>1. CASE n + 1 \in s
    <3>1. Max(s) = n + 1
      BY <2>1, Greatest
    <3>2. s \ {n + 1} \in SUBSET (1 .. n + 1) /\ n + 1 \notin s \ {n + 1}
      OBVIOUS
    <3>3. G[s \ {n + 1}] = g[s \ {n + 1}]
      BY <3>2
    <3>4. QED BY <2>1, <3>1, <3>3
  <2>2. CASE n + 1 \notin s
    <3>0. \A x \in 1 .. n + 1 : x # n + 1 => x \in 1 .. n
      OBVIOUS
    <3>1. s \in SUBSET (1 .. n) /\ s \ {Max(s)} \in SUBSET (1 .. n)
          /\ s \ {Max(s)} \in SUBSET (1 .. n + 1) /\ n + 1 \notin s \ {Max(s)}
      BY <2>2, <3>0
    <3>2. g[s] = IF s = {} THEN w ELSE Step(k, g[s \ {Max(s)}], q[Max(s)])
      BY <3>1 DEF Takes
    <3>3. QED BY <2>2, <3>1, <3>2
  <2>3. QED BY <2>1, <2>2
<1>2. Takes(G, k, w, q, 1 .. n + 1)
  <2> DEFINE F == [s \in SUBSET (1 .. n + 1) |->
                     IF s = {} THEN w ELSE Step(k, G[s \ {Max(s)}], q[Max(s)])]
  <2>1. DOMAIN F = SUBSET (1 .. n + 1) /\ DOMAIN G = SUBSET (1 .. n + 1)
        /\ F = [s \in SUBSET (1 .. n + 1) |-> F[s]] /\ G = [s \in SUBSET (1 .. n + 1) |-> G[s]]
    OBVIOUS
  <2>2. \A s \in SUBSET (1 .. n + 1) : F[s] = G[s]
    <3> HIDE DEF G
    <3> QED BY <1>1
  <2>3. F = G
    <3> HIDE DEF F, G
    <3> QED BY <2>1, <2>2
  <2> HIDE DEF G
  <2>4. QED BY <2>3 DEF Takes
<1>3. QED BY <1>2

(* There is such a function for every sequence, and it takes a trace.      *)
LEMMA TakesExist ==
  ASSUME NEW k, NEW w, NEW q, NEW n \in Nat
  PROVE  \E g : Takes(g, k, w, q, 1 .. n)
<1> DEFINE S == {i \in Nat : \E g : Takes(g, k, w, q, 1 .. i)}
<1>1. 0 \in S
  <2>1. SUBSET (1 .. 0) = {{}}
    OBVIOUS
  <2>2. Takes([s \in SUBSET (1 .. 0) |-> w], k, w, q, 1 .. 0)
    BY <2>1 DEF Takes
  <2>3. QED BY <2>2
<1>2. \A i \in 0 .. n : i # n /\ i \in S => i + 1 \in S
  BY TakesOn
<1>3. \A i \in 0 .. n : i \in S
  <2> HIDE DEF S
  <2> QED BY <1>1, <1>2, StepByStep
<1>4. QED BY <1>3

LEMMA TakesTrace ==
  ASSUME NEW k, NEW w, NEW q, NEW n \in Nat, NEW g, Takes(g, k, w, q, 1 .. n),
         NEW st, st = [i \in 0 .. n |-> g[1 .. i]]
  PROVE  Trace(st, k, w, q, n)
<1>1. \A s \in SUBSET (1 .. n) : g[s] = IF s = {} THEN w ELSE Step(k, g[s \ {Max(s)}], q[Max(s)])
  BY DEF Takes
<1>2. 1 .. 0 = {} /\ 0 \in 0 .. n
  OBVIOUS
<1>3. ASSUME NEW i \in 1 .. n PROVE g[1 .. i] = Step(k, g[1 .. i - 1], q[i])
  <2>1. 1 .. i \in SUBSET (1 .. n) /\ 1 .. i # {} /\ i \in 1 .. i /\ (1 .. i) \ {i} = 1 .. i - 1
    OBVIOUS
  <2>2. Max(1 .. i) = i
    <3>1. i - 1 \in Nat /\ (i - 1) + 1 = i
      OBVIOUS
    <3>2. PICK m \in Nat : m = i - 1
      BY <3>1
    <3>3. m + 1 = i /\ 1 .. i \in SUBSET (1 .. m + 1) /\ m + 1 \in 1 .. i
      BY <3>2
    <3>4. QED BY <3>3, Greatest
  <2>3. QED BY <1>1, <2>1, <2>2
<1>4. g[1 .. 0] = w
  BY <1>1, <1>2
<1>5. \A i \in 1 .. n : i \in 0 .. n /\ i - 1 \in 0 .. n
  OBVIOUS
<1>6. QED BY <1>2, <1>3, <1>4, <1>5 DEF Trace

(* The folds of the model take such steps.                                 *)
LearnKey(e) == [op |-> "learn", event |-> e]
TellKey == [op |-> "tell"]
PerformKey == [op |-> "perform"]
CommitKey(ed, p) == [op |-> "commit", edition |-> ed, plot |-> p]
SelectKey(kind) == [op |-> "select", kind |-> kind]
ReplayKey(d) == [op |-> "replay", dir |-> d]
TownKey == [op |-> "town"]
OwnKey(a) == [op |-> "own", agent |-> a]

LEMMA Keys ==
  /\ \A e, w, x : Step(LearnKey(e), w, x) = Learn(w, x, e)
  /\ \A w, x : Step(TellKey, w, x) = Told(w, x)
  /\ \A w, x : Step(PerformKey, w, x) = Perform(w, x)
  /\ \A ed, p, w, x : Step(CommitKey(ed, p), w, x) = Committing(ed, p, w)
  /\ \A kind, w, x : Step(SelectKey(kind), w, x) = Picked(w, x, kind)
  /\ \A d, w, x : Step(ReplayKey(d), w, x) = ReplayRecord(w, x, d)
  /\ \A w, x : Step(TownKey, w, x) = TownRecord(w, x)
  /\ \A a, w, x : Step(OwnKey(a), w, x) = Owned(w, x, a)
<1>1. \A e : LearnKey(e).op = "learn" /\ LearnKey(e).event = e
  BY DEF LearnKey
<1>2. TellKey.op = "tell" /\ PerformKey.op = "perform"
  BY DEF TellKey, PerformKey
<1>3. \A ed, p : /\ CommitKey(ed, p).op = "commit" /\ CommitKey(ed, p).edition = ed
                 /\ CommitKey(ed, p).plot = p
  BY DEF CommitKey
<1>4. \A kind : SelectKey(kind).op = "select" /\ SelectKey(kind).kind = kind
  BY DEF SelectKey
<1>5. \A d : ReplayKey(d).op = "replay" /\ ReplayKey(d).dir = d
  BY DEF ReplayKey
<1>6. TownKey.op = "town"
  BY DEF TownKey
<1>7. \A a : OwnKey(a).op = "own" /\ OwnKey(a).agent = a
  BY DEF OwnKey
<1>8. QED BY <1>1, <1>2, <1>3, <1>4, <1>5, <1>6, <1>7 DEF Step

Learnt(e, w, q) == FoldLeft(LAMBDA v, a : Learn(v, a, e), w, q)
Telling(w, q) == FoldLeft(Told, w, q)
Performed(w, q) == FoldLeft(Perform, w, q)

LEMMA LearnFold ==
  ASSUME NEW e, NEW w, NEW q, NEW n \in Nat, DOMAIN q = 1 .. n
  PROVE  \E st : /\ Trace(st, LearnKey(e), w, q, n)
                 /\ Learnt(e, w, q) = st[n]
<1> DEFINE T(g) == g = [s \in SUBSET DOMAIN q |->
                          IF s = {} THEN w ELSE Learn(g[s \ {Max(s)}], q[Max(s)], e)]
<1>0. \A v, x : Learn(v, x, e) = Step(LearnKey(e), v, x)
  BY Keys
<1>1. \A g : T(g) <=> Takes(g, LearnKey(e), w, q, 1 .. n)
  BY <1>0 DEF Takes
<1>2. \E g : T(g)
  BY <1>1, TakesExist
<1>3. PICK g : g = (CHOOSE h : T(h)) /\ T(g)
  <2> HIDE DEF T
  <2> QED BY <1>2
<1>4. Learnt(e, w, q) = g[DOMAIN q]
  BY <1>3 DEF Learnt, FoldLeft, MapThenFoldSet
<1>5. PICK st : st = [i \in 0 .. n |-> g[1 .. i]]
  OBVIOUS
<1>6. Trace(st, LearnKey(e), w, q, n)
  <2>1. Takes(g, LearnKey(e), w, q, 1 .. n)
    <3> HIDE DEF T
    <3> QED BY <1>1, <1>3
  <2>2. QED BY <1>5, <2>1, TakesTrace
<1>7. st[n] = g[1 .. n]
  BY <1>5
<1>8. QED BY <1>4, <1>6, <1>7

LEMMA TellFold ==
  ASSUME NEW w, NEW q, NEW n \in Nat, DOMAIN q = 1 .. n
  PROVE  \E st : Trace(st, TellKey, w, q, n) /\ Telling(w, q) = st[n]
<1> DEFINE T(g) == g = [s \in SUBSET DOMAIN q |->
                          IF s = {} THEN w ELSE Told(g[s \ {Max(s)}], q[Max(s)])]
<1>0. \A v, x : Told(v, x) = Step(TellKey, v, x)
  BY Keys
<1>1. \A g : T(g) <=> Takes(g, TellKey, w, q, 1 .. n)
  BY <1>0 DEF Takes
<1>2. \E g : T(g)
  BY <1>1, TakesExist
<1>3. PICK g : g = (CHOOSE h : T(h)) /\ T(g)
  <2> HIDE DEF T
  <2> QED BY <1>2
<1>4. Telling(w, q) = g[DOMAIN q]
  BY <1>3 DEF Telling, FoldLeft, MapThenFoldSet
<1>5. PICK st : st = [i \in 0 .. n |-> g[1 .. i]]
  OBVIOUS
<1>6. Trace(st, TellKey, w, q, n)
  <2>1. Takes(g, TellKey, w, q, 1 .. n)
    <3> HIDE DEF T
    <3> QED BY <1>1, <1>3
  <2>2. QED BY <1>5, <2>1, TakesTrace
<1>7. st[n] = g[1 .. n]
  BY <1>5
<1>8. QED BY <1>4, <1>6, <1>7

LEMMA PerformFold ==
  ASSUME NEW w, NEW q, NEW n \in Nat, DOMAIN q = 1 .. n
  PROVE  \E st : Trace(st, PerformKey, w, q, n) /\ Performed(w, q) = st[n]
<1> DEFINE T(g) == g = [s \in SUBSET DOMAIN q |->
                          IF s = {} THEN w ELSE Perform(g[s \ {Max(s)}], q[Max(s)])]
<1>0. \A v, x : Perform(v, x) = Step(PerformKey, v, x)
  BY Keys
<1>1. \A g : T(g) <=> Takes(g, PerformKey, w, q, 1 .. n)
  BY <1>0 DEF Takes
<1>2. \E g : T(g)
  BY <1>1, TakesExist
<1>3. PICK g : g = (CHOOSE h : T(h)) /\ T(g)
  <2> HIDE DEF T
  <2> QED BY <1>2
<1>4. Performed(w, q) = g[DOMAIN q]
  BY <1>3 DEF Performed, FoldLeft, MapThenFoldSet
<1>5. PICK st : st = [i \in 0 .. n |-> g[1 .. i]]
  OBVIOUS
<1>6. Trace(st, PerformKey, w, q, n)
  <2>1. Takes(g, PerformKey, w, q, 1 .. n)
    <3> HIDE DEF T
    <3> QED BY <1>1, <1>3
  <2>2. QED BY <1>5, <2>1, TakesTrace
<1>7. st[n] = g[1 .. n]
  BY <1>5
<1>8. QED BY <1>4, <1>6, <1>7

LEMMA SelectFold ==
  ASSUME NEW kind, NEW q, NEW n \in Nat, DOMAIN q = 1 .. n
  PROVE  \E st : Trace(st, SelectKey(kind), <<>>, q, n) /\ OfKind(q, kind) = st[n]
<1> DEFINE T(g) == g = [s \in SUBSET DOMAIN q |->
                          IF s = {} THEN <<>> ELSE Picked(g[s \ {Max(s)}], q[Max(s)], kind)]
<1>0. \A v, x : Picked(v, x, kind) = Step(SelectKey(kind), v, x)
  BY Keys
<1>1. \A g : T(g) <=> Takes(g, SelectKey(kind), <<>>, q, 1 .. n)
  BY <1>0 DEF Takes
<1>2. \E g : T(g)
  BY <1>1, TakesExist
<1>3. PICK g : g = (CHOOSE h : T(h)) /\ T(g)
  <2> HIDE DEF T
  <2> QED BY <1>2
<1>4. OfKind(q, kind) = g[DOMAIN q]
  BY <1>3 DEF OfKind, Picked, FoldLeft, MapThenFoldSet
<1>5. PICK st : st = [i \in 0 .. n |-> g[1 .. i]]
  OBVIOUS
<1>6. Trace(st, SelectKey(kind), <<>>, q, n)
  <2>1. Takes(g, SelectKey(kind), <<>>, q, 1 .. n)
    <3> HIDE DEF T
    <3> QED BY <1>1, <1>3
  <2> HIDE DEF T
  <2>2. QED BY <1>5, <2>1, TakesTrace
<1>7. st[n] = g[1 .. n]
  BY <1>5
<1>8. QED BY <1>4, <1>6, <1>7

LEMMA OwnFold ==
  ASSUME NEW a, NEW q, NEW n \in Nat, DOMAIN q = 1 .. n
  PROVE  \E st : Trace(st, OwnKey(a), <<>>, q, n) /\ Own(q, a) = st[n]
<1> DEFINE T(g) == g = [s \in SUBSET DOMAIN q |->
                          IF s = {} THEN <<>> ELSE Owned(g[s \ {Max(s)}], q[Max(s)], a)]
<1>0. \A v, x : Owned(v, x, a) = Step(OwnKey(a), v, x)
  BY Keys
<1>1. \A g : T(g) <=> Takes(g, OwnKey(a), <<>>, q, 1 .. n)
  BY <1>0 DEF Takes
<1>2. \E g : T(g)
  BY <1>1, TakesExist
<1>3. PICK g : g = (CHOOSE h : T(h)) /\ T(g)
  <2> HIDE DEF T
  <2> QED BY <1>2
<1>4. Own(q, a) = g[DOMAIN q]
  BY <1>3 DEF Own, Owned, FoldLeft, MapThenFoldSet
<1>5. PICK st : st = [i \in 0 .. n |-> g[1 .. i]]
  OBVIOUS
<1>6. Trace(st, OwnKey(a), <<>>, q, n)
  <2>1. Takes(g, OwnKey(a), <<>>, q, 1 .. n)
    <3> HIDE DEF T
    <3> QED BY <1>1, <1>3
  <2> HIDE DEF T
  <2>2. QED BY <1>5, <2>1, TakesTrace
<1>7. st[n] = g[1 .. n]
  BY <1>5
<1>8. QED BY <1>4, <1>6, <1>7

(* A commit is such a step, in either edition.                             *)
LEMMA CommittedIs == ASSUME NEW w PROVE Committed(w) = Committing(edition, plot, w)
BY DEF Committed, Committing, Closing, Emission, Recording, Playing, Minute, Emitted, Transaction

LEMMA CommitFold ==
  ASSUME NEW w, NEW q, NEW n \in Nat, DOMAIN q = 1 .. n
  PROVE  \E st : /\ Trace(st, CommitKey(edition, plot), w, q, n)
                 /\ FoldLeft(LAMBDA v, m : Committed(v), w, q) = st[n]
<1> DEFINE T(g) == g = [s \in SUBSET DOMAIN q |->
                          IF s = {} THEN w ELSE Committed(g[s \ {Max(s)}])]
<1>0. \A v, x : Committed(v) = Step(CommitKey(edition, plot), v, x)
  <2>1. \A v : Committed(v) = Committing(edition, plot, v)
    BY CommittedIs
  <2>2. QED BY <2>1, Keys
<1>1. \A g : T(g) <=> Takes(g, CommitKey(edition, plot), w, q, 1 .. n)
  BY <1>0 DEF Takes
<1>2. \E g : T(g)
  BY <1>1, TakesExist
<1>3. PICK g : g = (CHOOSE h : T(h)) /\ T(g)
  <2> HIDE DEF T
  <2> QED BY <1>2
<1>4. FoldLeft(LAMBDA v, m : Committed(v), w, q) = g[DOMAIN q]
  BY <1>3 DEF FoldLeft, MapThenFoldSet
<1>5. PICK st : st = [i \in 0 .. n |-> g[1 .. i]]
  OBVIOUS
<1>6. Trace(st, CommitKey(edition, plot), w, q, n)
  <2>1. Takes(g, CommitKey(edition, plot), w, q, 1 .. n)
    <3> HIDE DEF T
    <3> QED BY <1>1, <1>3
  <2>2. QED BY <1>5, <2>1, TakesTrace
<1>7. st[n] = g[1 .. n]
  BY <1>5
<1>8. QED BY <1>4, <1>6, <1>7

-----------------------------------------------------------------------------
(* The authority.                                                          *)

(* A state of the authority, its log as long as its cursor says.           *)
Shape(w) ==
  w = [minute |-> w.minute, version |-> w.version, known |-> w.known,
       knowledge |-> w.knowledge, actions |-> w.actions, created |-> w.created,
       lines |-> w.lines, events |-> w.events, count |-> w.count, log |-> w.log,
       chain |-> w.chain]

(* The two ledgers of what is known name the same events.                  *)
Ledgers(known, records) ==
  \A a \in Agent : \A e : <<a, e>> \in records <=> e \in Range(known[a])

World(w) ==
  /\ Shape(w)
  /\ Ledgers(w.known, Range(w.knowledge))
  /\ w.minute \in Nat /\ w.version \in Nat /\ w.created \in Nat /\ w.lines \in Nat
  /\ w.known \in [Agent -> Seq(Nat)] /\ w.knowledge \in Seq(Agent \X Nat)
  /\ w.actions \in SUBSET Nat /\ w.events \in Seq(Nat)
  /\ w.log \in Seq(Range(w.log)) /\ w.count = Len(w.log)

(* Two states that differ at most in the order of the knowledge records.   *)
Alike(v, w) ==
  /\ v.minute = w.minute /\ v.version = w.version /\ v.known = w.known
  /\ Range(v.knowledge) = Range(w.knowledge) /\ v.actions = w.actions
  /\ v.created = w.created /\ v.lines = w.lines /\ v.events = w.events
  /\ v.count = w.count /\ v.log = w.log /\ v.chain = w.chain

(* What an agent knows is only ever added to.                              *)
Prefixed(known, later) ==
  \A a \in Agent : /\ Len(known[a]) <= Len(later[a])
                   /\ \A i \in 1 .. Len(known[a]) : later[a][i] = known[a][i]

(* w is v after some steps of a minute.                                    *)
Grown(v, w) ==
  /\ Prefixed(v.known, w.known)
  /\ w.minute = v.minute /\ w.version = v.version
  /\ w.count = v.count /\ w.log = v.log /\ w.chain = v.chain
  /\ v.created <= w.created /\ v.lines <= w.lines
  /\ Range(v.knowledge) \subseteq Range(w.knowledge)
  /\ Len(v.events) <= Len(w.events)
  /\ \A i \in 1 .. Len(v.events) : w.events[i] = v.events[i]

LEMMA Worldly ==
  ASSUME NEW w, World(w)
  PROVE  /\ w.minute \in Nat /\ w.version \in Nat /\ w.created \in Nat /\ w.lines \in Nat
         /\ w.known \in [Agent -> Seq(Nat)] /\ w.knowledge \in Seq(Agent \X Nat)
         /\ w.actions \in SUBSET Nat /\ w.events \in Seq(Nat) /\ Len(w.events) \in Nat
         /\ w.log \in Seq(Range(w.log)) /\ w.count = Len(w.log) /\ w.count \in Nat
         /\ Ledgers(w.known, Range(w.knowledge)) /\ Prefixed(w.known, w.known)
<1>1. /\ w.minute \in Nat /\ w.version \in Nat /\ w.created \in Nat /\ w.lines \in Nat
      /\ w.known \in [Agent -> Seq(Nat)] /\ w.knowledge \in Seq(Agent \X Nat)
      /\ w.actions \in SUBSET Nat /\ w.events \in Seq(Nat)
      /\ w.log \in Seq(Range(w.log)) /\ w.count = Len(w.log)
  BY DEF World
<1>2. Len(w.events) \in Nat /\ Len(w.log) \in Nat
  BY <1>1, LenProperties
<1>3. Ledgers(w.known, Range(w.knowledge))
  BY DEF World
<1>4. Prefixed(w.known, w.known)
  <2>1. \A a \in Agent : Len(w.known[a]) \in Nat
    BY <1>1, LenProperties
  <2>2. QED BY <2>1 DEF Prefixed
<1>5. QED BY <1>1, <1>2, <1>3, <1>4

LEMMA PrefixedOn ==
  ASSUME NEW x \in [Agent -> Seq(Nat)], NEW y \in [Agent -> Seq(Nat)],
         NEW z \in [Agent -> Seq(Nat)], Prefixed(x, y), Prefixed(y, z)
  PROVE  Prefixed(x, z)
<1>1. SUFFICES ASSUME NEW a \in Agent
               PROVE  /\ Len(x[a]) <= Len(z[a])
                      /\ \A i \in 1 .. Len(x[a]) : z[a][i] = x[a][i]
  BY DEF Prefixed
<1>2. Len(x[a]) \in Nat /\ Len(y[a]) \in Nat /\ Len(z[a]) \in Nat
  BY LenProperties
<1>3. /\ Len(x[a]) <= Len(y[a]) /\ \A i \in 1 .. Len(x[a]) : y[a][i] = x[a][i]
      /\ Len(y[a]) <= Len(z[a]) /\ \A i \in 1 .. Len(y[a]) : z[a][i] = y[a][i]
  BY DEF Prefixed
<1>4. QED BY <1>2, <1>3

LEMMA GrownOn ==
  ASSUME NEW u, NEW v, NEW w, World(u), World(v), World(w), Grown(u, v), Grown(v, w)
  PROVE  Grown(u, w)
<1>1. /\ u.created \in Nat /\ v.created \in Nat /\ w.created \in Nat
      /\ u.lines \in Nat /\ v.lines \in Nat /\ w.lines \in Nat
      /\ Len(u.events) \in Nat /\ Len(v.events) \in Nat /\ Len(w.events) \in Nat
  BY Worldly
<1>2. u.created <= w.created /\ u.lines <= w.lines /\ Len(u.events) <= Len(w.events)
  BY <1>1 DEF Grown
<1>3. \A i \in 1 .. Len(u.events) : w.events[i] = u.events[i]
  BY <1>1 DEF Grown
<1>4. Prefixed(u.known, w.known)
  <2>1. Prefixed(u.known, v.known) /\ Prefixed(v.known, w.known)
    BY DEF Grown
  <2>2. QED BY <2>1, PrefixedOn, Worldly
<1>5. QED BY <1>2, <1>3, <1>4 DEF Grown

(* Appending one thing.                                                    *)
LEMMA Appending ==
  ASSUME NEW S, NEW s \in Seq(S), NEW x \in S
  PROVE  /\ Append(s, x) \in Seq(S) /\ Range(Append(s, x)) = Range(s) \cup {x}
         /\ Len(Append(s, x)) = Len(s) + 1
         /\ \A i \in 1 .. Len(s) : Append(s, x)[i] = s[i]
<1>1. /\ Append(s, x) \in Seq(S) /\ Len(Append(s, x)) = Len(s) + 1
      /\ \A i \in 1 .. Len(s) : Append(s, x)[i] = s[i]
      /\ Append(s, x)[Len(s) + 1] = x
  BY AppendProperties
<1>2. Len(s) \in Nat /\ DOMAIN s = 1 .. Len(s) /\ DOMAIN Append(s, x) = 1 .. Len(s) + 1
  BY <1>1, LenProperties
<1>3. PICK t : t = Append(s, x)
  OBVIOUS
<1>4. Range(t) \subseteq Range(s) \cup {x}
  BY <1>1, <1>2, <1>3 DEF Range
<1>5. Range(s) \subseteq Range(t)
  BY <1>1, <1>2, <1>3 DEF Range
<1>6. x \in Range(t)
  BY <1>1, <1>2, <1>3 DEF Range
<1>7. QED BY <1>1, <1>3, <1>4, <1>5, <1>6

(* What there is to know of an agent that learns something new.            *)
Taught(known, a, e) == [known EXCEPT ![a] = Append(@, e)]
Learning(w, a, e, u) ==
  /\ Shape(u)
  /\ u.minute = w.minute /\ u.version = w.version
  /\ u.known = Taught(w.known, a, e) /\ u.knowledge = Append(w.knowledge, <<a, e>>)
  /\ u.actions = w.actions /\ u.created = w.created /\ u.lines = w.lines
  /\ u.events = w.events /\ u.count = w.count /\ u.log = w.log /\ u.chain = w.chain

LEMMA Learned ==
  ASSUME NEW w, World(w), NEW a, NEW e, <<a, e>> \notin Range(w.knowledge)
  PROVE  Learning(w, a, e, Learn(w, a, e))
<1>1. Shape(w)
  BY DEF World
<1>2. QED BY <1>1 DEF Shape, Learn, Learning, Taught

LEMMA Knowing ==
  ASSUME NEW w, World(w), NEW a \in Agent, NEW e \in Nat
  PROVE  /\ Append(w.knowledge, <<a, e>>) \in Seq(Agent \X Nat)
         /\ Range(Append(w.knowledge, <<a, e>>)) = Range(w.knowledge) \cup {<<a, e>>}
<1>1. PICK s, x, S : s = w.knowledge /\ x = <<a, e>> /\ S = Agent \X Nat
  OBVIOUS
<1>2. s \in Seq(S) /\ x \in S
  BY <1>1, Worldly
<1>3. Append(s, x) \in Seq(S) /\ Range(Append(s, x)) = Range(s) \cup {x}
  BY <1>2, Appending
<1>4. QED BY <1>1, <1>3

LEMMA Teaching ==
  ASSUME NEW known \in [Agent -> Seq(Nat)], NEW a \in Agent, NEW e \in Nat,
         NEW records, Ledgers(known, records)
  PROVE  /\ Ledgers(Taught(known, a, e), records \cup {<<a, e>>})
         /\ Prefixed(known, Taught(known, a, e))
<1>1. PICK s, t, k : s = known[a] /\ t = Append(s, e) /\ k = Taught(known, a, e)
  OBVIOUS
<1>2. s \in Seq(Nat) /\ Len(s) \in Nat
  BY <1>1, LenProperties
<1>3. /\ Range(t) = Range(s) \cup {e} /\ Len(t) = Len(s) + 1
      /\ \A i \in 1 .. Len(s) : t[i] = s[i]
  BY <1>1, <1>2, Appending
<1>4. k[a] = t /\ \A b \in Agent : b # a => k[b] = known[b]
  BY <1>1 DEF Taught
<1>5. Ledgers(k, records \cup {<<a, e>>})
  <2>1. SUFFICES ASSUME NEW b \in Agent, NEW x
                 PROVE  <<b, x>> \in records \cup {<<a, e>>} <=> x \in Range(k[b])
    BY DEF Ledgers
  <2>2. <<b, x>> \in records <=> x \in Range(known[b])
    BY DEF Ledgers
  <2>3. <<b, x>> = <<a, e>> <=> b = a /\ x = e
    OBVIOUS
  <2>4. QED BY <1>1, <1>3, <1>4, <2>2, <2>3
<1>6. Prefixed(known, k)
  <2>1. SUFFICES ASSUME NEW b \in Agent
                 PROVE  /\ Len(known[b]) <= Len(k[b])
                        /\ \A i \in 1 .. Len(known[b]) : k[b][i] = known[b][i]
    BY DEF Prefixed
  <2>2. Len(known[b]) \in Nat
    BY LenProperties
  <2>3. CASE b = a
    <3>1. known[b] = s /\ k[b] = t
      BY <1>1, <1>4, <2>3
    <3>2. Len(s) <= Len(t)
      BY <1>2, <1>3
    <3>3. QED BY <1>3, <3>1, <3>2
  <2>4. CASE b # a
    BY <1>4, <2>2, <2>4
  <2>5. QED BY <2>3, <2>4
<1>7. QED BY <1>1, <1>5, <1>6

LEMMA LearnGrows ==
  ASSUME NEW w, World(w), NEW a \in Agent, NEW e \in Nat
  PROVE  World(Learn(w, a, e)) /\ Grown(w, Learn(w, a, e))
<1>1. CASE <<a, e>> \in Range(w.knowledge)
  <2>1. Learn(w, a, e) = w
    BY <1>1 DEF Learn
  <2>2. Grown(w, w)
    BY Worldly DEF Grown
  <2>3. QED BY <2>1, <2>2
<1>2. CASE <<a, e>> \notin Range(w.knowledge)
  <2>1. PICK u : u = Learn(w, a, e)
    OBVIOUS
  <2>2. Learning(w, a, e, u)
    BY <1>2, <2>1, Learned
  <2>3. /\ u.knowledge \in Seq(Agent \X Nat)
        /\ Range(u.knowledge) = Range(w.knowledge) \cup {<<a, e>>}
    <3>1. u.knowledge = Append(w.knowledge, <<a, e>>)
      BY <2>2 DEF Learning
    <3>2. QED BY <3>1, Knowing
  <2>4. u.known \in [Agent -> Seq(Nat)]
    <3>1. w.known[a] \in Seq(Nat)
      BY Worldly
    <3>2. Append(w.known[a], e) \in Seq(Nat)
      BY <3>1, AppendProperties
    <3>3. QED BY <2>2, <3>2, Worldly DEF Learning, Taught
  <2>4a. Ledgers(u.known, Range(u.knowledge)) /\ Prefixed(w.known, u.known)
    <3>1. u.known = Taught(w.known, a, e)
      BY <2>2 DEF Learning
    <3>2. Ledgers(w.known, Range(w.knowledge)) /\ w.known \in [Agent -> Seq(Nat)]
      BY Worldly
    <3>3. QED BY <2>3, <3>1, <3>2, Teaching
  <2>5. World(u)
    <3>1. /\ w.minute \in Nat /\ w.version \in Nat /\ w.created \in Nat /\ w.lines \in Nat
          /\ w.actions \in SUBSET Nat /\ w.events \in Seq(Nat)
          /\ w.log \in Seq(Range(w.log)) /\ w.count = Len(w.log)
      BY Worldly
    <3>2. QED BY <2>2, <2>3, <2>4, <2>4a, <3>1 DEF Learning, World
  <2>6. Grown(w, u)
    <3>1. /\ w.created \in Nat /\ w.lines \in Nat /\ Len(w.events) \in Nat
      BY Worldly
    <3>2. /\ u.minute = w.minute /\ u.version = w.version /\ u.created = w.created
          /\ u.lines = w.lines /\ u.events = w.events
          /\ u.count = w.count /\ u.log = w.log /\ u.chain = w.chain
      BY <2>2 DEF Learning
    <3>3. Range(w.knowledge) \subseteq Range(u.knowledge)
      BY <2>3
    <3>4. QED BY <2>4a, <3>1, <3>2, <3>3 DEF Grown
  <2>7. QED BY <2>1, <2>5, <2>6
<1>3. QED BY <1>1, <1>2

LEMMA LearnAlike ==
  ASSUME NEW v, NEW w, World(v), World(w), Alike(v, w), NEW a \in Agent, NEW e \in Nat
  PROVE  Alike(Learn(v, a, e), Learn(w, a, e))
<1>1. CASE <<a, e>> \in Range(w.knowledge)
  BY <1>1 DEF Alike, Learn
<1>2. CASE <<a, e>> \notin Range(w.knowledge)
  <2>1. <<a, e>> \notin Range(v.knowledge)
    BY <1>2 DEF Alike
  <2>2. PICK x, y : x = Learn(v, a, e) /\ y = Learn(w, a, e)
    OBVIOUS
  <2>3. Learning(v, a, e, x) /\ Learning(w, a, e, y)
    BY <1>2, <2>1, <2>2, Learned
  <2>4. /\ Range(x.knowledge) = Range(v.knowledge) \cup {<<a, e>>}
        /\ Range(y.knowledge) = Range(w.knowledge) \cup {<<a, e>>}
    BY <2>3, Knowing DEF Learning
  <2>5. QED BY <2>2, <2>3, <2>4 DEF Learning, Alike
<1>3. QED BY <1>1, <1>2

(* Steps that keep a state and grow it, and that do not look at the order  *)
(* of the knowledge records.                                               *)
Keeps(k, q, n) ==
  \A i \in 1 .. n : \A v :
    World(v) => World(Step(k, v, q[i])) /\ Grown(v, Step(k, v, q[i]))
Blind(k, q, n) ==
  \A i \in 1 .. n : \A v, w :
    World(v) /\ World(w) /\ Alike(v, w) => Alike(Step(k, v, q[i]), Step(k, w, q[i]))

LEMMA TraceGrows ==
  ASSUME NEW k, NEW q, NEW n \in Nat, Keeps(k, q, n), NEW w, World(w),
         NEW st, Trace(st, k, w, q, n)
  PROVE  \A i \in 0 .. n : World(st[i]) /\ Grown(w, st[i])
<1> DEFINE S == {i \in 0 .. n : World(st[i]) /\ Grown(w, st[i])}
<1>1. 0 \in S
  <2>1. Grown(w, w)
    BY Worldly DEF Grown
  <2>2. QED BY <2>1 DEF Trace
<1>2. ASSUME NEW i \in 0 .. n, i # n, i \in S PROVE i + 1 \in S
  <2>1. i + 1 \in 1 .. n /\ i + 1 \in 0 .. n /\ (i + 1) - 1 = i
    BY <1>2
  <2>2. st[i + 1] = Step(k, st[i], q[i + 1])
    BY <2>1 DEF Trace
  <2>3. World(st[i + 1]) /\ Grown(st[i], st[i + 1])
    BY <1>2, <2>1, <2>2 DEF Keeps
  <2>4. Grown(w, st[i + 1])
    BY <1>2, <2>3, GrownOn
  <2>5. QED BY <2>1, <2>3, <2>4
<1>3. \A i \in 0 .. n : i \in S
  <2> HIDE DEF S
  <2> QED BY <1>1, <1>2, StepByStep
<1>4. QED BY <1>3

LEMMA TraceAlike ==
  ASSUME NEW k, NEW q, NEW n \in Nat, Keeps(k, q, n), Blind(k, q, n),
         NEW v, World(v), NEW w, World(w), Alike(v, w),
         NEW st, Trace(st, k, v, q, n), NEW tt, Trace(tt, k, w, q, n)
  PROVE  Alike(st[n], tt[n])
<1>1. \A i \in 0 .. n : World(st[i]) /\ World(tt[i])
  BY TraceGrows
<1> DEFINE S == {i \in 0 .. n : Alike(st[i], tt[i])}
<1>2. 0 \in S
  BY DEF Trace
<1>3. ASSUME NEW i \in 0 .. n, i # n, i \in S PROVE i + 1 \in S
  <2>1. i + 1 \in 1 .. n /\ i + 1 \in 0 .. n /\ (i + 1) - 1 = i
    BY <1>3
  <2>2. st[i + 1] = Step(k, st[i], q[i + 1]) /\ tt[i + 1] = Step(k, tt[i], q[i + 1])
    BY <2>1 DEF Trace
  <2>3. Alike(st[i + 1], tt[i + 1])
    BY <1>1, <1>3, <2>1, <2>2 DEF Blind
  <2>4. QED BY <2>1, <2>3
<1>4. \A i \in 0 .. n : i \in S
  <2> HIDE DEF S
  <2> QED BY <1>2, <1>3, StepByStep
<1>5. n \in 0 .. n
  OBVIOUS
<1>6. QED BY <1>4, <1>5

-----------------------------------------------------------------------------
(* Sorting.                                                                *)

(* before is a strict order of S, given by what comes before each element. *)
Orders(before, S) ==
  /\ before = [x \in S |-> before[x]]
  /\ \A x \in S : before[x] \subseteq S /\ x \notin before[x]
  /\ \A x, y \in S : x = y \/ x \in before[y] \/ y \in before[x]
  /\ \A x, y, z \in S : x \in before[y] /\ y \in before[z] => x \in before[z]

(* Sorted lists each element once.                                         *)
LEMMA SortedLists ==
  ASSUME NEW S, IsFiniteSet(S), NEW before, Orders(before, S)
  PROVE  /\ Cardinality(S) \in Nat
         /\ DOMAIN Sorted(before) = 1 .. Cardinality(S)
         /\ Sorted(before) \in Seq(S)
         /\ Range(Sorted(before)) = S
         /\ \A i, j \in 1 .. Cardinality(S) : i < j => Sorted(before)[i] \in before[Sorted(before)[j]]
<1> DEFINE n == Cardinality(S)
           rank == [x \in S |-> Cardinality(before[x]) + 1]
<1>1. n \in Nat /\ IsFiniteSet(1 .. n) /\ Cardinality(1 .. n) = n
  <2>1. n \in Nat
    BY FS_CardinalityType
  <2>2. 1 \in Int /\ n \in Int /\ n - 1 + 1 = n /\ (1 > n => n = 0)
    BY <2>1
  <2>3. QED BY <2>1, <2>2, FS_Interval
<1>2. DOMAIN before = S
  BY DEF Orders
<1>3. ASSUME NEW x \in S
      PROVE  IsFiniteSet(before[x]) /\ Cardinality(before[x]) \in Nat /\ rank[x] \in 1 .. n
  <2>1. before[x] \in SUBSET S /\ x \notin before[x]
    BY DEF Orders
  <2>2. IsFiniteSet(before[x]) /\ Cardinality(before[x]) \in Nat
    BY <2>1, FS_Subset, FS_CardinalityType
  <2>3. Cardinality(before[x]) <= n /\ (n = Cardinality(before[x]) => S = before[x])
    BY <2>1, FS_Subset
  <2>4. Cardinality(before[x]) # n
    BY <2>1, <2>3
  <2> HIDE DEF n
  <2>5. QED BY <1>1, <2>2, <2>3, <2>4
<1>4. ASSUME NEW x \in S, NEW y \in S, x \in before[y] PROVE rank[x] < rank[y]
  <2>1. before[x] \in SUBSET before[y]
    BY <1>4 DEF Orders
  <2>2. before[x] # before[y]
    BY <1>4 DEF Orders
  <2>3. Cardinality(before[x]) <= Cardinality(before[y])
        /\ Cardinality(before[x]) # Cardinality(before[y])
    BY <1>3, <2>1, <2>2, FS_Subset
  <2>4. Cardinality(before[x]) \in Nat /\ Cardinality(before[y]) \in Nat
    BY <1>3
  <2>5. QED BY <2>3, <2>4
<1>5. \A x, y \in S : rank[x] = rank[y] => x = y
  <2> SUFFICES ASSUME NEW x \in S, NEW y \in S, rank[x] = rank[y], x # y PROVE FALSE
    OBVIOUS
  <2>1. x \in before[y] \/ y \in before[x]
    BY DEF Orders
  <2>2. rank[x] \in 1 .. n /\ rank[y] \in 1 .. n
    BY <1>3
  <2> HIDE DEF rank, n
  <2>3. rank[x] \in Int /\ rank[y] \in Int
    BY <1>1, <2>2
  <2>4. QED BY <1>4, <2>1, <2>3
<1>6. rank \in Injection(S, 1 .. n)
  <2>1. rank \in [S -> 1 .. n]
    BY <1>3
  <2> HIDE DEF rank, n
  <2>2. QED BY <1>5, <2>1 DEF Injection, IsInjective
<1>7. rank \in Surjection(S, 1 .. n)
  <2>1. Cardinality(S) = Cardinality(1 .. n)
    BY <1>1
  <2> HIDE DEF rank, n
  <2>2. QED BY <1>1, <1>6, <2>1, FS_Injection
<1>8. \A i \in 1 .. n : \E x \in S : Cardinality(before[x]) = i - 1
  <2> SUFFICES ASSUME NEW i \in 1 .. n PROVE \E x \in S : Cardinality(before[x]) = i - 1
    OBVIOUS
  <2>1. PICK x \in S : rank[x] = i
    <3> HIDE DEF rank, n
    <3> QED BY <1>7 DEF Surjection
  <2>2. Cardinality(before[x]) + 1 = i /\ Cardinality(before[x]) \in Nat
    BY <1>3, <2>1
  <2>3. QED BY <2>2
<1>9. PICK t : t = Sorted(before)
  OBVIOUS
<1>10. t = [i \in 1 .. n |-> CHOOSE x \in S : Cardinality(before[x]) = i - 1]
  BY <1>2, <1>9 DEF Sorted
<1>11. \A i \in 1 .. n : t[i] \in S /\ Cardinality(before[t[i]]) = i - 1
  BY <1>8, <1>10
<1>12. t \in Seq(S) /\ DOMAIN t = 1 .. n
  <2>1. t \in [1 .. n -> S]
    <3>1. t = [i \in 1 .. n |-> t[i]]
      BY <1>10
    <3>2. QED BY <1>11, <3>1
  <2> HIDE DEF n
  <2>2. QED BY <1>1, <2>1
<1>13. \A x \in S : \E i \in 1 .. n : t[i] = x
  <2> SUFFICES ASSUME NEW x \in S PROVE \E i \in 1 .. n : t[i] = x
    OBVIOUS
  <2>1. rank[x] \in 1 .. n
    BY <1>3
  <2>2. t[rank[x]] \in S /\ Cardinality(before[t[rank[x]]]) = rank[x] - 1
    BY <1>11, <2>1
  <2>3. Cardinality(before[t[rank[x]]]) = Cardinality(before[x])
    <3>1. Cardinality(before[x]) \in Nat
      BY <1>3
    <3>2. QED BY <2>2, <3>1
  <2>4. rank[t[rank[x]]] = rank[x]
    BY <2>2, <2>3
  <2>5. t[rank[x]] = x
    <3> HIDE DEF rank
    <3> QED BY <1>5, <2>2, <2>4
  <2>6. QED BY <2>1, <2>5
<1>14. Range(t) = S
  <2> HIDE DEF n
  <2> QED BY <1>11, <1>12, <1>13 DEF Range
<1>15. ASSUME NEW i \in 1 .. n, NEW j \in 1 .. n, i < j PROVE t[i] \in before[t[j]]
  <2>1. PICK x, y : x = t[i] /\ y = t[j]
    OBVIOUS
  <2>2. x \in S /\ y \in S /\ Cardinality(before[x]) = i - 1 /\ Cardinality(before[y]) = j - 1
    BY <1>11, <2>1
  <2>3. rank[x] = Cardinality(before[x]) + 1 /\ rank[y] = Cardinality(before[y]) + 1
    BY <2>2
  <2>4. rank[x] = i /\ rank[y] = j
    <3> HIDE DEF rank, n
    <3> QED BY <1>1, <2>2, <2>3
  <2>5. y \notin before[x]
    <3> HIDE DEF rank, n
    <3>1. ~(j < i) /\ i # j
      BY <1>1, <1>15
    <3>2. QED BY <1>4, <2>2, <2>4, <3>1
  <2>6. x # y
    BY <1>15, <2>4
  <2>7. x \in before[y]
    BY <2>2, <2>5, <2>6 DEF Orders
  <2>8. QED BY <2>1, <2>7
<1>16. \A i, j \in 1 .. n : i < j => t[i] \in before[t[j]]
  BY <1>15
<1>17. QED BY <1>1, <1>9, <1>12, <1>14, <1>16

LEMMA NumbersOrdered == ASSUME NEW S, S \subseteq Nat PROVE Orders(ByNumber(S), S)
<1>1. PICK b : b = ByNumber(S)
  OBVIOUS
<1>2. b = [x \in S |-> {y \in S : y < x}]
  BY <1>1 DEF ByNumber
<1>3. b = [x \in S |-> b[x]] /\ \A x \in S : b[x] = {y \in S : y < x}
  BY <1>2
<1>4. \A x, y \in S : y \in b[x] <=> y < x
  BY <1>3
<1>5. QED BY <1>1, <1>3, <1>4 DEF Orders

LEMMA KeysOrdered == ASSUME NEW S, S \subseteq Agent \X Nat PROVE Orders(ByKey(S), S)
<1>1. PICK b : b = ByKey(S)
  OBVIOUS
<1>2. b = [p \in S |-> {q \in S : q[1] < p[1] \/ (q[1] = p[1] /\ q[2] < p[2])}]
  BY <1>1 DEF ByKey
<1>3. b = [p \in S |-> b[p]]
      /\ \A p \in S : b[p] = {q \in S : q[1] < p[1] \/ (q[1] = p[1] /\ q[2] < p[2])}
  BY <1>2
<1>4. \A p, q \in S : q \in b[p] <=> q[1] < p[1] \/ (q[1] = p[1] /\ q[2] < p[2])
  BY <1>3
<1>5. \A p \in S : p[1] \in Nat /\ p[2] \in Nat /\ p = <<p[1], p[2]>>
  <2>1. \A p \in Agent \X Nat : p[1] \in Agent /\ p[2] \in Nat /\ p = <<p[1], p[2]>>
    OBVIOUS
  <2>2. QED BY <2>1, PersistenceConstants
<1>6. \A p \in S : b[p] \subseteq S /\ p \notin b[p]
  BY <1>3, <1>4, <1>5
<1>7. \A p, q \in S : p = q \/ p \in b[q] \/ q \in b[p]
  <2> SUFFICES ASSUME NEW p \in S, NEW q \in S, p \notin b[q], q \notin b[p] PROVE p = q
    OBVIOUS
  <2>1. p[1] = q[1] /\ p[2] = q[2]
    BY <1>4, <1>5
  <2>2. QED BY <1>5, <2>1
<1>8. \A p, q, r \in S : p \in b[q] /\ q \in b[r] => p \in b[r]
  <2> SUFFICES ASSUME NEW p \in S, NEW q \in S, NEW r \in S, p \in b[q], q \in b[r]
               PROVE  p \in b[r]
    OBVIOUS
  <2>1. /\ p[1] < q[1] \/ (p[1] = q[1] /\ p[2] < q[2])
        /\ q[1] < r[1] \/ (q[1] = r[1] /\ q[2] < r[2])
    BY <1>4
  <2>2. /\ p[1] \in Nat /\ p[2] \in Nat /\ q[1] \in Nat /\ q[2] \in Nat
        /\ r[1] \in Nat /\ r[2] \in Nat
    BY <1>5
  <2>3. p[1] < r[1] \/ (p[1] = r[1] /\ p[2] < r[2])
    BY <2>1, <2>2
  <2>4. QED BY <1>4, <2>3
<1>9. QED BY <1>1, <1>3, <1>6, <1>7, <1>8 DEF Orders

(* Those an event or a rumour reaches, in their order.                     *)
LEMMA AgentsSorted ==
  ASSUME NEW who \in SUBSET Agent
  PROVE  \E n \in Nat : /\ DOMAIN Sorted(ByNumber(who)) = 1 .. n
                        /\ \A i \in 1 .. n : Sorted(ByNumber(who))[i] \in Agent
<1>1. IsFiniteSet(who) /\ who \subseteq Nat
  BY PersistenceConstants, FS_Subset
<1>2. PICK b : b = ByNumber(who)
  OBVIOUS
<1>3. Orders(b, who)
  BY <1>1, <1>2, NumbersOrdered
<1>4. PICK n : n = Cardinality(who)
  OBVIOUS
<1>5. n \in Nat /\ DOMAIN Sorted(b) = 1 .. n /\ Range(Sorted(b)) = who
  BY <1>1, <1>3, <1>4, SortedLists
<1>6. \A i \in 1 .. n : Sorted(b)[i] \in who
  BY <1>5 DEF Range
<1>7. QED BY <1>2, <1>5, <1>6

-----------------------------------------------------------------------------
(* The steps of a minute.                                                  *)

(* An event.                                                               *)
Happening(w) == [w EXCEPT !.events = Append(@, w.minute)]

LEMMA HappeningGrows ==
  ASSUME NEW w, World(w)
  PROVE  World(Happening(w)) /\ Grown(w, Happening(w))
<1>1. PICK u : u = Happening(w)
  OBVIOUS
<1>2. Shape(w)
  BY DEF World
<1>3. /\ Shape(u)
      /\ u.minute = w.minute /\ u.version = w.version /\ u.known = w.known
      /\ u.knowledge = w.knowledge /\ u.actions = w.actions
      /\ u.created = w.created /\ u.lines = w.lines
      /\ u.events = Append(w.events, w.minute) /\ u.count = w.count /\ u.log = w.log
      /\ u.chain = w.chain
  BY <1>1, <1>2 DEF Happening, Shape
<1>4. /\ u.events \in Seq(Nat) /\ Len(u.events) = Len(w.events) + 1
      /\ \A i \in 1 .. Len(w.events) : u.events[i] = w.events[i]
  <2>1. PICK s, x : s = w.events /\ x = w.minute
    OBVIOUS
  <2>2. s \in Seq(Nat) /\ x \in Nat
    BY <2>1, Worldly
  <2>3. QED BY <1>3, <2>1, <2>2, Appending
<1>5. World(u)
  BY <1>3, <1>4, Worldly DEF World
<1>6. Grown(w, u)
  <2>1. w.created \in Nat /\ w.lines \in Nat /\ Len(w.events) \in Nat /\ Prefixed(w.known, w.known)
    BY Worldly
  <2>2. QED BY <1>3, <1>4, <2>1 DEF Grown
<1>7. QED BY <1>1, <1>5, <1>6

LEMMA HappeningAlike ==
  ASSUME NEW v, NEW w, World(v), World(w), Alike(v, w)
  PROVE  Alike(Happening(v), Happening(w))
<1>1. \A x : World(x) =>
        LET u == Happening(x)
        IN  /\ u.minute = x.minute /\ u.version = x.version /\ u.known = x.known
            /\ u.knowledge = x.knowledge /\ u.actions = x.actions
            /\ u.created = x.created /\ u.lines = x.lines
            /\ u.events = Append(x.events, x.minute) /\ u.count = x.count /\ u.log = x.log
            /\ u.chain = x.chain
  BY DEF Happening, World, Shape
<1>2. PICK x, y : x = Happening(v) /\ y = Happening(w)
  OBVIOUS
<1>3. /\ x.minute = v.minute /\ x.version = v.version /\ x.known = v.known
      /\ x.knowledge = v.knowledge /\ x.actions = v.actions
      /\ x.created = v.created /\ x.lines = v.lines
      /\ x.events = Append(v.events, v.minute) /\ x.count = v.count /\ x.log = v.log
      /\ x.chain = v.chain
  BY <1>1, <1>2
<1>4. /\ y.minute = w.minute /\ y.version = w.version /\ y.known = w.known
      /\ y.knowledge = w.knowledge /\ y.actions = w.actions
      /\ y.created = w.created /\ y.lines = w.lines
      /\ y.events = Append(w.events, w.minute) /\ y.count = w.count /\ y.log = w.log
      /\ y.chain = w.chain
  BY <1>1, <1>2
<1>5. QED BY <1>2, <1>3, <1>4 DEF Alike

LEMMA LearnKeeps ==
  ASSUME NEW e \in Nat, NEW q, NEW n \in Nat, \A i \in 1 .. n : q[i] \in Agent
  PROVE  Keeps(LearnKey(e), q, n) /\ Blind(LearnKey(e), q, n)
<1>1. \A v, x : Step(LearnKey(e), v, x) = Learn(v, x, e)
  BY Keys
<1>2. Keeps(LearnKey(e), q, n)
  BY <1>1, LearnGrows DEF Keeps
<1>3. Blind(LearnKey(e), q, n)
  BY <1>1, LearnAlike DEF Blind
<1>4. QED BY <1>2, <1>3

LEMMA WitnessedIs ==
  ASSUME NEW w, NEW who
  PROVE  Witnessed(w, who) = Learnt(Len(w.events) + 1, Happening(w), Sorted(ByNumber(who)))
BY DEF Witnessed, Happening, Learnt, FoldLeft, MapThenFoldSet

LEMMA WitnessedGrows ==
  ASSUME NEW w, World(w), NEW who \in SUBSET Agent
  PROVE  World(Witnessed(w, who)) /\ Grown(w, Witnessed(w, who))
<1>1. PICK e, b, q : e = Len(w.events) + 1 /\ b = Happening(w) /\ q = Sorted(ByNumber(who))
  OBVIOUS
<1>2. PICK n \in Nat : DOMAIN q = 1 .. n /\ \A i \in 1 .. n : q[i] \in Agent
  BY <1>1, AgentsSorted
<1>3. e \in Nat
  BY <1>1, Worldly
<1>4. PICK st : Trace(st, LearnKey(e), b, q, n)
                /\ Learnt(e, b, q) = st[n]
  BY <1>2, LearnFold
<1>5. Witnessed(w, who) = st[n]
  BY <1>1, <1>4, WitnessedIs
<1>6. World(b) /\ Grown(w, b)
  BY <1>1, HappeningGrows
<1>7. World(st[n]) /\ Grown(b, st[n])
  <2>1. n \in 0 .. n
    OBVIOUS
  <2>2. Keeps(LearnKey(e), q, n)
    BY <1>2, <1>3, LearnKeeps
  <2>3. QED BY <1>4, <1>6, <2>1, <2>2, TraceGrows
<1>8. Grown(w, st[n])
  BY <1>6, <1>7, GrownOn
<1>9. QED BY <1>5, <1>7, <1>8

LEMMA WitnessedAlike ==
  ASSUME NEW v, NEW w, World(v), World(w), Alike(v, w), NEW who \in SUBSET Agent
  PROVE  Alike(Witnessed(v, who), Witnessed(w, who))
<1>1. PICK e, q : e = Len(w.events) + 1 /\ q = Sorted(ByNumber(who))
  OBVIOUS
<1>2. PICK b, c : b = Happening(v) /\ c = Happening(w)
  OBVIOUS
<1>3. e = Len(v.events) + 1
  BY <1>1 DEF Alike
<1>4. PICK n \in Nat : DOMAIN q = 1 .. n /\ \A i \in 1 .. n : q[i] \in Agent
  BY <1>1, AgentsSorted
<1>5. e \in Nat
  BY <1>1, Worldly
<1>6. PICK st : Trace(st, LearnKey(e), b, q, n)
                /\ Learnt(e, b, q) = st[n]
  BY <1>4, LearnFold
<1>7. PICK tt : Trace(tt, LearnKey(e), c, q, n)
                /\ Learnt(e, c, q) = tt[n]
  BY <1>4, LearnFold
<1>8. Witnessed(v, who) = st[n]
  BY <1>1, <1>2, <1>3, <1>6, WitnessedIs
<1>9. Witnessed(w, who) = tt[n]
  BY <1>1, <1>2, <1>7, WitnessedIs
<1>10. World(b) /\ World(c) /\ Alike(b, c)
  BY <1>2, HappeningGrows, HappeningAlike
<1>11. Keeps(LearnKey(e), q, n) /\ Blind(LearnKey(e), q, n)
  BY <1>4, <1>5, LearnKeeps
<1>12. Alike(st[n], tt[n])
  BY <1>6, <1>7, <1>10, <1>11, TraceAlike
<1>13. QED BY <1>8, <1>9, <1>12

(* One more line of dialogue.                                               *)
Speaking(w) == [w EXCEPT !.lines = @ + 1]

LEMMA SpeakingChanges ==
  ASSUME NEW w, World(w), NEW u, u = Speaking(w)
  PROVE  /\ Shape(u)
         /\ u.minute = w.minute /\ u.version = w.version /\ u.known = w.known
         /\ u.knowledge = w.knowledge /\ u.actions = w.actions /\ u.created = w.created
         /\ u.lines = w.lines + 1 /\ u.events = w.events /\ u.count = w.count
         /\ u.log = w.log /\ u.chain = w.chain
<1>1. Shape(w)
  BY DEF World
<1>2. QED BY <1>1 DEF Speaking, Shape

LEMMA SpeakingGrows ==
  ASSUME NEW w, World(w)
  PROVE  World(Speaking(w)) /\ Grown(w, Speaking(w))
<1>1. PICK u : u = Speaking(w)
  OBVIOUS
<1>2. /\ Shape(u)
      /\ u.minute = w.minute /\ u.version = w.version /\ u.known = w.known
      /\ u.knowledge = w.knowledge /\ u.actions = w.actions /\ u.created = w.created
      /\ u.lines = w.lines + 1 /\ u.events = w.events /\ u.count = w.count
      /\ u.log = w.log /\ u.chain = w.chain
  BY <1>1, SpeakingChanges
<1>3. /\ u.created \in Nat /\ u.lines \in Nat /\ u.actions \in SUBSET Nat
  BY <1>2, Worldly
<1>4. World(u)
  BY <1>2, <1>3, Worldly DEF World
<1>5. Grown(w, u)
  <2>1. w.created \in Nat /\ w.lines \in Nat /\ Len(w.events) \in Nat /\ Prefixed(w.known, w.known)
    BY Worldly
  <2>2. QED BY <1>2, <2>1 DEF Grown
<1>6. QED BY <1>1, <1>4, <1>5

LEMMA SpeakingAlike ==
  ASSUME NEW v, NEW w, World(v), World(w), Alike(v, w)
  PROVE  Alike(Speaking(v), Speaking(w))
<1>1. PICK x, y : x = Speaking(v) /\ y = Speaking(w)
  OBVIOUS
<1>2. /\ x.minute = v.minute /\ x.version = v.version /\ x.known = v.known
      /\ x.knowledge = v.knowledge /\ x.actions = v.actions /\ x.created = v.created
      /\ x.lines = v.lines + 1 /\ x.events = v.events /\ x.count = v.count
      /\ x.log = v.log /\ x.chain = v.chain
  BY <1>1, SpeakingChanges
<1>3. /\ y.minute = w.minute /\ y.version = w.version /\ y.known = w.known
      /\ y.knowledge = w.knowledge /\ y.actions = w.actions /\ y.created = w.created
      /\ y.lines = w.lines + 1 /\ y.events = w.events /\ y.count = w.count
      /\ y.log = w.log /\ y.chain = w.chain
  BY <1>1, SpeakingChanges
<1>4. QED BY <1>1, <1>2, <1>3 DEF Alike

(* An action begins.                                                        *)
Beginning(w) == [w EXCEPT !.created = @ + 1, !.actions = @ \cup {w.created + 1}]

LEMMA BeginningChanges ==
  ASSUME NEW w, World(w), NEW u, u = Beginning(w)
  PROVE  /\ Shape(u)
         /\ u.minute = w.minute /\ u.version = w.version /\ u.known = w.known
         /\ u.knowledge = w.knowledge
         /\ u.actions = w.actions \cup {w.created + 1}
         /\ u.created = w.created + 1
         /\ u.lines = w.lines /\ u.events = w.events /\ u.count = w.count
         /\ u.log = w.log /\ u.chain = w.chain
<1>1. Shape(w)
  BY DEF World
<1>2. QED BY <1>1 DEF Beginning, Shape

LEMMA BeginningGrows ==
  ASSUME NEW w, World(w)
  PROVE  World(Beginning(w)) /\ Grown(w, Beginning(w))
<1>1. PICK u : u = Beginning(w)
  OBVIOUS
<1>2. /\ Shape(u)
      /\ u.minute = w.minute /\ u.version = w.version /\ u.known = w.known
      /\ u.knowledge = w.knowledge
      /\ u.actions = w.actions \cup {w.created + 1}
      /\ u.created = w.created + 1
      /\ u.lines = w.lines /\ u.events = w.events /\ u.count = w.count
      /\ u.log = w.log /\ u.chain = w.chain
  BY <1>1, BeginningChanges
<1>3. /\ u.created \in Nat /\ u.lines \in Nat /\ u.actions \in SUBSET Nat
  BY <1>2, Worldly
<1>4. World(u)
  BY <1>2, <1>3, Worldly DEF World
<1>5. Grown(w, u)
  <2>1. w.created \in Nat /\ w.lines \in Nat /\ Len(w.events) \in Nat /\ Prefixed(w.known, w.known)
    BY Worldly
  <2>2. QED BY <1>2, <2>1 DEF Grown
<1>6. QED BY <1>1, <1>4, <1>5

LEMMA BeginningAlike ==
  ASSUME NEW v, NEW w, World(v), World(w), Alike(v, w)
  PROVE  Alike(Beginning(v), Beginning(w))
<1>1. PICK x, y : x = Beginning(v) /\ y = Beginning(w)
  OBVIOUS
<1>2. /\ x.minute = v.minute /\ x.version = v.version /\ x.known = v.known
      /\ x.knowledge = v.knowledge
      /\ x.actions = v.actions \cup {v.created + 1}
      /\ x.created = v.created + 1
      /\ x.lines = v.lines /\ x.events = v.events /\ x.count = v.count
      /\ x.log = v.log /\ x.chain = v.chain
  BY <1>1, BeginningChanges
<1>3. /\ y.minute = w.minute /\ y.version = w.version /\ y.known = w.known
      /\ y.knowledge = w.knowledge
      /\ y.actions = w.actions \cup {w.created + 1}
      /\ y.created = w.created + 1
      /\ y.lines = w.lines /\ y.events = w.events /\ y.count = w.count
      /\ y.log = w.log /\ y.chain = w.chain
  BY <1>1, BeginningChanges
<1>4. QED BY <1>1, <1>2, <1>3 DEF Alike

(* The oldest action ends.                                                  *)
Ending(w) == [w EXCEPT !.actions = @ \ {id \in @ : \A k \in @ : id <= k}]

LEMMA EndingChanges ==
  ASSUME NEW w, World(w), NEW u, u = Ending(w)
  PROVE  /\ Shape(u)
         /\ u.minute = w.minute /\ u.version = w.version /\ u.known = w.known
         /\ u.knowledge = w.knowledge
         /\ u.actions = w.actions \ {id \in w.actions : \A k \in w.actions : id <= k}
         /\ u.created = w.created
         /\ u.lines = w.lines /\ u.events = w.events /\ u.count = w.count
         /\ u.log = w.log /\ u.chain = w.chain
<1>1. Shape(w)
  BY DEF World
<1>2. QED BY <1>1 DEF Ending, Shape

LEMMA EndingGrows ==
  ASSUME NEW w, World(w)
  PROVE  World(Ending(w)) /\ Grown(w, Ending(w))
<1>1. PICK u : u = Ending(w)
  OBVIOUS
<1>2. /\ Shape(u)
      /\ u.minute = w.minute /\ u.version = w.version /\ u.known = w.known
      /\ u.knowledge = w.knowledge
      /\ u.actions = w.actions \ {id \in w.actions : \A k \in w.actions : id <= k}
      /\ u.created = w.created
      /\ u.lines = w.lines /\ u.events = w.events /\ u.count = w.count
      /\ u.log = w.log /\ u.chain = w.chain
  BY <1>1, EndingChanges
<1>3. /\ u.created \in Nat /\ u.lines \in Nat /\ u.actions \in SUBSET Nat
  BY <1>2, Worldly
<1>4. World(u)
  BY <1>2, <1>3, Worldly DEF World
<1>5. Grown(w, u)
  <2>1. w.created \in Nat /\ w.lines \in Nat /\ Len(w.events) \in Nat /\ Prefixed(w.known, w.known)
    BY Worldly
  <2>2. QED BY <1>2, <2>1 DEF Grown
<1>6. QED BY <1>1, <1>4, <1>5

LEMMA EndingAlike ==
  ASSUME NEW v, NEW w, World(v), World(w), Alike(v, w)
  PROVE  Alike(Ending(v), Ending(w))
<1>1. PICK x, y : x = Ending(v) /\ y = Ending(w)
  OBVIOUS
<1>2. /\ x.minute = v.minute /\ x.version = v.version /\ x.known = v.known
      /\ x.knowledge = v.knowledge
      /\ x.actions = v.actions \ {id \in v.actions : \A k \in v.actions : id <= k}
      /\ x.created = v.created
      /\ x.lines = v.lines /\ x.events = v.events /\ x.count = v.count
      /\ x.log = v.log /\ x.chain = v.chain
  BY <1>1, EndingChanges
<1>3. /\ y.minute = w.minute /\ y.version = w.version /\ y.known = w.known
      /\ y.knowledge = w.knowledge
      /\ y.actions = w.actions \ {id \in w.actions : \A k \in w.actions : id <= k}
      /\ y.created = w.created
      /\ y.lines = w.lines /\ y.events = w.events /\ y.count = w.count
      /\ y.log = w.log /\ y.chain = w.chain
  BY <1>1, EndingChanges
<1>4. QED BY <1>1, <1>2, <1>3 DEF Alike

(* The event share_event tells of.                                         *)
First(w, a) == CHOOSE e \in Untold(w, a) : \A f \in Untold(w, a) : e <= f

LEMMA FirstIsEvent ==
  ASSUME NEW w, World(w), NEW a, Untold(w, a) # {}
  PROVE  First(w, a) \in Nat
<1>1. PICK U : U = Untold(w, a)
  OBVIOUS
<1>2. U \subseteq Nat
  <2>1. Len(w.events) \in Nat
    BY Worldly
  <2>2. QED BY <1>1, <2>1 DEF Untold
<1>3. \E e \in U : \A f \in U : e <= f
  BY <1>1, <1>2, Smallest
<1>4. First(w, a) \in U
  BY <1>1, <1>3 DEF First
<1>5. QED BY <1>2, <1>4

LEMMA ToldIs ==
  ASSUME NEW w, NEW a
  PROVE  Told(w, a) = IF Untold(w, a) = {} THEN w ELSE Speaking(Learn(w, a, First(w, a)))
BY DEF Told, Speaking, First

LEMMA TellGrows ==
  ASSUME NEW w, World(w), NEW a \in Agent
  PROVE  World(Told(w, a)) /\ Grown(w, Told(w, a))
<1>1. CASE Untold(w, a) = {}
  <2>1. Grown(w, w)
    BY Worldly DEF Grown
  <2>2. QED BY <1>1, <2>1, ToldIs
<1>2. CASE Untold(w, a) # {}
  <2>1. PICK u : u = Learn(w, a, First(w, a))
    OBVIOUS
  <2>2. World(u) /\ Grown(w, u)
    BY <1>2, <2>1, FirstIsEvent, LearnGrows
  <2>3. World(Speaking(u)) /\ Grown(u, Speaking(u))
    BY <2>2, SpeakingGrows
  <2>4. Grown(w, Speaking(u))
    BY <2>2, <2>3, GrownOn
  <2>5. QED BY <1>2, <2>1, <2>3, <2>4, ToldIs
<1>3. QED BY <1>1, <1>2

LEMMA TellAlike ==
  ASSUME NEW v, NEW w, World(v), World(w), Alike(v, w), NEW a \in Agent
  PROVE  Alike(Told(v, a), Told(w, a))
<1>1. Untold(v, a) = Untold(w, a)
  BY DEF Untold, Alike
<1>2. First(v, a) = First(w, a)
  BY <1>1 DEF First
<1>3. CASE Untold(w, a) = {}
  BY <1>1, <1>3, ToldIs
<1>4. CASE Untold(w, a) # {}
  <2>1. PICK x, y, e : x = Learn(v, a, e) /\ y = Learn(w, a, e) /\ e = First(w, a)
    OBVIOUS
  <2>2. e \in Nat
    BY <1>4, <2>1, FirstIsEvent
  <2>3. World(x) /\ World(y) /\ Alike(x, y)
    BY <2>1, <2>2, LearnGrows, LearnAlike
  <2>4. Alike(Speaking(x), Speaking(y))
    BY <2>3, SpeakingAlike
  <2>5. QED BY <1>1, <1>2, <1>4, <2>1, <2>4, ToldIs
<1>5. QED BY <1>3, <1>4

LEMMA TellKeeps ==
  ASSUME NEW q, NEW n \in Nat, \A i \in 1 .. n : q[i] \in Agent
  PROVE  Keeps(TellKey, q, n) /\ Blind(TellKey, q, n)
<1>1. \A v, x : Step(TellKey, v, x) = Told(v, x)
  BY Keys
<1>2. Keeps(TellKey, q, n)
  BY <1>1, TellGrows DEF Keeps
<1>3. Blind(TellKey, q, n)
  BY <1>1, TellAlike DEF Blind
<1>4. QED BY <1>2, <1>3

LEMMA TellingGrows ==
  ASSUME NEW w, World(w), NEW who \in SUBSET Agent
  PROVE  LET u == Telling(w, Sorted(ByNumber(who))) IN World(u) /\ Grown(w, u)
<1>1. PICK q : q = Sorted(ByNumber(who))
  OBVIOUS
<1>2. PICK n \in Nat : DOMAIN q = 1 .. n /\ \A i \in 1 .. n : q[i] \in Agent
  BY <1>1, AgentsSorted
<1>3. PICK st : Trace(st, TellKey, w, q, n) /\ Telling(w, q) = st[n]
  BY <1>2, TellFold
<1>4. n \in 0 .. n /\ Keeps(TellKey, q, n)
  BY <1>2, TellKeeps
<1>5. World(st[n]) /\ Grown(w, st[n])
  BY <1>3, <1>4, TraceGrows
<1>6. QED BY <1>1, <1>3, <1>5

LEMMA TellingAlike ==
  ASSUME NEW v, NEW w, World(v), World(w), Alike(v, w), NEW who \in SUBSET Agent
  PROVE  Alike(Telling(v, Sorted(ByNumber(who))), Telling(w, Sorted(ByNumber(who))))
<1>1. PICK q : q = Sorted(ByNumber(who))
  OBVIOUS
<1>2. PICK n \in Nat : DOMAIN q = 1 .. n /\ \A i \in 1 .. n : q[i] \in Agent
  BY <1>1, AgentsSorted
<1>3. PICK st : Trace(st, TellKey, v, q, n) /\ Telling(v, q) = st[n]
  BY <1>2, TellFold
<1>4. PICK tt : Trace(tt, TellKey, w, q, n) /\ Telling(w, q) = tt[n]
  BY <1>2, TellFold
<1>5. Keeps(TellKey, q, n) /\ Blind(TellKey, q, n)
  BY <1>2, TellKeeps
<1>6. Alike(st[n], tt[n])
  BY <1>3, <1>4, <1>5, TraceAlike
<1>7. QED BY <1>1, <1>3, <1>4, <1>6

(* Every step a minute may take.                                           *)
LEMMA PerformIs ==
  ASSUME NEW step \in Steps
  PROVE  \/ /\ step.who \in SUBSET Agent
            /\ \A w : Perform(w, step) = Witnessed(w, step.who)
         \/ /\ step.who \in SUBSET Agent
            /\ \A w : Perform(w, step) = Telling(w, Sorted(ByNumber(step.who)))
         \/ \A w : Perform(w, step) = Beginning(w)
         \/ \A w : Perform(w, step) = Ending(w)
<1>1. CASE step.what = "event"
  <2>1. step.who \in SUBSET Agent
    BY <1>1 DEF Steps
  <2>2. QED BY <1>1, <2>1 DEF Perform
<1>2. CASE step.what = "tell"
  <2>1. step.who \in SUBSET Agent
    BY <1>2 DEF Steps
  <2>2. \A w : Perform(w, step) = Telling(w, Sorted(ByNumber(step.who)))
    BY <1>2 DEF Perform, Telling, FoldLeft, MapThenFoldSet
  <2>3. QED BY <2>1, <2>2
<1>3. CASE step.what = "begin"
  BY <1>3 DEF Perform, Beginning
<1>4. CASE step.what = "end"
  BY <1>4 DEF Perform, Ending
<1>5. QED BY <1>1, <1>2, <1>3, <1>4 DEF Steps

LEMMA PerformKeeps ==
  ASSUME NEW q, NEW n \in Nat, \A i \in 1 .. n : q[i] \in Steps
  PROVE  Keeps(PerformKey, q, n) /\ Blind(PerformKey, q, n)
<1>1. \A v, x : Step(PerformKey, v, x) = Perform(v, x)
  BY Keys
<1>2. ASSUME NEW v, World(v), NEW step \in Steps
      PROVE  World(Perform(v, step)) /\ Grown(v, Perform(v, step))
  BY <1>2, PerformIs, WitnessedGrows, TellingGrows, BeginningGrows, EndingGrows
<1>3. ASSUME NEW v, NEW w, World(v), World(w), Alike(v, w), NEW step \in Steps
      PROVE  Alike(Perform(v, step), Perform(w, step))
  BY <1>3, PerformIs, WitnessedAlike, TellingAlike, BeginningAlike, EndingAlike
<1>4. Keeps(PerformKey, q, n)
  BY <1>1, <1>2 DEF Keeps
<1>5. Blind(PerformKey, q, n)
  BY <1>1, <1>3 DEF Blind
<1>6. QED BY <1>4, <1>5

-----------------------------------------------------------------------------
(* A minute and its transaction.                                           *)

(* The clock.                                                              *)
Tick(w) == [w EXCEPT !.minute = @ + 1]

LEMMA TickChanges ==
  ASSUME NEW w, World(w), NEW u, u = Tick(w)
  PROVE  /\ Shape(u)
         /\ u.minute = w.minute + 1 /\ u.version = w.version /\ u.known = w.known
         /\ u.knowledge = w.knowledge /\ u.actions = w.actions
         /\ u.created = w.created /\ u.lines = w.lines /\ u.events = w.events
         /\ u.count = w.count /\ u.log = w.log /\ u.chain = w.chain
<1>1. Shape(w)
  BY DEF World
<1>2. QED BY <1>1 DEF Tick, Shape

LEMMA PlayingGrows ==
  ASSUME NEW w, World(w), NEW steps \in Seq(Steps)
  PROVE  World(Tick(w)) /\ World(Playing(w, steps)) /\ Grown(Tick(w), Playing(w, steps))
<1>1. PICK u, n : u = Tick(w) /\ n = Len(steps)
  OBVIOUS
<1>2. n \in Nat /\ DOMAIN steps = 1 .. n /\ \A i \in 1 .. n : steps[i] \in Steps
  BY <1>1, LenProperties
<1>3. World(u)
  <2>1. /\ Shape(u)
        /\ u.minute = w.minute + 1 /\ u.version = w.version /\ u.known = w.known
        /\ u.knowledge = w.knowledge /\ u.actions = w.actions
        /\ u.created = w.created /\ u.lines = w.lines /\ u.events = w.events
        /\ u.count = w.count /\ u.log = w.log /\ u.chain = w.chain
    BY <1>1, TickChanges
  <2>2. u.minute \in Nat
    BY <2>1, Worldly
  <2>3. QED BY <2>1, <2>2, Worldly DEF World
<1>4. PICK st : Trace(st, PerformKey, u, steps, n) /\ Performed(u, steps) = st[n]
  BY <1>2, PerformFold
<1>5. Playing(w, steps) = st[n]
  BY <1>1, <1>4 DEF Playing, Tick, Performed, FoldLeft, MapThenFoldSet
<1>6. n \in 0 .. n /\ Keeps(PerformKey, steps, n)
  BY <1>2, PerformKeeps
<1>7. World(st[n]) /\ Grown(u, st[n])
  BY <1>2, <1>3, <1>4, <1>6, TraceGrows
<1>8. QED BY <1>1, <1>3, <1>5, <1>7

LEMMA PlayingAlike ==
  ASSUME NEW v, NEW w, World(v), World(w), Alike(v, w), NEW steps \in Seq(Steps)
  PROVE  Alike(Playing(v, steps), Playing(w, steps))
<1>1. PICK x, y, n : x = Tick(v) /\ y = Tick(w) /\ n = Len(steps)
  OBVIOUS
<1>2. n \in Nat /\ DOMAIN steps = 1 .. n /\ \A i \in 1 .. n : steps[i] \in Steps
  BY <1>1, LenProperties
<1>3. World(x) /\ World(y)
  BY <1>1, PlayingGrows
<1>4. Alike(x, y)
  BY <1>1, TickChanges DEF Alike
<1>5. PICK st : Trace(st, PerformKey, x, steps, n) /\ Performed(x, steps) = st[n]
  BY <1>2, PerformFold
<1>6. PICK tt : Trace(tt, PerformKey, y, steps, n) /\ Performed(y, steps) = tt[n]
  BY <1>2, PerformFold
<1>7. Playing(v, steps) = st[n] /\ Playing(w, steps) = tt[n]
  BY <1>1, <1>5, <1>6 DEF Playing, Tick, Performed, FoldLeft, MapThenFoldSet
<1>8. Keeps(PerformKey, steps, n) /\ Blind(PerformKey, steps, n)
  BY <1>2, PerformKeeps
<1>9. Alike(st[n], tt[n])
  BY <1>2, <1>3, <1>4, <1>5, <1>6, <1>8, TraceAlike
<1>10. QED BY <1>7, <1>9

(* Whatever is listed is a sequence of what it lists.                      *)
LEMMA Listing ==
  ASSUME NEW n \in Nat, NEW s, s = [i \in 1 .. n |-> s[i]]
  PROVE  s \in Seq(Range(s)) /\ Len(s) = n
<1>1. DOMAIN s = 1 .. n
  OBVIOUS
<1>2. s \in [1 .. n -> Range(s)]
  <2>1. \A i \in 1 .. n : s[i] \in Range(s)
    BY <1>1 DEF Range
  <2>2. QED BY <2>1
<1>3. s \in Seq(Range(s))
  BY <1>2
<1>4. QED BY <1>1, <1>3, LenProperties

LEMMA Joining ==
  ASSUME NEW s, s \in Seq(Range(s)), NEW t, t \in Seq(Range(t))
  PROVE  /\ s \o t \in Seq(Range(s \o t))
         /\ Len(s) \in Nat /\ Len(t) \in Nat /\ Len(s \o t) = Len(s) + Len(t)
         /\ \A i \in 1 .. Len(s) : (s \o t)[i] = s[i]
         /\ \A i \in 1 .. Len(t) : (s \o t)[Len(s) + i] = t[i]
<1>1. PICK S : S = Range(s) \cup Range(t)
  OBVIOUS
<1>2. s \in Seq(S) /\ t \in Seq(S)
  BY <1>1, SeqMonotonic
<1>3. Len(s) \in Nat /\ Len(t) \in Nat
  BY LenProperties
<1>4. PICK u : u = s \o t
  OBVIOUS
<1>5. /\ u \in Seq(S) /\ Len(u) = Len(s) + Len(t)
      /\ \A i \in 1 .. Len(s) + Len(t) : u[i] = IF i <= Len(s) THEN s[i] ELSE t[i - Len(s)]
  BY <1>2, <1>4, ConcatProperties
<1>6. u \in Seq(Range(u))
  BY <1>5, SeqOfRange
<1>7. \A i \in 1 .. Len(s) : u[i] = s[i]
  BY <1>3, <1>5
<1>8. \A i \in 1 .. Len(t) : u[Len(s) + i] = t[i]
  <2> SUFFICES ASSUME NEW i \in 1 .. Len(t) PROVE u[Len(s) + i] = t[i]
    OBVIOUS
  <2>1. Len(s) + i \in 1 .. Len(s) + Len(t) /\ ~(Len(s) + i <= Len(s)) /\ (Len(s) + i) - Len(s) = i
    BY <1>3
  <2>2. QED BY <1>5, <2>1
<1>9. QED BY <1>3, <1>4, <1>5, <1>6, <1>7, <1>8

(* What a commit records has a length, and its envelopes are a sequence.   *)
LEMMA NumberedLists ==
  ASSUME NEW kind, NEW a \in Nat, NEW b \in Nat, a <= b
  PROVE  Numbered(kind, a, b) \in Seq(Range(Numbered(kind, a, b)))
<1>1. PICK s : s = Numbered(kind, a, b)
  OBVIOUS
<1>2. s = [i \in 1 .. b - a |-> [kind |-> kind, payload |-> a + i]]
  BY <1>1 DEF Numbered
<1>3. s = [i \in 1 .. b - a |-> s[i]] /\ b - a \in Nat
  BY <1>2
<1>4. PICK n : n = b - a
  OBVIOUS
<1>5. QED BY <1>1, <1>3, <1>4, Listing

LEMMA EmissionLists ==
  ASSUME NEW ed, NEW w, NEW new, World(w), World(new),
         w.created <= new.created, w.lines <= new.lines, Len(w.events) <= Len(new.events)
  PROVE  Emission(ed, w, new) \in Seq(Range(Emission(ed, w, new)))
<1>1. /\ w.created \in Nat /\ new.created \in Nat /\ w.lines \in Nat /\ new.lines \in Nat
      /\ Len(w.events) \in Nat /\ Len(new.events) \in Nat
  BY Worldly
<1>2. PICK a, b, c, d, e :
         /\ a = Numbered("decision", w.created, new.created)
         /\ b = Numbered("action", w.created, new.created)
         /\ c = Numbered("event", Len(w.events), Len(new.events))
         /\ d = Numbered("dialogue", w.lines, new.lines)
         /\ e = <<[kind |-> "transaction", payload |-> Recording(ed, w, new)]>>
  OBVIOUS
<1>3. /\ a \in Seq(Range(a)) /\ b \in Seq(Range(b)) /\ c \in Seq(Range(c)) /\ d \in Seq(Range(d))
  BY <1>1, <1>2, NumberedLists
<1>4. e \in Seq(Range(e))
  <2>1. PICK x : e = <<x>>
    BY <1>2
  <2>2. e = [i \in 1 .. 1 |-> e[i]] /\ 1 \in Nat
    BY <2>1
  <2>3. QED BY <2>2, Listing
<1>5. PICK ab, abc, abcd, all : ab = a \o b /\ abc = ab \o c /\ abcd = abc \o d /\ all = abcd \o e
  OBVIOUS
<1>6. ab \in Seq(Range(ab))
  BY <1>3, <1>5, Joining
<1>7. abc \in Seq(Range(abc))
  BY <1>3, <1>5, <1>6, Joining
<1>8. abcd \in Seq(Range(abcd))
  BY <1>3, <1>5, <1>7, Joining
<1>9. all \in Seq(Range(all))
  BY <1>4, <1>5, <1>8, Joining
<1>10. all = Emission(ed, w, new)
  BY <1>2, <1>5 DEF Emission
<1>11. QED BY <1>9, <1>10

LEMMA EnvelopesList ==
  ASSUME NEW count \in Nat, NEW records, records \in Seq(Range(records)), NEW e,
         e = Envelopes(count, records)
  PROVE  /\ e \in Seq(Range(e)) /\ Len(e) = Len(records) /\ Len(e) \in Nat
         /\ \A i \in 1 .. Len(e) : e[i].sequence = count + i /\ e[i].kind = records[i].kind
                                   /\ e[i].payload = records[i].payload
<1>1. Len(records) \in Nat
  BY LenProperties
<1>2. e = [i \in 1 .. Len(records) |->
             [sequence |-> count + i, kind |-> records[i].kind, payload |-> records[i].payload]]
  BY DEF Envelopes
<1>3. PICK n : n = Len(records)
  OBVIOUS
<1>4. e = [i \in 1 .. n |-> e[i]]
  BY <1>2, <1>3
<1>5. e \in Seq(Range(e)) /\ Len(e) = n
  BY <1>1, <1>3, <1>4, Listing
<1>6. QED BY <1>1, <1>2, <1>3, <1>5

(* What a commit adds to the state its minute led to.                      *)
ClosesTo(new, e, b, u) ==
  /\ Shape(u)
  /\ u.minute = new.minute /\ u.version = new.version + 1 /\ u.known = new.known
  /\ u.knowledge = new.knowledge /\ u.actions = new.actions
  /\ u.created = new.created /\ u.lines = new.lines /\ u.events = new.events
  /\ u.count = new.count + Len(e) /\ u.log = new.log \o e /\ u.chain = Append(new.chain, b)

LEMMA ClosingChanges ==
  ASSUME NEW ed, NEW w, NEW new, World(new)
  PROVE  ClosesTo(new, Envelopes(w.count, Emission(ed, w, new)), Body(w, new), Closing(ed, w, new))
<1>1. Shape(new)
  BY DEF World
<1>2. PICK b, e, u : /\ b = Body(w, new) /\ e = Envelopes(w.count, Emission(ed, w, new))
                     /\ u = Closing(ed, w, new)
  OBVIOUS
<1>3. u = [new EXCEPT !.version = @ + 1, !.chain = Append(@, b),
                      !.count = @ + Len(e), !.log = @ \o e]
  BY <1>2 DEF Closing
<1>4. ClosesTo(new, e, b, u)
  BY <1>1, <1>3 DEF Shape, ClosesTo
<1>5. QED BY <1>2, <1>4

(* A commit is the next minute, and its log goes on.                       *)
GoesOn(v, w) ==
  /\ Len(v.log) <= Len(w.log)
  /\ \A i \in 1 .. Len(v.log) : w.log[i] = v.log[i]

LEMMA ClosingGrows ==
  ASSUME NEW ed, NEW w, World(w), NEW new, World(new), World(Tick(w)), Grown(Tick(w), new)
  PROVE  /\ World(Closing(ed, w, new)) /\ Closing(ed, w, new).minute = w.minute + 1
         /\ Closing(ed, w, new).version = w.version + 1
         /\ GoesOn(w, Closing(ed, w, new))
<1>1. PICK t : t = Tick(w)
  OBVIOUS
<1>2. /\ t.minute = w.minute + 1 /\ t.version = w.version
      /\ t.created = w.created /\ t.lines = w.lines /\ t.events = w.events
      /\ t.count = w.count /\ t.log = w.log
  BY <1>1, TickChanges
<1>3. PICK e : e = Envelopes(w.count, Emission(ed, w, new))
  OBVIOUS
<1>4. e \in Seq(Range(e)) /\ Len(e) \in Nat
  <2>1. w.created <= new.created /\ w.lines <= new.lines /\ Len(w.events) <= Len(new.events)
    BY <1>1, <1>2 DEF Grown
  <2>2. w.count \in Nat
    BY Worldly
  <2>3. PICK r : r = Emission(ed, w, new)
    OBVIOUS
  <2>4. r \in Seq(Range(r))
    BY <2>1, <2>3, EmissionLists
  <2>5. QED BY <1>3, <2>2, <2>3, <2>4, EnvelopesList
<1>5. PICK u, b : u = Closing(ed, w, new) /\ b = Body(w, new)
  OBVIOUS
<1>6. ClosesTo(new, e, b, u)
  BY <1>3, <1>5, ClosingChanges
<1>6a. /\ Shape(u)
      /\ u.minute = new.minute /\ u.version = new.version + 1 /\ u.known = new.known
      /\ u.knowledge = new.knowledge /\ u.actions = new.actions
      /\ u.created = new.created /\ u.lines = new.lines /\ u.events = new.events
      /\ u.count = new.count + Len(e) /\ u.log = new.log \o e
  BY <1>6 DEF ClosesTo
<1>7. new.minute = w.minute + 1 /\ new.version = w.version /\ new.log = w.log /\ new.count = w.count
  BY <1>1, <1>2 DEF Grown
<1>8. PICK s : s = w.log
  OBVIOUS
<1>9. s \in Seq(Range(s)) /\ w.count = Len(s)
  BY <1>8, Worldly
<1>10. /\ s \o e \in Seq(Range(s \o e)) /\ Len(s \o e) = Len(s) + Len(e) /\ Len(s) \in Nat
       /\ \A i \in 1 .. Len(s) : (s \o e)[i] = s[i]
  BY <1>4, <1>9, Joining
<1>11. /\ u.log \in Seq(Range(u.log)) /\ u.count = Len(u.log)
  BY <1>6a, <1>7, <1>8, <1>9, <1>10
<1>12. World(u)
  <2>1. u.version \in Nat /\ u.minute \in Nat
    BY <1>6a, Worldly
  <2>2. QED BY <1>6a, <1>11, <2>1, Worldly DEF World
<1>13. GoesOn(w, u)
  BY <1>4, <1>6a, <1>7, <1>8, <1>10 DEF GoesOn
<1>14. QED BY <1>5, <1>6a, <1>7, <1>12, <1>13

LEMMA ClosingAlike ==
  ASSUME NEW ed, NEW v, NEW w, World(v), World(w), Alike(v, w),
         NEW x, NEW y, World(x), World(y), Alike(x, y)
  PROVE  Alike(Closing(ed, v, x), Closing(ed, w, y))
<1>1. Patch(v, x) = Patch(w, y)
  BY DEF Alike, Patch, Since, Removed
<1>2. Body(v, x) = Body(w, y)
  BY <1>1 DEF Body, Alike
<1>3. Recording(ed, v, x) = Recording(ed, w, y)
  <2>1. Public(v) = Public(w)
    BY DEF Public, Alike
  <2>2. Public([x EXCEPT !.version = v.version + 1]) = Public([y EXCEPT !.version = w.version + 1])
    BY DEF Public, Alike, World, Shape
  <2>3. QED BY <1>2, <2>1, <2>2 DEF Recording, Alike
<1>4. Emission(ed, v, x) = Emission(ed, w, y)
  BY <1>3 DEF Emission, Alike
<1>5. PICK e : e = Envelopes(v.count, Emission(ed, v, x))
  OBVIOUS
<1>6. e = Envelopes(w.count, Emission(ed, w, y))
  BY <1>4, <1>5 DEF Alike
<1>7. PICK a, b, d : a = Closing(ed, v, x) /\ b = Closing(ed, w, y) /\ d = Body(v, x)
  OBVIOUS
<1>8. ClosesTo(x, e, d, a)
  BY <1>5, <1>7, ClosingChanges
<1>9. ClosesTo(y, e, d, b)
  BY <1>2, <1>6, <1>7, ClosingChanges
<1>10. QED BY <1>7, <1>8, <1>9 DEF ClosesTo, Alike

LEMMA CommitGrows ==
  ASSUME NEW ed, NEW p \in [1 .. EndMinute -> Plots], NEW w, World(w), w.minute < EndMinute
  PROVE  LET u == Committing(ed, p, w)
         IN  /\ World(u) /\ u.minute = w.minute + 1 /\ u.version = w.version + 1
             /\ GoesOn(w, u)
<1>1. PICK steps : steps = p[w.minute + 1]
  OBVIOUS
<1>2. steps \in Seq(Steps)
  <2>1. w.minute + 1 \in 1 .. EndMinute
    BY Worldly, PersistenceConstants
  <2>2. QED BY <1>1, <2>1, PersistenceConstants
<1>3. PICK new : new = Playing(w, steps)
  OBVIOUS
<1>4. World(Tick(w)) /\ World(new) /\ Grown(Tick(w), new)
  BY <1>2, <1>3, PlayingGrows
<1>5. Committing(ed, p, w) = Closing(ed, w, new)
  BY <1>1, <1>3 DEF Committing
<1>6. QED BY <1>4, <1>5, ClosingGrows

LEMMA CommitAlike ==
  ASSUME NEW ed, NEW p \in [1 .. EndMinute -> Plots], NEW v, NEW w, World(v), World(w), Alike(v, w),
         w.minute < EndMinute
  PROVE  Alike(Committing(ed, p, v), Committing(ed, p, w))
<1>1. PICK steps : steps = p[w.minute + 1]
  OBVIOUS
<1>2. steps \in Seq(Steps)
  <2>1. w.minute + 1 \in 1 .. EndMinute
    BY Worldly, PersistenceConstants
  <2>2. QED BY <1>1, <2>1, PersistenceConstants
<1>3. v.minute = w.minute
  BY DEF Alike
<1>4. PICK x, y : x = Playing(v, steps) /\ y = Playing(w, steps)
  OBVIOUS
<1>5. World(x) /\ World(y) /\ Alike(x, y)
  BY <1>2, <1>4, PlayingGrows, PlayingAlike
<1>6. Committing(ed, p, v) = Closing(ed, v, x) /\ Committing(ed, p, w) = Closing(ed, w, y)
  BY <1>1, <1>3, <1>4 DEF Committing
<1>7. QED BY <1>5, <1>6, ClosingAlike

(* Canonical JSON forgets the order of the knowledge records and no more.  *)
LEMMA CanonicalChanges ==
  ASSUME NEW w, World(w), NEW u, u = Canonical(w)
  PROVE  /\ Shape(u)
         /\ u.minute = w.minute /\ u.version = w.version /\ u.known = w.known
         /\ u.knowledge = Sorted(ByKey(Range(w.knowledge))) /\ u.actions = w.actions
         /\ u.created = w.created /\ u.lines = w.lines /\ u.events = w.events
         /\ u.count = w.count /\ u.log = w.log /\ u.chain = w.chain
<1>1. Shape(w)
  BY DEF World
<1>2. PICK k : k = Sorted(ByKey(Range(w.knowledge)))
  OBVIOUS
<1>3. u = [w EXCEPT !.knowledge = k]
  BY <1>2 DEF Canonical
<1>4. QED BY <1>1, <1>2, <1>3 DEF Shape

LEMMA CanonicalAlike ==
  ASSUME NEW w, World(w)
  PROVE  World(Canonical(w)) /\ Alike(Canonical(w), w)
<1>1. PICK u, S : u = Canonical(w) /\ S = Range(w.knowledge)
  OBVIOUS
<1>2. /\ Shape(u)
      /\ u.minute = w.minute /\ u.version = w.version /\ u.known = w.known
      /\ u.knowledge = Sorted(ByKey(S)) /\ u.actions = w.actions
      /\ u.created = w.created /\ u.lines = w.lines /\ u.events = w.events
      /\ u.count = w.count /\ u.log = w.log /\ u.chain = w.chain
  BY <1>1, CanonicalChanges
<1>3. S \subseteq Agent \X Nat /\ IsFiniteSet(S)
  <2>1. PICK s, T : s = w.knowledge /\ T = Agent \X Nat
    OBVIOUS
  <2>2. s \in Seq(T)
    BY <2>1, Worldly
  <2>3. PICK n \in Nat : n = Len(s)
    BY <2>2, LenProperties
  <2>4. s \in [1 .. n -> T] /\ DOMAIN s = 1 .. n
    BY <2>2, <2>3, LenProperties
  <2>5. S = Range(s)
    BY <1>1, <2>1
  <2>6. S \subseteq T
    BY <2>4, <2>5 DEF Range
  <2>7. s \in Surjection(1 .. n, S)
    BY <2>4, <2>5 DEF Range, Surjection
  <2>8. IsFiniteSet(1 .. n)
    BY FS_Interval
  <2>9. IsFiniteSet(S)
    BY <2>7, <2>8, FS_Surjection
  <2>10. QED BY <2>1, <2>6, <2>9
<1>4. PICK b : b = ByKey(S)
  OBVIOUS
<1>5. Sorted(b) \in Seq(S) /\ Range(Sorted(b)) = S
  BY <1>3, <1>4, KeysOrdered, SortedLists
<1>6. Range(u.knowledge) = Range(w.knowledge)
  BY <1>1, <1>2, <1>4, <1>5
<1>7. u.knowledge \in Seq(Agent \X Nat)
  BY <1>2, <1>3, <1>4, <1>5, SeqMonotonic
<1>7a. Ledgers(u.known, Range(u.knowledge))
  BY <1>2, <1>6, Worldly
<1>8. World(u)
  BY <1>2, <1>7, <1>7a, Worldly DEF World
<1>9. Alike(u, w)
  BY <1>2, <1>6 DEF Alike
<1>10. QED BY <1>1, <1>8, <1>9

LEMMA AlikeCanonical ==
  ASSUME NEW v, NEW w, World(v), World(w), Alike(v, w)
  PROVE  Canonical(v) = Canonical(w)
<1>1. PICK x, y, k : /\ x = Canonical(v) /\ y = Canonical(w)
                     /\ k = Sorted(ByKey(Range(w.knowledge)))
  OBVIOUS
<1>2. k = Sorted(ByKey(Range(v.knowledge)))
  BY <1>1 DEF Alike
<1>3. /\ Shape(x)
      /\ x.minute = v.minute /\ x.version = v.version /\ x.known = v.known
      /\ x.knowledge = k /\ x.actions = v.actions
      /\ x.created = v.created /\ x.lines = v.lines /\ x.events = v.events
      /\ x.count = v.count /\ x.log = v.log /\ x.chain = v.chain
  BY <1>1, <1>2, CanonicalChanges
<1>4. /\ Shape(y)
      /\ y.minute = w.minute /\ y.version = w.version /\ y.known = w.known
      /\ y.knowledge = k /\ y.actions = w.actions
      /\ y.created = w.created /\ y.lines = w.lines /\ y.events = w.events
      /\ y.count = w.count /\ y.log = w.log /\ y.chain = w.chain
  BY <1>1, CanonicalChanges
<1>5. x = y
  BY <1>3, <1>4 DEF Shape, Alike
<1>6. QED BY <1>1, <1>5

-----------------------------------------------------------------------------
(* The logs by kind.                                                       *)

LEMMA SelectedLists ==
  ASSUME NEW S, NEW q, NEW n \in Nat, \A i \in 1 .. n : q[i] \in S,
         NEW kind, NEW st, Trace(st, SelectKey(kind), <<>>, q, n)
  PROVE  \A i \in 0 .. n : st[i] \in Seq(S)
<1> DEFINE T == {i \in 0 .. n : st[i] \in Seq(S)}
<1>1. 0 \in T
  <2>1. st[0] = <<>> /\ <<>> \in Seq(S)
    BY EmptySeq DEF Trace
  <2>2. 0 \in 0 .. n /\ st[0] \in Seq(S)
    BY <2>1
  <2>3. QED BY <2>2
<1>2. ASSUME NEW i \in 0 .. n, i # n, i \in T PROVE i + 1 \in T
  <2>1. i + 1 \in 1 .. n /\ i + 1 \in 0 .. n /\ (i + 1) - 1 = i
    BY <1>2
  <2>2. st[i + 1] = Picked(st[i], q[i + 1], kind)
    BY <2>1, Keys DEF Trace
  <2>3. st[i] \in Seq(S) /\ q[i + 1] \in S
    BY <1>2, <2>1
  <2>4. Append(st[i], q[i + 1]) \in Seq(S)
    BY <2>3, AppendProperties
  <2>5. QED BY <2>1, <2>2, <2>3, <2>4 DEF Picked
<1>3. \A i \in 0 .. n : i \in T
  <2> HIDE DEF T
  <2> QED BY <1>1, <1>2, StepByStep
<1>4. QED BY <1>3

(* What is appended to the authority log is appended to the logs by kind.  *)
LEMMA KindsJoin ==
  ASSUME NEW s, s \in Seq(Range(s)), NEW t, t \in Seq(Range(t)), NEW kind
  PROVE  OfKind(s \o t, kind) = OfKind(s, kind) \o OfKind(t, kind)
<1>1. PICK u, n, m, S : u = s \o t /\ n = Len(s) /\ m = Len(t) /\ S = Range(s) \cup Range(t)
  OBVIOUS
<1>2. /\ u \in Seq(Range(u)) /\ n \in Nat /\ m \in Nat /\ Len(u) = n + m
      /\ \A i \in 1 .. n : u[i] = s[i]
      /\ \A i \in 1 .. m : u[n + i] = t[i]
  BY <1>1, Joining
<1>3. DOMAIN s = 1 .. n /\ DOMAIN t = 1 .. m /\ DOMAIN u = 1 .. n + m /\ n + m \in Nat
  BY <1>1, <1>2, LenProperties
<1>4. PICK st : Trace(st, SelectKey(kind), <<>>, s, n) /\ OfKind(s, kind) = st[n]
  BY <1>2, <1>3, SelectFold
<1>5. PICK tt : Trace(tt, SelectKey(kind), <<>>, t, m) /\ OfKind(t, kind) = tt[m]
  BY <1>2, <1>3, SelectFold
<1>6. PICK ut : Trace(ut, SelectKey(kind), <<>>, u, n + m) /\ OfKind(u, kind) = ut[n + m]
  BY <1>3, SelectFold
<1>7. /\ \A i \in 1 .. n : s[i] \in S
      /\ \A i \in 1 .. m : t[i] \in S
  BY <1>1, <1>3 DEF Range
<1>8. \A i \in 0 .. n : st[i] \in Seq(S)
  BY <1>2, <1>4, <1>7, SelectedLists
<1>9. \A i \in 0 .. m : tt[i] \in Seq(S)
  BY <1>2, <1>5, <1>7, SelectedLists
<1> DEFINE A == {i \in 0 .. n : ut[i] = st[i]}
<1>10. \A i \in 0 .. n : i \in A
  <2>1. 0 \in A
    BY <1>2, <1>4, <1>6 DEF Trace
  <2>2. ASSUME NEW i \in 0 .. n, i # n, i \in A PROVE i + 1 \in A
    <3>1. i + 1 \in 1 .. n /\ i + 1 \in 1 .. n + m /\ i + 1 \in 0 .. n /\ (i + 1) - 1 = i
      BY <1>2, <2>2
    <3>2. ut[i + 1] = Step(SelectKey(kind), ut[i], u[i + 1])
      BY <1>6, <3>1 DEF Trace
    <3>3. st[i + 1] = Step(SelectKey(kind), st[i], s[i + 1])
      BY <1>4, <3>1 DEF Trace
    <3>4. QED BY <1>2, <2>2, <3>1, <3>2, <3>3
  <2> HIDE DEF A
  <2>3. QED BY <1>2, <2>1, <2>2, StepByStep
<1> DEFINE B == {i \in 0 .. m : ut[n + i] = st[n] \o tt[i]}
<1>11. \A i \in 0 .. m : i \in B
  <2>1. 0 \in B
    <3>1. n \in 0 .. n /\ 0 \in 0 .. m /\ n + 0 = n
      BY <1>2
    <3>2. ut[n] = st[n] /\ st[n] \in Seq(S) /\ tt[0] = <<>>
      BY <1>5, <1>8, <1>10, <3>1 DEF Trace
    <3>3. st[n] \o <<>> = st[n]
      BY <3>2, ConcatEmptySeq
    <3>4. QED BY <3>1, <3>2, <3>3
  <2>2. ASSUME NEW i \in 0 .. m, i # m, i \in B PROVE i + 1 \in B
    <3>1. /\ i + 1 \in 1 .. m /\ i + 1 \in 0 .. m /\ (i + 1) - 1 = i
          /\ n + (i + 1) \in 1 .. n + m /\ (n + (i + 1)) - 1 = n + i /\ n \in 0 .. n
      BY <1>2, <2>2
    <3>2. ut[n + (i + 1)] = Picked(ut[n + i], u[n + (i + 1)], kind)
      BY <1>6, <3>1, Keys DEF Trace
    <3>3. tt[i + 1] = Picked(tt[i], t[i + 1], kind)
      BY <1>5, <3>1, Keys DEF Trace
    <3>4. PICK a, b, x : a = st[n] /\ b = tt[i] /\ x = t[i + 1]
      OBVIOUS
    <3>5. a \in Seq(S) /\ b \in Seq(S) /\ x \in S
      BY <1>7, <1>8, <1>9, <3>1, <3>4
    <3>6. Append(a \o b, x) = a \o Append(b, x)
      <4>1. a \o b \in Seq(S) /\ <<x>> \in Seq(S)
        BY <3>5, ConcatProperties
      <4>2. Append(a \o b, x) = (a \o b) \o <<x>>
        BY <3>5, <4>1, AppendIsConcat
      <4>3. Append(b, x) = b \o <<x>>
        BY <3>5, AppendIsConcat
      <4>4. (a \o b) \o <<x>> = a \o (b \o <<x>>)
        BY <3>5, <4>1, ConcatAssociative
      <4>5. QED BY <4>2, <4>3, <4>4
    <3>7. ut[n + i] = a \o b /\ u[n + (i + 1)] = x
      BY <1>2, <2>2, <3>1, <3>4
    <3>8. ut[n + (i + 1)] = a \o tt[i + 1]
      BY <3>2, <3>3, <3>4, <3>6, <3>7 DEF Picked
    <3>9. QED BY <3>1, <3>4, <3>8
  <2> HIDE DEF B
  <2>3. QED BY <1>2, <2>1, <2>2, StepByStep
<1>12. m \in 0 .. m
  BY <1>2
<1>13. ut[n + m] = st[n] \o tt[m]
  BY <1>11, <1>12
<1>14. QED BY <1>1, <1>4, <1>5, <1>6, <1>13

LEMMA NothingOfKind == ASSUME NEW kind PROVE OfKind(<<>>, kind) = <<>>
<1>1. PICK q, n : q = <<>> /\ n = 0
  OBVIOUS
<1>2. n \in Nat /\ DOMAIN q = 1 .. n
  BY <1>1
<1>3. PICK st : Trace(st, SelectKey(kind), <<>>, q, n) /\ OfKind(q, kind) = st[n]
  BY <1>2, SelectFold
<1>4. QED BY <1>1, <1>3 DEF Trace

-----------------------------------------------------------------------------
(* The history of a seed.                                                  *)

(* h is the authority at every minute of an uninterrupted run.             *)
History(ed, p, h) ==
  /\ h[0] = Fresh
  /\ \A m \in 1 .. EndMinute : h[m] = Committing(ed, p, h[m - 1])

LEMMA HistoryExists ==
  ASSUME NEW ed, NEW p
  PROVE  \E h : History(ed, p, h)
<1>1. EndMinute \in Nat
  BY PersistenceConstants
<1>2. PICK k, q, w : k = CommitKey(ed, p) /\ q = <<>> /\ w = Fresh
  OBVIOUS
<1>3. PICK g : Takes(g, k, w, q, 1 .. EndMinute)
  BY <1>1, TakesExist
<1>4. PICK h : h = [i \in 0 .. EndMinute |-> g[1 .. i]]
  OBVIOUS
<1>5. Trace(h, k, w, q, EndMinute)
  BY <1>1, <1>3, <1>4, TakesTrace
<1>6. \A v, x : Step(k, v, x) = Committing(ed, p, v)
  BY <1>2, Keys
<1>7. QED BY <1>2, <1>5, <1>6 DEF Trace, History

LEMMA FreshIsWorld == World(Fresh) /\ Fresh.minute = 0 /\ Fresh.count = 0
<1>1. PICK e, k, w : e = <<>> /\ k = [a \in Agent |-> <<>>] /\ w = Fresh
  OBVIOUS
<1>2. w = [minute |-> 0, version |-> 0, known |-> k, knowledge |-> e, actions |-> {},
           created |-> 0, lines |-> 0, events |-> e, count |-> 0, log |-> e, chain |-> e]
  BY <1>1 DEF Fresh
<1>3. k \in [Agent -> Seq(Nat)] /\ e \in Seq(Agent \X Nat) /\ e \in Seq(Nat) /\ Len(e) = 0
      /\ e \in Seq(Range(e))
  BY <1>1, EmptySeq
<1>4. Shape(w)
  BY <1>2 DEF Shape
<1>5. /\ w.minute = 0 /\ w.version = 0 /\ w.known = k /\ w.knowledge = e /\ w.actions = {}
      /\ w.created = 0 /\ w.lines = 0 /\ w.events = e /\ w.count = 0 /\ w.log = e
  BY <1>2
<1>5a. Ledgers(k, Range(e))
  <2>1. Range(e) = {} /\ \A a \in Agent : k[a] = e
    BY <1>1 DEF Range
  <2>2. QED BY <2>1 DEF Ledgers
<1>6. World(w)
  BY <1>3, <1>4, <1>5, <1>5a DEF World
<1>7. QED BY <1>1, <1>5, <1>6

LEMMA GoesOnOn ==
  ASSUME NEW u, NEW v, NEW w, World(u), World(v), World(w), GoesOn(u, v), GoesOn(v, w)
  PROVE  GoesOn(u, w)
<1>1. Len(u.log) \in Nat /\ Len(v.log) \in Nat /\ Len(w.log) \in Nat
  BY Worldly
<1>2. QED BY <1>1 DEF GoesOn

LEMMA HistoryGoesOn ==
  ASSUME NEW ed, NEW p \in [1 .. EndMinute -> Plots], NEW h, History(ed, p, h)
  PROVE  \A m \in 0 .. EndMinute : /\ World(h[m]) /\ h[m].minute = m
                                   /\ \A l \in 0 .. m : GoesOn(h[l], h[m])
<1>1. EndMinute \in Nat
  BY PersistenceConstants
<1> DEFINE S == {m \in 0 .. EndMinute : /\ World(h[m]) /\ h[m].minute = m
                                        /\ \A l \in 0 .. m : GoesOn(h[l], h[m])
                                        /\ \A l \in 0 .. m : World(h[l])}
<1>2. \A w : World(w) => GoesOn(w, w)
  <2> SUFFICES ASSUME NEW w, World(w) PROVE GoesOn(w, w)
    OBVIOUS
  <2>1. Len(w.log) \in Nat
    BY Worldly
  <2>2. QED BY <2>1 DEF GoesOn
<1>3. 0 \in S
  <2>1. World(h[0]) /\ h[0].minute = 0
    BY FreshIsWorld DEF History
  <2>2. \A l \in 0 .. 0 : l = 0
    OBVIOUS
  <2>3. QED BY <1>1, <1>2, <2>1, <2>2
<1>4. ASSUME NEW m \in 0 .. EndMinute, m # EndMinute, m \in S PROVE m + 1 \in S
  <2>1. m + 1 \in 1 .. EndMinute /\ m + 1 \in 0 .. EndMinute /\ (m + 1) - 1 = m /\ m < EndMinute
    BY <1>1, <1>4
  <2>2. World(h[m]) /\ h[m].minute = m
        /\ (\A l \in 0 .. m : GoesOn(h[l], h[m])) /\ (\A l \in 0 .. m : World(h[l]))
    BY <1>4
  <2>3. h[m + 1] = Committing(ed, p, h[m])
    BY <2>1 DEF History
  <2>4. World(h[m + 1]) /\ h[m + 1].minute = m + 1 /\ GoesOn(h[m], h[m + 1])
    BY <2>1, <2>2, <2>3, CommitGrows
  <2>5. ASSUME NEW l \in 0 .. m + 1 PROVE GoesOn(h[l], h[m + 1]) /\ World(h[l])
    <3>1. l = m + 1 \/ l \in 0 .. m
      OBVIOUS
    <3>2. CASE l = m + 1
      BY <1>2, <2>4, <3>2
    <3>3. CASE l \in 0 .. m
      BY <2>2, <2>4, <3>3, GoesOnOn
    <3>4. QED BY <3>1, <3>2, <3>3
  <2>6. QED BY <2>1, <2>4, <2>5
<1>5. \A m \in 0 .. EndMinute : m \in S
  <2> HIDE DEF S
  <2> QED BY <1>1, <1>3, <1>4, StepByStep
<1>6. QED BY <1>5

(* A checkpoint of the seed h is the history of, whatever became of it.    *)
Known(h, cp) ==
  World(cp) /\ cp.minute \in 0 .. EndMinute /\ Alike(cp, h[cp.minute])

LEMMA KnownCanonical ==
  ASSUME NEW h, NEW cp, Known(h, cp)
  PROVE  Known(h, Canonical(cp)) /\ Canonical(Canonical(cp)) = Canonical(cp)
         /\ Canonical(cp).minute = cp.minute /\ Canonical(cp).count = cp.count
<1>1. PICK c : c = Canonical(cp)
  OBVIOUS
<1>2. World(cp) /\ World(c) /\ Alike(c, cp)
  BY <1>1, CanonicalAlike DEF Known
<1>3. Canonical(c) = Canonical(cp)
  BY <1>2, AlikeCanonical
<1>4. c.minute = cp.minute /\ c.count = cp.count
  BY <1>2 DEF Alike
<1>5. Alike(c, h[cp.minute])
  BY <1>2 DEF Known, Alike
<1>6. QED BY <1>1, <1>2, <1>3, <1>4, <1>5 DEF Known

(* Two checkpoints of one minute are the same but for the order of the     *)
(* knowledge records.                                                      *)
LEMMA OneHistory ==
  ASSUME NEW h, NEW c, NEW d, Known(h, c), Known(h, d), c.minute = d.minute
  PROVE  Canonical(c) = Canonical(d)
<1>1. Alike(c, d)
  BY DEF Known, Alike
<1>2. QED BY <1>1, AlikeCanonical DEF Known

(* The minutes a chunk advances, from any checkpoint of the history.       *)
LEMMA ChunkFollows ==
  ASSUME NEW ed, NEW p \in [1 .. EndMinute -> Plots], NEW h, History(ed, p, h),
         NEW cp, Known(h, cp), NEW n \in Nat, cp.minute + n <= EndMinute,
         NEW q, NEW st, Trace(st, CommitKey(ed, p), cp, q, n)
  PROVE  Known(h, st[n]) /\ st[n].minute = cp.minute + n /\ GoesOn(cp, st[n])
<1>1. EndMinute \in Nat /\ cp.minute \in Nat
  BY PersistenceConstants, Worldly DEF Known
<1> DEFINE S == {i \in 0 .. n : /\ World(st[i]) /\ st[i].minute = cp.minute + i
                                /\ Alike(st[i], h[cp.minute + i]) /\ GoesOn(cp, st[i])}
<1>2. 0 \in S
  <2>1. st[0] = cp /\ cp.minute + 0 = cp.minute /\ 0 \in 0 .. n
    BY <1>1 DEF Trace
  <2>2. Len(cp.log) \in Nat
    BY Worldly DEF Known
  <2>3. GoesOn(cp, cp)
    BY <2>2 DEF GoesOn
  <2>4. QED BY <2>1, <2>3 DEF Known
<1>3. ASSUME NEW i \in 0 .. n, i # n, i \in S PROVE i + 1 \in S
  <2>1. i + 1 \in 1 .. n /\ i + 1 \in 0 .. n /\ (i + 1) - 1 = i
    BY <1>3
  <2>2. PICK m : m = cp.minute + i
    OBVIOUS
  <2>3. /\ m \in 0 .. EndMinute /\ m < EndMinute /\ m + 1 = cp.minute + (i + 1)
        /\ m + 1 \in 1 .. EndMinute /\ (m + 1) - 1 = m
    BY <1>1, <1>3, <2>2
  <2>4. st[i + 1] = Committing(ed, p, st[i])
    BY <2>1, Keys DEF Trace
  <2>5. h[m + 1] = Committing(ed, p, h[m])
    BY <2>3 DEF History
  <2>6. World(st[i]) /\ st[i].minute = m /\ Alike(st[i], h[m]) /\ GoesOn(cp, st[i])
    BY <1>3, <2>2
  <2>7. World(h[m]) /\ h[m].minute = m
    BY <2>3, HistoryGoesOn
  <2>8. World(st[i + 1]) /\ st[i + 1].minute = m + 1 /\ GoesOn(st[i], st[i + 1])
    BY <2>3, <2>4, <2>6, CommitGrows
  <2>9. Alike(st[i + 1], h[m + 1])
    BY <2>3, <2>4, <2>5, <2>6, <2>7, CommitAlike
  <2>10. GoesOn(cp, st[i + 1])
    BY <2>6, <2>8, GoesOnOn DEF Known
  <2>11. QED BY <2>1, <2>3, <2>8, <2>9, <2>10
<1>4. \A i \in 0 .. n : i \in S
  <2> HIDE DEF S
  <2> QED BY <1>2, <1>3, StepByStep
<1>5. n \in S
  <2>1. n \in 0 .. n
    OBVIOUS
  <2> HIDE DEF S
  <2>2. QED BY <1>4, <2>1
<1>6. cp.minute + n \in 0 .. EndMinute
  BY <1>1
<1>7. QED BY <1>5, <1>6 DEF Known

-----------------------------------------------------------------------------
(* What a directory and its writer hold.                                   *)

(* The whole authority log of the seed.                                    *)
Full(h) == h[EndMinute].log

(* q is the part of the log of the seed after its first records.           *)
Recorded(h, first, q) ==
  /\ first \in Nat /\ q \in Seq(Range(q)) /\ first + Len(q) <= Len(Full(h))
  /\ \A i \in 1 .. Len(q) : q[i] = Full(h)[first + i]

(* A checkpoint that is stored beside the log q.                           *)
Holds(h, first, q, cp) ==
  Known(h, cp) /\ Canonical(cp) = cp /\ first <= cp.count /\ cp.count <= first + Len(q)

DirShape(d) ==
  d = [status |-> d.status, first |-> d.first, initial |-> d.initial,
       checkpoints |-> d.checkpoints, log |-> d.log, files |-> d.files,
       final |-> d.final, summary |-> d.summary]

(* Every checkpoint is under the minute it is of, but for the first one.   *)
Filed(checkpoints) ==
  /\ checkpoints = [m \in DOMAIN checkpoints |-> checkpoints[m]]
  /\ \A m \in DOMAIN checkpoints : m = 0 \/ checkpoints[m].minute = m

(* There is a checkpoint of every interval after the initial one.          *)
Covered(d, minute) ==
  \A m \in d.initial.minute + 1 .. minute : m % Interval = 0 => m \in DOMAIN d.checkpoints

Whole(ed, d) ==
  /\ d.final # None /\ d.final.minute = EndMinute /\ Len(d.log) = d.final.count - d.first
  /\ ed = "M3" => /\ d.initial # None /\ Covered(d, EndMinute)
                  /\ EndMinute \in DOMAIN d.checkpoints

DirOk(ed, h, d) ==
  /\ DirShape(d) /\ Recorded(h, d.first, d.log) /\ Filed(d.checkpoints)
  /\ \A m \in DOMAIN d.checkpoints : Holds(h, d.first, d.log, d.checkpoints[m])
  /\ d.initial = None \/ Holds(h, d.first, d.log, d.initial)
  /\ d.final = None \/ Holds(h, d.first, d.log, d.final)
  /\ d.files = [k \in Kinds |-> OfKind(d.log, k)]
  /\ d.status = "COMPLETED" => Whole(ed, d)

Phases == {"initial", "zero", "construct", "loop", "append", "checkpoint", "last", "summary",
           "metadata"}

(* Of the checkpoints a writer has left behind on its way to cp.           *)
LeftBehind(ed, at, cp, d) ==
  /\ at \in {"initial", "zero"} => DOMAIN d.checkpoints = {}
  /\ at # "initial" => d.initial # None /\ d.initial.minute <= cp.minute
  /\ at \in {"append", "checkpoint"} => d.initial.minute < cp.minute
  /\ ed = "M3" /\ at # "initial" =>
       Covered(d, IF at \in {"append", "checkpoint"} THEN cp.minute - 1 ELSE cp.minute)
  /\ at \in {"last", "summary", "metadata"} =>
       /\ cp.minute = EndMinute
       /\ d.final # None /\ d.final.minute = EndMinute /\ d.final.count = cp.count
  /\ ed = "M3" /\ at \in {"summary", "metadata"} => EndMinute \in DOMAIN d.checkpoints

(* A process knows the history up to its minute; what it has not written   *)
(* yet is what follows the log.                                            *)
WriterOk(ed, h, pr, d) ==
  /\ pr = [run |-> pr.run, at |-> pr.at, chunk |-> pr.chunk, cp |-> pr.cp, pending |-> pr.pending]
  /\ pr.at \in Phases /\ pr.chunk \in Nat \ {0}
  /\ d.status = "IN_PROGRESS"
  /\ Known(h, pr.cp)
  /\ Recorded(h, d.first + Len(d.log), pr.pending)
  /\ d.first + Len(d.log) + Len(pr.pending) = pr.cp.count
  /\ pr.at # "append" => pr.pending = <<>>
  /\ LeftBehind(ed, pr.at, pr.cp, d)

Sound(ed, h, dk, pr) ==
  /\ \A r \in Run : dk[r] # None => DirOk(ed, h, dk[r])
  /\ pr # None => pr.run \in Run /\ dk[pr.run] # None /\ WriterOk(ed, h, pr, dk[pr.run])

Typing ==
  edition \in {"M1", "M3"} /\ plot \in [1 .. EndMinute -> Plots] /\ disk = [r \in Run |-> disk[r]]

Inv == Typing /\ \A h : History(edition, plot, h) => Sound(edition, h, disk, proc)

(* A checkpoint of the history holds the first records of the log.         *)
LEMMA KnownLog ==
  ASSUME NEW ed, NEW p \in [1 .. EndMinute -> Plots], NEW h, History(ed, p, h),
         NEW cp, Known(h, cp)
  PROVE  /\ cp.log \in Seq(Range(cp.log)) /\ cp.count = Len(cp.log) /\ cp.count \in Nat
         /\ Full(h) \in Seq(Range(Full(h))) /\ cp.count <= Len(Full(h)) /\ Len(Full(h)) \in Nat
         /\ \A i \in 1 .. cp.count : cp.log[i] = Full(h)[i]
<1>1. PICK m, n : m = cp.minute /\ n = EndMinute
  OBVIOUS
<1>2. m \in 0 .. n /\ n \in Nat /\ n \in 0 .. n
  BY <1>1, PersistenceConstants DEF Known
<1>3. World(h[n]) /\ GoesOn(h[m], h[n])
  BY <1>1, <1>2, HistoryGoesOn
<1>4. World(cp) /\ cp.log = h[m].log
  BY <1>1 DEF Known, Alike
<1>5. /\ cp.log \in Seq(Range(cp.log)) /\ cp.count = Len(cp.log) /\ cp.count \in Nat
  BY <1>4, Worldly
<1>6. h[n].log \in Seq(Range(h[n].log)) /\ Len(h[n].log) \in Nat
  BY <1>3, Worldly
<1>7. QED BY <1>1, <1>3, <1>4, <1>5, <1>6 DEF Full, GoesOn

(* Between a minute and its next checkpoint there is none.                 *)
LEMMA Intervals ==
  ASSUME NEW m \in Nat
  PROVE  /\ NextCheckpoint(m) \in Nat /\ m < NextCheckpoint(m)
         /\ \A x \in m + 1 .. NextCheckpoint(m) - 1 : x % Interval # 0
<1>1. PICK n : n = Interval
  OBVIOUS
<1>2. n \in Nat \ {0}
  BY <1>1, PersistenceConstants
<1>3. PICK q : q = m \div n
  OBVIOUS
<1>4. q \in Nat /\ n * q <= m /\ m < n * q + n
  BY <1>2, <1>3
<1>5. NextCheckpoint(m) = n * q + n
  BY <1>1, <1>2, <1>3, <1>4 DEF NextCheckpoint
<1>6. ASSUME NEW x \in m + 1 .. (n * q + n) - 1 PROVE x % n # 0
  <2>1. x \in Nat /\ n * q < x /\ x < n * q + n
    BY <1>2, <1>4
  <2>2. SUFFICES ASSUME x % n = 0 PROVE FALSE
    OBVIOUS
  <2>3. PICK k : k = x \div n
    OBVIOUS
  <2>4. k \in Nat /\ x = n * k
    BY <1>2, <2>1, <2>2, <2>3
  <2>5. k <= q \/ k >= q + 1
    BY <1>4, <2>4
  <2>6. n * (q + 1) = n * q + n
    BY <1>2, <1>4
  <2>7. k <= q => n * k <= n * q
    BY <1>2, <1>4, <2>4
  <2>8. k >= q + 1 => n * k >= n * (q + 1)
    BY <1>2, <1>4, <2>4
  <2>9. n * q \in Nat
    BY <1>2, <1>4
  <2>10. QED BY <1>2, <2>1, <2>4, <2>5, <2>6, <2>7, <2>8, <2>9
<1>7. n * q + n \in Nat
  BY <1>2, <1>4
<1>8. QED BY <1>1, <1>4, <1>5, <1>6, <1>7

-----------------------------------------------------------------------------
(* What is done to a directory.                                            *)

LEMMA Distinct ==
  ASSUME NEW d
  PROVE  (DirShape(d) => d # None) /\ (Shape(d) => d # None)
<1>1. \A x : [none |-> x] # d \/ DOMAIN d = {"none"}
  OBVIOUS
<1>2. DirShape(d) => "log" \in DOMAIN d
  BY DEF DirShape
<1>3. Shape(d) => "log" \in DOMAIN d
  BY DEF Shape
<1>4. QED BY <1>1, <1>2, <1>3 DEF None

(* Nothing but the log and the files grows, and the checkpoints stay.      *)
Steady(d, e) ==
  /\ DOMAIN d.checkpoints \subseteq DOMAIN e.checkpoints
  /\ \A m \in DOMAIN d.checkpoints : e.checkpoints[m] = d.checkpoints[m]

(* The records that follow may be written, all of them or some.            *)
LEMMA WrittenOk ==
  ASSUME NEW ed, NEW h, NEW d, DirOk(ed, h, d), d.status # "COMPLETED",
         NEW q, Recorded(h, d.first + Len(d.log), q),
         NEW e, e = Written(d, q, [k \in Kinds |-> OfKind(q, k)])
  PROVE  /\ DirOk(ed, h, e) /\ Steady(d, e)
         /\ e.first = d.first /\ e.status = d.status /\ e.initial = d.initial
         /\ e.checkpoints = d.checkpoints /\ e.final = d.final
         /\ Len(e.log) = Len(d.log) + Len(q)
<1>1. PICK l, f, u : l = d.log /\ f = d.first /\ u = l \o q
  OBVIOUS
<1>2. DirShape(d) /\ Recorded(h, f, l)
  BY <1>1 DEF DirOk
<1>3. PICK g : g = [k \in Kinds |-> OfKind(u, k)]
  OBVIOUS
<1>4. l \in Seq(Range(l)) /\ q \in Seq(Range(q))
  BY <1>1, <1>2 DEF Recorded
<1>5. /\ u \in Seq(Range(u)) /\ Len(l) \in Nat /\ Len(q) \in Nat /\ Len(u) = Len(l) + Len(q)
      /\ \A i \in 1 .. Len(l) : u[i] = l[i]
      /\ \A i \in 1 .. Len(q) : u[Len(l) + i] = q[i]
  BY <1>1, <1>4, Joining
<1>6. g = [k \in Kinds |-> d.files[k] \o [j \in Kinds |-> OfKind(q, j)][k]]
  <2>1. \A k \in Kinds : OfKind(u, k) = OfKind(l, k) \o OfKind(q, k)
    BY <1>1, <1>4, KindsJoin
  <2>2. \A k \in Kinds : d.files[k] = OfKind(l, k)
    BY <1>1 DEF DirOk
  <2>3. QED BY <1>3, <2>1, <2>2
<1>7. /\ DirShape(e) /\ e.log = u /\ e.files = g
      /\ e.first = f /\ e.status = d.status /\ e.initial = d.initial
      /\ e.checkpoints = d.checkpoints /\ e.final = d.final
  <2>1. e = [d EXCEPT !.log = u, !.files = g]
    BY <1>1, <1>2, <1>6 DEF Written, DirShape
  <2>2. QED BY <1>1, <1>2, <2>1 DEF DirShape
<1>8. Recorded(h, f, u)
  <2>1. PICK w : w = Full(h)
    OBVIOUS
  <2>2. f \in Nat /\ f + Len(u) <= Len(w)
    BY <1>1, <1>2, <1>5, <2>1 DEF Recorded
  <2>3. ASSUME NEW i \in 1 .. Len(u) PROVE u[i] = w[f + i]
    <3>1. CASE i <= Len(l)
      BY <1>2, <1>5, <2>1, <2>3, <3>1 DEF Recorded
    <3>2. CASE ~(i <= Len(l))
      <4>1. PICK j : j = i - Len(l)
        OBVIOUS
      <4>2. j \in 1 .. Len(q) /\ i = Len(l) + j /\ f + i = (f + Len(l)) + j
        BY <1>5, <2>2, <2>3, <3>2, <4>1
      <4>3. q[j] = w[(f + Len(l)) + j]
        BY <1>1, <2>1, <4>2 DEF Recorded
      <4>4. QED BY <1>5, <4>2, <4>3
    <3>3. QED BY <3>1, <3>2
  <2>4. QED BY <1>5, <2>1, <2>2, <2>3 DEF Recorded
<1>9. \A cp : Holds(h, f, l, cp) => Holds(h, f, u, cp)
  <2>1. SUFFICES ASSUME NEW cp, Holds(h, f, l, cp) PROVE cp.count <= f + Len(u)
    BY DEF Holds
  <2>2. cp.count \in Nat /\ f \in Nat
    BY <1>2, <2>1, Worldly DEF Holds, Known, Recorded
  <2>3. QED BY <1>5, <2>1, <2>2 DEF Holds
<1>10. DirOk(ed, h, e)
  BY <1>1, <1>3, <1>7, <1>8, <1>9 DEF DirOk
<1>11. QED BY <1>1, <1>5, <1>7, <1>10 DEF Steady

(* A checkpoint beside the log may be stored.                              *)
LEMMA HoldsIt ==
  ASSUME NEW ed, NEW h, NEW d, DirOk(ed, h, d), NEW cp, Known(h, cp),
         cp.count = d.first + Len(d.log)
  PROVE  Holds(h, d.first, d.log, Canonical(cp))
<1>1. PICK c : c = Canonical(cp)
  OBVIOUS
<1>2. Known(h, c) /\ Canonical(c) = c /\ c.count = cp.count
  BY <1>1, KnownCanonical
<1>3. d.first \in Nat /\ Len(d.log) \in Nat
  BY LenProperties DEF DirOk, Recorded
<1>4. QED BY <1>1, <1>2, <1>3 DEF Holds

Starting(d, c) == [d EXCEPT !.initial = c]
Finishing(d, c) == [d EXCEPT !.final = c]

LEMMA InitialOk ==
  ASSUME NEW ed, NEW h, NEW d, DirOk(ed, h, d), d.status # "COMPLETED",
         NEW c, Holds(h, d.first, d.log, c), NEW e, e = Starting(d, c)
  PROVE  /\ DirOk(ed, h, e) /\ Steady(d, e)
         /\ e.first = d.first /\ e.status = d.status /\ e.initial = c
         /\ e.checkpoints = d.checkpoints /\ e.final = d.final /\ e.log = d.log
<1>1. /\ DirShape(e) /\ e.log = d.log /\ e.files = d.files
      /\ e.first = d.first /\ e.status = d.status /\ e.initial = c
      /\ e.checkpoints = d.checkpoints /\ e.final = d.final
  BY DEF DirOk, DirShape, Starting
<1>2. QED BY <1>1 DEF DirOk, Steady

LEMMA FinalOk ==
  ASSUME NEW ed, NEW h, NEW d, DirOk(ed, h, d), d.status # "COMPLETED",
         NEW c, Holds(h, d.first, d.log, c), NEW e, e = Finishing(d, c)
  PROVE  /\ DirOk(ed, h, e) /\ Steady(d, e)
         /\ e.first = d.first /\ e.status = d.status /\ e.initial = d.initial
         /\ e.checkpoints = d.checkpoints /\ e.final = c /\ e.log = d.log
<1>1. /\ DirShape(e) /\ e.log = d.log /\ e.files = d.files
      /\ e.first = d.first /\ e.status = d.status /\ e.initial = d.initial
      /\ e.checkpoints = d.checkpoints /\ e.final = c
  BY DEF DirOk, DirShape, Finishing
<1>2. QED BY <1>1 DEF DirOk, Steady

LEMMA SummaryOk ==
  ASSUME NEW ed, NEW h, NEW d, DirOk(ed, h, d), NEW s, NEW e, e = [d EXCEPT !.summary = s]
  PROVE  /\ DirOk(ed, h, e) /\ Steady(d, e)
         /\ e.first = d.first /\ e.status = d.status /\ e.initial = d.initial
         /\ e.checkpoints = d.checkpoints /\ e.final = d.final /\ e.log = d.log
<1>1. /\ DirShape(e) /\ e.log = d.log /\ e.files = d.files
      /\ e.first = d.first /\ e.status = d.status /\ e.initial = d.initial
      /\ e.checkpoints = d.checkpoints /\ e.final = d.final
  BY DEF DirOk, DirShape
<1>2. QED BY <1>1 DEF DirOk, Steady, Whole, Covered

LEMMA StatusOk ==
  ASSUME NEW ed, NEW h, NEW d, DirOk(ed, h, d), NEW s, s = "COMPLETED" => Whole(ed, d),
         NEW e, e = [d EXCEPT !.status = s]
  PROVE  /\ DirOk(ed, h, e) /\ Steady(d, e)
<1>1. /\ DirShape(e) /\ e.log = d.log /\ e.files = d.files
      /\ e.first = d.first /\ e.status = s /\ e.initial = d.initial
      /\ e.checkpoints = d.checkpoints /\ e.final = d.final
  BY DEF DirOk, DirShape
<1>2. QED BY <1>1 DEF DirOk, Steady, Whole, Covered

Storing(d, m, c) ==
  [d EXCEPT !.checkpoints = [k \in DOMAIN @ \cup {m} |-> IF k = m THEN c ELSE @[k]]]

(* A checkpoint may be stored under its minute, once more or not, and the   *)
(* first one under 0.                                                      *)
LEMMA StoredOk ==
  ASSUME NEW ed, NEW h, NEW d, DirOk(ed, h, d), d.status # "COMPLETED",
         NEW c, Holds(h, d.first, d.log, c), NEW m, m # 0 => c.minute = m,
         m = 0 => DOMAIN d.checkpoints = {},
         NEW e, e = Storing(d, m, c)
  PROVE  /\ DirOk(ed, h, e) /\ Steady(d, e)
         /\ e.first = d.first /\ e.status = d.status /\ e.initial = d.initial
         /\ DOMAIN e.checkpoints = DOMAIN d.checkpoints \cup {m}
         /\ e.final = d.final /\ e.log = d.log
<1>1. PICK x, y : /\ x = d.checkpoints
                  /\ y = [k \in DOMAIN x \cup {m} |-> IF k = m THEN c ELSE x[k]]
  OBVIOUS
<1>2. e = [d EXCEPT !.checkpoints = y]
  BY <1>1 DEF DirOk, DirShape, Storing
<1>3. /\ DirShape(e) /\ e.log = d.log /\ e.files = d.files
      /\ e.first = d.first /\ e.status = d.status /\ e.initial = d.initial
      /\ e.checkpoints = y /\ e.final = d.final
  BY <1>2 DEF DirOk, DirShape
<1>4. /\ DOMAIN y = DOMAIN x \cup {m} /\ y[m] = c
      /\ \A k \in DOMAIN x : k # m => y[k] = x[k]
  BY <1>1
<1>5. \A k \in DOMAIN x : Holds(h, d.first, d.log, x[k]) /\ (k = 0 \/ x[k].minute = k)
  BY <1>1 DEF DirOk, Filed
<1>6. ASSUME m \in DOMAIN x PROVE x[m] = c
  <2>1. m # 0 /\ x[m].minute = c.minute
    BY <1>1, <1>5, <1>6
  <2>2. PICK b : b = x[m]
    OBVIOUS
  <2>3. Known(h, b) /\ Known(h, c) /\ Canonical(b) = b /\ Canonical(c) = c
    BY <1>5, <1>6, <2>2 DEF Holds
  <2>4. QED BY <2>1, <2>2, <2>3, OneHistory
<1>7. Filed(y) /\ \A k \in DOMAIN y : Holds(h, d.first, d.log, y[k])
  <2>1. y = [k \in DOMAIN y |-> y[k]]
    BY <1>1
  <2>2. QED BY <1>4, <1>5, <2>1 DEF Filed
<1>8. DirOk(ed, h, e)
  BY <1>3, <1>7 DEF DirOk
<1>9. Steady(d, e)
  BY <1>1, <1>3, <1>4, <1>6 DEF Steady
<1>10. QED BY <1>1, <1>3, <1>4, <1>8, <1>9

-----------------------------------------------------------------------------
(* The steps.                                                              *)

(* What every step keeps: the invariant, for the history h of the seed, and *)
(* the checkpoints that are stored.                                        *)
Keeping(h) ==
  /\ Sound(edition, h, disk', proc')
  /\ disk' = [r \in Run |-> disk'[r]]
  /\ \A r \in Run : disk[r] # None => disk'[r] # None /\ Steady(disk[r], disk'[r])

Seeded(h) == Typing /\ History(edition, plot, h) /\ Sound(edition, h, disk, proc)

LEMMA Untouched == ASSUME NEW d PROVE Steady(d, d)
BY DEF Steady

(* A step of the process rewrites its own directory.                       *)
LEMMA Rewritten ==
  ASSUME NEW h, Seeded(h), proc # None,
         NEW e, disk' = [disk EXCEPT ![proc.run] = e], DirOk(edition, h, e), Steady(Dir, e),
         proc' # None => proc'.run = proc.run /\ WriterOk(edition, h, proc', e)
  PROVE  Keeping(h)
<1>1. PICK s : s = proc.run
  OBVIOUS
<1>2. s \in Run /\ disk = [r \in Run |-> disk[r]] /\ disk' = [disk EXCEPT ![s] = e]
  BY <1>1 DEF Seeded, Typing, Sound
<1>3. disk'[s] = e /\ \A r \in Run : r # s => disk'[r] = disk[r]
  BY <1>2
<1>4. e # None
  BY Distinct DEF DirOk
<1>5. \A r \in Run : disk'[r] # None => DirOk(edition, h, disk'[r])
  BY <1>2, <1>3 DEF Seeded, Sound
<1>6. \A r \in Run : disk[r] # None => disk'[r] # None /\ Steady(disk[r], disk'[r])
  BY <1>1, <1>2, <1>3, <1>4, Untouched DEF Dir
<1>7. Sound(edition, h, disk', proc')
  BY <1>1, <1>2, <1>3, <1>4, <1>5 DEF Sound
<1>8. disk' = [r \in Run |-> disk'[r]]
  BY <1>2
<1>9. QED BY <1>6, <1>7, <1>8 DEF Keeping

LEMMA Unwritten ==
  ASSUME NEW h, Seeded(h), UNCHANGED disk,
         proc' # None => /\ proc # None /\ proc'.run = proc.run
                         /\ WriterOk(edition, h, proc', Dir)
  PROVE  Keeping(h)
BY Untouched DEF Seeded, Typing, Sound, Keeping, Dir

(* What is known of a process that runs.                                   *)
LEMMA Running ==
  ASSUME NEW h, Seeded(h), proc # None
  PROVE  /\ DirOk(edition, h, Dir) /\ WriterOk(edition, h, proc, Dir) /\ proc.run \in Run
         /\ Known(h, proc.cp) /\ proc.cp.minute \in Nat /\ proc.cp.minute <= EndMinute
         /\ proc.cp.count \in Nat /\ Dir.first \in Nat /\ Len(Dir.log) \in Nat
         /\ Dir.status = "IN_PROGRESS"
         /\ LeftBehind(edition, proc.at, proc.cp, Dir)
         /\ EndMinute \in Nat \ {0}
         /\ proc.at # "append" => proc.pending = <<>> /\ proc.cp.count = Dir.first + Len(Dir.log)
<1>1. PICK d, c : d = Dir /\ c = proc.cp
  OBVIOUS
<1>2. DirOk(edition, h, d) /\ WriterOk(edition, h, proc, d) /\ proc.run \in Run
  BY <1>1 DEF Seeded, Sound, Dir
<1>3. EndMinute \in Nat \ {0}
  BY PersistenceConstants
<1>4. Known(h, c) /\ c.minute \in Nat /\ c.minute <= EndMinute /\ c.count \in Nat
  BY <1>1, <1>2, <1>3, Worldly DEF WriterOk, Known
<1>5. d.first \in Nat /\ Len(d.log) \in Nat
  BY <1>2, LenProperties DEF DirOk, Recorded
<1>6. d.status = "IN_PROGRESS" /\ LeftBehind(edition, proc.at, c, d)
  BY <1>1, <1>2 DEF WriterOk
<1>7. proc.at # "append" => proc.pending = <<>> /\ c.count = d.first + Len(d.log)
  <2>1. SUFFICES ASSUME proc.at # "append" PROVE proc.pending = <<>> /\ c.count = d.first + Len(d.log)
    OBVIOUS
  <2>2. proc.pending = <<>> /\ d.first + Len(d.log) + Len(proc.pending) = c.count
    BY <1>1, <1>2, <2>1 DEF WriterOk
  <2>3. Len(proc.pending) = 0
    BY <2>2, EmptySeq
  <2>4. QED BY <1>5, <2>2, <2>3
<1>8. QED BY <1>1, <1>2, <1>3, <1>4, <1>5, <1>6, <1>7

(* From one phase to another.                                              *)
LEMMA Going ==
  ASSUME NEW h, Seeded(h), proc # None, proc.at # "append", NEW ph \in Phases,
         NEW e, e.first = Dir.first, e.log = Dir.log, e.status = Dir.status,
         LeftBehind(edition, ph, proc.cp, e), proc' = [proc EXCEPT !.at = ph]
  PROVE  proc'.run = proc.run /\ WriterOk(edition, h, proc', e)
<1>1. PICK d, pr, x : d = Dir /\ pr = proc /\ x = proc'
  OBVIOUS
<1>2. WriterOk(edition, h, pr, d)
  BY <1>1, Running
<1>3. /\ x = [run |-> x.run, at |-> x.at, chunk |-> x.chunk, cp |-> x.cp, pending |-> x.pending]
      /\ x.run = pr.run /\ x.at = ph /\ x.chunk = pr.chunk /\ x.cp = pr.cp /\ x.pending = pr.pending
  BY <1>1, <1>2 DEF WriterOk
<1>4. pr.pending = <<>>
  BY <1>1, <1>2 DEF WriterOk
<1>5. QED BY <1>1, <1>2, <1>3, <1>4 DEF WriterOk

LEMMA WriteInitialKeeps ==
  ASSUME NEW h, Seeded(h), WriteInitial
  PROVE  Keeping(h)
<1>1. proc # None /\ proc.at = "initial"
  BY DEF WriteInitial, At
<1>2. PICK d, c, p, ph : /\ d = Dir /\ c = Canonical(proc.cp) /\ p = proc.cp
                         /\ ph = IF edition = "M3" THEN "zero" ELSE "loop"
  OBVIOUS
<1>3. PICK e : e = Starting(d, c)
  OBVIOUS
<1>4. disk' = [disk EXCEPT ![proc.run] = e] /\ proc' = [proc EXCEPT !.at = ph] /\ ph \in Phases
  BY <1>2, <1>3 DEF WriteInitial, Starting, Goto, Dir, Seeded, Typing, Phases
<1>5. /\ DirOk(edition, h, d) /\ Known(h, p) /\ p.count = d.first + Len(d.log)
      /\ d.status = "IN_PROGRESS" /\ LeftBehind(edition, "initial", p, d) /\ p.minute \in Nat
  BY <1>1, <1>2, Running
<1>6. Holds(h, d.first, d.log, c) /\ c.minute = p.minute /\ c # None
  BY <1>2, <1>5, HoldsIt, KnownCanonical, Distinct DEF Known, World
<1>7. /\ DirOk(edition, h, e) /\ Steady(d, e)
      /\ e.first = d.first /\ e.status = d.status /\ e.initial = c
      /\ e.checkpoints = d.checkpoints /\ e.final = d.final /\ e.log = d.log
  <2>1. d.status # "COMPLETED"
    BY <1>5
  <2>2. QED BY <1>3, <1>5, <1>6, <2>1, InitialOk
<1>8. LeftBehind(edition, ph, p, e)
  <2>1. DOMAIN e.checkpoints = {} /\ ph \in {"zero", "loop"}
    BY <1>2, <1>5, <1>7 DEF LeftBehind
  <2>2. p.minute + 1 .. p.minute = {}
    BY <1>5
  <2>3. Covered(e, p.minute)
    BY <1>6, <1>7, <2>2 DEF Covered
  <2>4. QED BY <1>5, <1>6, <1>7, <2>1, <2>3 DEF LeftBehind
<1>9. proc'.run = proc.run /\ WriterOk(edition, h, proc', e)
  BY <1>1, <1>2, <1>4, <1>7, <1>8, Going
<1>10. QED BY <1>1, <1>2, <1>4, <1>7, <1>9, Rewritten

(* m names the place of the checkpoint cp.                                  *)
Places(m, cp, d) == (m # 0 => cp.minute = m) /\ (m = 0 => DOMAIN d.checkpoints = {})

(* e is the directory of the process once more is stored under m.          *)
StoredUnder(h, m, e) ==
  /\ disk' = [disk EXCEPT ![proc.run] = e] /\ DirOk(edition, h, e) /\ Steady(Dir, e)
  /\ e.first = Dir.first /\ e.status = Dir.status /\ e.initial = Dir.initial
  /\ DOMAIN e.checkpoints = DOMAIN Dir.checkpoints \cup {m}
  /\ e.final = Dir.final /\ e.log = Dir.log

(* The process stores the checkpoint it is at.                             *)
LEMMA StoreAtOk ==
  ASSUME NEW h, Seeded(h), proc # None, proc.at # "append",
         NEW m, Places(m, proc.cp, Dir),
         disk' = StoreAt(m, proc.cp)
  PROVE  \E e : StoredUnder(h, m, e)
<1>1. PICK d, c, p : d = Dir /\ c = Canonical(proc.cp) /\ p = proc.cp
  OBVIOUS
<1>2. PICK e : e = Storing(d, m, c)
  OBVIOUS
<1>3. disk' = [disk EXCEPT ![proc.run] = e]
  BY <1>1, <1>2 DEF StoreAt, Storing, Dir, Seeded, Typing
<1>4. /\ DirOk(edition, h, d) /\ Known(h, p) /\ p.count = d.first + Len(d.log)
      /\ d.status = "IN_PROGRESS"
  BY <1>1, Running
<1>5. Holds(h, d.first, d.log, c) /\ c.minute = p.minute
  BY <1>1, <1>4, HoldsIt, KnownCanonical
<1>6. /\ DirOk(edition, h, e) /\ Steady(d, e)
      /\ e.first = d.first /\ e.status = d.status /\ e.initial = d.initial
      /\ DOMAIN e.checkpoints = DOMAIN d.checkpoints \cup {m}
      /\ e.final = d.final /\ e.log = d.log
  <2>1. (m # 0 => c.minute = m) /\ (m = 0 => DOMAIN d.checkpoints = {}) /\ d.status # "COMPLETED"
    BY <1>1, <1>4, <1>5 DEF Places
  <2>2. QED BY <1>2, <1>4, <1>5, <2>1, StoredOk
<1>7. StoredUnder(h, m, e)
  BY <1>1, <1>3, <1>6 DEF StoredUnder
<1>8. QED BY <1>7

LEMMA WriteZeroKeeps ==
  ASSUME NEW h, Seeded(h), WriteZero
  PROVE  Keeping(h)
<1>1. /\ proc # None /\ proc.at = "zero" /\ disk' = StoreAt(0, proc.cp)
      /\ proc' = [proc EXCEPT !.at = "construct"]
  BY DEF WriteZero, At, Goto
<1>2. LeftBehind(edition, "zero", proc.cp, Dir)
  BY <1>1, Running
<1>3. DOMAIN Dir.checkpoints = {}
  BY <1>2 DEF LeftBehind
<1>3a. PICK m : m = 0
  OBVIOUS
<1>4a. PICK e : StoredUnder(h, m, e)
  <2>1. proc.at # "append" /\ disk' = StoreAt(m, proc.cp)
    BY <1>1, <1>3a
  <2>2. Places(m, proc.cp, Dir)
    BY <1>3, <1>3a DEF Places
  <2>3. proc # None
    BY <1>1
  <2>4. QED BY <2>1, <2>2, <2>3, StoreAtOk
<1>4. /\ disk' = [disk EXCEPT ![proc.run] = e] /\ DirOk(edition, h, e) /\ Steady(Dir, e)
      /\ e.first = Dir.first /\ e.status = Dir.status /\ e.initial = Dir.initial
      /\ DOMAIN e.checkpoints = DOMAIN Dir.checkpoints \cup {m}
      /\ e.final = Dir.final /\ e.log = Dir.log
  BY <1>4a DEF StoredUnder
<1>5. LeftBehind(edition, "construct", proc.cp, e)
  BY <1>2, <1>4 DEF LeftBehind, Covered
<1>6. proc'.run = proc.run /\ WriterOk(edition, h, proc', e)
  BY <1>1, <1>4, <1>5, Going DEF Phases
<1>7. QED BY <1>1, <1>4, <1>6, Rewritten

LEMMA ConstructKeeps ==
  ASSUME NEW h, Seeded(h), Construct
  PROVE  Keeping(h)
<1>1. proc # None /\ proc.at = "construct" /\ UNCHANGED disk
  BY DEF Construct, At
<1>2. CASE proc' = None
  BY <1>1, <1>2, Unwritten
<1>3. CASE proc' # None
  <2>1. proc' = [proc EXCEPT !.at = "loop"]
    BY <1>3 DEF Construct, Goto
  <2>2. LeftBehind(edition, "construct", proc.cp, Dir)
    BY <1>1, Running
  <2>3. LeftBehind(edition, "loop", proc.cp, Dir)
    BY <2>2 DEF LeftBehind
  <2>4. proc'.run = proc.run /\ WriterOk(edition, h, proc', Dir)
    BY <1>1, <2>1, <2>3, Going DEF Phases
  <2>5. QED BY <1>1, <2>4, Unwritten
<1>4. QED BY <1>2, <1>3

LEMMA WriteCheckpointKeeps ==
  ASSUME NEW h, Seeded(h), WriteCheckpoint
  PROVE  Keeping(h)
<1>1. /\ proc # None /\ proc.at = "checkpoint" /\ disk' = StoreAt(proc.cp.minute, proc.cp)
      /\ proc' = [proc EXCEPT !.at = "loop"]
  BY DEF WriteCheckpoint, At, Goto
<1>2. PICK d, m : d = Dir /\ m = proc.cp.minute
  OBVIOUS
<1>3. LeftBehind(edition, "checkpoint", proc.cp, d) /\ m \in Nat /\ DirOk(edition, h, d)
  BY <1>1, <1>2, Running
<1>4. d.initial # None /\ d.initial.minute < m
  BY <1>2, <1>3 DEF LeftBehind
<1>5. d.initial.minute \in Nat
  BY <1>3, <1>4, Worldly DEF DirOk, Holds, Known
<1>6. m # 0
  BY <1>3, <1>4, <1>5
<1>7a. PICK e : StoredUnder(h, m, e)
  <2>1. proc.at # "append" /\ disk' = StoreAt(m, proc.cp)
    BY <1>1, <1>2
  <2>2. Places(m, proc.cp, Dir)
    BY <1>2, <1>6 DEF Places
  <2>3. proc # None
    BY <1>1
  <2>4. QED BY <2>1, <2>2, <2>3, StoreAtOk
<1>7. /\ disk' = [disk EXCEPT ![proc.run] = e] /\ DirOk(edition, h, e) /\ Steady(Dir, e)
      /\ e.first = Dir.first /\ e.status = Dir.status /\ e.initial = Dir.initial
      /\ DOMAIN e.checkpoints = DOMAIN Dir.checkpoints \cup {m}
      /\ e.final = Dir.final /\ e.log = Dir.log
  BY <1>7a DEF StoredUnder
<1>8. LeftBehind(edition, "loop", proc.cp, e)
  <2>1. edition = "M3" => Covered(e, m)
    <3>1. SUFFICES ASSUME edition = "M3", NEW x \in e.initial.minute + 1 .. m, x % Interval = 0
                   PROVE  x \in DOMAIN e.checkpoints
      BY DEF Covered
    <3>2. Covered(d, m - 1)
      BY <1>2, <1>3, <3>1 DEF LeftBehind
    <3>3. x = m \/ x \in d.initial.minute + 1 .. m - 1
      BY <1>2, <1>3, <1>5, <1>7, <3>1
    <3>4. QED BY <1>2, <1>7, <3>1, <3>2, <3>3 DEF Covered
  <2>2. e.initial # None /\ e.initial.minute <= m
    BY <1>2, <1>3, <1>4, <1>5, <1>7
  <2>3. QED BY <1>2, <2>1, <2>2 DEF LeftBehind
<1>9. proc'.run = proc.run /\ WriterOk(edition, h, proc', e)
  BY <1>1, <1>2, <1>7, <1>8, Going DEF Phases
<1>10. QED BY <1>1, <1>2, <1>7, <1>9, Rewritten

LEMMA WriteFinalKeeps ==
  ASSUME NEW h, Seeded(h), WriteFinal
  PROVE  Keeping(h)
<1>1. proc # None /\ proc.at = "loop" /\ proc.cp.minute >= EndMinute
  BY DEF WriteFinal, At
<1>2. PICK d, c, p, ph : /\ d = Dir /\ c = Canonical(proc.cp) /\ p = proc.cp
                         /\ ph = IF edition = "M3" THEN "last" ELSE "summary"
  OBVIOUS
<1>3. PICK e : e = Finishing(d, c)
  OBVIOUS
<1>4. disk' = [disk EXCEPT ![proc.run] = e] /\ proc' = [proc EXCEPT !.at = ph] /\ ph \in Phases
  BY <1>2, <1>3 DEF WriteFinal, Finishing, Goto, Dir, Seeded, Typing, Phases
<1>5. /\ DirOk(edition, h, d) /\ Known(h, p) /\ p.count = d.first + Len(d.log)
      /\ d.status = "IN_PROGRESS" /\ LeftBehind(edition, "loop", p, d) /\ p.minute = EndMinute
  BY <1>1, <1>2, Running
<1>6. /\ Holds(h, d.first, d.log, c) /\ c.minute = p.minute /\ c.count = p.count /\ c # None
  BY <1>2, <1>5, HoldsIt, KnownCanonical, Distinct DEF Known, World
<1>7. /\ DirOk(edition, h, e) /\ Steady(d, e)
      /\ e.first = d.first /\ e.status = d.status /\ e.initial = d.initial
      /\ e.checkpoints = d.checkpoints /\ e.final = c /\ e.log = d.log
  <2>1. d.status # "COMPLETED"
    BY <1>5
  <2>2. QED BY <1>3, <1>5, <1>6, <2>1, FinalOk
<1>8. LeftBehind(edition, ph, p, e)
  BY <1>2, <1>5, <1>6, <1>7 DEF LeftBehind, Covered
<1>9. proc'.run = proc.run /\ WriterOk(edition, h, proc', e)
  BY <1>1, <1>2, <1>4, <1>7, <1>8, Going
<1>10. QED BY <1>1, <1>2, <1>4, <1>7, <1>9, Rewritten

LEMMA WriteLastKeeps ==
  ASSUME NEW h, Seeded(h), WriteLast
  PROVE  Keeping(h)
<1>1. /\ proc # None /\ proc.at = "last" /\ disk' = StoreAt(proc.cp.minute, proc.cp)
      /\ proc' = [proc EXCEPT !.at = "summary"]
  BY DEF WriteLast, At, Goto
<1>2. PICK m : m = proc.cp.minute
  OBVIOUS
<1>3. LeftBehind(edition, "last", proc.cp, Dir) /\ EndMinute \in Nat \ {0}
  BY <1>1, Running
<1>4. m = EndMinute
  BY <1>2, <1>3 DEF LeftBehind
<1>5a. PICK e : StoredUnder(h, m, e)
  <2>1. Places(m, proc.cp, Dir) /\ disk' = StoreAt(m, proc.cp) /\ proc.at # "append"
    BY <1>1, <1>2, <1>3, <1>4 DEF Places
  <2>2. QED BY <1>1, <2>1, StoreAtOk
<1>5. /\ disk' = [disk EXCEPT ![proc.run] = e] /\ DirOk(edition, h, e) /\ Steady(Dir, e)
      /\ e.first = Dir.first /\ e.status = Dir.status /\ e.initial = Dir.initial
      /\ DOMAIN e.checkpoints = DOMAIN Dir.checkpoints \cup {m}
      /\ e.final = Dir.final /\ e.log = Dir.log
  BY <1>5a DEF StoredUnder
<1>6. LeftBehind(edition, "summary", proc.cp, e)
  BY <1>3, <1>4, <1>5 DEF LeftBehind, Covered
<1>7. proc'.run = proc.run /\ WriterOk(edition, h, proc', e)
  BY <1>1, <1>5, <1>6, Going DEF Phases
<1>8. QED BY <1>1, <1>5, <1>7, Rewritten

LEMMA WriteSummaryKeeps ==
  ASSUME NEW h, Seeded(h), WriteSummary
  PROVE  Keeping(h)
<1>1. proc # None /\ proc.at = "summary" /\ proc' = [proc EXCEPT !.at = "metadata"]
  BY DEF WriteSummary, At, Goto
<1>2. PICK d, s : d = Dir /\ s = Summary(proc.cp, Dir)
  OBVIOUS
<1>3. PICK e : e = [d EXCEPT !.summary = s]
  OBVIOUS
<1>4. disk' = [disk EXCEPT ![proc.run] = e]
  BY <1>2, <1>3 DEF WriteSummary, Dir, Seeded, Typing
<1>5. DirOk(edition, h, d) /\ LeftBehind(edition, "summary", proc.cp, d)
  BY <1>1, <1>2, Running
<1>6. /\ DirOk(edition, h, e) /\ Steady(d, e)
      /\ e.first = d.first /\ e.status = d.status /\ e.initial = d.initial
      /\ e.checkpoints = d.checkpoints /\ e.final = d.final /\ e.log = d.log
  BY <1>3, <1>5, SummaryOk
<1>7. LeftBehind(edition, "metadata", proc.cp, e)
  BY <1>5, <1>6 DEF LeftBehind, Covered
<1>8. proc'.run = proc.run /\ WriterOk(edition, h, proc', e)
  BY <1>1, <1>2, <1>6, <1>7, Going DEF Phases
<1>9. QED BY <1>1, <1>2, <1>4, <1>6, <1>8, Rewritten

LEMMA CompleteKeeps ==
  ASSUME NEW h, Seeded(h), Complete
  PROVE  Keeping(h)
<1>1. proc # None /\ proc.at = "metadata" /\ proc' = None
  BY DEF Complete, At
<1>2. PICK d, e : d = Dir /\ e = [d EXCEPT !.status = "COMPLETED"]
  OBVIOUS
<1>3. disk' = [disk EXCEPT ![proc.run] = e]
  BY <1>2 DEF Complete, Dir, Seeded, Typing
<1>4. /\ DirOk(edition, h, d) /\ LeftBehind(edition, "metadata", proc.cp, d)
      /\ proc.cp.count = d.first + Len(d.log) /\ d.first \in Nat /\ Len(d.log) \in Nat
  BY <1>1, <1>2, Running
<1>5. Whole(edition, d)
  <2>1. /\ proc.cp.minute = EndMinute /\ d.final # None /\ d.final.minute = EndMinute
        /\ d.final.count = proc.cp.count /\ d.initial # None
        /\ edition = "M3" => Covered(d, EndMinute) /\ EndMinute \in DOMAIN d.checkpoints
    BY <1>4 DEF LeftBehind
  <2>2. Len(d.log) = d.final.count - d.first
    BY <1>4, <2>1
  <2>3. QED BY <2>1, <2>2 DEF Whole
<1>6. DirOk(edition, h, e) /\ Steady(d, e)
  BY <1>2, <1>4, <1>5, StatusOk
<1>7. QED BY <1>1, <1>2, <1>3, <1>6, Rewritten

LEMMA ChildFailsKeeps ==
  ASSUME NEW h, Seeded(h), ChildFails
  PROVE  Keeping(h)
<1>1. proc # None /\ proc' = None
  BY DEF ChildFails, At
<1>2. CASE proc.at \in {"initial", "zero"}
  BY <1>1, <1>2, Unwritten DEF ChildFails
<1>3. CASE proc.at \notin {"initial", "zero"}
  <2>1. PICK d, e : d = Dir /\ e = [d EXCEPT !.status = "FAILED"]
    OBVIOUS
  <2>2. disk' = [disk EXCEPT ![proc.run] = e]
    BY <1>3, <2>1 DEF ChildFails, AfterFailure, Dir, Seeded, Typing
  <2>3. DirOk(edition, h, d)
    BY <1>1, <2>1, Running
  <2>4. DirOk(edition, h, e) /\ Steady(d, e)
    BY <2>1, <2>3, StatusOk
  <2>5. QED BY <1>1, <2>1, <2>2, <2>4, Rewritten
<1>4. QED BY <1>2, <1>3

LEMMA AppendRecordsKeeps ==
  ASSUME NEW h, Seeded(h), AppendRecords
  PROVE  Keeping(h)
<1>1. proc # None /\ proc.at = "append"
  BY DEF AppendRecords, At
<1>2. PICK d, q, p, ph : /\ d = Dir /\ q = proc.pending /\ p = proc.cp
                         /\ ph = AfterAppend(proc.cp.minute)
  OBVIOUS
<1>3. PICK e : e = Written(d, q, [k \in Kinds |-> OfKind(q, k)])
  OBVIOUS
<1>4. disk' = [disk EXCEPT ![proc.run] = e]
      /\ proc' = [proc EXCEPT !.pending = <<>>, !.at = ph]
  BY <1>2, <1>3 DEF AppendRecords, Dir, Seeded, Typing
<1>5. /\ DirOk(edition, h, d) /\ d.status = "IN_PROGRESS" /\ LeftBehind(edition, "append", p, d)
      /\ p.minute \in Nat /\ WriterOk(edition, h, proc, d) /\ Known(h, p)
      /\ d.first \in Nat /\ Len(d.log) \in Nat
  BY <1>1, <1>2, Running
<1>6. /\ Recorded(h, d.first + Len(d.log), q) /\ d.first + Len(d.log) + Len(q) = p.count
      /\ proc = [run |-> proc.run, at |-> proc.at, chunk |-> proc.chunk, cp |-> proc.cp,
                 pending |-> proc.pending]
      /\ proc.chunk \in Nat \ {0}
  BY <1>2, <1>5 DEF WriterOk
<1>7. /\ DirOk(edition, h, e) /\ Steady(d, e)
      /\ e.first = d.first /\ e.status = d.status /\ e.initial = d.initial
      /\ e.checkpoints = d.checkpoints /\ e.final = d.final
      /\ Len(e.log) = Len(d.log) + Len(q)
  BY <1>3, <1>5, <1>6, WrittenOk
<1>8. d.initial # None /\ d.initial.minute < p.minute /\ d.initial.minute \in Nat
  <2>1. d.initial # None /\ d.initial.minute < p.minute
    BY <1>5 DEF LeftBehind
  <2>2. QED BY <1>5, <2>1, Worldly DEF DirOk, Holds, Known
<1>9. LeftBehind(edition, ph, p, e)
  <2>1. edition = "M3" => Covered(d, p.minute - 1)
    BY <1>5 DEF LeftBehind
  <2>2. CASE edition = "M3" /\ p.minute % Interval = 0
    <3>1. ph = "checkpoint"
      BY <1>2, <2>2 DEF AfterAppend
    <3>2. edition = "M3" => Covered(e, p.minute - 1)
      BY <1>7, <2>1 DEF Covered
    <3>3. e.initial # None /\ e.initial.minute < p.minute /\ e.initial.minute <= p.minute
      BY <1>5, <1>7, <1>8
    <3>4. QED BY <3>1, <3>2, <3>3 DEF LeftBehind
  <2>3. CASE ~(edition = "M3" /\ p.minute % Interval = 0)
    <3>1. ph = "loop"
      BY <1>2, <2>3 DEF AfterAppend
    <3>2. edition = "M3" => Covered(e, p.minute)
      <4>1. SUFFICES ASSUME edition = "M3", NEW x \in e.initial.minute + 1 .. p.minute,
                            x % Interval = 0
                     PROVE  x \in DOMAIN e.checkpoints
        BY DEF Covered
      <4>2. x \in d.initial.minute + 1 .. p.minute - 1
        BY <1>5, <1>7, <1>8, <2>3, <4>1
      <4>3. QED BY <1>7, <2>1, <4>1, <4>2 DEF Covered
    <3>3. QED BY <1>5, <1>7, <1>8, <3>1, <3>2 DEF LeftBehind
  <2>4. QED BY <2>2, <2>3
<1>10. PICK x : x = proc'
  OBVIOUS
<1>11. /\ x = [run |-> x.run, at |-> x.at, chunk |-> x.chunk, cp |-> x.cp, pending |-> x.pending]
       /\ x.run = proc.run /\ x.at = ph /\ x.chunk = proc.chunk /\ x.cp = p /\ x.pending = <<>>
       /\ ph \in Phases
  BY <1>2, <1>4, <1>6, <1>10 DEF AfterAppend, Phases
<1>12. Recorded(h, e.first + Len(e.log), <<>>) /\ e.first + Len(e.log) + 0 = p.count
  <2>1. PICK z, w : z = <<>> /\ w = Full(h)
    OBVIOUS
  <2>2. z \in Seq(Range(z)) /\ Len(z) = 0
    BY <2>1, EmptySeq
  <2>3. Len(q) \in Nat /\ d.first + Len(d.log) + Len(q) <= Len(w)
    BY <1>5, <1>6, <2>1, LenProperties DEF Recorded
  <2>4. e.first + Len(e.log) \in Nat /\ e.first + Len(e.log) + 0 = d.first + Len(d.log) + Len(q)
    BY <1>5, <1>7, <2>3
  <2>5. QED BY <1>6, <2>1, <2>2, <2>3, <2>4 DEF Recorded
<1>13. WriterOk(edition, h, x, e)
  <2>1. Len(<<>>) = 0
    BY EmptySeq
  <2>2. QED BY <1>5, <1>6, <1>7, <1>9, <1>11, <1>12, <2>1 DEF WriterOk
<1>14. QED BY <1>1, <1>2, <1>4, <1>7, <1>10, <1>11, <1>13, Rewritten

(* t is the part of the sequence s from m to n.                            *)
PartOf(s, m, n, t) ==
  t \in Seq(Range(t)) /\ Len(t) = n - m /\ \A i \in 1 .. n - m : t[i] = s[m + i]

LEMMA Parts ==
  ASSUME NEW s, s \in Seq(Range(s)), NEW m \in Nat, NEW n \in Nat, m <= n, n <= Len(s),
         NEW t, t = SubSeq(s, m + 1, n)
  PROVE  PartOf(s, m, n, t)
<1>1. PICK S, a : S = Range(s) /\ a = m + 1
  OBVIOUS
<1>2. Len(s) \in Nat /\ DOMAIN s = 1 .. Len(s)
  BY LenProperties
<1>3. a \in Int /\ n \in Int /\ \A i \in a .. n : s[i] \in S
  BY <1>1, <1>2 DEF Range
<1>4. /\ t \in Seq(S) /\ Len(t) = (IF a <= n THEN n - a + 1 ELSE 0)
      /\ \A i \in 1 .. n - a + 1 : t[i] = s[a + i - 1]
  BY <1>1, <1>3, SubSeqProperties
<1>5. Len(t) = n - m /\ n - a + 1 = n - m
  BY <1>1, <1>4
<1>6. ASSUME NEW i \in 1 .. n - m PROVE t[i] = s[m + i]
  <2>1. a + i - 1 = m + i
    BY <1>1
  <2>2. QED BY <1>4, <1>5, <2>1
<1>7. t \in Seq(Range(t))
  BY <1>4, SeqOfRange
<1>8. QED BY <1>5, <1>6, <1>7 DEF PartOf

LEMMA CrashKeeps ==
  ASSUME NEW h, Seeded(h), Crash
  PROVE  Keeping(h)
<1>1. proc # None /\ proc' = None
  BY DEF Crash
<1>2. PICK d, q : d = Dir /\ q = proc.pending
  OBVIOUS
<1>3. PICK n \in 0 .. Len(q) :
        disk' = [disk EXCEPT ![proc.run] =
                   Written(@, SubSeq(q, 1, n), [k \in Kinds |-> OfKind(SubSeq(q, 1, n), k)])]
  BY <1>2 DEF Crash
<1>4. PICK s : s = SubSeq(q, 1, n)
  OBVIOUS
<1>5. PICK e : e = Written(d, s, [k \in Kinds |-> OfKind(s, k)])
  OBVIOUS
<1>6. disk' = [disk EXCEPT ![proc.run] = e]
  BY <1>2, <1>3, <1>4, <1>5 DEF Dir, Seeded, Typing
<1>7. /\ DirOk(edition, h, d) /\ d.status = "IN_PROGRESS" /\ WriterOk(edition, h, proc, d)
  BY <1>1, <1>2, Running
<1>8. PICK f : f = d.first + Len(d.log)
  OBVIOUS
<1>9. Recorded(h, f, s)
  <2>1. PICK w : w = Full(h)
    OBVIOUS
  <2>2. /\ f \in Nat /\ q \in Seq(Range(q)) /\ f + Len(q) <= Len(w)
        /\ \A i \in 1 .. Len(q) : q[i] = w[f + i]
    BY <1>2, <1>7, <1>8, <2>1 DEF WriterOk, Recorded
  <2>3. Len(q) \in Nat
    BY <2>2, LenProperties
  <2>4. 0 \in Nat /\ n \in Nat /\ 0 <= n /\ n <= Len(q) /\ s = SubSeq(q, 0 + 1, n)
    BY <1>3, <1>4, <2>3
  <2>5. s \in Seq(Range(s)) /\ Len(s) = n /\ \A i \in 1 .. n : s[i] = q[i]
    <3>1. PICK a : a = 0
      OBVIOUS
    <3>2. a \in Nat /\ a <= n /\ s = SubSeq(q, a + 1, n) /\ q \in Seq(Range(q))
      BY <2>2, <2>4, <3>1
    <3>3. n \in Nat /\ n <= Len(q)
      BY <2>4
    <3>4. PartOf(q, a, n, s)
      BY <3>2, <3>3, Parts
    <3>5. n - a = n /\ \A i \in 1 .. n : a + i = i
      BY <2>4, <3>1
    <3>6. QED BY <3>4, <3>5 DEF PartOf
  <2>6. f + Len(s) <= Len(w)
    BY <2>2, <2>3, <2>4, <2>5
  <2>7. \A i \in 1 .. Len(s) : s[i] = w[f + i]
    BY <2>2, <2>3, <2>4, <2>5
  <2>8. QED BY <2>1, <2>2, <2>5, <2>6, <2>7 DEF Recorded
<1>10. DirOk(edition, h, e) /\ Steady(d, e)
  BY <1>5, <1>7, <1>8, <1>9, WrittenOk
<1>11. QED BY <1>1, <1>2, <1>6, <1>10, Rewritten

(* A chunk ends at the next checkpoint at the latest.                      *)
LEMMA Targets ==
  ASSUME NEW m \in Nat, m < EndMinute, NEW chunk \in Nat \ {0}
  PROVE  /\ Target(m, chunk) \in Nat /\ m < Target(m, chunk) /\ Target(m, chunk) <= EndMinute
         /\ edition = "M3" => Target(m, chunk) <= NextCheckpoint(m)
<1>1. PICK S : S = {EndMinute, m + chunk} \cup IF edition = "M3" THEN {NextCheckpoint(m)} ELSE {}
  OBVIOUS
<1>2. NextCheckpoint(m) \in Nat /\ m < NextCheckpoint(m) /\ EndMinute \in Nat
  BY Intervals, PersistenceConstants
<1>3. S \subseteq Nat /\ S # {} /\ EndMinute \in S /\ \A x \in S : m < x
  BY <1>1, <1>2
<1>4. edition = "M3" => NextCheckpoint(m) \in S
  BY <1>1
<1>5. \E x \in S : \A y \in S : x <= y
  BY <1>3, Smallest
<1>6. PICK t : t = Least(S)
  OBVIOUS
<1>7. t \in S /\ \A y \in S : t <= y
  BY <1>5, <1>6 DEF Least
<1>8. t = Target(m, chunk)
  BY <1>1, <1>6 DEF Target
<1>9. QED BY <1>3, <1>4, <1>7, <1>8

LEMMA AdvanceChunkKeeps ==
  ASSUME NEW h, Seeded(h), AdvanceChunk
  PROVE  Keeping(h)
<1>1. proc # None /\ proc.at = "loop" /\ proc.cp.minute < EndMinute /\ UNCHANGED disk
  BY DEF AdvanceChunk, At
<1>2. PICK d, p, m, t : d = Dir /\ p = proc.cp /\ m = proc.cp.minute /\ t = Target(m, proc.chunk)
  OBVIOUS
<1>3. PICK n, q : n = t - m /\ q = [i \in 1 .. n |-> i]
  OBVIOUS
<1>4. PICK u : u = FoldLeft(LAMBDA w, x : Committed(w), p, q)
  OBVIOUS
<1>5. proc' = [proc EXCEPT !.cp = u, !.pending = Since(u.log, p.log), !.at = "append"]
  BY <1>2, <1>3, <1>4 DEF AdvanceChunk
<1>6. /\ DirOk(edition, h, d) /\ d.status = "IN_PROGRESS" /\ LeftBehind(edition, "loop", p, d)
      /\ m \in Nat /\ m < EndMinute /\ EndMinute \in Nat /\ WriterOk(edition, h, proc, d) /\ Known(h, p)
      /\ p.count \in Nat /\ p.count = d.first + Len(d.log)
  BY <1>1, <1>2, Running
<1>7. proc.chunk \in Nat \ {0}
  BY <1>6 DEF WriterOk
<1>8. t \in Nat /\ m < t /\ t <= EndMinute /\ (edition = "M3" => t <= NextCheckpoint(m))
  BY <1>2, <1>6, <1>7, Targets
<1>9. n \in Nat /\ m + n = t /\ DOMAIN q = 1 .. n
  BY <1>3, <1>6, <1>8
<1>10. PICK st : Trace(st, CommitKey(edition, plot), p, q, n) /\ u = st[n]
  BY <1>4, <1>9, CommitFold
<1>11. plot \in [1 .. EndMinute -> Plots] /\ History(edition, plot, h)
  BY DEF Seeded, Typing
<1>12. Known(h, u) /\ u.minute = t /\ GoesOn(p, u)
  <2>1. p.minute + n = t /\ p.minute + n <= EndMinute
    BY <1>2, <1>8, <1>9
  <2>2. Known(h, st[n]) /\ st[n].minute = p.minute + n /\ GoesOn(p, st[n])
    BY <1>6, <1>9, <1>10, <1>11, <2>1, ChunkFollows
  <2>3. QED BY <1>10, <2>1, <2>2
<1>13. PICK w, s, f : w = Full(h) /\ s = Since(u.log, p.log) /\ f = d.first + Len(d.log)
  OBVIOUS
<1>14. /\ p.count = Len(p.log) /\ u.count = Len(u.log) /\ u.count \in Nat
       /\ u.log \in Seq(Range(u.log)) /\ u.count <= Len(w) /\ Len(w) \in Nat
       /\ \A i \in 1 .. u.count : u.log[i] = w[i]
  <2>1. p.count = Len(p.log)
    BY <1>6, <1>11, KnownLog
  <2>2. /\ u.count = Len(u.log) /\ u.count \in Nat /\ u.log \in Seq(Range(u.log))
        /\ u.count <= Len(Full(h)) /\ Len(Full(h)) \in Nat
        /\ \A i \in 1 .. u.count : u.log[i] = Full(h)[i]
    BY <1>11, <1>12, KnownLog
  <2>3. QED BY <1>13, <2>1, <2>2
<1>15. p.count <= u.count
  BY <1>12, <1>14 DEF GoesOn
<1>16. /\ s \in Seq(Range(s)) /\ Len(s) = u.count - p.count
       /\ \A i \in 1 .. u.count - p.count : s[i] = u.log[p.count + i]
  <2>1. p.count = Len(p.log) /\ u.count = Len(u.log)
    BY <1>14
  <2>2. s = SubSeq(u.log, Len(p.log) + 1, Len(u.log))
    BY <1>13 DEF Since
  <2>3. PICK a, b, l : a = p.count /\ b = u.count /\ l = u.log
    OBVIOUS
  <2>4. s = SubSeq(l, a + 1, b)
    BY <2>1, <2>2, <2>3
  <2>5. l \in Seq(Range(l)) /\ a \in Nat /\ b \in Nat /\ a <= b /\ b <= Len(l)
    BY <1>6, <1>14, <1>15, <2>3
  <2>6. PartOf(l, a, b, s)
    BY <2>4, <2>5, Parts
  <2>7. QED BY <2>3, <2>6 DEF PartOf
<1>17. Recorded(h, f, s) /\ f + Len(s) = u.count
  <2>1. f = p.count /\ f \in Nat /\ f + Len(s) = u.count
    <3>1. f = p.count /\ p.count \in Nat
      BY <1>6, <1>13
    <3>2. Len(s) = u.count - p.count
      BY <1>16
    <3>3. u.count \in Nat
      BY <1>14
    <3>4. QED BY <3>1, <3>2, <3>3
  <2>2. \A i \in 1 .. Len(s) : s[i] = w[f + i]
    BY <1>14, <1>15, <1>16, <2>1
  <2>3. QED BY <1>13, <1>14, <1>16, <2>1, <2>2 DEF Recorded
<1>18. LeftBehind(edition, "append", u, d)
  <2>1. d.initial # None /\ d.initial.minute <= m
    BY <1>2, <1>6 DEF LeftBehind
  <2>2. d.initial.minute \in Nat
    BY <1>6, <2>1, Worldly DEF DirOk, Holds, Known
  <2>3. d.initial.minute < u.minute /\ d.initial.minute <= u.minute
    BY <1>6, <1>8, <1>12, <2>1, <2>2
  <2>4. edition = "M3" => Covered(d, u.minute - 1)
    <3>1. SUFFICES ASSUME edition = "M3", NEW x \in d.initial.minute + 1 .. t - 1, x % Interval = 0
                   PROVE  x \in DOMAIN d.checkpoints
      BY <1>12 DEF Covered
    <3>2. Covered(d, m)
      BY <1>2, <1>6, <3>1 DEF LeftBehind
    <3>3. PICK b : b = NextCheckpoint(m)
      OBVIOUS
    <3>4. b \in Nat /\ t <= b /\ \A y \in m + 1 .. b - 1 : y % Interval # 0
      BY <1>6, <1>8, <3>1, <3>3, Intervals
    <3>5. x \notin m + 1 .. b - 1
      BY <3>1, <3>4
    <3>6. x \in d.initial.minute + 1 .. m
      BY <1>6, <1>8, <2>2, <3>1, <3>4, <3>5
    <3>7. QED BY <3>1, <3>2, <3>6 DEF Covered
  <2>5. QED BY <2>1, <2>3, <2>4 DEF LeftBehind
<1>19. PICK x : x = proc'
  OBVIOUS
<1>20. /\ x = [run |-> x.run, at |-> x.at, chunk |-> x.chunk, cp |-> x.cp, pending |-> x.pending]
       /\ x.run = proc.run /\ x.at = "append" /\ x.chunk = proc.chunk /\ x.cp = u /\ x.pending = s
  <2>1. proc = [run |-> proc.run, at |-> proc.at, chunk |-> proc.chunk, cp |-> proc.cp,
                pending |-> proc.pending]
    BY <1>6 DEF WriterOk
  <2>2. x = [proc EXCEPT !.cp = u, !.pending = s, !.at = "append"]
    BY <1>5, <1>13, <1>19
  <2>3. QED BY <2>1, <2>2
<1>21. WriterOk(edition, h, x, d)
  <2>1. x.at \in Phases /\ x.at = "append"
    BY <1>20 DEF Phases
  <2>2. QED BY <1>6, <1>7, <1>12, <1>13, <1>17, <1>18, <1>20, <2>1 DEF WriterOk
<1>22. QED BY <1>1, <1>2, <1>19, <1>20, <1>21, Unwritten

(* A new directory, for a checkpoint of the history.                       *)
Opened(ed, h, cp, d) ==
  /\ DirOk(ed, h, d) /\ d # None /\ d.status = "IN_PROGRESS" /\ d.initial = None
  /\ DOMAIN d.checkpoints = {} /\ d.first = cp.count /\ Len(d.log) = 0
  /\ Recorded(h, d.first + Len(d.log), <<>>)

LEMMA DirectoryOk ==
  ASSUME NEW ed, NEW p \in [1 .. EndMinute -> Plots], NEW h, History(ed, p, h),
         NEW cp, Known(h, cp), NEW d, d = Directory("IN_PROGRESS", cp.count)
  PROVE  Opened(ed, h, cp, d)
<1>1. PICK z, c, n, w : z = <<>> /\ c = [m \in {} |-> None] /\ n = cp.count /\ w = Full(h)
  OBVIOUS
<1>2. PICK f : f = [k \in Kinds |-> z]
  OBVIOUS
<1>3. d = [status |-> "IN_PROGRESS", first |-> n, initial |-> None, checkpoints |-> c,
           log |-> z, files |-> f, final |-> None, summary |-> None]
  BY <1>1, <1>2 DEF Directory
<1>4. /\ DirShape(d) /\ d.status = "IN_PROGRESS" /\ d.first = n /\ d.initial = None
      /\ d.checkpoints = c /\ d.log = z /\ d.files = f /\ d.final = None
  BY <1>3 DEF DirShape
<1>5. z \in Seq(Range(z)) /\ Len(z) = 0
  BY <1>1, EmptySeq
<1>6. n \in Nat /\ n <= Len(w) /\ Len(w) \in Nat
  BY <1>1, KnownLog
<1>7. Recorded(h, n, z) /\ n + Len(z) = n
  BY <1>1, <1>5, <1>6 DEF Recorded
<1>8. DOMAIN c = {} /\ Filed(c)
  BY <1>1 DEF Filed
<1>9. f = [k \in Kinds |-> OfKind(z, k)]
  BY <1>1, <1>2, NothingOfKind
<1>10. DirOk(ed, h, d)
  BY <1>4, <1>7, <1>8, <1>9 DEF DirOk
<1>11. d # None
  BY <1>4, Distinct
<1>12. QED BY <1>1, <1>4, <1>5, <1>7, <1>8, <1>10, <1>11 DEF Opened

LEMMA OpenKeeps ==
  ASSUME NEW h, Seeded(h), NEW cp, Known(h, cp), NEW chunk \in Chunks, Open(cp, chunk)
  PROVE  Keeping(h)
<1>1. PICK r \in Run :
        /\ proc = None /\ disk[r] = None
        /\ disk' = [disk EXCEPT ![r] = Directory("IN_PROGRESS", cp.count)]
        /\ proc' = [run |-> r, at |-> "initial", chunk |-> chunk, cp |-> cp, pending |-> <<>>]
  BY DEF Open
<1>2. PICK d, x, z : d = Directory("IN_PROGRESS", cp.count) /\ x = proc' /\ z = <<>>
  OBVIOUS
<1>3. plot \in [1 .. EndMinute -> Plots] /\ History(edition, plot, h) /\ disk = [s \in Run |-> disk[s]]
  BY DEF Seeded, Typing
<1>4. /\ DirOk(edition, h, d) /\ d # None /\ d.status = "IN_PROGRESS" /\ d.initial = None
      /\ DOMAIN d.checkpoints = {} /\ d.first = cp.count /\ Len(d.log) = 0
      /\ Recorded(h, d.first + Len(d.log), z)
  <2>1. Opened(edition, h, cp, d)
    BY <1>2, <1>3, DirectoryOk
  <2>2. QED BY <1>2, <2>1 DEF Opened
<1>5. disk' = [disk EXCEPT ![r] = d]
  BY <1>1, <1>2
<1>6. disk'[r] = d /\ \A s \in Run : s # r => disk'[s] = disk[s]
  BY <1>3, <1>5
<1>7. disk' = [s \in Run |-> disk'[s]]
  BY <1>3, <1>5
<1>8. /\ x = [run |-> x.run, at |-> x.at, chunk |-> x.chunk, cp |-> x.cp, pending |-> x.pending]
      /\ x.run = r /\ x.at = "initial" /\ x.chunk = chunk /\ x.cp = cp /\ x.pending = z
  BY <1>1, <1>2
<1>9. WriterOk(edition, h, x, d)
  <2>1. chunk \in Nat \ {0} /\ x.at \in Phases
    BY <1>8, PersistenceConstants DEF Phases
  <2>2. LeftBehind(edition, "initial", cp, d)
    BY <1>4 DEF LeftBehind
  <2>3. Len(z) = 0 /\ cp.count \in Nat
    BY <1>2, EmptySeq, Worldly DEF Known
  <2>4. d.first + Len(d.log) + Len(z) = cp.count
    BY <1>4, <2>3
  <2>5. QED BY <1>2, <1>4, <1>8, <2>1, <2>2, <2>4 DEF WriterOk
<1>10. \A s \in Run : disk'[s] # None => DirOk(edition, h, disk'[s])
  BY <1>4, <1>6 DEF Seeded, Sound
<1>11. Sound(edition, h, disk', proc')
  BY <1>2, <1>4, <1>6, <1>8, <1>9, <1>10 DEF Sound
<1>12. \A s \in Run : disk[s] # None => disk'[s] # None /\ Steady(disk[s], disk'[s])
  BY <1>1, <1>6, Untouched
<1>13. QED BY <1>7, <1>11, <1>12 DEF Keeping

LEMMA FreshIsKnown ==
  ASSUME NEW ed, NEW p, NEW h, History(ed, p, h)
  PROVE  Known(h, Fresh)
<1>1. PICK w : w = Fresh
  OBVIOUS
<1>2. World(w) /\ w.minute = 0 /\ h[0] = w
  BY <1>1, FreshIsWorld DEF History
<1>3. 0 \in 0 .. EndMinute
  BY PersistenceConstants
<1>4. QED BY <1>1, <1>2, <1>3 DEF Known, Alike

LEMMA StoredIsKnown ==
  ASSUME NEW ed, NEW h, NEW d, DirOk(ed, h, d), NEW cp \in Stored(d)
  PROVE  Holds(h, d.first, d.log, cp)
BY DEF DirOk, Stored

LEMMA NextKeeps ==
  ASSUME NEW h, Seeded(h), [Next]_vars
  PROVE  Keeping(h) /\ UNCHANGED <<edition, plot>>
<1>1. CASE StartFresh
  <2>1. PICK chunk \in Chunks : Open(Fresh, chunk)
    BY <1>1 DEF StartFresh
  <2>2. Known(h, Fresh)
    BY FreshIsKnown DEF Seeded
  <2>3. PICK f : f = Fresh
    OBVIOUS
  <2>4. Keeping(h)
    BY <2>1, <2>2, <2>3, OpenKeeps
  <2>5. QED BY <2>1, <2>4 DEF Open, Rest
<1>2. CASE Resume
  <2>1. PICK r \in Run, chunk \in Chunks : /\ disk[r] # None
                                           /\ \E cp \in Stored(disk[r]) : Open(Load(cp), chunk)
    BY <1>2 DEF Resume
  <2>2. PICK cp \in Stored(disk[r]) : Open(cp, chunk)
    BY <2>1 DEF Load
  <2>3. DirOk(edition, h, disk[r])
    BY <2>1 DEF Seeded, Sound
  <2>4. Known(h, cp)
    BY <2>2, <2>3, StoredIsKnown DEF Holds
  <2>5. Keeping(h)
    BY <2>1, <2>2, <2>4, OpenKeeps
  <2>6. QED BY <2>2, <2>5 DEF Open, Rest
<1>3. CASE Work
  <2>1. Keeping(h)
    BY <1>3, WriteInitialKeeps, WriteZeroKeeps, ConstructKeeps, AdvanceChunkKeeps, AppendRecordsKeeps,
       WriteCheckpointKeeps, WriteFinalKeeps, WriteLastKeeps, WriteSummaryKeeps, CompleteKeeps DEF Work
  <2>2. UNCHANGED <<edition, plot>>
    BY <1>3 DEF Work, WriteInitial, WriteZero, Construct, AdvanceChunk, AppendRecords,
                WriteCheckpoint, WriteFinal, WriteLast, WriteSummary, Complete, Rest
  <2>3. QED BY <2>1, <2>2
<1>4. CASE ChildFails
  BY <1>4, ChildFailsKeeps DEF ChildFails, Rest
<1>5. CASE Crash
  BY <1>5, CrashKeeps DEF Crash, Rest
<1>6. CASE UNCHANGED <<edition, plot, proc, disk>>
  <2>1. Keeping(h)
    BY <1>6, Untouched DEF Keeping, Seeded, Typing, Sound
  <2>2. QED BY <1>6, <2>1
<1>7. Next => StartFresh \/ Resume \/ Work \/ ChildFails \/ Crash \/ Replay
  BY DEF Next
<1>8. Replay => UNCHANGED <<edition, plot, proc, disk>>
  BY DEF Replay
<1>9. UNCHANGED vars => UNCHANGED <<edition, plot, proc, disk>>
  BY DEF vars
<1>10. QED BY <1>1, <1>2, <1>3, <1>4, <1>5, <1>6, <1>7, <1>8, <1>9

-----------------------------------------------------------------------------
(* What holds of every behaviour.                                          *)

LEMMA InvAtFirst == Init => Inv
<1> SUFFICES ASSUME Init PROVE Inv
  OBVIOUS
<1>1. edition \in {"M1", "M3"} /\ disk = [r \in Run |-> disk[r]]
  BY DEF Init
<1>2. plot \in [1 .. EndMinute -> Plots]
  <2>1. plot \in [1 .. EndMinute -> IF edition = "M3" THEN Plots ELSE Plots \ Social]
    BY DEF Init
  <2>2. PICK S : S = IF edition = "M3" THEN Plots ELSE Plots \ Social
    OBVIOUS
  <2>3. S \subseteq Plots /\ plot \in [1 .. EndMinute -> S]
    BY <2>1, <2>2
  <2>4. QED BY <2>3
<1>3. \A h : Sound(edition, h, disk, proc)
  BY DEF Init, Sound
<1>4. QED BY <1>1, <1>2, <1>3 DEF Inv, Typing

LEMMA InvStays == Inv /\ [Next]_vars => Inv'
<1> SUFFICES ASSUME Inv, [Next]_vars PROVE Inv'
  OBVIOUS
<1>1. PICK g : History(edition, plot, g)
  BY HistoryExists
<1>2. \A h : History(edition, plot, h) => Seeded(h)
  BY DEF Inv, Seeded
<1>3. \A h : History(edition, plot, h) => Keeping(h) /\ UNCHANGED <<edition, plot>>
  BY <1>2, NextKeeps
<1>4. edition' = edition /\ plot' = plot /\ Keeping(g)
  BY <1>1, <1>3
<1>5. Typing'
  BY <1>4 DEF Inv, Typing, Keeping
<1>6. \A h : History(edition', plot', h) => Sound(edition', h, disk', proc')
  BY <1>3, <1>4 DEF Keeping
<1>7. QED BY <1>5, <1>6 DEF Inv

(* The invariant holds in every reachable state.                           *)
THEOREM Invariance == Spec => []Inv
BY InvAtFirst, InvStays, PTL DEF Spec

(* What the invariant says of one directory, for some history.             *)
LEMMA DirectoriesOk ==
  ASSUME Inv
  PROVE  \E h : /\ History(edition, plot, h) /\ plot \in [1 .. EndMinute -> Plots]
                /\ \A d \in Directories : DirOk(edition, h, d)
<1>1. PICK h : History(edition, plot, h)
  BY HistoryExists
<1>2. Sound(edition, h, disk, proc) /\ plot \in [1 .. EndMinute -> Plots]
  BY <1>1 DEF Inv, Typing
<1>3. \A d \in Directories : DirOk(edition, h, d)
  BY <1>2 DEF Directories, Sound
<1>4. QED BY <1>1, <1>2, <1>3

(* Whatever was killed, resumed or driven in other chunks, two runs of a    *)
(* seed agree on every checkpoint of a minute, to the last record: what is  *)
(* stored is the canonical form of the one history of the seed at its       *)
(* minute, for a commit does not depend on the order of the knowledge       *)
(* records (docs/qa/M3_ACCEPTANCE.md, 11 and 12).                          *)
THEOREM OneHistoryPerSeed == Spec => []HistoriesAgree
<1>1. Inv => HistoriesAgree
  <2> SUFFICES ASSUME Inv PROVE HistoriesAgree
    OBVIOUS
  <2>1. PICK h : \A d \in Directories : DirOk(edition, h, d)
    BY DirectoriesOk
  <2>2. SUFFICES ASSUME NEW d \in Directories, NEW e \in Directories,
                        NEW p \in Stored(d), NEW q \in Stored(e), p.minute = q.minute
                 PROVE  p = q
    BY DEF HistoriesAgree
  <2>3. Holds(h, d.first, d.log, p) /\ Holds(h, e.first, e.log, q)
    BY <2>1, <2>2, StoredIsKnown
  <2>4. Known(h, p) /\ Known(h, q) /\ Canonical(p) = p /\ Canonical(q) = q
    BY <2>3 DEF Holds
  <2>5. QED BY <2>2, <2>4, OneHistory
<1>2. QED BY <1>1, Invariance, PTL

(* A checkpoint names exactly the records before it, in the log of its      *)
(* directory.                                                              *)
LEMMA LogBehind ==
  ASSUME NEW p \in [1 .. EndMinute -> Plots], NEW ed, NEW h, History(ed, p, h),
         NEW d, DirOk(ed, h, d), NEW cp, Holds(h, d.first, d.log, cp)
  PROVE  /\ cp.count - d.first \in 0 .. Len(d.log)
         /\ SubSeq(cp.log, d.first + 1, cp.count) = SubSeq(d.log, 1, cp.count - d.first)
         /\ Len(cp.log) = cp.count
<1>1. PICK f, n, l, c, w : f = d.first /\ n = cp.count /\ l = d.log /\ c = cp.log /\ w = Full(h)
  OBVIOUS
<1>2. Known(h, cp) /\ f <= n /\ n <= f + Len(l)
  BY <1>1 DEF Holds
<1>3. /\ c \in Seq(Range(c)) /\ n = Len(c) /\ n \in Nat
      /\ \A i \in 1 .. n : c[i] = w[i]
  <2>1. /\ cp.log \in Seq(Range(cp.log)) /\ cp.count = Len(cp.log) /\ cp.count \in Nat
        /\ \A i \in 1 .. cp.count : cp.log[i] = Full(h)[i]
    BY <1>2, KnownLog
  <2>2. QED BY <1>1, <2>1
<1>4. /\ f \in Nat /\ l \in Seq(Range(l))
      /\ \A i \in 1 .. Len(l) : l[i] = w[f + i]
  BY <1>1 DEF DirOk, Recorded
<1>5. Len(l) \in Nat
  BY <1>4, LenProperties
<1>6. PICK z, k : z = 0 /\ k = n - f
  OBVIOUS
<1>7. z \in Nat /\ k \in Nat /\ z <= k /\ k <= Len(l) /\ k \in 0 .. Len(l) /\ n <= Len(c)
  BY <1>2, <1>3, <1>4, <1>5, <1>6
<1>8. PICK s, t : s = SubSeq(c, f + 1, n) /\ t = SubSeq(l, z + 1, k)
  OBVIOUS
<1>9. PartOf(c, f, n, s) /\ PartOf(l, z, k, t)
  BY <1>2, <1>3, <1>4, <1>7, <1>8, Parts
<1>10. s = t
  <2>1. /\ s \in Seq(Range(s)) /\ t \in Seq(Range(t)) /\ Len(s) = k /\ Len(t) = k
        /\ \A i \in 1 .. k : s[i] = c[f + i]
        /\ \A i \in 1 .. k : t[i] = l[i]
    <3>1. n - f = k /\ k - z = k /\ \A i \in 1 .. k : z + i = i
      BY <1>6, <1>7
    <3>2. QED BY <1>9, <3>1 DEF PartOf
  <2>2. \A i \in 1 .. k : c[f + i] = l[i]
    <3>1. ASSUME NEW i \in 1 .. k PROVE c[f + i] = l[i]
      <4>1. f + i \in 1 .. n /\ i \in 1 .. Len(l)
        BY <1>2, <1>3, <1>4, <1>5, <1>6, <1>7
      <4>2. QED BY <1>3, <1>4, <4>1
    <3>2. QED BY <3>1
  <2>3. \A i \in 1 .. k : s[i] = t[i]
    BY <2>1, <2>2
  <2>4. QED BY <2>1, <2>3, SeqEqual
<1>11. SubSeq(l, 1, k) = t
  BY <1>6, <1>8
<1>12. QED BY <1>1, <1>3, <1>6, <1>7, <1>8, <1>10, <1>11

(* A run directory is whole, wherever its process or a writer child was     *)
(* killed: no checkpoint is ahead of the log beside it, each one names the  *)
(* records before it, and a completed run holds all its records and every   *)
(* checkpoint from its first to its last (docs/adr/0011).                  *)
THEOREM DirectoriesAreWhole == Spec => []DirectoriesWhole
<1>1. Inv => DirectoriesWhole
  <2> SUFFICES ASSUME Inv PROVE DirectoriesWhole
    OBVIOUS
  <2>1. PICK h : /\ History(edition, plot, h) /\ plot \in [1 .. EndMinute -> Plots]
                 /\ \A d \in Directories : DirOk(edition, h, d)
    BY DirectoriesOk
  <2>2. LogCoversCheckpoints
    <3>1. SUFFICES ASSUME NEW d \in Directories, NEW cp \in Stored(d)
                   PROVE  /\ cp.count - d.first \in 0 .. Len(d.log)
                          /\ SubSeq(cp.log, d.first + 1, cp.count)
                               = SubSeq(d.log, 1, cp.count - d.first)
                          /\ Len(cp.log) = cp.count
      BY DEF LogCoversCheckpoints
    <3>2. DirOk(edition, h, d) /\ Holds(h, d.first, d.log, cp)
      BY <2>1, <3>1, StoredIsKnown
    <3>3. QED BY <2>1, <3>2, LogBehind
  <2>3. CompletedRunsWhole
    <3>1. SUFFICES ASSUME NEW d \in Directories, d.status = "COMPLETED"
                   PROVE  /\ d.final.minute = EndMinute
                          /\ edition = "M3" =>
                               /\ \A m \in d.initial.minute + 1 .. EndMinute :
                                    m % Interval = 0 \/ m = EndMinute =>
                                      m \in DOMAIN d.checkpoints /\ d.checkpoints[m].minute = m
                               /\ Len(d.log) = d.final.count - d.first
                               /\ \A k \in Kinds : d.files[k] = OfKind(d.log, k)
      BY DEF CompletedRunsWhole
    <3>2. DirOk(edition, h, d) /\ Whole(edition, d)
      BY <2>1, <3>1 DEF DirOk
    <3>3. \A k \in Kinds : d.files[k] = OfKind(d.log, k)
      BY <3>2 DEF DirOk
    <3>4. SUFFICES ASSUME edition = "M3", NEW m \in d.initial.minute + 1 .. EndMinute,
                          m % Interval = 0 \/ m = EndMinute
                   PROVE  m \in DOMAIN d.checkpoints /\ d.checkpoints[m].minute = m
      BY <3>2, <3>3 DEF Whole
    <3>5. d.initial # None /\ Covered(d, EndMinute) /\ EndMinute \in DOMAIN d.checkpoints
      BY <3>2, <3>4 DEF Whole
    <3>6. m \in DOMAIN d.checkpoints
      BY <3>4, <3>5 DEF Covered
    <3>7. d.initial.minute \in Nat
      BY <3>2, <3>5, Worldly DEF DirOk, Holds, Known
    <3>8. m # 0
      BY <3>4, <3>7
    <3>9. QED BY <3>2, <3>6, <3>8 DEF DirOk, Filed
  <2>4. QED BY <2>2, <2>3 DEF DirectoriesWhole
<1>2. QED BY <1>1, Invariance, PTL

(* No step takes a stored checkpoint away or changes it: the only second    *)
(* write of a minute, the last one of a run, stores what is there.          *)
THEOREM CheckpointsAreStable == Spec => CheckpointsStable
<1>1. Inv /\ [Next]_vars =>
        [\A r \in Run : disk[r] # None =>
           /\ DOMAIN disk[r].checkpoints \subseteq DOMAIN disk'[r].checkpoints
           /\ \A m \in DOMAIN disk[r].checkpoints :
                disk'[r].checkpoints[m] = disk[r].checkpoints[m]]_vars
  <2> SUFFICES ASSUME Inv, [Next]_vars, NEW r \in Run, disk[r] # None
               PROVE  Steady(disk[r], disk'[r])
    BY DEF Steady
  <2>1. PICK h : History(edition, plot, h)
    BY HistoryExists
  <2>2. Seeded(h)
    BY <2>1 DEF Inv, Seeded
  <2>3. Keeping(h)
    BY <2>2, NextKeeps
  <2>4. QED BY <2>3 DEF Keeping
<1>2. QED BY <1>1, Invariance, PTL DEF Spec, CheckpointsStable

-----------------------------------------------------------------------------
(* What a replay is made of: its folds, and what a patch restores.          *)

LEMMA TownFold ==
  ASSUME NEW w, NEW q, NEW n \in Nat, DOMAIN q = 1 .. n
  PROVE  \E st : Trace(st, TownKey, w, q, n) /\ FoldLeft(TownRecord, w, q) = st[n]
<1> DEFINE T(g) == g = [s \in SUBSET DOMAIN q |->
                          IF s = {} THEN w ELSE TownRecord(g[s \ {Max(s)}], q[Max(s)])]
<1>0. \A v, x : TownRecord(v, x) = Step(TownKey, v, x)
  BY Keys
<1>1. \A g : T(g) <=> Takes(g, TownKey, w, q, 1 .. n)
  BY <1>0 DEF Takes
<1>2. \E g : T(g)
  BY <1>1, TakesExist
<1>3. PICK g : g = (CHOOSE h : T(h)) /\ T(g)
  <2> HIDE DEF T
  <2> QED BY <1>2
<1>4. FoldLeft(TownRecord, w, q) = g[DOMAIN q]
  BY <1>3 DEF FoldLeft, MapThenFoldSet
<1>5. PICK st : st = [i \in 0 .. n |-> g[1 .. i]]
  OBVIOUS
<1>6. Trace(st, TownKey, w, q, n)
  <2>1. Takes(g, TownKey, w, q, 1 .. n)
    <3> HIDE DEF T
    <3> QED BY <1>1, <1>3
  <2>2. QED BY <1>5, <2>1, TakesTrace
<1>7. st[n] = g[1 .. n]
  BY <1>5
<1>8. QED BY <1>4, <1>6, <1>7

Rebuilding(d, w, q) == FoldLeft(LAMBDA acc, x : ReplayRecord(acc, x, d), w, q)

LEMMA ReplayFold ==
  ASSUME NEW d, NEW w, NEW q, NEW n \in Nat, DOMAIN q = 1 .. n
  PROVE  \E st : Trace(st, ReplayKey(d), w, q, n) /\ Rebuilding(d, w, q) = st[n]
<1> DEFINE T(g) == g = [s \in SUBSET DOMAIN q |->
                          IF s = {} THEN w ELSE ReplayRecord(g[s \ {Max(s)}], q[Max(s)], d)]
<1>0. \A v, x : ReplayRecord(v, x, d) = Step(ReplayKey(d), v, x)
  BY Keys
<1>1. \A g : T(g) <=> Takes(g, ReplayKey(d), w, q, 1 .. n)
  BY <1>0 DEF Takes
<1>2. \E g : T(g)
  BY <1>1, TakesExist
<1>3. PICK g : g = (CHOOSE h : T(h)) /\ T(g)
  <2> HIDE DEF T
  <2> QED BY <1>2
<1>4. Rebuilding(d, w, q) = g[DOMAIN q]
  BY <1>3 DEF Rebuilding, FoldLeft, MapThenFoldSet
<1>5. PICK st : st = [i \in 0 .. n |-> g[1 .. i]]
  OBVIOUS
<1>6. Trace(st, ReplayKey(d), w, q, n)
  <2>1. Takes(g, ReplayKey(d), w, q, 1 .. n)
    <3> HIDE DEF T
    <3> QED BY <1>1, <1>3
  <2>2. QED BY <1>5, <2>1, TakesTrace
<1>7. st[n] = g[1 .. n]
  BY <1>5
<1>8. QED BY <1>4, <1>6, <1>7

(* The same state, whatever is recorded of how it came about.              *)
SameState(v, w) ==
  /\ v.minute = w.minute /\ v.version = w.version /\ v.known = w.known
  /\ Range(v.knowledge) = Range(w.knowledge) /\ v.actions = w.actions
  /\ v.created = w.created /\ v.lines = w.lines /\ v.events = w.events

(* u is v with a patch applied.                                            *)
PatchedTo(v, patch, u) ==
  /\ Shape(u) /\ u.minute = patch.minute /\ u.version = patch.version
  /\ u.known = [a \in Agent |-> IF a \in DOMAIN patch.agents THEN patch.agents[a] ELSE v.known[a]]
  /\ u.actions = (v.actions \cup patch.upsert) \ patch.remove
  /\ u.events = v.events \o patch.events
  /\ u.knowledge = v.knowledge \o patch.knowledge
  /\ u.created = patch.created /\ u.lines = patch.lines
  /\ u.count = v.count /\ u.log = v.log /\ u.chain = v.chain

LEMMA PatchedChanges ==
  ASSUME NEW v, Shape(v), NEW patch, NEW u, u = Patched(v, patch)
  PROVE  PatchedTo(v, patch, u)
<1>1. PICK k, a, e, n :
         /\ k = [b \in Agent |-> IF b \in DOMAIN patch.agents THEN patch.agents[b] ELSE v.known[b]]
         /\ a = (v.actions \cup patch.upsert) \ patch.remove
         /\ e = v.events \o patch.events /\ n = v.knowledge \o patch.knowledge
  OBVIOUS
<1>2. u = [v EXCEPT !.minute = patch.minute, !.version = patch.version, !.known = k,
                    !.actions = a, !.events = e, !.knowledge = n,
                    !.created = patch.created, !.lines = patch.lines]
  BY <1>1 DEF Patched, Shape
<1>3. QED BY <1>1, <1>2 DEF Shape, PatchedTo

(* What is appended is what follows.                                       *)
LEMMA SinceJoins ==
  ASSUME NEW S, NEW s \in Seq(S), NEW t \in Seq(S), Len(s) <= Len(t),
         \A i \in 1 .. Len(s) : t[i] = s[i]
  PROVE  s \o Since(t, s) = t
<1>1. Len(s) \in Nat /\ Len(t) \in Nat /\ s \in Seq(Range(s)) /\ t \in Seq(Range(t))
  BY LenProperties, SeqOfRange
<1>2. PICK m, n, r : m = Len(s) /\ n = Len(t) /\ r = SubSeq(t, m + 1, n)
  OBVIOUS
<1>3. m \in Nat /\ n \in Nat /\ m <= n /\ n <= Len(t)
  BY <1>1, <1>2
<1>4. PartOf(t, m, n, r)
  BY <1>1, <1>2, <1>3, Parts
<1>5. r \in Seq(Range(r)) /\ Len(r) = n - m /\ \A i \in 1 .. n - m : r[i] = t[m + i]
  BY <1>4 DEF PartOf
<1>6. PICK u : u = s \o r
  OBVIOUS
<1>7. /\ u \in Seq(Range(u)) /\ Len(u) = m + (n - m)
      /\ \A i \in 1 .. m : u[i] = s[i]
      /\ \A i \in 1 .. n - m : u[m + i] = r[i]
  <2>1. s \in Seq(Range(s)) /\ r \in Seq(Range(r))
    BY <1>1, <1>5
  <2>2. /\ u \in Seq(Range(u)) /\ Len(u) = Len(s) + Len(r)
        /\ \A i \in 1 .. Len(s) : u[i] = s[i]
        /\ \A i \in 1 .. Len(r) : u[Len(s) + i] = r[i]
    BY <1>6, <2>1, Joining
  <2>3. QED BY <1>2, <1>5, <2>2
<1>8. ASSUME NEW i \in 1 .. n PROVE u[i] = t[i]
  <2>1. CASE i <= m
    BY <1>2, <1>3, <1>7, <2>1
  <2>2. CASE ~(i <= m)
    <3>1. PICK j : j = i - m
      OBVIOUS
    <3>2. j \in 1 .. n - m /\ i = m + j
      BY <1>3, <2>2, <3>1
    <3>3. QED BY <1>5, <1>7, <3>2
  <2>3. QED BY <2>1, <2>2
<1>9. Len(u) = Len(t)
  BY <1>2, <1>3, <1>7
<1>10. u = t
  BY <1>1, <1>2, <1>7, <1>8, <1>9, SeqEqual
<1>11. QED BY <1>2, <1>6, <1>10 DEF Since

(* What a patch says of what it leads from and to.                         *)
Differs(w, new, patch) ==
  /\ patch.minute = new.minute /\ patch.version = w.version + 1
  /\ patch.agents = [a \in {b \in Agent : new.known[b] # w.known[b]} |-> new.known[a]]
  /\ patch.upsert = new.actions \ w.actions /\ patch.remove = w.actions \ new.actions
  /\ patch.events = Since(new.events, w.events)
  /\ patch.knowledge = Sorted(ByKey(Range(new.knowledge) \ Range(w.knowledge)))
  /\ patch.created = new.created /\ patch.lines = new.lines

LEMMA PatchSays == ASSUME NEW w, NEW new PROVE Differs(w, new, Patch(w, new))
BY DEF Patch, Removed, Differs

(* Knowledge records are finitely many.                                    *)
LEMMA RecordsFinite ==
  ASSUME NEW w, World(w), NEW S, S \subseteq Range(w.knowledge)
  PROVE  /\ IsFiniteSet(S) /\ S \subseteq Agent \X Nat
         /\ Sorted(ByKey(S)) \in Seq(S) /\ Range(Sorted(ByKey(S))) = S
<1>1. PICK s, T : s = w.knowledge /\ T = Agent \X Nat
  OBVIOUS
<1>2. s \in Seq(T)
  BY <1>1, Worldly
<1>3. PICK n \in Nat : n = Len(s)
  BY <1>2, LenProperties
<1>4. s \in [1 .. n -> T] /\ DOMAIN s = 1 .. n
  BY <1>2, <1>3, LenProperties
<1>5. Range(s) \subseteq T
  BY <1>4 DEF Range
<1>6. s \in Surjection(1 .. n, Range(s))
  BY <1>4 DEF Range, Surjection
<1>7. IsFiniteSet(1 .. n)
  BY FS_Interval
<1>8. IsFiniteSet(Range(s))
  BY <1>6, <1>7, FS_Surjection
<1>9. IsFiniteSet(S) /\ S \subseteq Agent \X Nat
  BY <1>1, <1>5, <1>8, FS_Subset
<1>10. PICK b : b = ByKey(S)
  OBVIOUS
<1>11. Orders(b, S)
  BY <1>9, <1>10, KeysOrdered
<1>12. Sorted(b) \in Seq(S) /\ Range(Sorted(b)) = S
  BY <1>9, <1>11, SortedLists
<1>13. QED BY <1>9, <1>10, <1>12

LEMMA TwoRanges ==
  ASSUME NEW S, NEW s \in Seq(S), NEW t \in Seq(S)
  PROVE  s \o t \in Seq(S) /\ Range(s \o t) = Range(s) \cup Range(t)
<1>1. s \in Seq(Range(s)) /\ t \in Seq(Range(t))
  BY SeqOfRange
<1>2. PICK u : u = s \o t
  OBVIOUS
<1>3. /\ Len(s) \in Nat /\ Len(t) \in Nat /\ Len(u) = Len(s) + Len(t)
      /\ \A i \in 1 .. Len(s) : u[i] = s[i]
      /\ \A i \in 1 .. Len(t) : u[Len(s) + i] = t[i]
  BY <1>1, <1>2, Joining
<1>4. u \in Seq(S)
  BY <1>2, ConcatProperties
<1>5. DOMAIN s = 1 .. Len(s) /\ DOMAIN t = 1 .. Len(t) /\ DOMAIN u = 1 .. Len(u)
  BY <1>4, LenProperties
<1>6. Range(s) \subseteq Range(u)
  BY <1>3, <1>5 DEF Range
<1>7. Range(t) \subseteq Range(u)
  <2>1. \A i \in 1 .. Len(t) : Len(s) + i \in 1 .. Len(u)
    BY <1>3
  <2>2. QED BY <1>3, <1>5, <2>1 DEF Range
<1>8. Range(u) \subseteq Range(s) \cup Range(t)
  <2>1. ASSUME NEW i \in 1 .. Len(u) PROVE u[i] \in Range(s) \cup Range(t)
    <3>1. CASE i <= Len(s)
      BY <1>3, <1>5, <3>1 DEF Range
    <3>2. CASE ~(i <= Len(s))
      <4>1. PICK j : j = i - Len(s)
        OBVIOUS
      <4>2. j \in 1 .. Len(t) /\ i = Len(s) + j
        BY <1>3, <3>2, <4>1
      <4>3. QED BY <1>3, <1>5, <4>2 DEF Range
    <3>3. QED BY <3>1, <3>2
  <2>2. QED BY <1>5, <2>1 DEF Range
<1>9. QED BY <1>2, <1>4, <1>6, <1>7, <1>8

(* Applying what a commit changed to a state like the one before it makes   *)
(* one like the one after it.                                              *)
LEMMA PatchRestores ==
  ASSUME NEW v, World(v), NEW w, World(w), SameState(v, w),
         NEW new, World(new), World(Tick(w)), Grown(Tick(w), new),
         NEW u, u = Patched(v, Patch(w, new))
  PROVE  /\ World(u) /\ u.count = v.count /\ u.log = v.log /\ u.chain = v.chain
         /\ u.version = w.version + 1 /\ u.minute = new.minute /\ u.known = new.known
         /\ Range(u.knowledge) = Range(new.knowledge) /\ u.actions = new.actions
         /\ u.created = new.created /\ u.lines = new.lines /\ u.events = new.events
<1>1. PICK t, patch : t = Tick(w) /\ patch = Patch(w, new)
  OBVIOUS
<1>2. /\ t.created = w.created /\ t.lines = w.lines /\ t.events = w.events
      /\ t.knowledge = w.knowledge
  BY <1>1, TickChanges
<1>3. /\ patch.minute = new.minute /\ patch.version = w.version + 1
      /\ patch.agents = [a \in {b \in Agent : new.known[b] # w.known[b]} |-> new.known[a]]
      /\ patch.upsert = new.actions \ w.actions /\ patch.remove = w.actions \ new.actions
      /\ patch.events = Since(new.events, w.events)
      /\ patch.knowledge = Sorted(ByKey(Range(new.knowledge) \ Range(w.knowledge)))
      /\ patch.created = new.created /\ patch.lines = new.lines
  <2>1. Differs(w, new, patch)
    BY <1>1, PatchSays
  <2>2. QED BY <2>1 DEF Differs
<1>4. Shape(v)
  BY DEF World
<1>5. /\ Shape(u) /\ u.minute = patch.minute /\ u.version = patch.version
      /\ u.known = [a \in Agent |-> IF a \in DOMAIN patch.agents THEN patch.agents[a]
                                                                 ELSE v.known[a]]
      /\ u.actions = (v.actions \cup patch.upsert) \ patch.remove
      /\ u.events = v.events \o patch.events
      /\ u.knowledge = v.knowledge \o patch.knowledge
      /\ u.created = patch.created /\ u.lines = patch.lines
      /\ u.count = v.count /\ u.log = v.log /\ u.chain = v.chain
  <2>1. PatchedTo(v, patch, u)
    BY <1>1, <1>4, PatchedChanges
  <2>2. QED BY <2>1 DEF PatchedTo
<1>6. /\ v.known = w.known /\ v.events = w.events /\ v.actions = w.actions
      /\ Range(v.knowledge) = Range(w.knowledge)
  BY DEF SameState
<1>7. u.known = new.known
  <2>1. new.known \in [Agent -> Seq(Nat)]
    BY Worldly
  <2>2. \A a \in Agent : u.known[a] = new.known[a]
    BY <1>3, <1>5, <1>6
  <2>3. u.known = [a \in Agent |-> u.known[a]]
    BY <1>5
  <2>4. QED BY <2>1, <2>2, <2>3
<1>8. u.actions = new.actions
  BY <1>3, <1>5, <1>6
<1>9. u.events = new.events
  <2>1. PICK s, r : s = w.events /\ r = new.events
    OBVIOUS
  <2>2. s \in Seq(Nat) /\ r \in Seq(Nat)
    BY <2>1, Worldly
  <2>3. Len(s) <= Len(r) /\ \A i \in 1 .. Len(s) : r[i] = s[i]
    BY <1>1, <1>2, <2>1 DEF Grown
  <2>4. s \o Since(r, s) = r
    BY <2>2, <2>3, SinceJoins
  <2>5. QED BY <1>3, <1>5, <1>6, <2>1, <2>4
<1>10. Range(u.knowledge) = Range(new.knowledge) /\ u.knowledge \in Seq(Agent \X Nat)
  <2>1. PICK N, O, D, T, q, s : /\ N = Range(new.knowledge) /\ O = Range(w.knowledge) /\ D = N \ O
                                /\ T = Agent \X Nat /\ q = patch.knowledge /\ s = v.knowledge
    OBVIOUS
  <2>2. D \subseteq Range(new.knowledge)
    BY <2>1
  <2>3. q \in Seq(D) /\ Range(q) = D /\ D \subseteq T
    BY <1>3, <2>1, <2>2, RecordsFinite
  <2>4. q \in Seq(T) /\ s \in Seq(T)
    BY <2>1, <2>3, SeqMonotonic, Worldly
  <2>5. s \o q \in Seq(T) /\ Range(s \o q) = Range(s) \cup Range(q)
    BY <2>4, TwoRanges
  <2>6. O \subseteq N
    BY <1>1, <1>2, <2>1 DEF Grown
  <2>7. Range(s) = O
    BY <1>6, <2>1
  <2>8. QED BY <1>5, <2>1, <2>3, <2>5, <2>6, <2>7
<1>11. World(u)
  <2>1. /\ u.minute \in Nat /\ u.version \in Nat /\ u.created \in Nat /\ u.lines \in Nat
        /\ u.known \in [Agent -> Seq(Nat)] /\ u.actions \in SUBSET Nat /\ u.events \in Seq(Nat)
    <3>1. /\ new.minute \in Nat /\ new.created \in Nat /\ new.lines \in Nat
          /\ new.known \in [Agent -> Seq(Nat)] /\ new.actions \in SUBSET Nat
          /\ new.events \in Seq(Nat)
      BY Worldly
    <3>2. w.version \in Nat
      BY Worldly
    <3>3. /\ u.minute = new.minute /\ u.version = w.version + 1
          /\ u.created = new.created /\ u.lines = new.lines
      BY <1>3, <1>5
    <3>4. QED BY <1>7, <1>8, <1>9, <3>1, <3>2, <3>3
  <2>2. u.log \in Seq(Range(u.log)) /\ u.count = Len(u.log)
    BY <1>5, Worldly
  <2>3. Ledgers(u.known, Range(u.knowledge))
    BY <1>7, <1>10, Worldly
  <2>4. QED BY <1>5, <1>10, <2>1, <2>2, <2>3 DEF World
<1>12. QED BY <1>3, <1>5, <1>7, <1>8, <1>9, <1>10, <1>11

-----------------------------------------------------------------------------
(* What a commit records.                                                  *)

(* A sequence of n; one without events and transactions; one of one kind;   *)
(* one whose events are those from lo to hi.                               *)
List(s, n) == s \in Seq(Range(s)) /\ n \in Nat /\ Len(s) = n
Quiet(s, n) == List(s, n) /\ \A i \in 1 .. n : s[i].kind \notin {"event", "transaction"}
OnlyKind(s, n, kind) == List(s, n) /\ \A i \in 1 .. n : s[i].kind = kind
EventsAt(s, n, lo, hi) ==
  /\ List(s, n) /\ lo \in Nat /\ hi \in Nat
  /\ \A i \in 1 .. n : s[i].kind = "event" <=> i \in lo + 1 .. hi
  /\ \A i \in 1 .. n : s[i].kind # "transaction"
JoinOf(u, s, m, t, n) ==
  /\ List(u, m + n)
  /\ \A i \in 1 .. m + n : \/ i \in 1 .. m /\ u[i] = s[i]
                           \/ \E j \in 1 .. n : i = m + j /\ u[i] = t[j]

LEMMA Join ==
  ASSUME NEW s, NEW m, List(s, m), NEW t, NEW n, List(t, n), NEW u, u = s \o t
  PROVE  JoinOf(u, s, m, t, n)
<1>1. s \in Seq(Range(s)) /\ t \in Seq(Range(t))
  BY DEF List
<1>2. m \in Nat /\ n \in Nat /\ Len(s) = m /\ Len(t) = n
  BY DEF List
<1>3. /\ u \in Seq(Range(u)) /\ Len(u) = Len(s) + Len(t)
      /\ \A k \in 1 .. Len(s) : u[k] = s[k]
      /\ \A k \in 1 .. Len(t) : u[Len(s) + k] = t[k]
  BY <1>1, Joining
<1>4. List(u, m + n)
  BY <1>2, <1>3 DEF List
<1>5. ASSUME NEW i \in 1 .. m + n
      PROVE  \/ i \in 1 .. m /\ u[i] = s[i]
             \/ \E j \in 1 .. n : i = m + j /\ u[i] = t[j]
  <2>1. CASE i <= m
    BY <1>2, <1>3, <2>1
  <2>2. CASE ~(i <= m)
    <3>1. PICK j : j = i - m
      OBVIOUS
    <3>2. j \in 1 .. n /\ i = m + j
      BY <1>2, <2>2, <3>1
    <3>3. QED BY <1>2, <1>3, <3>2
  <2>3. QED BY <2>1, <2>2
<1>6. QED BY <1>4, <1>5 DEF JoinOf

LEMMA QuietJoin ==
  ASSUME NEW s, NEW m, Quiet(s, m), NEW t, NEW n, Quiet(t, n), NEW u, u = s \o t
  PROVE  Quiet(u, m + n)
<1>1. List(s, m) /\ List(t, n)
  BY DEF Quiet
<1>2. JoinOf(u, s, m, t, n)
  BY <1>1, Join
<1>3. QED BY <1>2 DEF JoinOf, Quiet

LEMMA EventsJoin ==
  ASSUME NEW s, NEW m, Quiet(s, m), NEW t, NEW n, OnlyKind(t, n, "event"), NEW u, u = s \o t
  PROVE  EventsAt(u, m + n, m, m + n)
<1>1. List(s, m) /\ List(t, n)
  BY DEF Quiet, OnlyKind
<1>2. JoinOf(u, s, m, t, n) /\ m \in Nat /\ n \in Nat
  BY <1>1, Join DEF List
<1>3. ASSUME NEW i \in 1 .. m + n
      PROVE  (u[i].kind = "event" <=> i \in m + 1 .. m + n) /\ u[i].kind # "transaction"
  <2>1. \/ i \in 1 .. m /\ u[i] = s[i]
        \/ \E j \in 1 .. n : i = m + j /\ u[i] = t[j]
    BY <1>2 DEF JoinOf
  <2>2. CASE i \in 1 .. m /\ u[i] = s[i]
    <3>1. u[i].kind \notin {"event", "transaction"} /\ i \notin m + 1 .. m + n
      BY <1>2, <2>2 DEF Quiet
    <3>2. QED BY <3>1
  <2>3. CASE \E j \in 1 .. n : i = m + j /\ u[i] = t[j]
    <3>1. u[i].kind = "event" /\ i \in m + 1 .. m + n
      BY <1>2, <2>3 DEF OnlyKind
    <3>2. QED BY <3>1
  <2>4. QED BY <2>1, <2>2, <2>3
<1>4. List(u, m + n) /\ m \in Nat /\ m + n \in Nat
  BY <1>2 DEF JoinOf
<1>5. QED BY <1>3, <1>4 DEF EventsAt

LEMMA EventsRest ==
  ASSUME NEW s, NEW m, NEW lo, NEW hi, EventsAt(s, m, lo, hi), hi <= m,
         NEW t, NEW n, Quiet(t, n), NEW u, u = s \o t
  PROVE  EventsAt(u, m + n, lo, hi)
<1>1. List(s, m) /\ List(t, n) /\ lo \in Nat /\ hi \in Nat
  BY DEF Quiet, EventsAt
<1>2. JoinOf(u, s, m, t, n) /\ m \in Nat /\ n \in Nat
  BY <1>1, Join DEF List
<1>3. ASSUME NEW i \in 1 .. m + n
      PROVE  (u[i].kind = "event" <=> i \in lo + 1 .. hi) /\ u[i].kind # "transaction"
  <2>1. \/ i \in 1 .. m /\ u[i] = s[i]
        \/ \E j \in 1 .. n : i = m + j /\ u[i] = t[j]
    BY <1>2 DEF JoinOf
  <2>2. CASE i \in 1 .. m /\ u[i] = s[i]
    BY <2>2 DEF EventsAt
  <2>3. CASE \E j \in 1 .. n : i = m + j /\ u[i] = t[j]
    <3>1. u[i].kind \notin {"event", "transaction"} /\ i \notin lo + 1 .. hi
      BY <1>1, <1>2, <2>3 DEF Quiet
    <3>2. QED BY <3>1
  <2>4. QED BY <2>1, <2>2, <2>3
<1>4. QED BY <1>1, <1>2, <1>3 DEF JoinOf, EventsAt

LEMMA NumberedKinds ==
  ASSUME NEW kind, NEW a \in Nat, NEW b \in Nat, a <= b, NEW s, s = Numbered(kind, a, b)
  PROVE  OnlyKind(s, b - a, kind)
<1>1. PICK n : n = b - a
  OBVIOUS
<1>2. s = [i \in 1 .. n |-> [kind |-> kind, payload |-> a + i]]
  BY <1>1 DEF Numbered
<1>3. s = [i \in 1 .. n |-> s[i]] /\ n \in Nat
  BY <1>1, <1>2
<1>4. s \in Seq(Range(s)) /\ Len(s) = n
  BY <1>3, Listing
<1>5. \A i \in 1 .. n : s[i].kind = kind
  BY <1>2
<1>6. QED BY <1>1, <1>3, <1>4, <1>5 DEF OnlyKind, List

(* c decisions, c actions, e events, l lines and the transaction.          *)
EmittedAs(q, c, e, l, payload) ==
  /\ List(q, c + c + e + l + 1)
  /\ \A i \in 1 .. c + c + e + l + 1 :
       /\ q[i].kind = "event" <=> i \in c + c + 1 .. c + c + e
       /\ q[i].kind = "transaction" <=> i = c + c + e + l + 1
  /\ q[c + c + e + l + 1].payload = payload

LEMMA EmissionIs ==
  ASSUME NEW ed, NEW w, NEW new, World(w), World(new),
         w.created <= new.created, w.lines <= new.lines, Len(w.events) <= Len(new.events),
         NEW c, c = new.created - w.created, NEW e, e = Len(new.events) - Len(w.events),
         NEW l, l = new.lines - w.lines
  PROVE  EmittedAs(Emission(ed, w, new), c, e, l, Recording(ed, w, new))
<1>1. /\ w.created \in Nat /\ new.created \in Nat /\ w.lines \in Nat /\ new.lines \in Nat
      /\ Len(w.events) \in Nat /\ Len(new.events) \in Nat
  BY Worldly
<1>2. PICK q1, q2, q3, q4, q5, x :
         /\ q1 = Numbered("decision", w.created, new.created)
         /\ q2 = Numbered("action", w.created, new.created)
         /\ q3 = Numbered("event", Len(w.events), Len(new.events))
         /\ q4 = Numbered("dialogue", w.lines, new.lines)
         /\ x = [kind |-> "transaction", payload |-> Recording(ed, w, new)] /\ q5 = <<x>>
  OBVIOUS
<1>3. c \in Nat /\ e \in Nat /\ l \in Nat
  <2>1. \A i, j \in Nat : i <= j => j - i \in Nat
    OBVIOUS
  <2>2. QED BY <1>1, <2>1
<1>4. Quiet(q1, c)
  <2>1. OnlyKind(q1, c, "decision")
    BY <1>1, <1>2, NumberedKinds
  <2>2. QED BY <2>1 DEF Quiet, OnlyKind
<1>5. Quiet(q2, c)
  <2>1. OnlyKind(q2, c, "action")
    BY <1>1, <1>2, NumberedKinds
  <2>2. QED BY <2>1 DEF Quiet, OnlyKind
<1>6. OnlyKind(q3, e, "event")
  BY <1>1, <1>2, NumberedKinds
<1>7. Quiet(q4, l)
  <2>1. OnlyKind(q4, l, "dialogue")
    BY <1>1, <1>2, NumberedKinds
  <2>2. QED BY <2>1 DEF Quiet, OnlyKind
<1>8. List(q5, 1) /\ q5[1] = x
  <2>1. q5 = [i \in 1 .. 1 |-> q5[i]] /\ 1 \in Nat /\ q5[1] = x
    BY <1>2
  <2>2. q5 \in Seq(Range(q5)) /\ Len(q5) = 1
    BY <2>1, Listing
  <2>3. QED BY <2>1, <2>2 DEF List
<1>9. PICK u2, u3, u4, u5 : u2 = q1 \o q2 /\ u3 = u2 \o q3 /\ u4 = u3 \o q4 /\ u5 = u4 \o q5
  OBVIOUS
<1>10. PICK d, m, k : d = c + c /\ m = d + e /\ k = m + l
  OBVIOUS
<1>10a. d \in Nat /\ m \in Nat /\ k \in Nat /\ m <= k
  <2>1. \A x1, x2, x3 \in Nat : /\ x1 + x1 \in Nat /\ (x1 + x1) + x2 \in Nat
                               /\ ((x1 + x1) + x2) + x3 \in Nat
                               /\ (x1 + x1) + x2 <= ((x1 + x1) + x2) + x3
    OBVIOUS
  <2>2. QED BY <1>3, <1>10, <2>1, Zenon
<1>11. Quiet(u2, d)
  BY <1>4, <1>5, <1>9, <1>10, QuietJoin
<1>12. EventsAt(u3, m, d, m)
  BY <1>6, <1>9, <1>10, <1>11, EventsJoin
<1>13. EventsAt(u4, k, d, m)
  <2>1. m <= m
    BY <1>10a
  <2>2. QED BY <1>7, <1>9, <1>10, <1>12, <2>1, EventsRest
<1>14. JoinOf(u5, u4, k, q5, 1)
  <2>1. List(u4, k)
    BY <1>13 DEF EventsAt
  <2>2. PICK one : one = 1
    OBVIOUS
  <2>3. JoinOf(u5, u4, k, q5, one)
    BY <1>8, <1>9, <2>1, <2>2, Join
  <2>4. QED BY <2>2, <2>3
<1>15. k \in Nat /\ d \in Nat /\ m \in Nat /\ m <= k
  BY <1>10a
<1>16. x.kind = "transaction"
  BY <1>2
<1>17. ASSUME NEW i \in 1 .. k + 1
       PROVE  /\ u5[i].kind = "event" <=> i \in d + 1 .. m
              /\ u5[i].kind = "transaction" <=> i = k + 1
              /\ i = k + 1 => u5[i] = x
  <2>1. \/ i \in 1 .. k /\ u5[i] = u4[i]
        \/ \E j \in 1 .. 1 : i = k + j /\ u5[i] = q5[j]
    BY <1>14 DEF JoinOf
  <2>2. CASE i \in 1 .. k /\ u5[i] = u4[i]
    <3>1. i # k + 1
      BY <1>15, <2>2
    <3>2. QED BY <1>13, <2>2, <3>1 DEF EventsAt
  <2>3. CASE \E j \in 1 .. 1 : i = k + j /\ u5[i] = q5[j]
    <3>1. i = k + 1 /\ u5[i] = x /\ i \notin d + 1 .. m
      BY <1>8, <1>15, <2>3
    <3>2. QED BY <1>16, <3>1
  <2>4. QED BY <2>1, <2>2, <2>3
<1>18. u5 = Emission(ed, w, new)
  BY <1>2, <1>9 DEF Emission
<1>19. x.payload = Recording(ed, w, new)
  BY <1>2
<1>20. k + 1 \in 1 .. k + 1 /\ List(u5, k + 1)
  BY <1>14, <1>15 DEF JoinOf
<1>21. EmittedAs(u5, c, e, l, x.payload)
  BY <1>10, <1>17, <1>20 DEF EmittedAs
<1>22. QED BY <1>18, <1>19, <1>21

(* A kind of which the records of q from lo to hi are is selected so.      *)
Block(q, n, kind, lo, hi) ==
  /\ List(q, n) /\ lo \in Nat /\ hi \in Nat /\ lo <= hi /\ hi <= n
  /\ \A i \in 1 .. n : q[i].kind = kind <=> i \in lo + 1 .. hi
BlockIn(s, q, lo, n) ==
  s \in Seq(Range(q)) /\ Len(s) = n /\ \A i \in 1 .. n : s[i] = q[lo + i]

LEMMA BlockOfKind ==
  ASSUME NEW q, NEW n, NEW kind, NEW lo, NEW hi, Block(q, n, kind, lo, hi)
  PROVE  BlockIn(OfKind(q, kind), q, lo, hi - lo)
<1> SUFFICES ASSUME q \in Seq(Range(q)), n \in Nat, n = Len(q),
                    lo \in Nat, hi \in Nat, lo <= hi, hi <= n,
                    \A i \in 1 .. n : q[i].kind = kind <=> i \in lo + 1 .. hi
             PROVE  /\ OfKind(q, kind) \in Seq(Range(q)) /\ Len(OfKind(q, kind)) = hi - lo
                    /\ \A i \in 1 .. hi - lo : OfKind(q, kind)[i] = q[lo + i]
  BY DEF Block, BlockIn, List
<1>1. DOMAIN q = 1 .. n
  BY LenProperties
<1>2. PICK st : Trace(st, SelectKey(kind), <<>>, q, n) /\ OfKind(q, kind) = st[n]
  BY <1>1, SelectFold
<1>3. PICK S : S = Range(q)
  OBVIOUS
<1>4. \A i \in 1 .. n : q[i] \in S
  BY <1>1, <1>3 DEF Range
<1>5. \A i \in 0 .. n : st[i] \in Seq(S)
  BY <1>2, <1>4, SelectedLists
<1> DEFINE Taken(i) == IF i <= lo THEN 0 ELSE IF i <= hi THEN i - lo ELSE hi - lo
<1> DEFINE T == {i \in 0 .. n : /\ Len(st[i]) = Taken(i)
                                /\ \A j \in 1 .. Taken(i) : st[i][j] = q[lo + j]}
<1>6. 0 \in T
  <2>1. st[0] = <<>> /\ Len(<<>>) = 0
    BY <1>2, EmptySeq DEF Trace
  <2>2. QED BY <2>1
<1>7. ASSUME NEW i \in 0 .. n, i # n, i \in T PROVE i + 1 \in T
  <2>1. i + 1 \in 1 .. n /\ i + 1 \in 0 .. n /\ (i + 1) - 1 = i
    BY <1>7
  <2>2. PICK s, x, t : s = st[i] /\ x = q[i + 1] /\ t = st[i + 1]
    OBVIOUS
  <2>3. t = Picked(s, x, kind)
    BY <1>2, <2>1, <2>2, Keys DEF Trace
  <2>4. /\ s \in Seq(S) /\ x \in S /\ Len(s) = Taken(i)
        /\ \A j \in 1 .. Taken(i) : s[j] = q[lo + j]
    BY <1>4, <1>5, <1>7, <2>1, <2>2
  <2>5. x.kind = kind <=> i + 1 \in lo + 1 .. hi
    BY <2>1, <2>2
  <2>6. CASE i + 1 \in lo + 1 .. hi
    <3>1. t = Append(s, x)
      BY <2>3, <2>5, <2>6 DEF Picked
    <3>2. /\ Len(t) = Len(s) + 1 /\ \A j \in 1 .. Len(s) : t[j] = s[j]
          /\ t[Len(s) + 1] = x
      <4>1. s \in Seq(S) /\ x \in S
        BY <2>4
      <4>2. QED BY <3>1, <4>1, AppendProperties
    <3>3. Taken(i) = i - lo /\ Taken(i + 1) = (i - lo) + 1 /\ i - lo \in Nat /\ lo + ((i - lo) + 1) = i + 1
      BY <2>6
    <3>4. ASSUME NEW j \in 1 .. Taken(i + 1) PROVE t[j] = q[lo + j]
      <4>1. CASE j = (i - lo) + 1
        BY <2>2, <2>4, <3>2, <3>3, <4>1
      <4>2. CASE j # (i - lo) + 1
        BY <2>4, <3>2, <3>3, <3>4, <4>2
      <4>3. QED BY <4>1, <4>2
    <3>5. Len(t) = Taken(i + 1)
      BY <2>4, <3>2, <3>3
    <3>6. QED BY <2>1, <2>2, <3>4, <3>5
  <2>7. CASE i + 1 \notin lo + 1 .. hi
    <3>1. t = s
      BY <2>3, <2>5, <2>7 DEF Picked
    <3>2. Taken(i) = Taken(i + 1)
      BY <2>1, <2>7
    <3>3. QED BY <2>1, <2>2, <2>4, <3>1, <3>2
  <2>8. QED BY <2>6, <2>7
<1>8. \A i \in 0 .. n : i \in T
  <2> HIDE DEF T, Taken
  <2> QED BY <1>6, <1>7, StepByStep
<1>9. n \in 0 .. n /\ Taken(n) = hi - lo
  OBVIOUS
<1>10. Len(st[n]) = hi - lo /\ \A j \in 1 .. hi - lo : st[n][j] = q[lo + j]
  BY <1>8, <1>9
<1>11. QED BY <1>2, <1>3, <1>5, <1>9, <1>10

(* A commit from w to u by way of new, which records e.                    *)
CommitsBy(ed, w, u, new, e, c, n, l) ==
  /\ World(w) /\ World(new) /\ World(Tick(w)) /\ Grown(Tick(w), new) /\ World(u)
  /\ c \in Nat /\ n \in Nat /\ l \in Nat
  /\ EmittedAs(e, c, n, l, Recording(ed, w, new))
  /\ \A i \in 1 .. c + c + n + l + 1 : e[i].sequence = w.count + i
  /\ ClosesTo(new, e, Body(w, new), u)
  /\ Len(u.events) = Len(w.events) + n

LEMMA CommitRecords ==
  ASSUME NEW ed, NEW p \in [1 .. EndMinute -> Plots], NEW w, World(w), w.minute < EndMinute,
         NEW u, u = Committing(ed, p, w)
  PROVE  \E new, e, c, n, l : CommitsBy(ed, w, u, new, e, c, n, l)
<1>1. PICK steps : steps = p[w.minute + 1]
  OBVIOUS
<1>2. steps \in Seq(Steps)
  <2>1. w.minute + 1 \in 1 .. EndMinute
    BY Worldly, PersistenceConstants
  <2>2. QED BY <1>1, <2>1, PersistenceConstants
<1>3. PICK new : new = Playing(w, steps)
  OBVIOUS
<1>4. World(Tick(w)) /\ World(new) /\ Grown(Tick(w), new)
  BY <1>2, <1>3, PlayingGrows
<1>5. u = Closing(ed, w, new)
  BY <1>1, <1>3 DEF Committing
<1>6. PICK t, q, e, c, n, l :
        /\ t = Tick(w) /\ q = Emission(ed, w, new) /\ e = Envelopes(w.count, q)
        /\ c = new.created - w.created /\ n = Len(new.events) - Len(w.events)
        /\ l = new.lines - w.lines
  OBVIOUS
<1>7. t.created = w.created /\ t.lines = w.lines /\ t.events = w.events
  BY <1>6, TickChanges
<1>8. w.created <= new.created /\ w.lines <= new.lines /\ Len(w.events) <= Len(new.events)
  BY <1>4, <1>6, <1>7 DEF Grown
<1>9. /\ w.created \in Nat /\ new.created \in Nat /\ w.lines \in Nat /\ new.lines \in Nat
      /\ Len(w.events) \in Nat /\ Len(new.events) \in Nat /\ w.count \in Nat
  BY <1>4, Worldly
<1>10. c \in Nat /\ n \in Nat /\ l \in Nat /\ Len(new.events) = Len(w.events) + n
  <2>1. \A i, j \in Nat : i <= j => j - i \in Nat /\ j = i + (j - i)
    OBVIOUS
  <2>2. QED BY <1>6, <1>8, <1>9, <2>1
<1>11. PICK k, r : k = c + c + n + l + 1 /\ r = Recording(ed, w, new)
  OBVIOUS
<1>12. EmittedAs(q, c, n, l, r)
  BY <1>4, <1>6, <1>8, <1>11, EmissionIs
<1>12a. k \in Nat \ {0}
  <2>1. \A x1, x2, x3 \in Nat : x1 + x1 + x2 + x3 + 1 \in Nat \ {0}
    OBVIOUS
  <2>2. k = c + c + n + l + 1
    BY <1>11
  <2>3. c \in Nat /\ n \in Nat /\ l \in Nat
    BY <1>10
  <2>4. QED BY <2>1, <2>2, <2>3, Zenon
<1>12b. k = c + c + n + l + 1
  BY <1>11
<1>13. /\ q \in Seq(Range(q)) /\ Len(q) = k /\ k \in Nat \ {0}
       /\ \A i \in 1 .. k : /\ q[i].kind = "event" <=> i \in c + c + 1 .. c + c + n
                            /\ q[i].kind = "transaction" <=> i = k
       /\ q[k].payload = r
  <2>1. /\ List(q, k)
        /\ \A i \in 1 .. k : /\ q[i].kind = "event" <=> i \in c + c + 1 .. c + c + n
                             /\ q[i].kind = "transaction" <=> i = k
        /\ q[k].payload = r
    BY <1>12, <1>12b, Zenon DEF EmittedAs
  <2>2. QED BY <1>12a, <2>1 DEF List
<1>14. q \in Seq(Range(q)) /\ w.count \in Nat
  BY <1>9, <1>13
<1>15. /\ e \in Seq(Range(e)) /\ Len(e) = Len(q)
       /\ \A i \in 1 .. Len(e) : e[i].sequence = w.count + i /\ e[i].kind = q[i].kind
                                 /\ e[i].payload = q[i].payload
  BY <1>6, <1>14, EnvelopesList
<1>16. EmittedAs(e, c, n, l, r)
  <2>1. List(e, k) /\ k \in 1 .. k
    BY <1>13, <1>15 DEF List
  <2>2. \A i \in 1 .. k : e[i].kind = q[i].kind /\ e[i].payload = q[i].payload
    BY <1>13, <1>15
  <2>3. QED BY <1>11, <1>13, <2>1, <2>2 DEF EmittedAs
<1>17. \A i \in 1 .. k : e[i].sequence = w.count + i
  BY <1>13, <1>15
<1>18. ClosesTo(new, e, Body(w, new), u)
  BY <1>4, <1>5, <1>6, ClosingChanges
<1>19. World(u)
  BY <1>4, <1>5, ClosingGrows
<1>20. Len(u.events) = Len(w.events) + n
  BY <1>10, <1>18 DEF ClosesTo
<1>21. CommitsBy(ed, w, u, new, e, c, n, l)
  BY <1>4, <1>10, <1>11, <1>16, <1>17, <1>18, <1>19, <1>20 DEF CommitsBy
<1>22. QED BY <1>21

(* What that says of the log.                                              *)
LogOf(w, u, e, k) ==
  /\ List(e, k) /\ k \in Nat \ {0} /\ u.count = w.count + k /\ w.count \in Nat
  /\ u.log = w.log \o e
  /\ \A i \in 1 .. w.count : u.log[i] = w.log[i]
  /\ \A i \in 1 .. k : u.log[w.count + i] = e[i]
LEMMA CommitLog ==
  ASSUME NEW ed, NEW w, NEW u, NEW new, NEW e, NEW c, NEW n, NEW l,
         CommitsBy(ed, w, u, new, e, c, n, l), NEW k, k = c + c + n + l + 1
  PROVE  LogOf(w, u, e, k)
<1>1. PICK t, b, s : t = Tick(w) /\ b = Body(w, new) /\ s = w.log
  OBVIOUS
<1>2. t.count = w.count /\ t.log = w.log
  BY <1>1, TickChanges DEF CommitsBy
<1>3. new.count = w.count /\ new.log = w.log
  BY <1>1, <1>2 DEF CommitsBy, Grown
<1>4. u.count = new.count + Len(e) /\ u.log = new.log \o e
  BY DEF CommitsBy, ClosesTo
<1>5. List(e, k) /\ k \in Nat \ {0}
  BY DEF CommitsBy, EmittedAs
<1>6. s \in Seq(Range(s)) /\ w.count = Len(s) /\ w.count \in Nat
  BY <1>1, Worldly DEF CommitsBy
<1>7. e \in Seq(Range(e)) /\ Len(e) = k
  BY <1>5 DEF List
<1>8. s \in Seq(Range(s))
  BY <1>6
<1>9. e \in Seq(Range(e))
  BY <1>7
<1>10. PICK v : v = s \o e
  OBVIOUS
<1>11. /\ \A i \in 1 .. Len(s) : v[i] = s[i]
       /\ \A i \in 1 .. Len(e) : v[Len(s) + i] = e[i]
  BY <1>8, <1>9, <1>10, Joining
<1>12. u.log = v
  BY <1>1, <1>3, <1>4, <1>10
<1>13. QED BY <1>1, <1>3, <1>4, <1>5, <1>6, <1>7, <1>10, <1>11, <1>12 DEF LogOf

(* Every minute of a history is such a commit.                             *)
LEMMA HistoryCommits ==
  ASSUME NEW ed, NEW p \in [1 .. EndMinute -> Plots], NEW h, History(ed, p, h),
         NEW m \in 0 .. EndMinute, m # EndMinute
  PROVE  \E new, e, c, n, l : CommitsBy(ed, h[m], h[m + 1], new, e, c, n, l)
<1>1. EndMinute \in Nat
  BY PersistenceConstants
<1>2. World(h[m]) /\ h[m].minute = m
  BY HistoryGoesOn
<1>3. m + 1 \in 1 .. EndMinute /\ (m + 1) - 1 = m /\ m < EndMinute
  BY <1>1
<1>4. PICK w, u : w = h[m] /\ u = h[m + 1]
  OBVIOUS
<1>5. u = Committing(ed, p, w)
  BY <1>3, <1>4 DEF History
<1>6. World(w) /\ w.minute < EndMinute
  BY <1>2, <1>3, <1>4
<1>7. \E new, e, c, n, l : CommitsBy(ed, w, u, new, e, c, n, l)
  BY <1>5, <1>6, CommitRecords
<1>8. QED BY <1>4, <1>7

(* Cursors rise with every minute.                                         *)
LEMMA CursorsRise ==
  ASSUME NEW ed, NEW p \in [1 .. EndMinute -> Plots], NEW h, History(ed, p, h)
  PROVE  \A m \in 0 .. EndMinute :
           /\ h[m].count \in Nat /\ h[m].count = Len(h[m].log)
           /\ \A l \in 0 .. EndMinute : l < m => h[l].count < h[m].count
<1>1. EndMinute \in Nat
  BY PersistenceConstants
<1>2. \A m \in 0 .. EndMinute : World(h[m]) /\ h[m].count \in Nat /\ h[m].count = Len(h[m].log)
  BY HistoryGoesOn, Worldly
<1>3. ASSUME NEW m \in 0 .. EndMinute, NEW l \in 0 .. EndMinute, l < m
      PROVE  h[l].count < h[m].count
  <2>1. l # EndMinute /\ l + 1 \in 0 .. m /\ l + 1 \in 0 .. EndMinute
    BY <1>1, <1>3
  <2>2. PICK new, e, c, n, k : CommitsBy(ed, h[l], h[l + 1], new, e, c, n, k)
    BY <2>1, HistoryCommits
  <2>3. PICK w, u : w = h[l] /\ u = h[l + 1]
    OBVIOUS
  <2>4. CommitsBy(ed, w, u, new, e, c, n, k)
    BY <2>2, <2>3
  <2>5. PICK j : j = c + c + n + k + 1
    OBVIOUS
  <2>6. LogOf(w, u, e, j)
    BY <2>4, <2>5, CommitLog
  <2>7. h[l].count < h[l + 1].count
    BY <2>3, <2>6 DEF LogOf
  <2>8. GoesOn(h[l + 1], h[m])
    BY <2>1, HistoryGoesOn
  <2>9. h[l + 1].count <= h[m].count
    BY <1>2, <2>1, <2>8 DEF GoesOn
  <2>10. QED BY <1>2, <2>1, <2>7, <2>9
<1>4. QED BY <1>2, <1>3

(* Envelopes are numbered from one on.                                     *)
LEMMA LogNumbered ==
  ASSUME NEW ed, NEW p \in [1 .. EndMinute -> Plots], NEW h, History(ed, p, h)
  PROVE  \A i \in 1 .. Len(Full(h)) : Full(h)[i].sequence = i
<1>1. EndMinute \in Nat
  BY PersistenceConstants
<1> DEFINE S == {m \in 0 .. EndMinute : \A i \in 1 .. h[m].count : h[m].log[i].sequence = i}
<1>2. 0 \in S
  BY <1>1, FreshIsWorld DEF History
<1>3. ASSUME NEW m \in 0 .. EndMinute, m # EndMinute, m \in S PROVE m + 1 \in S
  <2>1. PICK new, e, c, n, l : CommitsBy(ed, h[m], h[m + 1], new, e, c, n, l)
    BY <1>3, HistoryCommits
  <2>2. PICK w, u, k : w = h[m] /\ u = h[m + 1] /\ k = c + c + n + l + 1
    OBVIOUS
  <2>3. CommitsBy(ed, w, u, new, e, c, n, l)
    BY <2>1, <2>2
  <2>4. LogOf(w, u, e, k)
    BY <2>2, <2>3, CommitLog
  <2>5. \A i \in 1 .. k : e[i].sequence = w.count + i
    BY <2>2, <2>3 DEF CommitsBy
  <2>6. ASSUME NEW i \in 1 .. u.count PROVE u.log[i].sequence = i
    <3>1. CASE i <= w.count
      <4>1. i \in 1 .. w.count
        BY <2>4, <3>1 DEF LogOf
      <4>2. w.log[i].sequence = i
        BY <1>3, <2>2, <4>1
      <4>3. QED BY <2>4, <4>1, <4>2 DEF LogOf
    <3>2. CASE ~(i <= w.count)
      <4>1. PICK j : j = i - w.count
        OBVIOUS
      <4>2. j \in 1 .. k /\ i = w.count + j
        BY <2>4, <3>2, <4>1 DEF LogOf
      <4>3. QED BY <2>4, <2>5, <4>2 DEF LogOf
    <3>3. QED BY <3>1, <3>2
  <2>7. m + 1 \in 0 .. EndMinute
    BY <1>1, <1>3
  <2>8. QED BY <2>2, <2>6, <2>7
<1>4. \A m \in 0 .. EndMinute : m \in S
  <2> HIDE DEF S
  <2> QED BY <1>1, <1>2, <1>3, StepByStep
<1>5. EndMinute \in 0 .. EndMinute
  BY <1>1
<1>6. h[EndMinute].count = Len(h[EndMinute].log)
  BY <1>5, CursorsRise
<1>7. QED BY <1>4, <1>5, <1>6 DEF Full

-----------------------------------------------------------------------------
(* What the invariants read of the knowledge records.                      *)

Ascends(s) == \A i, j \in 1 .. Len(s) : i < j => s[i] < s[j]

(* The records of a come in the order of their events.                     *)
Orderly(s, a) ==
  \A i, j \in 1 .. Len(s) : i < j /\ s[i][1] = a /\ s[j][1] = a => s[i][2] < s[j][2]

(* Two that ascend and list the same are the same.                         *)
LEMMA Ascending ==
  ASSUME NEW s \in Seq(Nat), NEW t \in Seq(Nat), Ascends(s), Ascends(t), Range(s) = Range(t)
  PROVE  s = t
<1>1. PICK m, n : m = Len(s) /\ n = Len(t)
  OBVIOUS
<1>2. /\ m \in Nat /\ n \in Nat /\ DOMAIN s = 1 .. m /\ DOMAIN t = 1 .. n
      /\ \A i \in 1 .. m : s[i] \in Nat
      /\ \A i \in 1 .. n : t[i] \in Nat
  BY <1>1, LenProperties
<1>3. \A i \in 1 .. m : \E j \in 1 .. n : t[j] = s[i]
  BY <1>2 DEF Range
<1>4. \A i \in 1 .. n : \E j \in 1 .. m : s[j] = t[i]
  BY <1>2 DEF Range
<1>5. /\ \A i, j \in 1 .. m : i < j => s[i] < s[j]
      /\ \A i, j \in 1 .. n : i < j => t[i] < t[j]
  BY <1>1 DEF Ascends
<1> DEFINE S == {i \in 0 .. m : i <= n /\ \A j \in 1 .. i : s[j] = t[j]}
<1>6. 0 \in S
  BY <1>2
<1>7. ASSUME NEW i \in 0 .. m, i # m, i \in S PROVE i + 1 \in S
  <2>1. PICK k : k = i + 1
    OBVIOUS
  <2>2. k \in 1 .. m /\ k \in Nat /\ i \in Nat /\ i <= n /\ \A j \in 1 .. i : s[j] = t[j]
    BY <1>2, <1>7, <2>1
  <2>3. PICK j \in 1 .. n : t[j] = s[k]
    BY <1>3, <2>2
  <2>4. ~(j <= i)
    <3>1. SUFFICES ASSUME j <= i PROVE FALSE
      OBVIOUS
    <3>2. j \in 1 .. i /\ j \in 1 .. m /\ j < k
      BY <1>2, <2>1, <2>2, <3>1
    <3>3. s[j] = s[k] /\ s[j] < s[k]
      BY <1>5, <2>2, <2>3, <3>2
    <3>4. s[k] \in Nat
      BY <1>2, <2>2
    <3>5. QED BY <3>3, <3>4
  <2>5. k <= j /\ k \in 1 .. n
    BY <1>2, <2>1, <2>2, <2>4
  <2>6. PICK l \in 1 .. m : s[l] = t[k]
    BY <1>4, <2>5
  <2>7. ~(l <= i)
    <3>1. SUFFICES ASSUME l <= i PROVE FALSE
      OBVIOUS
    <3>2. l \in 1 .. i /\ l \in 1 .. n /\ l < k
      BY <1>2, <2>1, <2>2, <3>1
    <3>3. t[l] = t[k] /\ t[l] < t[k]
      BY <1>5, <2>2, <2>5, <2>6, <3>2
    <3>4. t[k] \in Nat
      BY <1>2, <2>5
    <3>5. QED BY <3>3, <3>4
  <2>8. k = l \/ k < l
    BY <1>2, <2>1, <2>2, <2>7
  <2>9. k = j \/ k < j
    BY <1>2, <2>5
  <2>10. s[k] <= t[k] /\ t[k] <= s[k]
    <3>1. s[k] \in Nat /\ t[k] \in Nat
      BY <1>2, <2>2, <2>5
    <3>2. k < l => s[k] < s[l]
      BY <1>5, <2>2
    <3>3. k < j => t[k] < t[j]
      BY <1>5, <2>5
    <3>4. QED BY <2>3, <2>6, <2>8, <2>9, <3>1, <3>2, <3>3
  <2>11. s[k] = t[k]
    BY <1>2, <2>2, <2>5, <2>10
  <2>12. \A x \in 1 .. k : s[x] = t[x]
    BY <2>1, <2>2, <2>11
  <2>13. QED BY <1>2, <1>7, <2>1, <2>5, <2>12
<1>8. \A i \in 0 .. m : i \in S
  <2> HIDE DEF S
  <2> QED BY <1>2, <1>6, <1>7, StepByStep
<1>9. m <= n /\ \A j \in 1 .. m : s[j] = t[j]
  <2>1. m \in S
    <3> HIDE DEF S
    <3> QED BY <1>2, <1>8
  <2>2. QED BY <2>1
<1>10. ~(m < n)
  <2>1. SUFFICES ASSUME m < n PROVE FALSE
    OBVIOUS
  <2>2. n \in 1 .. n
    BY <1>2, <2>1
  <2>3. PICK j \in 1 .. m : s[j] = t[n]
    BY <1>4, <2>2
  <2>4. j \in 1 .. n /\ j < n /\ t[j] = t[n] /\ t[j] < t[n]
    BY <1>2, <1>5, <1>9, <2>1, <2>2, <2>3
  <2>5. t[n] \in Nat
    BY <1>2, <2>2
  <2>6. QED BY <2>4, <2>5
<1>11. m = n
  BY <1>2, <1>9, <1>10
<1>12. QED BY <1>1, <1>9, <1>11, SeqEqual, SeqOfRange

(* The own records of an agent: what they list, and in which order.        *)
LEMMA OwnLists ==
  ASSUME NEW q \in Seq(Agent \X Nat), NEW a
  PROVE  /\ Own(q, a) \in Seq(Nat)
         /\ \A e : e \in Range(Own(q, a)) <=> <<a, e>> \in Range(q)
         /\ Orderly(q, a) => Ascends(Own(q, a))
<1>1. PICK n : n = Len(q)
  OBVIOUS
<1>2. n \in Nat /\ DOMAIN q = 1 .. n /\ \A i \in 1 .. n : q[i] \in Agent \X Nat
  BY <1>1, LenProperties
<1>2a. \A i \in 1 .. n : q[i][2] \in Nat /\ q[i] = <<q[i][1], q[i][2]>>
  <2>1. \A p \in Agent \X Nat : p[2] \in Nat /\ p = <<p[1], p[2]>>
    OBVIOUS
  <2>2. QED BY <1>2, <2>1
<1>3. PICK st : Trace(st, OwnKey(a), <<>>, q, n) /\ Own(q, a) = st[n]
  BY <1>2, OwnFold
<1> DEFINE Listed(i, e) == \E j \in 1 .. i : q[j][1] = a /\ q[j][2] = e
           T == {i \in 0 .. n : /\ st[i] \in Seq(Nat)
                                /\ \A e : e \in Range(st[i]) <=> Listed(i, e)
                                /\ Orderly(q, a) => Ascends(st[i])}
<1>4. 0 \in T
  <2>1. PICK z : z = <<>>
    OBVIOUS
  <2>2. st[0] = z /\ z \in Seq(Nat) /\ Len(z) = 0 /\ Range(z) = {}
    BY <1>3, <2>1, EmptySeq DEF Trace, Range
  <2>3. \A e : e \in Range(st[0]) <=> Listed(0, e)
    BY <2>2
  <2>4. Ascends(st[0])
    BY <2>2 DEF Ascends
  <2>5. 0 \in 0 .. n /\ st[0] \in Seq(Nat)
    BY <1>2, <2>2
  <2> HIDE DEF Listed
  <2>6. QED BY <2>3, <2>4, <2>5
<1>5. ASSUME NEW i \in 0 .. n, i # n, i \in T PROVE i + 1 \in T
  <2>1. i + 1 \in 1 .. n /\ i + 1 \in 0 .. n /\ (i + 1) - 1 = i
    BY <1>2, <1>5
  <2>2. PICK k, s, t, x : k = i + 1 /\ s = st[i] /\ t = st[i + 1] /\ x = q[i + 1]
    OBVIOUS
  <2>3. t = Owned(s, x, a)
    BY <1>3, <2>1, <2>2, Keys DEF Trace
  <2>4. /\ s \in Seq(Nat) /\ Len(s) \in Nat /\ DOMAIN s = 1 .. Len(s)
        /\ \A e : e \in Range(s) <=> Listed(i, e)
        /\ Orderly(q, a) => Ascends(s)
    <3>1. s \in Seq(Nat) /\ (\A e : e \in Range(s) <=> Listed(i, e)) /\ (Orderly(q, a) => Ascends(s))
      BY <1>5, <2>2
    <3> HIDE DEF Listed
    <3>2. QED BY <3>1, LenProperties
  <2>5. \A e : Listed(k, e) <=> Listed(i, e) \/ (x[1] = a /\ x[2] = e)
    BY <1>2, <2>1, <2>2
  <2>6. x[2] \in Nat
    BY <1>2a, <2>1, <2>2
  <2> HIDE DEF Listed
  <2>7. CASE x[1] # a
    <3>1. t = s
      BY <2>3, <2>7 DEF Owned
    <3>2. QED BY <2>1, <2>2, <2>4, <2>5, <2>7, <3>1
  <2>8. CASE x[1] = a
    <3>1. t = Append(s, x[2])
      BY <2>3, <2>8 DEF Owned
    <3>2. /\ t \in Seq(Nat) /\ Range(t) = Range(s) \cup {x[2]} /\ Len(t) = Len(s) + 1
          /\ \A j \in 1 .. Len(s) : t[j] = s[j]
      <4>1. PICK y : y = x[2]
        OBVIOUS
      <4>2. t = Append(s, y) /\ y \in Nat /\ s \in Seq(Nat)
        BY <2>4, <2>6, <3>1, <4>1
      <4>3. QED BY <4>1, <4>2, Appending
    <3>3. t[Len(s) + 1] = x[2]
      <4>1. PICK y : y = x[2]
        OBVIOUS
      <4>2. t = Append(s, y) /\ y \in Nat /\ s \in Seq(Nat)
        BY <2>4, <2>6, <3>1, <4>1
      <4>3. QED BY <4>1, <4>2, AppendProperties
    <3>4. \A e : e \in Range(t) <=> Listed(k, e)
      BY <2>4, <2>5, <2>8, <3>2
    <3>5. ASSUME Orderly(q, a) PROVE Ascends(t)
      <4>1. \A j \in 1 .. Len(s) : s[j] < x[2]
        <5>1. SUFFICES ASSUME NEW j \in 1 .. Len(s) PROVE s[j] < x[2]
          OBVIOUS
        <5>2. s[j] \in Range(s)
          BY <2>4 DEF Range
        <5>3. PICK l \in 1 .. i : q[l][1] = a /\ q[l][2] = s[j]
          BY <2>4, <5>2 DEF Listed
        <5>4. l \in 1 .. Len(q) /\ k \in 1 .. Len(q) /\ l < k
          BY <1>1, <1>2, <2>1, <2>2
        <5>5. QED BY <2>2, <2>8, <3>5, <5>3, <5>4 DEF Orderly
      <4>2. Ascends(s)
        BY <2>4, <3>5
      <4>3. ASSUME NEW l \in 1 .. Len(t), NEW j \in 1 .. Len(t), l < j PROVE t[l] < t[j]
        <5>1. l \in 1 .. Len(s) /\ (j \in 1 .. Len(s) \/ j = Len(s) + 1)
          <6>1. Len(s) \in Nat /\ Len(t) = Len(s) + 1
            BY <2>4, <3>2
          <6>2. \A n1 \in Nat : \A b, c \in 1 .. n1 + 1 :
                  b < c => b \in 1 .. n1 /\ (c \in 1 .. n1 \/ c = n1 + 1)
            OBVIOUS
          <6>3. l \in 1 .. Len(s) + 1 /\ j \in 1 .. Len(s) + 1 /\ l < j
            BY <4>3, <6>1
          <6>4. QED BY <6>1, <6>2, <6>3
        <5>2. t[l] = s[l]
          BY <3>2, <5>1
        <5>3. CASE j \in 1 .. Len(s)
          <6>1. t[j] = s[j]
            BY <3>2, <5>3
          <6>2. \A b, c \in 1 .. Len(s) : b < c => s[b] < s[c]
            BY <4>2 DEF Ascends
          <6>3. s[l] < s[j]
            BY <4>3, <5>1, <5>3, <6>2
          <6>4. QED BY <5>2, <6>1, <6>3
        <5>4. CASE j = Len(s) + 1
          <6>1. t[j] = x[2] /\ s[l] < x[2]
            BY <3>3, <4>1, <5>1, <5>4
          <6>2. QED BY <5>2, <6>1
        <5>5. QED BY <5>1, <5>3, <5>4
      <4>4. QED BY <4>3 DEF Ascends
    <3>6. QED BY <2>1, <2>2, <3>2, <3>4, <3>5
  <2>9. QED BY <2>7, <2>8
<1>6. \A i \in 0 .. n : i \in T
  <2> HIDE DEF T
  <2> QED BY <1>2, <1>4, <1>5, StepByStep
<1>7. /\ Own(q, a) \in Seq(Nat) /\ (Orderly(q, a) => Ascends(Own(q, a)))
      /\ \A e : e \in Range(Own(q, a)) <=> Listed(n, e)
  <2>1. n \in T
    <3> HIDE DEF T
    <3>1. n \in 0 .. n
      BY <1>2
    <3>2. QED BY <1>6, <3>1
  <2>2. /\ st[n] \in Seq(Nat) /\ (Orderly(q, a) => Ascends(st[n]))
        /\ \A e : e \in Range(st[n]) <=> Listed(n, e)
    <3> HIDE DEF Listed
    <3> QED BY <2>1
  <2> HIDE DEF Listed, T
  <2>3. QED BY <1>3, <2>2
<1>8. \A e : Listed(n, e) <=> <<a, e>> \in Range(q)
  <2>1. SUFFICES ASSUME NEW e PROVE Listed(n, e) <=> \E j \in 1 .. n : q[j] = <<a, e>>
    BY <1>2 DEF Range
  <2>2. \A j \in 1 .. n : q[j] = <<a, e>> <=> q[j][1] = a /\ q[j][2] = e
    BY <1>2a
  <2>3. QED BY <2>2
<1>9. QED BY <1>7, <1>8

(* What an agent knows at one minute begins what it knows at a later one.   *)
LEMMA HistoryKnows ==
  ASSUME NEW ed, NEW p \in [1 .. EndMinute -> Plots], NEW h, History(ed, p, h)
  PROVE  \A m \in 0 .. EndMinute : \A l \in 0 .. m : Prefixed(h[l].known, h[m].known)
<1>1. EndMinute \in Nat /\ \A m \in 0 .. EndMinute : World(h[m])
  BY PersistenceConstants, HistoryGoesOn
<1>2. \A m \in 0 .. EndMinute : h[m].known \in [Agent -> Seq(Nat)] /\ Prefixed(h[m].known, h[m].known)
  BY <1>1, Worldly
<1> DEFINE S == {m \in 0 .. EndMinute : \A l \in 0 .. m : Prefixed(h[l].known, h[m].known)}
<1>3. 0 \in S
  <2>1. \A l \in 0 .. 0 : l = 0
    OBVIOUS
  <2>2. 0 \in 0 .. EndMinute
    BY <1>1
  <2>3. QED BY <1>2, <2>1, <2>2
<1>4. ASSUME NEW m \in 0 .. EndMinute, m # EndMinute, m \in S PROVE m + 1 \in S
  <2>1. m + 1 \in 0 .. EndMinute
    BY <1>1, <1>4
  <2>2. PICK new, e, c, n, k : CommitsBy(ed, h[m], h[m + 1], new, e, c, n, k)
    BY <1>4, HistoryCommits
  <2>3. PICK w, u, t : w = h[m] /\ u = h[m + 1] /\ t = Tick(w)
    OBVIOUS
  <2>4. /\ World(w) /\ Grown(t, new)
        /\ ClosesTo(new, e, Body(w, new), u)
    BY <2>2, <2>3 DEF CommitsBy
  <2>5. t.known = w.known /\ u.known = new.known
    BY <2>3, <2>4, TickChanges DEF ClosesTo
  <2>6. Prefixed(h[m].known, h[m + 1].known)
    BY <2>3, <2>4, <2>5 DEF Grown
  <2>7. ASSUME NEW l \in 0 .. m + 1 PROVE Prefixed(h[l].known, h[m + 1].known)
    <3>1. CASE l = m + 1
      BY <1>2, <2>1, <3>1
    <3>2. CASE l # m + 1
      <4>1. l \in 0 .. m /\ l \in 0 .. EndMinute
        BY <1>1, <3>2
      <4>2. Prefixed(h[l].known, h[m].known)
        BY <1>4, <4>1
      <4>3. QED BY <1>2, <2>1, <2>6, <4>1, <4>2, PrefixedOn
    <3>3. QED BY <3>1, <3>2
  <2>8. QED BY <2>1, <2>7
<1>5. \A m \in 0 .. EndMinute : m \in S
  <2> HIDE DEF S
  <2> QED BY <1>1, <1>3, <1>4, StepByStep
<1>6. QED BY <1>5

(* As long as what is known in the end ascends.                            *)
Calm(h) == \A a \in Agent : Ascends(h[EndMinute].known[a])

LEMMA CalmAscends ==
  ASSUME NEW ed, NEW p \in [1 .. EndMinute -> Plots], NEW h, History(ed, p, h), Calm(h),
         NEW m \in 0 .. EndMinute
  PROVE  \A a \in Agent : Ascends(h[m].known[a])
<1>1. EndMinute \in 0 .. EndMinute /\ World(h[m]) /\ World(h[EndMinute])
  <2>1. EndMinute \in 0 .. EndMinute
    BY PersistenceConstants
  <2>2. QED BY <2>1, HistoryGoesOn
<1>2. Prefixed(h[m].known, h[EndMinute].known)
  BY <1>1, HistoryKnows
<1>3. SUFFICES ASSUME NEW a \in Agent PROVE Ascends(h[m].known[a])
  OBVIOUS
<1>4. PICK s, t : s = h[m].known[a] /\ t = h[EndMinute].known[a]
  OBVIOUS
<1>5. s \in Seq(Nat) /\ t \in Seq(Nat)
  BY <1>1, <1>4, Worldly
<1>6. Len(s) \in Nat /\ Len(t) \in Nat
  BY <1>5, LenProperties
<1>7. Len(s) <= Len(t) /\ (\A i \in 1 .. Len(s) : t[i] = s[i]) /\ Ascends(t)
  BY <1>2, <1>4 DEF Prefixed, Calm
<1>8. Ascends(s)
  BY <1>6, <1>7 DEF Ascends
<1>9. QED BY <1>4, <1>8

(* Sorted records are orderly.                                             *)
LEMMA SortedOrderly ==
  ASSUME NEW S, S \subseteq Agent \X Nat, IsFiniteSet(S), NEW a
  PROVE  Orderly(Sorted(ByKey(S)), a)
<1>1. PICK b, t, n : b = ByKey(S) /\ t = Sorted(b) /\ n = Cardinality(S)
  OBVIOUS
<1>2. Orders(b, S)
  BY <1>1, KeysOrdered
<1>3. /\ n \in Nat /\ DOMAIN t = 1 .. n /\ t \in Seq(S)
      /\ \A i, j \in 1 .. n : i < j => t[i] \in b[t[j]]
  BY <1>1, <1>2, SortedLists
<1>4. Len(t) = n /\ \A i \in 1 .. n : t[i] \in S
  BY <1>3, LenProperties
<1>5. \A p, q \in S : q \in b[p] => q[1] < p[1] \/ (q[1] = p[1] /\ q[2] < p[2])
  BY <1>1 DEF ByKey
<1>6. \A p \in S : p[1] \in Nat
  <2>1. \A p \in Agent \X Nat : p[1] \in Agent
    OBVIOUS
  <2>2. QED BY <2>1, PersistenceConstants
<1>7. ASSUME NEW i \in 1 .. n, NEW j \in 1 .. n, i < j, t[i][1] = a, t[j][1] = a
      PROVE  t[i][2] < t[j][2]
  <2>1. PICK p, q : p = t[j] /\ q = t[i]
    OBVIOUS
  <2>2. p \in S /\ q \in S /\ q \in b[p]
    BY <1>3, <1>4, <1>7, <2>1
  <2>3. q[1] < p[1] \/ (q[1] = p[1] /\ q[2] < p[2])
    BY <1>5, <2>2
  <2>4. q[1] \in Nat /\ q[1] = p[1]
    BY <1>6, <1>7, <2>1, <2>2
  <2>5. QED BY <2>1, <2>3, <2>4
<1>8. QED BY <1>1, <1>4, <1>7 DEF Orderly

(* Records of events that come after all that were known before.           *)
LEMMA PatchOrders ==
  ASSUME NEW v, World(v), NEW w, World(w), SameState(v, w),
         NEW new, World(new), World(Tick(w)), Grown(Tick(w), new),
         NEW u, u = Patched(v, Patch(w, new)), NEW a \in Agent,
         Orderly(v.knowledge, a), Ascends(new.known[a])
  PROVE  Orderly(u.knowledge, a)
<1>1. PICK t, patch : t = Tick(w) /\ patch = Patch(w, new)
  OBVIOUS
<1>2. PICK N, O, D, s, q, x, y :
        /\ N = Range(new.knowledge) /\ O = Range(w.knowledge) /\ D = N \ O
        /\ s = v.knowledge /\ q = patch.knowledge /\ x = w.known[a] /\ y = new.known[a]
  OBVIOUS
<1>3. q = Sorted(ByKey(D))
  BY <1>1, <1>2, PatchSays DEF Differs
<1>4. u.knowledge = s \o q
  <2>1. Shape(v)
    BY DEF World
  <2>2. PatchedTo(v, patch, u)
    BY <1>1, <2>1, PatchedChanges
  <2>3. QED BY <1>2, <2>2 DEF PatchedTo
<1>5. IsFiniteSet(D) /\ D \subseteq Agent \X Nat /\ q \in Seq(D) /\ Range(q) = D
  <2>1. D \subseteq Range(new.knowledge)
    BY <1>2
  <2>2. QED BY <1>3, <2>1, RecordsFinite
<1>6. Orderly(q, a) /\ Orderly(s, a)
  BY <1>2, <1>3, <1>5, SortedOrderly
<1>7. s \in Seq(Agent \X Nat) /\ Range(s) = O
  BY <1>2, Worldly DEF SameState
<1>8. /\ Len(s) \in Nat /\ Len(q) \in Nat /\ DOMAIN s = 1 .. Len(s) /\ DOMAIN q = 1 .. Len(q)
  BY <1>5, <1>7, LenProperties
<1>9. PICK r : r = s \o q
  OBVIOUS
<1>10. /\ Len(r) = Len(s) + Len(q)
       /\ \A i \in 1 .. Len(s) : r[i] = s[i]
       /\ \A i \in 1 .. Len(q) : r[Len(s) + i] = q[i]
  <2>1. s \in Seq(Range(s)) /\ q \in Seq(Range(q))
    BY <1>5, <1>7, SeqOfRange
  <2>2. QED BY <1>9, <2>1, Joining
<1>11. ASSUME NEW e, <<a, e>> \in O, NEW f, <<a, f>> \in D PROVE e < f
  <2>1. /\ e \in Range(x) /\ f \in Range(y) /\ f \notin Range(x)
        /\ x \in Seq(Nat) /\ y \in Seq(Nat)
    <3>1. Ledgers(w.known, O) /\ Ledgers(new.known, N)
      BY <1>2, Worldly
    <3>2. <<a, f>> \in N /\ <<a, f>> \notin O
      BY <1>2, <1>11
    <3>3. e \in Range(x) /\ f \in Range(y) /\ f \notin Range(x)
      BY <1>2, <1>11, <3>1, <3>2 DEF Ledgers
    <3>4. QED BY <1>2, <3>3, Worldly
  <2>2. t.known = w.known
    BY <1>1, TickChanges
  <2>3. Len(x) <= Len(y) /\ \A i \in 1 .. Len(x) : y[i] = x[i]
    BY <1>1, <1>2, <2>2 DEF Grown, Prefixed
  <2>4. Len(x) \in Nat /\ Len(y) \in Nat /\ DOMAIN x = 1 .. Len(x) /\ DOMAIN y = 1 .. Len(y)
    BY <2>1, LenProperties
  <2>5. PICK i \in 1 .. Len(x) : x[i] = e
    BY <2>1, <2>4 DEF Range
  <2>6. PICK j \in 1 .. Len(y) : y[j] = f
    BY <2>1, <2>4 DEF Range
  <2>7. j \notin 1 .. Len(x)
    <3>1. SUFFICES ASSUME j \in 1 .. Len(x) PROVE f \in Range(x)
      BY <2>1
    <3>2. QED BY <2>3, <2>4, <2>6, <3>1 DEF Range
  <2>8. i \in 1 .. Len(y) /\ i < j /\ y[i] = e
    BY <2>3, <2>4, <2>5, <2>6, <2>7
  <2>9. Ascends(y)
    BY <1>2
  <2>10. QED BY <2>6, <2>8, <2>9 DEF Ascends
<1>12. ASSUME NEW i \in 1 .. Len(r), NEW j \in 1 .. Len(r), i < j, r[i][1] = a, r[j][1] = a
       PROVE  r[i][2] < r[j][2]
  <2>1. CASE j <= Len(s)
    <3>1. i \in 1 .. Len(s) /\ j \in 1 .. Len(s) /\ r[i] = s[i] /\ r[j] = s[j]
      BY <1>8, <1>10, <1>12, <2>1
    <3>2. QED BY <1>6, <1>12, <3>1 DEF Orderly
  <2>2. CASE ~(j <= Len(s)) /\ i <= Len(s)
    <3>1. PICK l : l = j - Len(s)
      OBVIOUS
    <3>2. l \in 1 .. Len(q) /\ j = Len(s) + l /\ i \in 1 .. Len(s)
      BY <1>8, <1>10, <1>12, <2>2, <3>1
    <3>3. r[j] = q[l] /\ r[i] = s[i]
      BY <1>10, <3>2
    <3>4. q[l] \in D /\ s[i] \in O /\ O \subseteq Agent \X Nat
      <4>1. q[l] \in Range(q) /\ s[i] \in Range(s)
        BY <1>8, <3>2 DEF Range
      <4>2. \A k \in 1 .. Len(s) : s[k] \in Agent \X Nat
        BY <1>7, <1>8
      <4>3. Range(s) \subseteq Agent \X Nat
        BY <1>8, <4>2 DEF Range
      <4>4. QED BY <1>5, <1>7, <4>1, <4>3
    <3>5. q[l] = <<a, q[l][2]>> /\ s[i] = <<a, s[i][2]>>
      <4>1. \A z \in Agent \X Nat : z = <<z[1], z[2]>>
        OBVIOUS
      <4>2. QED BY <1>5, <1>12, <3>3, <3>4, <4>1
    <3>6. QED BY <1>11, <3>3, <3>4, <3>5
  <2>3. CASE ~(i <= Len(s))
    <3>1. PICK k, l : k = i - Len(s) /\ l = j - Len(s)
      OBVIOUS
    <3>2. /\ k \in 1 .. Len(q) /\ l \in 1 .. Len(q) /\ k < l
          /\ i = Len(s) + k /\ j = Len(s) + l
      BY <1>8, <1>10, <1>12, <2>3, <3>1
    <3>3. r[i] = q[k] /\ r[j] = q[l]
      BY <1>10, <3>2
    <3>4. QED BY <1>6, <1>12, <3>2, <3>3 DEF Orderly
  <2>4. QED BY <2>1, <2>2, <2>3
<1>13. QED BY <1>4, <1>9, <1>12 DEF Orderly

(* What is accepted is known in the order of its events, if the records     *)
(* come in that order, and the other way round.                            *)
LEMMA AcceptedAscends ==
  ASSUME NEW w, World(w), \A a \in Agent : Orderly(w.knowledge, a)
  PROVE  Accepted(w) <=> \A a \in Agent : Ascends(w.known[a])
<1>1. ASSUME NEW a \in Agent PROVE w.known[a] = Own(w.knowledge, a) <=> Ascends(w.known[a])
  <2>1. PICK q, s, t : q = w.knowledge /\ s = w.known[a] /\ t = Own(w.knowledge, a)
    OBVIOUS
  <2>2. q \in Seq(Agent \X Nat) /\ s \in Seq(Nat) /\ Orderly(q, a)
    BY <2>1, Worldly
  <2>3. t \in Seq(Nat) /\ Ascends(t) /\ \A e : e \in Range(t) <=> <<a, e>> \in Range(q)
    BY <2>1, <2>2, OwnLists
  <2>4. \A e : <<a, e>> \in Range(q) <=> e \in Range(s)
    BY <2>1, Worldly DEF Ledgers
  <2>5. Range(s) = Range(t)
    BY <2>3, <2>4
  <2>6. QED BY <2>1, <2>2, <2>3, <2>5, Ascending
<1>2. QED BY <1>1 DEF Accepted

-----------------------------------------------------------------------------
(* Replaying the authority log of M3.                                      *)

(* v is what a replay is at once it has read the first n records: the       *)
(* state of the last minute it has read the transaction of, and those       *)
(* records.  Its knowledge comes from stored records, each sorted.          *)
ReachedAt(h, m, n, v) ==
  /\ m \in 0 .. EndMinute /\ h[m].count <= n /\ (m # EndMinute => n < h[m + 1].count)
  /\ World(v) /\ SameState(v, h[m]) /\ v.chain = h[m].chain /\ v.count = n
  /\ \A i \in 1 .. n : v.log[i] = Full(h)[i]
  /\ Calm(h) => \A a \in Agent : Orderly(v.knowledge, a)
Reached(h, n, v) == \E m : ReachedAt(h, m, n, v)

Noted(v, x) == [v EXCEPT !.count = @ + 1, !.log = Append(@, x)]

LEMMA NotedChanges ==
  ASSUME NEW v, World(v), NEW x, NEW u, u = Noted(v, x)
  PROVE  /\ World(u) /\ u.count = v.count + 1 /\ u.chain = v.chain
         /\ u.minute = v.minute /\ u.version = v.version /\ u.known = v.known
         /\ u.knowledge = v.knowledge /\ u.actions = v.actions /\ u.created = v.created
         /\ u.lines = v.lines /\ u.events = v.events
         /\ \A i \in 1 .. v.count : u.log[i] = v.log[i]
         /\ u.log[v.count + 1] = x
<1>1. PICK s, t : s = v.log /\ t = Append(s, x)
  OBVIOUS
<1>2. s \in Seq(Range(s)) /\ v.count = Len(s) /\ v.count \in Nat /\ Shape(v)
  BY <1>1, Worldly DEF World
<1>3. PICK S : S = Range(s) \cup {x}
  OBVIOUS
<1>4. s \in Seq(S) /\ x \in S
  BY <1>2, <1>3, SeqMonotonic
<1>5. /\ t \in Seq(S) /\ Len(t) = Len(s) + 1 /\ \A i \in 1 .. Len(s) : t[i] = s[i]
      /\ t[Len(s) + 1] = x
  BY <1>1, <1>4, AppendProperties
<1>6. t \in Seq(Range(t))
  BY <1>5, SeqOfRange
<1>7. /\ Shape(u) /\ u.count = v.count + 1 /\ u.log = t /\ u.chain = v.chain
      /\ u.minute = v.minute /\ u.version = v.version /\ u.known = v.known
      /\ u.knowledge = v.knowledge /\ u.actions = v.actions /\ u.created = v.created
      /\ u.lines = v.lines /\ u.events = v.events
  BY <1>1, <1>2 DEF Shape, Noted
<1>8. World(u)
  BY <1>2, <1>5, <1>6, <1>7, Worldly DEF World
<1>9. QED BY <1>1, <1>2, <1>5, <1>7, <1>8

(* The record that follows takes a replay from the state of one minute to   *)
(* the state of the next when it is its transaction.                       *)
Applied(v, x) == IF x.kind = "transaction" THEN ApplySociety(v, x.payload) ELSE v
Chained(v, w, new, b) == [Patched(v, Patch(w, new)) EXCEPT !.chain = Append(w.chain, b)]

LEMMA SocietyApplies ==
  ASSUME NEW v, World(v), NEW w, World(w), SameState(v, w), v.chain = w.chain,
         NEW new, World(new), World(Tick(w)), Grown(Tick(w), new),
         NEW u, NEW e, ClosesTo(new, e, Body(w, new), u),
         NEW x, x = ApplySociety(v, Recording("M3", w, new))
  PROVE  /\ World(x) /\ SameState(x, u) /\ x.chain = u.chain
         /\ x.count = v.count /\ x.log = v.log
         /\ \A a \in Agent : Orderly(v.knowledge, a) /\ Ascends(u.known[a]) => Orderly(x.knowledge, a)
<1>1. PICK t, b, r : t = Tick(w) /\ b = Body(w, new) /\ r = Recording("M3", w, new)
  OBVIOUS
<1>2. r.body = b /\ r.previous = w.chain /\ r.next = Append(w.chain, b)
  BY <1>1 DEF Recording
<1>3. b.expected = w.version /\ b.patch = Patch(w, new)
  BY <1>1 DEF Body
<1>4. PICK y, z : y = Patched(v, Patch(w, new)) /\ z = [y EXCEPT !.chain = Append(w.chain, b)]
  OBVIOUS
<1>5. x = z
  BY <1>1, <1>2, <1>3, <1>4 DEF ApplySociety, SameState
<1>6. /\ World(y) /\ y.count = v.count /\ y.log = v.log
      /\ y.version = w.version + 1 /\ y.minute = new.minute /\ y.known = new.known
      /\ Range(y.knowledge) = Range(new.knowledge) /\ y.actions = new.actions
      /\ y.created = new.created /\ y.lines = new.lines /\ y.events = new.events
  BY <1>4, PatchRestores
<1>7. Shape(y)
  BY <1>6 DEF World
<1>8. /\ Shape(z) /\ z.count = y.count /\ z.log = y.log /\ z.chain = Append(w.chain, b)
      /\ z.minute = y.minute /\ z.version = y.version /\ z.known = y.known
      /\ z.knowledge = y.knowledge /\ z.actions = y.actions /\ z.created = y.created
      /\ z.lines = y.lines /\ z.events = y.events
  BY <1>4, <1>7 DEF Shape
<1>9. World(z)
  BY <1>6, <1>8 DEF World
<1>10. t.version = w.version /\ t.chain = w.chain
  BY <1>1, TickChanges
<1>11. new.version = w.version /\ new.chain = w.chain
  BY <1>1, <1>10 DEF Grown
<1>12. /\ u.minute = new.minute /\ u.version = new.version + 1 /\ u.known = new.known
       /\ u.knowledge = new.knowledge /\ u.actions = new.actions
       /\ u.created = new.created /\ u.lines = new.lines /\ u.events = new.events
       /\ u.chain = Append(new.chain, b)
  BY <1>1 DEF ClosesTo
<1>13. SameState(z, u)
  BY <1>6, <1>8, <1>11, <1>12 DEF SameState
<1>14. ASSUME NEW a \in Agent, Orderly(v.knowledge, a), Ascends(u.known[a])
       PROVE  Orderly(x.knowledge, a)
  <2>1. Ascends(new.known[a])
    BY <1>12, <1>14
  <2>2. Orderly(y.knowledge, a)
    BY <1>4, <1>14, <2>1, PatchOrders
  <2>3. QED BY <1>5, <1>8, <2>2
<1>15. QED BY <1>5, <1>6, <1>8, <1>9, <1>11, <1>12, <1>13, <1>14

LEMMA ReachedNext ==
  ASSUME NEW p \in [1 .. EndMinute -> Plots], NEW h, History("M3", p, h),
         NEW n \in Nat, NEW v, Reached(h, n, v), n < Len(Full(h)),
         NEW x, x = Full(h)[n + 1], NEW y, y = Applied(v, x)
  PROVE  y # None /\ Reached(h, n + 1, Noted(y, x))
<1>1. PICK m : ReachedAt(h, m, n, v)
  BY DEF Reached
<1>2. EndMinute \in Nat /\ EndMinute \in 0 .. EndMinute
  BY PersistenceConstants
<1>3. /\ m \in 0 .. EndMinute /\ h[m].count <= n /\ (m # EndMinute => n < h[m + 1].count)
      /\ World(v) /\ SameState(v, h[m]) /\ v.chain = h[m].chain /\ v.count = n
      /\ \A i \in 1 .. n : v.log[i] = Full(h)[i]
      /\ Calm(h) => \A a \in Agent : Orderly(v.knowledge, a)
  BY <1>1 DEF ReachedAt
<1>4. m # EndMinute
  <2>1. h[EndMinute].count = Len(Full(h)) /\ h[EndMinute].count \in Nat
    BY <1>2, CursorsRise DEF Full
  <2>2. QED BY <1>3, <2>1
<1>5. m + 1 \in 0 .. EndMinute /\ m + 1 \in 1 .. EndMinute /\ (m + 1) - 1 = m
  BY <1>2, <1>3, <1>4
<1>6. PICK new, e, c, k, l : CommitsBy("M3", h[m], h[m + 1], new, e, c, k, l)
  BY <1>3, <1>4, HistoryCommits
<1>7. PICK w, u, j : w = h[m] /\ u = h[m + 1] /\ j = c + c + k + l + 1
  OBVIOUS
<1>8. CommitsBy("M3", w, u, new, e, c, k, l)
  BY <1>6, <1>7
<1>9. LogOf(w, u, e, j)
  BY <1>7, <1>8, CommitLog
<1>10. j \in Nat \ {0} /\ u.count = w.count + j /\ w.count \in Nat
       /\ \A i \in 1 .. j : u.log[w.count + i] = e[i]
  BY <1>9 DEF LogOf
<1>11. PICK i : i = (n + 1) - w.count
  OBVIOUS
<1>12. w.count <= n /\ n < u.count
  BY <1>3, <1>4, <1>7
<1>13. i \in 1 .. j /\ w.count + i = n + 1 /\ (i = j <=> n + 1 = u.count)
  BY <1>10, <1>11, <1>12
<1>14. x = e[i]
  <2>1. GoesOn(u, h[EndMinute]) /\ u.count = Len(u.log)
    BY <1>2, <1>5, <1>7, HistoryGoesOn, CursorsRise
  <2>2. n + 1 \in 1 .. Len(u.log)
    BY <1>10, <1>12, <2>1
  <2>3. Full(h)[n + 1] = u.log[n + 1]
    BY <2>1, <2>2 DEF GoesOn, Full
  <2>4. QED BY <1>10, <1>13, <2>3
<1>15. EmittedAs(e, c, k, l, Recording("M3", w, new))
  BY <1>8 DEF CommitsBy
<1>16. /\ \A a \in 1 .. j : e[a].kind = "transaction" <=> a = j
       /\ e[j].payload = Recording("M3", w, new)
  BY <1>7, <1>15, Zenon DEF EmittedAs
<1>17. x.kind = "transaction" <=> i = j
  BY <1>13, <1>14, <1>16
<1>18. CASE i # j
  <2>1. y = v
    BY <1>17, <1>18 DEF Applied
  <2>2. PICK z : z = Noted(v, x)
    OBVIOUS
  <2>3. /\ World(z) /\ z.count = v.count + 1 /\ z.chain = v.chain
        /\ z.minute = v.minute /\ z.version = v.version /\ z.known = v.known
        /\ z.knowledge = v.knowledge /\ z.actions = v.actions /\ z.created = v.created
        /\ z.lines = v.lines /\ z.events = v.events
        /\ \A a \in 1 .. v.count : z.log[a] = v.log[a]
        /\ z.log[v.count + 1] = x
    <3>1. World(v)
      BY <1>3
    <3>2. QED BY <2>2, <3>1, NotedChanges
  <2>4. SameState(z, h[m])
    BY <1>3, <2>3 DEF SameState
  <2>5. \A a \in 1 .. n + 1 : z.log[a] = Full(h)[a]
    BY <1>3, <2>3
  <2>6. h[m].count <= n + 1 /\ n + 1 < h[m + 1].count
    BY <1>7, <1>10, <1>12, <1>13, <1>18
  <2>7. ReachedAt(h, m, n + 1, z)
    BY <1>3, <2>3, <2>4, <2>5, <2>6 DEF ReachedAt
  <2>8. y # None
    BY <1>3, <2>1, Distinct DEF World
  <2>9. QED BY <2>1, <2>2, <2>7, <2>8 DEF Reached
<1>19. CASE i = j
  <2>1. y = ApplySociety(v, Recording("M3", w, new))
    BY <1>14, <1>16, <1>17, <1>19 DEF Applied
  <2>2. /\ World(w) /\ World(new) /\ World(Tick(w)) /\ Grown(Tick(w), new)
        /\ ClosesTo(new, e, Body(w, new), u)
    BY <1>8 DEF CommitsBy
  <2>3. /\ World(y) /\ SameState(y, u) /\ y.chain = u.chain
        /\ y.count = v.count /\ y.log = v.log
        /\ \A a \in Agent : Orderly(v.knowledge, a) /\ Ascends(u.known[a]) => Orderly(y.knowledge, a)
    <3>1. SameState(v, w) /\ v.chain = w.chain /\ World(v)
      BY <1>3, <1>7
    <3>2. QED BY <2>1, <2>2, <3>1, SocietyApplies
  <2>4. PICK z : z = Noted(y, x)
    OBVIOUS
  <2>5. /\ World(z) /\ z.count = y.count + 1 /\ z.chain = y.chain
        /\ z.minute = y.minute /\ z.version = y.version /\ z.known = y.known
        /\ z.knowledge = y.knowledge /\ z.actions = y.actions /\ z.created = y.created
        /\ z.lines = y.lines /\ z.events = y.events
        /\ \A a \in 1 .. y.count : z.log[a] = y.log[a]
        /\ z.log[y.count + 1] = x
    BY <2>3, <2>4, NotedChanges
  <2>6. SameState(z, u)
    BY <2>3, <2>5 DEF SameState
  <2>7. \A a \in 1 .. n + 1 : z.log[a] = Full(h)[a]
    BY <1>3, <2>3, <2>5
  <2>8. h[m + 1].count <= n + 1 /\ (m + 1 # EndMinute => n + 1 < h[(m + 1) + 1].count)
    <3>1. h[m + 1].count = n + 1
      BY <1>7, <1>13, <1>19
    <3>2. ASSUME m + 1 # EndMinute PROVE h[m + 1].count < h[(m + 1) + 1].count
      <4>1. m + 1 \in 0 .. EndMinute /\ (m + 1) + 1 \in 0 .. EndMinute /\ m + 1 < (m + 1) + 1
        BY <1>2, <1>5, <3>2
      <4>2. QED BY <4>1, CursorsRise
    <3>3. QED BY <3>1, <3>2
  <2>8a. Calm(h) => \A a \in Agent : Orderly(z.knowledge, a)
    <3>1. SUFFICES ASSUME Calm(h), NEW a \in Agent PROVE Orderly(z.knowledge, a)
      OBVIOUS
    <3>2. Ascends(u.known[a])
      BY <1>5, <1>7, <3>1, CalmAscends
    <3>3. QED BY <1>3, <2>3, <2>5, <3>1, <3>2
  <2>9. ReachedAt(h, m + 1, n + 1, z)
    BY <1>3, <1>5, <1>7, <2>3, <2>5, <2>6, <2>7, <2>8, <2>8a DEF ReachedAt
  <2>10. y # None
    BY <2>3, Distinct DEF World
  <2>11. QED BY <2>4, <2>9, <2>10 DEF Reached
<1>20. QED BY <1>18, <1>19

(* What is stored is in order.                                             *)
LEMMA CanonicalOrderly ==
  ASSUME NEW cp, World(cp), Canonical(cp) = cp, NEW a
  PROVE  Orderly(cp.knowledge, a)
<1>1. PICK S : S = Range(cp.knowledge)
  OBVIOUS
<1>2. IsFiniteSet(S) /\ S \subseteq Agent \X Nat
  BY <1>1, RecordsFinite
<1>3. cp.knowledge = Sorted(ByKey(S))
  BY <1>1, CanonicalChanges
<1>4. QED BY <1>2, <1>3, SortedOrderly

(* What is reached is the checkpoint stored at its cursor, and a checkpoint *)
(* is reached at its own.                                                  *)
LEMMA CheckpointReached ==
  ASSUME NEW ed, NEW p \in [1 .. EndMinute -> Plots], NEW h, History(ed, p, h),
         NEW cp, Known(h, cp), Canonical(cp) = cp
  PROVE  Reached(h, cp.count, cp)
<1>1. PICK m : m = cp.minute
  OBVIOUS
<1>2. m \in 0 .. EndMinute /\ EndMinute \in Nat /\ World(cp) /\ Alike(cp, h[m])
  BY <1>1, PersistenceConstants DEF Known
<1>3. h[m].count <= cp.count /\ SameState(cp, h[m]) /\ cp.chain = h[m].chain
  <2>1. h[m].count = cp.count /\ cp.count \in Nat
    BY <1>2, Worldly DEF Alike
  <2>2. QED BY <1>2, <2>1 DEF Alike, SameState
<1>4. m # EndMinute => cp.count < h[m + 1].count
  <2>1. SUFFICES ASSUME m # EndMinute PROVE h[m].count < h[m + 1].count
    BY <1>2 DEF Alike
  <2>2. m + 1 \in 0 .. EndMinute /\ m < m + 1
    BY <1>2, <2>1
  <2>3. QED BY <1>2, <2>2, CursorsRise
<1>5. \A i \in 1 .. cp.count : cp.log[i] = Full(h)[i]
  BY KnownLog
<1>6. \A a \in Agent : Orderly(cp.knowledge, a)
  BY <1>2, CanonicalOrderly
<1>7. ReachedAt(h, m, cp.count, cp)
  BY <1>2, <1>3, <1>4, <1>5, <1>6 DEF ReachedAt
<1>8. QED BY <1>7 DEF Reached

LEMMA ReachedCheckpoint ==
  ASSUME NEW ed, NEW p \in [1 .. EndMinute -> Plots], NEW h, History(ed, p, h),
         NEW n \in Nat, NEW v, Reached(h, n, v),
         NEW cp, Known(h, cp), Canonical(cp) = cp, cp.count = n
  PROVE  Canonical(v) = cp /\ v.log = h[cp.minute].log
<1>1. PICK m : ReachedAt(h, m, n, v)
  BY DEF Reached
<1>2. /\ m \in 0 .. EndMinute /\ h[m].count <= n /\ (m # EndMinute => n < h[m + 1].count)
      /\ World(v) /\ SameState(v, h[m]) /\ v.chain = h[m].chain /\ v.count = n
      /\ \A i \in 1 .. n : v.log[i] = Full(h)[i]
  BY <1>1 DEF ReachedAt
<1>3. EndMinute \in Nat /\ EndMinute \in 0 .. EndMinute
  BY PersistenceConstants
<1>4. PICK l : l = cp.minute
  OBVIOUS
<1>5. l \in 0 .. EndMinute /\ World(cp) /\ Alike(cp, h[l])
  BY <1>4 DEF Known
<1>6. h[l].count = n
  BY <1>5 DEF Alike
<1>7. ~(l < m)
  <2>1. l < m => h[l].count < h[m].count
    BY <1>2, <1>5, CursorsRise
  <2>2. h[m].count \in Nat
    BY <1>2, CursorsRise
  <2>3. QED BY <1>2, <1>6, <2>1, <2>2
<1>8. ~(m < l)
  <2>1. SUFFICES ASSUME m < l PROVE FALSE
    OBVIOUS
  <2>2. m # EndMinute /\ m + 1 \in 0 .. EndMinute /\ (m + 1 = l \/ m + 1 < l)
    BY <1>2, <1>3, <1>5, <2>1
  <2>3. m + 1 < l => h[m + 1].count < h[l].count
    BY <1>5, <2>2, CursorsRise
  <2>4. h[m + 1].count \in Nat
    BY <2>2, CursorsRise
  <2>5. QED BY <1>2, <1>6, <2>2, <2>3, <2>4
<1>9. l = m
  BY <1>2, <1>3, <1>5, <1>7, <1>8
<1>10. v.log = h[m].log
  <2>1. PICK s, t : s = v.log /\ t = h[m].log
    OBVIOUS
  <2>2. World(h[m]) /\ GoesOn(h[m], h[EndMinute])
    BY <1>2, <1>3, HistoryGoesOn
  <2>3. s \in Seq(Range(s)) /\ Len(s) = n /\ t \in Seq(Range(t)) /\ Len(t) = n
    BY <1>2, <1>6, <1>9, <2>1, <2>2, Worldly
  <2>4. \A i \in 1 .. n : t[i] = Full(h)[i]
    BY <2>1, <2>2, <2>3 DEF GoesOn, Full
  <2>5. \A i \in 1 .. n : s[i] = t[i]
    BY <1>2, <2>1, <2>4
  <2>6. QED BY <2>1, <2>3, <2>5, SeqEqual
<1>11. Alike(v, cp)
  BY <1>2, <1>5, <1>6, <1>9, <1>10 DEF Alike, SameState
<1>12. QED BY <1>2, <1>4, <1>5, <1>9, <1>10, <1>11, AlikeCanonical

(* check_cursor, as long as what is expected lies ahead.                   *)
Ahead(d, n) == {m \in DOMAIN d.checkpoints : n < d.checkpoints[m].count}
Agreeing(h, d, n, acc) ==
  /\ acc = [cp |-> acc.cp, mismatches |-> {}, expected |-> acc.expected]
  /\ Reached(h, n, acc.cp) /\ acc.cp.count = n /\ acc.expected \subseteq Ahead(d, n)

LEMMA CursorChecked ==
  ASSUME NEW p \in [1 .. EndMinute -> Plots], NEW h, History("M3", p, h),
         NEW d, DirOk("M3", h, d), NEW n \in Nat, NEW cp, Reached(h, n, cp), NEW S,
         S \subseteq DOMAIN d.checkpoints, \A m \in S : n <= d.checkpoints[m].count,
         NEW acc, acc = [cp |-> cp, mismatches |-> {}, expected |-> S]
  PROVE  Agreeing(h, d, n, CheckCursor(acc, d))
<1>1. PICK u : u = CheckCursor(acc, d)
  OBVIOUS
<1>2. acc.cp = cp /\ acc.mismatches = {} /\ acc.expected = S
  OBVIOUS
<1>3. cp.count = n
  BY DEF Reached, ReachedAt
<1>4. PICK H : H = {m \in S : d.checkpoints[m].count = n}
  OBVIOUS
<1>5. {m \in H : d.checkpoints[m] # Canonical(cp)} = {}
  <2>1. SUFFICES ASSUME NEW m \in H PROVE d.checkpoints[m] = Canonical(cp)
    OBVIOUS
  <2>2. m \in DOMAIN d.checkpoints /\ d.checkpoints[m].count = n
    BY <1>4, <2>1
  <2>3. PICK c : c = d.checkpoints[m]
    OBVIOUS
  <2>4. Known(h, c) /\ Canonical(c) = c /\ c.count = n
    BY <2>2, <2>3 DEF DirOk, Holds
  <2>5. QED BY <2>3, <2>4, ReachedCheckpoint
<1>6. u = [cp |-> cp, mismatches |-> {}, expected |-> S \ H]
  BY <1>1, <1>2, <1>3, <1>4, <1>5 DEF CheckCursor
<1>7. \A m \in S \ H : n < d.checkpoints[m].count
  <2>1. SUFFICES ASSUME NEW m \in S \ H PROVE n < d.checkpoints[m].count
    OBVIOUS
  <2>2. PICK c : c = d.checkpoints[m]
    OBVIOUS
  <2>3. n <= c.count /\ c.count # n
    BY <1>4, <2>1, <2>2
  <2>4. Known(h, c)
    BY <2>1, <2>2 DEF DirOk, Holds
  <2>5. c.count \in Nat
    BY <2>4, KnownLog
  <2>6. QED BY <2>2, <2>3, <2>5
<1>8. S \ H \subseteq Ahead(d, n)
  BY <1>7 DEF Ahead
<1>9. Agreeing(h, d, n, u)
  BY <1>3, <1>6, <1>8 DEF Agreeing
<1>10. QED BY <1>1, <1>9

LEMMA CursorMoves ==
  ASSUME NEW v, NEW M, NEW S, NEW z, NEW acc, acc = [cp |-> v, mismatches |-> M, expected |-> S]
  PROVE  [acc EXCEPT !.cp = z] = [cp |-> z, mismatches |-> M, expected |-> S]
OBVIOUS

(* One record of the log, which was read before or is the next.            *)
LEMMA RecordReplayed ==
  ASSUME NEW p \in [1 .. EndMinute -> Plots], NEW h, History("M3", p, h),
         NEW d, DirOk("M3", h, d), NEW n \in Nat, NEW acc, Agreeing(h, d, n, acc),
         NEW j \in 1 .. Len(Full(h)), j <= n + 1, NEW x, x = Full(h)[j],
         NEW u, u = ReplayRecord(acc, x, d)
  PROVE  IF j <= n THEN u = acc ELSE Agreeing(h, d, j, u)
<1>1. x.sequence = j
  BY LogNumbered
<1>2. PICK v, S : v = acc.cp /\ S = acc.expected
  OBVIOUS
<1>3. /\ acc = [cp |-> v, mismatches |-> {}, expected |-> S]
      /\ Reached(h, n, v) /\ v.count = n /\ S \subseteq Ahead(d, n)
  BY <1>2 DEF Agreeing
<1>4. v # None
  BY <1>3, Distinct DEF Reached, ReachedAt, World
<1>5. CASE j <= n
  BY <1>1, <1>2, <1>3, <1>5 DEF ReplayRecord
<1>6. CASE ~(j <= n)
  <2>1. j = n + 1 /\ j \in Nat /\ n < Len(Full(h))
    <3>1. Full(h) \in Seq(Range(Full(h)))
      BY FreshIsKnown, KnownLog
    <3>2. Len(Full(h)) \in Nat
      BY <3>1, LenProperties
    <3>3. QED BY <1>6, <3>2
  <2>2. PICK y, z : y = Applied(v, x) /\ z = Noted(y, x)
    OBVIOUS
  <2>3. y # None /\ Reached(h, j, z)
    BY <1>3, <2>1, <2>2, ReachedNext
  <2>4. PICK a : a = [cp |-> z, mismatches |-> {}, expected |-> S]
    OBVIOUS
  <2>5. u = CheckCursor(a, d)
    <3>1. ~(acc.cp = None \/ x.sequence <= acc.cp.count) /\ x.sequence = acc.cp.count + 1
      BY <1>1, <1>2, <1>3, <1>4, <1>6, <2>1
    <3>2. [acc EXCEPT !.cp = z] = a
      <4>1. acc = [cp |-> v, mismatches |-> {}, expected |-> S]
        BY <1>3
      <4>2. PICK M : M = {}
        OBVIOUS
      <4>3. acc = [cp |-> v, mismatches |-> M, expected |-> S]
        BY <4>1, <4>2
      <4>4. [acc EXCEPT !.cp = z] = [cp |-> z, mismatches |-> M, expected |-> S]
        BY <4>3, CursorMoves
      <4>5. QED BY <2>4, <4>2, <4>4
    <3>3. y = IF x.kind = "transaction" THEN ApplySociety(acc.cp, x.payload) ELSE acc.cp
      BY <1>2, <2>2 DEF Applied
    <3>4. z = [y EXCEPT !.count = @ + 1, !.log = Append(@, x)]
      BY <2>2 DEF Noted
    <3>5. QED BY <2>3, <3>1, <3>2, <3>3, <3>4 DEF ReplayRecord
  <2>6. S \subseteq DOMAIN d.checkpoints /\ \A m \in S : j <= d.checkpoints[m].count
    <3>1. SUFFICES ASSUME NEW m \in S PROVE m \in DOMAIN d.checkpoints /\ j <= d.checkpoints[m].count
      OBVIOUS
    <3>2. m \in DOMAIN d.checkpoints /\ n < d.checkpoints[m].count
      BY <1>3, <3>1 DEF Ahead
    <3>3. PICK c : c = d.checkpoints[m]
      OBVIOUS
    <3>4. Known(h, c)
      BY <3>2, <3>3 DEF DirOk, Holds
    <3>5. c.count \in Nat
      BY <3>4, KnownLog
    <3>6. QED BY <2>1, <3>2, <3>3, <3>5
  <2>7. Agreeing(h, d, j, u)
    BY <2>1, <2>3, <2>4, <2>5, <2>6, CursorChecked
  <2>8. QED BY <1>6, <2>7
<1>7. QED BY <1>5, <1>6

(* What a summary says, once there is one, and where a log begins.         *)
Summed(ed, h, d) ==
  d.summary # None =>
    /\ d.final # None /\ d.final.minute = EndMinute
    /\ d.first + Len(d.log) = Len(Full(h))
    /\ d.summary = IF ed = "M3" THEN [final |-> d.final, log |-> Full(h)]
                   ELSE [final |-> Public(h[EndMinute]), log |-> [k \in Kinds |-> OfKind(Full(h), k)]]
Settled(ed, h, d) ==
  /\ ed = "M1" => d.first = 0
  /\ d.initial # None => d.initial.count = d.first
  /\ Summed(ed, h, d)

(* Replaying the log of a directory from a checkpoint stored beside it.    *)
LEMMA LogReplayed ==
  ASSUME NEW p \in [1 .. EndMinute -> Plots], NEW h, History("M3", p, h),
         NEW d, DirOk("M3", h, d), NEW n \in Nat, d.first <= n, n <= d.first + Len(d.log),
         NEW acc, Agreeing(h, d, n, acc)
  PROVE  Agreeing(h, d, d.first + Len(d.log), Rebuilding(d, acc, d.log))
<1>1. PICK f, q, l : f = d.first /\ q = d.log /\ l = Len(d.log)
  OBVIOUS
<1>2. f \in Nat /\ q \in Seq(Range(q)) /\ l = Len(q) /\ f + l <= Len(Full(h))
      /\ \A i \in 1 .. l : q[i] = Full(h)[f + i]
  BY <1>1 DEF DirOk, Recorded
<1>3. l \in Nat /\ DOMAIN q = 1 .. l
  BY <1>2, LenProperties
<1>4. PICK st : Trace(st, ReplayKey(d), acc, q, l) /\ Rebuilding(d, acc, q) = st[l]
  BY <1>3, ReplayFold
<1>5. Len(Full(h)) \in Nat
  BY FreshIsKnown, KnownLog
<1> DEFINE Pos(i) == IF f + i <= n THEN n ELSE f + i
<1> DEFINE T == {i \in 0 .. l : Agreeing(h, d, Pos(i), st[i])}
<1>6. 0 \in T
  <2>1. st[0] = acc /\ Pos(0) = n /\ 0 \in 0 .. l
    BY <1>1, <1>2, <1>3, <1>4 DEF Trace
  <2>2. QED BY <2>1
<1>7. ASSUME NEW i \in 0 .. l, i # l, i \in T PROVE i + 1 \in T
  <2>1. i + 1 \in 1 .. l /\ i + 1 \in 0 .. l /\ (i + 1) - 1 = i
    BY <1>3, <1>7
  <2>2. PICK a, x, u, j, k : a = st[i] /\ x = q[i + 1] /\ u = st[i + 1] /\ j = f + (i + 1) /\ k = Pos(i)
    OBVIOUS
  <2>3. u = ReplayRecord(a, x, d)
    BY <1>4, <2>1, <2>2, Keys DEF Trace
  <2>4. x = Full(h)[j]
    BY <1>2, <2>1, <2>2
  <2>5. j \in 1 .. Len(Full(h)) /\ k \in Nat /\ j <= k + 1
    BY <1>2, <1>3, <1>5, <2>1, <2>2
  <2>6. Agreeing(h, d, k, a)
    BY <1>7, <2>2
  <2>7. IF j <= k THEN u = a ELSE Agreeing(h, d, j, u)
    BY <2>3, <2>4, <2>5, <2>6, RecordReplayed
  <2>8. IF j <= k THEN Pos(i + 1) = k ELSE Pos(i + 1) = j
    BY <1>2, <1>3, <2>1, <2>2
  <2>9. Agreeing(h, d, Pos(i + 1), u)
    <3>1. CASE j <= k
      BY <2>6, <2>7, <2>8, <3>1
    <3>2. CASE ~(j <= k)
      BY <2>7, <2>8, <3>2
    <3>3. QED BY <3>1, <3>2
  <2>10. QED BY <2>1, <2>2, <2>9
<1>8. \A i \in 0 .. l : i \in T
  <2> HIDE DEF T, Pos
  <2> QED BY <1>3, <1>6, <1>7, StepByStep
<1>9. l \in 0 .. l /\ Pos(l) = f + l
  BY <1>1, <1>2, <1>3
<1>10. Agreeing(h, d, f + l, st[l])
  <2>1. Agreeing(h, d, Pos(l), st[l])
    BY <1>8, <1>9
  <2> HIDE DEF Pos
  <2>2. QED BY <1>9, <2>1
<1>11. QED BY <1>1, <1>4, <1>10

(* The final checkpoint is accepted as long as what is known in the end     *)
(* ascends.                                                                *)
LEMMA FinalAccepted ==
  ASSUME NEW h, NEW c, Known(h, c), Canonical(c) = c, c.minute = EndMinute
  PROVE  Accepted(c) <=> Calm(h)
<1>1. World(c) /\ c.known = h[EndMinute].known
  BY DEF Known, Alike
<1>2. \A a \in Agent : Orderly(c.knowledge, a)
  BY <1>1, CanonicalOrderly
<1>3. Accepted(c) <=> \A a \in Agent : Ascends(c.known[a])
  BY <1>1, <1>2, AcceptedAscends
<1>4. QED BY <1>1, <1>3 DEF Calm

LEMMA SocietyVerified ==
  ASSUME NEW p \in [1 .. EndMinute -> Plots], NEW h, History("M3", p, h),
         NEW d, DirOk("M3", h, d), Settled("M3", h, d), d.summary # None,
         NEW from \in Stored(d)
  PROVE  \/ VerifySociety(d, from) = "match"
         \/ VerifySociety(d, from) = "invariants" /\ ~Accepted(d.final)
<1>1. Holds(h, d.first, d.log, from)
  BY StoredIsKnown
<1>2. PICK n, c, f, l : n = from.count /\ c = d.final /\ f = d.first /\ l = Len(d.log)
  OBVIOUS
<1>3. Known(h, from) /\ Canonical(from) = from /\ f <= n /\ n <= f + l
  BY <1>1, <1>2 DEF Holds
<1>4. n \in Nat /\ Reached(h, n, from)
  BY <1>2, <1>3, KnownLog, CheckpointReached
<1>5. /\ c # None /\ c.minute = EndMinute /\ f + l = Len(Full(h))
      /\ d.summary = [final |-> c, log |-> Full(h)]
  BY <1>2 DEF Settled, Summed
<1>6. Known(h, c) /\ Canonical(c) = c
  BY <1>2, <1>5 DEF DirOk, Holds
<1>7. c.count = f + l /\ f + l \in Nat
  <2>1. EndMinute \in 0 .. EndMinute
    BY PersistenceConstants
  <2>2. h[EndMinute].count = Len(Full(h)) /\ h[EndMinute].count \in Nat
    BY <2>1, CursorsRise DEF Full
  <2>3. QED BY <1>5, <1>6, <2>2 DEF Known, Alike
<1>8. PICK S : S = IF from = d.initial THEN DOMAIN d.checkpoints ELSE {}
  OBVIOUS
<1>9. S \subseteq DOMAIN d.checkpoints /\ \A m \in S : n <= d.checkpoints[m].count
  <2>1. SUFFICES ASSUME from = d.initial, NEW m \in DOMAIN d.checkpoints
                 PROVE  n <= d.checkpoints[m].count
    BY <1>8
  <2>2. Holds(h, d.first, d.log, d.checkpoints[m])
    BY <2>1 DEF DirOk
  <2>3. from # None
    BY <1>3, Distinct DEF Known, World
  <2>4. n = d.first
    BY <1>2, <2>1, <2>3 DEF Settled
  <2>5. QED BY <2>2, <2>4 DEF Holds
<1>10. PICK a, s : a = [cp |-> from, mismatches |-> {}, expected |-> S] /\ s = CheckCursor(a, d)
  OBVIOUS
<1>11. Agreeing(h, d, n, s)
  BY <1>4, <1>9, <1>10, CursorChecked
<1>12. PICK e : e = Rebuilding(d, s, d.log)
  OBVIOUS
<1>13. Agreeing(h, d, f + l, e)
  BY <1>2, <1>3, <1>4, <1>11, <1>12, LogReplayed
<1>14. /\ e = [cp |-> e.cp, mismatches |-> {}, expected |-> e.expected]
       /\ Reached(h, f + l, e.cp) /\ e.expected \subseteq Ahead(d, f + l)
  BY <1>13 DEF Agreeing
<1>15. Canonical(e.cp) = c /\ e.cp.log = Full(h)
  <2>1. PICK v, k : v = e.cp /\ k = f + l
    OBVIOUS
  <2>2. k \in Nat /\ Reached(h, k, v) /\ c.count = k
    BY <1>7, <1>14, <2>1
  <2>3. Canonical(v) = c /\ v.log = h[c.minute].log
    BY <1>6, <2>2, ReachedCheckpoint
  <2>4. QED BY <1>5, <2>1, <2>3 DEF Full
<1>16. e.expected = {} /\ e.mismatches = {}
  <2>1. Ahead(d, f + l) = {}
    <3>1. SUFFICES ASSUME NEW m \in Ahead(d, f + l) PROVE FALSE
      OBVIOUS
    <3>2. PICK b : b = d.checkpoints[m]
      OBVIOUS
    <3>3. Holds(h, f, d.log, b) /\ f + l < b.count
      BY <1>2, <3>1, <3>2 DEF Ahead, DirOk
    <3>4. Known(h, b) /\ b.count <= f + l
      BY <1>2, <3>3 DEF Holds
    <3>5. b.count \in Nat
      BY <3>4, KnownLog
    <3>6. QED BY <1>7, <3>3, <3>4, <3>5
  <2>2. QED BY <1>14, <2>1
<1>17. e.cp # None
  BY <1>14, Distinct DEF Reached, ReachedAt, World
<1>18. VerifySociety(d, from) = IF ~Accepted(e.cp) THEN "invariants" ELSE "match"
  <2>1. /\ Canonical(e.cp) = d.final /\ d.final = d.summary.final
        /\ e.cp.log = d.summary.log /\ e.mismatches \cup e.expected = {}
    BY <1>2, <1>5, <1>15, <1>16
  <2>2. QED BY <1>8, <1>10, <1>12, <1>17, <2>1 DEF VerifySociety, Rebuilding, Compared
<1>19. ASSUME Accepted(c) PROVE Accepted(e.cp)
  <2>1. PICK v, k : v = e.cp /\ k = f + l
    OBVIOUS
  <2>2. Calm(h)
    BY <1>5, <1>6, <1>19, FinalAccepted
  <2>3. World(v) /\ \A b \in Agent : Orderly(v.knowledge, b)
    BY <1>14, <2>1, <2>2 DEF Reached, ReachedAt
  <2>4. v.known = c.known
    BY <1>15, <2>1, <2>3, CanonicalChanges
  <2>5. World(c) /\ c.known = h[EndMinute].known
    BY <1>5, <1>6 DEF Known, Alike
  <2>6. \A b \in Agent : Ascends(v.known[b])
    BY <2>2, <2>4, <2>5 DEF Calm
  <2>7. QED BY <2>1, <2>3, <2>6, AcceptedAscends
<1>20. QED BY <1>2, <1>18, <1>19

-----------------------------------------------------------------------------
(* Replaying the transactions of M1.                                       *)

(* x records the commit of minute i.                                       *)
CommitOf(ed, h, i, x) ==
  \E new, e, c, n, l : /\ CommitsBy(ed, h[i - 1], h[i], new, e, c, n, l)
                       /\ x.payload = Recording(ed, h[i - 1], new)

(* The logs by kind of the history up to a minute.                         *)
KindsOf(ed, h, m) ==
  /\ List(OfKind(h[m].log, "transaction"), m)
  /\ \A i \in 1 .. m : CommitOf(ed, h, i, OfKind(h[m].log, "transaction")[i])
  /\ List(OfKind(h[m].log, "event"), Len(h[m].events))

LEMMA CommitKinds ==
  ASSUME NEW ed, NEW w, NEW u, NEW new, NEW e, NEW c, NEW n, NEW l,
         CommitsBy(ed, w, u, new, e, c, n, l)
  PROVE  /\ List(OfKind(e, "transaction"), 1)
         /\ OfKind(e, "transaction")[1].payload = Recording(ed, w, new)
         /\ List(OfKind(e, "event"), n)
<1>1. c \in Nat /\ n \in Nat /\ l \in Nat /\ EmittedAs(e, c, n, l, Recording(ed, w, new))
  BY DEF CommitsBy
<1>2. PICK k, a, b, r : k = c + c + n + l + 1 /\ a = c + c /\ b = c + c + n /\ r = Recording(ed, w, new)
  OBVIOUS
<1>3. /\ k \in Nat /\ a \in Nat /\ b \in Nat /\ a <= b /\ b <= k /\ b - a = n
      /\ k - 1 \in Nat /\ k - 1 <= k /\ k - (k - 1) = 1 /\ (k - 1) + 1 = k
  <2>1. \A x1, x2, x3 \in Nat :
          /\ x1 + x1 + x2 + x3 + 1 \in Nat /\ x1 + x1 \in Nat /\ x1 + x1 + x2 \in Nat
          /\ x1 + x1 <= x1 + x1 + x2 /\ x1 + x1 + x2 <= x1 + x1 + x2 + x3 + 1
          /\ (x1 + x1 + x2) - (x1 + x1) = x2
          /\ (x1 + x1 + x2 + x3 + 1) - 1 \in Nat
    OBVIOUS
  <2>2. /\ k \in Nat /\ a \in Nat /\ b \in Nat /\ a <= b /\ b <= k /\ b - a = n /\ k - 1 \in Nat
    BY <1>1, <1>2, <2>1, Zenon
  <2>3. QED BY <2>2
<1>4. EmittedAs(e, c, n, l, r) /\ k = c + c + n + l + 1 /\ a = c + c /\ b = c + c + n
  BY <1>1, <1>2
<1>5. /\ List(e, k)
      /\ \A i \in 1 .. k : /\ e[i].kind = "event" <=> i \in a + 1 .. b
                           /\ e[i].kind = "transaction" <=> i = k
      /\ e[k].payload = r
  BY <1>4, Zenon DEF EmittedAs
<1>6. e \in Seq(Range(e)) /\ k = Len(e)
  BY <1>5 DEF List
<1>7. /\ OfKind(e, "event") \in Seq(Range(e)) /\ Len(OfKind(e, "event")) = b - a
  <2>1. PICK kind : kind = "event"
    OBVIOUS
  <2>2. \A i \in 1 .. k : e[i].kind = kind <=> i \in a + 1 .. b
    BY <1>5, <2>1
  <2>3. Block(e, k, kind, a, b)
    BY <1>3, <1>5, <2>2 DEF Block
  <2>4. BlockIn(OfKind(e, kind), e, a, b - a)
    BY <2>3, BlockOfKind
  <2>5. QED BY <2>1, <2>4 DEF BlockIn
<1>8. /\ OfKind(e, "transaction") \in Seq(Range(e)) /\ Len(OfKind(e, "transaction")) = 1
      /\ OfKind(e, "transaction")[1] = e[k]
  <2>1. PICK kind, lo : kind = "transaction" /\ lo = k - 1
    OBVIOUS
  <2>2. lo \in Nat /\ lo <= k /\ k <= k /\ k - lo = 1 /\ lo + 1 = k
    BY <1>3, <2>1
  <2>3. \A i \in 1 .. k : e[i].kind = kind <=> i \in lo + 1 .. k
    BY <1>3, <1>5, <2>1, <2>2
  <2>4. Block(e, k, kind, lo, k)
    BY <1>3, <1>5, <2>2, <2>3 DEF Block
  <2>4a. BlockIn(OfKind(e, kind), e, lo, k - lo)
    BY <2>4, BlockOfKind
  <2>5. /\ OfKind(e, kind) \in Seq(Range(e)) /\ Len(OfKind(e, kind)) = k - lo
        /\ \A i \in 1 .. k - lo : OfKind(e, kind)[i] = e[lo + i]
    BY <2>4a DEF BlockIn
  <2>6. 1 \in 1 .. k - lo /\ k - lo = 1 /\ lo + 1 = k
    BY <2>2
  <2>7. OfKind(e, kind)[1] = e[k]
    BY <2>5, <2>6
  <2>8. QED BY <2>1, <2>5, <2>6, <2>7
<1>9. \A s, S : s \in Seq(S) => s \in Seq(Range(s))
  BY SeqOfRange
<1>10. QED BY <1>1, <1>2, <1>3, <1>5, <1>7, <1>8, <1>9 DEF List

LEMMA HistoryKinds ==
  ASSUME NEW ed, NEW p \in [1 .. EndMinute -> Plots], NEW h, History(ed, p, h)
  PROVE  KindsOf(ed, h, EndMinute)
<1>1. EndMinute \in Nat
  BY PersistenceConstants
<1> DEFINE S == {m \in 0 .. EndMinute : KindsOf(ed, h, m)}
<1>2. 0 \in S
  <2>1. h[0].log = <<>> /\ h[0].events = <<>>
    BY DEF History, Fresh
  <2>2. OfKind(<<>>, "transaction") = <<>> /\ OfKind(<<>>, "event") = <<>>
    BY NothingOfKind
  <2>3. PICK z : z = <<>>
    OBVIOUS
  <2>4. List(z, 0) /\ Len(z) = 0
    BY <2>3, EmptySeq DEF List
  <2>5. KindsOf(ed, h, 0)
    BY <2>1, <2>2, <2>3, <2>4 DEF KindsOf
  <2>6. QED BY <1>1, <2>5
<1>3. ASSUME NEW m \in 0 .. EndMinute, m # EndMinute, m \in S PROVE m + 1 \in S
  <2>1. PICK new, e, c, n, l : CommitsBy(ed, h[m], h[m + 1], new, e, c, n, l)
    BY <1>3, HistoryCommits
  <2>2. PICK w, u, k : w = h[m] /\ u = h[m + 1] /\ k = c + c + n + l + 1
    OBVIOUS
  <2>3. CommitsBy(ed, w, u, new, e, c, n, l)
    BY <2>1, <2>2
  <2>4. LogOf(w, u, e, k)
    BY <2>2, <2>3, CommitLog
  <2>5. u.log = w.log \o e /\ List(e, k)
    BY <2>4 DEF LogOf
  <2>6. PICK s : s = w.log
    OBVIOUS
  <2>7. s \in Seq(Range(s)) /\ e \in Seq(Range(e))
    BY <2>3, <2>5, <2>6, Worldly DEF CommitsBy, List
  <2>8. \A kind : OfKind(u.log, kind) = OfKind(w.log, kind) \o OfKind(e, kind)
    BY <2>5, <2>6, <2>7, KindsJoin
  <2>9. PICK ta, tb, tc, ea, eb, ec :
          /\ ta = OfKind(w.log, "transaction") /\ tb = OfKind(e, "transaction")
          /\ tc = OfKind(u.log, "transaction")
          /\ ea = OfKind(w.log, "event") /\ eb = OfKind(e, "event") /\ ec = OfKind(u.log, "event")
    OBVIOUS
  <2>10. /\ List(ta, m) /\ \A i \in 1 .. m : CommitOf(ed, h, i, ta[i])
         /\ List(ea, Len(w.events))
    BY <1>3, <2>2, <2>9 DEF KindsOf
  <2>11. List(tb, 1) /\ tb[1].payload = Recording(ed, w, new) /\ List(eb, n)
    BY <2>3, <2>9, CommitKinds
  <2>12. tc = ta \o tb /\ ec = ea \o eb
    BY <2>8, <2>9
  <2>13. JoinOf(ec, ea, Len(w.events), eb, n)
    BY <2>10, <2>11, <2>12, Join
  <2>14. Len(u.events) = Len(w.events) + n
    BY <2>3 DEF CommitsBy
  <2>15. List(ec, Len(u.events))
    BY <2>13, <2>14 DEF JoinOf
  <2>16. PICK one : one = 1
    OBVIOUS
  <2>17. JoinOf(tc, ta, m, tb, one)
    BY <2>10, <2>11, <2>12, <2>16, Join
  <2>18. List(tc, m + 1)
    BY <2>16, <2>17 DEF JoinOf
  <2>19. ASSUME NEW i \in 1 .. m + 1 PROVE CommitOf(ed, h, i, tc[i])
    <3>1. \/ i \in 1 .. m /\ tc[i] = ta[i]
          \/ \E j \in 1 .. one : i = m + j /\ tc[i] = tb[j]
      BY <2>16, <2>17 DEF JoinOf
    <3>2. CASE i \in 1 .. m /\ tc[i] = ta[i]
      BY <2>10, <3>2
    <3>3. CASE \E j \in 1 .. one : i = m + j /\ tc[i] = tb[j]
      <4>1. i = m + 1 /\ i - 1 = m /\ tc[i] = tb[1]
        BY <1>1, <2>16, <3>3
      <4>2. QED BY <2>1, <2>2, <2>11, <4>1 DEF CommitOf
    <3>4. QED BY <3>1, <3>2, <3>3
  <2>20. KindsOf(ed, h, m + 1)
    BY <2>2, <2>9, <2>15, <2>18, <2>19 DEF KindsOf
  <2>21. m + 1 \in 0 .. EndMinute
    BY <1>1, <1>3
  <2>22. QED BY <2>20, <2>21
<1>4. \A m \in 0 .. EndMinute : m \in S
  <2> HIDE DEF S
  <2> QED BY <1>1, <1>2, <1>3, StepByStep
<1>5. QED BY <1>1, <1>4

LEMMA TownApplies ==
  ASSUME NEW v, World(v), NEW w, World(w), SameState(v, w),
         NEW new, World(new), World(Tick(w)), Grown(Tick(w), new),
         NEW u, NEW e, ClosesTo(new, e, Body(w, new), u),
         NEW r, r.payload = Recording("M1", w, new),
         NEW x, x = TownRecord(v, r)
  PROVE  World(x) /\ SameState(x, u)
<1>1. PICK t, b, s : t = Tick(w) /\ b = Body(w, new) /\ s = Recording("M1", w, new)
  OBVIOUS
<1>2. PICK z : z = [new EXCEPT !.version = w.version + 1]
  OBVIOUS
<1>3. s.body = b /\ s.previous = Public(w) /\ s.next = Public(z)
  BY <1>1, <1>2 DEF Recording
<1>4. b.id = w.version + 1 /\ b.expected = w.version /\ b.patch = Patch(w, new)
  BY <1>1 DEF Body
<1>5. PICK y : y = Patched(v, Patch(w, new))
  OBVIOUS
<1>6. /\ World(y) /\ y.version = w.version + 1 /\ y.minute = new.minute /\ y.known = new.known
      /\ Range(y.knowledge) = Range(new.knowledge) /\ y.actions = new.actions
      /\ y.created = new.created /\ y.lines = new.lines /\ y.events = new.events
  BY <1>5, PatchRestores
<1>7. Public(v) = Public(w)
  BY DEF Public, SameState
<1>8. Public(z) = Public(y)
  <2>1. Shape(new)
    BY DEF World
  <2>2. /\ z.minute = new.minute /\ z.version = w.version + 1 /\ z.known = new.known
        /\ z.actions = new.actions /\ z.events = new.events
    BY <1>2, <2>1 DEF Shape
  <2>3. QED BY <1>6, <2>2 DEF Public
<1>9. v # None
  BY Distinct DEF World
<1>10. v.version = w.version
  BY DEF SameState
<1>11. x = ApplyTown(v, s)
  BY <1>1, <1>3, <1>4, <1>9, <1>10 DEF TownRecord
<1>12. x = y
  BY <1>3, <1>4, <1>5, <1>7, <1>8, <1>10, <1>11 DEF ApplyTown
<1>13. t.version = w.version
  BY <1>1, TickChanges
<1>14. new.version = w.version
  BY <1>1, <1>13 DEF Grown
<1>15. /\ u.minute = new.minute /\ u.version = new.version + 1 /\ u.known = new.known
       /\ u.knowledge = new.knowledge /\ u.actions = new.actions
       /\ u.created = new.created /\ u.lines = new.lines /\ u.events = new.events
  BY DEF ClosesTo
<1>16. SameState(y, u)
  BY <1>6, <1>14, <1>15 DEF SameState
<1>17. QED BY <1>6, <1>12, <1>16

(* Replaying the transactions of a whole log gives the state of the last    *)
(* minute.                                                                 *)
LEMMA TownReplayed ==
  ASSUME NEW p \in [1 .. EndMinute -> Plots], NEW h, History("M1", p, h),
         NEW q, q = OfKind(Full(h), "transaction"),
         NEW v, v = FoldLeft(TownRecord, Fresh, q)
  PROVE  World(v) /\ SameState(v, h[EndMinute])
<1>1. EndMinute \in Nat
  BY PersistenceConstants
<1>2. List(q, EndMinute) /\ \A i \in 1 .. EndMinute : CommitOf("M1", h, i, q[i])
  BY HistoryKinds DEF KindsOf, Full
<1>3. DOMAIN q = 1 .. EndMinute
  BY <1>2, LenProperties DEF List
<1>4. PICK w : w = Fresh
  OBVIOUS
<1>5. PICK st : Trace(st, TownKey, w, q, EndMinute) /\ v = st[EndMinute]
  BY <1>1, <1>3, <1>4, TownFold
<1> DEFINE S == {i \in 0 .. EndMinute : World(st[i]) /\ SameState(st[i], h[i])}
<1>6. 0 \in S
  <2>1. st[0] = w /\ h[0] = w /\ World(w)
    BY <1>4, <1>5, FreshIsWorld DEF Trace, History
  <2>2. SameState(st[0], h[0])
    BY <2>1 DEF SameState
  <2>3. QED BY <1>1, <2>1, <2>2
<1>7. ASSUME NEW i \in 0 .. EndMinute, i # EndMinute, i \in S PROVE i + 1 \in S
  <2>1. i + 1 \in 1 .. EndMinute /\ i + 1 \in 0 .. EndMinute /\ (i + 1) - 1 = i
    BY <1>1, <1>7
  <2>2. PICK a, r, x, b, u : a = st[i] /\ r = q[i + 1] /\ x = st[i + 1] /\ b = h[i] /\ u = h[i + 1]
    OBVIOUS
  <2>3. x = TownRecord(a, r)
    BY <1>5, <2>1, <2>2, Keys DEF Trace
  <2>4. World(a) /\ SameState(a, b)
    BY <1>7, <2>2
  <2>5. PICK new, e, c, n, l : CommitsBy("M1", b, u, new, e, c, n, l) /\ r.payload = Recording("M1", b, new)
    BY <1>2, <2>1, <2>2 DEF CommitOf
  <2>6. /\ World(b) /\ World(new) /\ World(Tick(b)) /\ Grown(Tick(b), new)
        /\ ClosesTo(new, e, Body(b, new), u)
    BY <2>5 DEF CommitsBy
  <2>7. World(x) /\ SameState(x, u)
    BY <2>3, <2>4, <2>5, <2>6, TownApplies
  <2>8. QED BY <2>1, <2>2, <2>7
<1>8. \A i \in 0 .. EndMinute : i \in S
  <2> HIDE DEF S
  <2> QED BY <1>1, <1>6, <1>7, StepByStep
<1>9. QED BY <1>1, <1>5, <1>8

LEMMA TownVerified ==
  ASSUME NEW p \in [1 .. EndMinute -> Plots], NEW h, History("M1", p, h),
         NEW d, DirOk("M1", h, d), Settled("M1", h, d), d.summary # None
  PROVE  VerifyTown(d) = "match"
<1>1. PICK c, q, w : c = d.final /\ q = d.log /\ w = Full(h)
  OBVIOUS
<1>2. /\ c # None /\ c.minute = EndMinute /\ d.first = 0 /\ d.first + Len(q) = Len(w)
      /\ d.summary = [final |-> Public(h[EndMinute]), log |-> [k \in Kinds |-> OfKind(w, k)]]
  BY <1>1 DEF Settled, Summed
<1>3. q = w
  <2>1. q \in Seq(Range(q)) /\ \A i \in 1 .. Len(q) : q[i] = w[d.first + i]
    BY <1>1 DEF DirOk, Recorded
  <2>2. w \in Seq(Range(w))
    BY <1>1, FreshIsKnown, KnownLog
  <2>3. Len(q) \in Nat
    BY <2>1, LenProperties
  <2>4. Len(q) = Len(w) /\ \A i \in 1 .. Len(q) : q[i] = w[i]
    BY <1>2, <2>1, <2>3
  <2>5. QED BY <2>1, <2>2, <2>4, SeqEqual
<1>4. d.files = [k \in Kinds |-> OfKind(w, k)]
  BY <1>1, <1>3 DEF DirOk
<1>5. d.files["transaction"] = OfKind(w, "transaction") /\ d.files["event"] = OfKind(w, "event")
  BY <1>4 DEF Kinds
<1>6. PICK v : v = FoldLeft(TownRecord, Fresh, d.files["transaction"])
  OBVIOUS
<1>7. World(v) /\ SameState(v, h[EndMinute])
  BY <1>1, <1>5, <1>6, TownReplayed
<1>8. Len(v.events) = Len(d.files["event"])
  <2>1. KindsOf("M1", h, EndMinute)
    BY HistoryKinds
  <2>2. Len(OfKind(w, "event")) = Len(h[EndMinute].events)
    BY <1>1, <2>1 DEF KindsOf, Full, List
  <2>3. QED BY <1>5, <1>7, <2>2 DEF SameState
<1>9. Public(v) = Public(h[EndMinute])
  BY <1>7 DEF Public, SameState
<1>10. Public(c) = Public(h[EndMinute])
  <2>1. Known(h, c)
    BY <1>1, <1>2 DEF DirOk, Holds
  <2>2. Alike(c, h[EndMinute])
    BY <1>2, <2>1 DEF Known
  <2>3. QED BY <2>2 DEF Public, Alike
<1>11. v # None
  BY <1>7, Distinct DEF World
<1>12. /\ Public(v) = d.summary.final /\ d.files = d.summary.log
       /\ Public(v) = Public(d.final)
  BY <1>1, <1>2, <1>4, <1>9, <1>10
<1>13. QED BY <1>6, <1>8, <1>11, <1>12 DEF VerifyTown, TownRecord, Compared

-----------------------------------------------------------------------------
(* What a summary says stays true.                                         *)

(* Nothing is written before the initial checkpoint, and the summary comes  *)
(* last.                                                                   *)
Unsummed(pr, d) ==
  (pr.at = "initial" => Len(d.log) = 0) /\ (pr.at # "metadata" => d.summary = None)

Accounted(ed, h, dk, pr) ==
  /\ \A r \in Run : dk[r] # None => Settled(ed, h, dk[r])
  /\ pr # None => Unsummed(pr, dk[pr.run])
Ready(h) == Seeded(h) /\ Accounted(edition, h, disk, proc)

(* What is known of a process that runs.                                   *)
LEMMA Writing ==
  ASSUME NEW h, Ready(h), proc # None
  PROVE  /\ DirShape(Dir) /\ Settled(edition, h, Dir) /\ Unsummed(proc, Dir)
         /\ proc.run \in Run /\ disk = [r \in Run |-> disk[r]]
         /\ proc = [run |-> proc.run, at |-> proc.at, chunk |-> proc.chunk, cp |-> proc.cp,
                    pending |-> proc.pending]
<1>1. Seeded(h) /\ Accounted(edition, h, disk, proc)
  BY DEF Ready
<1>2. DirOk(edition, h, Dir) /\ WriterOk(edition, h, proc, Dir) /\ proc.run \in Run
  BY <1>1, Running
<1>3. disk[proc.run] # None /\ disk = [r \in Run |-> disk[r]]
  BY <1>1 DEF Seeded, Sound, Typing
<1>4. QED BY <1>1, <1>2, <1>3 DEF Accounted, DirOk, WriterOk, Dir

LEMMA Resettled ==
  ASSUME NEW h, Ready(h), proc # None, NEW e, disk' = [disk EXCEPT ![proc.run] = e],
         Settled(edition, h, e), proc' # None => proc'.run = proc.run /\ Unsummed(proc', e)
  PROVE  Accounted(edition, h, disk', proc')
<1>1. proc.run \in Run /\ disk = [r \in Run |-> disk[r]]
  BY Writing
<1>2. disk'[proc.run] = e /\ \A r \in Run : r # proc.run => disk'[r] = disk[r]
  BY <1>1
<1>3. \A r \in Run : disk'[r] # None => Settled(edition, h, disk'[r])
  BY <1>2 DEF Ready, Accounted
<1>4. QED BY <1>2, <1>3 DEF Accounted

(* As long as there is no summary.                                         *)
LEMMA StillOpen ==
  ASSUME NEW h, NEW d, Settled(edition, h, d), NEW e, e.first = d.first, e.summary = None,
         e.initial = d.initial \/ e.initial.count = d.first
  PROVE  Settled(edition, h, e)
BY DEF Settled, Summed

LEMMA UnwrittenAccounted ==
  ASSUME NEW h, Ready(h), UNCHANGED disk,
         proc' # None => /\ proc # None /\ proc'.run = proc.run
                         /\ proc.at # "metadata" /\ proc'.at # "initial"
  PROVE  Accounted(edition, h, disk', proc')
<1>1. \A r \in Run : disk'[r] # None => Settled(edition, h, disk'[r])
  BY DEF Ready, Accounted
<1>2. ASSUME proc' # None PROVE Unsummed(proc', disk'[proc'.run])
  BY <1>2 DEF Ready, Accounted, Unsummed
<1>3. QED BY <1>1, <1>2 DEF Accounted

LEMMA OpenAccounted ==
  ASSUME NEW h, Ready(h), NEW cp, NEW chunk, Open(cp, chunk), edition = "M1" => cp.count = 0
  PROVE  Accounted(edition, h, disk', proc')
<1>1. PICK r \in Run :
        /\ proc = None /\ disk[r] = None
        /\ disk' = [disk EXCEPT ![r] = Directory("IN_PROGRESS", cp.count)]
        /\ proc' = [run |-> r, at |-> "initial", chunk |-> chunk, cp |-> cp, pending |-> <<>>]
  BY DEF Open
<1>2. disk = [s \in Run |-> disk[s]]
  BY DEF Ready, Seeded, Typing
<1>3. PICK d, z : d = Directory("IN_PROGRESS", cp.count) /\ z = <<>>
  OBVIOUS
<1>4. disk'[r] = d /\ \A s \in Run : s # r => disk'[s] = disk[s]
  BY <1>1, <1>2, <1>3
<1>5. d.first = cp.count /\ d.initial = None /\ d.summary = None /\ d.log = z /\ Len(z) = 0
  BY <1>3, EmptySeq DEF Directory
<1>6. Settled(edition, h, d)
  BY <1>5 DEF Settled, Summed
<1>7. \A s \in Run : disk'[s] # None => Settled(edition, h, disk'[s])
  BY <1>4, <1>6 DEF Ready, Accounted
<1>8. proc'.run = r /\ proc'.at = "initial"
  BY <1>1
<1>9. Unsummed(proc', d)
  BY <1>5 DEF Unsummed
<1>10. QED BY <1>4, <1>7, <1>8, <1>9 DEF Accounted

LEMMA WriteInitialAccounted ==
  ASSUME NEW h, Ready(h), WriteInitial
  PROVE  Accounted(edition, h, disk', proc')
<1>1. proc # None /\ proc.at = "initial"
  BY DEF WriteInitial, At
<1>2. PICK d, c, p, ph : /\ d = Dir /\ c = Canonical(proc.cp) /\ p = proc.cp
                         /\ ph = IF edition = "M3" THEN "zero" ELSE "loop"
  OBVIOUS
<1>3. PICK e : e = Starting(d, c)
  OBVIOUS
<1>4. /\ DirShape(d) /\ Settled(edition, h, d) /\ Unsummed(proc, d)
      /\ proc.run \in Run /\ disk = [r \in Run |-> disk[r]]
      /\ proc = [run |-> proc.run, at |-> proc.at, chunk |-> proc.chunk, cp |-> proc.cp,
                 pending |-> proc.pending]
  BY <1>1, <1>2, Writing
<1>5. disk' = [disk EXCEPT ![proc.run] = e] /\ proc' = [proc EXCEPT !.at = ph]
  BY <1>2, <1>3, <1>4 DEF WriteInitial, Starting, Goto, Dir
<1>6. e.first = d.first /\ e.summary = d.summary /\ e.initial = c
  BY <1>3, <1>4 DEF DirShape, Starting
<1>7. d.summary = None /\ Len(d.log) = 0
  BY <1>1, <1>4 DEF Unsummed
<1>8. c.count = d.first
  <2>1. Known(h, p) /\ p.count = d.first + Len(d.log) /\ d.first \in Nat
    BY <1>1, <1>2, Running DEF Ready
  <2>2. c.count = p.count
    BY <1>2, <2>1, KnownCanonical
  <2>3. QED BY <1>7, <2>1, <2>2
<1>9. Settled(edition, h, e)
  BY <1>4, <1>6, <1>7, <1>8, StillOpen
<1>10. proc'.run = proc.run /\ proc'.at = ph /\ ph # "initial"
  BY <1>2, <1>4, <1>5
<1>11. Unsummed(proc', e)
  BY <1>6, <1>7, <1>10 DEF Unsummed
<1>12. QED BY <1>1, <1>5, <1>9, <1>10, <1>11, Resettled

LEMMA StoreAccounted ==
  ASSUME NEW h, Ready(h), proc # None, proc.at # "metadata", NEW m, disk' = StoreAt(m, proc.cp),
         NEW ph, ph # "initial", proc' = [proc EXCEPT !.at = ph]
  PROVE  Accounted(edition, h, disk', proc')
<1>1. PICK d, c, e : d = Dir /\ c = Canonical(proc.cp) /\ e = Storing(d, m, c)
  OBVIOUS
<1>2. /\ DirShape(d) /\ Settled(edition, h, d) /\ Unsummed(proc, d)
      /\ proc.run \in Run /\ disk = [r \in Run |-> disk[r]]
      /\ proc = [run |-> proc.run, at |-> proc.at, chunk |-> proc.chunk, cp |-> proc.cp,
                 pending |-> proc.pending]
  BY <1>1, Writing
<1>3. disk' = [disk EXCEPT ![proc.run] = e]
  BY <1>1, <1>2 DEF StoreAt, Storing, Dir
<1>4. e.first = d.first /\ e.summary = d.summary /\ e.initial = d.initial
  BY <1>1, <1>2 DEF DirShape, Storing
<1>5. d.summary = None
  BY <1>2 DEF Unsummed
<1>6. Settled(edition, h, e)
  BY <1>2, <1>4, <1>5, StillOpen
<1>7. proc'.run = proc.run /\ proc'.at = ph
  BY <1>2
<1>8. Unsummed(proc', e)
  BY <1>4, <1>5, <1>7 DEF Unsummed
<1>9. QED BY <1>3, <1>6, <1>7, <1>8, Resettled

LEMMA AppendAccounted ==
  ASSUME NEW h, Ready(h), AppendRecords
  PROVE  Accounted(edition, h, disk', proc')
<1>1. proc # None /\ proc.at = "append"
  BY DEF AppendRecords, At
<1>2. PICK d, q, f, ph, z : /\ d = Dir /\ q = proc.pending /\ ph = AfterAppend(proc.cp.minute)
                            /\ f = [k \in Kinds |-> OfKind(q, k)] /\ z = <<>>
  OBVIOUS
<1>3. PICK e : e = Written(d, q, f)
  OBVIOUS
<1>4. /\ DirShape(d) /\ Settled(edition, h, d) /\ Unsummed(proc, d)
      /\ proc.run \in Run /\ disk = [r \in Run |-> disk[r]]
      /\ proc = [run |-> proc.run, at |-> proc.at, chunk |-> proc.chunk, cp |-> proc.cp,
                 pending |-> proc.pending]
  BY <1>1, <1>2, Writing
<1>5. disk' = [disk EXCEPT ![proc.run] = e] /\ proc' = [proc EXCEPT !.pending = z, !.at = ph]
  BY <1>2, <1>3, <1>4 DEF AppendRecords, Dir
<1>6. e.first = d.first /\ e.summary = d.summary /\ e.initial = d.initial
  BY <1>3, <1>4 DEF DirShape, Written
<1>7. d.summary = None
  BY <1>1, <1>4 DEF Unsummed
<1>8. Settled(edition, h, e)
  BY <1>4, <1>6, <1>7, StillOpen
<1>9. proc'.run = proc.run /\ proc'.at = ph /\ ph # "initial"
  BY <1>2, <1>4, <1>5 DEF AfterAppend
<1>10. Unsummed(proc', e)
  BY <1>6, <1>7, <1>9 DEF Unsummed
<1>11. QED BY <1>1, <1>5, <1>8, <1>9, <1>10, Resettled

LEMMA WriteFinalAccounted ==
  ASSUME NEW h, Ready(h), WriteFinal
  PROVE  Accounted(edition, h, disk', proc')
<1>1. proc # None /\ proc.at = "loop"
  BY DEF WriteFinal, At
<1>2. PICK d, c, ph : /\ d = Dir /\ c = Canonical(proc.cp)
                      /\ ph = IF edition = "M3" THEN "last" ELSE "summary"
  OBVIOUS
<1>3. PICK e : e = Finishing(d, c)
  OBVIOUS
<1>4. /\ DirShape(d) /\ Settled(edition, h, d) /\ Unsummed(proc, d)
      /\ proc.run \in Run /\ disk = [r \in Run |-> disk[r]]
      /\ proc = [run |-> proc.run, at |-> proc.at, chunk |-> proc.chunk, cp |-> proc.cp,
                 pending |-> proc.pending]
  BY <1>1, <1>2, Writing
<1>5. disk' = [disk EXCEPT ![proc.run] = e] /\ proc' = [proc EXCEPT !.at = ph]
  BY <1>2, <1>3, <1>4 DEF WriteFinal, Finishing, Goto, Dir
<1>6. e.first = d.first /\ e.summary = d.summary /\ e.initial = d.initial
  BY <1>3, <1>4 DEF DirShape, Finishing
<1>7. d.summary = None
  BY <1>1, <1>4 DEF Unsummed
<1>8. Settled(edition, h, e)
  BY <1>4, <1>6, <1>7, StillOpen
<1>9. proc'.run = proc.run /\ proc'.at = ph /\ ph # "initial"
  BY <1>2, <1>4, <1>5
<1>10. Unsummed(proc', e)
  BY <1>6, <1>7, <1>9 DEF Unsummed
<1>11. QED BY <1>1, <1>5, <1>8, <1>9, <1>10, Resettled

(* The summary is of the last state and the whole log.                     *)
LEMMA WriteSummaryAccounted ==
  ASSUME NEW h, Ready(h), WriteSummary
  PROVE  Accounted(edition, h, disk', proc')
<1>1. proc # None /\ proc.at = "summary" /\ proc' = [proc EXCEPT !.at = "metadata"]
  BY DEF WriteSummary, At, Goto
<1>2. PICK d, p, s : d = Dir /\ p = proc.cp /\ s = Summary(proc.cp, Dir)
  OBVIOUS
<1>3. PICK e : e = [d EXCEPT !.summary = s]
  OBVIOUS
<1>4. /\ DirShape(d) /\ Settled(edition, h, d) /\ Unsummed(proc, d)
      /\ proc.run \in Run /\ disk = [r \in Run |-> disk[r]]
      /\ proc = [run |-> proc.run, at |-> proc.at, chunk |-> proc.chunk, cp |-> proc.cp,
                 pending |-> proc.pending]
  BY <1>1, <1>2, Writing
<1>5. disk' = [disk EXCEPT ![proc.run] = e]
  BY <1>2, <1>3, <1>4 DEF WriteSummary, Dir
<1>6. /\ e.first = d.first /\ e.summary = s /\ e.initial = d.initial /\ e.final = d.final
      /\ e.log = d.log
  BY <1>3, <1>4 DEF DirShape
<1>7. /\ DirOk(edition, h, d) /\ LeftBehind(edition, "summary", p, d) /\ Known(h, p)
      /\ p.count = d.first + Len(d.log) /\ d.first \in Nat /\ Len(d.log) \in Nat
  BY <1>1, <1>2, Running DEF Ready
<1>8. p.minute = EndMinute /\ d.final # None /\ d.final.minute = EndMinute
  BY <1>7 DEF LeftBehind
<1>9. PICK w, b, l : w = Full(h) /\ b = h[EndMinute] /\ l = d.log
  OBVIOUS
<1>10. World(p) /\ Alike(p, b)
  BY <1>7, <1>8, <1>9 DEF Known
<1>11. p.log = w
  BY <1>9, <1>10 DEF Alike, Full
<1>12. d.first + Len(l) = Len(w)
  BY <1>7, <1>9, <1>10, <1>11, Worldly
<1>13. Canonical(p) = d.final
  <2>1. Known(h, d.final) /\ Canonical(d.final) = d.final
    BY <1>7, <1>8 DEF DirOk, Holds
  <2>2. QED BY <1>7, <1>8, <2>1, OneHistory
<1>14. Public(p) = Public(b)
  BY <1>10 DEF Public, Alike
<1>15. edition = "M1" => d.files = [k \in Kinds |-> OfKind(w, k)]
  <2>1. SUFFICES ASSUME edition = "M1" PROVE l = w
    BY <1>7, <1>9 DEF DirOk
  <2>2. d.first = 0
    BY <1>4, <2>1 DEF Settled
  <2>3. l \in Seq(Range(l)) /\ \A i \in 1 .. Len(l) : l[i] = w[d.first + i]
    BY <1>7, <1>9 DEF DirOk, Recorded
  <2>4. w \in Seq(Range(w))
    BY <1>10, <1>11, Worldly
  <2>5. Len(l) \in Nat
    BY <1>7, <1>9
  <2>6. Len(l) = Len(w) /\ \A i \in 1 .. Len(l) : l[i] = w[i]
    BY <1>12, <2>2, <2>3, <2>5
  <2>7. QED BY <2>3, <2>4, <2>6, SeqEqual
<1>16. edition \in {"M1", "M3"}
  BY DEF Ready, Seeded, Typing
<1>17. s = IF edition = "M3" THEN [final |-> d.final, log |-> Full(h)]
           ELSE [final |-> Public(h[EndMinute]), log |-> [k \in Kinds |-> OfKind(Full(h), k)]]
  <2>1. CASE edition = "M3"
    <3>1. s = [final |-> Canonical(p), log |-> p.log]
      BY <1>2, <2>1 DEF Summary
    <3>2. QED BY <1>9, <1>11, <1>13, <2>1, <3>1
  <2>2. CASE edition # "M3"
    <3>1. s = [final |-> Public(p), log |-> d.files]
      BY <1>2, <2>2 DEF Summary
    <3>2. d.files = [k \in Kinds |-> OfKind(w, k)]
      BY <1>15, <1>16, <2>2
    <3>3. QED BY <1>9, <1>14, <2>2, <3>1, <3>2
  <2>3. QED BY <2>1, <2>2
<1>18. Settled(edition, h, e)
  BY <1>4, <1>6, <1>8, <1>9, <1>12, <1>17 DEF Settled, Summed
<1>19. proc'.run = proc.run /\ proc'.at = "metadata"
  BY <1>1, <1>4
<1>20. Unsummed(proc', e)
  BY <1>19 DEF Unsummed
<1>21. QED BY <1>1, <1>5, <1>18, <1>19, <1>20, Resettled

(* A status says nothing of a summary.                                     *)
LEMMA StatusAccounted ==
  ASSUME NEW h, Ready(h), proc # None, proc' = None, NEW s, NEW e, e = [Dir EXCEPT !.status = s],
         disk' = [disk EXCEPT ![proc.run] = e]
  PROVE  Accounted(edition, h, disk', proc')
<1>1. PICK d : d = Dir
  OBVIOUS
<1>2. DirShape(d) /\ Settled(edition, h, d)
  BY <1>1, Writing
<1>3. /\ e.first = d.first /\ e.summary = d.summary /\ e.initial = d.initial /\ e.final = d.final
      /\ e.log = d.log
  BY <1>1, <1>2 DEF DirShape
<1>4. Settled(edition, h, e)
  BY <1>2, <1>3 DEF Settled, Summed
<1>5. QED BY <1>4, Resettled

(* A crash once there is a summary leaves nothing half written.            *)
LEMMA CrashAccounted ==
  ASSUME NEW h, Ready(h), Crash
  PROVE  Accounted(edition, h, disk', proc')
<1>1. proc # None /\ proc' = None
  BY DEF Crash
<1>2. PICK d, q : d = Dir /\ q = proc.pending
  OBVIOUS
<1>3. PICK n \in 0 .. Len(q) :
        disk' = [disk EXCEPT ![proc.run] =
                   Written(@, SubSeq(q, 1, n), [k \in Kinds |-> OfKind(SubSeq(q, 1, n), k)])]
  BY <1>2 DEF Crash
<1>4. PICK s, f : s = SubSeq(q, 1, n) /\ f = [k \in Kinds |-> OfKind(SubSeq(q, 1, n), k)]
  OBVIOUS
<1>5. PICK e : e = Written(d, s, f)
  OBVIOUS
<1>6. /\ DirShape(d) /\ Settled(edition, h, d) /\ Unsummed(proc, d)
      /\ proc.run \in Run /\ disk = [r \in Run |-> disk[r]]
  BY <1>1, <1>2, Writing
<1>7. disk' = [disk EXCEPT ![proc.run] = e]
  BY <1>2, <1>3, <1>4, <1>5, <1>6 DEF Dir
<1>8. /\ e.first = d.first /\ e.summary = d.summary /\ e.initial = d.initial /\ e.final = d.final
      /\ e.log = d.log \o s
  BY <1>5, <1>6 DEF DirShape, Written
<1>9. CASE proc.at # "metadata"
  <2>1. d.summary = None
    BY <1>6, <1>9 DEF Unsummed
  <2>2. Settled(edition, h, e)
    BY <1>6, <1>8, <2>1, StillOpen
  <2>3. QED BY <1>1, <1>7, <2>2, Resettled
<1>10. CASE proc.at = "metadata"
  <2>1. q = <<>> /\ DirOk(edition, h, d)
    BY <1>1, <1>2, <1>10, Running DEF Ready
  <2>2. PICK z : z = <<>>
    OBVIOUS
  <2>3. Len(z) = 0 /\ z \in Seq(Range(z))
    BY <2>2, EmptySeq
  <2>4. n = 0
    BY <2>1, <2>2, <2>3
  <2>5. PartOf(z, n, n, s)
    <3>1. z \in Seq(Range(z)) /\ n \in Nat /\ n <= n /\ n <= Len(z)
      BY <2>3, <2>4
    <3>2. s = SubSeq(z, n + 1, n)
      BY <1>4, <2>1, <2>2, <2>4
    <3>3. QED BY <3>1, <3>2, Parts
  <2>6. s \in Seq(Range(s)) /\ Len(s) = 0
    BY <2>4, <2>5 DEF PartOf
  <2>7. PICK l : l = d.log
    OBVIOUS
  <2>8. l \in Seq(Range(l))
    BY <2>1, <2>7 DEF DirOk, Recorded
  <2>9. Len(l) \in Nat /\ Len(l \o s) = Len(l) + Len(s)
    BY <2>6, <2>8, Joining
  <2>10. Len(e.log) = Len(d.log)
    BY <1>8, <2>6, <2>7, <2>9
  <2>11. Settled(edition, h, e)
    BY <1>6, <1>8, <2>10 DEF Settled, Summed
  <2>12. QED BY <1>1, <1>7, <2>11, Resettled
<1>11. QED BY <1>9, <1>10

LEMMA NextAccounted ==
  ASSUME NEW h, Ready(h), [Next]_vars
  PROVE  Accounted(edition, h, disk', proc')
<1>1. CASE StartFresh
  <2>1. PICK chunk \in Chunks : Open(Fresh, chunk)
    BY <1>1 DEF StartFresh
  <2>2. PICK f : f = Fresh
    OBVIOUS
  <2>3. f.count = 0
    BY <2>2, FreshIsWorld
  <2>4. QED BY <2>1, <2>2, <2>3, OpenAccounted
<1>2. CASE Resume
  <2>1. edition = "M3"
    BY <1>2 DEF Resume
  <2>2. PICK chunk, cp : Open(cp, chunk)
    BY <1>2 DEF Resume, Load
  <2>3. QED BY <2>1, <2>2, OpenAccounted
<1>3. CASE WriteInitial
  BY <1>3, WriteInitialAccounted
<1>4. CASE WriteZero
  <2>1. PICK m, ph : m = 0 /\ ph = "construct"
    OBVIOUS
  <2>2. /\ proc # None /\ proc.at = "zero" /\ disk' = StoreAt(m, proc.cp)
        /\ proc' = [proc EXCEPT !.at = ph]
    BY <1>4, <2>1 DEF WriteZero, At, Goto
  <2>3. proc.at # "metadata" /\ ph # "initial"
    BY <2>1, <2>2
  <2>4. QED BY <2>2, <2>3, StoreAccounted
<1>5. CASE Construct
  <2>1. proc # None /\ proc.at = "construct" /\ UNCHANGED disk
    BY <1>5 DEF Construct, At
  <2>2. proc = [run |-> proc.run, at |-> proc.at, chunk |-> proc.chunk, cp |-> proc.cp,
                pending |-> proc.pending]
    BY <2>1, Writing
  <2>3. ASSUME proc' # None PROVE proc'.run = proc.run /\ proc'.at # "initial"
    <3>1. proc' = [proc EXCEPT !.at = "loop"]
      BY <1>5, <2>3 DEF Construct, Goto
    <3>2. QED BY <2>2, <3>1
  <2>4. QED BY <2>1, <2>3, UnwrittenAccounted
<1>6. CASE AdvanceChunk
  <2>1. proc # None /\ proc.at = "loop" /\ UNCHANGED disk
    BY <1>6 DEF AdvanceChunk, At
  <2>2. proc = [run |-> proc.run, at |-> proc.at, chunk |-> proc.chunk, cp |-> proc.cp,
                pending |-> proc.pending]
    BY <2>1, Writing
  <2>3. PICK u, s : proc' = [proc EXCEPT !.cp = u, !.pending = s, !.at = "append"]
    BY <1>6 DEF AdvanceChunk
  <2>4. proc'.run = proc.run /\ proc'.at = "append"
    BY <2>2, <2>3
  <2>5. QED BY <2>1, <2>4, UnwrittenAccounted
<1>7. CASE AppendRecords
  BY <1>7, AppendAccounted
<1>8. CASE WriteCheckpoint
  <2>1. PICK m, ph : m = proc.cp.minute /\ ph = "loop"
    OBVIOUS
  <2>2. /\ proc # None /\ proc.at = "checkpoint" /\ disk' = StoreAt(m, proc.cp)
        /\ proc' = [proc EXCEPT !.at = ph]
    BY <1>8, <2>1 DEF WriteCheckpoint, At, Goto
  <2>3. proc.at # "metadata" /\ ph # "initial"
    BY <2>1, <2>2
  <2>4. QED BY <2>2, <2>3, StoreAccounted
<1>9. CASE WriteFinal
  BY <1>9, WriteFinalAccounted
<1>10. CASE WriteLast
  <2>1. PICK m, ph : m = proc.cp.minute /\ ph = "summary"
    OBVIOUS
  <2>2. /\ proc # None /\ proc.at = "last" /\ disk' = StoreAt(m, proc.cp)
        /\ proc' = [proc EXCEPT !.at = ph]
    BY <1>10, <2>1 DEF WriteLast, At, Goto
  <2>3. proc.at # "metadata" /\ ph # "initial"
    BY <2>1, <2>2
  <2>4. QED BY <2>2, <2>3, StoreAccounted
<1>11. CASE WriteSummary
  BY <1>11, WriteSummaryAccounted
<1>12. CASE Complete
  <2>1. proc # None /\ proc' = None
    BY <1>12 DEF Complete, At
  <2>2. PICK s, e : s = "COMPLETED" /\ e = [Dir EXCEPT !.status = s]
    OBVIOUS
  <2>3. disk = [r \in Run |-> disk[r]] /\ proc.run \in Run
    BY <2>1, Writing
  <2>4. disk' = [disk EXCEPT ![proc.run] = e]
    BY <1>12, <2>2, <2>3 DEF Complete, Dir
  <2>5. QED BY <2>1, <2>2, <2>4, StatusAccounted
<1>13. CASE ChildFails
  <2>1. proc # None /\ proc' = None
    BY <1>13 DEF ChildFails, At
  <2>2. CASE proc.at \in {"initial", "zero"}
    <3>1. UNCHANGED disk
      BY <1>13, <2>2 DEF ChildFails
    <3>2. QED BY <2>1, <3>1, UnwrittenAccounted
  <2>3. CASE proc.at \notin {"initial", "zero"}
    <3>1. PICK s, e : s = "FAILED" /\ e = [Dir EXCEPT !.status = s]
      OBVIOUS
    <3>2. disk = [r \in Run |-> disk[r]] /\ proc.run \in Run
      BY <2>1, Writing
    <3>3. disk' = [disk EXCEPT ![proc.run] = e]
      BY <1>13, <2>3, <3>1, <3>2 DEF ChildFails, AfterFailure, Dir
    <3>4. QED BY <2>1, <3>1, <3>3, StatusAccounted
  <2>4. QED BY <2>2, <2>3
<1>14. CASE Crash
  BY <1>14, CrashAccounted
<1>15. CASE UNCHANGED <<proc, disk>>
  BY <1>15 DEF Ready, Accounted
<1>16. (Replay \/ UNCHANGED vars) => UNCHANGED <<proc, disk>>
  BY DEF Replay, vars
<1>17. QED BY <1>1, <1>2, <1>3, <1>4, <1>5, <1>6, <1>7, <1>8, <1>9, <1>10, <1>11, <1>12, <1>13,
              <1>14, <1>15, <1>16 DEF Next, Work

(* A summary stays where it is.                                            *)
LEMMA SummaryStays ==
  ASSUME NEW h, Ready(h), [Next]_vars, NEW r \in Run, disk[r] # None, disk[r].summary # None
  PROVE  disk'[r] # None /\ disk'[r].summary # None
<1>1. disk = [s \in Run |-> disk[s]]
  BY DEF Ready, Seeded, Typing
<1>2. CASE StartFresh \/ Resume
  <2>1. PICK cp, chunk : Open(cp, chunk)
    BY <1>2 DEF StartFresh, Resume
  <2>2. PICK s, d : s \in Run /\ disk[s] = None /\ disk' = [disk EXCEPT ![s] = d]
    BY <2>1 DEF Open
  <2>3. disk'[r] = disk[r]
    BY <1>1, <2>2
  <2>4. QED BY <2>3
<1>3. ASSUME proc # None, NEW e, disk' = [disk EXCEPT ![proc.run] = e],
             proc.at # "metadata" \/ (e # None /\ e.summary = Dir.summary)
      PROVE  disk'[r] # None /\ disk'[r].summary # None
  <2>1. CASE r # proc.run
    BY <1>1, <1>3, <2>1
  <2>2. CASE r = proc.run
    <3>1. Unsummed(proc, Dir) /\ Dir = disk[r] /\ disk'[r] = e
      BY <1>1, <1>3, <2>2, Writing DEF Dir
    <3>2. proc.at = "metadata"
      BY <3>1 DEF Unsummed
    <3>3. QED BY <1>3, <3>1, <3>2
  <2>3. QED BY <2>1, <2>2
<1>4. ASSUME proc # None, proc.at # "metadata", NEW e, disk' = [disk EXCEPT ![proc.run] = e]
      PROVE  disk'[r] # None /\ disk'[r].summary # None
  BY <1>3, <1>4
<1>5. CASE WriteInitial \/ WriteZero \/ WriteCheckpoint \/ WriteFinal \/ WriteLast \/ WriteSummary
           \/ AppendRecords
  <2>1. proc # None /\ proc.at # "metadata"
    BY <1>5 DEF WriteInitial, WriteZero, WriteCheckpoint, WriteFinal, WriteLast, WriteSummary,
                AppendRecords, At
  <2>2. PICK e : disk' = [disk EXCEPT ![proc.run] = e]
    BY <1>5 DEF WriteInitial, WriteZero, WriteCheckpoint, WriteFinal, WriteLast, WriteSummary,
                AppendRecords, StoreAt
  <2>3. QED BY <1>4, <2>1, <2>2
<1>6. CASE Complete
  <2>1. proc # None
    BY <1>6 DEF Complete, At
  <2>2. PICK d, e : d = Dir /\ e = [d EXCEPT !.status = "COMPLETED"]
    OBVIOUS
  <2>3. DirShape(d) /\ proc.run \in Run
    BY <2>1, <2>2, Writing
  <2>4. DirShape(e) /\ e.summary = d.summary
    BY <2>2, <2>3 DEF DirShape
  <2>5. disk' = [disk EXCEPT ![proc.run] = e]
    BY <1>1, <1>6, <2>2, <2>3 DEF Complete, Dir
  <2>6. QED BY <1>3, <2>1, <2>2, <2>4, <2>5, Distinct
<1>7. CASE ChildFails
  <2>1. proc # None /\ proc.at # "metadata"
    BY <1>7 DEF ChildFails, At
  <2>2. disk' = disk \/ \E e : disk' = [disk EXCEPT ![proc.run] = e]
    BY <1>7 DEF ChildFails
  <2>3. CASE disk' = disk
    BY <2>3
  <2>4. CASE \E e : disk' = [disk EXCEPT ![proc.run] = e]
    BY <1>4, <2>1, <2>4
  <2>5. QED BY <2>2, <2>3, <2>4
<1>8. CASE Crash
  <2>1. proc # None
    BY <1>8 DEF Crash
  <2>2. PICK q, f : disk' = [disk EXCEPT ![proc.run] = Written(@, q, f)]
    BY <1>8 DEF Crash
  <2>3. PICK d, e : d = Dir /\ e = Written(d, q, f)
    OBVIOUS
  <2>4. DirShape(d) /\ proc.run \in Run
    BY <2>1, <2>3, Writing
  <2>5. DirShape(e) /\ e.summary = d.summary
    BY <2>3, <2>4 DEF DirShape, Written
  <2>6. disk' = [disk EXCEPT ![proc.run] = e]
    BY <1>1, <2>2, <2>3, <2>4 DEF Dir
  <2>7. QED BY <1>3, <2>1, <2>3, <2>5, <2>6, Distinct
<1>9. CASE UNCHANGED disk
  BY <1>9
<1>10. Construct \/ AdvanceChunk \/ Replay \/ UNCHANGED vars => UNCHANGED disk
  BY DEF Construct, AdvanceChunk, Replay, vars
<1>11. QED BY <1>2, <1>5, <1>6, <1>7, <1>8, <1>9, <1>10 DEF Next, Work

(* A replay rebuilds what a run left behind, or arrives at a state that is  *)
(* refused, as its final checkpoint would be.                              *)
Reported(h) ==
  report # None =>
    /\ report.run \in Run /\ disk[report.run] # None /\ disk[report.run].summary # None
    /\ \/ report.verdict = "match"
       \/ edition = "M3" /\ report.verdict = "invariants" /\ ~Calm(h)

LEMMA FinalCalm ==
  ASSUME NEW h, Ready(h), NEW r \in Run, disk[r] # None, disk[r].summary # None
  PROVE  Accepted(disk[r].final) <=> Calm(h)
<1>1. PICK d, c : d = disk[r] /\ c = d.final
  OBVIOUS
<1>2. DirOk(edition, h, d) /\ Settled(edition, h, d) /\ d.summary # None
  BY <1>1 DEF Ready, Seeded, Sound, Accounted
<1>3. c # None /\ c.minute = EndMinute
  BY <1>1, <1>2 DEF Settled, Summed
<1>4. Known(h, c) /\ Canonical(c) = c
  BY <1>1, <1>2, <1>3 DEF DirOk, Holds
<1>5. QED BY <1>1, <1>3, <1>4, FinalAccepted

LEMMA ReplayMatches ==
  ASSUME NEW h, Ready(h), Replay
  PROVE  Reported(h)'
<1>1. PICK r \in Run :
        /\ disk[r] # None /\ disk[r].summary # None
        /\ \E from \in IF edition = "M3" THEN Stored(disk[r]) ELSE {disk[r].initial} :
             report' = [run |-> r, from |-> from,
                        verdict |-> IF edition = "M3" THEN VerifySociety(disk[r], from)
                                    ELSE VerifyTown(disk[r])]
  BY DEF Replay
<1>2. PICK d : d = disk[r]
  OBVIOUS
<1>3. DirOk(edition, h, d) /\ Settled(edition, h, d) /\ d.summary # None
  BY <1>1, <1>2 DEF Ready, Seeded, Sound, Accounted
<1>4. edition \in {"M1", "M3"} /\ plot \in [1 .. EndMinute -> Plots] /\ History(edition, plot, h)
  BY DEF Ready, Seeded, Typing
<1>5. disk' = disk /\ edition' = edition
  BY DEF Replay
<1>6. PICK from : /\ from \in IF edition = "M3" THEN Stored(d) ELSE {d.initial}
                  /\ report'.run = r
                  /\ report'.verdict = IF edition = "M3" THEN VerifySociety(d, from) ELSE VerifyTown(d)
  BY <1>1, <1>2
<1>7. \/ report'.verdict = "match"
      \/ edition = "M3" /\ report'.verdict = "invariants" /\ ~Calm(h)
  <2>1. CASE edition = "M3"
    <3>1. from \in Stored(d) /\ report'.verdict = VerifySociety(d, from)
      BY <1>6, <2>1
    <3>2. History("M3", plot, h) /\ DirOk("M3", h, d) /\ Settled("M3", h, d)
      BY <1>3, <1>4, <2>1
    <3>3. \/ VerifySociety(d, from) = "match"
          \/ VerifySociety(d, from) = "invariants" /\ ~Accepted(d.final)
      BY <1>3, <1>4, <3>1, <3>2, SocietyVerified
    <3>4. Accepted(d.final) <=> Calm(h)
      BY <1>1, <1>2, FinalCalm
    <3>5. QED BY <2>1, <3>1, <3>3, <3>4
  <2>2. CASE edition = "M1"
    <3>1. report'.verdict = VerifyTown(d)
      BY <1>6, <2>2
    <3>2. History("M1", plot, h) /\ DirOk("M1", h, d) /\ Settled("M1", h, d)
      BY <1>3, <1>4, <2>2
    <3>3. VerifyTown(d) = "match"
      BY <1>3, <1>4, <3>2, TownVerified
    <3>4. QED BY <3>1, <3>3
  <2>3. QED BY <1>4, <2>1, <2>2
<1>8. QED BY <1>1, <1>5, <1>6, <1>7 DEF Reported

Accountable ==
  /\ Inv
  /\ \A h : History(edition, plot, h) => Accounted(edition, h, disk, proc) /\ Reported(h)

LEMMA AccountableStays == Accountable /\ [Next]_vars => Accountable'
<1> SUFFICES ASSUME Accountable, [Next]_vars PROVE Accountable'
  OBVIOUS
<1>1. Inv /\ Inv'
  BY InvStays DEF Accountable
<1>2. PICK g : History(edition, plot, g)
  BY HistoryExists
<1>3. \A h : History(edition, plot, h) => Ready(h) /\ Reported(h)
  BY <1>1 DEF Accountable, Ready, Seeded, Inv
<1>4. edition' = edition /\ plot' = plot
  <2>1. Seeded(g)
    BY <1>2, <1>3 DEF Ready
  <2>2. QED BY <2>1, NextKeeps
<1>5. \A h : History(edition', plot', h) => Accounted(edition', h, disk', proc')
  <2>1. SUFFICES ASSUME NEW h, History(edition, plot, h) PROVE Accounted(edition, h, disk', proc')
    BY <1>4
  <2>2. Ready(h)
    BY <1>3, <2>1
  <2>3. QED BY <2>2, NextAccounted
<1>6. ASSUME NEW h, History(edition, plot, h) PROVE Reported(h)'
  <2>1. Ready(h) /\ Reported(h)
    BY <1>3, <1>6
  <2>2. CASE Replay
    BY <2>1, <2>2, ReplayMatches
  <2>3. CASE ~Replay
    <3>1. report' = report
      BY <2>3 DEF Next, Work, StartFresh, Resume, Open, WriteInitial, WriteZero, Construct,
                  AdvanceChunk, AppendRecords, WriteCheckpoint, WriteFinal, WriteLast, WriteSummary,
                  Complete, ChildFails, Crash, Rest, vars
    <3>2. SUFFICES ASSUME report # None PROVE Reported(h)'
      BY <3>1 DEF Reported
    <3>3. report.run \in Run /\ disk[report.run] # None /\ disk[report.run].summary # None
      BY <2>1, <3>2 DEF Reported
    <3>4. disk'[report.run] # None /\ disk'[report.run].summary # None
      BY <2>1, <3>3, SummaryStays
    <3>5. QED BY <1>4, <2>1, <3>1, <3>2, <3>3, <3>4 DEF Reported
  <2>4. QED BY <2>2, <2>3
<1>7. QED BY <1>1, <1>4, <1>5, <1>6 DEF Accountable

(* A replay of a run that has its summary refuses no record, and one that   *)
(* comes to its report has rebuilt the final state, the ledgers, the chain  *)
(* and every checkpoint in between, from the start or from any stored       *)
(* checkpoint, of a whole or a resumed run (docs/qa/M3_ACCEPTANCE.md, 12).  *)
(* Where it is refused for the state it arrives at, the final checkpoint of *)
(* the run would be refused as well.  The M1 transactions alone always      *)
(* rebuild the final state of an M1 run.                                   *)
THEOREM ReplaysRebuild == Spec => []ReplaysAgree
<1>1. Init => Accountable
  <2> SUFFICES ASSUME Init PROVE Accountable
    OBVIOUS
  <2>1. Inv
    BY InvAtFirst
  <2>2. proc = None /\ disk = [r \in Run |-> None] /\ report = None
    BY DEF Init
  <2>3. \A h : Accounted(edition, h, disk, proc)
    BY <2>2 DEF Accounted
  <2>4. \A h : Reported(h)
    BY <2>2 DEF Reported
  <2>5. QED BY <2>1, <2>3, <2>4 DEF Accountable
<1>2. Accountable => ReplaysAgree
  <2>1. SUFFICES ASSUME Accountable, report # None, report.verdict # "match"
                 PROVE  /\ edition = "M3" /\ report.verdict = "invariants"
                        /\ ~Accepted(disk[report.run].final)
    BY DEF ReplaysAgree
  <2>2. PICK h : History(edition, plot, h)
    BY <2>1, HistoryExists DEF Accountable, Inv, Typing
  <2>3. Ready(h) /\ Reported(h)
    BY <2>1, <2>2 DEF Accountable, Ready, Seeded, Inv
  <2>4. /\ report.run \in Run /\ disk[report.run] # None /\ disk[report.run].summary # None
        /\ edition = "M3" /\ report.verdict = "invariants" /\ ~Calm(h)
    BY <2>1, <2>3 DEF Reported
  <2>5. QED BY <2>3, <2>4, FinalCalm
<1>3. QED BY <1>1, <1>2, AccountableStays, PTL DEF Spec
=============================================================================
