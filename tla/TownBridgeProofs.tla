-------------------------- MODULE TownBridgeProofs --------------------------
(***************************************************************************)
(* What holds of the M2 bridge for every town, every number of connections *)
(* and every client.  The engine's own invariant survives the composition, *)
(* since the bridge changes the town only through the engine's operations; *)
(* together with the agreement of session, runtime and server about who is *)
(* ready it makes the bridge an implementation of Handover.                *)
(***************************************************************************)
EXTENDS TownBridge, TownEngineProofs, SequenceTheorems

(* A session with its handler.                                             *)
BridgeSession ==
  [phase: {"ABSENT", "AWAITING_CLIENT_HELLO", "AWAITING_ASSET_REGISTRY",
           "AWAITING_CLIENT_READY", "READY", "DISCONNECTED"},
   serving: BOOLEAN, snapshot: Int]

(* What session g is to the town: a session beyond the latest is not open, *)
(* and an offer to the latest one shows the town as it is.                 *)
SessionsKept ==
  /\ generation \in 0 .. MaxConn
  /\ sessions \in [Connection -> BridgeSession]
  /\ \A g \in Connection :
       /\ g > generation => sessions[g].phase = "ABSENT"
       /\ g <= generation => sessions[g].phase # "ABSENT"
       /\ sessions[g].serving => sessions[g].phase \notin {"ABSENT", "DISCONNECTED"}

(* The world a client is about to acknowledge is the town as it is.        *)
OfferCurrent ==
  generation # 0 /\ sessions[generation].phase = "AWAITING_CLIENT_READY" =>
    sessions[generation].snapshot = town.version

(* The inductive invariant of the composition.                             *)
BInv == IInv /\ SessionsKept /\ OfferCurrent /\ GatesAgree

(* How many versions a step of the engine adds.                            *)
LEMMA EngineStep ==
  ASSUME BInv, Advance \/ ReportArrived \/ ReportEnded
  PROVE  IInv' /\ town'.version = town.version + 1
BY AdvanceKeeps, ReportKeeps DEF BInv

(* A step that leaves the town alone keeps what the engine guarantees.     *)
LEMMA EngineRests ==
  ASSUME BInv, UNCHANGED <<town, mode, raised>>
  PROVE  IInv' /\ town'.version = town.version
BY Inductive DEF BInv, vars

(* The invariant as far as the bridge's own variables go; it depends on    *)
(* the town only through the version an offer shows.                       *)
Gated == SessionsKept /\ GatesAgree

(* Connections are the numbers from one to MaxConn.                        *)
LEMMA ConnectionFact ==
  /\ MaxConn \in Nat
  /\ \A g \in Connection : g \in Int /\ g > 0 /\ g <= MaxConn
  /\ \A g \in Int : g > 0 /\ g <= MaxConn => g \in Connection
BY BridgeConstants DEF Connection

(* Before the first connection.                                            *)
LEMMA InitBInv == BridgeInit => BInv
<1> SUFFICES ASSUME BridgeInit PROVE BInv
  OBVIOUS
<1>1. IInv
  BY InitIInv DEF BridgeInit
<1>2. /\ generation = 0 /\ readyGeneration = 0 /\ active = 0
      /\ sessions = [g \in Connection |-> [phase |-> "ABSENT", serving |-> FALSE, snapshot |-> -1]]
  BY DEF BridgeInit
<1>3. SessionsKept
  BY <1>2, ConnectionFact DEF SessionsKept, BridgeSession
<1>4. OfferCurrent
  BY <1>2 DEF OfferCurrent
<1>5. GatesAgree
  BY <1>2, ConnectionFact DEF GatesAgree
<1>6. QED BY <1>1, <1>3, <1>4, <1>5 DEF BInv

(* A new connection takes the town from the one before it.                 *)
LEMMA ConnectKeeps ==
  ASSUME BInv, Connect
  PROVE  Gated' /\ sessions'[generation'].phase = "AWAITING_CLIENT_HELLO" /\ ~Ready'
<1> DEFINE opened == [phase |-> "AWAITING_CLIENT_HELLO", serving |-> TRUE, snapshot |-> -1]
<1>1. /\ generation \in 0 .. MaxConn /\ MaxConn \in Nat /\ generation < MaxConn
      /\ sessions \in [Connection -> BridgeSession]
  BY ConnectionFact DEF BInv, SessionsKept, Connect
<1>2. generation + 1 \in Connection /\ generation + 1 \in 0 .. MaxConn
      /\ \A g \in Connection : g \in Int /\ g > 0
  BY <1>1, ConnectionFact
<1>3. /\ generation' = generation + 1 /\ readyGeneration' = 0 /\ active' = generation + 1
      /\ sessions' = [sessions EXCEPT ![generation + 1] = opened]
  BY DEF Connect
<1>4. opened \in BridgeSession
  BY DEF BridgeSession
<1>5. /\ sessions' \in [Connection -> BridgeSession]
      /\ sessions'[generation + 1] = opened
      /\ \A g \in Connection : g # generation + 1 => sessions'[g] = sessions[g]
  BY <1>1, <1>2, <1>3, <1>4
<1>6. SessionsKept'
  <2>1. ASSUME NEW g \in Connection
        PROVE  /\ g > generation' => sessions'[g].phase = "ABSENT"
               /\ g <= generation' => sessions'[g].phase # "ABSENT"
               /\ sessions'[g].serving => sessions'[g].phase \notin {"ABSENT", "DISCONNECTED"}
    BY <1>1, <1>2, <1>3, <1>5 DEF BInv, SessionsKept
  <2>2. QED BY <1>2, <1>3, <1>5, <2>1 DEF SessionsKept
<1>7. GatesAgree'
  BY <1>1, <1>2, <1>3, <1>5 DEF GatesAgree
<1>8. QED BY <1>1, <1>3, <1>5, <1>6, <1>7 DEF Gated, Ready

(* One session changes: what every message of a client comes down to.      *)
LEMMA OneSession ==
  ASSUME BInv, NEW g \in Connection, NEW s \in BridgeSession,
         sessions' = [sessions EXCEPT ![g] = s], generation' = generation,
         sessions[g].phase # "ABSENT", s.phase # "ABSENT",
         s.serving => s.phase # "DISCONNECTED"
  PROVE  /\ SessionsKept' /\ sessions'[g] = s
         /\ \A h \in Connection : h # g => sessions'[h] = sessions[h]
<1>1. /\ sessions \in [Connection -> BridgeSession]
      /\ generation \in 0 .. MaxConn
      /\ \A h \in Connection : h \in Int
  BY ConnectionFact DEF BInv, SessionsKept
<1>2. /\ sessions' \in [Connection -> BridgeSession]
      /\ sessions'[g] = s
      /\ \A h \in Connection : h # g => sessions'[h] = sessions[h]
  BY <1>1
<1>3. g <= generation
  BY <1>1 DEF BInv, SessionsKept
<1>4. ASSUME NEW h \in Connection
      PROVE  /\ h > generation' => sessions'[h].phase = "ABSENT"
             /\ h <= generation' => sessions'[h].phase # "ABSENT"
             /\ sessions'[h].serving => sessions'[h].phase \notin {"ABSENT", "DISCONNECTED"}
  <2>1. CASE h = g
    BY <1>1, <1>2, <1>3, <2>1
  <2>2. CASE h # g
    BY <1>2, <2>2 DEF BInv, SessionsKept
  <2>3. QED BY <2>1, <2>2
<1>5. QED BY <1>1, <1>2, <1>4 DEF SessionsKept

(* What a step that leaves the sessions alone does to the gates: nothing.  *)
LEMMA GatesRest ==
  ASSUME BInv, UNCHANGED <<sessions, generation, readyGeneration, active>>
  PROVE  Gated' /\ Ready' = Ready /\ (Ready => Offered = -1 /\ Offered' = -1)
<1>1. Gated'
  BY DEF BInv, Gated, SessionsKept, GatesAgree
<1>2. Ready => sessions[generation].phase = "READY"
  <2>1. Ready => generation \in Connection
    BY ConnectionFact DEF Ready, BInv, SessionsKept
  <2>2. QED BY <2>1 DEF Ready, BInv, GatesAgree
<1>3. QED BY <1>1, <1>2 DEF Ready, Offered

(* A step of the engine on behalf of a ready connection is a Write.        *)
LEMMA WriteKeeps ==
  ASSUME BInv, Ready, Advance \/ ReportArrived \/ ReportEnded,
         UNCHANGED <<sessions, generation, readyGeneration, active>>
  PROVE  BInv' /\ H!Write
<1>1. IInv' /\ town'.version = town.version + 1
  BY EngineStep
<1>2. Gated' /\ Ready' = Ready /\ Offered = -1 /\ Offered' = -1
  BY GatesRest
<1>3. OfferCurrent'
  <2>1. generation \in Connection
    BY ConnectionFact DEF Ready, BInv, SessionsKept
  <2>2. sessions[generation].phase = "READY"
    BY <2>1 DEF Ready, BInv, GatesAgree
  <2>3. QED BY <2>2 DEF OfferCurrent
<1>4. H!Write
  BY <1>1, <1>2 DEF H!Write, Ready
<1>5. QED BY <1>1, <1>2, <1>3, <1>4 DEF BInv, Gated

(* Requests of the clock, refused cancellations and steps outside.         *)
LEMMA RestKeeps ==
  ASSUME BInv, UNCHANGED <<town, mode, raised>>,
         UNCHANGED <<sessions, generation, readyGeneration, active>>
  PROVE  BInv' /\ UNCHANGED H!vars
<1>1. IInv' /\ town'.version = town.version
  BY EngineRests
<1>2. Gated'
  BY GatesRest
<1>3. OfferCurrent' /\ UNCHANGED H!vars
  BY <1>1 DEF BInv, OfferCurrent, H!vars, Ready, Offered
<1>4. QED BY <1>1, <1>2, <1>3 DEF BInv, Gated

(* open_session is a Claim of Handover.                                    *)
LEMMA ConnectRefines ==
  ASSUME BInv, Connect
  PROVE  BInv' /\ H!Open
<1>1. /\ Gated' /\ sessions'[generation'].phase = "AWAITING_CLIENT_HELLO" /\ ~Ready'
      /\ generation' = generation + 1
  BY ConnectKeeps DEF Connect
<1>2. IInv' /\ town'.version = town.version
  BY EngineRests DEF Connect
<1>3. OfferCurrent' /\ Offered' = -1
  BY <1>1 DEF OfferCurrent, Offered
<1>4. generation' > generation
  BY <1>1 DEF BInv, SessionsKept
<1>5. H!Open
  BY <1>1, <1>2, <1>3, <1>4 DEF H!Open
<1>6. QED BY <1>1, <1>2, <1>3, <1>5 DEF BInv, Gated

(* A message out of order ends its own connection only.                    *)
LEMMA RefuseRefines ==
  ASSUME BInv, NEW g \in Connection, Refuse(g)
  PROVE  BInv' /\ UNCHANGED H!vars
<1> DEFINE s == [sessions[g] EXCEPT !.serving = FALSE]
<1>1. /\ sessions[g] \in BridgeSession /\ sessions[g].phase \notin {"ABSENT", "DISCONNECTED"}
      /\ sessions' = [sessions EXCEPT ![g] = s]
      /\ UNCHANGED <<town, mode, raised, generation, readyGeneration, active>>
  BY DEF BInv, SessionsKept, Refuse
<1>2. /\ s \in BridgeSession /\ s.phase = sessions[g].phase /\ s.snapshot = sessions[g].snapshot
      /\ s.serving = FALSE
  BY <1>1 DEF BridgeSession
<1> HIDE DEF s
<1>3. /\ SessionsKept' /\ sessions'[g] = s
      /\ \A h \in Connection : h # g => sessions'[h] = sessions[h]
  BY <1>1, <1>2, OneSession
<1>4. \A h \in Connection : /\ sessions'[h].phase = sessions[h].phase
                             /\ sessions'[h].snapshot = sessions[h].snapshot
  BY <1>2, <1>3
<1>5. generation = 0 \/ generation \in Connection
  BY ConnectionFact DEF BInv, SessionsKept
<1>6. GatesAgree'
  BY <1>1, <1>4, <1>5 DEF BInv, GatesAgree
<1>7. IInv' /\ town'.version = town.version
  BY <1>1, EngineRests
<1>8. OfferCurrent'
  BY <1>1, <1>4, <1>5, <1>7 DEF BInv, OfferCurrent
<1>9. UNCHANGED H!vars
  BY <1>1, <1>4, <1>5, <1>7 DEF H!vars, Ready, Offered
<1>10. QED BY <1>3, <1>6, <1>7, <1>8, <1>9 DEF BInv

(* The end of a handler takes nothing from a later connection.             *)
LEMMA LeaveRefines ==
  ASSUME BInv, NEW g \in Connection, Leave(g)
  PROVE  BInv' /\ (H!Release \/ UNCHANGED H!vars)
<1> DEFINE s == [sessions[g] EXCEPT !.phase = "DISCONNECTED", !.serving = FALSE]
<1>1. /\ sessions[g] \in BridgeSession /\ sessions[g].phase \notin {"ABSENT", "DISCONNECTED"}
      /\ sessions' = [sessions EXCEPT ![g] = s]
      /\ readyGeneration' = Forget(g) /\ active' = IF active = g THEN 0 ELSE active
      /\ UNCHANGED <<town, mode, raised, generation>>
  BY DEF BInv, SessionsKept, Leave
<1>2. s \in BridgeSession /\ s.phase = "DISCONNECTED" /\ s.serving = FALSE
  BY <1>1 DEF BridgeSession
<1> HIDE DEF s
<1>3. /\ SessionsKept' /\ sessions'[g].phase = "DISCONNECTED"
      /\ \A h \in Connection : h # g => sessions'[h] = sessions[h]
  BY <1>1, <1>2, OneSession
<1>4. /\ g \in Int /\ g > 0 /\ generation \in 0 .. MaxConn
      /\ generation = 0 \/ generation \in Connection
      /\ \A h \in Connection : h \in Int /\ h > 0
  BY ConnectionFact DEF BInv, SessionsKept
<1>5. IInv' /\ town'.version = town.version
  BY <1>1, EngineRests
<1>6. CASE g = generation
  <2>1. readyGeneration' = 0 /\ active' = 0
    BY <1>1, <1>4, <1>6 DEF Forget, BInv, GatesAgree
  <2>2. GatesAgree'
    <3>1. generation' = g /\ sessions'[g].phase = "DISCONNECTED"
      BY <1>1, <1>3, <1>6
    <3>2. \A h \in Connection : h # 0
      BY <1>4
    <3>3. QED BY <2>1, <3>1, <3>2 DEF GatesAgree
  <2>3. OfferCurrent' /\ Offered' = -1 /\ ~Ready'
    BY <1>1, <1>3, <1>4, <1>6, <2>1 DEF OfferCurrent, Offered, Ready
  <2>4. H!Release
    BY <1>1, <1>5, <2>3 DEF H!Release
  <2>5. QED BY <1>3, <1>5, <2>2, <2>3, <2>4 DEF BInv
<1>7. CASE g # generation
  <2>1. readyGeneration' = readyGeneration /\ active' = active
    BY <1>1, <1>4, <1>7 DEF Forget, BInv, GatesAgree
  <2>2. GatesAgree'
    BY <1>1, <1>3, <1>4, <1>7, <2>1 DEF BInv, GatesAgree
  <2>3. OfferCurrent'
    BY <1>1, <1>3, <1>4, <1>5, <1>7 DEF BInv, OfferCurrent
  <2>4. UNCHANGED H!vars
    BY <1>1, <1>3, <1>4, <1>5, <1>7, <2>1 DEF H!vars, Ready, Offered
  <2>5. QED BY <1>3, <1>5, <2>2, <2>3, <2>4 DEF BInv
<1>8. QED BY <1>6, <1>7

(* A message that advances the handshake of the latest connection.         *)
LEMMA AdvancesFact ==
  ASSUME BInv, NEW g \in Connection, Serving(g), NEW s \in BridgeSession,
         sessions' = [sessions EXCEPT ![g] = s], generation' = generation,
         UNCHANGED <<town, mode, raised, active>>,
         s.phase \notin {"ABSENT", "DISCONNECTED"},
         readyGeneration' = IF s.phase = "READY" THEN g ELSE readyGeneration,
         sessions[g].phase # "READY"
  PROVE  /\ SessionsKept' /\ sessions'[g] = s /\ GatesAgree' /\ IInv'
         /\ town'.version = town.version /\ g = generation /\ g # 0
         /\ readyGeneration # generation
<1>1. /\ g = generation /\ g # 0 /\ sessions[g].phase \notin {"ABSENT", "DISCONNECTED"}
      /\ \A h \in Connection : h # 0
  BY ConnectionFact DEF BInv, SessionsKept, Serving
<1>2. /\ SessionsKept' /\ sessions'[g] = s
      /\ \A h \in Connection : h # g => sessions'[h] = sessions[h]
  BY <1>1, OneSession
<1>3. readyGeneration # generation
  BY <1>1 DEF BInv, GatesAgree
<1>4. ASSUME NEW h \in Connection
      PROVE  sessions'[h].phase = "READY" /\ h = generation' <=> readyGeneration' = h
  <2>1. CASE h = g
    BY <1>1, <1>2, <1>3, <2>1
  <2>2. CASE h # g
    BY <1>1, <2>2 DEF BInv, GatesAgree
  <2>3. QED BY <2>1, <2>2
<1>5. active' = generation'
  BY <1>1 DEF BInv, GatesAgree
<1>6. GatesAgree'
  BY <1>1, <1>2, <1>4, <1>5 DEF GatesAgree
<1>7. IInv' /\ town'.version = town.version
  BY EngineRests
<1>8. QED BY <1>1, <1>2, <1>3, <1>6, <1>7

(* client_hello is nothing that Handover sees.                             *)
LEMMA ClientHelloRefines ==
  ASSUME BInv, NEW g \in Connection, ClientHello(g)
  PROVE  BInv' /\ UNCHANGED H!vars
<1> DEFINE s == [sessions[g] EXCEPT !.phase = "AWAITING_ASSET_REGISTRY"]
<1>1. /\ sessions[g] \in BridgeSession /\ sessions[g].phase = "AWAITING_CLIENT_HELLO"
      /\ sessions' = [sessions EXCEPT ![g] = s] /\ Serving(g)
      /\ UNCHANGED <<town, mode, raised, generation, readyGeneration, active>>
  BY DEF BInv, SessionsKept, ClientHello, Advances
<1>2. s \in BridgeSession /\ s.phase = "AWAITING_ASSET_REGISTRY"
  BY <1>1 DEF BridgeSession
<1> HIDE DEF s
<1>3. /\ SessionsKept' /\ sessions'[g] = s /\ GatesAgree' /\ IInv'
      /\ town'.version = town.version /\ g = generation
  BY <1>1, <1>2, AdvancesFact
<1>4. OfferCurrent' /\ UNCHANGED H!vars
  BY <1>1, <1>2, <1>3 DEF OfferCurrent, H!vars, Ready, Offered
<1>5. QED BY <1>3, <1>4 DEF BInv

(* asset_registry ends with the snapshot that is offered.                  *)
LEMMA AssetRegistryRefines ==
  ASSUME BInv, NEW g \in Connection, AssetRegistry(g)
  PROVE  BInv' /\ H!Offer
<1> DEFINE s == [sessions[g] EXCEPT !.phase = "AWAITING_CLIENT_READY", !.snapshot = town.version]
<1>1. /\ sessions[g] \in BridgeSession /\ sessions[g].phase = "AWAITING_ASSET_REGISTRY"
      /\ sessions' = [sessions EXCEPT ![g] = s] /\ Serving(g)
      /\ UNCHANGED <<town, mode, raised, generation, readyGeneration, active>>
  BY DEF BInv, SessionsKept, AssetRegistry
<1>2. town.version \in Int
  BY DEF BInv, IInv, Good, Context
<1>3. s \in BridgeSession /\ s.phase = "AWAITING_CLIENT_READY" /\ s.snapshot = town.version
  BY <1>1, <1>2 DEF BridgeSession
<1> HIDE DEF s
<1>4. /\ SessionsKept' /\ sessions'[g] = s /\ GatesAgree' /\ IInv'
      /\ town'.version = town.version /\ g = generation /\ g # 0
      /\ readyGeneration # generation
  BY <1>1, <1>3, AdvancesFact
<1>5. OfferCurrent'
  BY <1>1, <1>3, <1>4 DEF OfferCurrent
<1>6. H!Offer
  BY <1>1, <1>3, <1>4 DEF H!Offer, Ready, Offered
<1>7. QED BY <1>4, <1>5, <1>6 DEF BInv

(* client_ready is accepted only for the world as it is.                   *)
LEMMA ClientReadyRefines ==
  ASSUME BInv, NEW g \in Connection, NEW v, ClientReady(g, v)
  PROVE  BInv' /\ H!Grant
<1> DEFINE s == [sessions[g] EXCEPT !.phase = "READY"]
<1>1. /\ sessions[g] \in BridgeSession /\ sessions[g].phase = "AWAITING_CLIENT_READY"
      /\ sessions' = [sessions EXCEPT ![g] = s] /\ Serving(g) /\ readyGeneration' = g
      /\ UNCHANGED <<town, mode, raised, generation, active>>
  BY DEF BInv, SessionsKept, ClientReady, Advances
<1>2. s \in BridgeSession /\ s.phase = "READY"
  BY <1>1 DEF BridgeSession
<1> HIDE DEF s
<1>3. /\ SessionsKept' /\ sessions'[g] = s /\ GatesAgree' /\ IInv'
      /\ town'.version = town.version /\ g = generation /\ g # 0
  BY <1>1, <1>2, AdvancesFact
<1>4. OfferCurrent' /\ Offered' = -1
  BY <1>1, <1>2, <1>3 DEF OfferCurrent, Offered
<1>5. Offered = town.version
  BY <1>1, <1>3 DEF BInv, OfferCurrent, Offered
<1>6. H!Grant
  BY <1>1, <1>3, <1>4, <1>5 DEF H!Grant, Ready
<1>7. QED BY <1>3, <1>4, <1>6 DEF BInv

(* One case for every disjunct of the next-state relation.                 *)
LEMMA StepRefines == ASSUME BInv, [BridgeNext]_allVars PROVE BInv' /\ [H!Next]_(H!vars)
<1>1. CASE Connect
  BY <1>1, ConnectRefines DEF H!Next
<1>2. CASE ClockTick
  <2>1. Advance /\ Ready /\ UNCHANGED <<sessions, generation, readyGeneration, active>>
    BY <1>2 DEF ClockTick, Ticks, bridge
  <2>2. QED BY <2>1, WriteKeeps DEF H!Next
<1>3. ASSUME NEW g \in Connection,
             Refuse(g) \/ Leave(g) \/ ClientHello(g) \/ AssetRegistry(g)
      PROVE  BInv' /\ [H!Next]_(H!vars)
  BY <1>3, RefuseRefines, LeaveRefines, ClientHelloRefines, AssetRegistryRefines DEF H!Next
<1>4. ASSUME NEW g \in Connection, NEW v, ClientReady(g, v)
      PROVE  BInv' /\ [H!Next]_(H!vars)
  BY <1>4, ClientReadyRefines DEF H!Next
<1>5. ASSUME NEW g \in Connection, NEW v, NEW id,
             MovementArrived(g, v, id) \/ MovementFailed(g, v, id)
      PROVE  BInv' /\ [H!Next]_(H!vars)
  <2>1. /\ ReportArrived \/ ReportEnded
        /\ Ready /\ UNCHANGED <<sessions, generation, readyGeneration, active>>
    BY <1>5 DEF MovementArrived, MovementFailed, Reports, bridge
  <2>2. QED BY <2>1, WriteKeeps DEF H!Next
<1>6. ASSUME NEW g \in Connection, NEW id, MovementCancelled(g, id)
      PROVE  BInv' /\ [H!Next]_(H!vars)
  <2>1. Ready /\ UNCHANGED <<sessions, generation, readyGeneration, active>>
    BY <1>6 DEF MovementCancelled, Reports
  <2>2. CASE ReportEnded
    BY <2>1, <2>2, WriteKeeps DEF H!Next
  <2>3. CASE UNCHANGED <<vars, stream>>
    BY <2>1, <2>3, RestKeeps DEF vars
  <2>4. QED BY <1>6, <2>2, <2>3 DEF MovementCancelled
<1>7. ASSUME NEW g \in Connection, NEW s, SetTimeScale(g, s)
      PROVE  BInv' /\ [H!Next]_(H!vars)
  BY <1>7, RestKeeps DEF SetTimeScale
<1>8. ASSUME NEW g \in Connection, NEW p, PauseRequest(g, p)
      PROVE  BInv' /\ [H!Next]_(H!vars)
  BY <1>8, RestKeeps DEF PauseRequest
<1>9. CASE UNCHANGED allVars
  BY <1>9, RestKeeps DEF allVars
<1>10. QED
  BY <1>1, <1>2, <1>3, <1>4, <1>5, <1>6, <1>7, <1>8, <1>9 DEF BridgeNext

(* BInv holds after every step of the composition.                         *)
LEMMA BridgeInvariant == BridgeSpec => []BInv
<1>1. BInv /\ [BridgeNext]_allVars => BInv'
  BY StepRefines
<1>2. QED BY InitBInv, <1>1, PTL DEF BridgeSpec

(* Session, runtime and server agree on who is ready and who is active,    *)
(* however many handlers are alive and in whatever order they end.         *)
THEOREM GatesAlwaysAgree == BridgeSpec => []GatesAgree
<1>1. BInv => GatesAgree
  BY DEF BInv
<1>2. QED BY <1>1, BridgeInvariant, PTL

(* The world is written on behalf of the latest connection only, and given *)
(* to it only after it has acknowledged exactly this world.                *)
THEOREM ImplementsHandover == BridgeSpec => HandsOver
<1>1. BridgeInit => H!Init
  BY DEF BridgeInit, Init, H!Init, Ready, Offered
<1>2. BInv /\ [BridgeNext]_allVars => [H!Next]_(H!vars)
  BY StepRefines
<1>3. QED BY <1>1, <1>2, BridgeInvariant, PTL DEF BridgeSpec, HandsOver, H!Spec

(* The composition never asks the engine for a minute or a report that it  *)
(* would refuse to commit.                                                 *)
THEOREM NothingIsRaisedLive == BridgeSpec => []NeverRaises
<1>1. BInv => NeverRaises
  BY DEF BInv, IInv, NeverRaises
<1>2. QED BY <1>1, BridgeInvariant, PTL
-----------------------------------------------------------------------------
(* The evidence of cancellations.                                          *)

(* A context that numbers its actions; nothing else of it matters here.    *)
Numbers(w) ==
  /\ {"created", "action"} \subseteq DOMAIN w /\ w.created \in Nat
  /\ w.action # None => "id" \in DOMAIN w.action

(* From w to v no action begins: the one of v, if any, is that of w.       *)
Continues(w, v) ==
  /\ Numbers(v) /\ v.created = w.created
  /\ v.action # None => w.action # None /\ v.action.id = w.action.id

(* From w to v at most one action begins, with the next number.            *)
Begins(w, v) ==
  /\ Numbers(v) /\ v.created = w.created + 1
  /\ v.action # None => v.action.id = v.created
Follows(w, v) == Continues(w, v) \/ Begins(w, v)

LEMMA ContinuesOn ==
  ASSUME NEW u, NEW v, NEW w, Continues(u, v), Continues(v, w)
  PROVE  Continues(u, w)
BY DEF Continues

(* An update of anything but the action and the counter.                   *)
LEMMA FieldContinues ==
  ASSUME NEW w, Numbers(w), NEW f, f \notin {"created", "action"}, NEW e
  PROVE  Continues(w, [w EXCEPT ![f] = e])
BY DEF Numbers, Continues

(* A new phase of the action.                                              *)
LEMMA PhaseContinues ==
  ASSUME NEW w, Numbers(w), w.action # None, NEW phase
  PROVE  Continues(w, [w EXCEPT !.action.phase = phase])
BY DEF Numbers, Continues

(* The end of the action.                                                  *)
LEMMA NoneContinues ==
  ASSUME NEW w, Numbers(w)
  PROVE  Continues(w, [w EXCEPT !.action = None])
BY DEF Numbers, Continues

LEMMA StageContinues ==
  ASSUME NEW w, Numbers(w), NEW type, NEW day, NEW needs
  PROVE  Continues(w, StageAbout(w, type, day, needs))
BY FieldContinues DEF StageAbout

LEMMA MaterializeContinues ==
  ASSUME NEW w, Numbers(w), NEW day
  PROVE  Continues(w, Materialize(w, day))
BY FieldContinues DEF Materialize, Numbers, Continues

LEMMA DropContinues ==
  ASSUME NEW w, Numbers(w)
  PROVE  Continues(w, Drop(w))
BY DEF Drop, Release, Numbers, Continues

LEMMA NeedChangesContinue ==
  ASSUME NEW w, Numbers(w)
  PROVE  Continues(w, ApplyNeedChanges(w))
<1> DEFINE felt == [w EXCEPT !.needs =
                      [n \in Need |-> Clamp(@[n] - PassiveDecay(w, n) + ActiveDelta(w, n))]]
           day == w.action.session
<1>1. Continues(w, felt)
  BY FieldContinues
<1> HIDE DEF felt, day
<1>2. Continues(felt, [felt EXCEPT !.sessions[day].effective = @ + 1])
  BY <1>1, FieldContinues DEF Continues
<1>3. Continues(w, [felt EXCEPT !.sessions[day].effective = @ + 1])
  BY <1>1, <1>2, ContinuesOn
<1>4. QED BY <1>1, <1>3 DEF ApplyNeedChanges, felt, day

LEMMA PerformingContinues ==
  ASSUME NEW w, Numbers(w), w.action # None
  PROVE  Continues(w, StartPerforming(w))
<1> DEFINE on == [w EXCEPT !.action.phase = "PERFORMING"]
           day == w.action.session
           s == w.sessions[day]
           first == s.first = Never
           begun == IF s.started THEN on ELSE Stage(on, "WORK_STARTED", day)
           tardy == first /\ w.minute > Start(day) /\ ~s.late
           staged == IF tardy THEN Stage(begun, "WORK_LATE", day) ELSE begun
           t == [s EXCEPT !.first = IF first THEN w.minute ELSE @,
                          !.started = TRUE, !.late = @ \/ tardy]
           v == [staged EXCEPT !.sessions[day] = t]
<1>1. Continues(w, on)
  BY PhaseContinues
<1> HIDE DEF on, s, first, tardy
<1>2. Continues(w, begun)
  <2>1. Continues(on, Stage(on, "WORK_STARTED", day))
    BY <1>1, StageContinues DEF Stage, Continues
  <2>2. QED BY <1>1, <2>1, ContinuesOn
<1> HIDE DEF begun
<1>3. Continues(w, staged)
  <2>1. Continues(begun, Stage(begun, "WORK_LATE", day))
    BY <1>2, StageContinues DEF Stage, Continues
  <2>2. QED BY <1>2, <2>1, ContinuesOn
<1> HIDE DEF staged, t
<1>4. Continues(w, v)
  <2>1. Continues(staged, v)
    BY <1>3, FieldContinues DEF Continues
  <2>2. QED BY <1>3, <2>1, ContinuesOn
<1>5. StartPerforming(w) = IF w.action.behavior # "work_shift" THEN on ELSE v
  BY DEF StartPerforming, on, s, first, tardy, begun, staged, t
<1> HIDE DEF v
<1>6. QED BY <1>1, <1>4, <1>5

LEMMA ArriveContinues ==
  ASSUME NEW w, Numbers(w), w.action # None
  PROVE  Continues(w, Arrive(w))
<1> DEFINE here == [w EXCEPT !.at = w.action.dest, !.present = @ \cup {w.action.dest}]
<1>1. Continues(w, here) /\ here.action = w.action
  BY DEF Numbers, Continues
<1> HIDE DEF here
<1>2. Continues(here, [here EXCEPT !.action.phase = "ALIGNING"])
  BY <1>1, PhaseContinues DEF Continues
<1>3. Continues(here, StartPerforming(here))
  BY <1>1, PerformingContinues DEF Continues
<1>4. Continues(here, Arrive(w))
  BY <1>2, <1>3 DEF Arrive, here
<1>5. QED BY <1>1, <1>4, ContinuesOn

LEMMA AbandonTripContinues ==
  ASSUME NEW w, Numbers(w)
  PROVE  Continues(w, AbandonTrip(w)) /\ AbandonTrip(w).action = None
<1> DEFINE u == Drop(w)
<1>1. Continues(w, u) /\ u.action = None
  <2>1. "action" \in DOMAIN Release(w)
    BY DEF Release, Numbers
  <2>2. u.action = None
    BY <2>1 DEF Drop
  <2>3. QED BY <2>2, DropContinues
<1> HIDE DEF u
<1>2. /\ Continues(u, [u EXCEPT !.at = w.action.origin, !.present = @ \cup {w.action.origin}])
      /\ [u EXCEPT !.at = w.action.origin, !.present = @ \cup {w.action.origin}].action = None
  BY <1>1 DEF Numbers, Continues
<1>3. QED BY <1>1, <1>2, ContinuesOn DEF AbandonTrip, u

LEMMA ResolveContinues ==
  ASSUME NEW w, Numbers(w)
  PROVE  Continues(w, Resolve(w))
<1> DEFINE fed == [w EXCEPT !.food = @ - w.action.food, !.needs = CompletionNeeds(w)]
           staged == Stage(fed, "MEAL_CONSUMED", NoDay)
<1>1. Continues(w, fed)
  BY DEF Numbers, Continues
<1> HIDE DEF fed
<1>2. Continues(fed, staged)
  BY <1>1, StageContinues DEF Stage, Continues
<1> HIDE DEF staged
<1>3. Continues(staged, Drop(staged))
  BY <1>2, DropContinues DEF Continues
<1>4. Continues(w, Drop(staged))
  BY <1>1, <1>2, <1>3, ContinuesOn
<1>5. Continues(w, Drop(w))
  BY DropContinues
<1>6. QED BY <1>4, <1>5 DEF Resolve, staged, fed

(* The progress of the action and the end of a shift.                      *)
LEMMA ProgressContinues ==
  ASSUME NEW w, Numbers(w)
  PROVE  Continues(w, Progress(w))
<1>1. Continues(w, w)
  BY DEF Continues
<1>2. Continues(w, AbandonTrip(w))
  BY AbandonTripContinues
<1> DEFINE u == ArriveIfDue(w)
           a == AlignIfDue(u)
<1>3. Continues(w, u)
  BY <1>1, ArriveContinues DEF ArriveIfDue
<1> HIDE DEF u
<1>4. Continues(u, a)
  BY <1>3, PerformingContinues DEF AlignIfDue, Continues
<1> HIDE DEF a
<1>5. Continues(a, ResolveIfDue(a))
  BY <1>4, ResolveContinues DEF ResolveIfDue, Continues
<1>6. Continues(w, ResolveIfDue(a))
  BY <1>3, <1>4, <1>5, ContinuesOn
<1>7. QED BY <1>1, <1>2, <1>6 DEF Progress, u, a

LEMMA FinalizeContinues ==
  ASSUME NEW w, Numbers(w)
  PROVE  Continues(w, Finalize(w))
<1> DEFINE day == w.minute \div DayLength
           opened == Materialize(w, day)
           s == opened.sessions[day]
           settled == [opened EXCEPT !.sessions[day].finalized = TRUE]
           paid == [settled EXCEPT !.money = @ + Wage, !.sessions[day].paid = TRUE]
           done == Stage(paid, "WORK_COMPLETED", day)
           missed == Stage(settled, "WORK_MISSED", day)
<1>1. Continues(w, w) /\ Continues(w, opened)
  BY MaterializeContinues DEF Continues
<1> HIDE DEF day, opened
<1>2. Continues(opened, settled)
  BY <1>1, FieldContinues DEF Continues
<1> HIDE DEF settled
<1>3. Continues(settled, paid)
  BY <1>2 DEF Numbers, Continues
<1> HIDE DEF paid
<1>4. Continues(paid, done) /\ Continues(settled, missed)
  BY <1>2, <1>3, StageContinues DEF Stage, Continues
<1> HIDE DEF done, missed
<1>5. Continues(w, done) /\ Continues(w, missed)
  BY <1>1, <1>2, <1>3, <1>4, ContinuesOn
<1>6. QED BY <1>1, <1>5 DEF Finalize, day, opened, settled, paid, done, missed

LEMMA CrisesContinue ==
  ASSUME NEW w, Numbers(w)
  PROVE  Continues(w, UpdateCrises(w))
<1> DEFINE entered == InCrisis(w) \ w.crises
           staged == IF entered = {} THEN w ELSE StageAbout(w, "NEED_CRISIS", NoDay, entered)
<1>1. Continues(w, staged)
  BY StageContinues DEF Continues
<1> HIDE DEF staged
<1>2. Continues(staged, [staged EXCEPT !.crises = InCrisis(w)])
  BY <1>1, FieldContinues DEF Continues
<1>3. QED BY <1>1, <1>2, ContinuesOn DEF UpdateCrises, staged

(* _create_action begins the next action.                                  *)
LEMMA CreateBegins ==
  ASSUME NEW w, Numbers(w), NEW c
  PROVE  Begins(w, Create(w, c))
<1> DEFINE day == IF c.behavior = "work_shift" THEN Window(w.minute) ELSE NoDay
           arrival == w.minute + c.travel
           start == IF day = NoDay THEN arrival ELSE WorkStart(w, c.travel, day)
           id == w.created + 1
           b == [id |-> id, behavior |-> c.behavior, phase |-> "CREATED",
                 objects |-> c.objects, food |-> c.food, dest |-> c.dest,
                 origin |-> w.at, arrival |-> arrival, start |-> start,
                 duration |-> c.duration, end |-> start + c.duration, session |-> day]
           made == [w EXCEPT !.created = id,
                             !.slots = [o \in Objects |-> IF o \in c.objects THEN id ELSE @[o]],
                             !.reserved = @ + c.food, !.action = b]
           away == [made EXCEPT !.at = Traveling, !.present = @ \ {w.at},
                                !.action.phase = "TRAVELING"]
           waiting == [made EXCEPT !.action.phase = "ALIGNING"]
<1>1. b.id = id /\ b # None /\ "id" \in DOMAIN b
  BY DEF None
<1> HIDE DEF b
<1>2. /\ Numbers(made) /\ made.created = w.created + 1 /\ made.action = b
  BY <1>1 DEF Numbers
<1> HIDE DEF made
<1>3. Continues(made, waiting) /\ Continues(made, StartPerforming(made))
  BY <1>1, <1>2, PhaseContinues, PerformingContinues
<1>4. Continues(made, away)
  BY <1>1, <1>2 DEF Numbers, Continues
<1> HIDE DEF away, waiting
<1>5. \A v : Continues(made, v) => Begins(w, v)
  BY <1>1, <1>2 DEF Continues, Begins
<1>6. Create(w, c) \in {away, waiting, StartPerforming(made)}
  BY DEF Create, day, arrival, start, b, made, away, waiting
<1>7. QED BY <1>3, <1>4, <1>5, <1>6

(* A minute and a report begin at most one action, with the next number.   *)
LEMMA CommitFollows ==
  ASSUME NEW w, Numbers(town), Follows(town, w), Commit(w)
  PROVE  Follows(town, town')
<1>1. town' = town \/ town' = [w EXCEPT !.version = @ + 1]
  BY DEF Commit
<1>2. Follows(town, [w EXCEPT !.version = @ + 1])
  <2>1. Numbers(w)
    BY DEF Follows, Continues, Begins
  <2>2. Continues(w, [w EXCEPT !.version = @ + 1])
    BY <2>1, FieldContinues
  <2> HIDE DEF Numbers
  <2>3. QED BY <2>2 DEF Follows, Continues, Begins
<1>3. Follows(town, town)
  BY DEF Follows, Continues
<1>4. QED BY <1>1, <1>2, <1>3

LEMMA AdvanceFollows ==
  ASSUME Numbers(town), Advance
  PROVE  Follows(town, town')
<1> DEFINE u == [town EXCEPT !.minute = @ + 1]
<1>1. Continues(town, u)
  BY FieldContinues
<1>2. PICK felt, moved, closed, staged, next :
        /\ felt = ApplyNeedChanges(u) /\ moved = Progress(felt) /\ closed = Finalize(moved)
        /\ staged = UpdateCrises(closed)
        /\ next \in IF staged.action # None THEN {staged} ELSE Decided(OpenWindow(staged))
        /\ IF next = None THEN Raise ELSE Commit(next)
  BY DEF Advance
<1> HIDE DEF u
<1>3. Continues(town, felt)
  BY <1>1, <1>2, NeedChangesContinue, ContinuesOn DEF Continues
<1>4. Continues(town, moved)
  <2>1. Continues(felt, moved)
    BY <1>2, <1>3, ProgressContinues DEF Continues
  <2>2. QED BY <1>3, <2>1, ContinuesOn
<1>5. Continues(town, closed)
  <2>1. Continues(moved, closed)
    BY <1>2, <1>4, FinalizeContinues DEF Continues
  <2>2. QED BY <1>4, <2>1, ContinuesOn
<1>6. Continues(town, staged)
  <2>1. Continues(closed, staged)
    BY <1>2, <1>5, CrisesContinue DEF Continues
  <2>2. QED BY <1>5, <2>1, ContinuesOn
<1>7. next = None \/ Follows(town, next)
  <2>1. CASE staged.action # None
    BY <1>2, <1>6, <2>1 DEF Follows
  <2>2. CASE staged.action = None
    <3> DEFINE o == OpenWindow(staged)
    <3>1. Continues(staged, o)
      <4>1. Numbers(staged)
        BY <1>6 DEF Continues
      <4>2. QED BY <4>1, MaterializeContinues DEF OpenWindow, Continues
    <3>2. Continues(town, o)
      BY <1>6, <3>1, ContinuesOn
    <3>3. next = None \/ \E c : next = Create(o, c)
      BY <1>2, <2>2 DEF Decided
    <3> HIDE DEF o
    <3>4. \A c : Begins(o, Create(o, c))
      BY <3>2, CreateBegins DEF Continues
    <3>5. \A v : Begins(o, v) => Begins(town, v)
      BY <3>2 DEF Continues, Begins
    <3>6. QED BY <3>3, <3>4, <3>5 DEF Follows
  <2>3. QED BY <2>1, <2>2
<1>8. CASE next = None
  BY <1>2, <1>8 DEF Raise, Follows, Continues
<1>9. CASE next # None
  BY <1>2, <1>7, <1>9, CommitFollows
<1>10. QED BY <1>8, <1>9

LEMMA ReportArrivedFollows ==
  ASSUME IInv, Numbers(town), ReportArrived
  PROVE  Follows(town, town')
<1> DEFINE start == IF town.minute > town.action.start THEN town.minute ELSE town.action.start
           u == [town EXCEPT !.action.start = start, !.action.end = start + town.action.duration]
<1>1. town.action # None /\ town.action \in Action
  BY DEF IInv, Good, Placed, Context, Reportable, ReportArrived
<1>2. Continues(town, u) /\ u.action # None
  <2> HIDE DEF start
  <2>1. u.action = [town.action EXCEPT !.start = start, !.end = start + town.action.duration]
    BY DEF Numbers
  <2>2. /\ u.action.id = town.action.id /\ "id" \in DOMAIN u.action
        /\ "id" \notin DOMAIN None
    BY <1>1, <2>1 DEF Action, None
  <2>3. u.action # None
    BY <2>2
  <2>4. QED BY <1>1, <2>2, <2>3 DEF Numbers, Continues
<1>3. Commit(Arrive(u))
  BY DEF ReportArrived
<1> HIDE DEF u
<1>4. Continues(town, Arrive(u))
  BY <1>2, ArriveContinues, ContinuesOn DEF Continues
<1>5. QED BY <1>3, <1>4, CommitFollows DEF Follows

(* An abandoned trip leaves no action.                                     *)
LEMMA ReportEndedFollows ==
  ASSUME IInv, Numbers(town), ReportEnded
  PROVE  Continues(town, town') /\ town'.action = None
<1> DEFINE v == AbandonTrip(town)
<1>1. town.action # None /\ town.at = Traveling /\ Good(town)
  BY DEF IInv, Good, Placed, Reportable, ReportEnded
<1>2. Good(v)
  BY <1>1, AbandonTripGood
<1>3. Continues(town, v) /\ v.action = None
  BY AbandonTripContinues
<1> HIDE DEF v
<1>4. town' = [v EXCEPT !.version = @ + 1]
  BY <1>2, GoodIsConsistent DEF ReportEnded, Commit, v
<1>5. Continues(v, town') /\ town'.action = v.action
  BY <1>3, <1>4, FieldContinues DEF Continues, Numbers
<1>6. QED BY <1>3, <1>5, ContinuesOn

(* The records of the evidence, and what is over once one is made: its     *)
(* world, its connection, and the action that was cancelled.               *)
EvidenceRecord ==
  [generation: Connection, action: Nat, accepted: BOOLEAN, before: Nat, after: Nat]
Past(e) ==
  /\ e.after <= town.version /\ e.generation <= generation
  /\ e.accepted => /\ e.action <= town.created
                   /\ town.action # None => e.action < town.action.id

(* EvidenceTrue by itself is not inductive: the next record is compared    *)
(* with the town, so everything recorded has to be past there.             *)
EInv ==
  /\ inputs \in Seq(EvidenceRecord) /\ EvidenceTrue
  /\ \A i \in 1 .. Len(inputs) : Past(inputs[i])
  /\ Numbers(town)
  /\ town.action # None => town.action.id \in Nat /\ town.action.id <= town.created

(* Nothing that happens to the town or to the connections undoes a record. *)
LEMMA RecordsRest ==
  ASSUME EInv, Follows(town, town'), town.version \in Nat, generation \in Nat,
         town'.version = town.version \/ town'.version = town.version + 1,
         generation' = generation \/ generation' = generation + 1
  PROVE  /\ \A e \in EvidenceRecord : Past(e) => Past(e)'
         /\ Numbers(town')
         /\ town'.action # None => town'.action.id \in Nat /\ town'.action.id <= town'.created
<1>1. /\ town.created \in Nat /\ town'.created \in Nat /\ town.created <= town'.created
      /\ Numbers(town')
  BY DEF EInv, Numbers, Follows, Continues, Begins
<1>2. town'.action # None =>
        \/ town.action # None /\ town'.action.id = town.action.id
        \/ town'.action.id = town.created + 1 /\ town'.created = town.created + 1
  BY DEF Follows, Continues, Begins
<1>3. town.action # None => town.action.id \in Nat /\ town.action.id <= town.created
  BY DEF EInv
<1>4. ASSUME NEW e \in EvidenceRecord, Past(e) PROVE Past(e)'
  <2>1. e.after \in Nat /\ e.generation \in Int /\ e.action \in Nat
    BY ConnectionFact DEF EvidenceRecord
  <2>2. e.after <= town'.version /\ e.generation <= generation'
    BY <1>4, <2>1 DEF Past
  <2>3. ASSUME e.accepted
        PROVE  e.action <= town'.created /\ (town'.action # None => e.action < town'.action.id)
    <3>1. e.action <= town.created /\ (town.action # None => e.action < town.action.id)
      BY <1>4, <2>3 DEF Past
    <3>2. QED BY <1>1, <1>2, <2>1, <3>1
  <2>4. QED BY <2>2, <2>3 DEF Past
<1>5. QED BY <1>1, <1>2, <1>3, <1>4

(* A step that records nothing.                                            *)
LEMMA NoRecord ==
  ASSUME BInv, EInv, Follows(town, town'),
         town'.version = town.version \/ town'.version = town.version + 1,
         generation' = generation \/ generation' = generation + 1, inputs' = inputs
  PROVE  EInv'
<1>1. town.version \in Nat /\ generation \in Nat
  <2>1. generation \in 0 .. MaxConn /\ MaxConn \in Nat
    BY ConnectionFact DEF BInv, SessionsKept
  <2>2. QED BY <2>1 DEF BInv, IInv, Good, Context
<1>2. /\ \A e \in EvidenceRecord : Past(e) => Past(e)'
      /\ Numbers(town')
      /\ town'.action # None => town'.action.id \in Nat /\ town'.action.id <= town'.created
  BY <1>1, RecordsRest
<1>3. \A i \in 1 .. Len(inputs) : inputs[i] \in EvidenceRecord /\ Past(inputs[i])
  BY DEF EInv
<1>4. inputs' \in Seq(EvidenceRecord) /\ EvidenceTrue'
  BY DEF EInv, EvidenceTrue
<1>5. (\A i \in 1 .. Len(inputs) : Past(inputs[i]))'
  BY <1>2, <1>3 DEF Past
<1>6. QED BY <1>2, <1>4, <1>5 DEF EInv, Numbers

(* A new record: an accepted one is a commit that ended the trip it names, *)
(* a rejected one left the town alone.                                     *)
LEMMA CancelledRecord ==
  ASSUME BInv, EInv, NEW g \in Connection, NEW id \in 1 .. town.created,
         MovementCancelled(g, id)
  PROVE  EInv'
<1> DEFINE accepted == Names(id) /\ Reportable
           e == Evidence(g, id, accepted)
<1>1. /\ IInv /\ town.version \in Nat /\ generation \in Nat /\ town.created \in Nat
      /\ id \in Nat /\ id <= town.created /\ g = generation /\ generation' = generation
      /\ Numbers(town)
  <2>1. generation \in 0 .. MaxConn /\ MaxConn \in Nat
    BY ConnectionFact DEF BInv, SessionsKept
  <2>2. town \in Context
    BY DEF BInv, IInv, Good
  <2>3. town.created \in Nat /\ town.version \in Nat
    BY <2>2 DEF Context
  <2>4. g = generation /\ generation' = generation
    BY DEF MovementCancelled, Reports, Serving
  <2>5. QED BY <2>1, <2>3, <2>4 DEF BInv, EInv
<1>2. inputs' = Append(inputs, e)
  BY DEF MovementCancelled
<1>3. /\ accepted => ReportEnded /\ id = town.action.id
      /\ ~accepted => town' = town
  BY DEF MovementCancelled, Names, vars
<1>4. /\ Follows(town, town')
      /\ town'.version = town.version + (IF accepted THEN 1 ELSE 0)
      /\ accepted => town.action # None /\ town'.action = None
      /\ town'.created = town.created
  <2>1. CASE accepted
    <3>1. Continues(town, town') /\ town'.action = None
      BY <1>1, <1>3, <2>1, ReportEndedFollows
    <3>2. town'.version = town.version + 1
      BY <1>3, <2>1, EngineStep
    <3>3. QED BY <2>1, <3>1, <3>2 DEF Follows, Continues, Names
  <2>2. CASE ~accepted
    BY <1>1, <1>3, <2>2 DEF Follows, Continues
  <2>3. QED BY <2>1, <2>2
<1>5. /\ e.generation = g /\ e.action = id /\ e.accepted = accepted
      /\ e.before = town.version /\ e.after = town'.version /\ e \in EvidenceRecord
  BY <1>1, <1>4 DEF Evidence, EvidenceRecord
<1> HIDE DEF e, accepted
<1>6. /\ \A r \in EvidenceRecord : Past(r) => Past(r)'
      /\ Numbers(town')
      /\ town'.action # None => town'.action.id \in Nat /\ town'.action.id <= town'.created
  <2>1. \/ town'.version = town.version
        \/ town'.version = town.version + 1
    BY <1>1, <1>4
  <2>2. QED BY <1>1, <1>4, <2>1, RecordsRest
<1>7. /\ Len(inputs) \in Nat /\ Len(inputs') = Len(inputs) + 1
      /\ inputs'[Len(inputs) + 1] = e /\ inputs' \in Seq(EvidenceRecord)
      /\ \A i \in 1 .. Len(inputs) : inputs'[i] = inputs[i]
  BY <1>2, <1>5, AppendProperties DEF EInv
<1>8. \A i \in 1 .. Len(inputs) : inputs[i] \in EvidenceRecord /\ Past(inputs[i])
  BY DEF EInv
<1> DEFINE PastNext(r) ==
             /\ r.after <= town'.version /\ r.generation <= generation'
             /\ r.accepted => /\ r.action <= town'.created
                              /\ town'.action # None => r.action < town'.action.id
<1>9. PastNext(e) /\ \A r \in EvidenceRecord : Past(r) => PastNext(r)
  <2>1. PastNext(e)
    BY <1>1, <1>4, <1>5
  <2>2. \A r \in EvidenceRecord : Past(r) => PastNext(r)
    BY <1>6 DEF Past
  <2>3. QED BY <2>1, <2>2
<1>10. (\A i \in 1 .. Len(inputs) : Past(inputs[i]))'
  <2> HIDE DEF PastNext
  <2>1. ASSUME NEW i \in 1 .. Len(inputs') PROVE PastNext(inputs'[i])
    <3>1. CASE i = Len(inputs) + 1
      BY <1>7, <1>9, <3>1
    <3>2. CASE i # Len(inputs) + 1
      <4>1. i \in 1 .. Len(inputs)
        BY <1>7, <3>2
      <4>2. QED BY <1>7, <1>8, <1>9, <4>1
    <3>3. QED BY <3>1, <3>2
  <2>2. QED BY <2>1 DEF Past, PastNext
<1>11. EvidenceTrue'
  <2>1. ASSUME NEW i \in 1 .. Len(inputs')
        PROVE  inputs'[i].after = inputs'[i].before + (IF inputs'[i].accepted THEN 1 ELSE 0)
    <3>1. CASE i = Len(inputs) + 1
      BY <1>4, <1>5, <1>7, <3>1
    <3>2. CASE i # Len(inputs) + 1
      <4>1. i \in 1 .. Len(inputs)
        BY <1>7, <3>2
      <4>2. QED BY <1>7, <4>1 DEF EInv, EvidenceTrue
    <3>3. QED BY <3>1, <3>2
  <2>2. ASSUME NEW i \in 1 .. Len(inputs'), NEW j \in 1 .. Len(inputs'), i < j
        PROVE  /\ inputs'[i].after <= inputs'[j].before
               /\ inputs'[i].generation <= inputs'[j].generation
               /\ inputs'[i].accepted /\ inputs'[j].accepted =>
                    inputs'[i].action < inputs'[j].action
    <3>1. i \in 1 .. Len(inputs) /\ inputs'[i] = inputs[i]
      BY <1>7, <2>2
    <3>2. CASE j = Len(inputs) + 1
      <4>1. Past(inputs[i]) /\ inputs'[j] = e
        BY <1>7, <1>8, <3>1, <3>2
      <4>2. inputs[i].after <= e.before /\ inputs[i].generation <= e.generation
        BY <1>1, <1>5, <4>1 DEF Past
      <4>3. inputs[i].accepted /\ e.accepted => inputs[i].action < e.action
        BY <1>3, <1>4, <1>5, <4>1 DEF Past
      <4>4. QED BY <3>1, <4>1, <4>2, <4>3
    <3>3. CASE j # Len(inputs) + 1
      <4>1. j \in 1 .. Len(inputs) /\ inputs'[j] = inputs[j]
        BY <1>7, <3>3
      <4>2. QED BY <2>2, <3>1, <4>1 DEF EInv, EvidenceTrue
    <3>4. QED BY <3>2, <3>3
  <2>3. QED BY <2>1, <2>2 DEF EvidenceTrue
<1>12. QED BY <1>6, <1>7, <1>10, <1>11 DEF EInv, Numbers

(* One case for every disjunct of the next-state relation.                 *)
LEMMA StepRecords == ASSUME BInv, EInv, [BridgeNext]_allVars PROVE EInv'
<1>1. Numbers(town) /\ IInv
  BY DEF EInv, BInv
<1>2. ASSUME UNCHANGED <<town, inputs>>, generation' = generation \/ generation' = generation + 1
      PROVE  EInv'
  BY <1>1, <1>2, NoRecord DEF Follows, Continues
<1>3. ASSUME Advance \/ ReportArrived \/ ReportEnded, generation' = generation, inputs' = inputs
      PROVE  EInv'
  <2>1. Follows(town, town')
    BY <1>1, <1>3, AdvanceFollows, ReportArrivedFollows, ReportEndedFollows DEF Follows
  <2>2. town'.version = town.version + 1
    BY <1>3, EngineStep
  <2>3. QED BY <1>3, <2>1, <2>2, NoRecord
<1>4. CASE Connect
  BY <1>2, <1>4 DEF Connect
<1>5. CASE ClockTick
  BY <1>3, <1>5 DEF ClockTick, bridge
<1>6. ASSUME NEW g \in Connection, NEW v,
             Refuse(g) \/ Leave(g) \/ ClientHello(g) \/ AssetRegistry(g) \/ ClientReady(g, v)
      PROVE  EInv'
  BY <1>2, <1>6 DEF Refuse, Leave, ClientHello, AssetRegistry, ClientReady, Advances
<1>7. ASSUME NEW g \in Connection, NEW v, NEW id,
             MovementArrived(g, v, id) \/ MovementFailed(g, v, id)
      PROVE  EInv'
  BY <1>3, <1>7 DEF MovementArrived, MovementFailed, bridge
<1>8. ASSUME NEW g \in Connection, NEW id \in 1 .. town.created, MovementCancelled(g, id)
      PROVE  EInv'
  BY <1>8, CancelledRecord
<1>9. ASSUME NEW g \in Connection, NEW s, SetTimeScale(g, s) \/ PauseRequest(g, s)
      PROVE  EInv'
  BY <1>2, <1>9 DEF SetTimeScale, PauseRequest
<1>10. CASE UNCHANGED allVars
  BY <1>2, <1>10 DEF allVars
<1>11. QED
  BY <1>4, <1>5, <1>6, <1>7, <1>8, <1>9, <1>10 DEF BridgeNext

(* The evidence of cancellations is true of every run: an accepted one is  *)
(* exactly one commit, a rejected one none, no action is cancelled twice,  *)
(* and the records follow the order of the worlds and the connections.     *)
THEOREM EvidenceIsTrue == BridgeSpec => []EvidenceTrue
<1>1. BridgeInit => EInv
  <2> SUFFICES ASSUME BridgeInit PROVE EInv
    OBVIOUS
  <2>1. inputs = <<>> /\ town.action = None
    BY DEF BridgeInit, Init
  <2>2. Numbers(town)
    BY DEF BridgeInit, Init, Numbers
  <2>3. QED BY <2>1, <2>2 DEF EInv, EvidenceTrue
<1>2. BInv /\ EInv /\ [BridgeNext]_allVars => EInv'
  BY StepRecords
<1>3. EInv => EvidenceTrue
  BY DEF EInv
<1>4. QED BY <1>1, <1>2, <1>3, BridgeInvariant, PTL DEF BridgeSpec

-----------------------------------------------------------------------------
(* What the client is told.                                                *)

(* What a client shows after it heard the records q.                       *)
Telling(shown, q) == FoldLeft(Hear, shown, q)

(* g is the recursive function by which FoldLeft tells them.               *)
Hears(g, shown, q, S) ==
  g = [s \in SUBSET S |-> IF s = {} THEN shown ELSE Hear(g[s \ {Max(s)}], q[Max(s)])]

(* The greatest of the first numbers.                                      *)
LEMMA Greatest ==
  ASSUME NEW n \in Nat, NEW s \in SUBSET (1 .. n + 1), n + 1 \in s
  PROVE  Max(s) = n + 1
<1>1. \A x \in s : n + 1 >= x
  OBVIOUS
<1>2. \A x \in s : (\A y \in s : x >= y) => x = n + 1
  OBVIOUS
<1>3. QED BY <1>1, <1>2 DEF Max

(* With one record more there is such a function too.                      *)
LEMMA HearsOn ==
  ASSUME NEW shown, NEW q, NEW n \in Nat, NEW g, Hears(g, shown, q, 1 .. n)
  PROVE  \E h : Hears(h, shown, q, 1 .. n + 1)
<1> DEFINE G == [s \in SUBSET (1 .. n + 1) |->
                   IF n + 1 \in s THEN Hear(g[s \ {n + 1}], q[n + 1]) ELSE g[s]]
<1>1. ASSUME NEW s \in SUBSET (1 .. n + 1)
      PROVE  G[s] = IF s = {} THEN shown ELSE Hear(G[s \ {Max(s)}], q[Max(s)])
  <2>1. CASE n + 1 \in s
    <3>1. Max(s) = n + 1
      BY <2>1, Greatest
    <3>2. s \ {n + 1} \in SUBSET (1 .. n + 1) /\ n + 1 \notin s \ {n + 1}
      OBVIOUS
    <3>3. G[s \ {n + 1}] = g[s \ {n + 1}]
      BY <3>2
    <3>4. QED BY <2>1, <3>1, <3>3
  <2>2. CASE n + 1 \notin s
    <3>0. \A x \in 1 .. n + 1 : x # n + 1 => x \in 1 .. n
      OBVIOUS
    <3>1. s \in SUBSET (1 .. n) /\ s \ {Max(s)} \in SUBSET (1 .. n)
          /\ s \ {Max(s)} \in SUBSET (1 .. n + 1) /\ n + 1 \notin s \ {Max(s)}
      BY <2>2, <3>0
    <3>2. g[s] = IF s = {} THEN shown ELSE Hear(g[s \ {Max(s)}], q[Max(s)])
      BY <3>1 DEF Hears
    <3>3. QED BY <2>2, <3>1, <3>2
  <2>3. QED BY <2>1, <2>2
<1>2. Hears(G, shown, q, 1 .. n + 1)
  <2> DEFINE F == [s \in SUBSET (1 .. n + 1) |->
                     IF s = {} THEN shown ELSE Hear(G[s \ {Max(s)}], q[Max(s)])]
  <2>1. DOMAIN F = SUBSET (1 .. n + 1) /\ DOMAIN G = SUBSET (1 .. n + 1)
        /\ F = [s \in SUBSET (1 .. n + 1) |-> F[s]] /\ G = [s \in SUBSET (1 .. n + 1) |-> G[s]]
    OBVIOUS
  <2>2. \A s \in SUBSET (1 .. n + 1) : F[s] = G[s]
    <3> HIDE DEF G
    <3> QED BY <1>1
  <2>3. F = G
    <3> HIDE DEF F, G
    <3> QED BY <2>1, <2>2
  <2> HIDE DEF G
  <2>4. QED BY <2>3 DEF Hears
<1>3. QED BY <1>2

(* What a client that shows something is told by at most three records.    *)
LEMMA Heard ==
  ASSUME NEW shown, NEW q, NEW n \in Nat, n <= 3, DOMAIN q = 1 .. n
  PROVE  /\ n = 0 => Telling(shown, q) = shown
         /\ n = 1 => Telling(shown, q) = Hear(shown, q[1])
         /\ n = 2 => Telling(shown, q) = Hear(Hear(shown, q[1]), q[2])
         /\ n = 3 => Telling(shown, q) = Hear(Hear(Hear(shown, q[1]), q[2]), q[3])
<1>1. \E g : Hears(g, shown, q, 1 .. n)
  <2>1. Hears([s \in SUBSET (1 .. 0) |-> shown], shown, q, 1 .. 0)
    <3>1. SUBSET (1 .. 0) = {{}}
      OBVIOUS
    <3>2. QED BY <3>1 DEF Hears
  <2> DEFINE M == {m \in Nat : \E g : Hears(g, shown, q, 1 .. m)}
  <2>2. 0 \in M /\ \A m \in M, k \in Nat : k = m + 1 => k \in M
    BY <2>1, HearsOn
  <2> HIDE DEF M
  <2>3. 1 \in M
    BY <2>2
  <2>4. 2 \in M
    BY <2>2, <2>3
  <2>5. 3 \in M
    BY <2>2, <2>4
  <2>6. n = 0 \/ n = 1 \/ n = 2 \/ n = 3
    OBVIOUS
  <2>7. n \in M
    BY <2>2, <2>3, <2>4, <2>5, <2>6
  <2>8. QED BY <2>7 DEF M
<1>2. PICK g : g = (CHOOSE h : Hears(h, shown, q, 1 .. n)) /\ Hears(g, shown, q, 1 .. n)
  BY <1>1
<1>3. Telling(shown, q) = g[1 .. n]
  BY <1>2 DEF Telling, FoldLeft, MapThenFoldSet, Hears
<1>4. \A s \in SUBSET (1 .. n) :
        g[s] = IF s = {} THEN shown ELSE Hear(g[s \ {Max(s)}], q[Max(s)])
  BY <1>2 DEF Hears
<1>5. n \in Nat /\ (1 .. 0) = {} /\ \A m \in Nat : (1 .. m + 1) \ {m + 1} = 1 .. m
  OBVIOUS
<1>6. \A m \in Nat : m + 1 <= n => g[1 .. m + 1] = Hear(g[1 .. m], q[m + 1])
  <2> SUFFICES ASSUME NEW m \in Nat, m + 1 <= n PROVE g[1 .. m + 1] = Hear(g[1 .. m], q[m + 1])
    OBVIOUS
  <2>1. 1 .. m + 1 \in SUBSET (1 .. n) /\ 1 .. m + 1 # {} /\ m + 1 \in 1 .. m + 1
    OBVIOUS
  <2>2. Max(1 .. m + 1) = m + 1
    BY <2>1, Greatest
  <2>3. QED BY <1>4, <1>5, <2>1, <2>2
<1>7. g[{}] = shown
  BY <1>4
<1>8. /\ 1 <= n => g[1 .. 1] = Hear(shown, q[1])
      /\ 2 <= n => g[1 .. 2] = Hear(g[1 .. 1], q[2])
      /\ 3 <= n => g[1 .. 3] = Hear(g[1 .. 2], q[3])
  <2>1. 0 + 1 = 1 /\ 1 + 1 = 2 /\ 2 + 1 = 3 /\ 0 \in Nat /\ 1 \in Nat /\ 2 \in Nat
    OBVIOUS
  <2>2. QED BY <1>5, <1>6, <1>7, <2>1
<1>9. Telling(shown, q) = g[IF n = 0 THEN {} ELSE 1 .. n]
  BY <1>3, <1>5
<1> DEFINE heard == Telling(shown, q)
<1> HIDE DEF heard
<1>10. CASE n = 0
  BY <1>7, <1>9, <1>10 DEF heard
<1>11. CASE n = 1
  BY <1>8, <1>9, <1>11 DEF heard
<1>12. CASE n = 2
  BY <1>8, <1>9, <1>12 DEF heard
<1>13. CASE n = 3
  BY <1>8, <1>9, <1>13 DEF heard
<1>14. QED BY <1>10, <1>11, <1>12, <1>13 DEF heard

(* Without a record nothing is heard.                                      *)
LEMMA HeardNone == ASSUME NEW shown PROVE Telling(shown, <<>>) = shown
<1>1. PICK q, n : q = <<>> /\ n = 0
  OBVIOUS
<1>2. n \in Nat /\ n <= 3 /\ DOMAIN q = 1 .. n
  BY <1>1
<1>3. n = 0 => Telling(shown, q) = shown
  BY <1>2, Heard
<1>4. QED BY <1>1, <1>3

(* One record is heard once.                                              *)
LEMMA HeardOne == ASSUME NEW shown, NEW a PROVE Telling(shown, <<a>>) = Hear(shown, a)
<1>1. PICK q, n : q = <<a>> /\ n = 1
  OBVIOUS
<1>2. n \in Nat /\ n <= 3 /\ DOMAIN q = 1 .. n /\ q[1] = a
  BY <1>1
<1>3. n = 1 => Telling(shown, q) = Hear(shown, q[1])
  BY <1>2, Heard
<1>4. QED BY <1>1, <1>2, <1>3

(* Two are heard in their order.                                           *)
LEMMA HeardTwo ==
  ASSUME NEW shown, NEW a, NEW b
  PROVE  Telling(shown, <<a, b>>) = Hear(Hear(shown, a), b)
<1>1. PICK q, n : q = <<a, b>> /\ n = 2
  OBVIOUS
<1>2. n \in Nat /\ n <= 3 /\ DOMAIN q = 1 .. n /\ q[1] = a /\ q[2] = b
  BY <1>1
<1>3. n = 2 => Telling(shown, q) = Hear(Hear(shown, q[1]), q[2])
  BY <1>2, Heard
<1>4. QED BY <1>1, <1>2, <1>3

(* And so are three.                                                       *)
LEMMA HeardThree ==
  ASSUME NEW shown, NEW a, NEW b, NEW c
  PROVE  Telling(shown, <<a, b, c>>) = Hear(Hear(Hear(shown, a), b), c)
<1>1. PICK q, n : q = <<a, b, c>> /\ n = 3
  OBVIOUS
<1>2. n \in Nat /\ n <= 3 /\ DOMAIN q = 1 .. n /\ q[1] = a /\ q[2] = b /\ q[3] = c
  BY <1>1
<1>3. n = 3 => Telling(shown, q) = Hear(Hear(Hear(shown, q[1]), q[2]), q[3])
  BY <1>2, Heard
<1>4. QED BY <1>1, <1>2, <1>3

(* The client has been told everything from the moment it is offered the   *)
(* world, and of the beginning of every action that goes on.               *)
TInv ==
  /\ generation # 0 /\ sessions[generation].phase \in {"AWAITING_CLIENT_READY", "READY"} =>
       told = Truth
  /\ town.action # None => town.action.id \in presented

(* What a commit records, one or two phases of each action it deals with.  *)
LEMMA RecordsCases ==
  ASSUME NEW outcome
  PROVE  LET old == town.action
             new == town'.action
         IN  /\ old = None /\ new = None => Records(outcome) = <<>>
             /\ old = None /\ new # None =>
                  Records(outcome) = <<[id |-> new.id, phase |-> "CREATED"],
                                       [id |-> new.id, phase |-> new.phase]>>
             /\ old # None /\ new = None => Records(outcome) = <<[id |-> old.id, phase |-> outcome]>>
             /\ old # None /\ new # None /\ old.id # new.id =>
                  Records(outcome) = <<[id |-> old.id, phase |-> outcome],
                                       [id |-> new.id, phase |-> "CREATED"],
                                       [id |-> new.id, phase |-> new.phase]>>
             /\ old # None /\ new # None /\ old.id = new.id =>
                  Records(outcome) = IF new.phase # old.phase
                                     THEN <<[id |-> new.id, phase |-> new.phase]>> ELSE <<>>
<1> DEFINE old == town.action
           new == town'.action
<1>1. \A a, b, c : /\ <<>> \o <<>> = <<>> /\ <<>> \o <<a, b>> = <<a, b>> /\ <<a>> \o <<>> = <<a>>
                   /\ <<a>> \o <<b, c>> = <<a, b, c>>
  <2> SUFFICES ASSUME NEW a, NEW b, NEW c
               PROVE  /\ <<>> \o <<>> = <<>> /\ <<>> \o <<a, b>> = <<a, b>> /\ <<a>> \o <<>> = <<a>>
                      /\ <<a>> \o <<b, c>> = <<a, b, c>>
    OBVIOUS
  <2> DEFINE S == {a, b, c}
  <2>1. <<>> \in Seq(S) /\ <<a>> \in Seq(S) /\ <<a, b>> \in Seq(S) /\ <<b, c>> \in Seq(S)
        /\ <<a, b, c>> \in Seq(S)
    OBVIOUS
  <2> HIDE DEF S
  <2>2. <<>> \o <<>> = <<>> /\ <<>> \o <<a, b>> = <<a, b>> /\ <<a>> \o <<>> = <<a>>
    BY <2>1, ConcatEmptySeq
  <2> DEFINE u == <<a>> \o <<b, c>>
  <2>3. u \in Seq(S) /\ Len(u) = 3 /\ u[1] = a /\ u[2] = b /\ u[3] = c
    <3>1. /\ u \in Seq(S) /\ Len(u) = 1 + 2
          /\ \A i \in 1 .. 1 + 2 : u[i] = IF i <= 1 THEN <<a>>[i] ELSE <<b, c>>[i - 1]
      BY <2>1, ConcatProperties
    <3> HIDE DEF u
    <3>2. QED BY <3>1
  <2> HIDE DEF u
  <2>4. u = <<a, b, c>>
    BY <2>1, <2>3, SeqEqual
  <2>5. QED BY <2>2, <2>4 DEF u
<1> HIDE DEF old, new
<1>2. \A x, y : <<x, y>> = <<old, new>> =>
        Records(outcome) =
          (IF x = None THEN <<>>
           ELSE IF ~(x # None /\ y # None /\ x.id = y.id) THEN <<[id |-> x.id, phase |-> outcome]>>
           ELSE IF y.phase # x.phase THEN <<[id |-> y.id, phase |-> y.phase]>>
           ELSE <<>>)
          \o (IF y = None \/ (x # None /\ y # None /\ x.id = y.id) THEN <<>>
              ELSE <<[id |-> y.id, phase |-> "CREATED"], [id |-> y.id, phase |-> y.phase]>>)
  BY DEF Records, old, new
<1>3. PICK x, y, q : x = old /\ y = new /\ q = Records(outcome)
  OBVIOUS
<1>4. q = (IF x = None THEN <<>>
           ELSE IF ~(x # None /\ y # None /\ x.id = y.id) THEN <<[id |-> x.id, phase |-> outcome]>>
           ELSE IF y.phase # x.phase THEN <<[id |-> y.id, phase |-> y.phase]>>
           ELSE <<>>)
          \o (IF y = None \/ (x # None /\ y # None /\ x.id = y.id) THEN <<>>
              ELSE <<[id |-> y.id, phase |-> "CREATED"], [id |-> y.id, phase |-> y.phase]>>)
  BY <1>2, <1>3
<1>5. x = None /\ y = None => q = <<>>
  BY <1>1, <1>4
<1>6. x = None /\ y # None =>
        q = <<[id |-> y.id, phase |-> "CREATED"], [id |-> y.id, phase |-> y.phase]>>
  BY <1>1, <1>4
<1>7. x # None /\ y = None => q = <<[id |-> x.id, phase |-> outcome]>>
  BY <1>1, <1>4
<1>8. x # None /\ y # None /\ x.id # y.id =>
        q = <<[id |-> x.id, phase |-> outcome], [id |-> y.id, phase |-> "CREATED"],
              [id |-> y.id, phase |-> y.phase]>>
  BY <1>1, <1>4
<1>9. x # None /\ y # None /\ x.id = y.id =>
        q = IF y.phase # x.phase THEN <<[id |-> y.id, phase |-> y.phase]>> ELSE <<>>
  BY <1>1, <1>4
<1>10. QED BY <1>3, <1>5, <1>6, <1>7, <1>8, <1>9 DEF old, new

(* A client that showed the npc as it was shows it as it is.               *)
LEMMA Published ==
  ASSUME TInv, town \in Context, town' \in Context, told = Truth,
         NEW outcome \in Terminal, Publish(outcome)
  PROVE  told' = Truth' /\ (town'.action # None => town'.action.id \in presented')
<1>1. PICK old, new, here, there :
        old = town.action /\ new = town'.action /\ here = town.at /\ there = town'.at
  OBVIOUS
<1>2. PICK heard :
        /\ heard = Telling(told, Records(outcome)) /\ told' = HearDelta(heard)
        /\ presented' = presented \cup Started(Records(outcome))
  BY DEF Publish, MessagesForResult, Telling
<1>3. new # None => new.phase \notin Terminal /\ new.phase # "CREATED"
  BY <1>1 DEF Context, Action, Phases, Terminal
<1>4. told = [action |-> IF old = None THEN 0 ELSE old.id,
              phase |-> IF old = None THEN "none" ELSE old.phase, at |-> here]
  BY <1>1 DEF Truth
<1>5. Truth' = [action |-> IF new = None THEN 0 ELSE new.id,
                phase |-> IF new = None THEN "none" ELSE new.phase, at |-> there]
  BY <1>1 DEF Truth
<1>6. PICK ended, created, begun :
        /\ ended = [id |-> old.id, phase |-> outcome]
        /\ created = [id |-> new.id, phase |-> "CREATED"]
        /\ begun = [id |-> new.id, phase |-> new.phase]
  OBVIOUS
<1>7. \A x, y, z : HearDelta([action |-> x, phase |-> y, at |-> z]) =
        [action |-> IF new = None THEN x ELSE new.id, phase |-> y, at |-> there]
  BY <1>1 DEF HearDelta
<1>8. \A x, y, z :
        /\ Hear([action |-> x, phase |-> y, at |-> z], created) =
             [action |-> new.id, phase |-> "CREATED", at |-> z]
        /\ old # None => Hear([action |-> old.id, phase |-> y, at |-> z], ended) =
                            [action |-> 0, phase |-> "none", at |-> z]
        /\ new # None => Hear([action |-> new.id, phase |-> y, at |-> z], begun) =
                            [action |-> new.id, phase |-> new.phase, at |-> z]
  <2>1. /\ created.id = new.id /\ created.phase = "CREATED" /\ ended.id = old.id
        /\ ended.phase \in Terminal /\ ended.phase # "CREATED"
        /\ begun.id = new.id /\ begun.phase = new.phase
    BY <1>6 DEF Terminal
  <2> SUFFICES ASSUME NEW x, NEW y, NEW z
               PROVE  /\ Hear([action |-> x, phase |-> y, at |-> z], created) =
                           [action |-> new.id, phase |-> "CREATED", at |-> z]
                      /\ old # None => Hear([action |-> old.id, phase |-> y, at |-> z], ended) =
                                          [action |-> 0, phase |-> "none", at |-> z]
                      /\ new # None => Hear([action |-> new.id, phase |-> y, at |-> z], begun) =
                                          [action |-> new.id, phase |-> new.phase, at |-> z]
    OBVIOUS
  <2>2. Hear([action |-> x, phase |-> y, at |-> z], created) =
          [action |-> new.id, phase |-> "CREATED", at |-> z]
    BY <2>1 DEF Hear
  <2>3. Hear([action |-> old.id, phase |-> y, at |-> z], ended) =
          [action |-> 0, phase |-> "none", at |-> z]
    BY <2>1 DEF Hear
  <2>4. new # None => Hear([action |-> new.id, phase |-> y, at |-> z], begun) =
                        [action |-> new.id, phase |-> new.phase, at |-> z]
    BY <1>3, <2>1 DEF Hear
  <2>5. QED BY <2>2, <2>3, <2>4
<1>9. CASE old = None /\ new = None
  <2>1. Records(outcome) = <<>>
    BY <1>1, <1>9, RecordsCases
  <2>2. heard = told
    BY <1>2, <2>1, HeardNone
  <2>3. QED BY <1>1, <1>2, <1>4, <1>5, <1>7, <1>9, <2>2
<1>10. CASE old = None /\ new # None
  <2>1. Records(outcome) = <<created, begun>>
    BY <1>1, <1>6, <1>10, RecordsCases
  <2>2. heard = Hear(Hear(told, created), begun)
    <3>1. Telling(told, <<created, begun>>) = Hear(Hear(told, created), begun)
      BY HeardTwo
    <3>2. QED BY <1>2, <2>1, <3>1
  <2>3. Hear(told, created) = [action |-> new.id, phase |-> "CREATED", at |-> here]
    BY <1>4, <1>8
  <2>4. heard = [action |-> new.id, phase |-> new.phase, at |-> here]
    <3>1. Hear([action |-> new.id, phase |-> "CREATED", at |-> here], begun) =
            [action |-> new.id, phase |-> new.phase, at |-> here]
      BY <1>8, <1>10
    <3>2. QED BY <2>2, <2>3, <3>1
  <2>5. told' = Truth'
    BY <1>2, <1>5, <1>7, <1>10, <2>4
  <2>6. new.id \in Started(Records(outcome))
    BY <1>6, <2>1 DEF Started
  <2>7. QED BY <1>1, <1>2, <2>5, <2>6
<1>11. CASE old # None /\ new = None
  <2>1. Records(outcome) = <<ended>>
    BY <1>1, <1>6, <1>11, RecordsCases
  <2>2. heard = Hear(told, ended)
    BY <1>2, <2>1, HeardOne
  <2>3. told = [action |-> old.id, phase |-> old.phase, at |-> here]
    BY <1>4, <1>11
  <2>4. heard = [action |-> 0, phase |-> "none", at |-> here]
    BY <1>8, <1>11, <2>2, <2>3
  <2>5. QED BY <1>1, <1>2, <1>5, <1>7, <1>11, <2>4
<1>12. CASE old # None /\ new # None /\ old.id # new.id
  <2>1. Records(outcome) = <<ended, created, begun>>
    BY <1>1, <1>6, <1>12, RecordsCases
  <2>2. heard = Hear(Hear(Hear(told, ended), created), begun)
    <3>1. Telling(told, <<ended, created, begun>>) = Hear(Hear(Hear(told, ended), created), begun)
      BY HeardThree
    <3>2. QED BY <1>2, <2>1, <3>1
  <2>3. told = [action |-> old.id, phase |-> old.phase, at |-> here]
    BY <1>4, <1>12
  <2>4. Hear(told, ended) = [action |-> 0, phase |-> "none", at |-> here]
    BY <1>8, <1>12, <2>3
  <2>5. Hear(Hear(told, ended), created) = [action |-> new.id, phase |-> "CREATED", at |-> here]
    BY <1>8, <2>4
  <2>6. heard = [action |-> new.id, phase |-> new.phase, at |-> here]
    <3>1. Hear([action |-> new.id, phase |-> "CREATED", at |-> here], begun) =
            [action |-> new.id, phase |-> new.phase, at |-> here]
      BY <1>8, <1>12
    <3>2. QED BY <2>2, <2>5, <3>1
  <2>7. told' = Truth'
    BY <1>2, <1>5, <1>7, <1>12, <2>6
  <2>8. new.id \in Started(Records(outcome))
    BY <1>6, <2>1 DEF Started
  <2>9. QED BY <1>1, <1>2, <2>7, <2>8
<1>13. CASE old # None /\ new # None /\ old.id = new.id
  <2>1. town'.action.id \in presented'
    BY <1>1, <1>2, <1>13 DEF TInv
  <2>2. CASE new.phase # old.phase
    <3>1. Records(outcome) = <<begun>>
      BY <1>1, <1>6, <1>13, <2>2, RecordsCases
    <3>2. heard = Hear(told, begun)
      BY <1>2, <3>1, HeardOne
    <3>3. told = [action |-> new.id, phase |-> old.phase, at |-> here]
      BY <1>4, <1>13
    <3>4. heard = [action |-> new.id, phase |-> new.phase, at |-> here]
      <4>1. Hear([action |-> new.id, phase |-> old.phase, at |-> here], begun) =
              [action |-> new.id, phase |-> new.phase, at |-> here]
        BY <1>8, <1>13
      <4>2. QED BY <3>2, <3>3, <4>1
    <3>5. QED BY <1>2, <1>5, <1>7, <1>13, <2>1, <3>4
  <2>3. CASE new.phase = old.phase
    <3>1. Records(outcome) = <<>>
      BY <1>1, <1>13, <2>3, RecordsCases
    <3>2. heard = told
      BY <1>2, <3>1, HeardNone
    <3>3. QED BY <1>2, <1>4, <1>5, <1>7, <1>13, <2>1, <2>3, <3>2
  <2>4. QED BY <2>2, <2>3
<1>14. QED BY <1>9, <1>10, <1>11, <1>12, <1>13

(* What is told with a commit of a ready client's town.                    *)
LEMMA CommitTold ==
  ASSUME BInv, TInv, Ready, Advance \/ ReportArrived \/ ReportEnded,
         NEW outcome \in Terminal, Publish(outcome),
         generation' = generation, sessions' = sessions
  PROVE  TInv'
<1>1. town \in Context /\ town' \in Context
  BY EngineStep DEF BInv, IInv, Good
<1>2. told = Truth
  <2>1. generation \in Connection /\ readyGeneration = generation
    BY ConnectionFact DEF Ready, BInv, SessionsKept
  <2>2. sessions[generation].phase = "READY" /\ generation # 0
    BY <2>1 DEF BInv, GatesAgree, Ready
  <2>3. QED BY <2>2 DEF TInv
<1>3. told' = Truth' /\ (town'.action # None => town'.action.id \in presented')
  BY <1>1, <1>2, Published
<1>4. QED BY <1>3 DEF TInv

(* Nothing happens to the town before a client it was offered to is ready. *)
LEMMA SessionTold ==
  ASSUME BInv, TInv, UNCHANGED <<town, told, presented>>, generation' = generation,
         generation # 0 /\ sessions'[generation].phase \in {"AWAITING_CLIENT_READY", "READY"} =>
           sessions[generation].phase \in {"AWAITING_CLIENT_READY", "READY"}
  PROVE  TInv'
BY DEF TInv, Truth

(* Every step keeps the client told.                                       *)
LEMMA StepTold == ASSUME BInv, TInv, [BridgeNext]_allVars PROVE TInv'
<1>1. /\ generation \in 0 .. MaxConn /\ sessions \in [Connection -> BridgeSession]
      /\ \A g \in Connection : g > generation => sessions[g].phase = "ABSENT"
      /\ generation # 0 => generation \in Connection
  BY ConnectionFact DEF BInv, SessionsKept
<1>2. {"COMPLETED", "FAILED", "CANCELLED"} = Terminal
  BY DEF Terminal
<1>3. CASE Connect
  <2>1. generation + 1 \in Connection /\ generation' = generation + 1
        /\ UNCHANGED <<town, told, presented>>
    BY <1>1, <1>3, ConnectionFact DEF Connect
  <2>2. sessions'[generation'].phase = "AWAITING_CLIENT_HELLO"
    BY <1>1, <1>3, <2>1 DEF Connect
  <2>3. QED BY <2>1, <2>2 DEF TInv
<1>4. CASE ClockTick
  <2>1. /\ Ready /\ Advance /\ generation' = generation /\ sessions' = sessions
        /\ Publish("FAILED") \/ Publish("COMPLETED")
    BY <1>4 DEF ClockTick, Ticks, bridge
  <2>2. QED BY <1>2, <2>1, CommitTold
<1>5. ASSUME NEW g \in Connection, Refuse(g) \/ Leave(g)
      PROVE  TInv'
  <2>1. UNCHANGED <<town, told, presented>> /\ generation' = generation
    BY <1>5 DEF Refuse, Leave
  <2>2. generation # 0 => sessions'[generation].phase \in {sessions[generation].phase, "DISCONNECTED"}
    <3>1. CASE Refuse(g)
      <4>1. sessions' = [sessions EXCEPT ![g].serving = FALSE]
        BY <3>1 DEF Refuse
      <4>2. \A h \in Connection : sessions'[h].phase = sessions[h].phase
        BY <1>1, <4>1 DEF BridgeSession
      <4>3. QED BY <1>1, <4>2
    <3>2. CASE Leave(g)
      <4>1. sessions' = [sessions EXCEPT ![g].phase = "DISCONNECTED", ![g].serving = FALSE]
        BY <3>2 DEF Leave
      <4>2. \A h \in Connection : sessions'[h].phase \in {sessions[h].phase, "DISCONNECTED"}
        BY <1>1, <4>1 DEF BridgeSession
      <4>3. QED BY <1>1, <4>2
    <3>3. QED BY <1>5, <3>1, <3>2
  <2>3. QED BY <2>1, <2>2, SessionTold
<1>6. ASSUME NEW g \in Connection, ClientHello(g)
      PROVE  TInv'
  <2>1. UNCHANGED <<town, told, presented>> /\ generation' = generation
    BY <1>6 DEF ClientHello
  <2>2. generation # 0 => sessions'[generation].phase
                            \in {sessions[generation].phase, "AWAITING_ASSET_REGISTRY"}
    BY <1>1, <1>6 DEF ClientHello, Advances
  <2>3. QED BY <2>1, <2>2, SessionTold
<1>7. ASSUME NEW g \in Connection, AssetRegistry(g)
      PROVE  TInv'
  <2>1. UNCHANGED <<town, presented>> /\ told' = Truth
    BY <1>7 DEF AssetRegistry
  <2>2. told' = Truth'
    BY <2>1 DEF Truth
  <2>3. QED BY <2>1, <2>2 DEF TInv
<1>8. ASSUME NEW g \in Connection, NEW v, ClientReady(g, v)
      PROVE  TInv'
  <2>1. UNCHANGED <<town, told, presented>> /\ generation' = generation
    BY <1>8 DEF ClientReady
  <2>2. g = generation /\ sessions[g].phase = "AWAITING_CLIENT_READY"
    BY <1>8 DEF ClientReady, Advances, Serving
  <2>3. QED BY <2>1, <2>2, SessionTold
<1>9. ASSUME NEW g \in Connection, NEW v, NEW id, MovementArrived(g, v, id) \/ MovementFailed(g, v, id)
      PROVE  TInv'
  <2>1. /\ Ready /\ (ReportArrived \/ ReportEnded) /\ generation' = generation /\ sessions' = sessions
        /\ Publish("FAILED") \/ Publish("COMPLETED")
    BY <1>9 DEF MovementArrived, MovementFailed, Reports, bridge
  <2>2. QED BY <1>2, <2>1, CommitTold
<1>10. ASSUME NEW g \in Connection, NEW id, MovementCancelled(g, id)
       PROVE  TInv'
  <2>1. Ready /\ generation' = generation /\ sessions' = sessions
    BY <1>10 DEF MovementCancelled, Reports
  <2>2. CASE ReportEnded /\ Publish("CANCELLED")
    BY <1>2, <2>1, <2>2, CommitTold
  <2>3. CASE UNCHANGED <<vars, stream>>
    BY <2>1, <2>3, SessionTold DEF vars, stream
  <2>4. QED BY <1>10, <2>2, <2>3 DEF MovementCancelled
<1>11. ASSUME NEW g \in Connection, NEW s, SetTimeScale(g, s) \/ PauseRequest(g, s)
       PROVE  TInv'
  BY <1>11, SessionTold DEF SetTimeScale, PauseRequest
<1>12. CASE UNCHANGED allVars
  BY <1>12, SessionTold DEF allVars
<1>13. QED
  BY <1>3, <1>4, <1>5, <1>6, <1>7, <1>8, <1>9, <1>10, <1>11, <1>12 DEF BridgeNext

(* ToldTrue holds always: a client that keeps what it was told shows the   *)
(* npc as the town has it whenever it is ready, whichever of an action's   *)
(* end and another's beginning a minute or a report brings, and the        *)
(* server knows every action such a client may report as presented.        *)
THEOREM ToldIsTrue == BridgeSpec => []ToldTrue
<1>1. BridgeInit => TInv
  BY DEF BridgeInit, Init, TInv
<1>2. BInv /\ TInv /\ [BridgeNext]_allVars => TInv'
  BY StepTold
<1>3. BInv /\ TInv => ToldTrue
  <2> SUFFICES ASSUME BInv, TInv, Ready PROVE ToldTrue
    BY DEF ToldTrue
  <2>1. generation \in Connection /\ readyGeneration = generation
    BY ConnectionFact DEF Ready, BInv, SessionsKept
  <2>2. sessions[generation].phase = "READY" /\ generation # 0
    BY <2>1 DEF BInv, GatesAgree, Ready
  <2>3. told = Truth
    BY <2>2 DEF TInv
  <2>4. told.action # 0 => town.action # None /\ told.action = town.action.id
    BY <2>3 DEF Truth
  <2>5. town.version \in Nat
    BY DEF BInv, IInv, Good, Context
  <2>6. QED BY <2>3, <2>4, <2>5 DEF TInv, ToldTrue, PresentationCompleted
<1>4. QED BY <1>1, <1>2, <1>3, BridgeInvariant, PTL DEF BridgeSpec
=============================================================================
