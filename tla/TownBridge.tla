---------------------------- MODULE TownBridge ----------------------------
(***************************************************************************)
(* The M2 bridge over the live M1 engine:                                  *)
(* src/python/town_core/bridge/{session,runtime,server}.py composed with   *)
(* TownEngine.                                                             *)
(*                                                                         *)
(* Every connection of the server has a handler with a session of its own  *)
(* generation; several handlers may be alive at once, the clock loop runs  *)
(* beside them.  receive_json and advance_one_minute do not await, so each *)
(* is one step; a handler that closes its connection awaits that close     *)
(* before its finally block runs, so refusing and leaving are two steps.   *)
(* A client is any sender of well-formed messages that claim a version it  *)
(* may have seen.                                                          *)
(*                                                                         *)
(* The messages of a commit reach the client as one: their sending under a *)
(* lock, and what a connection loses of them, is modelled for M3 in Bridge. *)
(* Left out: the repetition of a message_id (a repeated message answers     *)
(* with what was stored and changes nothing), what the client is told of   *)
(* needs, events and decisions, the protocol version.                      *)
(***************************************************************************)
EXTENDS TownEngine, SequencesExt

CONSTANTS  \* bounds for model checking only:
  MaxConn,  \* connections of a run
  MaxInputs \* records of cancellation evidence

ASSUME BridgeConstants == MaxConn \in Nat /\ MaxInputs \in Nat

VARIABLES
  sessions,        \* connection -> its BridgeSession and handler
  generation,      \* BridgeRuntime._generation
  readyGeneration, \* BridgeRuntime._ready_generation, 0 for None
  active,          \* BridgeWebSocketServer._active_generation, 0 for None
  scale, paused,   \* BridgeRuntime.time_scale and paused
  inputs,          \* BridgeRuntime.authority_input_evidence
  presented,       \* BridgeRuntime._presented_action_ids
  told             \* what the messages told the latest client of the npc

bridge == <<sessions, generation, readyGeneration, active, scale, paused, inputs>>
stream == <<presented, told>>
allVars == <<town, mode, raised, sessions, generation, readyGeneration, active, scale, paused,
             inputs, presented, told>>

Connection == 1 .. MaxConn
Scales == {0, 1, 2}

Ready == generation # 0 /\ readyGeneration = generation
Serving(g) == g = generation /\ sessions[g].serving

BridgeInit ==
  /\ Init /\ mode = "UNITY_LIVE"
  /\ sessions = [g \in Connection |-> [phase |-> "ABSENT", serving |-> FALSE, snapshot |-> -1]]
  /\ generation = 0 /\ readyGeneration = 0 /\ active = 0
  /\ scale = 1 /\ paused = FALSE /\ inputs = <<>>
  /\ presented = {} /\ told = [action |-> 0, phase |-> "none", at |-> Home]

-----------------------------------------------------------------------------
(* What the client is told of the npc.                                     *)

(* The part of the world that a snapshot shows and the messages change.    *)
Truth == [action |-> IF town.action = None THEN 0 ELSE town.action.id,
          phase |-> IF town.action = None THEN "none" ELSE town.action.phase,
          at |-> town.at]

(* _record_action_phase: the phases one commit records, those of the action *)
(* it found before those of the action it made.                            *)
Records(outcome) ==
  LET old == town.action
      new == town'.action
      same == old # None /\ new # None /\ old.id = new.id
  IN  (IF old = None THEN <<>>
       ELSE IF ~same THEN <<[id |-> old.id, phase |-> outcome]>>
       ELSE IF new.phase # old.phase THEN <<[id |-> new.id, phase |-> new.phase]>>
       ELSE <<>>)
      \o (IF new = None \/ same THEN <<>>
          ELSE <<[id |-> new.id, phase |-> "CREATED"], [id |-> new.id, phase |-> new.phase]>>)

Terminal == {"COMPLETED", "FAILED", "CANCELLED"}

(* A client that keeps what it is told: action_started, action_cancelled   *)
(* and action_phase_changed of the action it shows, agent_state_delta,     *)
(* which cannot take an action away.                                       *)
Hear(shown, r) ==
  IF r.phase = "CREATED" THEN [action |-> r.id, phase |-> "CREATED", at |-> shown.at]
  ELSE IF shown.action # r.id THEN shown
  ELSE IF r.phase \in Terminal THEN [action |-> 0, phase |-> "none", at |-> shown.at]
  ELSE [action |-> shown.action, phase |-> r.phase, at |-> shown.at]
HearDelta(shown) ==
  [action |-> IF town'.action = None THEN shown.action ELSE town'.action.id,
   phase |-> shown.phase, at |-> town'.at]

(* _messages_for_result                                                    *)
Started(records) == {records[i].id : i \in {j \in DOMAIN records : records[j].phase = "CREATED"}}
MessagesOfActive(records) ==
  HearDelta(FoldLeft(Hear, told, SelectSeq(records, LAMBDA r : r.id = Truth'.action)))
MessagesForResult(records) == HearDelta(FoldLeft(Hear, told, records))
Publish(outcome) ==
  /\ presented' = presented \cup Started(Records(outcome))
  /\ told' = MessagesForResult(Records(outcome))

(* The report that a presentation is over: anything but an action of this   *)
(* bridge is answered with a snapshot; an accepted one is only noted.      *)
PresentationCompleted(v, id) == v <= town.version /\ id \in presented

-----------------------------------------------------------------------------
(* Connections.                                                            *)

(* _handle_connection opens a session; the one before it, if any, lives on. *)
Connect ==
  /\ generation < MaxConn
  /\ generation' = generation + 1 /\ readyGeneration' = 0 /\ active' = generation + 1
  /\ sessions' = [sessions EXCEPT ![generation + 1] =
                    [phase |-> "AWAITING_CLIENT_HELLO", serving |-> TRUE, snapshot |-> -1]]
  /\ UNCHANGED <<town, mode, raised, scale, paused, inputs, presented, told>>

(* A message raises: the handler stops reading and closes the connection.  *)
(* Any message to a session of an older generation does.                   *)
Refuse(g) ==
  /\ sessions[g].serving
  /\ sessions' = [sessions EXCEPT ![g].serving = FALSE]
  /\ UNCHANGED <<town, mode, raised, generation, readyGeneration, active, scale, paused, inputs, presented, told>>

(* The finally block, after a refusal or the end of the transport.         *)
ForgetAnyone(g) == 0
Forget(g) == IF generation = g THEN 0 ELSE readyGeneration
Leave(g) ==
  /\ sessions[g].phase \notin {"ABSENT", "DISCONNECTED"}
  /\ sessions' = [sessions EXCEPT ![g].phase = "DISCONNECTED", ![g].serving = FALSE]
  /\ readyGeneration' = Forget(g)
  /\ active' = IF active = g THEN 0 ELSE active
  /\ UNCHANGED <<town, mode, raised, generation, scale, paused, inputs, presented, told>>

-----------------------------------------------------------------------------
(* The handshake.                                                          *)

Advances(g, from, to) ==
  /\ Serving(g) /\ sessions[g].phase = from
  /\ sessions' = [sessions EXCEPT ![g].phase = to]

ClientHello(g) ==
  /\ Advances(g, "AWAITING_CLIENT_HELLO", "AWAITING_ASSET_REGISTRY")
  /\ UNCHANGED <<town, mode, raised, generation, readyGeneration, active, scale, paused, inputs, presented, told>>

(* An accepted registry is answered with a fresh snapshot; a rejected one  *)
(* leaves the session where it is, and the client may send another.        *)
AssetRegistry(g) ==
  /\ Serving(g) /\ sessions[g].phase = "AWAITING_ASSET_REGISTRY"
  /\ sessions' = [sessions EXCEPT ![g].phase = "AWAITING_CLIENT_READY",
                                  ![g].snapshot = town.version]
  /\ told' = Truth
  /\ UNCHANGED <<town, mode, raised, generation, readyGeneration, active, scale, paused, inputs, presented>>

(* The acknowledgement must name the version of that snapshot.             *)
ClientReady(g, v) ==
  /\ v = sessions[g].snapshot
  /\ Advances(g, "AWAITING_CLIENT_READY", "READY")
  /\ readyGeneration' = g
  /\ UNCHANGED <<town, mode, raised, generation, active, scale, paused, inputs, presented, told>>

-----------------------------------------------------------------------------
(* Reports of a ready client about action id, made at version v.  One that *)
(* the engine refuses is answered with a snapshot and changes nothing.     *)

Reports(g) == Serving(g) /\ sessions[g].phase = "READY" /\ Ready
NamesAny(id) == town.action # None
Names(id) == town.action # None /\ id = town.action.id

MovementArrived(g, v, id) ==
  /\ Reports(g)
  /\ v = town.version /\ Names(id) /\ ReportArrived
  /\ Publish("COMPLETED")
  /\ UNCHANGED bridge

MovementFailed(g, v, id) ==
  /\ Reports(g)
  /\ v = town.version /\ Names(id) /\ ReportEnded
  /\ Publish("FAILED")
  /\ UNCHANGED bridge

(* A cancellation is valid at an older version too, and leaves evidence    *)
(* whether it is accepted or not.                                          *)
Evidence(g, id, accepted) ==
  [generation |-> g, action |-> id, accepted |-> accepted,
   before |-> town.version, after |-> town'.version]

MovementCancelled(g, id) ==
  /\ Reports(g) /\ Len(inputs) < MaxInputs
  /\ LET accepted == Names(id) /\ Reportable
     IN  /\ IF accepted THEN ReportEnded /\ Publish("CANCELLED") ELSE UNCHANGED <<vars, stream>>
         /\ inputs' = Append(inputs, Evidence(g, id, accepted))
  /\ UNCHANGED <<sessions, generation, readyGeneration, active, scale, paused>>

SetTimeScale(g, s) ==
  /\ Reports(g)
  /\ scale' = s /\ paused' = (s = 0)
  /\ UNCHANGED <<town, mode, raised, sessions, generation, readyGeneration, active, inputs, presented, told>>

PauseRequest(g, p) ==
  /\ Reports(g)
  /\ paused' = p
  /\ UNCHANGED <<town, mode, raised, sessions, generation, readyGeneration, active, scale, inputs, presented, told>>

-----------------------------------------------------------------------------
(* The clock loop: a minute for the active connection, once it is ready.   *)
Ticks == active # 0 /\ Ready
ClockTick ==
  /\ Ticks /\ ~paused /\ scale # 0
  /\ Advance
  /\ Publish(IF town.at = Traveling THEN "FAILED" ELSE "COMPLETED")
  /\ UNCHANGED bridge

BridgeNext ==
  \/ Connect
  \/ ClockTick
  \/ \E g \in Connection :
       \/ Refuse(g) \/ Leave(g) \/ ClientHello(g) \/ AssetRegistry(g)
       \/ \E v \in 0 .. town.version : ClientReady(g, v)
       \/ \E v \in 0 .. town.version, id \in 1 .. town.created :
            MovementArrived(g, v, id) \/ MovementFailed(g, v, id)
       \/ \E id \in 1 .. town.created : MovementCancelled(g, id)
       \/ \E s \in Scales : SetTimeScale(g, s)
       \/ \E p \in BOOLEAN : PauseRequest(g, p)

BridgeSpec == BridgeInit /\ [][BridgeNext]_allVars

-----------------------------------------------------------------------------
(* Properties.                                                             *)

(* The bridge hands the world over as Handover says: it changes only on    *)
(* behalf of the latest connection, one version at a time, and only after  *)
(* that connection has acknowledged the very world it was shown.           *)
Offered == IF generation # 0 /\ sessions[generation].phase = "AWAITING_CLIENT_READY"
             THEN sessions[generation].snapshot ELSE -1
H == INSTANCE Handover WITH version <- town.version, latest <- generation,
                            holder <- IF Ready THEN generation ELSE 0, offered <- Offered
HandsOver == H!Spec

(* Session, runtime and server agree on who is ready and who is active,    *)
(* although a handler may leave after its successor has come.              *)
GatesAgree ==
  /\ \A g \in Connection : sessions[g].phase = "READY" /\ g = generation <=> readyGeneration = g
  /\ active = (IF generation # 0 /\ sessions[generation].phase # "DISCONNECTED"
                 THEN generation ELSE 0)

(* The evidence of cancellations is true: an accepted one is exactly one   *)
(* commit, a rejected one none, an action is cancelled at most once, and a *)
(* later record never shows an earlier world.                              *)
EvidenceTrue ==
  /\ \A i \in 1 .. Len(inputs) :
       inputs[i].after = inputs[i].before + (IF inputs[i].accepted THEN 1 ELSE 0)
  /\ \A i, j \in 1 .. Len(inputs) :
       i < j => /\ inputs[i].after <= inputs[j].before
                /\ inputs[i].generation <= inputs[j].generation
                /\ inputs[i].accepted /\ inputs[j].accepted =>
                     inputs[i].action < inputs[j].action

(* A ready client that keeps what it was told shows the npc where and in    *)
(* what phase of which action it is, although the deltas cannot end an     *)
(* action and a minute may end one and begin another; and it may report    *)
(* what it shows as completed.                                             *)
ToldTrue ==
  Ready => /\ told = Truth
           /\ told.action # 0 => PresentationCompleted(town.version, told.action)
=============================================================================
