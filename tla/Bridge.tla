------------------------------- MODULE Bridge -------------------------------
(***************************************************************************)
(* The bridge between the M3 authority and its Unity client:               *)
(*   server  src/python/town_core/bridge/m3_server.py (asyncio handlers,   *)
(*           clock loop, send lock), m3_session.py (handshake and ingress  *)
(*           of one connection), m3_runtime.py (readiness, movement        *)
(*           inputs, resynchronisation);                                   *)
(*   client  src/unity/Assets/AITown/Scripts/Bridge/TownBridgeClient.cs    *)
(*           and the navigation reports of Scripts/NPC.                    *)
(*                                                                         *)
(* Connections are numbered by the client's connectionGeneration; the      *)
(* server numbers them anew after a restart but only compares numbers for  *)
(* equality.  The authority is reduced to what the bridge tells apart: its *)
(* state_version and, per action, the phase and who has arrived (the whole *)
(* of it is module Society; ALIGNING counts as PERFORMING here).  Of the   *)
(* messages to the client only those it reacts to in its navigation are    *)
(* sent: an action's start, its end, the clock and the snapshot.  A        *)
(* message_id serves to recognise a retransmission: `again' says that the  *)
(* id was used before on this connection.                                  *)
(***************************************************************************)
EXTENDS Integers, Sequences, FiniteSets

CONSTANTS
  Agent, Action,
  Party,       \* Action -> the agents that take part
  Registries,  \* outcomes of the scene validation: a subset of BOOLEAN
  Reports,     \* the movement reports the client makes
  Controls,    \* the clock requests the client makes
  Timeouts,    \* whether a trip may outlast movement_timeout_minutes
  MaxConn,     \* bounds for model checking: connections,
  MaxTick,     \*   the version up to which the clock advances,
  MaxWire,     \*   messages under way when the client sends another,
  MaxCuts, MaxFailures, MaxRestarts, MaxRepeats \* and faults of each kind

Conn == 1 .. MaxConn
None == 0
NoSnapshot == -1
Phases == {"AWAITING_CLIENT_HELLO", "AWAITING_ASSET_REGISTRY",
           "AWAITING_CLIENT_READY", "READY", "DISCONNECTED"}
Movements == {"movement_arrived", "movement_failed", "movement_cancelled"}
Requests == [type : {"pause_request"}, value : {0, 1}]
              \cup [type : {"set_time_scale_request"}, value : {0, 1}]
HandshakeStates ==
  {"AwaitingServerHello", "AwaitingRegistryResult", "AwaitingWorldSnapshot"}
ClientStates == HandshakeStates \cup
  {"Disconnected", "Connecting", "Ready", "DiagnosticOnly", "Reconnecting"}

ASSUME BridgeConstants ==
  /\ Party \in [Action -> (SUBSET Agent) \ {{}}]
  /\ \A a, b \in Action : a # b => Party[a] \cap Party[b] = {}
  /\ Registries \subseteq BOOLEAN
  /\ Reports \subseteq Movements
  /\ Controls \subseteq Requests
  /\ Timeouts \in BOOLEAN
  /\ {MaxConn, MaxTick, MaxWire} \subseteq Nat
  /\ {MaxCuts, MaxFailures, MaxRestarts, MaxRepeats} \subseteq Nat

VARIABLES
  version, trip,    \* the authority: state_version, and each action's state
  clock,            \* M3BridgeRuntime.paused and time_scale (0 or running)
  generation,       \* M3BridgeRuntime._generation
  readyGen,         \* _ready_generation, None if nobody is ready
  active,           \* server._active_connection and _active_generation
  handler, session, \* per connection: its handler task and M3BridgeSession
  sendq,            \* batches that hold or await _send_lock, in that order
  link, up, down,   \* per connection: the socket, messages each way
  cstate, cgen,     \* client: ConnectionState, connectionGeneration
  inflight, due,    \*   connectInFlight; whether reconnectAt has passed
  applied, floor,   \*   lastAppliedStateVersion, minimumResyncStateVersion
  walking,          \*   <<action, agent>> pairs under navigation
  faults            \* how many faults of each kind have happened

authority == <<version, trip>>
gate == <<generation, readyGen, active>>
server == <<authority, clock, gate, handler, session, sendq>>
wire == <<link, up, down>>
reconnecting == <<cstate, cgen, inflight, due, floor>>
client == <<reconnecting, applied, walking>>
vars == <<server, wire, client, faults>>

Ready == readyGen # None /\ readyGen = generation

-----------------------------------------------------------------------------
(* The authority's state as the bridge sees it. *)

NoTrip == [phase |-> "NONE", arrived |-> {}]
Begun(a, here) == [phase |-> "TRAVELING", arrived |-> here]
Performed(a) == [phase |-> "PERFORMING", arrived |-> Party[a]]
Ended(a) == [phase |-> "ENDED", arrived |-> {}]

Clock(v) == [type |-> "clock", ver |-> v]
About(t, a) == [type |-> t, ver |-> version + 1, action |-> a]
\* Slip: the snapshot does not name the trips under way.
SnapshotWithoutTrips == [type |-> "world_snapshot", ver |-> version, traveling |-> {}]

Snapshot == [type |-> "world_snapshot", ver |-> version,
             traveling |-> {a \in Action : trip[a].phase = "TRAVELING"}]

\* Slip: the lock is let go between two messages of a batch.
EnqueueFirst(k, from, msgs) ==
  sendq' = IF k = generation /\ msgs # <<>>
           THEN <<[conn |-> k, from |-> from, msgs |-> msgs]>> \o sendq
           ELSE sendq

(* _send_messages: a batch for an obsolete connection is dropped, any other *)
(* queues for the lock. *)
Enqueue(k, from, msgs) ==
  sendq' = IF k = generation /\ msgs # <<>>
           THEN Append(sendq, [conn |-> k, from |-> from, msgs |-> msgs])
           ELSE sendq

Sending(k, from) ==
  \E i \in DOMAIN sendq : sendq[i].conn = k /\ sendq[i].from = from

(* What one minute may do to one action, and what the client is told of it. *)
Change(a, after, told) ==
  /\ trip' = [trip EXCEPT ![a] = after]
  /\ Enqueue(active, "clock", <<Clock(version + 1), About(told, a)>>)

Minute ==
  \/ \E a \in Action : trip[a].phase = "NONE" /\
       \/ \E here \in (SUBSET Party[a]) \ {Party[a]} :
            Change(a, Begun(a, here), "action_started")
       \/ Change(a, Performed(a), "action_started")
  \/ \E a \in Action :
       /\ \/ trip[a].phase = "PERFORMING"
          \/ trip[a].phase = "TRAVELING" /\ Timeouts
       /\ Change(a, Ended(a), "action_ended")
  \/ /\ Enqueue(active, "clock", <<Clock(version + 1)>>)
     /\ UNCHANGED trip

(* One turn of _clock_loop; it awaits its own send before the next. *)
Tick ==
  /\ version < MaxTick
  /\ active # None /\ Ready
  /\ ~Sending(active, "clock")
  /\ ~clock.paused /\ clock.scale # 0
  /\ version' = version + 1
  /\ Minute
  /\ UNCHANGED <<clock, gate, handler, session, wire, client, faults>>

-----------------------------------------------------------------------------
(* The server's side of a connection. *)

(* _handle_connection opens the session: the newest connection takes over. *)
OpenSession(k) ==
  /\ handler[k] = "none" /\ link[k] = "up"
  /\ generation' = k /\ readyGen' = None /\ active' = k
  /\ handler' = [handler EXCEPT ![k] = "serving"]
  /\ session' = [session EXCEPT ![k] = [phase |-> "AWAITING_CLIENT_HELLO",
                                       snapshot |-> NoSnapshot]]
  /\ UNCHANGED <<authority, clock, sendq, wire, client, faults>>

\* Slip: whoever leaves clears the state of the one who took over.
LeaveAlways(k) ==
  /\ handler' = [handler EXCEPT ![k] = "done"]
  /\ session' = [session EXCEPT ![k].phase = "DISCONNECTED"]
  /\ readyGen' = None /\ active' = None
  /\ UNCHANGED generation

(* The finally clause: session.disconnect and the active connection. *)
Leave(k) ==
  /\ handler' = [handler EXCEPT ![k] = "done"]
  /\ session' = [session EXCEPT ![k].phase = "DISCONNECTED"]
  /\ readyGen' = IF k = generation THEN None ELSE readyGen
  /\ active' = IF k = active THEN None ELSE active
  /\ UNCHANGED generation

(* The handler ends after the closing handshake, or at the end of a        *)
(* connection the client has left, once everything received is processed.  *)
HandlerEnds(k) ==
  /\ \/ handler[k] = "closing"
     \/ /\ handler[k] = "serving" /\ link[k] = "cut" /\ up[k] = << >>
        /\ ~Sending(k, "handler")
  /\ Leave(k)
  /\ UNCHANGED <<authority, clock, sendq, wire, client, faults>>

(* The lock holder sends its next message; on a lost connection the rest   *)
(* of its batch is given up, and the handler it came from ends with it.    *)
SendNext ==
  /\ sendq # << >>
  /\ LET b == Head(sendq)
     IN  IF link[b.conn] = "up"
         THEN /\ down' = [down EXCEPT ![b.conn] = Append(@, Head(b.msgs))]
              /\ sendq' = IF Len(b.msgs) = 1 THEN Tail(sendq)
                          ELSE [sendq EXCEPT ![1].msgs = Tail(@)]
              /\ UNCHANGED <<gate, handler, session>>
         ELSE /\ sendq' = Tail(sendq)
              /\ IF b.from = "handler" THEN Leave(b.conn)
                 ELSE UNCHANGED <<gate, handler, session>>
              /\ UNCHANGED down
  /\ UNCHANGED <<authority, clock, link, up, client, faults>>

(* The handler of k, idle, takes the next message off the wire. *)
Take(k) ==
  /\ handler[k] = "serving" /\ ~Sending(k, "handler")
  /\ up[k] # << >>
  /\ up' = [up EXCEPT ![k] = Tail(@)]

AnyGeneration(k) == TRUE \* Slip: obsolete connections still count.
Current(k) == k = generation

Seen(m) == m.again \* its message_id is in _seen

Expected(type) ==
  CASE type = "client_hello" -> "AWAITING_CLIENT_HELLO"
    [] type = "asset_registry" -> "AWAITING_ASSET_REGISTRY"
    [] type = "client_ready" -> "AWAITING_CLIENT_READY"
    [] OTHER -> "READY"

(* receive_json lets through a message of the current connection that is   *)
(* not from the future and comes in its phase.                             *)
Admitted(k, m) ==
  /\ Current(k)
  /\ m.ver <= version
  /\ session[k].phase = Expected(m.type)
  /\ m.type = "client_ready" => m.ver = session[k].snapshot

(* A message_id seen before on this connection: nothing is dispatched; the *)
(* outputs of a repeatable message are sent again.                         *)
ReceiveRepeat(k) ==
  LET m == Head(up[k])
  IN  /\ Take(k) /\ Seen(m) /\ Current(k)
      /\ Enqueue(k, "handler", IF m.type \in Movements THEN << >>
                               ELSE <<[type |-> "repeat"]>>)
      /\ UNCHANGED <<authority, clock, gate, handler, session,
                     link, down, client, faults>>

(* A BridgeProtocolError closes the connection. *)
ReceiveRefused(k) ==
  LET m == Head(up[k])
  IN  /\ Take(k)
      /\ ~Admitted(k, m) /\ (Seen(m) => ~Current(k))
      /\ handler' = [handler EXCEPT ![k] = "closing"]
      /\ link' = [link EXCEPT ![k] = "cut"]
      /\ UNCHANGED <<authority, clock, gate, session, sendq,
                     down, client, faults>>

Receive(k, type) ==
  /\ Take(k)
  /\ LET m == Head(up[k])
     IN  m.type = type /\ ~Seen(m) /\ Admitted(k, m)
  /\ UNCHANGED <<handler, link, down, client, faults>>

ReceiveHello(k) ==
  /\ Receive(k, "client_hello")
  /\ session' = [session EXCEPT ![k].phase = "AWAITING_ASSET_REGISTRY"]
  /\ Enqueue(k, "handler", <<[type |-> "server_hello", ver |-> version]>>)
  /\ UNCHANGED <<authority, clock, gate>>

ReceiveRegistry(k) ==
  /\ Receive(k, "asset_registry")
  /\ \E accepted \in Registries :
       LET result == [type |-> "asset_registry_result", ver |-> version,
                      accepted |-> accepted]
       IN  IF accepted
           THEN /\ session' = [session EXCEPT ![k] =
                                 [phase |-> "AWAITING_CLIENT_READY",
                                  snapshot |-> version]]
                /\ Enqueue(k, "handler", <<result, Snapshot>>)
           ELSE /\ Enqueue(k, "handler", <<result>>)
                /\ UNCHANGED session
  /\ UNCHANGED <<authority, clock, gate>>

ReceiveReady(k) ==
  /\ Receive(k, "client_ready")
  /\ readyGen' = k
  /\ session' = [session EXCEPT ![k].phase = "READY"]
  /\ Enqueue(k, "handler", <<Clock(version)>>)
  /\ UNCHANGED <<authority, clock, generation, active>>

(* _validate_live_movement: only a cancellation may be older than the      *)
(* state; an arrival counts once.                                          *)
Accepted(m) ==
  /\ m.ver = version \/ m.type = "movement_cancelled"
  /\ trip[m.action].phase = "TRAVELING"
  /\ m.type = "movement_arrived" => m.agent \notin trip[m.action].arrived

AfterReport(m) ==
  LET arrived == trip[m.action].arrived \cup {m.agent}
  IN  IF m.type # "movement_arrived" THEN Ended(m.action)
      ELSE IF arrived = Party[m.action] THEN Performed(m.action)
      ELSE [phase |-> "TRAVELING", arrived |-> arrived]

(* A report is committed, or answered with the whole state. *)
ReceiveMovement(k) ==
  /\ \E type \in Movements : Receive(k, type)
  /\ LET m == Head(up[k])
     IN  IF Accepted(m)
         THEN /\ version' = version + 1
              /\ trip' = [trip EXCEPT ![m.action] = AfterReport(m)]
              /\ Enqueue(k, "handler",
                         <<About(IF m.type = "movement_arrived"
                                 THEN "agent_state_delta" ELSE "action_ended",
                                 m.action)>>)
         ELSE Enqueue(k, "handler", <<Snapshot>>) /\ UNCHANGED authority
  /\ UNCHANGED <<clock, gate, session>>

(* set_time_scale and set_paused. *)
ReceiveControl(k) ==
  /\ \E type \in {"pause_request", "set_time_scale_request"} : Receive(k, type)
  /\ LET m == Head(up[k])
     IN  clock' = IF m.type = "pause_request"
                  THEN [clock EXCEPT !.paused = (m.value = 1)]
                  ELSE [paused |-> m.value = 0, scale |-> m.value]
  /\ Enqueue(k, "handler", <<Clock(version)>>)
  /\ UNCHANGED <<authority, gate, session>>

-----------------------------------------------------------------------------
(* The client's connection. *)

LastRaw == applied \* Slip: -1, before any snapshot, goes out on the wire.
Last == IF applied < 0 THEN 0 ELSE applied  \* LastAppliedStateVersion

(* SendAsync: on a transport that is not open the message is dropped. *)
Send(m) == up' = IF link[cgen] = "up"
                 THEN [up EXCEPT ![cgen] = Append(@, m)] ELSE up

Outbound(type, v) == [type |-> type, ver |-> v, again |-> FALSE]

(* HandleTransportEnded; a client that is reconnecting stays as it is. *)
TransportEnded ==
  IF cstate = "Reconnecting" THEN UNCHANGED <<cstate, due, floor>>
  ELSE /\ cstate' = "Reconnecting" /\ due' = FALSE
       /\ floor' = IF applied > floor THEN applied ELSE floor

Connect ==
  /\ cstate = "Disconnected" \/ (cstate = "Reconnecting" /\ due)
  /\ ~inflight /\ cgen < MaxConn
  /\ inflight' = TRUE /\ cgen' = cgen + 1
  /\ cstate' = IF cstate = "Reconnecting" THEN cstate ELSE "Connecting"
  /\ UNCHANGED <<server, wire, due, floor, applied, walking, faults>>

(* ConnectAsync returns on a background thread: the transport is in place  *)
(* before the main thread says hello.                                      *)
Connected ==
  /\ inflight /\ link[cgen] = "none"
  /\ link' = [link EXCEPT ![cgen] = "up"]
  /\ UNCHANGED <<server, up, down, client, faults>>

ConnectFails ==
  /\ inflight /\ link[cgen] = "none" /\ faults.failures < MaxFailures
  /\ faults' = [faults EXCEPT !.failures = @ + 1]
  /\ link' = [link EXCEPT ![cgen] = "cut"]
  /\ inflight' = FALSE
  /\ TransportEnded
  /\ UNCHANGED <<server, up, down, cgen, applied, walking>>

\* Slip: connectInFlight stays set.
SendHelloInFlight ==
  /\ inflight /\ link[cgen] # "none"
  /\ cstate' = "AwaitingServerHello"
  /\ Send(Outbound("client_hello", Last))
  /\ UNCHANGED <<server, link, down, cgen, inflight, due, floor, applied, walking, faults>>

SendHello ==
  /\ inflight /\ link[cgen] # "none"
  /\ inflight' = FALSE /\ cstate' = "AwaitingServerHello"
  /\ Send(Outbound("client_hello", Last))
  /\ UNCHANGED <<server, link, down, cgen, due, floor, applied, walking, faults>>

(* The receive loop ends with the connection. *)
NoticeEnd ==
  /\ cgen > 0 /\ ~inflight /\ link[cgen] = "cut"
  /\ cstate # "Reconnecting"
  /\ TransportEnded
  /\ UNCHANGED <<server, wire, cgen, inflight, applied, walking, faults>>

Prefixes(s) == {SubSeq(s, 1, n) : n \in 0 .. Len(s)}

(* The connection is lost with part of what was under way. *)
Lose(k) ==
  /\ link' = [link EXCEPT ![k] = "cut"]
  /\ \E u \in Prefixes(up[k]), d \in Prefixes(down[k]) :
       up' = [up EXCEPT ![k] = u] /\ down' = [down EXCEPT ![k] = d]

ConnectionLost ==
  /\ cgen > 0 /\ link[cgen] = "up" /\ faults.cuts < MaxCuts
  /\ faults' = [faults EXCEPT !.cuts = @ + 1]
  /\ Lose(cgen)
  /\ UNCHANGED <<server, client>>

(* No answer within handshakeTimeoutSeconds: the client gives up the        *)
(* connection.                                                              *)
HandshakeTimeout ==
  /\ cstate \in HandshakeStates
  /\ link[cgen] = "up" /\ faults.cuts < MaxCuts
  /\ faults' = [faults EXCEPT !.cuts = @ + 1]
  /\ Lose(cgen)
  /\ TransportEnded
  /\ UNCHANGED <<server, cgen, inflight, applied, walking>>

ReconnectDelay ==
  /\ cstate = "Reconnecting" /\ ~due
  /\ due' = TRUE
  /\ UNCHANGED <<server, wire, cstate, cgen, inflight, floor, applied, walking, faults>>

(* The same message goes out once more. *)
Retransmit ==
  /\ cgen > 0 /\ link[cgen] = "up" /\ up[cgen] # << >>
  /\ faults.repeats < MaxRepeats
  /\ faults' = [faults EXCEPT !.repeats = @ + 1]
  /\ LET m == up[cgen][Len(up[cgen])] IN Send([m EXCEPT !.again = TRUE])
  /\ UNCHANGED <<server, link, down, client>>

(* The server process is started anew from its initial world. *)
ServerRestart ==
  /\ faults.restarts < MaxRestarts
  /\ faults' = [faults EXCEPT !.restarts = @ + 1]
  /\ version' = 0 /\ trip' = [a \in Action |-> NoTrip]
  /\ clock' = [paused |-> FALSE, scale |-> 1]
  /\ generation' = None /\ readyGen' = None /\ active' = None
  /\ handler' = [k \in Conn |-> IF handler[k] = "none" /\ link[k] # "up"
                                THEN "none" ELSE "done"]
  /\ sendq' = << >>
  /\ link' = [k \in Conn |-> IF link[k] = "up" THEN "cut" ELSE link[k]]
  /\ up' = [k \in Conn |-> << >>]
  /\ UNCHANGED <<session, down, client>>

-----------------------------------------------------------------------------
(* What the client does with a message: Update, ProcessInboundJson. *)

Deliver(k) ==
  /\ down[k] # << >>
  /\ down' = [down EXCEPT ![k] = Tail(@)]
  /\ UNCHANGED <<server, link, cgen, inflight, due, floor, faults>>

OfAnyConnection(k) == TRUE \* Slip: frames are not told apart by generation.
OfThisConnection(k) == k = cgen

\* Slip: a snapshot counts in the handshake only.
AppliesInHandshake(m) ==
  CASE m.type = "repeat" -> FALSE
    [] m.type = "server_hello" -> cstate = "AwaitingServerHello"
    [] m.type = "asset_registry_result" -> cstate = "AwaitingRegistryResult"
    [] m.type = "world_snapshot" -> cstate = "AwaitingWorldSnapshot" /\ m.ver >= floor
    [] OTHER -> cstate = "Ready" /\ m.ver >= applied

(* Whether the message, in the client's present state, is acted upon. *)
Applies(m) ==
  CASE m.type = "repeat" -> FALSE
    [] m.type = "server_hello" -> cstate = "AwaitingServerHello"
    [] m.type = "asset_registry_result" -> cstate = "AwaitingRegistryResult"
    [] m.type = "world_snapshot" ->
         cstate \in {"AwaitingWorldSnapshot", "Ready"} /\ m.ver >= floor
    [] OTHER -> cstate = "Ready" /\ m.ver >= applied

(* After a server restart message_ids come round again, and a message may  *)
(* be taken for one seen before.                                           *)
Ignore(k) ==
  /\ Deliver(k)
  /\ \/ ~OfThisConnection(k) \/ ~Applies(Head(down[k]))
     \/ faults.restarts > 0
  /\ UNCHANGED <<up, cstate, applied, walking>>

Apply(k, types) ==
  /\ Deliver(k)
  /\ OfThisConnection(k)
  /\ Head(down[k]).type \in types /\ Applies(Head(down[k]))

ApplyServerHello(k) ==
  /\ Apply(k, {"server_hello"})
  /\ Send(Outbound("asset_registry", Head(down[k]).ver))
  /\ cstate' = "AwaitingRegistryResult"
  /\ UNCHANGED <<applied, walking>>

ApplyRegistryResult(k) ==
  /\ Apply(k, {"asset_registry_result"})
  /\ cstate' = IF Head(down[k]).accepted
               THEN "AwaitingWorldSnapshot" ELSE "DiagnosticOnly"
  /\ UNCHANGED <<up, applied, walking>>

Walkers(actions) == {w \in actions \X Agent : w[2] \in Party[w[1]]}

(* The snapshot replaces whatever the client showed: navigation stops, and  *)
(* every participant of a trip under way is sent off again.                 *)
ApplyWorldSnapshot(k) ==
  /\ Apply(k, {"world_snapshot"})
  /\ applied' = Head(down[k]).ver
  /\ walking' = Walkers(Head(down[k]).traveling)
  /\ cstate' = "Ready"
  /\ IF cstate = "AwaitingWorldSnapshot"
     THEN Send(Outbound("client_ready", Head(down[k]).ver))
     ELSE UNCHANGED up

ApplyStateMessage(k) ==
  /\ Apply(k, {"clock", "agent_state_delta", "action_started", "action_ended"})
  /\ LET m == Head(down[k])
     IN  /\ applied' = m.ver
         /\ walking' = CASE m.type = "action_started" -> walking \cup Walkers({m.action})
                         [] m.type = "action_ended" -> walking \ Walkers({m.action})
                         [] OTHER -> walking
  /\ UNCHANGED <<up, cstate>>

-----------------------------------------------------------------------------
(* What the client asks and reports.  Navigation runs on through the loss  *)
(* of a connection; its outcome is sent on whatever transport there is.    *)

RoomOnWire == cgen > 0 /\ Len(up[cgen]) < MaxWire

Report(a, n, type) ==
  /\ <<a, n>> \in walking /\ RoomOnWire
  /\ walking' = walking \ {<<a, n>>}
  /\ Send([type |-> type, ver |-> Last, again |-> FALSE, action |-> a, agent |-> n])
  /\ UNCHANGED <<server, link, down, reconnecting, applied, faults>>

RequestClock(c) ==
  /\ cstate = "Ready"
  /\ Len(up[cgen]) + Len(down[cgen]) + Len(sendq) < MaxWire
  /\ Send([type |-> c.type, ver |-> Last, again |-> FALSE, value |-> c.value])
  /\ UNCHANGED <<server, link, down, client, faults>>

-----------------------------------------------------------------------------
Init ==
  /\ version = 0 /\ trip = [a \in Action |-> NoTrip]
  /\ clock = [paused |-> FALSE, scale |-> 1]
  /\ generation = None /\ readyGen = None /\ active = None
  /\ handler = [k \in Conn |-> "none"]
  /\ session = [k \in Conn |-> [phase |-> "AWAITING_CLIENT_HELLO",
                                snapshot |-> NoSnapshot]]
  /\ sendq = << >>
  /\ link = [k \in Conn |-> "none"]
  /\ up = [k \in Conn |-> << >>] /\ down = [k \in Conn |-> << >>]
  /\ cstate = "Disconnected" /\ cgen = 0 /\ inflight = FALSE /\ due = FALSE
  /\ applied = -1 /\ floor = -1 /\ walking = {}
  /\ faults = [cuts |-> 0, failures |-> 0, restarts |-> 0, repeats |-> 0]

Handle(k) ==
  \/ ReceiveRepeat(k) \/ ReceiveRefused(k) \/ ReceiveHello(k)
  \/ ReceiveRegistry(k) \/ ReceiveReady(k) \/ ReceiveMovement(k)
  \/ ReceiveControl(k)

Process(k) ==
  \/ Ignore(k) \/ ApplyServerHello(k) \/ ApplyRegistryResult(k)
  \/ ApplyWorldSnapshot(k) \/ ApplyStateMessage(k)

Next ==
  \/ Tick \/ SendNext
  \/ \E k \in Conn : OpenSession(k) \/ Handle(k) \/ HandlerEnds(k) \/ Process(k)
  \/ Connect \/ Connected \/ ConnectFails \/ SendHello
  \/ NoticeEnd \/ HandshakeTimeout \/ ReconnectDelay
  \/ \E a \in Action, n \in Agent, r \in Reports : Report(a, n, r)
  \/ \E c \in Controls : RequestClock(c)
  \/ ConnectionLost \/ Retransmit \/ ServerRestart

Spec == Init /\ [][Next]_vars

(* Tasks and threads run, the network carries what it does not lose, a      *)
(* closed connection is noticed and the reconnect timer expires; faults,    *)
(* minutes and requests need never happen.  A walker gets there in the end, *)
(* even if it is stopped and sent off again time after time: it starts anew *)
(* from where it stands.                                                    *)
Fairness ==
  /\ WF_vars(SendNext)
  /\ \A k \in Conn : /\ WF_vars(OpenSession(k)) /\ WF_vars(Handle(k))
                     /\ WF_vars(HandlerEnds(k)) /\ WF_vars(Process(k))
  /\ WF_vars(Connect) /\ WF_vars(Connected) /\ WF_vars(SendHello)
  /\ WF_vars(NoticeEnd) /\ WF_vars(ReconnectDelay)
  /\ \A a \in Action, n \in Agent : SF_vars(Report(a, n, "movement_arrived"))

FairSpec == Spec /\ Fairness

-----------------------------------------------------------------------------
(* Properties. *)

ServerMessage ==
  [type : {"repeat"}]
    \cup [type : {"server_hello", "clock"}, ver : Nat]
    \cup [type : {"asset_registry_result"}, ver : Nat, accepted : BOOLEAN]
    \cup [type : {"world_snapshot"}, ver : Nat, traveling : SUBSET Action]
    \cup [type : {"agent_state_delta", "action_started", "action_ended"},
          ver : Nat, action : Action]
ClientMessage ==
  [type : {"client_hello", "asset_registry", "client_ready"}, ver : Nat, again : BOOLEAN]
    \cup [type : Movements, ver : Nat, again : BOOLEAN, action : Action, agent : Agent]
    \cup [type : {"pause_request", "set_time_scale_request"}, ver : Nat,
          again : BOOLEAN, value : {0, 1}]

(* Types of the variables. *)
TypeOK ==
  /\ version \in Nat
  /\ trip \in [Action -> [phase : {"NONE", "TRAVELING", "PERFORMING", "ENDED"},
                          arrived : SUBSET Agent]]
  /\ clock \in [paused : BOOLEAN, scale : {0, 1}]
  /\ {generation, readyGen, active} \subseteq {None} \cup Conn
  /\ handler \in [Conn -> {"none", "serving", "closing", "done"}]
  /\ session \in [Conn -> [phase : Phases, snapshot : Nat \cup {NoSnapshot}]]
  /\ sendq \in Seq([conn : Conn, from : {"handler", "clock"}, msgs : Seq(ServerMessage)])
  /\ link \in [Conn -> {"none", "up", "cut"}]
  /\ up \in [Conn -> Seq(ClientMessage)]
  /\ down \in [Conn -> Seq(ServerMessage)]
  /\ cstate \in ClientStates /\ cgen \in {0} \cup Conn
  /\ inflight \in BOOLEAN /\ due \in BOOLEAN
  /\ applied \in Nat \cup {-1} /\ floor \in Nat \cup {-1}
  /\ walking \subseteq Action \X Agent
  /\ faults \in [cuts : Nat, failures : Nat, restarts : Nat, repeats : Nat]

(* Between the snapshot a client is offered and its client_ready the world  *)
(* does not move: the acknowledged version is the authority's own, so       *)
(* client_ready is never turned away with SNAPSHOT_ACK_MISMATCH and the     *)
(* clock resumes from the very state the client shows.                      *)
SnapshotCurrent ==
  \A k \in Conn : k = generation /\ session[k].phase = "AWAITING_CLIENT_READY"
                  => session[k].snapshot = version

(* The three notions of "this connection may act" agree: the session's      *)
(* phase, the runtime's ready generation and the server's active            *)
(* connection.  Otherwise _require_ready would raise a ValueError that no   *)
(* handler catches, or the clock loop would skip a ready client for good.   *)
GateAgrees ==
  \A k \in Conn : k = generation /\ handler[k] = "serving" =>
    /\ active = k
    /\ session[k].phase = "READY" <=> readyGen = k

Versioned(m) == m.type # "repeat"
NotAfter(m, n) == Versioned(m) /\ Versioned(n) => m.ver <= n.ver

(* The way to the client of k: what its wire carries, then the batches for  *)
(* it that hold or await the lock.                                          *)
Stretch(k, b) == IF b = 0 THEN down[k]
                 ELSE IF sendq[b].conn = k THEN sendq[b].msgs ELSE << >>

(* What is under way to a client is in the order of the authority's         *)
(* versions, whatever the handler and the clock loop do between their       *)
(* sends, and none of it is older than what a ready client already shows:   *)
(* the client's stale check never drops a change it has not seen.           *)
InOrder ==
  \A k \in Conn : \A b, c \in 0 .. Len(sendq) :
    \A i \in DOMAIN Stretch(k, b), j \in DOMAIN Stretch(k, c) :
      LET m == Stretch(k, b)[i]
          n == Stretch(k, c)[j]
      IN  /\ b < c \/ (b = c /\ i < j) => NotAfter(m, n)
          /\ k = cgen /\ cstate = "Ready" /\ Versioned(n) => n.ver >= applied

Quiet(k) ==
  /\ link[k] = "up" /\ handler[k] = "serving"
  /\ up[k] = << >> /\ down[k] = << >>
  /\ \A i \in DOMAIN sendq : sendq[i].conn # k

(* When a ready client and its server have nothing left to tell each other, *)
(* every participant the authority waits for is on its way: no arrival or   *)
(* failure is lost between a rejected report, a resynchronisation and a     *)
(* reconnection, which would leave the trip to its timeout.  Only after a   *)
(* restart of the server may it be, when message_ids come round again.      *)
NobodyForgotten ==
  faults.restarts = 0 /\ cgen > 0 /\ cstate = "Ready" /\ Quiet(cgen) =>
    \A a \in Action : trip[a].phase = "TRAVELING" =>
      \A n \in Party[a] \ trip[a].arrived : <<a, n>> \in walking

(* The version a client shows never goes back, over reconnections, messages *)
(* of obsolete connections and restarts of the server.                      *)
NeverOlder == [][applied' >= applied]_vars

(* ADR-0010, "repeating the same ID and content is a no-op": a              *)
(* retransmission changes neither the world nor the clock, and does not     *)
(* cost the client its connection.                                          *)
RepeatIsNoOp ==
  [][\A k \in Conn :
       /\ k = generation /\ up[k] # << >> /\ up'[k] = Tail(up[k])
       /\ Head(up[k]).again /\ UNCHANGED faults
       => UNCHANGED <<authority, clock, handler, session>>]_vars

(* Both ends take every message at most once and none of an earlier         *)
(* connection, whatever is repeated, lost or left in a queue.               *)
AppliedOnce == NeverOlder /\ RepeatIsNoOp

(* A client that lost its connection is ready again in the end, however the *)
(* navigation it left running interferes with the new handshake: every      *)
(* walker spoils at most one attempt, and every fault still to come another.*)
Attempts == Cardinality(walking) + MaxCuts - faults.cuts
              + MaxFailures - faults.failures + 1
EventuallyReady ==
  cstate = "Reconnecting" /\ cgen + Attempts <= MaxConn ~> cstate = "Ready"

(* Every trip comes to an end without the help of the movement timeout:     *)
(* a report that a concurrent commit made stale is made again, unless the   *)
(* connection is lost.                                                      *)
TripsEnd ==
  \A a \in Action :
    trip[a].phase = "TRAVELING" ~> trip[a].phase # "TRAVELING" \/ faults.cuts > 0

(* The bridge implements the handover of the world from one client to the   *)
(* next.                                                                    *)
Offered == IF generation # None /\ ~Ready
              /\ session[generation].phase = "AWAITING_CLIENT_READY"
           THEN session[generation].snapshot ELSE NoSnapshot
H == INSTANCE Handover WITH latest <- generation, offered <- Offered,
                            holder <- IF Ready THEN generation ELSE None
HandsOver == H!Spec


=============================================================================
