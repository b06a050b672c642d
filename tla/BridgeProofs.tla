---------------------------- MODULE BridgeProofs ----------------------------
(***************************************************************************)
(* Bridge, for every set of agents, actions and requests, any number of    *)
(* connections and any faults: the world does not move under a client that *)
(* is about to acknowledge it (SnapshotCurrent), the three notions of who  *)
(* may act agree (GateAgrees), and the bridge implements Handover.         *)
(*                                                                         *)
(* Neither invariant is inductive.  A connection that is being closed may  *)
(* still be the ready one, so Granted says of every connection, served or  *)
(* not, that it is ready only in phase READY; and the newest connection    *)
(* takes over from an older one only, because a client has one open        *)
(* connection at a time (OneLink, Rested) and the server has served none   *)
(* that is newer than that (Opened).                                       *)
(***************************************************************************)
EXTENDS Bridge, SequenceTheorems, TLAPS

Types ==
  /\ version \in Nat
  /\ {generation, readyGen, active} \subseteq {None} \cup Conn
  /\ handler \in [Conn -> {"none", "serving", "closing", "done"}]
  /\ session \in [Conn -> [phase : Phases, snapshot : Nat \cup {NoSnapshot}]]
  /\ link \in [Conn -> {"none", "up", "cut"}]
  /\ cstate \in ClientStates /\ cgen \in {0} \cup Conn /\ inflight \in BOOLEAN

Granted == readyGen # None => readyGen = generation /\ session[generation].phase = "READY"

OneLink == \A k \in Conn : link[k] = "up" => k = cgen

Rested == /\ cstate = "Disconnected" => cgen = 0
          /\ cstate = "Reconnecting" /\ ~inflight /\ cgen # 0 => link[cgen] # "up"

Opened == generation # None => generation <= cgen /\ handler[generation] # "none"

IInv == Types /\ GateAgrees /\ SnapshotCurrent /\ Granted /\ OneLink /\ Rested /\ Opened

-----------------------------------------------------------------------------
(* The invariant.                                                          *)

(* At the start nobody is connected: the invariant holds.                  *)
LEMMA Initially == Init => IInv
<1> SUFFICES ASSUME Init PROVE IInv
  OBVIOUS
<1>1. Types
  BY DEF Init, Types, Conn, None, NoSnapshot, Phases, ClientStates, HandshakeStates
<1>2. GateAgrees /\ SnapshotCurrent /\ Granted /\ Opened
  BY BridgeConstants
     DEF BridgeConstants, Init, GateAgrees, SnapshotCurrent, Granted, Opened, Conn, None
<1>3. OneLink /\ Rested
  BY DEF Init, OneLink, Rested
<1> QED
  BY <1>1, <1>2, <1>3 DEF IInv

(* What leaves the server and the client's connection alone keeps the      *)
(* invariant, also if it closes a link.                                    *)
LEMMA AsideKeeps ==
  ASSUME IInv,
         UNCHANGED <<version, gate, handler, session, cgen>>,
         link' \in [Conn -> {"none", "up", "cut"}],
         \A k \in Conn : link'[k] = "up" => link[k] = "up",
         \/ UNCHANGED <<cstate, inflight>>
         \/ /\ cstate' \in ClientStates \ {"Disconnected"} /\ inflight' \in BOOLEAN
            /\ cstate' = "Reconnecting" /\ cgen # 0 => link'[cgen] # "up"
  PROVE  IInv'
BY DEF IInv, Types, GateAgrees, SnapshotCurrent, Granted, OneLink, Rested, Opened, gate

(* A minute passes while somebody is ready only.                           *)
LEMMA TickKeeps == ASSUME IInv, Tick PROVE IInv'
BY BridgeConstants DEF BridgeConstants,
   IInv, Types, GateAgrees, SnapshotCurrent, Granted, OneLink, Rested, Opened,
   Tick, Ready, gate, wire, client, reconnecting, None, Conn

(* The server accepts a connection: it replaces the one it had, and nobody  *)
(* is ready.                                                               *)
LEMMA OpenSessionKeeps == ASSUME IInv, NEW k \in Conn, OpenSession(k) PROVE IInv'
BY BridgeConstants
   DEF IInv, Types, GateAgrees, SnapshotCurrent, Granted, OneLink, Rested, Opened,
   OpenSession, authority, gate, wire, client, reconnecting, None, Conn, NoSnapshot, Phases

(* Whoever leaves takes its own readiness along, and nobody else's.        *)
LEMMA LeaveKeeps ==
  ASSUME IInv, NEW c, Leave(c), UNCHANGED <<version, link, reconnecting>>
  PROVE  IInv'
<1>1. /\ \A k \in Conn : session'[k] = [session[k] EXCEPT !.phase =
                                       IF k = c THEN "DISCONNECTED" ELSE @]
      /\ \A k \in Conn : handler'[k] = IF k = c THEN "done" ELSE handler[k]
      /\ UNCHANGED generation
      /\ readyGen' = IF c = generation THEN None ELSE readyGen
      /\ active' = IF c = active THEN None ELSE active
  BY DEF Leave, IInv, Types
<1>2. Types'
  <2>1. session' \in [Conn -> [phase : Phases, snapshot : Nat \cup {NoSnapshot}]]
    BY DEF Leave, IInv, Types, Phases
  <2>2. handler' \in [Conn -> {"none", "serving", "closing", "done"}]
    BY DEF Leave, IInv, Types
  <2> QED
    BY <1>1, <2>1, <2>2 DEF IInv, Types, reconnecting
<1>3. SnapshotCurrent'
  <2>1. \A k \in Conn : session'[k].phase = "AWAITING_CLIENT_READY"
                        => session'[k] = session[k]
    BY <1>1 DEF IInv, Types
  <2> QED
    BY <1>1, <2>1 DEF IInv, SnapshotCurrent
<1>4. GateAgrees'
  <2> SUFFICES ASSUME NEW k \in Conn, k = generation, handler'[k] = "serving"
               PROVE  active' = k /\ (session'[k].phase = "READY" <=> readyGen' = k)
    BY <1>1 DEF GateAgrees
  <2>1. k # c /\ handler[k] = "serving"
    BY <1>1
  <2>2. session'[k].phase = session[k].phase
    <3>1. session[k] \in [phase : Phases, snapshot : Nat \cup {NoSnapshot}]
      BY DEF IInv, Types
    <3> QED
      BY <1>1, <2>1, <3>1
  <2> QED
    BY <1>1, <2>1, <2>2 DEF IInv, GateAgrees
<1>5. Granted' /\ Opened'
  BY <1>1 DEF IInv, Types, Granted, Opened, reconnecting, Conn, None
<1>6. OneLink' /\ Rested'
  BY DEF IInv, OneLink, Rested, reconnecting
<1> QED
  BY <1>2, <1>3, <1>4, <1>5, <1>6 DEF IInv

(* A message is dispatched for the current connection, in its phase, by a   *)
(* handler that serves it.                                                  *)
LEMMA Dispatched ==
  ASSUME NEW k, NEW type, Receive(k, type)
  PROVE  /\ k = generation /\ handler[k] = "serving"
         /\ session[k].phase = Expected(type)
         /\ UNCHANGED <<handler, link, client>>
BY DEF Receive, Take, Admitted, Current, client

(* The server's handlers, one case per kind of message.                    *)
LEMMA HandleKeeps == ASSUME IInv, NEW k \in Conn, Handle(k) PROVE IInv'
<1>1. CASE ReceiveRepeat(k)
  BY <1>1, AsideKeeps DEF ReceiveRepeat, IInv, Types, authority, client, reconnecting
<1>2. CASE ReceiveRefused(k)
  BY <1>2, BridgeConstants
     DEF BridgeConstants, ReceiveRefused, Take, IInv, Types, GateAgrees, SnapshotCurrent, Granted, OneLink, Rested, Opened,
         authority, gate, client, reconnecting, Conn, None
<1>3. CASE ReceiveHello(k)
  <2>1. Receive(k, "client_hello")
    BY <1>3 DEF ReceiveHello
  <2>2. session' \in [Conn -> [phase : Phases, snapshot : Nat \cup {NoSnapshot}]]
    BY <1>3 DEF ReceiveHello, IInv, Types, Phases
  <2>3. \A j \in Conn : session'[j].phase =
          IF j = k THEN "AWAITING_ASSET_REGISTRY" ELSE session[j].phase
    BY <1>3 DEF ReceiveHello, IInv, Types
  <2>4. \A j \in Conn : session'[j].snapshot = session[j].snapshot
    BY <1>3 DEF ReceiveHello, IInv, Types
  <2>5. UNCHANGED <<authority, gate, handler, link, client>>
    BY <1>3, <2>1, Dispatched DEF ReceiveHello
  <2> QED
    BY <2>1, <2>2, <2>3, <2>4, <2>5, Dispatched
       DEF Expected, IInv, Types, GateAgrees, SnapshotCurrent, Granted, OneLink, Rested, Opened,
           authority, gate, client, reconnecting, Conn, None
<1>4. CASE ReceiveRegistry(k)
  <2>1. Receive(k, "asset_registry")
    BY <1>4 DEF ReceiveRegistry
  <2>2. \/ session' = [session EXCEPT ![k] = [phase |-> "AWAITING_CLIENT_READY",
                                            snapshot |-> version]]
        \/ UNCHANGED session
    BY <1>4 DEF ReceiveRegistry
  <2>3. UNCHANGED <<authority, gate, handler, link, client>>
    BY <1>4, <2>1, Dispatched DEF ReceiveRegistry
  <2>4. CASE UNCHANGED session
    BY <2>3, <2>4, AsideKeeps DEF IInv, Types, authority, client, reconnecting
  <2>5. CASE session' = [session EXCEPT ![k] = [phase |-> "AWAITING_CLIENT_READY",
                                                snapshot |-> version]]
    <3>1. Types'
      BY <2>3, <2>5 DEF IInv, Types, Phases, authority, gate, client, reconnecting
    <3>2. readyGen # k
      BY <2>1, Dispatched DEF IInv, Granted, Expected, Conn, None
    <3> QED
      BY <2>1, <2>3, <2>5, <3>1, <3>2, Dispatched
         DEF IInv, Types, GateAgrees, SnapshotCurrent, Granted, OneLink, Rested, Opened, authority, gate, client, reconnecting
  <2> QED
    BY <2>2, <2>4, <2>5
<1>5. CASE ReceiveReady(k)
  <2>1. Receive(k, "client_ready")
    BY <1>5 DEF ReceiveReady
  <2> QED
    BY <1>5, <2>1, Dispatched, BridgeConstants
       DEF BridgeConstants, ReceiveReady, Expected, IInv, Types, GateAgrees, SnapshotCurrent, Granted, OneLink, Rested, Opened,
           authority, gate, client, reconnecting, Conn, None, Phases
<1>6. CASE ReceiveMovement(k)
  <2>1. PICK type \in Movements : Receive(k, type)
    BY <1>6 DEF ReceiveMovement
  <2>2. session[k].phase = "READY"
    BY <2>1, Dispatched DEF Expected, Movements
  <2>3. version' = version \/ version' = version + 1
    BY <1>6 DEF ReceiveMovement, authority
  <2>4. UNCHANGED <<gate, session>>
    BY <1>6 DEF ReceiveMovement
  <2> QED
    BY <2>1, <2>2, <2>3, <2>4, Dispatched, BridgeConstants
       DEF BridgeConstants, IInv, Types, GateAgrees, SnapshotCurrent, Granted, OneLink, Rested, Opened,
           gate, client, reconnecting, Conn, None
<1>7. CASE ReceiveControl(k)
  <2>1. UNCHANGED <<handler, link, client>>
    BY <1>7, Dispatched DEF ReceiveControl
  <2> QED
    BY <1>7, <2>1, AsideKeeps
       DEF ReceiveControl, IInv, Types, authority, client, reconnecting
<1> QED
  BY <1>1, <1>2, <1>3, <1>4, <1>5, <1>6, <1>7 DEF Handle

(* The client sends what its step of the handshake asks for.               *)
LEMMA SendNextKeeps == ASSUME IInv, SendNext PROVE IInv'
<1> DEFINE b == Head(sendq)
<1>1. UNCHANGED <<version, link, reconnecting, client>>
  BY DEF SendNext, authority, client, reconnecting
<1>2. CASE UNCHANGED <<gate, handler, session>>
  BY <1>1, <1>2, AsideKeeps DEF IInv, Types, client, reconnecting
<1>3. CASE Leave(b.conn)
  BY <1>1, <1>3, LeaveKeeps
<1> QED
  BY <1>2, <1>3 DEF SendNext

(* The task of a connection ends: the active one gives up its readiness.   *)
LEMMA HandlerEndsKeeps == ASSUME IInv, NEW k \in Conn, HandlerEnds(k) PROVE IInv'
BY LeaveKeeps DEF HandlerEnds, authority, wire, client, reconnecting

(* The client connects: it has no other connection open.                   *)
LEMMA ConnectKeeps == ASSUME IInv, Connect PROVE IInv'
BY BridgeConstants
   DEF BridgeConstants, Connect, IInv, Types, GateAgrees, SnapshotCurrent, Granted, OneLink, Rested, Opened,
       server, wire, authority, gate, Conn, None, ClientStates, HandshakeStates

(* The client learns that its connection is open.                          *)
LEMMA ConnectedKeeps == ASSUME IInv, Connected PROVE IInv'
BY BridgeConstants
   DEF BridgeConstants, Connected, IInv, Types, GateAgrees, SnapshotCurrent, Granted, OneLink, Rested, Opened,
       server, client, reconnecting, authority, gate, Conn, None

(* The server's process is restarted: no session, nobody ready.            *)
LEMMA ServerRestartKeeps == ASSUME IInv, ServerRestart PROVE IInv'
BY BridgeConstants
   DEF BridgeConstants, ServerRestart, IInv, Types, GateAgrees, SnapshotCurrent, Granted, OneLink, Rested, Opened,
       client, reconnecting, Conn, None

(* What the client does besides connecting, and what happens to it.        *)
Aside == \/ ConnectFails \/ SendHello \/ NoticeEnd \/ HandshakeTimeout
         \/ ReconnectDelay \/ ConnectionLost \/ Retransmit
         \/ \E k \in Conn : Process(k)
         \/ \E a \in Action, n \in Agent, r \in Reports : Report(a, n, r)
         \/ \E c \in Controls : RequestClock(c)

(* The server's state does not change, links only close, and a client that *)
(* gives up its connection leaves it closed.                               *)
LEMMA AsideOnly ==
  ASSUME IInv, Aside
  PROVE  /\ UNCHANGED <<version, gate, handler, session, cgen>>
         /\ link' \in [Conn -> {"none", "up", "cut"}]
         /\ \A k \in Conn : link'[k] = "up" => link[k] = "up"
         /\ \/ UNCHANGED <<cstate, inflight>>
            \/ /\ cstate' \in ClientStates \ {"Disconnected"} /\ inflight' \in BOOLEAN
               /\ cstate' = "Reconnecting" /\ cgen # 0 => link'[cgen] # "up"
<1>1. CASE ConnectFails
  BY <1>1 DEF ConnectFails, TransportEnded, IInv, Types, server, wire, client, reconnecting,
     authority, ClientStates, HandshakeStates
<1>2. CASE SendHello
  BY <1>2 DEF SendHello, IInv, Types, server, wire, client, reconnecting,
     authority, ClientStates, HandshakeStates
<1>3. CASE NoticeEnd
  BY <1>3 DEF NoticeEnd, TransportEnded, IInv, Types, server, wire, client, reconnecting,
     authority, ClientStates, HandshakeStates
<1>4. CASE HandshakeTimeout
  BY <1>4 DEF HandshakeTimeout, TransportEnded, Lose, IInv, Types, server, wire, client, reconnecting,
     authority, ClientStates, HandshakeStates
<1>5. CASE ReconnectDelay
  BY <1>5 DEF ReconnectDelay, IInv, Types, server, wire, client, reconnecting,
     authority, ClientStates, HandshakeStates
<1>6. CASE ConnectionLost
  BY <1>6 DEF ConnectionLost, Lose, IInv, Types, server, wire, client, reconnecting,
     authority, ClientStates, HandshakeStates
<1>7. CASE Retransmit
  BY <1>7 DEF Retransmit, IInv, Types, server, wire, client, reconnecting,
     authority, ClientStates, HandshakeStates
<1>8. ASSUME NEW k \in Conn, Process(k)
      PROVE  /\ UNCHANGED <<version, gate, handler, session, cgen, link, inflight>>
             /\ cstate' = cstate \/ cstate' \in ClientStates \ {"Disconnected", "Reconnecting"}
  BY <1>8 DEF Process, Ignore, ApplyServerHello, ApplyRegistryResult, ApplyWorldSnapshot,
     ApplyStateMessage, Apply, Deliver, server, authority, ClientStates, HandshakeStates
<1>9. ASSUME NEW a, NEW n, NEW r, Report(a, n, r)
      PROVE  UNCHANGED <<version, gate, handler, session, cgen, link, cstate, inflight>>
  BY <1>9 DEF Report, server, reconnecting, authority
<1>10. ASSUME NEW c, RequestClock(c)
       PROVE  UNCHANGED <<version, gate, handler, session, cgen, link, cstate, inflight>>
  BY <1>10 DEF RequestClock, server, client, reconnecting, authority
<1> QED
  BY <1>1, <1>2, <1>3, <1>4, <1>5, <1>6, <1>7, <1>8, <1>9, <1>10 DEF Aside, IInv, Types

(* Every step is one of those above, or one of those set aside.            *)
LEMMA Cases ==
  ASSUME [Next]_vars
  PROVE  \/ Tick \/ SendNext \/ Connect \/ Connected \/ ServerRestart \/ Aside
         \/ \E k \in Conn : OpenSession(k) \/ Handle(k) \/ HandlerEnds(k)
         \/ UNCHANGED vars
BY DEF Next, Aside

(* Every step keeps the invariant.                                         *)
LEMMA Keeps == ASSUME IInv, [Next]_vars PROVE IInv'
<1>1. CASE UNCHANGED vars
  BY <1>1, AsideKeeps
     DEF vars, server, wire, client, reconnecting, authority, IInv, Types
<1>2. CASE Aside
  BY <1>2, AsideOnly, AsideKeeps
<1> QED
  BY <1>1, <1>2, Cases, TickKeeps, SendNextKeeps, ConnectKeeps, ConnectedKeeps,
     ServerRestartKeeps, OpenSessionKeeps, HandleKeeps, HandlerEndsKeeps

(* IInv holds always: what session, readiness and client's progress say    *)
(* of one another.                                                         *)
THEOREM Invariant == Spec => []IInv
<1>1. Init => IInv
  BY Initially
<1>2. IInv /\ [Next]_vars => IInv'
  BY Keeps
<1> QED
  BY <1>1, <1>2, PTL DEF Spec

-----------------------------------------------------------------------------
(* What follows.                                                           *)

(* SnapshotCurrent holds always: the version a client is about to          *)
(* acknowledge is the authority's own.                                     *)
THEOREM WorldWaits == Spec => []SnapshotCurrent
<1>1. IInv => SnapshotCurrent
  BY DEF IInv
<1> QED
  BY <1>1, Invariant, PTL

(* GateAgrees holds always: phase, ready generation and active connection  *)
(* agree for the connection that is served.                                *)
THEOREM GatesAgree == Spec => []GateAgrees
<1>1. IInv => GateAgrees
  BY DEF IInv
<1> QED
  BY <1>1, Invariant, PTL

-----------------------------------------------------------------------------
(* The bridge implements Handover.                                         *)

(* Steps that leave version, generation, readiness and sessions alone.     *)
LEMMA Stutters ==
  ASSUME UNCHANGED <<version, generation, readyGen, session>>
  PROVE  UNCHANGED H!vars
BY DEF H!vars, Offered, Ready

(* Leaving a session is the handover's Release, or changes nothing of it.  *)
LEMMA LeaveReleases ==
  ASSUME IInv, NEW c, Leave(c), UNCHANGED version
  PROVE  [H!Next]_(H!vars)
<1>1. CASE c = generation
  BY <1>1 DEF Leave, IInv, Types, Granted, Ready, Offered, H!Next, H!Release, H!vars,
              None, NoSnapshot
<1>2. CASE c # generation
  BY <1>2 DEF Leave, IInv, Types, Ready, Offered, H!vars
<1> QED
  BY <1>1, <1>2

(* A handler's step opens nothing: it offers, makes ready, releases or     *)
(* stutters.                                                               *)
LEMMA HandleRefines == ASSUME IInv, NEW k \in Conn, Handle(k) PROVE [H!Next]_(H!vars)
<1>1. CASE ReceiveRepeat(k) \/ ReceiveRefused(k) \/ ReceiveControl(k)
  BY <1>1, Stutters DEF ReceiveRepeat, ReceiveRefused, ReceiveControl, authority, gate
<1>2. CASE ReceiveHello(k)
  <2>1. k = generation /\ session[k].phase = "AWAITING_CLIENT_HELLO"
    BY <1>2, Dispatched DEF ReceiveHello, Expected
  <2>2. ~Ready /\ ~Ready'
    BY <1>2, <2>1 DEF ReceiveHello, Ready, IInv, Granted, gate
  <2> QED
    BY <1>2, <2>1, <2>2 DEF ReceiveHello, Offered, H!vars, gate, authority, IInv, Types
<1>3. CASE ReceiveRegistry(k)
  <2>1. k = generation /\ session[k].phase = "AWAITING_ASSET_REGISTRY"
    BY <1>3, Dispatched DEF ReceiveRegistry, Expected
  <2>2. ~Ready /\ ~Ready' /\ k # None
    BY <1>3, <2>1 DEF ReceiveRegistry, Ready, IInv, Granted, gate, Conn, None
  <2>3. \/ session' = [session EXCEPT ![k] = [phase |-> "AWAITING_CLIENT_READY",
                                            snapshot |-> version]]
        \/ UNCHANGED session
    BY <1>3 DEF ReceiveRegistry
  <2>4. UNCHANGED <<version, generation, readyGen>>
    BY <1>3 DEF ReceiveRegistry, authority, gate
  <2>5. CASE UNCHANGED session
    BY <2>4, <2>5, Stutters
  <2>6. CASE session' = [session EXCEPT ![k] = [phase |-> "AWAITING_CLIENT_READY",
                                                snapshot |-> version]]
    <3>1. Offered = NoSnapshot /\ Offered' = version
      BY <2>1, <2>2, <2>4, <2>6 DEF Offered, IInv, Types
    <3> QED
      BY <2>1, <2>2, <2>4, <3>1 DEF H!Next, H!Offer, None, NoSnapshot
  <2> QED
    BY <2>3, <2>5, <2>6
<1>4. CASE ReceiveReady(k)
  <2>1. k = generation /\ session[k].phase = "AWAITING_CLIENT_READY"
    BY <1>4, Dispatched DEF ReceiveReady, Expected
  <2>2. ~Ready /\ Ready' /\ k # None /\ generation' = k
    BY <1>4, <2>1 DEF ReceiveReady, Ready, IInv, Granted, Conn, None
  <2>3. Offered = version /\ Offered' = NoSnapshot
    BY <2>1, <2>2 DEF Offered, IInv, SnapshotCurrent
  <2> QED
    BY <1>4, <2>1, <2>2, <2>3 DEF ReceiveReady, authority, H!Next, H!Grant, NoSnapshot
<1>5. CASE ReceiveMovement(k)
  <2>1. PICK type \in Movements : Receive(k, type)
    BY <1>5 DEF ReceiveMovement
  <2>2. k = generation /\ session[k].phase = "READY" /\ handler[k] = "serving"
    BY <2>1, Dispatched DEF Expected, Movements
  <2>3. Ready /\ k # None
    BY <2>2 DEF IInv, GateAgrees, Ready, Conn, None
  <2>4. version' = version \/ version' = version + 1
    BY <1>5 DEF ReceiveMovement, authority
  <2>5. UNCHANGED <<generation, readyGen, session>>
    BY <1>5 DEF ReceiveMovement, gate
  <2>6. Ready' /\ Offered = NoSnapshot /\ Offered' = NoSnapshot
    BY <2>3, <2>5 DEF Ready, Offered
  <2> QED
    BY <2>2, <2>3, <2>4, <2>5, <2>6, Stutters DEF H!Next, H!Write, None
<1> QED
  BY <1>1, <1>2, <1>3, <1>4, <1>5 DEF Handle

(* Opening a session is the handover's Open.                               *)
LEMMA OpenSessionRefines ==
  ASSUME IInv, NEW k \in Conn, OpenSession(k) PROVE [H!Next]_(H!vars)
<1>1. generation' > generation
  BY BridgeConstants
     DEF BridgeConstants, OpenSession, IInv, Types, OneLink, Opened, Conn, None
<1>2. ~Ready' /\ Offered' = NoSnapshot
  BY DEF OpenSession, Ready, Offered, IInv, Types
<1> QED
  BY <1>1, <1>2 DEF OpenSession, authority, H!Next, H!Open, None, NoSnapshot

(* A tick of the clock is a write on behalf of the ready connection, or    *)
(* nothing.                                                                *)
LEMMA TickRefines == ASSUME IInv, Tick PROVE [H!Next]_(H!vars)
<1>1. Ready /\ version' = version + 1 /\ UNCHANGED <<generation, readyGen>>
  BY DEF Tick, gate
<1>2. Ready' /\ Offered = NoSnapshot /\ Offered' = NoSnapshot /\ generation # None
  BY <1>1 DEF Ready, Offered
<1> QED
  BY <1>1, <1>2 DEF H!Next, H!Write, None

(* Every step of the bridge is a step of the handover, or stutters.        *)
LEMMA StepRefines == ASSUME IInv, [Next]_vars PROVE [H!Next]_(H!vars)
<1>1. CASE Connect \/ Connected \/ UNCHANGED vars
  BY <1>1, Stutters
     DEF Connect, Connected, vars, server, authority, gate
<1>2. CASE Aside
  BY <1>2, AsideOnly, Stutters DEF gate
<1>3. CASE SendNext
  <2>1. CASE UNCHANGED <<gate, handler, session>>
    BY <1>3, <2>1, Stutters DEF SendNext, authority, gate
  <2>2. CASE Leave(Head(sendq).conn)
    BY <1>3, <2>2, LeaveReleases DEF SendNext, authority
  <2> QED
    BY <1>3, <2>1, <2>2 DEF SendNext
<1>4. ASSUME NEW k \in Conn, HandlerEnds(k) PROVE [H!Next]_(H!vars)
  BY <1>4, LeaveReleases DEF HandlerEnds, authority
<1>5. CASE ServerRestart
  BY <1>5 DEF ServerRestart, Ready, Offered, H!Next, H!Restart, None, NoSnapshot
<1> QED
  BY <1>1, <1>2, <1>3, <1>4, <1>5, Cases, TickRefines, OpenSessionRefines, HandleRefines

(* HandsOver: the world is written on behalf of the latest connection only, *)
(* and given to it only after it has seen exactly this world.               *)
THEOREM ImplementsHandover == Spec => HandsOver
<1>1. Init => H!Init
  BY DEF Init, H!Init, Ready, Offered, None, NoSnapshot
<1>2. IInv /\ [Next]_vars => [H!Next]_(H!vars)
  BY StepRefines
<1> QED
  BY <1>1, <1>2, Invariant, PTL DEF Spec, HandsOver, H!Spec

-----------------------------------------------------------------------------
(***************************************************************************)
(* What is under way between the server and the client of Bridge, for      *)
(* every set of agents, actions and requests, any number of connections    *)
(* and any faults: the types of every queue (TypeOK), that the client is   *)
(* told of the authority's versions in their order (InOrder), that no      *)
(* message counts twice (AppliedOnce) and that no trip the authority waits *)
(* for is unknown to a ready client (NobodyForgotten).                     *)
(*                                                                         *)
(* InOrder is not inductive.  OInv adds where a new message may come from: *)
(* the authority is ahead of all it has told its newest connection         *)
(* (NotAhead), a connection not yet accepted has been told nothing         *)
(* (Fresh), and what the client shows lies between what it demands of a    *)
(* snapshot and what it will still be sent (Shown, Floored).               *)
(*                                                                         *)
(* NobodyForgotten speaks of a connection with nothing under way.  KInv    *)
(* says of every moment what makes that so: a participant still expected   *)
(* walks, is named by a message under way, or has a report under way       *)
(* (Remembered); and since a snapshot replaces all that walk, a trip it    *)
(* does not name is announced behind it (ToldAfter).                       *)
(***************************************************************************)

(* What a message carries depends on its type alone.                       *)
LEMMA Messages ==
  /\ [type |-> "repeat"] \in ServerMessage
  /\ \A v \in Nat : /\ Clock(v) \in ServerMessage
                    /\ [type |-> "server_hello", ver |-> v] \in ServerMessage
  /\ \A v \in Nat, x \in BOOLEAN :
       [type |-> "asset_registry_result", ver |-> v, accepted |-> x] \in ServerMessage
  /\ version \in Nat => /\ Snapshot \in ServerMessage
                        /\ \A a \in Action : \A t \in {"agent_state_delta", "action_started",
                                                 "action_ended"} : About(t, a) \in ServerMessage
  /\ \A m \in ServerMessage :
       /\ Versioned(m) => m.ver \in Nat
       /\ m.type = "world_snapshot" => m.traveling \subseteq Action
       /\ m.type \in {"agent_state_delta", "action_started", "action_ended"}
            => m.action \in Action
BY DEF ServerMessage, Clock, Snapshot, About, Versioned

(* What the client sends is typed, and saying it again changes no type.    *)
LEMMA Reported ==
  /\ \A v \in Nat, t \in {"client_hello", "asset_registry", "client_ready"} :
       Outbound(t, v) \in ClientMessage
  /\ \A v \in Nat, t \in Movements, a \in Action, n \in Agent :
       [type |-> t, ver |-> v, again |-> FALSE, action |-> a, agent |-> n] \in ClientMessage
  /\ \A v \in Nat, c \in Requests :
       [type |-> c.type, ver |-> v, again |-> FALSE, value |-> c.value] \in ClientMessage
  /\ \A m \in ClientMessage :
       /\ [m EXCEPT !.again = TRUE] \in ClientMessage
       /\ m.again \in BOOLEAN
       /\ m.type \in Movements => m.action \in Action /\ m.agent \in Agent
       /\ m.type \in {"pause_request", "set_time_scale_request"} => m.value \in {0, 1}
<1>1. /\ \A v \in Nat, t \in {"client_hello", "asset_registry", "client_ready"} :
           Outbound(t, v) \in ClientMessage
      /\ \A v \in Nat, t \in Movements, a \in Action, n \in Agent :
           [type |-> t, ver |-> v, again |-> FALSE, action |-> a, agent |-> n] \in ClientMessage
      /\ \A v \in Nat, c \in Requests :
           [type |-> c.type, ver |-> v, again |-> FALSE, value |-> c.value] \in ClientMessage
  BY DEF ClientMessage, Outbound, Requests
<1>2. ASSUME NEW m \in ClientMessage
      PROVE  /\ [m EXCEPT !.again = TRUE] \in ClientMessage
             /\ m.again \in BOOLEAN
             /\ m.type \in Movements => m.action \in Action /\ m.agent \in Agent
             /\ m.type \in {"pause_request", "set_time_scale_request"} => m.value \in {0, 1}
  BY DEF ClientMessage, Movements
<1> QED
  BY <1>1, <1>2

(* No batch is empty, so that its next message is there to send.           *)
Filled == \A b \in DOMAIN sendq : sendq[b].msgs # << >>

Batches == [conn : Conn, from : {"handler", "clock"}, msgs : Seq(ServerMessage)]

(* A batch is queued whole.                                                *)
LEMMA QueuedBatch ==
  ASSUME TypeOK, Filled, NEW k \in Conn, NEW from \in {"handler", "clock"},
         NEW msgs \in Seq(ServerMessage), Enqueue(k, from, msgs)
  PROVE  /\ sendq' \in Seq(Batches) /\ Filled'
         /\ k # generation \/ msgs = << >> => sendq' = sendq
         /\ k = generation /\ msgs # << >>
              => sendq' = Append(sendq, [conn |-> k, from |-> from, msgs |-> msgs])
<1>1. sendq \in Seq(Batches)
  BY DEF TypeOK, Batches
<1>2. [conn |-> k, from |-> from, msgs |-> msgs] \in Batches
  BY DEF Batches
<1>3. CASE k = generation /\ msgs # << >>
  <2>1. sendq' = Append(sendq, [conn |-> k, from |-> from, msgs |-> msgs])
    BY <1>3 DEF Enqueue
  <2>2. sendq' \in Seq(Batches) /\ Len(sendq') = Len(sendq) + 1
    BY <1>1, <1>2, <2>1
  <2>3. \A b \in 1 .. Len(sendq) + 1 : sendq'[b].msgs # << >>
    BY <1>1, <1>3, <2>1 DEF Filled
  <2> QED
    BY <1>3, <2>1, <2>2, <2>3 DEF Filled
<1>4. CASE ~(k = generation /\ msgs # << >>)
  BY <1>1, <1>4 DEF Enqueue, Filled
<1> QED
  BY <1>3, <1>4

(* The lock holder's next message leaves its batch.                        *)
LEMMA SentOn ==
  ASSUME TypeOK, Filled, SendNext
  PROVE  /\ sendq' \in Seq(Batches) /\ Filled'
         /\ down' \in [Conn -> Seq(ServerMessage)]
<1>0. sendq \in Seq(Batches) /\ sendq # << >>
  BY DEF TypeOK, Batches, SendNext
<1>1. /\ sendq \in Seq(Batches) /\ sendq # << >>
      /\ sendq[1] \in Batches /\ Head(sendq) = sendq[1] /\ sendq[1].msgs # << >>
  BY <1>0 DEF Filled
<1>2. Tail(sendq) \in Seq(Batches) /\ \A b \in DOMAIN Tail(sendq) : Tail(sendq)[b].msgs # << >>
  BY <1>1 DEF Filled
<1>3. /\ sendq[1].msgs \in Seq(ServerMessage)
      /\ Head(sendq[1].msgs) \in ServerMessage
      /\ Tail(sendq[1].msgs) \in Seq(ServerMessage)
  BY <1>1 DEF Batches
<1>4. CASE link[sendq[1].conn] = "up"
  <2>1. down' = [down EXCEPT ![sendq[1].conn] = Append(@, Head(sendq[1].msgs))]
    BY <1>1, <1>4 DEF SendNext
  <2>2. down' \in [Conn -> Seq(ServerMessage)]
    BY <1>1, <1>3, <2>1 DEF TypeOK, Batches
  <2>3. CASE Len(sendq[1].msgs) = 1
    BY <1>1, <1>2, <1>4, <2>2, <2>3 DEF SendNext, Filled
  <2>4. CASE Len(sendq[1].msgs) # 1
    <3>1. sendq' = [sendq EXCEPT ![1].msgs = Tail(@)]
      BY <1>1, <1>4, <2>4 DEF SendNext
    <3>2. Tail(sendq[1].msgs) # << >>
      <4>1. Len(sendq[1].msgs) \in Nat /\ Len(sendq[1].msgs) # 0
        BY <1>1, <1>3
      <4>2. Len(Tail(sendq[1].msgs)) = Len(sendq[1].msgs) - 1
        BY <1>1, <1>3
      <4>3. Len(Tail(sendq[1].msgs)) # 0
        BY <2>4, <4>1, <4>2
      <4>4. Len(<< >>) = 0
        OBVIOUS
      <4> QED
        BY <4>3, <4>4
    <3>3. [sendq[1] EXCEPT !.msgs = Tail(@)] \in Batches
      BY <1>1, <1>3 DEF Batches
    <3>4. sendq' \in Seq(Batches)
      BY <1>1, <3>1, <3>3
    <3>5. \A b \in DOMAIN sendq : sendq'[b].msgs # << >>
      BY <1>1, <3>1, <3>2 DEF Filled, Batches
    <3> QED
      BY <1>1, <2>2, <3>1, <3>4, <3>5 DEF Filled
  <2> QED
    BY <2>3, <2>4
<1>5. CASE link[sendq[1].conn] # "up"
  BY <1>1, <1>2, <1>5 DEF SendNext, TypeOK, Filled
<1> QED
  BY <1>4, <1>5

(* What the client sends joins the wire of its own connection.             *)
LEMMA SentUp ==
  ASSUME TypeOK, NEW m \in ClientMessage, Send(m)
  PROVE  up' \in [Conn -> Seq(ClientMessage)]
<1>1. up \in [Conn -> Seq(ClientMessage)]
  BY DEF TypeOK
<1>2. CASE cgen \in Conn
  <2>1. Append(up[cgen], m) \in Seq(ClientMessage)
    BY <1>1, <1>2
  <2> QED
    BY <1>1, <1>2, <2>1 DEF Send
<1>3. CASE cgen \notin Conn
  BY <1>1, <1>3 DEF Send
<1> QED
  BY <1>2, <1>3

(* A message on a typed wire is of its type, and the wire stays typed      *)
(* without it.                                                             *)
LEMMA TakenOff ==
  ASSUME NEW S, NEW s \in Seq(S), s # << >>
  PROVE  /\ Head(s) \in S /\ Tail(s) \in Seq(S)
         /\ Head(s) = s[1] /\ Len(s) \in Nat \ {0} /\ 1 \in DOMAIN s
         /\ Len(Tail(s)) = Len(s) - 1
         /\ \A i \in DOMAIN Tail(s) : Tail(s)[i] = s[i + 1] /\ i + 1 \in DOMAIN s
         /\ Tail(s) # s
<1>1. /\ Head(s) \in S /\ Tail(s) \in Seq(S)
      /\ Head(s) = s[1] /\ Len(s) \in Nat \ {0} /\ 1 \in DOMAIN s
      /\ Len(Tail(s)) = Len(s) - 1
      /\ \A i \in DOMAIN Tail(s) : Tail(s)[i] = s[i + 1] /\ i + 1 \in DOMAIN s
  OBVIOUS
<1>2. Len(Tail(s)) # Len(s)
  <2>1. \A n \in Nat : n - 1 # n
    OBVIOUS
  <2> QED
    BY <1>1, <2>1, Zenon
<1> QED
  BY <1>1, <1>2

Typed == TypeOK /\ Filled

(* A server and a client that have not yet met are typed.                  *)
LEMMA InitiallyTyped == Init => Typed
<1> SUFFICES ASSUME Init PROVE Typed
  OBVIOUS
<1>1. /\ trip \in [Action -> [phase : {"NONE", "TRAVELING", "PERFORMING", "ENDED"},
                          arrived : SUBSET Agent]]
      /\ clock \in [paused : BOOLEAN, scale : {0, 1}]
  BY DEF Init, NoTrip
<1>2. /\ sendq \in Seq([conn : Conn, from : {"handler", "clock"}, msgs : Seq(ServerMessage)])
      /\ up \in [Conn -> Seq(ClientMessage)] /\ down \in [Conn -> Seq(ServerMessage)]
      /\ Filled
  BY DEF Init, Filled
<1>3. /\ applied \in Nat \cup {-1} /\ floor \in Nat \cup {-1}
      /\ walking \subseteq Action \X Agent /\ due \in BOOLEAN
      /\ faults \in [cuts : Nat, failures : Nat, restarts : Nat, repeats : Nat]
  BY DEF Init
<1>4. Types
  BY Initially DEF IInv
<1>5. TypeOK
  BY <1>1, <1>2, <1>3, <1>4 DEF TypeOK, Types
<1> QED
  BY <1>2, <1>5 DEF Typed

(* What happens to one action is typed.                                    *)
LEMMA Trips ==
  ASSUME TypeOK, NEW a \in Action
  PROVE  /\ Party[a] \subseteq Agent
         /\ \A S \in SUBSET Party[a] :
              Begun(a, S) \in [phase : {"NONE", "TRAVELING", "PERFORMING", "ENDED"},
                               arrived : SUBSET Agent]
         /\ {Performed(a), Ended(a), NoTrip} \subseteq
              [phase : {"NONE", "TRAVELING", "PERFORMING", "ENDED"}, arrived : SUBSET Agent]
BY BridgeConstants DEF BridgeConstants, Begun, Performed, Ended, NoTrip

(* A minute of the authority keeps the types; what it tells is queued for  *)
(* the ready connection, if there is one.                                  *)
LEMMA TickTyped == ASSUME Typed, Tick PROVE Typed'
<1>1. /\ version' = version + 1 /\ version \in Nat /\ active \in Conn
      /\ UNCHANGED <<clock, gate, handler, session, wire, client, faults>>
  BY DEF Typed, TypeOK, Tick
<1>2. /\ Clock(version + 1) \in ServerMessage
      /\ \A a \in Action : \A t \in {"action_started", "action_ended"} :
           About(t, a) \in ServerMessage
  <2>1. version + 1 \in Nat
    BY <1>1
  <2>2. Clock(version + 1) \in ServerMessage
    BY <2>1, Messages
  <2> QED
    BY <1>1, <2>2, Messages
<1>3. ASSUME NEW a \in Action, NEW after, NEW t \in {"action_started", "action_ended"},
             after \in [phase : {"NONE", "TRAVELING", "PERFORMING", "ENDED"},
                        arrived : SUBSET Agent],
             Change(a, after, t)
      PROVE  /\ trip' \in [Action -> [phase : {"NONE", "TRAVELING", "PERFORMING", "ENDED"},
                                      arrived : SUBSET Agent]]
             /\ sendq' \in Seq(Batches) /\ Filled'
  <2>1. <<Clock(version + 1), About(t, a)>> \in Seq(ServerMessage)
    BY <1>2
  <2>2. sendq' \in Seq(Batches) /\ Filled'
    BY <1>1, <1>3, <2>1, QueuedBatch DEF Change, Typed
  <2> QED
    BY <1>3, <2>2 DEF Change, Typed, TypeOK
<1>4. /\ trip' \in [Action -> [phase : {"NONE", "TRAVELING", "PERFORMING", "ENDED"},
                               arrived : SUBSET Agent]]
      /\ sendq' \in Seq(Batches) /\ Filled'
  <2>1. CASE \E a \in Action : \E here \in (SUBSET Party[a]) \ {Party[a]} :
               Change(a, Begun(a, here), "action_started")
    BY <2>1, <1>3, Trips DEF Typed
  <2>2. CASE \E a \in Action : \/ Change(a, Performed(a), "action_started")
                               \/ Change(a, Ended(a), "action_ended")
    BY <2>2, <1>3, Trips DEF Typed
  <2>3. CASE Enqueue(active, "clock", <<Clock(version + 1)>>) /\ UNCHANGED trip
    <3>1. <<Clock(version + 1)>> \in Seq(ServerMessage)
      BY <1>2
    <3> QED
      BY <1>1, <2>3, <3>1, QueuedBatch DEF Typed, TypeOK
  <2> QED
    BY <2>1, <2>2, <2>3 DEF Tick, Minute
<1> QED
  BY <1>1, <1>4 DEF Typed, TypeOK, Batches, gate, wire, client, reconnecting

Faults == [cuts : Nat, failures : Nat, restarts : Nat, repeats : Nat]

(* What TypeOK adds to Types.                                              *)
Carried ==
  /\ trip \in [Action -> [phase : {"NONE", "TRAVELING", "PERFORMING", "ENDED"},
                          arrived : SUBSET Agent]]
  /\ clock \in [paused : BOOLEAN, scale : {0, 1}]
  /\ sendq \in Seq(Batches) /\ Filled
  /\ up \in [Conn -> Seq(ClientMessage)]
  /\ down \in [Conn -> Seq(ServerMessage)]
  /\ applied \in Nat \cup {-1} /\ floor \in Nat \cup {-1} /\ due \in BOOLEAN
  /\ walking \subseteq Action \X Agent
  /\ faults \in Faults

(* The types BridgeProofs knows, and those of what is under way.           *)
LEMMA Split == Typed <=> Types /\ Carried
BY DEF Faults, Typed, TypeOK, Types, Carried, Batches

(* A minute, in the parts the other steps are shown in.                    *)
LEMMA TickCarried == ASSUME Typed, Tick PROVE Carried'
BY TickTyped DEF Faults, Typed, TypeOK, Carried, Batches

(* A fault is counted.                                                     *)
LEMMA Counting ==
  ASSUME NEW f \in Faults
  PROVE  /\ [f EXCEPT !.cuts = @ + 1] \in Faults
         /\ [f EXCEPT !.failures = @ + 1] \in Faults
         /\ [f EXCEPT !.restarts = @ + 1] \in Faults
         /\ [f EXCEPT !.repeats = @ + 1] \in Faults
<1>1. f.cuts + 1 \in Nat /\ f.failures + 1 \in Nat /\ f.restarts + 1 \in Nat /\ f.repeats + 1 \in Nat
  BY DEF Faults
<1> QED
  BY <1>1 DEF Faults

(* The server takes up and gives up connections; the client's timers.      *)
LEMMA GatesCarried ==
  ASSUME Typed,
         \/ \E k \in Conn : OpenSession(k) \/ HandlerEnds(k)
         \/ Connect \/ Connected \/ ReconnectDelay \/ NoticeEnd \/ ConnectFails
  PROVE  Carried'
<1>1. Carried
  BY Split
<1>2. UNCHANGED <<trip, clock, sendq, up, down, applied, walking>>
  BY DEF OpenSession, HandlerEnds, Connect, Connected, ReconnectDelay, NoticeEnd, ConnectFails,
         server, authority, wire, client, reconnecting
<1>3. floor' \in Nat \cup {-1} /\ due' \in BOOLEAN
  BY <1>1 DEF Carried, OpenSession, HandlerEnds, Connect, Connected, ReconnectDelay, NoticeEnd,
         ConnectFails, TransportEnded, server, wire, client, reconnecting
<1>4. faults' \in Faults
  BY <1>1, Counting DEF Carried, OpenSession, HandlerEnds, Connect, Connected, ReconnectDelay, NoticeEnd, ConnectFails
<1>5. Filled'
  BY <1>1, <1>2 DEF Carried, Filled
<1> QED
  BY <1>1, <1>2, <1>3, <1>4, <1>5 DEF Carried

(* The lock holder's next message keeps the types.                         *)
LEMMA SendNextCarried == ASSUME Typed, SendNext PROVE Carried'
<1>1. Carried
  BY Split
<1>2. sendq' \in Seq(Batches) /\ Filled' /\ down' \in [Conn -> Seq(ServerMessage)]
  BY SentOn DEF Typed
<1>3. UNCHANGED <<trip, clock, up, applied, walking, floor, due, faults>>
  BY DEF SendNext, authority, client, reconnecting
<1> QED
  BY <1>1, <1>2, <1>3 DEF Carried

(* What a cut connection loses is the end of what was under way.           *)
LEMMA Prefix ==
  ASSUME NEW S, NEW s \in Seq(S), NEW p \in Prefixes(s)
  PROVE  /\ p \in Seq(S) /\ \A i \in DOMAIN p : i \in DOMAIN s /\ p[i] = s[i]
<1>1. PICK n \in 0 .. Len(s) : p = SubSeq(s, 1, n)
  BY DEF Prefixes
<1> QED
  BY <1>1

(* A cut keeps the types.                                                  *)
LEMMA CutCarried ==
  ASSUME Typed, ConnectionLost \/ HandshakeTimeout
  PROVE  Carried'
<1>1. Carried
  BY Split
<1>2. UNCHANGED <<trip, clock, sendq, applied, walking>>
  BY DEF ConnectionLost, HandshakeTimeout, server, authority, client, reconnecting
<1>3. PICK u \in Prefixes(up[cgen]), d \in Prefixes(down[cgen]) :
        up' = [up EXCEPT ![cgen] = u] /\ down' = [down EXCEPT ![cgen] = d]
  BY DEF ConnectionLost, HandshakeTimeout, Lose
<1>4. up' \in [Conn -> Seq(ClientMessage)] /\ down' \in [Conn -> Seq(ServerMessage)]
  <2>1. CASE cgen \in Conn
    <3>1. u \in Seq(ClientMessage) /\ d \in Seq(ServerMessage)
      BY <1>1, <1>3, <2>1, Prefix DEF Carried
    <3> QED
      BY <1>1, <1>3, <3>1 DEF Carried
  <2>2. CASE cgen \notin Conn
    BY <1>1, <1>3, <2>2 DEF Carried
  <2> QED
    BY <2>1, <2>2
<1>5. floor' \in Nat \cup {-1} /\ due' \in BOOLEAN
  BY <1>1 DEF Carried, ConnectionLost, HandshakeTimeout, TransportEnded, client, reconnecting
<1>6. faults' \in Faults
  BY <1>1, Counting DEF Carried, ConnectionLost, HandshakeTimeout
<1>7. Filled'
  BY <1>1, <1>2 DEF Carried, Filled
<1> QED
  BY <1>1, <1>2, <1>4, <1>5, <1>6, <1>7 DEF Carried

(* So does a restart of the server.                                        *)
LEMMA RestartCarried == ASSUME Typed, ServerRestart PROVE Carried'
<1>1. Carried
  BY Split
<1>2. /\ trip' \in [Action -> [phase : {"NONE", "TRAVELING", "PERFORMING", "ENDED"},
                               arrived : SUBSET Agent]]
      /\ clock' \in [paused : BOOLEAN, scale : {0, 1}]
  BY DEF ServerRestart, NoTrip
<1>3. sendq' \in Seq(Batches) /\ Filled' /\ up' \in [Conn -> Seq(ClientMessage)]
  BY DEF ServerRestart, Filled
<1>4. UNCHANGED <<down, applied, walking, floor, due>>
  BY DEF ServerRestart, client, reconnecting
<1>5. faults' \in Faults
  BY <1>1, Counting DEF Carried, ServerRestart
<1> QED
  BY <1>1, <1>2, <1>3, <1>4, <1>5 DEF Carried

(* What the client sends on its own account.                               *)
LEMMA SentCarried ==
  ASSUME Typed, 
         \/ SendHello \/ Retransmit
         \/ \E a \in Action, n \in Agent, r \in Reports : Report(a, n, r)
         \/ \E c \in Controls : RequestClock(c)
  PROVE  Carried'
<1>1. Carried
  BY Split
<1>2. Last \in Nat
  BY <1>1 DEF Carried, Last
<1>3. UNCHANGED <<trip, clock, sendq, down, applied, floor, due>>
  BY DEF SendHello, Retransmit, Report, RequestClock, server, authority, client, reconnecting
<1>4. walking' \subseteq Action \X Agent /\ faults' \in Faults
  BY <1>1, Counting
     DEF Carried, SendHello, Retransmit, Report, RequestClock, client
<1>5. up' \in [Conn -> Seq(ClientMessage)]
  <2>1. CASE SendHello
    <3>1. Outbound("client_hello", Last) \in ClientMessage
      BY <1>2, Reported
    <3> QED
      BY <2>1, <3>1, SentUp DEF SendHello, Typed
  <2>2. CASE Retransmit
    <3>1. CASE cgen \in Conn
      <4>1. up[cgen] \in Seq(ClientMessage) /\ up[cgen] # << >>
        BY <1>1, <2>2, <3>1 DEF Carried, Retransmit
      <4>2. up[cgen][Len(up[cgen])] \in ClientMessage
        BY <4>1
      <4>3. [up[cgen][Len(up[cgen])] EXCEPT !.again = TRUE] \in ClientMessage
        BY <4>2, Reported
      <4> QED
        BY <2>2, <4>3, SentUp DEF Retransmit, Typed
    <3>2. CASE cgen \notin Conn
      BY <1>1, <2>2, <3>2 DEF Carried, Retransmit, Send
    <3> QED
      BY <3>1, <3>2
  <2>3. ASSUME NEW a \in Action, NEW n \in Agent, NEW r \in Reports, Report(a, n, r)
        PROVE  up' \in [Conn -> Seq(ClientMessage)]
    <3>1. r \in Movements
      BY BridgeConstants DEF BridgeConstants
    <3>2. [type |-> r, ver |-> Last, again |-> FALSE, action |-> a, agent |-> n] \in ClientMessage
      BY <1>2, <3>1, Reported
    <3> QED
      BY <2>3, <3>2, SentUp DEF Report, Typed
  <2>4. ASSUME NEW c \in Controls, RequestClock(c)
        PROVE  up' \in [Conn -> Seq(ClientMessage)]
    <3>1. c \in Requests
      BY BridgeConstants DEF BridgeConstants
    <3>2. [type |-> c.type, ver |-> Last, again |-> FALSE, value |-> c.value] \in ClientMessage
      BY <1>2, <3>1, Reported
    <3> QED
      BY <2>4, <3>2, SentUp DEF RequestClock, Typed
  <2> QED
    BY <2>1, <2>2, <2>3, <2>4
<1>6. Filled'
  BY <1>1, <1>3 DEF Carried, Filled
<1> QED
  BY <1>1, <1>3, <1>4, <1>5, <1>6 DEF Carried

(* What the client does with what it is sent.                              *)
LEMMA ProcessCarried ==
  ASSUME Typed, NEW k \in Conn, Process(k)
  PROVE  Carried'
<1>1. Carried
  BY Split
<1>2. Deliver(k)
  BY DEF Process, Ignore, Apply, ApplyServerHello, ApplyRegistryResult, ApplyWorldSnapshot,
         ApplyStateMessage
<1>3. UNCHANGED <<trip, clock, sendq, floor, due, faults>>
  BY <1>2 DEF Deliver, server, authority
<1>4. /\ down[k] \in Seq(ServerMessage) /\ down[k] # << >>
      /\ Head(down[k]) \in ServerMessage /\ Tail(down[k]) \in Seq(ServerMessage)
  <2>1. down[k] \in Seq(ServerMessage) /\ down[k] # << >>
    BY <1>1, <1>2 DEF Carried, Deliver
  <2> QED
    BY <2>1, TakenOff
<1>5. down' \in [Conn -> Seq(ServerMessage)]
  BY <1>1, <1>2, <1>4 DEF Carried, Deliver
<1>6. Versioned(Head(down[k])) => Head(down[k]).ver \in Nat
  BY <1>4, Messages
<1>7. /\ applied' \in Nat \cup {-1} /\ walking' \subseteq Action \X Agent
      /\ up' \in [Conn -> Seq(ClientMessage)]
  <2>1. CASE Ignore(k)
    BY <1>1, <2>1 DEF Ignore, Carried
  <2>2. CASE ApplyServerHello(k)
    <3>1. Outbound("asset_registry", Head(down[k]).ver) \in ClientMessage
      BY <1>6, <2>2, Reported DEF ApplyServerHello, Apply, Versioned
    <3> QED
      BY <1>1, <2>2, <3>1, SentUp DEF ApplyServerHello, Carried, Typed
  <2>3. CASE ApplyRegistryResult(k)
    BY <1>1, <2>3 DEF ApplyRegistryResult, Carried
  <2>4. CASE ApplyWorldSnapshot(k)
    <3>1. Head(down[k]).type = "world_snapshot"
      BY <2>4 DEF ApplyWorldSnapshot, Apply
    <3>2. Head(down[k]).ver \in Nat /\ Head(down[k]).traveling \subseteq Action
      BY <1>4, <3>1, Messages DEF Versioned
    <3>3. Outbound("client_ready", Head(down[k]).ver) \in ClientMessage
      BY <3>2, Reported
    <3>4. up' \in [Conn -> Seq(ClientMessage)]
      BY <1>1, <2>4, <3>3, SentUp DEF ApplyWorldSnapshot, Carried, Typed
    <3> QED
      BY <2>4, <3>2, <3>4 DEF ApplyWorldSnapshot, Walkers
  <2>5. CASE ApplyStateMessage(k)
    <3>1. Head(down[k]).type \in {"clock", "agent_state_delta", "action_started", "action_ended"}
      BY <2>5 DEF ApplyStateMessage, Apply
    <3>2. Head(down[k]).ver \in Nat
      BY <1>6, <3>1 DEF Versioned
    <3>3. Head(down[k]).type \in {"action_started", "action_ended"}
            => Walkers({Head(down[k]).action}) \subseteq Action \X Agent
      BY <1>4, Messages DEF Walkers
    <3> QED
      BY <1>1, <2>5, <3>2, <3>3 DEF ApplyStateMessage, Carried
  <2> QED
    BY <2>1, <2>2, <2>3, <2>4, <2>5 DEF Process
<1>8. Filled'
  BY <1>1, <1>3 DEF Carried, Filled
<1> QED
  BY <1>1, <1>3, <1>5, <1>7, <1>8 DEF Carried

(* What the handler does with what it receives.                            *)
LEMMA HandleCarried ==
  ASSUME IInv, Typed, NEW k \in Conn, Handle(k)
  PROVE  Carried'
<1>1. Carried /\ version \in Nat
  BY Split DEF Types
<1>2. UNCHANGED <<down, applied, walking, floor, due, faults>>
  BY DEF Handle, ReceiveRepeat, ReceiveRefused, ReceiveHello, ReceiveRegistry, ReceiveReady,
         ReceiveMovement, ReceiveControl, Receive, client, reconnecting
<1>3. /\ Take(k)
      /\ Head(up[k]) \in ClientMessage /\ up' \in [Conn -> Seq(ClientMessage)]
  <2>1. Take(k)
    BY DEF Handle, ReceiveRepeat, ReceiveRefused, ReceiveHello, ReceiveRegistry, ReceiveReady,
           ReceiveMovement, ReceiveControl, Receive
  <2>2. up[k] \in Seq(ClientMessage) /\ up[k] # << >>
    BY <1>1, <2>1 DEF Carried, Take
  <2>3. Head(up[k]) \in ClientMessage /\ Tail(up[k]) \in Seq(ClientMessage)
    BY <2>2, TakenOff
  <2> QED
    BY <1>1, <2>1, <2>3 DEF Carried, Take
<1> DEFINE m == Head(up[k])
<1>4. m \in ClientMessage
  BY <1>3
<1> HIDE DEF m
<1>5. /\ trip' \in [Action -> [phase : {"NONE", "TRAVELING", "PERFORMING", "ENDED"},
                               arrived : SUBSET Agent]]
      /\ clock' \in [paused : BOOLEAN, scale : {0, 1}]
  <2>1. CASE ReceiveMovement(k)
    <3>1. m.type \in Movements
      BY <2>1 DEF ReceiveMovement, Receive, m
    <3>2. m.action \in Action /\ m.agent \in Agent
      BY <1>4, <3>1, Reported
    <3>3. AfterReport(m) \in [phase : {"NONE", "TRAVELING", "PERFORMING", "ENDED"},
                              arrived : SUBSET Agent]
      <4>1. trip[m.action].arrived \cup {m.agent} \subseteq Agent
        BY <1>1, <3>2 DEF Carried
      <4> QED
        BY <3>2, <4>1, Trips DEF AfterReport, Typed
    <3>4. \/ trip' = [trip EXCEPT ![m.action] = AfterReport(m)]
          \/ UNCHANGED trip
      BY <2>1 DEF ReceiveMovement, authority, m
    <3>5. UNCHANGED clock
      BY <2>1 DEF ReceiveMovement
    <3>6. trip \in [Action -> [phase : {"NONE", "TRAVELING", "PERFORMING", "ENDED"},
                              arrived : SUBSET Agent]]
          /\ clock \in [paused : BOOLEAN, scale : {0, 1}]
      BY <1>1 DEF Carried
    <3>7. PICK r : r = AfterReport(m)
      OBVIOUS
    <3>8. trip' \in [Action -> [phase : {"NONE", "TRAVELING", "PERFORMING", "ENDED"},
                               arrived : SUBSET Agent]]
      BY ONLY <3>2, <3>3, <3>4, <3>6, <3>7
    <3> QED
      BY <3>5, <3>6, <3>8
  <2>2. CASE ReceiveControl(k)
    <3>1. m.type \in {"pause_request", "set_time_scale_request"}
      BY <2>2 DEF ReceiveControl, Receive, m
    <3>2. m.value \in {0, 1}
      BY <1>4, <3>1, Reported
    <3>3. UNCHANGED trip
      BY <2>2 DEF ReceiveControl, authority
    <3>4. clock' = IF m.type = "pause_request"
                   THEN [clock EXCEPT !.paused = (m.value = 1)]
                   ELSE [paused |-> m.value = 0, scale |-> m.value]
      BY <2>2 DEF ReceiveControl, m
    <3>5. clock' \in [paused : BOOLEAN, scale : {0, 1}]
      BY <1>1, <3>2, <3>4 DEF Carried
    <3> QED
      BY <1>1, <3>3, <3>5 DEF Carried
  <2> QED
    BY <1>1, <2>1, <2>2
       DEF Carried, Handle, ReceiveRepeat, ReceiveRefused, ReceiveHello, ReceiveRegistry,
           ReceiveReady, authority
<1>6. sendq' \in Seq(Batches) /\ Filled'
  <2>1. CASE ReceiveRefused(k)
    BY <1>1, <2>1 DEF ReceiveRefused, Carried, Filled
  <2>2. CASE ~ReceiveRefused(k)
    <3>1. \/ UNCHANGED sendq
          \/ \E msgs \in Seq(ServerMessage) : Enqueue(k, "handler", msgs)
      <4>1. Snapshot \in ServerMessage /\ Clock(version) \in ServerMessage
            /\ [type |-> "repeat"] \in ServerMessage
        BY <1>1, Messages
      <4>2. CASE ReceiveRepeat(k)
        <5>1. << >> \in Seq(ServerMessage) /\ <<[type |-> "repeat"]>> \in Seq(ServerMessage)
          BY <4>1
        <5> QED
          BY <4>2, <5>1 DEF ReceiveRepeat
      <4>3. CASE ReceiveHello(k)
        <5>1. [type |-> "server_hello", ver |-> version] \in ServerMessage
          BY <1>1, Messages
        <5>2. <<[type |-> "server_hello", ver |-> version]>> \in Seq(ServerMessage)
          BY <5>1
        <5> QED
          BY <4>3, <5>2 DEF ReceiveHello
      <4>4. CASE ReceiveRegistry(k)
        <5>1. PICK accepted \in Registries :
                LET result == [type |-> "asset_registry_result", ver |-> version,
                               accepted |-> accepted]
                IN  \/ Enqueue(k, "handler", <<result, Snapshot>>)
                    \/ Enqueue(k, "handler", <<result>>)
          BY <4>4 DEF ReceiveRegistry
        <5>2. accepted \in BOOLEAN
          BY BridgeConstants DEF BridgeConstants
        <5>3. [type |-> "asset_registry_result", ver |-> version, accepted |-> accepted]
                \in ServerMessage
          BY <1>1, <5>2, Messages
        <5>4. /\ <<[type |-> "asset_registry_result", ver |-> version, accepted |-> accepted],
                   Snapshot>> \in Seq(ServerMessage)
              /\ <<[type |-> "asset_registry_result", ver |-> version, accepted |-> accepted]>>
                   \in Seq(ServerMessage)
          BY <4>1, <5>3
        <5> QED
          BY <5>1, <5>4
      <4>5. CASE ReceiveReady(k)
        <5>1. <<Clock(version)>> \in Seq(ServerMessage)
          BY <4>1
        <5> QED
          BY <4>5, <5>1 DEF ReceiveReady
      <4>6. CASE ReceiveMovement(k)
        <5>1. m.action \in Action
          BY <1>4, <4>6, Reported DEF ReceiveMovement, Receive, m
        <5>2. \A t \in {"agent_state_delta", "action_ended"} :
                <<About(t, m.action)>> \in Seq(ServerMessage)
          BY <1>1, <5>1, Messages
        <5>3. <<Snapshot>> \in Seq(ServerMessage)
          BY <4>1
        <5> QED
          BY <4>6, <5>2, <5>3 DEF ReceiveMovement, m
      <4>7. CASE ReceiveControl(k)
        <5>1. <<Clock(version)>> \in Seq(ServerMessage)
          BY <4>1
        <5> QED
          BY <4>7, <5>1 DEF ReceiveControl
      <4> QED
        BY <2>2, <4>2, <4>3, <4>4, <4>5, <4>6, <4>7 DEF Handle
    <3>2. CASE UNCHANGED sendq
      BY <1>1, <3>2 DEF Carried, Filled
    <3> QED
      BY <3>1, <3>2, QueuedBatch DEF Typed
  <2> QED
    BY <2>1, <2>2
<1> QED
  BY <1>1, <1>2, <1>3, <1>5, <1>6 DEF Carried

(* Every step carries the types on.                                        *)
LEMMA TypedKeeps == ASSUME IInv, Typed, [Next]_vars PROVE Typed'
<1>1. IInv'
  BY Keeps
<1>2. Carried'
  <2>1. CASE UNCHANGED vars
    <3>1. Carried
      BY Split
    <3>2. UNCHANGED <<trip, clock, sendq, up, down, applied, floor, due, walking, faults>>
      BY <2>1 DEF vars, server, wire, client, reconnecting, authority
    <3>3. Filled'
      BY <3>1, <3>2 DEF Carried, Filled
    <3> QED
      BY <3>1, <3>2, <3>3 DEF Carried
  <2> QED
    BY <2>1, TickCarried, GatesCarried, SendNextCarried, CutCarried, RestartCarried,
       SentCarried, ProcessCarried, HandleCarried DEF Next
<1>3. Types'
  BY <1>1 DEF IInv
<1> QED
  BY <1>2, <1>3 DEF Typed, TypeOK, Types, Carried, Batches, Faults

(* TypeOK holds always: whatever the two ends, the faults and the two      *)
(* tasks that share the send lock do, every queue carries messages of the  *)
(* protocol's types and every batch that awaits the lock has one to send.  *)
THEOREM BridgeTypes == Spec => []TypeOK
<1>1. Init => IInv /\ Typed
  BY Initially, InitiallyTyped
<1>2. IInv /\ Typed /\ [Next]_vars => (IInv /\ Typed)'
  BY Keeps, TypedKeeps
<1>3. Typed => TypeOK
  BY DEF Typed
<1> QED
  BY <1>1, <1>2, <1>3, PTL DEF Spec

-----------------------------------------------------------------------------
(* The order of what is under way.                                         *)

UnderWay(k) ==
  {down[k][i] : i \in DOMAIN down[k]} \cup
  UNION {{sendq[b].msgs[i] : i \in DOMAIN sendq[b].msgs} :
           b \in {c \in DOMAIN sendq : sendq[c].conn = k}}

LineOrdered ==
  \A k \in Conn : \A i, j \in DOMAIN down[k] : i < j => NotAfter(down[k][i], down[k][j])

BatchOrdered ==
  \A b \in DOMAIN sendq : \A i, j \in DOMAIN sendq[b].msgs :
    i < j => NotAfter(sendq[b].msgs[i], sendq[b].msgs[j])

QueueOrdered ==
  \A b, c \in DOMAIN sendq : b < c /\ sendq[b].conn = sendq[c].conn =>
    \A i \in DOMAIN sendq[b].msgs, j \in DOMAIN sendq[c].msgs :
      NotAfter(sendq[b].msgs[i], sendq[c].msgs[j])

LineFirst ==
  \A b \in DOMAIN sendq :
    \A i \in DOMAIN down[sendq[b].conn], j \in DOMAIN sendq[b].msgs :
      NotAfter(down[sendq[b].conn][i], sendq[b].msgs[j])

Ordered == LineOrdered /\ BatchOrdered /\ QueueOrdered /\ LineFirst

(* What is under way is typed, batch by batch and message by message.      *)
LEMMA WayTyped ==
  ASSUME Typed
  PROVE  /\ sendq \in Seq(Batches) /\ down \in [Conn -> Seq(ServerMessage)]
         /\ \A b \in DOMAIN sendq : /\ sendq[b] \in Batches /\ sendq[b].conn \in Conn
                                    /\ sendq[b].msgs \in Seq(ServerMessage)
                                    /\ sendq[b].msgs # << >>
         /\ \A k \in Conn : down[k] \in Seq(ServerMessage) /\ UnderWay(k) \subseteq ServerMessage
<1>1. /\ sendq \in Seq(Batches) /\ down \in [Conn -> Seq(ServerMessage)]
      /\ \A b \in DOMAIN sendq : sendq[b].msgs # << >>
  BY Split DEF Carried, Filled
<1>2. \A b \in DOMAIN sendq : /\ sendq[b] \in Batches /\ sendq[b].conn \in Conn
                              /\ sendq[b].msgs \in Seq(ServerMessage)
  <2>1. \A b \in DOMAIN sendq : sendq[b] \in Batches
    BY <1>1
  <2> QED
    BY <2>1 DEF Batches
<1>3. ASSUME NEW k \in Conn PROVE UnderWay(k) \subseteq ServerMessage
  <2>1. \A i \in DOMAIN down[k] : down[k][i] \in ServerMessage
    BY <1>1
  <2>2. \A b \in DOMAIN sendq : \A i \in DOMAIN sendq[b].msgs : sendq[b].msgs[i] \in ServerMessage
    BY <1>2
  <2> QED
    BY <2>1, <2>2 DEF UnderWay
<1> QED
  BY <1>1, <1>2, <1>3

(* A batch joins the queue whose messages are of the authority's version.  *)
LEMMA BatchJoins ==
  ASSUME Typed, Ordered, NEW k \in Conn, NEW from \in {"handler", "clock"},
         NEW msgs \in Seq(ServerMessage), Enqueue(k, from, msgs), UNCHANGED down,
         NEW v \in Nat, \A i \in DOMAIN msgs : Versioned(msgs[i]) => msgs[i].ver = v,
         k = generation => \A m \in UnderWay(k) : Versioned(m) => m.ver <= v
  PROVE  /\ Ordered'
         /\ \A j \in Conn : \A m \in UnderWay(j)' :
              m \in UnderWay(j) \/ (j = generation /\ (Versioned(m) => m.ver = v))
<1>1. CASE sendq' = sendq
  <2>1. \A j \in Conn : UnderWay(j)' = UnderWay(j)
    BY <1>1 DEF UnderWay
  <2>2. Ordered'
    BY <1>1 DEF Ordered, LineOrdered, BatchOrdered, QueueOrdered, LineFirst
  <2> QED
    BY <2>1, <2>2
<1>2. CASE k = generation /\ sendq' = Append(sendq, [conn |-> k, from |-> from, msgs |-> msgs])
  <2> DEFINE n == Len(sendq) + 1
             new == [conn |-> k, from |-> from, msgs |-> msgs]
  <2>1. /\ DOMAIN sendq' = 1 .. n /\ DOMAIN sendq = 1 .. n - 1 /\ n \in Nat \ {0}
        /\ \A b \in 1 .. n - 1 : sendq'[b] = sendq[b]
        /\ sendq'[n].conn = k /\ sendq'[n].msgs = msgs
    <3>1. sendq \in Seq(Batches)
      BY WayTyped
    <3>2. new \in Batches
      BY DEF Batches
    <3> QED
      BY <1>2, <3>1, <3>2
  <2> HIDE DEF n, new
  <2>2. \A b \in DOMAIN sendq' : b # n => b \in DOMAIN sendq /\ sendq'[b] = sendq[b] /\ b < n
    BY <2>1
  <2>3. \A b \in DOMAIN sendq : sendq[b].conn = k =>
          \A i \in DOMAIN sendq[b].msgs : sendq[b].msgs[i] \in UnderWay(k)
    BY DEF UnderWay
  <2>4. \A i \in DOMAIN down[k] : down[k][i] \in UnderWay(k)
    BY DEF UnderWay
  <2>5. \A m \in UnderWay(k) : \A i \in DOMAIN msgs : NotAfter(m, msgs[i])
    BY <1>2 DEF NotAfter
  <2>6. LineOrdered'
    BY DEF Ordered, LineOrdered
  <2>7. BatchOrdered'
    <3>1. \A i, j \in DOMAIN msgs : NotAfter(msgs[i], msgs[j])
      BY DEF NotAfter
    <3> QED
      BY <2>1, <2>2, <3>1 DEF Ordered, BatchOrdered
  <2>8. QueueOrdered'
    <3> SUFFICES ASSUME NEW b \in DOMAIN sendq', NEW c \in DOMAIN sendq', b < c,
                        sendq'[b].conn = sendq'[c].conn,
                        NEW i \in DOMAIN sendq'[b].msgs, NEW j \in DOMAIN sendq'[c].msgs
                 PROVE  NotAfter(sendq'[b].msgs[i], sendq'[c].msgs[j])
      BY DEF QueueOrdered
    <3>1. b # n
      BY <2>1
    <3>2. CASE c # n
      BY <2>2, <3>1, <3>2 DEF Ordered, QueueOrdered
    <3>3. CASE c = n
      BY <2>1, <2>2, <2>3, <2>5, <3>1, <3>3
    <3> QED
      BY <3>2, <3>3
  <2>9. LineFirst'
    <3> SUFFICES ASSUME NEW b \in DOMAIN sendq', NEW i \in DOMAIN down[sendq'[b].conn],
                        NEW j \in DOMAIN sendq'[b].msgs
                 PROVE  NotAfter(down[sendq'[b].conn][i], sendq'[b].msgs[j])
      BY DEF LineFirst
    <3>1. CASE b # n
      BY <2>2, <3>1 DEF Ordered, LineFirst
    <3>2. CASE b = n
      BY <2>1, <2>4, <2>5, <3>2
    <3> QED
      BY <3>1, <3>2
  <2>10. ASSUME NEW j \in Conn, NEW m \in UnderWay(j)'
         PROVE  m \in UnderWay(j) \/ (j = generation /\ (Versioned(m) => m.ver = v))
    <3>1. CASE \E i \in DOMAIN down[j] : m = down[j][i]
      BY <3>1 DEF UnderWay
    <3>2. CASE \E b \in DOMAIN sendq' : sendq'[b].conn = j /\
                 \E i \in DOMAIN sendq'[b].msgs : m = sendq'[b].msgs[i]
      <4>1. PICK b \in DOMAIN sendq' : sendq'[b].conn = j /\
                   \E i \in DOMAIN sendq'[b].msgs : m = sendq'[b].msgs[i]
        BY <3>2
      <4>2. CASE b # n
        BY <2>2, <4>1, <4>2 DEF UnderWay
      <4>3. CASE b = n
        BY <1>2, <2>1, <4>1, <4>3
      <4> QED
        BY <4>2, <4>3
    <3> QED
      BY <3>1, <3>2 DEF UnderWay
  <2> QED
    BY <2>6, <2>7, <2>8, <2>9, <2>10 DEF Ordered
<1> QED
  BY <1>1, <1>2 DEF Enqueue

(* Every message that is still queued has its place in the queue before.   *)
LEMMA QueueMoves ==
  ASSUME Typed, SendNext
  PROVE  /\ 1 \in DOMAIN sendq /\ 1 \in DOMAIN sendq[1].msgs
         /\ \A j \in Conn : \A i \in DOMAIN down'[j] :
              \/ i \in DOMAIN down[j] /\ down'[j][i] = down[j][i]
              \/ /\ j = sendq[1].conn /\ down'[j][i] = sendq[1].msgs[1]
                 /\ \A l \in DOMAIN down'[j] : l <= i
                 /\ link[sendq[1].conn] = "up"
         /\ \E G \in [DOMAIN sendq' -> DOMAIN sendq], S \in [DOMAIN sendq' -> {0, 1}] :
              /\ \A b, c \in DOMAIN sendq' : b < c => G[b] < G[c]
              /\ \A b \in DOMAIN sendq' :
                   /\ sendq'[b].conn = sendq[G[b]].conn
                   /\ \A i \in DOMAIN sendq'[b].msgs :
                        /\ i + S[b] \in DOMAIN sendq[G[b]].msgs
                        /\ sendq'[b].msgs[i] = sendq[G[b]].msgs[i + S[b]]
                        /\ G[b] = 1 => 1 < i + S[b]
<1>1. /\ sendq \in Seq(Batches) /\ sendq # << >>
      /\ Head(sendq) = sendq[1] /\ 1 \in DOMAIN sendq /\ Len(sendq) \in Nat \ {0}
      /\ DOMAIN sendq = 1 .. Len(sendq)
  <2>1. sendq \in Seq(Batches) /\ sendq # << >>
    BY WayTyped DEF SendNext
  <2> QED
    BY <2>1, TakenOff
<1>2. /\ sendq[1].conn \in Conn
      /\ sendq[1].msgs \in Seq(ServerMessage) /\ sendq[1].msgs # << >>
      /\ \A k \in Conn : down[k] \in Seq(ServerMessage)
      /\ down \in [Conn -> Seq(ServerMessage)]
  BY <1>1, WayTyped
<1>3. /\ Head(sendq[1].msgs) = sendq[1].msgs[1] /\ 1 \in DOMAIN sendq[1].msgs
      /\ Head(sendq[1].msgs) \in ServerMessage
      /\ Len(sendq[1].msgs) \in Nat \ {0}
      /\ Tail(sendq[1].msgs) \in Seq(ServerMessage)
      /\ \A i \in DOMAIN Tail(sendq[1].msgs) :
           Tail(sendq[1].msgs)[i] = sendq[1].msgs[i + 1] /\ i + 1 \in DOMAIN sendq[1].msgs
  BY <1>2, TakenOff
<1>4. ASSUME NEW j \in Conn, NEW i \in DOMAIN down'[j]
      PROVE  \/ i \in DOMAIN down[j] /\ down'[j][i] = down[j][i]
             \/ /\ j = sendq[1].conn /\ down'[j][i] = sendq[1].msgs[1]
                /\ \A l \in DOMAIN down'[j] : l <= i
                /\ link[sendq[1].conn] = "up"
  <2>1. CASE link[sendq[1].conn] = "up" /\ j = sendq[1].conn
    <3>1. down'[j] = Append(down[j], sendq[1].msgs[1])
      BY <1>1, <1>2, <1>3, <2>1 DEF SendNext
    <3>2. down[j] \in Seq(ServerMessage) /\ sendq[1].msgs[1] \in ServerMessage
      BY <1>2, <1>3
    <3>3. /\ DOMAIN down'[j] = 1 .. Len(down[j]) + 1 /\ DOMAIN down[j] = 1 .. Len(down[j])
          /\ \A l \in 1 .. Len(down[j]) : down'[j][l] = down[j][l]
          /\ down'[j][Len(down[j]) + 1] = sendq[1].msgs[1]
          /\ Len(down[j]) \in Nat
      BY <3>1, <3>2
    <3>4. CASE i = Len(down[j]) + 1
      <4>1. \A l \in DOMAIN down'[j] : l <= i
        BY <3>3, <3>4
      <4> QED
        BY <2>1, <3>3, <3>4, <4>1
    <3>5. CASE i # Len(down[j]) + 1
      <4>1. i \in 1 .. Len(down[j])
        BY <3>3, <3>5
      <4> QED
        BY <3>3, <4>1
    <3> QED
      BY <3>4, <3>5
  <2>2. CASE ~(link[sendq[1].conn] = "up" /\ j = sendq[1].conn)
    BY <1>1, <1>2, <2>2 DEF SendNext
  <2> QED
    BY <2>1, <2>2
<1>5. CASE sendq' = Tail(sendq)
  <2> DEFINE G == [b \in DOMAIN sendq' |-> b + 1]
             S == [b \in DOMAIN sendq' |-> 0]
  <2>1. \A b \in DOMAIN sendq' : /\ b + 1 \in DOMAIN sendq /\ sendq'[b] = sendq[b + 1]
                                 /\ b \in Nat \ {0}
    BY <1>1, <1>5
  <2>2. G \in [DOMAIN sendq' -> DOMAIN sendq] /\ S \in [DOMAIN sendq' -> {0, 1}]
    BY <2>1
  <2>3. \A b, c \in DOMAIN sendq' : b < c => G[b] < G[c]
    BY <2>1
  <2>4. \A b \in DOMAIN sendq' :
          /\ sendq'[b].conn = sendq[G[b]].conn
          /\ \A i \in DOMAIN sendq'[b].msgs :
               /\ i + S[b] \in DOMAIN sendq[G[b]].msgs
               /\ sendq'[b].msgs[i] = sendq[G[b]].msgs[i + S[b]]
               /\ G[b] = 1 => 1 < i + S[b]
    <3> SUFFICES ASSUME NEW b \in DOMAIN sendq'
                 PROVE  /\ sendq'[b].conn = sendq[G[b]].conn
                        /\ \A i \in DOMAIN sendq'[b].msgs :
                             /\ i + S[b] \in DOMAIN sendq[G[b]].msgs
                             /\ sendq'[b].msgs[i] = sendq[G[b]].msgs[i + S[b]]
                             /\ G[b] = 1 => 1 < i + S[b]
      OBVIOUS
    <3>1. G[b] = b + 1 /\ S[b] = 0 /\ G[b] # 1
      BY <2>1
    <3>2. sendq[b + 1].msgs \in Seq(ServerMessage)
      BY <2>1, WayTyped
    <3>3. \A i \in DOMAIN sendq[b + 1].msgs : i + 0 = i
      BY <3>2
    <3> QED
      BY <2>1, <3>1, <3>3
  <2>5. \E g \in [DOMAIN sendq' -> DOMAIN sendq], s \in [DOMAIN sendq' -> {0, 1}] : g = G /\ s = S
    BY <2>2
  <2> HIDE DEF G, S
  <2>6. PICK g \in [DOMAIN sendq' -> DOMAIN sendq], s \in [DOMAIN sendq' -> {0, 1}] : g = G /\ s = S
    BY <2>5
  <2>7. /\ \A b, c \in DOMAIN sendq' : b < c => g[b] < g[c]
        /\ \A b \in DOMAIN sendq' :
             /\ sendq'[b].conn = sendq[g[b]].conn
             /\ \A i \in DOMAIN sendq'[b].msgs :
                  /\ i + s[b] \in DOMAIN sendq[g[b]].msgs
                  /\ sendq'[b].msgs[i] = sendq[g[b]].msgs[i + s[b]]
                  /\ g[b] = 1 => 1 < i + s[b]
    BY <2>3, <2>4, <2>6
  <2> QED
    BY <1>1, <1>3, <1>4, <2>7
<1>6. CASE sendq' = [sendq EXCEPT ![1].msgs = Tail(@)]
  <2> DEFINE G == [b \in DOMAIN sendq' |-> b]
             S == [b \in DOMAIN sendq' |-> IF b = 1 THEN 1 ELSE 0]
  <2>1. /\ DOMAIN sendq' = DOMAIN sendq
        /\ \A b \in DOMAIN sendq : b # 1 => sendq'[b] = sendq[b]
        /\ sendq'[1].conn = sendq[1].conn /\ sendq'[1].msgs = Tail(sendq[1].msgs)
    <3>1. sendq[1] \in Batches
      BY <1>1
    <3> QED
      BY <1>1, <1>6, <3>1 DEF Batches
  <2>2. G \in [DOMAIN sendq' -> DOMAIN sendq] /\ S \in [DOMAIN sendq' -> {0, 1}]
    BY <2>1
  <2>3. \A b, c \in DOMAIN sendq' : b < c => G[b] < G[c]
    BY <2>1
  <2>4. \A b \in DOMAIN sendq' :
          /\ sendq'[b].conn = sendq[G[b]].conn
          /\ \A i \in DOMAIN sendq'[b].msgs :
               /\ i + S[b] \in DOMAIN sendq[G[b]].msgs
               /\ sendq'[b].msgs[i] = sendq[G[b]].msgs[i + S[b]]
               /\ G[b] = 1 => 1 < i + S[b]
    <3> SUFFICES ASSUME NEW b \in DOMAIN sendq'
                 PROVE  /\ sendq'[b].conn = sendq[G[b]].conn
                        /\ \A i \in DOMAIN sendq'[b].msgs :
                             /\ i + S[b] \in DOMAIN sendq[G[b]].msgs
                             /\ sendq'[b].msgs[i] = sendq[G[b]].msgs[i + S[b]]
                             /\ G[b] = 1 => 1 < i + S[b]
      OBVIOUS
    <3>1. CASE b = 1
      <4>1. \A i \in DOMAIN Tail(sendq[1].msgs) : 1 < i + 1
        BY <1>3
      <4> QED
        BY <1>3, <2>1, <3>1, <4>1
    <3>2. CASE b # 1
      <4>1. G[b] = b /\ S[b] = 0 /\ sendq'[b] = sendq[b] /\ b \in DOMAIN sendq
        BY <2>1, <3>2
      <4>2. sendq[b].msgs \in Seq(ServerMessage)
        BY <4>1, WayTyped
      <4>3. \A i \in DOMAIN sendq[b].msgs : i + 0 = i
        BY <4>2
      <4> QED
        BY <3>2, <4>1, <4>3
    <3> QED
      BY <3>1, <3>2
  <2>5. \E g \in [DOMAIN sendq' -> DOMAIN sendq], s \in [DOMAIN sendq' -> {0, 1}] : g = G /\ s = S
    BY <2>2
  <2> HIDE DEF G, S
  <2>6. PICK g \in [DOMAIN sendq' -> DOMAIN sendq], s \in [DOMAIN sendq' -> {0, 1}] : g = G /\ s = S
    BY <2>5
  <2>7. /\ \A b, c \in DOMAIN sendq' : b < c => g[b] < g[c]
        /\ \A b \in DOMAIN sendq' :
             /\ sendq'[b].conn = sendq[g[b]].conn
             /\ \A i \in DOMAIN sendq'[b].msgs :
                  /\ i + s[b] \in DOMAIN sendq[g[b]].msgs
                  /\ sendq'[b].msgs[i] = sendq[g[b]].msgs[i + s[b]]
                  /\ g[b] = 1 => 1 < i + s[b]
    BY <2>3, <2>4, <2>6
  <2> QED
    BY <1>1, <1>3, <1>4, <2>7
<1> QED
  BY <1>1, <1>5, <1>6 DEF SendNext

(* The lock holder's next message leaves the queue for the wire, or what   *)
(* is left of its batch is given up.                                       *)
LEMMA QueueSends ==
  ASSUME Typed, Ordered, SendNext
  PROVE  Ordered' /\ \A j \in Conn : UnderWay(j)' \subseteq UnderWay(j)
<1>1. /\ 1 \in DOMAIN sendq /\ 1 \in DOMAIN sendq[1].msgs
      /\ \A j \in Conn : \A i \in DOMAIN down'[j] :
           \/ i \in DOMAIN down[j] /\ down'[j][i] = down[j][i]
           \/ /\ j = sendq[1].conn /\ down'[j][i] = sendq[1].msgs[1]
              /\ \A l \in DOMAIN down'[j] : l <= i
              /\ link[sendq[1].conn] = "up"
  BY QueueMoves
<1>2. PICK G \in [DOMAIN sendq' -> DOMAIN sendq], S \in [DOMAIN sendq' -> {0, 1}] :
        /\ \A b, c \in DOMAIN sendq' : b < c => G[b] < G[c]
        /\ \A b \in DOMAIN sendq' :
             /\ sendq'[b].conn = sendq[G[b]].conn
             /\ \A i \in DOMAIN sendq'[b].msgs :
                  /\ i + S[b] \in DOMAIN sendq[G[b]].msgs
                  /\ sendq'[b].msgs[i] = sendq[G[b]].msgs[i + S[b]]
                  /\ G[b] = 1 => 1 < i + S[b]
  BY QueueMoves
<1>3. /\ \A b \in DOMAIN sendq : b \in Nat \ {0} /\ sendq[b].conn \in Conn
      /\ \A b \in DOMAIN sendq : DOMAIN sendq[b].msgs \subseteq Nat
  <2>1. \A b \in DOMAIN sendq : sendq[b].msgs \in Seq(ServerMessage) /\ sendq[b].conn \in Conn
    BY WayTyped
  <2>2. sendq \in Seq(Batches)
    BY WayTyped
  <2> QED
    BY <2>1, <2>2
<1>4. /\ \A b \in DOMAIN sendq' : DOMAIN sendq'[b].msgs \subseteq Nat
      /\ \A j \in Conn : DOMAIN down'[j] \subseteq Nat
  <2>1. sendq' \in Seq(Batches) /\ down' \in [Conn -> Seq(ServerMessage)]
    BY SentOn DEF Typed
  <2>2. \A b \in DOMAIN sendq' : sendq'[b] \in Batches
    BY <2>1
  <2>3. \A b \in DOMAIN sendq' : sendq'[b].msgs \in Seq(ServerMessage)
    BY <2>2 DEF Batches
  <2>4. \A j \in Conn : down'[j] \in Seq(ServerMessage)
    BY <2>1
  <2> QED
    BY <2>3, <2>4
<1>5. LineOrdered'
  <2> SUFFICES ASSUME NEW k \in Conn, NEW i \in DOMAIN down'[k], NEW j \in DOMAIN down'[k], i < j
               PROVE  NotAfter(down'[k][i], down'[k][j])
    BY DEF LineOrdered
  <2>1. i \in DOMAIN down[k] /\ down'[k][i] = down[k][i]
    <3>1. ~ (\A l \in DOMAIN down'[k] : l <= i)
      BY <1>4
    <3> QED
      BY <1>1, <3>1
  <2>2. CASE j \in DOMAIN down[k] /\ down'[k][j] = down[k][j]
    BY <2>1, <2>2 DEF Ordered, LineOrdered
  <2>3. CASE k = sendq[1].conn /\ down'[k][j] = sendq[1].msgs[1]
    BY <1>1, <2>1, <2>3 DEF Ordered, LineFirst
  <2> QED
    BY <1>1, <2>2, <2>3
<1>6. BatchOrdered'
  <2> SUFFICES ASSUME NEW b \in DOMAIN sendq',
                      NEW i \in DOMAIN sendq'[b].msgs, NEW j \in DOMAIN sendq'[b].msgs, i < j
               PROVE  NotAfter(sendq'[b].msgs[i], sendq'[b].msgs[j])
    BY DEF BatchOrdered
  <2>1. i + S[b] < j + S[b]
    BY <1>2, <1>4
  <2> QED
    BY <1>2, <2>1 DEF Ordered, BatchOrdered
<1>7. QueueOrdered'
  <2> SUFFICES ASSUME NEW b \in DOMAIN sendq', NEW c \in DOMAIN sendq', b < c,
                      sendq'[b].conn = sendq'[c].conn,
                      NEW i \in DOMAIN sendq'[b].msgs, NEW j \in DOMAIN sendq'[c].msgs
               PROVE  NotAfter(sendq'[b].msgs[i], sendq'[c].msgs[j])
    BY DEF QueueOrdered
  <2>1. /\ G[b] \in DOMAIN sendq /\ G[c] \in DOMAIN sendq /\ G[b] < G[c]
        /\ sendq[G[b]].conn = sendq[G[c]].conn
    BY <1>2
  <2>2. NotAfter(sendq[G[b]].msgs[i + S[b]], sendq[G[c]].msgs[j + S[c]])
    BY <1>2, <2>1 DEF Ordered, QueueOrdered
  <2> QED
    BY <1>2, <2>2
<1>8. LineFirst'
  <2> SUFFICES ASSUME NEW b \in DOMAIN sendq', NEW i \in DOMAIN down'[sendq'[b].conn],
                      NEW j \in DOMAIN sendq'[b].msgs
               PROVE  NotAfter(down'[sendq'[b].conn][i], sendq'[b].msgs[j])
    BY DEF LineFirst
  <2>1. /\ G[b] \in DOMAIN sendq /\ sendq'[b].conn = sendq[G[b]].conn
        /\ j + S[b] \in DOMAIN sendq[G[b]].msgs
        /\ sendq'[b].msgs[j] = sendq[G[b]].msgs[j + S[b]]
        /\ G[b] = 1 => 1 < j + S[b]
    BY <1>2
  <2>2. sendq'[b].conn \in Conn
    BY <1>3, <2>1
  <2> DEFINE k == sendq'[b].conn
  <2>3. CASE i \in DOMAIN down[k] /\ down'[k][i] = down[k][i]
    BY <2>1, <2>3 DEF Ordered, LineFirst
  <2>4. CASE k = sendq[1].conn /\ down'[k][i] = sendq[1].msgs[1]
    <3>1. CASE G[b] = 1
      BY <1>1, <2>1, <2>4, <3>1 DEF Ordered, BatchOrdered
    <3>2. CASE G[b] # 1
      <4>1. 1 < G[b]
        BY <1>3, <2>1, <3>2
      <4>2. sendq[1].conn = sendq[G[b]].conn
        BY <2>1, <2>4
      <4>3. NotAfter(sendq[1].msgs[1], sendq[G[b]].msgs[j + S[b]])
        BY <1>1, <2>1, <4>1, <4>2 DEF Ordered, QueueOrdered
      <4> QED
        BY <2>1, <2>4, <4>3
    <3> QED
      BY <3>1, <3>2
  <2> QED
    BY <1>1, <2>2, <2>3, <2>4
<1>9. ASSUME NEW j \in Conn, NEW m \in UnderWay(j)' PROVE m \in UnderWay(j)
  <2>1. CASE \E i \in DOMAIN down'[j] : m = down'[j][i]
    BY <1>1, <2>1 DEF UnderWay
  <2>2. CASE \E b \in DOMAIN sendq' : sendq'[b].conn = j /\
               \E i \in DOMAIN sendq'[b].msgs : m = sendq'[b].msgs[i]
    <3>1. PICK b \in DOMAIN sendq' : sendq'[b].conn = j /\
                 \E i \in DOMAIN sendq'[b].msgs : m = sendq'[b].msgs[i]
      BY <2>2
    <3>2. PICK i \in DOMAIN sendq'[b].msgs : m = sendq'[b].msgs[i]
      BY <3>1
    <3>3. /\ G[b] \in DOMAIN sendq /\ sendq[G[b]].conn = j
          /\ i + S[b] \in DOMAIN sendq[G[b]].msgs /\ m = sendq[G[b]].msgs[i + S[b]]
      BY <1>2, <3>1, <3>2
    <3> QED
      BY <3>3 DEF UnderWay
  <2> QED
    BY <2>1, <2>2 DEF UnderWay
<1> QED
  BY <1>5, <1>6, <1>7, <1>8, <1>9 DEF Ordered

(* The client takes the first message off the wire: none of the others is  *)
(* older.                                                                  *)
LEMMA WireDelivers ==
  ASSUME Typed, Ordered, NEW k \in Conn, Deliver(k)
  PROVE  /\ Ordered'
         /\ \A j \in Conn : UnderWay(j)' \subseteq UnderWay(j)
         /\ Head(down[k]) \in UnderWay(k)
         /\ \A m \in UnderWay(k)' : NotAfter(Head(down[k]), m)
<1>1. /\ down \in [Conn -> Seq(ServerMessage)] /\ UNCHANGED sendq
      /\ down' = [down EXCEPT ![k] = Tail(@)]
      /\ down[k] \in Seq(ServerMessage) /\ down[k] # << >>
  BY WayTyped DEF Deliver, server
<1>2. /\ Head(down[k]) = down[k][1] /\ 1 \in DOMAIN down[k]
      /\ \A i \in DOMAIN Tail(down[k]) :
           Tail(down[k])[i] = down[k][i + 1] /\ i + 1 \in DOMAIN down[k]
      /\ DOMAIN Tail(down[k]) \subseteq Nat \ {0}
  <2>1. Tail(down[k]) \in Seq(ServerMessage)
    BY <1>1, TakenOff
  <2>2. DOMAIN Tail(down[k]) \subseteq Nat \ {0}
    BY <2>1
  <2> QED
    BY <1>1, <2>2, TakenOff
<1>3. /\ down'[k] = Tail(down[k])
      /\ \A j \in Conn : j # k => down'[j] = down[j]
  BY <1>1
<1>4. LineOrdered'
  <2> SUFFICES ASSUME NEW j \in Conn, NEW a \in DOMAIN down'[j], NEW b \in DOMAIN down'[j], a < b
               PROVE  NotAfter(down'[j][a], down'[j][b])
    BY DEF LineOrdered
  <2>1. CASE j = k
    <3>1. a + 1 < b + 1
      BY <1>2, <1>3, <2>1
    <3>2. /\ down'[j][a] = down[k][a + 1] /\ a + 1 \in DOMAIN down[k]
          /\ down'[j][b] = down[k][b + 1] /\ b + 1 \in DOMAIN down[k]
      BY <1>2, <1>3, <2>1
    <3>3. NotAfter(down[k][a + 1], down[k][b + 1])
      BY <3>1, <3>2 DEF Ordered, LineOrdered
    <3> QED
      BY <3>2, <3>3
  <2>2. CASE j # k
    BY <1>3, <2>2 DEF Ordered, LineOrdered
  <2> QED
    BY <2>1, <2>2
<1>5. BatchOrdered' /\ QueueOrdered'
  BY <1>1 DEF Ordered, BatchOrdered, QueueOrdered
<1>6. LineFirst'
  <2> SUFFICES ASSUME NEW b \in DOMAIN sendq, NEW i \in DOMAIN down'[sendq[b].conn],
                      NEW j \in DOMAIN sendq[b].msgs
               PROVE  NotAfter(down'[sendq[b].conn][i], sendq[b].msgs[j])
    BY <1>1 DEF LineFirst
  <2>1. sendq[b].conn \in Conn
    BY WayTyped
  <2>2. CASE sendq[b].conn = k
    <3>1. /\ down'[sendq[b].conn][i] = down[sendq[b].conn][i + 1]
          /\ i + 1 \in DOMAIN down[sendq[b].conn]
      BY <1>2, <1>3, <2>2
    <3>2. NotAfter(down[sendq[b].conn][i + 1], sendq[b].msgs[j])
      BY <3>1 DEF Ordered, LineFirst
    <3> QED
      BY <3>1, <3>2
  <2>3. CASE sendq[b].conn # k
    BY <1>3, <2>1, <2>3 DEF Ordered, LineFirst
  <2> QED
    BY <2>2, <2>3
<1>7. ASSUME NEW j \in Conn PROVE UnderWay(j)' \subseteq UnderWay(j)
  <2>1. CASE j = k
    BY <1>1, <1>2, <1>3, <2>1 DEF UnderWay
  <2>2. CASE j # k
    BY <1>1, <1>3, <2>2 DEF UnderWay
  <2> QED
    BY <2>1, <2>2
<1>8. Head(down[k]) \in UnderWay(k)
  BY <1>2 DEF UnderWay
<1>9. ASSUME NEW m \in UnderWay(k)' PROVE NotAfter(Head(down[k]), m)
  <2>1. CASE \E i \in DOMAIN down'[k] : m = down'[k][i]
    <3>1. PICK i \in DOMAIN Tail(down[k]) : m = down[k][i + 1]
      BY <1>2, <1>3, <2>1
    <3>2. 1 < i + 1 /\ i + 1 \in DOMAIN down[k]
      BY <1>2
    <3> QED
      BY <1>2, <3>1, <3>2 DEF Ordered, LineOrdered
  <2>2. CASE \E b \in DOMAIN sendq : sendq[b].conn = k /\
               \E i \in DOMAIN sendq[b].msgs : m = sendq[b].msgs[i]
    BY <1>2, <2>2 DEF Ordered, LineFirst
  <2> QED
    BY <1>1, <2>1, <2>2 DEF UnderWay
<1> QED
  BY <1>4, <1>5, <1>6, <1>7, <1>8, <1>9 DEF Ordered

(* What is lost, and what nobody touches, does not disturb the order.      *)
LEMMA LosesOrder ==
  ASSUME Typed, Ordered, sendq' \in {sendq, << >>},
         \A j \in Conn : \A i \in DOMAIN down'[j] : i \in DOMAIN down[j] /\ down'[j][i] = down[j][i]
  PROVE  Ordered' /\ \A j \in Conn : UnderWay(j)' \subseteq UnderWay(j)
<1>1. \A b \in DOMAIN sendq' : b \in DOMAIN sendq /\ sendq'[b] = sendq[b]
  OBVIOUS
<1>2. \A b \in DOMAIN sendq : sendq[b].conn \in Conn
  BY WayTyped
<1>3. LineOrdered' /\ BatchOrdered' /\ QueueOrdered'
  BY <1>1 DEF Ordered, LineOrdered, BatchOrdered, QueueOrdered
<1>4. LineFirst'
  BY <1>1, <1>2 DEF Ordered, LineFirst
<1>5. ASSUME NEW j \in Conn PROVE UnderWay(j)' \subseteq UnderWay(j)
  BY <1>1 DEF UnderWay
<1> QED
  BY <1>3, <1>4, <1>5 DEF Ordered

-----------------------------------------------------------------------------
(* Who can still be told what.                                             *)

(* The authority's version is the newest that is under way to the current  *)
(* connection.                                                             *)
NotAhead ==
  \A k \in Conn : k = generation =>
    \A m \in UnderWay(k) : Versioned(m) => m.ver <= version

(* Nothing is under way on a connection the server has not yet accepted.   *)
Fresh == \A k \in Conn : handler[k] = "none" => UnderWay(k) = {}

(* What a ready client shows is no newer than the authority's state and no  *)
(* newer than anything it will still be sent.                              *)
Shown ==
  cstate = "Ready" =>
    /\ cgen # 0 /\ handler[cgen] # "none"
    /\ generation = cgen => applied <= version
    /\ \A m \in UnderWay(cgen) : Versioned(m) => m.ver >= applied

(* A client that is not ready accepts no snapshot older than what it shows, *)
(* and one that is connecting has given up its last connection.            *)
Floored == /\ cstate # "Ready" => applied <= floor
           /\ inflight => cstate \in {"Connecting", "Reconnecting"}

OInv == IInv /\ Typed /\ Ordered /\ NotAhead /\ Fresh /\ Shown /\ Floored

(* Nothing is under way initially.                                         *)
LEMMA InitiallyInOrder == Init => OInv
<1> SUFFICES ASSUME Init PROVE OInv
  OBVIOUS
<1>1. /\ sendq = << >> /\ \A k \in Conn : down[k] = << >>
  BY DEF Init
<1>2. \A k \in Conn : UnderWay(k) = {}
  BY <1>1 DEF UnderWay
<1>3. Ordered
  BY <1>1 DEF Ordered, LineOrdered, BatchOrdered, QueueOrdered, LineFirst
<1>4. NotAhead /\ Fresh
  BY <1>2 DEF NotAhead, Fresh
<1>5. Shown /\ Floored
  BY DEF Init, Shown, Floored
<1> QED
  BY <1>3, <1>4, <1>5, Initially, InitiallyTyped DEF OInv

(* What a step adds to what is under way is for the current connection and *)
(* of the authority's new version.                                         *)
Told == \A j \in Conn : \A m \in UnderWay(j)' :
          m \in UnderWay(j) \/ (j = generation /\ (Versioned(m) => m.ver = version'))

(* What the handler or the clock loop queues of the authority's version    *)
(* keeps the order, and is all that is added.                              *)
LEMMA Queues ==
  ASSUME OInv, NEW k \in Conn, NEW from \in {"handler", "clock"},
         NEW msgs \in Seq(ServerMessage), Enqueue(k, from, msgs), UNCHANGED down,
         version' \in Nat, version <= version',
         \A i \in DOMAIN msgs : Versioned(msgs[i]) => msgs[i].ver = version'
  PROVE  Ordered' /\ Told
<1>1. Typed /\ Ordered /\ version \in Nat
  BY DEF OInv, IInv, Types
<1>2. k = generation => \A m \in UnderWay(k) : Versioned(m) => m.ver <= version'
  <2>1. ASSUME k = generation, NEW m \in UnderWay(k), Versioned(m)
        PROVE  m.ver <= version'
    <3>1. m.ver <= version
      BY <2>1 DEF OInv, NotAhead
    <3>2. m.ver \in Nat
      BY <1>1, <2>1, WayTyped, Messages
    <3> QED
      BY <1>1, <3>1, <3>2
  <2> QED
    BY <2>1
<1>3. PICK v \in Nat : v = version'
  OBVIOUS
<1>4. /\ \A i \in DOMAIN msgs : Versioned(msgs[i]) => msgs[i].ver = v
      /\ k = generation => \A m \in UnderWay(k) : Versioned(m) => m.ver <= v
  BY <1>2, <1>3
<1>5. /\ Ordered'
      /\ \A j \in Conn : \A m \in UnderWay(j)' :
           m \in UnderWay(j) \/ (j = generation /\ (Versioned(m) => m.ver = v))
  BY <1>1, <1>4, BatchJoins
<1> QED
  BY <1>3, <1>5 DEF Told

(* The invariant lives on where the client's connection does, or where the *)
(* client gives it up.                                                     *)
LEMMA Settles ==
  ASSUME OInv, IInv', Typed', Ordered', Told,
         \A j \in Conn : handler'[j] = "none" => handler[j] = "none",
         \/ generation' = generation /\ version <= version'
         \/ /\ generation' = None \/ handler[generation'] = "none"
            /\ \A j \in Conn : UnderWay(j)' \subseteq UnderWay(j),
         \/ UNCHANGED <<cstate, cgen, applied, floor, inflight>>
         \/ /\ cstate' # "Ready" /\ UNCHANGED applied
            /\ (cstate # "Ready" /\ UNCHANGED floor) \/ applied <= floor'
            /\ inflight' => cstate' \in {"Connecting", "Reconnecting"}
  PROVE  OInv'
<1>1. /\ version \in Nat /\ version' \in Nat /\ None \notin Conn
      /\ generation # None => generation \in Conn /\ handler[generation] # "none"
      /\ generation' # None => generation' \in Conn
      /\ cgen # 0 => cgen \in Conn
      /\ applied \in Nat \cup {-1}
  <2>1. Carried
    BY Split DEF OInv
  <2> QED
    BY <2>1 DEF OInv, IInv, Types, Opened, None, Conn, Carried
<1>2. \A j \in Conn : \A m \in UnderWay(j) : Versioned(m) => m.ver \in Nat
  BY WayTyped, Messages DEF OInv
<1>3. NotAhead'
  <2> SUFFICES ASSUME NEW k \in Conn, k = generation', NEW m \in UnderWay(k)', Versioned(m)
               PROVE  m.ver <= version'
    BY DEF NotAhead
  <2>1. CASE generation' = generation /\ version <= version'
    <3>1. CASE m \in UnderWay(k)
      <4>1. m.ver <= version /\ m.ver \in Nat
        BY <1>2, <2>1, <3>1 DEF OInv, NotAhead
      <4> QED
        BY <1>1, <2>1, <4>1
    <3>2. CASE m \notin UnderWay(k)
      BY <1>1, <3>2 DEF Told
    <3> QED
      BY <3>1, <3>2
  <2>2. CASE ~(generation' = generation /\ version <= version')
    <3>1. handler[k] = "none" /\ UnderWay(k)' \subseteq UnderWay(k)
      BY <1>1, <2>2
    <3> QED
      BY <3>1 DEF OInv, Fresh
  <2> QED
    BY <2>1, <2>2
<1>4. Fresh'
  <2> SUFFICES ASSUME NEW k \in Conn, handler'[k] = "none", NEW m \in UnderWay(k)'
               PROVE  FALSE
    BY DEF Fresh
  <2>1. handler[k] = "none" /\ k # generation
    BY <1>1
  <2>2. UnderWay(k) = {}
    BY <2>1 DEF OInv, Fresh
  <2> QED
    BY <2>1, <2>2 DEF Told
<1>5. Shown'
  <2>1. CASE cstate' = "Ready"
    <3>1. UNCHANGED <<cstate, cgen, applied>> /\ cstate = "Ready"
      BY <2>1
    <3>2. /\ cgen \in Conn /\ handler[cgen] # "none"
          /\ generation = cgen => applied <= version
          /\ \A m \in UnderWay(cgen) : Versioned(m) => m.ver >= applied
      BY <1>1, <3>1 DEF OInv, Shown
    <3>3. cgen' # 0 /\ handler'[cgen'] # "none"
      BY <3>1, <3>2 DEF Conn
    <3>4. generation' = cgen' => applied' <= version'
      BY <1>1, <3>1, <3>2
    <3>5. PICK k \in Conn : k = cgen
      BY <3>2
    <3>6. ASSUME NEW m \in UnderWay(k)', Versioned(m)
          PROVE  m.ver >= applied
      <4>1. CASE m \in UnderWay(k)
        BY <3>2, <3>5, <3>6, <4>1
      <4>2. CASE m \notin UnderWay(k)
        <5>1. k = generation /\ m.ver = version'
          BY <3>6, <4>2 DEF Told
        <5>2. ~(UnderWay(k)' \subseteq UnderWay(k))
          BY <3>6, <4>2
        <5>3. version <= version'
          BY <5>2
        <5>4. applied <= version
          BY <3>2, <3>5, <5>1
        <5> QED
          BY <1>1, <5>1, <5>3, <5>4
      <4> QED
        BY <4>1, <4>2
    <3>7. k = cgen'
      BY <3>1, <3>5
    <3> QED
      BY <3>1, <3>3, <3>4, <3>6, <3>7 DEF Shown, UnderWay
  <2> QED
    BY <2>1 DEF Shown
<1>6. Floored'
  BY DEF OInv, Floored
<1> QED
  BY <1>3, <1>4, <1>5, <1>6 DEF OInv

(* A minute is told to the client that is ready.                           *)
LEMMA TickOrdered == ASSUME OInv, Tick PROVE Ordered' /\ Told
<1>1. /\ version' = version + 1 /\ version \in Nat /\ active \in Conn
      /\ UNCHANGED down
  BY DEF OInv, Typed, TypeOK, Tick, wire
<1>2. /\ version + 1 \in Nat /\ version <= version'
  BY <1>1
<1>3. Clock(version + 1) \in ServerMessage /\ Clock(version + 1).ver = version'
  BY <1>1, <1>2, Messages DEF Clock
<1>4. ASSUME NEW a \in Action, NEW t \in {"action_started", "action_ended"},
             Enqueue(active, "clock", <<Clock(version + 1), About(t, a)>>)
      PROVE  Ordered' /\ Told
  <2>1. About(t, a) \in ServerMessage /\ About(t, a).ver = version'
    BY <1>1, Messages DEF About
  <2>2. PICK c, d \in ServerMessage : c = Clock(version + 1) /\ d = About(t, a)
    BY <1>3, <2>1
  <2>3. /\ <<c, d>> \in Seq(ServerMessage)
        /\ \A i \in DOMAIN <<c, d>> : <<c, d>>[i].ver = version'
    BY <1>3, <2>1, <2>2
  <2>4. Enqueue(active, "clock", <<c, d>>)
    BY <1>4, <2>2
  <2> QED
    BY <1>1, <1>2, <2>3, <2>4, Queues
<1>5. ASSUME Enqueue(active, "clock", <<Clock(version + 1)>>)
      PROVE  Ordered' /\ Told
  <2>1. PICK c \in ServerMessage : c = Clock(version + 1)
    BY <1>3
  <2>2. /\ <<c>> \in Seq(ServerMessage)
        /\ \A i \in DOMAIN <<c>> : <<c>>[i].ver = version'
    BY <1>3, <2>1
  <2>3. Enqueue(active, "clock", <<c>>)
    BY <1>5, <2>1
  <2> QED
    BY <1>1, <1>2, <2>2, <2>3, Queues
<1> QED
  BY <1>4, <1>5 DEF Tick, Minute, Change

(* Whatever the handler answers, it answers with what is now.              *)
LEMMA HandleOrdered == ASSUME OInv, NEW k \in Conn, Handle(k) PROVE Ordered' /\ Told
<1>1. /\ version \in Nat /\ UNCHANGED down
  BY DEF OInv, Typed, TypeOK, Handle, ReceiveRepeat, ReceiveRefused, ReceiveHello,
         ReceiveRegistry, ReceiveReady, ReceiveMovement, ReceiveControl, Receive
<1>2. version' = version \/ (ReceiveMovement(k) /\ version' = version + 1)
  BY DEF Handle, ReceiveRepeat, ReceiveRefused, ReceiveHello, ReceiveRegistry, ReceiveReady,
         ReceiveMovement, ReceiveControl, Receive, authority
<1>3. version' \in Nat /\ version <= version'
  BY <1>1, <1>2
<1>4. ASSUME UNCHANGED sendq PROVE Ordered' /\ Told
  <2>1. \A j \in Conn : \A i \in DOMAIN down'[j] : i \in DOMAIN down[j] /\ down'[j][i] = down[j][i]
    BY <1>1
  <2>2. Ordered' /\ \A j \in Conn : UnderWay(j)' \subseteq UnderWay(j)
    BY <1>4, <2>1, LosesOrder DEF OInv
  <2> QED
    BY <2>2 DEF Told
<1>5. ASSUME NEW c \in ServerMessage, Versioned(c) => c.ver = version',
             Enqueue(k, "handler", <<c>>)
      PROVE  Ordered' /\ Told
  <2>1. /\ <<c>> \in Seq(ServerMessage)
        /\ \A i \in DOMAIN <<c>> : Versioned(<<c>>[i]) => <<c>>[i].ver = version'
    BY <1>5
  <2> QED
    BY <1>1, <1>3, <1>5, <2>1, Queues
<1>6. ASSUME NEW c \in ServerMessage, NEW d \in ServerMessage, c.ver = version', d.ver = version',
             Enqueue(k, "handler", <<c, d>>)
      PROVE  Ordered' /\ Told
  <2>1. /\ <<c, d>> \in Seq(ServerMessage)
        /\ \A i \in DOMAIN <<c, d>> : Versioned(<<c, d>>[i]) => <<c, d>>[i].ver = version'
    BY <1>6
  <2> QED
    BY <1>1, <1>3, <1>6, <2>1, Queues
<1>7. /\ Snapshot \in ServerMessage /\ Snapshot.ver = version
      /\ Clock(version) \in ServerMessage /\ Clock(version).ver = version
      /\ [type |-> "repeat"] \in ServerMessage /\ ~Versioned([type |-> "repeat"])
  BY <1>1, Messages DEF Snapshot, Clock, Versioned
<1>8. CASE ReceiveRepeat(k)
  <2>1. UNCHANGED sendq \/ Enqueue(k, "handler", <<[type |-> "repeat"]>>)
    BY <1>8 DEF ReceiveRepeat, Enqueue
  <2> QED
    BY <1>4, <1>5, <1>7, <2>1
<1>9. CASE ReceiveRefused(k)
  BY <1>4, <1>9 DEF ReceiveRefused
<1>10. CASE ReceiveHello(k)
  <2>1. /\ [type |-> "server_hello", ver |-> version] \in ServerMessage
        /\ [type |-> "server_hello", ver |-> version].ver = version
    BY <1>1, Messages
  <2>2. /\ Enqueue(k, "handler", <<[type |-> "server_hello", ver |-> version]>>)
        /\ version' = version
    BY <1>10 DEF ReceiveHello, authority
  <2> QED
    BY <1>5, <2>1, <2>2
<1>11. CASE ReceiveRegistry(k)
  <2>1. PICK accepted \in Registries :
          LET result == [type |-> "asset_registry_result", ver |-> version,
                         accepted |-> accepted]
          IN  \/ Enqueue(k, "handler", <<result, Snapshot>>)
              \/ Enqueue(k, "handler", <<result>>)
    BY <1>11 DEF ReceiveRegistry
  <2>2. accepted \in BOOLEAN /\ version' = version
    BY <1>11, BridgeConstants DEF BridgeConstants, ReceiveRegistry, authority
  <2> DEFINE result == [type |-> "asset_registry_result", ver |-> version, accepted |-> accepted]
  <2>3. result \in ServerMessage /\ result.ver = version
    BY <1>1, <2>2, Messages
  <2>4. Enqueue(k, "handler", <<result, Snapshot>>) \/ Enqueue(k, "handler", <<result>>)
    BY <2>1
  <2> HIDE DEF result
  <2> QED
    BY <1>5, <1>6, <1>7, <2>2, <2>3, <2>4
<1>12. CASE ReceiveReady(k)
  <2>1. Enqueue(k, "handler", <<Clock(version)>>) /\ version' = version
    BY <1>12 DEF ReceiveReady, authority
  <2> QED
    BY <1>5, <1>7, <2>1
<1>13. CASE ReceiveMovement(k)
  <2> DEFINE m == Head(up[k])
  <2>1. m.action \in Action
    <3>1. up[k] \in Seq(ClientMessage) /\ up[k] # << >>
      BY <1>13 DEF OInv, Typed, TypeOK, ReceiveMovement, Receive, Take
    <3>2. m \in ClientMessage /\ m.type \in Movements
      BY <1>13, <3>1 DEF ReceiveMovement, Receive
    <3> QED
      BY <3>2, Reported
  <2>2. CASE Accepted(m)
    <3>1. \A t \in {"agent_state_delta", "action_ended"} :
            About(t, m.action) \in ServerMessage /\ About(t, m.action).ver = version + 1
      BY <1>1, <2>1, Messages DEF About
    <3>2. /\ version' = version + 1
          /\ \E t \in {"agent_state_delta", "action_ended"} :
               Enqueue(k, "handler", <<About(t, m.action)>>)
      BY <1>13, <2>2 DEF ReceiveMovement
    <3> HIDE DEF m
    <3> QED
      BY <1>5, <3>1, <3>2
  <2>3. CASE ~Accepted(m)
    <3>1. Enqueue(k, "handler", <<Snapshot>>) /\ version' = version
      BY <1>13, <2>3 DEF ReceiveMovement, authority
    <3> QED
      BY <1>5, <1>7, <3>1
  <2> QED
    BY <2>2, <2>3
<1>14. CASE ReceiveControl(k)
  <2>1. Enqueue(k, "handler", <<Clock(version)>>) /\ version' = version
    BY <1>14 DEF ReceiveControl, authority
  <2> QED
    BY <1>5, <1>7, <2>1
<1> QED
  BY <1>8, <1>9, <1>10, <1>11, <1>12, <1>13, <1>14 DEF Handle

(* The server's steps.                                                     *)
LEMMA ServerKeeps ==
  ASSUME OInv, IInv', Typed',
         \/ Tick \/ SendNext
         \/ \E k \in Conn : OpenSession(k) \/ Handle(k) \/ HandlerEnds(k)
  PROVE  OInv'
<1>1. /\ version \in Nat /\ handler \in [Conn -> {"none", "serving", "closing", "done"}]
      /\ sendq \in Seq(Batches)
  BY WayTyped DEF OInv, IInv, Types
<1>2. UNCHANGED <<cstate, cgen, applied, floor, inflight>>
  BY DEF Tick, SendNext, OpenSession, Handle, HandlerEnds, ReceiveRepeat, ReceiveRefused,
         ReceiveHello, ReceiveRegistry, ReceiveReady, ReceiveMovement, ReceiveControl, Receive,
         client, reconnecting
<1>3. ASSUME UNCHANGED <<sendq, down>>
      PROVE  Ordered' /\ Told /\ \A j \in Conn : UnderWay(j)' \subseteq UnderWay(j)
  <2>1. \A j \in Conn : \A i \in DOMAIN down'[j] : i \in DOMAIN down[j] /\ down'[j][i] = down[j][i]
    BY <1>3
  <2>2. Ordered' /\ \A j \in Conn : UnderWay(j)' \subseteq UnderWay(j)
    BY <1>3, <2>1, LosesOrder DEF OInv
  <2> QED
    BY <2>2 DEF Told
<1>4. CASE Tick
  <2>1. UNCHANGED <<handler, generation>> /\ version <= version'
    BY <1>1, <1>4 DEF Tick, gate
  <2> QED
    BY <1>2, <1>4, <2>1, TickOrdered, Settles
<1>5. CASE SendNext
  <2>1. Ordered' /\ \A j \in Conn : UnderWay(j)' \subseteq UnderWay(j)
    BY <1>5, QueueSends DEF OInv
  <2>2. Told
    BY <2>1 DEF Told
  <2>3. /\ UNCHANGED <<version, generation>>
        /\ \A j \in Conn : handler'[j] = "none" => handler[j] = "none"
    BY <1>1, <1>5 DEF SendNext, Leave, authority, gate
  <2>4. version <= version'
    BY <1>1, <2>3
  <2> QED
    BY <1>2, <2>1, <2>2, <2>3, <2>4, Settles
<1>6. ASSUME NEW k \in Conn, OpenSession(k) PROVE OInv'
  <2>1. Ordered' /\ Told /\ \A j \in Conn : UnderWay(j)' \subseteq UnderWay(j)
    BY <1>3, <1>6 DEF OpenSession, wire
  <2>2. /\ generation' = k /\ handler[generation'] = "none"
        /\ \A j \in Conn : handler'[j] = "none" => handler[j] = "none"
    BY <1>1, <1>6 DEF OpenSession
  <2> QED
    BY <1>2, <2>1, <2>2, Settles
<1>7. ASSUME NEW k \in Conn, Handle(k) PROVE OInv'
  <2>1. Ordered' /\ Told
    BY <1>7, HandleOrdered
  <2>2. /\ UNCHANGED generation /\ version <= version'
        /\ \A j \in Conn : handler'[j] = "none" => handler[j] = "none"
    BY <1>1, <1>7
       DEF Handle, ReceiveRepeat, ReceiveRefused, ReceiveHello, ReceiveRegistry, ReceiveReady,
           ReceiveMovement, ReceiveControl, Receive, authority, gate
  <2> QED
    BY <1>2, <2>1, <2>2, Settles
<1>8. ASSUME NEW k \in Conn, HandlerEnds(k) PROVE OInv'
  <2>1. Ordered' /\ Told
    BY <1>3, <1>8 DEF HandlerEnds, wire
  <2>2. /\ UNCHANGED <<version, generation>>
        /\ \A j \in Conn : handler'[j] = "none" => handler[j] = "none"
    BY <1>1, <1>8 DEF HandlerEnds, Leave, authority
  <2>3. version <= version'
    BY <1>1, <2>2
  <2> QED
    BY <1>2, <2>1, <2>2, <2>3, Settles
<1> QED
  BY <1>4, <1>5, <1>6, <1>7, <1>8

(* The steps of the client's connection, and the faults.                   *)
LEMMA ConnectionKeeps ==
  ASSUME OInv, IInv', Typed',
         \/ Connect \/ Connected \/ ConnectFails \/ SendHello
         \/ NoticeEnd \/ HandshakeTimeout \/ ReconnectDelay
         \/ \E a \in Action, n \in Agent, r \in Reports : Report(a, n, r)
         \/ \E c \in Controls : RequestClock(c)
         \/ ConnectionLost \/ Retransmit \/ UNCHANGED vars
  PROVE  OInv'
<1>1. Carried /\ version \in Nat
  BY Split DEF OInv, Types
<1>2. UNCHANGED <<version, generation, handler, sendq>>
  BY DEF Connect, Connected, ConnectFails, SendHello, NoticeEnd, HandshakeTimeout, ReconnectDelay,
         Report, RequestClock, ConnectionLost, Retransmit, vars, server, authority, gate
<1>3. \A j \in Conn : \A i \in DOMAIN down'[j] : i \in DOMAIN down[j] /\ down'[j][i] = down[j][i]
  <2>1. CASE ConnectionLost \/ HandshakeTimeout
    <3>1. PICK d \in Prefixes(down[cgen]) : down' = [down EXCEPT ![cgen] = d]
      BY <2>1 DEF ConnectionLost, HandshakeTimeout, Lose
    <3> SUFFICES ASSUME NEW j \in Conn, NEW i \in DOMAIN down'[j]
                 PROVE  i \in DOMAIN down[j] /\ down'[j][i] = down[j][i]
      OBVIOUS
    <3>2. down[j] \in Seq(ServerMessage)
      BY <1>1 DEF Carried
    <3>3. CASE j = cgen
      <4>1. down'[j] = d /\ d \in Prefixes(down[j])
        BY <1>1, <3>1, <3>3 DEF Carried
      <4> QED
        BY <3>2, <4>1, Prefix
    <3>4. CASE j # cgen
      BY <1>1, <3>1, <3>4 DEF Carried
    <3> QED
      BY <3>3, <3>4
  <2>2. CASE ~(ConnectionLost \/ HandshakeTimeout)
    <3>1. UNCHANGED down
      BY <2>2 DEF Connect, Connected, ConnectFails, SendHello, NoticeEnd, ReconnectDelay,
         Report, RequestClock, Retransmit, vars, wire
    <3> QED
      BY <3>1
  <2> QED
    BY <2>1, <2>2
<1>4. Ordered' /\ Told
  <2>1. Ordered' /\ \A j \in Conn : UnderWay(j)' \subseteq UnderWay(j)
    BY <1>2, <1>3, LosesOrder DEF OInv
  <2> QED
    BY <2>1 DEF Told
<1>5. \/ UNCHANGED <<cstate, cgen, applied, floor, inflight>>
      \/ /\ cstate' # "Ready" /\ UNCHANGED applied
         /\ (cstate # "Ready" /\ UNCHANGED floor) \/ applied <= floor'
         /\ inflight' => cstate' \in {"Connecting", "Reconnecting"}
  <2>1. applied \in Nat \cup {-1} /\ floor \in Nat \cup {-1} /\ Floored
    BY <1>1 DEF Carried, OInv
  <2>2. CASE Connect
    BY <2>1, <2>2 DEF Connect
  <2>3. CASE SendHello
    BY <2>1, <2>3 DEF SendHello, Floored
  <2>4. CASE ConnectFails \/ NoticeEnd \/ HandshakeTimeout
    BY <2>1, <2>4 DEF ConnectFails, NoticeEnd, HandshakeTimeout, TransportEnded, Floored,
       HandshakeStates
  <2> QED
    BY <2>2, <2>3, <2>4
       DEF Connected, ReconnectDelay, Report, RequestClock, ConnectionLost, Retransmit, vars,
           client, reconnecting
<1>6. version <= version'
  BY <1>1, <1>2
<1> QED
  BY <1>2, <1>4, <1>5, <1>6, Settles

(* A restart of the server leaves it without a current connection.         *)
LEMMA RestartKeeps == ASSUME OInv, IInv', Typed', ServerRestart PROVE OInv'
<1>1. /\ UNCHANGED <<down, cstate, cgen, applied, floor, inflight>>
      /\ sendq' = << >> /\ generation' = None
      /\ \A j \in Conn : handler'[j] = "none" => handler[j] = "none"
  BY DEF ServerRestart, client, reconnecting
<1>2. Ordered' /\ \A j \in Conn : UnderWay(j)' \subseteq UnderWay(j)
  BY <1>1, LosesOrder DEF OInv
<1>3. Told
  BY <1>2 DEF Told
<1> QED
  BY <1>1, <1>2, <1>3, Settles

(* The client's reaction to a message.                                     *)
LEMMA ProcessKeeps == ASSUME OInv, IInv', Typed', NEW k \in Conn, Process(k) PROVE OInv'
<1>1. Deliver(k)
  BY DEF Process, Ignore, Apply, ApplyServerHello, ApplyRegistryResult, ApplyWorldSnapshot,
         ApplyStateMessage
<1>2. /\ Ordered'
      /\ \A j \in Conn : UnderWay(j)' \subseteq UnderWay(j)
      /\ Head(down[k]) \in UnderWay(k)
      /\ \A m \in UnderWay(k)' : NotAfter(Head(down[k]), m)
  BY <1>1, WireDelivers DEF OInv
<1>3. Told
  BY <1>2 DEF Told
<1>4. UNCHANGED <<version, generation, handler, cgen, floor, inflight>>
  BY <1>1 DEF Deliver, server, authority, gate
<1>5. version \in Nat /\ version <= version'
  BY <1>4 DEF OInv, IInv, Types
<1>6. CASE Ignore(k) \/ ApplyServerHello(k) \/ ApplyRegistryResult(k)
  <2>1. \/ UNCHANGED <<cstate, applied>>
        \/ /\ cstate' # "Ready" /\ cstate # "Ready" /\ UNCHANGED applied
           /\ cstate \notin {"Connecting", "Reconnecting"}
    BY <1>6 DEF Ignore, ApplyServerHello, ApplyRegistryResult, Apply, Applies
  <2>2. cstate \notin {"Connecting", "Reconnecting"} => ~inflight
    BY DEF OInv, Floored
  <2> QED
    BY <1>2, <1>3, <1>4, <1>5, <2>1, <2>2, Settles
<1>7. CASE ApplyWorldSnapshot(k) \/ ApplyStateMessage(k)
  <2> DEFINE h == Head(down[k])
  <2>1. /\ k = cgen /\ Versioned(h) /\ applied' = h.ver /\ cstate' = "Ready"
    BY <1>7 DEF ApplyWorldSnapshot, ApplyStateMessage, Apply, OfThisConnection, Applies, Versioned
  <2>2. ~inflight
    <3>1. cstate \in {"AwaitingWorldSnapshot", "Ready"}
      BY <1>7 DEF ApplyWorldSnapshot, ApplyStateMessage, Apply, Applies
    <3> QED
      BY <3>1 DEF OInv, Floored
  <2>3. Floored'
    BY <1>4, <2>1, <2>2 DEF Floored
  <2>4. NotAhead'
    BY <1>2, <1>4 DEF OInv, NotAhead
  <2>5. Fresh'
    BY <1>2, <1>4 DEF OInv, Fresh
  <2>6. Shown'
    <3>1. handler[k] # "none" /\ (generation = k => h.ver <= version)
      BY <1>2, <2>1 DEF OInv, Fresh, NotAhead
    <3>2. \A m \in UnderWay(k)' : Versioned(m) => m.ver >= h.ver
      <4>1. ASSUME NEW m \in UnderWay(k)', Versioned(m) PROVE m.ver >= h.ver
        <5>1. h.ver <= m.ver
          BY <1>2, <2>1, <4>1 DEF NotAfter
        <5>2. h.ver \in Nat /\ m.ver \in Nat
          BY <1>2, <2>1, <4>1, WayTyped, Messages DEF OInv
        <5> QED
          BY <5>1, <5>2
      <4> QED
        BY <4>1
    <3>3. k = cgen' /\ k # 0
      BY <1>4, <2>1 DEF Conn
    <3> HIDE DEF h
    <3> QED
      BY <1>4, <2>1, <3>1, <3>2, <3>3 DEF Shown, UnderWay
  <2> QED
    BY <1>2, <2>3, <2>4, <2>5, <2>6 DEF OInv
<1> QED
  BY <1>6, <1>7 DEF Process

(* Every step keeps the order.                                             *)
LEMMA OrderKeeps == ASSUME OInv, [Next]_vars PROVE OInv'
<1>1. IInv' /\ Typed'
  BY Keeps, TypedKeeps DEF OInv
<1> QED
  BY <1>1, ServerKeeps, ConnectionKeeps, RestartKeeps, ProcessKeeps DEF Next

(* OInv holds always: every version under way to a connection is in        *)
(* order, none is ahead of the authority's on the newest connection, and   *)
(* none is behind what a ready client shows.                               *)
THEOREM OrderInvariant == Spec => []OInv
<1>1. Init => OInv
  BY InitiallyInOrder
<1>2. OInv /\ [Next]_vars => OInv'
  BY OrderKeeps
<1> QED
  BY <1>1, <1>2, PTL DEF Spec

(* InOrder holds always: the handler's answers and the clock loop's        *)
(* minutes, however they take turns on the send lock, reach the client in  *)
(* the order of the versions they tell of, so that its stale check drops   *)
(* nothing it has not seen.                                                *)
THEOREM SentInOrder == Spec => []InOrder
<1>1. OInv => InOrder
  <2> SUFFICES ASSUME OInv PROVE InOrder
    OBVIOUS
  <2> SUFFICES ASSUME NEW k \in Conn, NEW b \in 0 .. Len(sendq), NEW c \in 0 .. Len(sendq),
                      NEW i \in DOMAIN Stretch(k, b), NEW j \in DOMAIN Stretch(k, c)
               PROVE  /\ b < c \/ (b = c /\ i < j)
                           => NotAfter(Stretch(k, b)[i], Stretch(k, c)[j])
                      /\ k = cgen /\ cstate = "Ready" /\ Versioned(Stretch(k, c)[j])
                           => Stretch(k, c)[j].ver >= applied
    BY DEF InOrder
  <2>1. /\ sendq \in Seq(Batches)
        /\ \A d \in 0 .. Len(sendq) : d # 0 => d \in DOMAIN sendq
    <3>1. sendq \in Seq(Batches)
      BY WayTyped DEF OInv
    <3> QED
      BY <3>1
  <2>2. \A d \in 0 .. Len(sendq) : d # 0 => \A l \in DOMAIN Stretch(k, d) :
          sendq[d].conn = k /\ Stretch(k, d) = sendq[d].msgs
    BY DEF Stretch
  <2>3. Stretch(k, 0) = down[k]
    BY DEF Stretch
  <2>4. ASSUME b < c \/ (b = c /\ i < j)
        PROVE  NotAfter(Stretch(k, b)[i], Stretch(k, c)[j])
    <3>1. CASE b = 0 /\ c = 0
      BY <2>3, <2>4, <3>1 DEF OInv, Ordered, LineOrdered
    <3>2. CASE b = 0 /\ c # 0
      BY <2>1, <2>2, <2>3, <3>2 DEF OInv, Ordered, LineFirst
    <3>3. CASE b # 0 /\ b = c
      BY <2>1, <2>2, <2>4, <3>3 DEF OInv, Ordered, BatchOrdered
    <3>4. CASE b # 0 /\ b < c
      BY <2>1, <2>2, <3>4 DEF OInv, Ordered, QueueOrdered
    <3> QED
      BY <2>4, <3>1, <3>2, <3>3, <3>4
  <2>5. ASSUME k = cgen, cstate = "Ready", Versioned(Stretch(k, c)[j])
        PROVE  Stretch(k, c)[j].ver >= applied
    <3>1. Stretch(k, c)[j] \in UnderWay(k)
      BY <2>1, <2>2, <2>3 DEF UnderWay
    <3> QED
      BY <2>5, <3>1 DEF OInv, Shown
  <2> QED
    BY <2>4, <2>5
<1> QED
  BY <1>1, OrderInvariant, PTL

-----------------------------------------------------------------------------
(* Every message counts at most once.                                      *)

(* What the client shows is never replaced by something older.             *)
LEMMA ShowsNoOlder == ASSUME OInv, [Next]_vars PROVE applied' >= applied
<1>1. Carried
  BY Split DEF OInv
<1>2. applied \in Int
  BY <1>1 DEF Carried
<1>3. CASE UNCHANGED applied
  BY <1>2, <1>3
<1>4. ASSUME NEW k \in Conn, ApplyWorldSnapshot(k) \/ ApplyStateMessage(k)
      PROVE  applied' >= applied
  <2> DEFINE h == Head(down[k])
  <2>1. /\ Deliver(k) /\ k = cgen /\ applied' = h.ver /\ Versioned(h)
        /\ \/ cstate = "AwaitingWorldSnapshot" /\ h.ver >= floor
           \/ cstate = "Ready"
    BY <1>4 DEF ApplyWorldSnapshot, ApplyStateMessage, Apply, OfThisConnection, Applies, Versioned
  <2>2. h \in UnderWay(k) /\ h.ver \in Nat
    BY <2>1, WireDelivers, WayTyped, Messages DEF OInv
  <2>3. CASE cstate = "Ready"
    BY <2>1, <2>2, <2>3 DEF OInv, Shown
  <2>4. CASE cstate # "Ready"
    <3>1. applied <= floor /\ floor \in Int /\ h.ver >= floor
      BY <1>1, <2>1, <2>4 DEF Carried, OInv, Floored
    <3> HIDE DEF h
    <3> QED
      BY <1>2, <2>1, <2>2, <3>1
  <2> QED
    BY <2>3, <2>4
<1>5. UNCHANGED applied \/ \E k \in Conn : ApplyWorldSnapshot(k) \/ ApplyStateMessage(k)
  BY DEF Next, Tick, SendNext, OpenSession, HandlerEnds, Handle, ReceiveRepeat, ReceiveRefused,
         ReceiveHello, ReceiveRegistry, ReceiveReady, ReceiveMovement, ReceiveControl, Receive,
         Process, Ignore, ApplyServerHello, ApplyRegistryResult, Connect, Connected, ConnectFails,
         SendHello, NoticeEnd, HandshakeTimeout, ReconnectDelay, Report, RequestClock,
         ConnectionLost, Retransmit, ServerRestart, vars, client
<1> QED
  BY <1>3, <1>4, <1>5

(* A repeated message is taken off the wire by ReceiveRepeat alone.        *)
LEMMA RepeatsAside ==
  ASSUME OInv, [Next]_vars, UNCHANGED faults, NEW k \in Conn, k = generation,
         up[k] # << >>, up'[k] = Tail(up[k]), Head(up[k]).again
  PROVE  UNCHANGED <<authority, clock, handler, session>>
<1>1. /\ up \in [Conn -> Seq(ClientMessage)] /\ up[k] \in Seq(ClientMessage)
      /\ faults \in Faults
  BY Split DEF OInv, Carried
<1>2. up'[k] # up[k]
  BY <1>1, TakenOff
<1>3. ASSUME NEW m, Send(m)
      PROVE  FALSE
  <2>1. up'[k] = Append(up[k], m) \/ up'[k] = up[k]
    BY <1>1, <1>3 DEF Send
  <2>2. Len(Append(up[k], m)) = Len(up[k]) + 1 /\ Len(Tail(up[k])) = Len(up[k]) - 1
        /\ Len(up[k]) \in Nat
    BY <1>1, TakenOff
  <2>3. \A n \in Nat : n + 1 # n - 1
    OBVIOUS
  <2> QED
    BY <1>2, <2>1, <2>2, <2>3
<1>4. ASSUME NEW f, f \in {faults.cuts, faults.restarts} PROVE f + 1 # f
  BY <1>1, <1>4 DEF Faults
<1>5. ~ConnectionLost /\ ~HandshakeTimeout /\ ~ServerRestart
  BY <1>1, <1>4 DEF Faults, ConnectionLost, HandshakeTimeout, ServerRestart
<1>6. ~SendHello /\ ~Retransmit
  BY <1>3 DEF SendHello, Retransmit
<1>7. /\ ~\E a \in Action, n \in Agent, r \in Reports : Report(a, n, r)
      /\ ~\E c \in Controls : RequestClock(c)
  BY <1>3 DEF Report, RequestClock
<1>8. ASSUME NEW j \in Conn PROVE ~Process(j)
  <2>1. ~ApplyServerHello(j)
    BY <1>3 DEF ApplyServerHello
  <2>2. ~ApplyWorldSnapshot(j)
    BY <1>2, <1>3 DEF ApplyWorldSnapshot
  <2>3. ~Ignore(j) /\ ~ApplyRegistryResult(j) /\ ~ApplyStateMessage(j)
    BY <1>2 DEF Ignore, ApplyRegistryResult, ApplyStateMessage
  <2> QED
    BY <2>1, <2>2, <2>3 DEF Process
<1>9. ASSUME NEW j \in Conn, Handle(j)
      PROVE  UNCHANGED <<authority, clock, handler, session>>
  <2>1. Take(j)
    BY <1>9 DEF Handle, ReceiveRepeat, ReceiveRefused, ReceiveHello, ReceiveRegistry, ReceiveReady,
           ReceiveMovement, ReceiveControl, Receive
  <2>2. j = k
    BY <1>1, <1>2, <2>1 DEF Take
  <2>3. Seen(Head(up[j])) /\ Current(j)
    BY <2>2 DEF Seen, Current
  <2>4. ReceiveRepeat(j)
    BY <1>9, <2>3 DEF Handle, ReceiveRefused, ReceiveHello, ReceiveRegistry, ReceiveReady,
           ReceiveMovement, ReceiveControl, Receive
  <2> QED
    BY <2>4 DEF ReceiveRepeat
<1> QED
  BY <1>2, <1>5, <1>6, <1>7, <1>8, <1>9
     DEF Next, Tick, SendNext, OpenSession, HandlerEnds, Connect, Connected, ConnectFails,
         NoticeEnd, ReconnectDelay, vars, wire

(* AppliedOnce holds of every step: the client never shows an older        *)
(* version than it has shown, on this connection or a later one, and the   *)
(* server takes a repeated message for what it is, without a change of     *)
(* the world, the clock or the session.                                    *)
THEOREM NothingTwiceApplied == Spec => AppliedOnce
<1>1. OInv /\ [Next]_vars => [applied' >= applied]_vars
  BY ShowsNoOlder
<1>2. OInv /\ [Next]_vars =>
        [\A k \in Conn :
           /\ k = generation /\ up[k] # << >> /\ up'[k] = Tail(up[k])
           /\ Head(up[k]).again /\ UNCHANGED faults
           => UNCHANGED <<authority, clock, handler, session>>]_vars
  BY RepeatsAside
<1> QED
  BY <1>1, <1>2, OrderInvariant, PTL DEF Spec, AppliedOnce, NeverOlder, RepeatIsNoOp

-----------------------------------------------------------------------------
(* Nobody is forgotten.                                                    *)

Traveling == {a \in Action : trip[a].phase = "TRAVELING"}
Served(k) == link[k] = "up" /\ handler[k] = "serving"

(* The server follows the client's numbering of the connections; of those  *)
(* to come it knows nothing yet.                                           *)
Newest == \A k \in Conn : handler[k] # "none" => k <= generation
Unopened == \A k \in Conn : k > cgen => up[k] = << >> /\ session[k].phase # "READY"
Attended == \A k \in Conn : handler[k] = "serving" => session[k].phase # "DISCONNECTED"

(* Before a client has applied its first snapshot on a connection nobody   *)
(* takes it for ready.                                                     *)
Unready ==
  \A k \in Conn : k = cgen /\ (inflight \/ cstate \in HandshakeStates) =>
    /\ session[k].phase # "READY"
    /\ \A i \in DOMAIN up[k] : up[k][i].type # "client_ready"

(* Only what has ended is said to have ended.                              *)
EndsTold ==
  \A k \in Conn : \A m \in UnderWay(k) :
    m.type = "action_ended" => trip[m.action].phase = "ENDED"

(* The snapshot a client is offered names the trips under way, as the      *)
(* world waits for the client.                                             *)
Offers ==
  \A k \in Conn : k = generation /\ session[k].phase \in Phases \ {"READY", "DISCONNECTED"} =>
    \A m \in UnderWay(k) : m.type = "world_snapshot" =>
      session[k].phase = "AWAITING_CLIENT_READY" /\ m.traveling = Traveling

(* A ready client has caught up with what it showed before.                *)
Level == cstate = "Ready" => floor <= applied

Names(m, a) == \/ m.type = "action_started" /\ m.action = a
               \/ m.type = "world_snapshot" /\ a \in m.traveling
Accounts(m, a, n) == m.type \in Movements /\ ~m.again /\ m.action = a /\ m.agent = n

(* Whoever the authority waits for is walking, is about to be sent off, or  *)
(* has reported.                                                           *)
Remembered ==
  \A k \in Conn : k = cgen /\ cstate = "Ready" /\ Served(k) =>
    \A a \in Traveling : \A n \in Party[a] \ trip[a].arrived :
      \/ <<a, n>> \in walking
      \/ \E m \in UnderWay(k) : Names(m, a)
      \/ \E i \in DOMAIN up[k] : Accounts(up[k][i], a, n)

(* After a snapshot that does not name a trip the client is told of its    *)
(* start.                                                                  *)
ToldAfter ==
  \A k \in Conn : k = cgen /\ cstate = "Ready" /\ Served(k) =>
    \A a \in Traveling : \A s \in UnderWay(k) :
      s.type = "world_snapshot" /\ a \notin s.traveling =>
        \E m \in UnderWay(k) : m.type = "action_started" /\ m.action = a /\ s.ver < m.ver

Kept == /\ Newest /\ Unopened /\ Attended /\ Unready /\ EndsTold /\ Offers
        /\ Level /\ Remembered /\ ToldAfter

(* Initially no connection is served.                                      *)
LEMMA InitiallyKept == Init => Kept
<1> SUFFICES ASSUME Init PROVE Kept
  OBVIOUS
<1>1. /\ sendq = << >> /\ \A k \in Conn : down[k] = << >>
  BY DEF Init
<1>2. \A k \in Conn : UnderWay(k) = {}
  BY <1>1 DEF UnderWay
<1>3. /\ \A k \in Conn : /\ handler[k] = "none" /\ up[k] = << >> /\ link[k] = "none"
                         /\ session[k].phase = "AWAITING_CLIENT_HELLO"
      /\ cstate = "Disconnected" /\ ~inflight
  BY DEF Init
<1> QED
  BY <1>2, <1>3 DEF Kept, Newest, Unopened, Attended, Unready, EndsTold, Offers, Level, Remembered,
     ToldAfter, HandshakeStates

(* A message from the client goes behind those already on its way.         *)
LEMMA Grows ==
  ASSUME Typed, NEW m \in ClientMessage, Send(m)
  PROVE  \A j \in Conn :
           /\ j # cgen \/ link[j] # "up" => up'[j] = up[j]
           /\ \A i \in DOMAIN up[j] : i \in DOMAIN up'[j] /\ up'[j][i] = up[j][i]
           /\ \A i \in DOMAIN up'[j] :
                \/ i \in DOMAIN up[j] /\ up'[j][i] = up[j][i]
                \/ j = cgen /\ up'[j][i] = m
           /\ j = cgen /\ link[j] = "up" => \E i \in DOMAIN up'[j] : up'[j][i] = m
<1>1. up \in [Conn -> Seq(ClientMessage)]
  BY Split DEF Carried
<1> TAKE j \in Conn
<1>2. CASE j = cgen /\ link[j] = "up"
  <2>1. up'[j] = Append(up[j], m) /\ up[j] \in Seq(ClientMessage)
    BY <1>1, <1>2 DEF Send
  <2>2. /\ DOMAIN up'[j] = 1 .. Len(up[j]) + 1 /\ DOMAIN up[j] = 1 .. Len(up[j])
        /\ \A l \in 1 .. Len(up[j]) : up'[j][l] = up[j][l]
        /\ up'[j][Len(up[j]) + 1] = m
        /\ Len(up[j]) \in Nat
    BY <2>1
  <2>3. \A i \in 1 .. Len(up[j]) + 1 : i \in 1 .. Len(up[j]) \/ i = Len(up[j]) + 1
    BY <2>2
  <2>4. Len(up[j]) + 1 \in DOMAIN up'[j] /\ \A i \in DOMAIN up[j] : i \in DOMAIN up'[j]
    BY <2>2
  <2> QED
    BY <1>2, <2>2, <2>3, <2>4
<1>3. CASE ~(j = cgen /\ link[j] = "up")
  BY <1>1, <1>3 DEF Send
<1> QED
  BY <1>2, <1>3

(* The client connects, gives up or is cut off.                            *)
LEMMA Apart ==
  ASSUME Kept, UNCHANGED <<trip, generation, handler, session>>,
         \A j \in Conn : UnderWay(j)' \subseteq UnderWay(j),
         cstate' # "Ready" \/ \A k \in Conn : k = cgen' => link'[k] # "up",
         Unopened', Unready', Level'
  PROVE  Kept'
<1>1. Newest' /\ Attended'
  BY DEF Kept, Newest, Attended
<1>2. EndsTold' /\ Offers'
  BY DEF Kept, EndsTold, Offers, Traveling
<1>3. Remembered' /\ ToldAfter'
  BY DEF Remembered, ToldAfter, Served
<1> QED
  BY <1>1, <1>2, <1>3 DEF Kept

(* A client that connects, gives up or is cut off is not ready and will    *)
(* be offered a snapshot.                                                  *)
LEMMA ApartKeeps ==
  ASSUME OInv, Kept,
         \/ Connect \/ Connected \/ ConnectFails \/ SendHello
         \/ NoticeEnd \/ HandshakeTimeout \/ ReconnectDelay \/ ConnectionLost
  PROVE  Kept'
<1>1. /\ Carried /\ version \in Nat /\ cgen \in {0} \cup Conn
      /\ link \in [Conn -> {"none", "up", "cut"}]
  BY Split DEF OInv, Types
<1>2. UNCHANGED <<trip, generation, handler, session, sendq>>
  BY DEF Connect, Connected, ConnectFails, SendHello, NoticeEnd, HandshakeTimeout, ReconnectDelay,
         ConnectionLost, server, authority, gate
<1>3. /\ \A j \in Conn : \A i \in DOMAIN down'[j] : i \in DOMAIN down[j] /\ down'[j][i] = down[j][i]
      /\ ConnectionLost \/ HandshakeTimeout =>
           \A j \in Conn : /\ \A i \in DOMAIN up'[j] : i \in DOMAIN up[j] /\ up'[j][i] = up[j][i]
                           /\ j # cgen => up'[j] = up[j]
  <2>1. CASE ConnectionLost \/ HandshakeTimeout
    <3>1. PICK u \in Prefixes(up[cgen]), d \in Prefixes(down[cgen]) :
            up' = [up EXCEPT ![cgen] = u] /\ down' = [down EXCEPT ![cgen] = d]
      BY <2>1 DEF ConnectionLost, HandshakeTimeout, Lose
    <3> SUFFICES ASSUME NEW j \in Conn
                 PROVE  /\ \A i \in DOMAIN down'[j] : i \in DOMAIN down[j] /\ down'[j][i] = down[j][i]
                        /\ \A i \in DOMAIN up'[j] : i \in DOMAIN up[j] /\ up'[j][i] = up[j][i]
                        /\ j # cgen => up'[j] = up[j]
      OBVIOUS
    <3>2. down[j] \in Seq(ServerMessage) /\ up[j] \in Seq(ClientMessage)
      BY <1>1 DEF Carried
    <3>3. CASE j = cgen
      <4>1. /\ down'[j] = d /\ d \in Prefixes(down[j])
            /\ up'[j] = u /\ u \in Prefixes(up[j])
        BY <1>1, <3>1, <3>3 DEF Carried
      <4>2. \A i \in DOMAIN d : i \in DOMAIN down[j] /\ d[i] = down[j][i]
        BY <3>2, <4>1, Prefix
      <4>3. \A i \in DOMAIN u : i \in DOMAIN up[j] /\ u[i] = up[j][i]
        BY <3>2, <4>1, Prefix
      <4> QED
        BY <3>3, <4>1, <4>2, <4>3
    <3>4. CASE j # cgen
      BY <1>1, <3>1, <3>4 DEF Carried
    <3> QED
      BY <3>3, <3>4
  <2>2. CASE ~(ConnectionLost \/ HandshakeTimeout)
    <3>1. UNCHANGED down
      BY <2>2 DEF Connect, Connected, ConnectFails, SendHello, NoticeEnd, ReconnectDelay, wire
    <3> QED
      BY <2>2, <3>1
  <2> QED
    BY <2>1, <2>2
<1>4. \A j \in Conn : UnderWay(j)' \subseteq UnderWay(j)
  BY <1>2, <1>3, LosesOrder DEF OInv
<1>5. Floored /\ applied \in Nat \cup {-1} /\ floor \in Nat \cup {-1}
  BY <1>1 DEF OInv, Carried
<1>6. cstate' # "Ready" \/ \A k \in Conn : k = cgen' => link'[k] # "up"
  <2>1. CASE ConnectionLost
    BY <1>1, <2>1 DEF ConnectionLost, Lose, client, reconnecting
  <2>2. CASE Connect \/ Connected \/ SendHello
    BY <1>5, <2>2 DEF Connect, Connected, SendHello, Floored, client, reconnecting
  <2> QED
    BY <2>1, <2>2 DEF ConnectFails, NoticeEnd, HandshakeTimeout, ReconnectDelay, TransportEnded,
       client, reconnecting
<1>7. Level'
  <2>1. CASE ConnectionLost
    BY <2>1 DEF ConnectionLost, client, reconnecting, Kept, Level
  <2>2. CASE ~ConnectionLost
    <3>1. cstate' # "Ready"
      BY <1>5, <2>2 DEF Connect, Connected, ConnectFails, SendHello, NoticeEnd, HandshakeTimeout,
         ReconnectDelay, TransportEnded, Floored, client, reconnecting
    <3> QED
      BY <3>1 DEF Level
  <2> QED
    BY <2>1, <2>2
<1>8. Unopened' /\ Unready'
  <2>1. CASE Connect
    <3>1. /\ cgen' = cgen + 1 /\ UNCHANGED <<up, session>>
      BY <1>2, <2>1 DEF Connect, wire
    <3>2. \A k \in Conn : k > cgen + 1 \/ k = cgen + 1 => k > cgen
      BY <1>1 DEF Conn
    <3>3. \A k \in Conn : k > cgen => DOMAIN up[k] = {}
      BY DEF Kept, Unopened
    <3> QED
      BY <3>1, <3>2, <3>3 DEF Kept, Unopened, Unready
  <2>2. CASE SendHello
    <3>1. Outbound("client_hello", Last) \in ClientMessage
      <4>1. Last \in Nat
        BY <1>1 DEF Carried, Last
      <4> QED
        BY <4>1, Reported
    <3>2. PICK m \in ClientMessage : m = Outbound("client_hello", Last)
      BY <3>1
    <3>3. Send(m) /\ inflight /\ UNCHANGED cgen /\ m.type # "client_ready"
      BY <2>2, <3>2 DEF SendHello, Outbound
    <3>4. Unopened'
      <4>1. \A k \in Conn : k > cgen => k # cgen
        BY <1>1 DEF Conn
      <4> QED
        BY <1>2, <3>3, <4>1, Grows DEF Kept, Unopened, OInv
    <3>5. Unready'
      BY <1>2, <3>3, Grows DEF Kept, Unready, OInv
    <3> QED
      BY <3>4, <3>5
  <2>3. CASE ConnectionLost \/ HandshakeTimeout
    <3>1. \A k \in Conn : k > cgen => k # cgen
      BY <1>1 DEF Conn
    <3>2. Unopened'
      BY <1>2, <1>3, <2>3, <3>1
         DEF ConnectionLost, HandshakeTimeout, client, reconnecting, Kept, Unopened
    <3>3. CASE ConnectionLost
      <4>1. Unready'
        BY <1>2, <1>3, <3>3 DEF ConnectionLost, client, reconnecting, Kept, Unready
      <4> QED
        BY <3>2, <4>1
    <3>4. CASE HandshakeTimeout
      <4>1. ~inflight' /\ cstate' \notin HandshakeStates
        BY <1>5, <3>4 DEF HandshakeTimeout, HandshakeStates, Floored, TransportEnded
      <4> QED
        BY <3>2, <4>1 DEF Unready
    <3> QED
      BY <2>3, <3>3, <3>4
  <2>4. CASE Connected \/ ReconnectDelay
    <3>1. UNCHANGED <<up, cgen, cstate, inflight>>
      BY <2>4 DEF Connected, ReconnectDelay, wire, client, reconnecting
    <3> QED
      BY <1>2, <3>1 DEF Kept, Unopened, Unready
  <2>5. CASE ConnectFails \/ NoticeEnd
    <3>1. UNCHANGED <<up, cgen>> /\ ~inflight' /\ cstate' = "Reconnecting"
      BY <2>5 DEF ConnectFails, NoticeEnd, TransportEnded, wire
    <3> QED
      BY <1>2, <3>1 DEF Kept, Unopened, Unready, HandshakeStates
  <2> QED
    BY <2>1, <2>2, <2>3, <2>4, <2>5
<1> QED
  BY <1>2, <1>4, <1>6, <1>7, <1>8, Apart

(* The client reports, asks, or says again what it said last.              *)
LEMMA SpeaksKeeps ==
  ASSUME OInv, Kept,
         \/ \E a \in Action, n \in Agent, r \in Reports : Report(a, n, r)
         \/ \E c \in Controls : RequestClock(c)
         \/ Retransmit
  PROVE  Kept'
<1>1. /\ Carried /\ Typed /\ cgen \in {0} \cup Conn /\ Last \in Nat
      /\ up \in [Conn -> Seq(ClientMessage)]
  <2>1. Carried
    BY Split DEF OInv
  <2> QED
    BY <2>1 DEF OInv, IInv, Types, Carried, Last
<1>2. UNCHANGED <<server, link, down, cgen, cstate, inflight, floor, applied>>
  BY DEF Report, RequestClock, Retransmit, client, reconnecting
<1>3. \E m \in ClientMessage :
        /\ m.type # "client_ready" \/ (cgen \in Conn /\ \E i \in DOMAIN up[cgen] : up[cgen][i].type = m.type)
        /\ (cgen = 0 /\ UNCHANGED up) \/ Send(m)
        /\ \A w \in walking : w \in walking' \/ Accounts(m, w[1], w[2])
  <2>1. ASSUME NEW a \in Action, NEW n \in Agent, NEW r \in Reports, Report(a, n, r)
        PROVE  \E m \in ClientMessage :
                 /\ m.type # "client_ready"
                 /\ Send(m)
                 /\ \A w \in walking : w \in walking' \/ Accounts(m, w[1], w[2])
    <3> DEFINE m == [type |-> r, ver |-> Last, again |-> FALSE, action |-> a, agent |-> n]
    <3>1. r \in Movements
      BY BridgeConstants DEF BridgeConstants
    <3>2. m \in ClientMessage
      BY <1>1, <3>1, Reported
    <3>3. m.type # "client_ready" /\ Send(m) /\ walking' = walking \ {<<a, n>>}
      BY <2>1, <3>1 DEF Report, Movements
    <3>4. Accounts(m, a, n)
      BY <3>1 DEF Accounts
    <3>5. \A w \in walking : w = <<a, n>> => w[1] = a /\ w[2] = n
      OBVIOUS
    <3> HIDE DEF m
    <3> QED
      BY <3>2, <3>3, <3>4, <3>5
  <2>2. ASSUME NEW c \in Controls, RequestClock(c)
        PROVE  \E m \in ClientMessage :
                 m.type # "client_ready" /\ Send(m) /\ UNCHANGED walking
    <3> DEFINE m == [type |-> c.type, ver |-> Last, again |-> FALSE, value |-> c.value]
    <3>1. c \in Requests
      BY BridgeConstants DEF BridgeConstants
    <3>2. m \in ClientMessage
      BY <1>1, <3>1, Reported
    <3>3. m.type # "client_ready" /\ Send(m) /\ UNCHANGED walking
      BY <2>2, <3>1 DEF RequestClock, Requests, client
    <3> HIDE DEF m
    <3> QED
      BY <3>2, <3>3
  <2>3. CASE Retransmit
    <3>1. cgen \in Conn /\ up[cgen] \in Seq(ClientMessage) /\ up[cgen] # << >>
      BY <1>1, <2>3 DEF Retransmit, Conn
    <3>2. Len(up[cgen]) \in DOMAIN up[cgen] /\ up[cgen][Len(up[cgen])] \in ClientMessage
      BY <3>1
    <3> DEFINE l == up[cgen][Len(up[cgen])]
               m == [l EXCEPT !.again = TRUE]
    <3>3. m \in ClientMessage
      BY <3>2, Reported
    <3>4. m.type = l.type
      BY <3>2 DEF ClientMessage
    <3>5. Send(m) /\ UNCHANGED walking
      BY <2>3 DEF Retransmit, client
    <3>6. \E i \in DOMAIN up[cgen] : up[cgen][i].type = m.type
      BY <3>2, <3>4
    <3> HIDE DEF m
    <3> QED
      BY <3>1, <3>3, <3>5, <3>6
  <2> QED
    BY <2>1, <2>2, <2>3
<1>4. PICK m \in ClientMessage :
        /\ m.type # "client_ready" \/ (cgen \in Conn /\ \E i \in DOMAIN up[cgen] : up[cgen][i].type = m.type)
        /\ (cgen = 0 /\ UNCHANGED up) \/ Send(m)
        /\ \A w \in walking : w \in walking' \/ Accounts(m, w[1], w[2])
  BY <1>3
<1>5. \A j \in Conn :
        /\ j # cgen => up'[j] = up[j]
        /\ \A i \in DOMAIN up[j] : i \in DOMAIN up'[j] /\ up'[j][i] = up[j][i]
        /\ \A i \in DOMAIN up'[j] :
             \/ i \in DOMAIN up[j] /\ up'[j][i] = up[j][i]
             \/ j = cgen /\ up'[j][i] = m
        /\ j = cgen /\ link[j] = "up" => \E i \in DOMAIN up'[j] : up'[j][i] = m
  <2>1. CASE Send(m)
    BY <1>1, <2>1, Grows
  <2>2. CASE cgen = 0 /\ UNCHANGED up
    BY <2>2 DEF Conn
  <2> QED
    BY <1>4, <2>1, <2>2
<1>6. \A j \in Conn : UnderWay(j)' = UnderWay(j)
  BY <1>2 DEF UnderWay, server
<1>7. UNCHANGED <<trip, generation, handler, session, link, cgen, cstate, inflight, floor, applied>>
  BY <1>2 DEF server, authority, gate
<1>8. Newest' /\ Attended' /\ EndsTold' /\ Offers' /\ Level'
  BY <1>6, <1>7 DEF Kept, Newest, Attended, EndsTold, Offers, Level, Traveling
<1>9. Unopened'
  <2>1. \A k \in Conn : k > cgen => k # cgen
    BY <1>1 DEF Conn
  <2> QED
    BY <1>5, <1>7, <2>1 DEF Kept, Unopened
<1>10. Unready'
  <2> SUFFICES ASSUME NEW k \in Conn, k = cgen, inflight \/ cstate \in HandshakeStates
               PROVE  /\ session[k].phase # "READY"
                      /\ \A i \in DOMAIN up'[k] : up'[k][i].type # "client_ready"
    BY <1>7 DEF Unready
  <2>1. /\ session[k].phase # "READY"
        /\ \A i \in DOMAIN up[k] : up[k][i].type # "client_ready"
    BY DEF Kept, Unready
  <2>2. m.type # "client_ready"
    BY <1>4, <2>1
  <2> QED
    BY <1>5, <2>1, <2>2
<1>11. ToldAfter'
  BY <1>6, <1>7 DEF Kept, ToldAfter, Served, Traveling
<1>12. Remembered'
  <2> SUFFICES ASSUME NEW k \in Conn, k = cgen, cstate = "Ready", Served(k),
                      NEW a \in Traveling, NEW n \in Party[a] \ trip[a].arrived
               PROVE  \/ <<a, n>> \in walking'
                      \/ \E o \in UnderWay(k) : Names(o, a)
                      \/ \E i \in DOMAIN up'[k] : Accounts(up'[k][i], a, n)
    BY <1>6, <1>7 DEF Remembered, Served, Traveling
  <2>1. \/ <<a, n>> \in walking
        \/ \E o \in UnderWay(k) : Names(o, a)
        \/ \E i \in DOMAIN up[k] : Accounts(up[k][i], a, n)
    BY DEF Kept, Remembered
  <2>2. CASE <<a, n>> \in walking /\ <<a, n>> \notin walking'
    <3>1. Accounts(m, a, n)
      BY <1>4, <2>2
    <3>2. \E i \in DOMAIN up'[k] : up'[k][i] = m
      BY <1>5 DEF Served
    <3> QED
      BY <3>1, <3>2
  <2>3. CASE \E i \in DOMAIN up[k] : Accounts(up[k][i], a, n)
    BY <1>5, <2>3
  <2> QED
    BY <2>1, <2>2, <2>3
<1> QED
  BY <1>8, <1>9, <1>10, <1>11, <1>12 DEF Kept

(* What joins, leaves and stays on the way.                                *)
LEMMA Joins ==
  ASSUME Typed, NEW k \in Conn, NEW from \in {"handler", "clock"},
         NEW msgs \in Seq(ServerMessage), Enqueue(k, from, msgs), UNCHANGED down
  PROVE  \A j \in Conn :
           /\ UnderWay(j) \subseteq UnderWay(j)'
           /\ j = k /\ k = generation => \A i \in DOMAIN msgs : msgs[i] \in UnderWay(j)'
           /\ \A m \in UnderWay(j)' :
                m \in UnderWay(j) \/ (j = k /\ k = generation /\ \E i \in DOMAIN msgs : m = msgs[i])
<1> TAKE j \in Conn
<1>1. CASE k = generation /\ msgs # << >>
  <2> DEFINE n == Len(sendq) + 1
             new == [conn |-> k, from |-> from, msgs |-> msgs]
  <2>1. /\ DOMAIN sendq' = 1 .. n /\ DOMAIN sendq = 1 .. n - 1 /\ n \in Nat \ {0}
        /\ \A b \in 1 .. n - 1 : sendq'[b] = sendq[b]
        /\ sendq'[n].conn = k /\ sendq'[n].msgs = msgs
    <3>1. sendq \in Seq(Batches)
      BY WayTyped
    <3>2. new \in Batches
      BY DEF Batches
    <3>3. sendq' = Append(sendq, new)
      BY <1>1 DEF Enqueue
    <3> QED
      BY <3>1, <3>2, <3>3
  <2> HIDE DEF n, new
  <2>2. /\ \A b \in DOMAIN sendq' : b # n => b \in DOMAIN sendq /\ sendq'[b] = sendq[b]
        /\ \A b \in DOMAIN sendq : b \in DOMAIN sendq' /\ sendq'[b] = sendq[b]
        /\ n \in DOMAIN sendq'
    BY <2>1
  <2>3. UnderWay(j) \subseteq UnderWay(j)'
    BY <2>2 DEF UnderWay
  <2>4. j = k => \A i \in DOMAIN msgs : msgs[i] \in UnderWay(j)'
    BY <2>1, <2>2 DEF UnderWay
  <2>5. ASSUME NEW m \in UnderWay(j)'
        PROVE  m \in UnderWay(j) \/ (j = k /\ \E i \in DOMAIN msgs : m = msgs[i])
    <3>1. CASE \E i \in DOMAIN down[j] : m = down[j][i]
      BY <3>1 DEF UnderWay
    <3>2. CASE \E b \in DOMAIN sendq' : sendq'[b].conn = j /\
                 \E i \in DOMAIN sendq'[b].msgs : m = sendq'[b].msgs[i]
      <4>1. PICK b \in DOMAIN sendq' : sendq'[b].conn = j /\
                   \E i \in DOMAIN sendq'[b].msgs : m = sendq'[b].msgs[i]
        BY <3>2
      <4>2. CASE b # n
        BY <2>2, <4>1, <4>2 DEF UnderWay
      <4>3. CASE b = n
        BY <2>1, <4>1, <4>3
      <4> QED
        BY <4>2, <4>3
    <3> QED
      BY <3>1, <3>2 DEF UnderWay
  <2> QED
    BY <1>1, <2>3, <2>4, <2>5
<1>2. CASE ~(k = generation /\ msgs # << >>)
  <2>1. UnderWay(j)' = UnderWay(j)
    BY <1>2 DEF Enqueue, UnderWay
  <2>2. msgs = << >> => DOMAIN msgs = {}
    <3>1. DOMAIN msgs = 1 .. Len(msgs)
      OBVIOUS
    <3>2. msgs = << >> => Len(msgs) = 0
      OBVIOUS
    <3> QED
      BY <3>1, <3>2
  <2> QED
    BY <1>2, <2>1, <2>2
<1> QED
  BY <1>1, <1>2

(* A message that goes from the queue to the wire stays on its way.        *)
LEMMA Passes ==
  ASSUME Typed, SendNext, NEW k \in Conn, link[k] = "up"
  PROVE  UnderWay(k) \subseteq UnderWay(k)'
<1> SUFFICES ASSUME NEW m \in UnderWay(k) PROVE m \in UnderWay(k)'
  OBVIOUS
<1>1. /\ sendq \in Seq(Batches) /\ sendq # << >>
      /\ Head(sendq) = sendq[1] /\ 1 \in DOMAIN sendq /\ Len(sendq) \in Nat \ {0}
      /\ DOMAIN sendq = 1 .. Len(sendq)
      /\ \A b \in DOMAIN sendq : sendq[b].msgs \in Seq(ServerMessage)
  <2>1. sendq \in Seq(Batches) /\ sendq # << >>
    BY WayTyped DEF SendNext
  <2> QED
    BY <2>1, TakenOff, WayTyped
<1>2. /\ sendq[1].conn \in Conn /\ sendq[1] \in Batches
      /\ sendq[1].msgs \in Seq(ServerMessage) /\ sendq[1].msgs # << >>
      /\ \A j \in Conn : down[j] \in Seq(ServerMessage)
      /\ down \in [Conn -> Seq(ServerMessage)]
  BY <1>1, WayTyped
<1>3. /\ Head(sendq[1].msgs) = sendq[1].msgs[1] /\ sendq[1].msgs[1] \in ServerMessage
      /\ Len(sendq[1].msgs) \in Nat \ {0} /\ DOMAIN sendq[1].msgs = 1 .. Len(sendq[1].msgs)
  BY <1>2, TakenOff
<1>4. /\ \A i \in DOMAIN down[k] : i \in DOMAIN down'[k] /\ down'[k][i] = down[k][i]
      /\ sendq[1].conn = k => \E i \in DOMAIN down'[k] : down'[k][i] = sendq[1].msgs[1]
  <2>1. CASE sendq[1].conn = k
    <3>1. down'[k] = Append(down[k], sendq[1].msgs[1])
      BY <1>1, <1>2, <1>3, <2>1 DEF SendNext
    <3>2. /\ DOMAIN down'[k] = 1 .. Len(down[k]) + 1 /\ DOMAIN down[k] = 1 .. Len(down[k])
          /\ \A l \in 1 .. Len(down[k]) : down'[k][l] = down[k][l]
          /\ down'[k][Len(down[k]) + 1] = sendq[1].msgs[1]
          /\ Len(down[k]) \in Nat
      BY <1>2, <1>3, <3>1
    <3>3. Len(down[k]) + 1 \in DOMAIN down'[k] /\ \A i \in DOMAIN down[k] : i \in DOMAIN down'[k]
      BY <3>2
    <3> QED
      BY <3>2, <3>3
  <2>2. CASE sendq[1].conn # k
    BY <1>1, <1>2, <2>2 DEF SendNext
  <2> QED
    BY <2>1, <2>2
<1>5. CASE \E i \in DOMAIN down[k] : m = down[k][i]
  BY <1>4, <1>5 DEF UnderWay
<1>6. CASE \E b \in DOMAIN sendq : sendq[b].conn = k /\
             \E i \in DOMAIN sendq[b].msgs : m = sendq[b].msgs[i]
  <2>1. PICK b \in DOMAIN sendq : sendq[b].conn = k /\
               \E i \in DOMAIN sendq[b].msgs : m = sendq[b].msgs[i]
    BY <1>6
  <2>2. PICK i \in DOMAIN sendq[b].msgs : m = sendq[b].msgs[i]
    BY <2>1
  <2>3. CASE b = 1 /\ i = 1
    BY <1>4, <2>1, <2>2, <2>3 DEF UnderWay
  <2>4. CASE sendq' = Tail(sendq)
    <3>1. CASE b = 1 /\ i # 1
      <4>1. link[sendq[1].conn] = "up"
        BY <2>1, <3>1
      <4>2. Len(sendq[1].msgs) # 1
        BY <1>3, <2>2, <3>1
      <4>3. sendq' = [sendq EXCEPT ![1].msgs = Tail(@)]
        BY <1>1, <4>1, <4>2 DEF SendNext
      <4>4. Len(sendq) \in DOMAIN sendq'
        BY <1>1, <4>3
      <4>5. DOMAIN Tail(sendq) = 1 .. Len(sendq) - 1
        BY <1>1
      <4> QED
        BY <1>1, <2>4, <4>4, <4>5
    <3>2. CASE b # 1
      <4>1. b - 1 \in DOMAIN sendq' /\ sendq'[b - 1] = sendq[b]
        BY <1>1, <2>4, <3>2
      <4> QED
        BY <2>1, <2>2, <4>1 DEF UnderWay
    <3> QED
      BY <2>3, <3>1, <3>2
  <2>5. CASE sendq' = [sendq EXCEPT ![1].msgs = Tail(@)]
    <3>1. /\ DOMAIN sendq' = DOMAIN sendq
          /\ \A c \in DOMAIN sendq : c # 1 => sendq'[c] = sendq[c]
          /\ sendq'[1].conn = sendq[1].conn /\ sendq'[1].msgs = Tail(sendq[1].msgs)
      BY <1>1, <1>2, <2>5 DEF Batches
    <3>2. CASE b # 1
      BY <2>1, <2>2, <3>1, <3>2 DEF UnderWay
    <3>3. CASE b = 1 /\ i # 1
      <4>1. i \in 1 .. Len(sendq[1].msgs)
        BY <1>3, <2>2, <3>3
      <4>2. i - 1 \in DOMAIN Tail(sendq[1].msgs) /\ Tail(sendq[1].msgs)[i - 1] = sendq[1].msgs[i]
        <5>1. i - 1 \in 1 .. Len(sendq[1].msgs) - 1 /\ (i - 1) + 1 = i
          BY <1>3, <3>3, <4>1
        <5>2. DOMAIN Tail(sendq[1].msgs) = 1 .. Len(sendq[1].msgs) - 1
          BY <1>2
        <5>3. \A j \in DOMAIN Tail(sendq[1].msgs) : Tail(sendq[1].msgs)[j] = sendq[1].msgs[j + 1]
          BY <1>2, TakenOff
        <5> QED
          BY <5>1, <5>2, <5>3
      <4>3. 1 \in DOMAIN sendq' /\ sendq'[1].conn = k
        BY <1>1, <2>1, <3>1, <3>3
      <4>4. i - 1 \in DOMAIN sendq'[1].msgs /\ sendq'[1].msgs[i - 1] = m
        BY <2>2, <3>1, <3>3, <4>2
      <4> QED
        BY <4>3, <4>4 DEF UnderWay
    <3> QED
      BY <2>3, <3>2, <3>3
  <2> QED
    BY <1>1, <2>4, <2>5 DEF SendNext
<1> QED
  BY <1>5, <1>6 DEF UnderWay

(* A ready client is the one the server deals with.                        *)
LEMMA Ours ==
  ASSUME OInv, Kept, NEW k \in Conn, k = cgen, handler[k] # "none"
  PROVE  k = generation
<1>1. k <= generation
  BY DEF Kept, Newest
<1>2. generation \in {0} \cup Conn /\ generation # 0
  BY <1>1 DEF OInv, IInv, Types, None, Conn
<1>3. generation <= cgen
  BY <1>2 DEF OInv, IInv, Opened, None
<1> QED
  BY <1>1, <1>2, <1>3 DEF Conn

(* A minute that starts or ends a trip tells the ready client, and one it  *)
(* does not tell has no ready client.                                      *)
LEMMA TickForgets == ASSUME OInv, Kept, Tick PROVE Kept'
<1>1. /\ version \in Nat /\ active \in Conn /\ Typed
      /\ version' = version + 1 /\ readyGen # None /\ readyGen = generation
      /\ UNCHANGED <<generation, handler, session, link, up, down, cgen, cstate, inflight,
                     floor, applied, walking>>
  BY DEF OInv, Typed, TypeOK, Tick, Ready, gate, wire, client, reconnecting
<1>2. /\ \A a \in Action : trip[a] \in [phase : {"NONE", "TRAVELING", "PERFORMING", "ENDED"},
                                        arrived : SUBSET Agent]
      /\ trip \in [Action -> [phase : {"NONE", "TRAVELING", "PERFORMING", "ENDED"},
                              arrived : SUBSET Agent]]
  BY <1>1 DEF Typed, TypeOK
<1>3. Newest' /\ Unopened' /\ Attended' /\ Unready' /\ Level'
  BY <1>1 DEF Kept, Newest, Unopened, Attended, Unready, Level
<1>4. Offers'
  <2>1. session[generation].phase = "READY"
    BY <1>1 DEF OInv, IInv, Granted
  <2> QED
    BY <1>1, <2>1 DEF Offers
<1>5. \A k \in Conn : k = cgen /\ cstate = "Ready" /\ Served(k) => k = generation /\ k = active
  <2> SUFFICES ASSUME NEW k \in Conn, k = cgen, cstate = "Ready", Served(k)
               PROVE  k = generation /\ k = active
    OBVIOUS
  <2>1. handler[k] = "serving"
    BY DEF Served
  <2>2. k = generation
    BY <2>1, Ours
  <2> QED
    BY <2>1, <2>2 DEF OInv, IInv, GateAgrees
<1>6. version + 1 \in Nat /\ Clock(version + 1) \in ServerMessage /\ Clock(version + 1).type = "clock"
  <2>1. version + 1 \in Nat
    BY <1>1
  <2> QED
    BY <2>1, Messages DEF Clock
<1>7. ASSUME NEW a \in Action, NEW after, NEW told, Change(a, after, told),
             \/ told = "action_started" /\ trip[a].phase = "NONE" /\ after.phase \in {"TRAVELING", "PERFORMING"}
             \/ told = "action_ended" /\ after.phase = "ENDED" /\ trip[a].phase # "ENDED"
      PROVE  EndsTold' /\ Remembered' /\ ToldAfter'
  <2>1. /\ trip'[a] = after /\ \A b \in Action : b # a => trip'[b] = trip[b]
        /\ Enqueue(active, "clock", <<Clock(version + 1), About(told, a)>>)
    BY <1>2, <1>7 DEF Change
  <2>2. /\ About(told, a) \in ServerMessage /\ About(told, a).type = told
        /\ About(told, a).action = a /\ About(told, a).ver = version + 1
    BY <1>1, <1>7, Messages DEF About
  <2>3. PICK c, d \in ServerMessage : c = Clock(version + 1) /\ d = About(told, a)
    BY <1>6, <2>2
  <2>4. /\ <<c, d>> \in Seq(ServerMessage) /\ DOMAIN <<c, d>> = {1, 2}
        /\ <<c, d>>[1] = c /\ <<c, d>>[2] = d /\ Enqueue(active, "clock", <<c, d>>)
    BY <2>1, <2>3
  <2>5. /\ c.type = "clock" /\ d.type = told /\ d.action = a /\ d.ver = version + 1
    BY <1>6, <2>2, <2>3
  <2>6. \A j \in Conn :
           /\ UnderWay(j) \subseteq UnderWay(j)'
           /\ j = active /\ active = generation => d \in UnderWay(j)'
           /\ \A m \in UnderWay(j)' : m \in UnderWay(j) \/ m = c \/ m = d
    <3>1. \A j \in Conn :
            /\ UnderWay(j) \subseteq UnderWay(j)'
            /\ j = active /\ active = generation => \A i \in DOMAIN <<c, d>> : <<c, d>>[i] \in UnderWay(j)'
            /\ \A m \in UnderWay(j)' :
                 m \in UnderWay(j) \/ (j = active /\ active = generation /\ \E i \in DOMAIN <<c, d>> : m = <<c, d>>[i])
      BY <1>1, <2>4, Joins
    <3> QED
      BY <2>4, <3>1
  <2>7. EndsTold'
    <3> SUFFICES ASSUME NEW k \in Conn, NEW m \in UnderWay(k)', m.type = "action_ended"
                 PROVE  trip'[m.action].phase = "ENDED"
      BY DEF EndsTold
    <3>1. CASE m \in UnderWay(k)
      <4>1. trip[m.action].phase = "ENDED"
        BY <3>1 DEF Kept, EndsTold
      <4>2. m.action \in Action
        BY <1>1, <3>1, WayTyped, Messages
      <4>3. m.action # a
        BY <1>7, <4>1
      <4> QED
        BY <2>1, <4>1, <4>2, <4>3
    <3>2. CASE m = d
      BY <1>7, <2>1, <2>5, <3>2
    <3> QED
      BY <2>5, <2>6, <3>1, <3>2
  <2>8. \A b \in Action : b \in Traveling' => (b # a /\ b \in Traveling /\ trip'[b] = trip[b])
                                            \/ (b = a /\ told = "action_started")
    BY <1>7, <2>1 DEF Traveling
  <2>9. Remembered'
    <3> SUFFICES ASSUME NEW k \in Conn, k = cgen, cstate = "Ready", Served(k),
                        NEW b \in Traveling', NEW n \in Party[b] \ trip'[b].arrived
                 PROVE  \/ <<b, n>> \in walking
                        \/ \E m \in UnderWay(k)' : Names(m, b)
                        \/ \E i \in DOMAIN up[k] : Accounts(up[k][i], b, n)
      BY <1>1 DEF Remembered, Served
    <3>1. b \in Action
      BY DEF Traveling
    <3>2. CASE b = a /\ told = "action_started"
      <4>1. d \in UnderWay(k)' /\ Names(d, b)
        BY <1>5, <2>5, <2>6, <3>2 DEF Names
      <4> QED
        BY <4>1
    <3>3. CASE b # a /\ b \in Traveling /\ trip'[b] = trip[b]
      BY <2>6, <3>3 DEF Kept, Remembered
    <3> QED
      BY <2>8, <3>1, <3>2, <3>3
  <2>10. ToldAfter'
    <3> SUFFICES ASSUME NEW k \in Conn, k = cgen, cstate = "Ready", Served(k),
                        NEW b \in Traveling', NEW s \in UnderWay(k)',
                        s.type = "world_snapshot", b \notin s.traveling
                 PROVE  \E m \in UnderWay(k)' : m.type = "action_started" /\ m.action = b /\ s.ver < m.ver
      BY <1>1 DEF ToldAfter, Served
    <3>1. b \in Action
      BY DEF Traveling
    <3>2. s \in UnderWay(k)
      BY <1>7, <2>5, <2>6
    <3>3. CASE b = a /\ told = "action_started"
      <4>1. s.ver <= version /\ s.ver \in Nat
        BY <1>1, <1>5, <3>2, WayTyped, Messages DEF OInv, NotAhead, Versioned
      <4>2. s.ver < d.ver
        BY <1>1, <2>5, <4>1
      <4>3. d \in UnderWay(k)'
        BY <1>5, <2>6
      <4> QED
        BY <2>5, <3>3, <4>2, <4>3
    <3>4. CASE b # a /\ b \in Traveling
      BY <2>6, <3>2, <3>4 DEF Kept, ToldAfter
    <3> QED
      BY <2>8, <3>1, <3>3, <3>4
  <2> QED
    BY <2>7, <2>9, <2>10
<1>8. ASSUME Enqueue(active, "clock", <<Clock(version + 1)>>), UNCHANGED trip
      PROVE  EndsTold' /\ Remembered' /\ ToldAfter'
  <2>1. PICK c \in ServerMessage : c = Clock(version + 1)
    BY <1>6
  <2>2. /\ <<c>> \in Seq(ServerMessage) /\ DOMAIN <<c>> = {1} /\ <<c>>[1] = c
        /\ Enqueue(active, "clock", <<c>>)
    BY <1>8, <2>1
  <2>3. c.type = "clock"
    BY <1>6, <2>1
  <2>4. \A j \in Conn :
          /\ UnderWay(j) \subseteq UnderWay(j)'
          /\ \A m \in UnderWay(j)' :
               m \in UnderWay(j) \/ (j = active /\ active = generation /\ \E i \in DOMAIN <<c>> : m = <<c>>[i])
    BY <1>1, <2>2, Joins
  <2>5. \A j \in Conn : \A m \in UnderWay(j)' : m \in UnderWay(j) \/ m.type = "clock"
    BY <2>2, <2>3, <2>4
  <2>6. EndsTold'
    BY <1>8, <2>5 DEF Kept, EndsTold
  <2>7. Remembered'
    BY <1>1, <1>8, <2>4 DEF Kept, Remembered, Served, Traveling
  <2>8. ToldAfter'
    BY <1>1, <1>8, <2>4, <2>5 DEF Kept, ToldAfter, Served, Traveling
  <2> QED
    BY <2>6, <2>7, <2>8
<1>9. EndsTold' /\ Remembered' /\ ToldAfter'
  <2>1. CASE \E a \in Action : trip[a].phase = "NONE" /\
               \E here \in (SUBSET Party[a]) \ {Party[a]} : Change(a, Begun(a, here), "action_started")
    <3>1. \A a, here : Begun(a, here).phase = "TRAVELING"
      BY DEF Begun
    <3> QED
      BY <1>7, <2>1, <3>1
  <2>2. CASE \E a \in Action : trip[a].phase = "NONE" /\ Change(a, Performed(a), "action_started")
    <3>1. \A a \in Action : Performed(a).phase = "PERFORMING"
      BY DEF Performed
    <3> QED
      BY <1>7, <2>2, <3>1
  <2>3. CASE \E a \in Action : /\ trip[a].phase \in {"PERFORMING", "TRAVELING"}
                               /\ Change(a, Ended(a), "action_ended")
    <3>1. \A a \in Action : Ended(a).phase = "ENDED"
      BY DEF Ended
    <3> QED
      BY <1>7, <2>3, <3>1
  <2> QED
    BY <1>8, <2>1, <2>2, <2>3 DEF Tick, Minute
<1> QED
  BY <1>3, <1>4, <1>9 DEF Kept

(* Whoever leaves is served no more.                                       *)
LEMMA LeavesKeep ==
  ASSUME OInv, Kept, UNCHANGED <<trip, generation, link, up, client>>,
         \A j \in Conn : /\ UnderWay(j)' \subseteq UnderWay(j)
                         /\ link[j] = "up" => UnderWay(j) \subseteq UnderWay(j)',
         \/ UNCHANGED <<handler, session>>
         \/ \E c \in Conn : Leave(c) /\ handler[c] # "none"
  PROVE  Kept'
<1>1. \A k \in Conn :
        \/ UNCHANGED <<handler[k], session[k]>>
        \/ /\ handler[k] # "none" /\ handler'[k] = "done"
           /\ session'[k].phase = "DISCONNECTED"
  BY DEF Leave, OInv, IInv, Types
<1>2. UNCHANGED <<cgen, cstate, inflight, floor, applied, walking>>
  BY DEF client, reconnecting
<1>3. Newest' /\ Unopened' /\ Attended' /\ Unready' /\ Level'
  BY <1>1, <1>2 DEF Kept, Newest, Unopened, Attended, Unready, Level
<1>4. EndsTold' /\ Offers'
  BY <1>1 DEF Kept, EndsTold, Offers, Traveling
<1>5. Remembered' /\ ToldAfter'
  BY <1>1, <1>2 DEF Kept, Remembered, ToldAfter, Served, Traveling
<1> QED
  BY <1>3, <1>4, <1>5 DEF Kept

(* A message sent on, or given up with its connection, leaves nobody       *)
(* forgotten.                                                              *)
LEMMA SendForgets == ASSUME OInv, Kept, SendNext PROVE Kept'
<1>1. UNCHANGED <<trip, generation, link, up, client>>
  BY DEF SendNext, Leave, authority, gate
<1>2. \A j \in Conn : /\ UnderWay(j)' \subseteq UnderWay(j)
                      /\ link[j] = "up" => UnderWay(j) \subseteq UnderWay(j)'
  BY QueueSends, Passes DEF OInv
<1>3. \/ UNCHANGED <<handler, session>>
      \/ \E c \in Conn : Leave(c) /\ handler[c] # "none"
  <2>1. 1 \in DOMAIN sendq /\ 1 \in DOMAIN sendq[1].msgs /\ sendq[1].conn \in Conn
        /\ Head(sendq) = sendq[1]
    <3>1. sendq \in Seq(Batches) /\ sendq # << >>
      BY WayTyped DEF SendNext, OInv
    <3> QED
      BY <3>1, QueueMoves, WayTyped, TakenOff DEF OInv
  <2>2. sendq[1].msgs[1] \in UnderWay(sendq[1].conn)
    BY <2>1 DEF UnderWay
  <2>3. handler[sendq[1].conn] # "none"
    BY <2>1, <2>2 DEF OInv, Fresh
  <2> QED
    BY <2>1, <2>3 DEF SendNext
<1> QED
  BY <1>1, <1>2, <1>3, LeavesKeep

(* A handler that ends leaves a connection nobody is served on.            *)
LEMMA EndForgets == ASSUME OInv, Kept, NEW k \in Conn, HandlerEnds(k) PROVE Kept'
<1>1. UNCHANGED <<trip, generation, link, up, client>>
  BY DEF HandlerEnds, Leave, authority, wire
<1>2. \A j \in Conn : UnderWay(j)' = UnderWay(j)
  BY DEF HandlerEnds, wire, UnderWay
<1>3. Leave(k) /\ handler[k] # "none"
  BY DEF HandlerEnds
<1> QED
  BY <1>1, <1>2, <1>3, LeavesKeep

(* A connection taken up has been told nothing, and its client is not      *)
(* ready.                                                                  *)
LEMMA OpenForgets == ASSUME OInv, Kept, NEW k \in Conn, OpenSession(k) PROVE Kept'
<1>1. /\ handler[k] = "none" /\ k = cgen /\ generation' = k
      /\ handler' = [handler EXCEPT ![k] = "serving"]
      /\ session'[k].phase = "AWAITING_CLIENT_HELLO"
      /\ \A j \in Conn : j # k => session'[j] = session[j]
      /\ handler \in [Conn -> {"none", "serving", "closing", "done"}]
      /\ UNCHANGED <<trip, sendq, link, up, down, cgen, cstate, inflight, floor, applied, walking>>
  BY DEF OpenSession, OInv, IInv, OneLink, Types, authority, wire, client, reconnecting
<1>2. \A j \in Conn : UnderWay(j)' = UnderWay(j)
  BY <1>1 DEF UnderWay
<1>3. Newest'
  <2> SUFFICES ASSUME NEW j \in Conn, handler'[j] # "none" PROVE j <= k
    BY <1>1 DEF Newest
  <2>1. CASE j # k
    <3>1. j <= generation /\ generation \in {0} \cup Conn
      BY <1>1, <2>1 DEF Kept, Newest, OInv, IInv, Types, None
    <3>2. generation # 0 => generation <= cgen
      BY DEF OInv, IInv, Opened, None
    <3> QED
      BY <1>1, <3>1, <3>2 DEF Conn
  <2> QED
    BY <2>1 DEF Conn
<1>4. Unopened'
  <2>1. \A j \in Conn : j > k => j # k
    BY DEF Conn
  <2> QED
    BY <1>1, <2>1 DEF Kept, Unopened
<1>5. Attended' /\ Unready' /\ Level' /\ EndsTold'
  BY <1>1, <1>2 DEF Kept, Attended, Unready, Level, EndsTold
<1>6. Offers'
  BY <1>1, <1>2 DEF OInv, Fresh, Offers
<1>7. Remembered' /\ ToldAfter'
  BY <1>1 DEF OInv, Shown, Remembered, ToldAfter
<1> QED
  BY <1>3, <1>4, <1>5, <1>6, <1>7 DEF Kept

(* An answer that tells what is.                                           *)
LEMMA Answers ==
  ASSUME OInv, Kept, NEW k \in Conn, k = generation, Take(k),
         NEW msgs \in Seq(ServerMessage), Enqueue(k, "handler", msgs),
         UNCHANGED <<down, generation, handler, link, client>>,
         \A j \in Conn : j # k => session'[j] = session[j],
         session'[k].phase # "DISCONNECTED",
         session'[k].phase = "READY" => session[k].phase = "READY" \/ Head(up[k]).type = "client_ready",
         \A i \in DOMAIN msgs :
           /\ msgs[i].type = "world_snapshot" => msgs[i].traveling = Traveling'
           /\ msgs[i].type = "action_ended" => trip'[msgs[i].action].phase = "ENDED",
         \A a \in Action :
           /\ trip[a].phase = "ENDED" => trip'[a].phase = "ENDED"
           /\ trip'[a].phase = "TRAVELING"
                => trip[a].phase = "TRAVELING" /\ trip[a].arrived \subseteq trip'[a].arrived,
         \A a \in Action, n \in Agent : Accounts(Head(up[k]), a, n) =>
           \/ a \notin Traveling' \/ n \in trip'[a].arrived
           \/ \E i \in DOMAIN msgs : msgs[i].type = "world_snapshot",
         session'[k].phase # "READY" =>
           /\ UNCHANGED trip
           /\ \/ /\ session'[k] = session[k]
                 /\ \A i \in DOMAIN msgs : msgs[i].type # "world_snapshot"
              \/ /\ session[k].phase \in {"AWAITING_CLIENT_HELLO", "AWAITING_ASSET_REGISTRY"}
                 /\ \A i \in DOMAIN msgs : msgs[i].type = "world_snapshot"
                                           => session'[k].phase = "AWAITING_CLIENT_READY"
  PROVE  Kept'
<1>1. Typed /\ Carried
  BY Split DEF OInv
<1>2. UNCHANGED <<cgen, cstate, inflight, floor, applied, walking>>
  BY DEF client, reconnecting
<1>3. /\ up[k] \in Seq(ClientMessage) /\ up[k] # << >> /\ up'[k] = Tail(up[k])
      /\ \A j \in Conn : j # k => up'[j] = up[j]
  BY <1>1 DEF Carried, Take
<1>4. /\ Head(up[k]) = up[k][1] /\ 1 \in DOMAIN up[k]
      /\ \A i \in DOMAIN up'[k] : up'[k][i] = up[k][i + 1] /\ i + 1 \in DOMAIN up[k]
      /\ \A i \in DOMAIN up[k] : i # 1 => i - 1 \in DOMAIN up'[k] /\ up'[k][i - 1] = up[k][i]
  <2>1. /\ Head(up[k]) = up[k][1] /\ 1 \in DOMAIN up[k]
        /\ \A i \in DOMAIN up'[k] : up'[k][i] = up[k][i + 1] /\ i + 1 \in DOMAIN up[k]
    BY <1>3, TakenOff
  <2>2. ASSUME NEW i \in DOMAIN up[k], i # 1
        PROVE  i - 1 \in DOMAIN up'[k] /\ up'[k][i - 1] = up[k][i]
    <3>1. DOMAIN up[k] = 1 .. Len(up[k]) /\ Len(up[k]) \in Nat
      BY <1>3
    <3>2. i - 1 \in 1 .. Len(up[k]) - 1 /\ (i - 1) + 1 = i
      BY <2>2, <3>1
    <3>3. DOMAIN Tail(up[k]) = 1 .. Len(up[k]) - 1
      BY <1>3
    <3> QED
      BY <1>3, <2>1, <3>2, <3>3
  <2> QED
    BY <2>1, <2>2
<1>5. \A j \in Conn :
        /\ UnderWay(j) \subseteq UnderWay(j)'
        /\ j = k => \A i \in DOMAIN msgs : msgs[i] \in UnderWay(j)'
        /\ \A m \in UnderWay(j)' : m \in UnderWay(j) \/ (j = k /\ \E i \in DOMAIN msgs : m = msgs[i])
  BY <1>1, Joins
<1>6. Newest' /\ Level'
  BY <1>2 DEF Kept, Newest, Level
<1>7. Unopened'
  <2> SUFFICES ASSUME NEW j \in Conn, j > cgen
               PROVE  up'[j] = << >> /\ session'[j].phase # "READY"
    BY <1>2 DEF Unopened
  <2>1. up[j] = << >> /\ session[j].phase # "READY"
    BY DEF Kept, Unopened
  <2>2. j # k
    BY <1>3, <2>1
  <2> QED
    BY <1>3, <2>1, <2>2
<1>8. Attended'
  BY DEF Kept, Attended
<1>9. Unready'
  <2> SUFFICES ASSUME NEW j \in Conn, j = cgen, inflight \/ cstate \in HandshakeStates
               PROVE  /\ session'[j].phase # "READY"
                      /\ \A i \in DOMAIN up'[j] : up'[j][i].type # "client_ready"
    BY <1>2 DEF Unready
  <2>1. /\ session[j].phase # "READY"
        /\ \A i \in DOMAIN up[j] : up[j][i].type # "client_ready"
    BY DEF Kept, Unready
  <2>2. CASE j = k
    BY <1>4, <2>1, <2>2
  <2>3. CASE j # k
    BY <1>3, <2>1, <2>3
  <2> QED
    BY <2>2, <2>3
<1>10. EndsTold'
  <2> SUFFICES ASSUME NEW j \in Conn, NEW m \in UnderWay(j)', m.type = "action_ended"
               PROVE  trip'[m.action].phase = "ENDED"
    BY DEF EndsTold
  <2>1. CASE m \in UnderWay(j)
    <3>1. trip[m.action].phase = "ENDED" /\ m.action \in Action
      BY <1>1, <2>1, WayTyped, Messages DEF Kept, EndsTold
    <3> QED
      BY <3>1
  <2>2. CASE \E i \in DOMAIN msgs : m = msgs[i]
    BY <2>2
  <2> QED
    BY <1>5, <2>1, <2>2
<1>11. Offers'
  <2> SUFFICES ASSUME NEW j \in Conn, j = generation, session'[j].phase \in Phases \ {"READY", "DISCONNECTED"},
                      NEW m \in UnderWay(j)', m.type = "world_snapshot"
               PROVE  session'[j].phase = "AWAITING_CLIENT_READY" /\ m.traveling = Traveling'
    BY DEF Offers
  <2>1. j = k /\ session'[k].phase # "READY" /\ Traveling' = Traveling
    BY DEF Traveling
  <2>2. CASE m \in UnderWay(k) 
    <3>1. session[k].phase \in Phases \ {"READY", "DISCONNECTED"}
      BY <2>1 DEF Phases
    <3>2. session[k].phase = "AWAITING_CLIENT_READY" /\ m.traveling = Traveling
      BY <2>1, <2>2, <3>1 DEF Kept, Offers
    <3> QED
      BY <2>1, <3>2
  <2>3. CASE \E i \in DOMAIN msgs : m = msgs[i]
    BY <2>1, <2>3
  <2> QED
    BY <1>5, <2>1, <2>2, <2>3
<1>12. \A a \in Traveling' : a \in Traveling /\ trip[a].arrived \subseteq trip'[a].arrived
  BY DEF Traveling
<1>13. Remembered'
  <2> SUFFICES ASSUME NEW j \in Conn, j = cgen, cstate = "Ready", Served(j),
                      NEW a \in Traveling', NEW n \in Party[a] \ trip'[a].arrived
               PROVE  \/ <<a, n>> \in walking
                      \/ \E m \in UnderWay(j)' : Names(m, a)
                      \/ \E i \in DOMAIN up'[j] : Accounts(up'[j][i], a, n)
    BY <1>2 DEF Remembered, Served
  <2>1. a \in Traveling /\ n \in Party[a] \ trip[a].arrived /\ a \in Action
    BY <1>12 DEF Traveling
  <2>2. n \in Agent
    BY <2>1, BridgeConstants DEF BridgeConstants
  <2>3. j = k
    BY Ours DEF Served
  <2>4. \/ <<a, n>> \in walking
        \/ \E m \in UnderWay(j) : Names(m, a)
        \/ \E i \in DOMAIN up[j] : Accounts(up[j][i], a, n)
    BY <2>1 DEF Kept, Remembered
  <2>5. CASE \E i \in DOMAIN up[j] : Accounts(up[j][i], a, n)
    <3>1. PICK i \in DOMAIN up[j] : Accounts(up[j][i], a, n)
      BY <2>5
    <3>2. CASE i # 1
      BY <1>4, <2>3, <3>1, <3>2
    <3>3. CASE i = 1
      <4>1. PICK l \in DOMAIN msgs : msgs[l].type = "world_snapshot"
        BY <1>4, <2>1, <2>2, <2>3, <3>1, <3>3
      <4>2. msgs[l] \in UnderWay(j)' /\ Names(msgs[l], a)
        BY <1>5, <2>3, <4>1 DEF Names
      <4> QED
        BY <4>2
    <3> QED
      BY <3>2, <3>3
  <2> QED
    BY <1>5, <2>4, <2>5
<1>14. ToldAfter'
  <2> SUFFICES ASSUME NEW j \in Conn, j = cgen, cstate = "Ready", Served(j),
                      NEW a \in Traveling', NEW s \in UnderWay(j)',
                      s.type = "world_snapshot", a \notin s.traveling
               PROVE  \E m \in UnderWay(j)' : m.type = "action_started" /\ m.action = a /\ s.ver < m.ver
    BY <1>2 DEF ToldAfter, Served
  <2>1. s \in UnderWay(j)
    BY <1>5
  <2> QED
    BY <1>5, <1>12, <2>1 DEF Kept, ToldAfter
<1> QED
  BY <1>6, <1>7, <1>8, <1>9, <1>10, <1>11, <1>13, <1>14 DEF Kept

(* Whatever the server receives: a report it accepts is that of one who    *)
(* arrived or of a trip that ended, and a report it rejects is answered    *)
(* with a snapshot.                                                        *)
LEMMA HandleForgets == ASSUME OInv, Kept, NEW k \in Conn, Handle(k) PROVE Kept'
<1>1. /\ Typed /\ Carried /\ version \in Nat
      /\ session \in [Conn -> [phase : Phases, snapshot : Nat \cup {NoSnapshot}]]
  BY Split DEF OInv, Types
<1>2. /\ Take(k) /\ UNCHANGED <<down, generation, client>>
  BY DEF Handle, ReceiveRepeat, ReceiveRefused, ReceiveHello, ReceiveRegistry, ReceiveReady,
         ReceiveMovement, ReceiveControl, Receive, gate
<1>3. UNCHANGED <<cgen, cstate, inflight, floor, applied, walking>>
  BY <1>2 DEF client, reconnecting
<1>4. /\ up[k] \in Seq(ClientMessage) /\ up[k] # << >> /\ up'[k] = Tail(up[k])
      /\ \A j \in Conn : j # k => up'[j] = up[j]
      /\ handler[k] = "serving" /\ Head(up[k]) \in ClientMessage
  <2>1. /\ up[k] \in Seq(ClientMessage) /\ up[k] # << >> /\ up'[k] = Tail(up[k])
        /\ \A j \in Conn : j # k => up'[j] = up[j]
        /\ handler[k] = "serving"
    BY <1>1, <1>2 DEF Carried, Take
  <2> QED
    BY <2>1, TakenOff
<1>5. CASE ReceiveRefused(k)
  <2>1. /\ UNCHANGED <<trip, generation, session, sendq, down>>
        /\ handler'[k] = "closing" /\ link'[k] = "cut"
        /\ \A j \in Conn : j # k => handler'[j] = handler[j] /\ link'[j] = link[j]
    BY <1>5 DEF ReceiveRefused, OInv, IInv, Types, authority, gate
  <2>2. \A j \in Conn : UnderWay(j)' = UnderWay(j)
    BY <2>1 DEF UnderWay
  <2>3. \A i \in DOMAIN up'[k] : up'[k][i] = up[k][i + 1] /\ i + 1 \in DOMAIN up[k]
    BY <1>4, TakenOff
  <2>4. Newest'
    BY <1>4, <2>1 DEF Kept, Newest
  <2>5. Unopened' /\ Attended' /\ Level'
    BY <1>3, <1>4, <2>1 DEF Kept, Unopened, Attended, Level
  <2>6. Unready'
    <3> SUFFICES ASSUME NEW j \in Conn, j = cgen, inflight \/ cstate \in HandshakeStates
                 PROVE  /\ session[j].phase # "READY"
                        /\ \A i \in DOMAIN up'[j] : up'[j][i].type # "client_ready"
      BY <1>3, <2>1 DEF Unready
    <3>1. /\ session[j].phase # "READY"
          /\ \A i \in DOMAIN up[j] : up[j][i].type # "client_ready"
      BY DEF Kept, Unready
    <3>2. CASE j = k
      BY <2>3, <3>1, <3>2
    <3>3. CASE j # k
      BY <1>4, <3>1, <3>3
    <3> QED
      BY <3>2, <3>3
  <2>7. EndsTold' /\ Offers'
    BY <2>1, <2>2 DEF Kept, EndsTold, Offers, Traveling
  <2>8. Remembered' /\ ToldAfter'
    BY <1>3, <1>4, <2>1, <2>2 DEF Kept, Remembered, ToldAfter, Served, Traveling
  <2> QED
    BY <2>4, <2>5, <2>6, <2>7, <2>8 DEF Kept
<1> DEFINE h == Head(up[k])
<1>6. CASE ~ReceiveRefused(k)
  <2>1. k = generation /\ UNCHANGED <<handler, link>>
    BY <1>2, <1>6 DEF Handle, ReceiveRepeat, ReceiveHello, ReceiveRegistry, ReceiveReady,
           ReceiveMovement, ReceiveControl, Receive, Admitted, Current
  <2>2. session[k].phase # "DISCONNECTED"
    BY <1>4 DEF Kept, Attended
  <2>3. ASSUME UNCHANGED trip
        PROVE  /\ \A a \in Action :
                    /\ trip[a].phase = "ENDED" => trip'[a].phase = "ENDED"
                    /\ trip'[a].phase = "TRAVELING"
                         => trip[a].phase = "TRAVELING" /\ trip[a].arrived \subseteq trip'[a].arrived
               /\ Traveling' = Traveling
    BY <2>3 DEF Traveling
  <2>4. ASSUME NEW c \in ServerMessage
        PROVE  <<c>> \in Seq(ServerMessage) /\ DOMAIN <<c>> = {1} /\ <<c>>[1] = c
    OBVIOUS
  <2>5. /\ Snapshot \in ServerMessage /\ Snapshot.type = "world_snapshot" /\ Snapshot.traveling = Traveling
        /\ Clock(version) \in ServerMessage /\ Clock(version).type = "clock"
        /\ [type |-> "repeat"] \in ServerMessage
    BY <1>1, Messages DEF Snapshot, Clock, Traveling
  <2>6. ASSUME NEW c \in ServerMessage, c.type \notin {"world_snapshot", "action_ended"},
               Enqueue(k, "handler", <<c>>), UNCHANGED trip,
               h.type \notin Movements \/ h.again,
               \A j \in Conn : j # k => session'[j] = session[j],
               session'[k].phase # "DISCONNECTED",
               session'[k].phase = "READY" => session[k].phase = "READY" \/ h.type = "client_ready",
               session'[k].phase # "READY" =>
                 \/ session'[k] = session[k]
                 \/ session[k].phase \in {"AWAITING_CLIENT_HELLO", "AWAITING_ASSET_REGISTRY"}
        PROVE  Kept'
    <3>1. \A i \in DOMAIN <<c>> : <<c>>[i] = c
      BY <2>4
    <3>2. \A a, n : ~Accounts(Head(up[k]), a, n)
      BY <2>6 DEF Accounts
    <3>3. PICK msgs \in Seq(ServerMessage) : msgs = <<c>>
      BY <2>4
    <3>4. /\ Enqueue(k, "handler", msgs)
          /\ \A i \in DOMAIN msgs : msgs[i].type # "world_snapshot" /\ msgs[i].type # "action_ended"
      BY <2>6, <3>1, <3>3
    <3>5. session'[k].phase = "READY" => session[k].phase = "READY" \/ Head(up[k]).type = "client_ready"
      BY <2>6
    <3>6. session'[k].phase # "READY" =>
            /\ UNCHANGED trip
            /\ \/ /\ session'[k] = session[k]
                  /\ \A i \in DOMAIN msgs : msgs[i].type # "world_snapshot"
               \/ /\ session[k].phase \in {"AWAITING_CLIENT_HELLO", "AWAITING_ASSET_REGISTRY"}
                  /\ \A i \in DOMAIN msgs : msgs[i].type = "world_snapshot"
                                            => session'[k].phase = "AWAITING_CLIENT_READY"
      BY <2>6, <3>4
    <3> QED
      BY <1>2, <2>1, <2>3, <2>6, <3>2, <3>4, <3>5, <3>6, Answers
  <2>7. CASE ReceiveRepeat(k)
    <3>1. h.again /\ UNCHANGED <<trip, session>>
      BY <2>7 DEF ReceiveRepeat, Seen, authority
    <3>2. CASE h.type \notin Movements
      BY <2>2, <2>5, <2>6, <2>7, <3>1, <3>2 DEF ReceiveRepeat
    <3>3. CASE h.type \in Movements
      <4>1. << >> \in Seq(ServerMessage) /\ DOMAIN << >> = {} /\ Enqueue(k, "handler", << >>)
        BY <2>7, <3>3 DEF ReceiveRepeat
      <4>2. \A a, n : ~Accounts(h, a, n)
        BY <3>1 DEF Accounts
      <4> QED
        BY <1>2, <2>1, <2>2, <2>3, <3>1, <4>1, <4>2, Answers
    <3> QED
      BY <3>2, <3>3
  <2>8. CASE ReceiveHello(k)
    <3>1. /\ [type |-> "server_hello", ver |-> version] \in ServerMessage
          /\ h.type = "client_hello" /\ session[k].phase = "AWAITING_CLIENT_HELLO"
          /\ UNCHANGED trip
      BY <1>1, <2>8, Messages DEF ReceiveHello, Receive, Admitted, Expected, authority
    <3>2. /\ session'[k].phase = "AWAITING_ASSET_REGISTRY"
          /\ \A j \in Conn : j # k => session'[j] = session[j]
      BY <1>1, <2>8 DEF ReceiveHello
    <3> QED
      BY <2>6, <2>8, <3>1, <3>2 DEF ReceiveHello, Movements
  <2>9. CASE ReceiveRegistry(k)
    <3>1. PICK accepted \in Registries :
            LET result == [type |-> "asset_registry_result", ver |-> version,
                           accepted |-> accepted]
            IN  IF accepted
                THEN /\ session' = [session EXCEPT ![k] =
                                      [phase |-> "AWAITING_CLIENT_READY",
                                       snapshot |-> version]]
                     /\ Enqueue(k, "handler", <<result, Snapshot>>)
                ELSE /\ Enqueue(k, "handler", <<result>>)
                     /\ UNCHANGED session
      BY <2>9 DEF ReceiveRegistry
    <3> DEFINE result == [type |-> "asset_registry_result", ver |-> version, accepted |-> accepted]
    <3>2. result \in ServerMessage /\ result.type = "asset_registry_result"
      <4>1. accepted \in BOOLEAN
        BY BridgeConstants DEF BridgeConstants
      <4> QED
        BY <1>1, <4>1, Messages
    <3>3. /\ h.type = "asset_registry" /\ session[k].phase = "AWAITING_ASSET_REGISTRY"
          /\ UNCHANGED trip
      BY <2>9 DEF ReceiveRegistry, Receive, Admitted, Expected, authority
    <3>4. CASE accepted
      <4>1. Enqueue(k, "handler", <<result, Snapshot>>)
        BY <3>1, <3>4
      <4>2. /\ session'[k].phase = "AWAITING_CLIENT_READY"
            /\ \A j \in Conn : j # k => session'[j] = session[j]
        BY <1>1, <3>1, <3>4
      <4>3. PICK c, d \in ServerMessage : c = result /\ d = Snapshot
        BY <2>5, <3>2
      <4>4. /\ <<c, d>> \in Seq(ServerMessage) /\ DOMAIN <<c, d>> = {1, 2}
            /\ <<c, d>>[1] = c /\ <<c, d>>[2] = d /\ Enqueue(k, "handler", <<c, d>>)
        BY <4>1, <4>3
      <4>5. c.type = "asset_registry_result" /\ d.type = "world_snapshot" /\ d.traveling = Traveling
        BY <2>5, <3>2, <4>3
      <4>6. \A i \in DOMAIN <<c, d>> :
              /\ <<c, d>>[i].type = "world_snapshot" => <<c, d>>[i].traveling = Traveling'
              /\ <<c, d>>[i].type = "action_ended" => trip'[<<c, d>>[i].action].phase = "ENDED"
        BY <2>3, <3>3, <4>4, <4>5
      <4>7. \A a, n : ~Accounts(h, a, n)
        BY <3>3 DEF Accounts, Movements
      <4> QED
        BY <1>2, <2>1, <2>3, <3>3, <4>2, <4>4, <4>6, <4>7, Answers
    <3>5. CASE ~accepted
      <4>1. Enqueue(k, "handler", <<result>>) /\ UNCHANGED session
        BY <3>1, <3>5
      <4> HIDE DEF result
      <4> QED
        BY <2>2, <2>6, <3>2, <3>3, <4>1 DEF Movements
    <3> QED
      BY <3>4, <3>5
  <2>10. CASE ReceiveReady(k)
    <3>1. /\ h.type = "client_ready" /\ UNCHANGED trip /\ Enqueue(k, "handler", <<Clock(version)>>)
      BY <2>10 DEF ReceiveReady, Receive, authority
    <3>2. /\ session'[k].phase = "READY"
          /\ \A j \in Conn : j # k => session'[j] = session[j]
      BY <1>1, <2>10 DEF ReceiveReady
    <3> QED
      BY <2>5, <2>6, <3>1, <3>2 DEF Movements
  <2>11. CASE ReceiveControl(k)
    <3>1. /\ h.type \notin Movements /\ UNCHANGED <<trip, session>>
          /\ Enqueue(k, "handler", <<Clock(version)>>)
      BY <2>11 DEF ReceiveControl, Receive, authority, Movements
    <3> QED
      BY <2>2, <2>5, <2>6, <3>1
  <2>12. CASE ReceiveMovement(k)
    <3>1. /\ h.type \in Movements /\ session[k].phase = "READY" /\ UNCHANGED session
          /\ h.action \in Action /\ h.agent \in Agent
      <4>1. h.type \in Movements /\ session[k].phase = "READY" /\ UNCHANGED session
        BY <2>12 DEF ReceiveMovement, Receive, Admitted, Expected, Movements
      <4> QED
        BY <1>4, <4>1, Reported
    <3>2. CASE Accepted(h)
      <4>1. /\ version' = version + 1 /\ trip[h.action].phase = "TRAVELING"
            /\ trip' = [trip EXCEPT ![h.action] = AfterReport(h)]
            /\ Enqueue(k, "handler",
                       <<About(IF h.type = "movement_arrived"
                               THEN "agent_state_delta" ELSE "action_ended", h.action)>>)
        BY <2>12, <3>2 DEF ReceiveMovement, Accepted
      <4>2. /\ trip'[h.action] = AfterReport(h)
            /\ \A a \in Action : a # h.action => trip'[a] = trip[a]
        BY <1>1, <3>1, <4>1 DEF Carried
      <4>3. /\ h.type # "movement_arrived" => AfterReport(h).phase = "ENDED"
            /\ AfterReport(h).phase = "TRAVELING"
                 => AfterReport(h).arrived = trip[h.action].arrived \cup {h.agent}
        BY DEF AfterReport, Ended, Performed
      <4>4. PICK c \in ServerMessage :
              /\ Enqueue(k, "handler", <<c>>) /\ c.action = h.action
              /\ c.type = (IF h.type = "movement_arrived" THEN "agent_state_delta" ELSE "action_ended")
        BY <1>1, <3>1, <4>1, Messages DEF About
      <4>5. /\ <<c>> \in Seq(ServerMessage)
            /\ \A i \in DOMAIN <<c>> :
                 /\ <<c>>[i].type = "world_snapshot" => <<c>>[i].traveling = Traveling'
                 /\ <<c>>[i].type = "action_ended" => trip'[<<c>>[i].action].phase = "ENDED"
        BY <2>4, <4>2, <4>3, <4>4
      <4>6. \A a \in Action :
              /\ trip[a].phase = "ENDED" => trip'[a].phase = "ENDED"
              /\ trip'[a].phase = "TRAVELING"
                   => trip[a].phase = "TRAVELING" /\ trip[a].arrived \subseteq trip'[a].arrived
        BY <4>1, <4>2, <4>3
      <4>7. \A a \in Action, n \in Agent : Accounts(h, a, n) =>
              a \notin Traveling' \/ n \in trip'[a].arrived
        BY <4>2, <4>3 DEF Accounts, Traveling
      <4> QED
        BY <1>2, <2>1, <3>1, <4>4, <4>5, <4>6, <4>7, Answers
    <3>3. CASE ~Accepted(h)
      <4>1. Enqueue(k, "handler", <<Snapshot>>) /\ UNCHANGED trip
        BY <2>12, <3>3 DEF ReceiveMovement, authority
      <4>2. PICK c \in ServerMessage : c = Snapshot
        BY <2>5
      <4>3. /\ <<c>> \in Seq(ServerMessage) /\ Enqueue(k, "handler", <<c>>)
            /\ \A i \in DOMAIN <<c>> :
                 /\ <<c>>[i].type = "world_snapshot" => <<c>>[i].traveling = Traveling'
                 /\ <<c>>[i].type = "action_ended" => trip'[<<c>>[i].action].phase = "ENDED"
            /\ \E i \in DOMAIN <<c>> : <<c>>[i].type = "world_snapshot"
        BY <2>3, <2>4, <2>5, <4>1, <4>2
      <4> QED
        BY <1>2, <2>1, <2>3, <3>1, <4>1, <4>3, Answers
    <3> QED
      BY <3>2, <3>3
  <2> QED
    BY <1>6, <2>7, <2>8, <2>9, <2>10, <2>11, <2>12 DEF Handle
<1> QED
  BY <1>5, <1>6

(* The client's reaction; before a restart of the server it ignores only   *)
(* what it has no use for.                                                 *)
LEMMA ProcessForgets ==
  ASSUME OInv, Kept, faults.restarts = 0, NEW k \in Conn, Process(k)
  PROVE  Kept'
<1>1. /\ Typed /\ Carried /\ version \in Nat
      /\ applied \in Nat \cup {-1} /\ floor \in Nat \cup {-1}
  BY Split DEF OInv, Types, Carried
<1>2. Deliver(k)
  BY DEF Process, Ignore, Apply, ApplyServerHello, ApplyRegistryResult, ApplyWorldSnapshot,
         ApplyStateMessage
<1>3. UNCHANGED <<trip, generation, handler, session, sendq, link, cgen, inflight, floor>>
  BY <1>2 DEF Deliver, server, authority, gate
<1> DEFINE h == Head(down[k])
<1>4. /\ h \in UnderWay(k) /\ h \in ServerMessage
      /\ \A j \in Conn : UnderWay(j)' \subseteq UnderWay(j)
      /\ \A m \in UnderWay(k)' : NotAfter(h, m)
      /\ \A j \in Conn : UnderWay(j) \subseteq UnderWay(j)' \cup (IF j = k THEN {h} ELSE {})
  <2>1. /\ h \in UnderWay(k)
        /\ \A j \in Conn : UnderWay(j)' \subseteq UnderWay(j)
        /\ \A m \in UnderWay(k)' : NotAfter(h, m)
    BY <1>1, <1>2, WireDelivers DEF OInv
  <2>2. h \in ServerMessage
    BY <1>1, <2>1, WayTyped
  <2>3. ASSUME NEW j \in Conn, NEW m \in UnderWay(j), j = k => m # h
        PROVE  m \in UnderWay(j)'
    <3>1. /\ down[k] \in Seq(ServerMessage) /\ down[k] # << >>
          /\ down'[k] = Tail(down[k]) /\ \A l \in Conn : l # k => down'[l] = down[l]
      BY <1>1, <1>2 DEF Deliver, Carried
    <3>2. CASE \E i \in DOMAIN down[j] : m = down[j][i]
      <4>1. PICK i \in DOMAIN down[j] : m = down[j][i]
        BY <3>2
      <4>2. CASE j = k
        <5>1. h = down[k][1] /\ i # 1
          BY <2>3, <3>1, <4>1, <4>2, TakenOff
        <5>2. DOMAIN down[k] = 1 .. Len(down[k]) /\ Len(down[k]) \in Nat
          BY <3>1
        <5>3. i - 1 \in 1 .. Len(down[k]) - 1 /\ (i - 1) + 1 = i
          BY <4>1, <4>2, <5>1, <5>2
        <5>4. DOMAIN Tail(down[k]) = 1 .. Len(down[k]) - 1
          BY <3>1
        <5>5. down'[k][i - 1] = down[k][i] /\ i - 1 \in DOMAIN down'[k]
          BY <3>1, <5>3, <5>4, TakenOff
        <5> QED
          BY <4>1, <4>2, <5>5 DEF UnderWay
      <4>3. CASE j # k
        BY <3>1, <4>1, <4>3 DEF UnderWay
      <4> QED
        BY <4>2, <4>3
    <3>3. CASE \E b \in DOMAIN sendq : sendq[b].conn = j /\
                 \E i \in DOMAIN sendq[b].msgs : m = sendq[b].msgs[i]
      BY <1>3, <3>3 DEF UnderWay
    <3> QED
      BY <3>2, <3>3 DEF UnderWay
  <2> HIDE DEF h
  <2> QED
    BY <2>1, <2>2, <2>3
<1>5. Newest' /\ Attended' /\ EndsTold' /\ Offers'
  BY <1>3, <1>4 DEF Kept, Newest, Attended, EndsTold, Offers, Traveling
<1>6. \/ UNCHANGED up
      \/ /\ ApplyServerHello(k) \/ ApplyWorldSnapshot(k)
         /\ \E m \in ClientMessage :
              /\ Send(m) /\ (ApplyServerHello(k) => m.type = "asset_registry")
  <2>1. CASE ApplyServerHello(k)
    <3>1. h.ver \in Nat
      BY <1>4, <2>1, Messages DEF ApplyServerHello, Apply, Versioned
    <3>2. /\ Outbound("asset_registry", h.ver) \in ClientMessage
          /\ Outbound("asset_registry", h.ver).type = "asset_registry"
      BY <3>1, Reported DEF Outbound
    <3>3. Send(Outbound("asset_registry", h.ver))
      BY <2>1 DEF ApplyServerHello
    <3> QED
      BY <2>1, <3>2, <3>3
  <2>2. CASE ApplyWorldSnapshot(k)
    <3>1. h.ver \in Nat
      BY <1>4, <2>2, Messages DEF ApplyWorldSnapshot, Apply, Versioned
    <3>2. Outbound("client_ready", h.ver) \in ClientMessage
      BY <3>1, Reported
    <3>3. UNCHANGED up \/ Send(Outbound("client_ready", h.ver))
      BY <2>2 DEF ApplyWorldSnapshot
    <3>4. ApplyServerHello(k) => FALSE
      BY <2>2 DEF ApplyServerHello, ApplyWorldSnapshot, Apply
    <3> QED
      BY <2>2, <3>2, <3>3, <3>4
  <2> QED
    BY <2>1, <2>2 DEF Process, Ignore, ApplyRegistryResult, ApplyStateMessage
<1>7. \A j \in Conn :
        /\ j # cgen => up'[j] = up[j]
        /\ \A i \in DOMAIN up[j] : i \in DOMAIN up'[j] /\ up'[j][i] = up[j][i]
        /\ ~ApplyWorldSnapshot(k) => \A i \in DOMAIN up'[j] :
             \/ i \in DOMAIN up[j] /\ up'[j][i] = up[j][i]
             \/ up'[j][i].type = "asset_registry"
  <2>1. CASE UNCHANGED up
    BY <2>1
  <2>2. ASSUME NEW m \in ClientMessage, Send(m), ApplyServerHello(k) \/ ApplyWorldSnapshot(k),
               ApplyServerHello(k) => m.type = "asset_registry"
        PROVE  \A j \in Conn :
                 /\ j # cgen => up'[j] = up[j]
                 /\ \A i \in DOMAIN up[j] : i \in DOMAIN up'[j] /\ up'[j][i] = up[j][i]
                 /\ ~ApplyWorldSnapshot(k) => \A i \in DOMAIN up'[j] :
                      \/ i \in DOMAIN up[j] /\ up'[j][i] = up[j][i]
                      \/ up'[j][i].type = "asset_registry"
    BY <1>1, <2>2, Grows
  <2> QED
    BY <1>6, <2>1, <2>2
<1>8. Unopened'
  <2>1. \A j \in Conn : j > cgen => j # cgen
    BY DEF OInv, IInv, Types, Conn
  <2> QED
    BY <1>3, <1>7, <2>1 DEF Kept, Unopened
<1>9. Unready'
  <2>1. CASE ApplyWorldSnapshot(k)
    <3>1. cstate' = "Ready" /\ cstate \in {"AwaitingWorldSnapshot", "Ready"}
      BY <2>1 DEF ApplyWorldSnapshot, Apply, Applies
    <3>2. ~inflight
      BY <3>1 DEF OInv, Floored
    <3> QED
      BY <1>3, <3>1, <3>2 DEF Unready, HandshakeStates
  <2>2. CASE ~ApplyWorldSnapshot(k)
    <3>1. cstate' \in HandshakeStates => cstate \in HandshakeStates
      BY <2>2 DEF Process, Ignore, ApplyServerHello, ApplyRegistryResult, ApplyStateMessage, Apply,
                  Applies, HandshakeStates
    <3> SUFFICES ASSUME NEW j \in Conn, j = cgen, inflight \/ cstate \in HandshakeStates
                 PROVE  /\ session[j].phase # "READY"
                        /\ \A i \in DOMAIN up'[j] : up'[j][i].type # "client_ready"
      BY <1>3, <3>1 DEF Unready
    <3>2. /\ session[j].phase # "READY"
          /\ \A i \in DOMAIN up[j] : up[j][i].type # "client_ready"
      BY DEF Kept, Unready
    <3> QED
      BY <1>7, <2>2, <3>2
  <2> QED
    BY <2>1, <2>2
<1>10. Versioned(h) => h.ver \in Nat
  BY <1>4, Messages
<1>11. cstate = "Ready" => floor <= applied
  BY DEF Kept, Level
<1>12. k = cgen /\ cstate = "Ready" /\ Versioned(h) => h.ver >= applied /\ h.ver >= floor
  <2>1. k = cgen /\ cstate = "Ready" /\ Versioned(h) => h.ver >= applied
    BY <1>4 DEF OInv, Shown
  <2> HIDE DEF h
  <2> QED
    BY <1>1, <1>10, <1>11, <2>1
<1>13. Level'
  <2>1. CASE ApplyWorldSnapshot(k)
    BY <1>3, <2>1 DEF ApplyWorldSnapshot, Apply, Applies, Level
  <2>2. CASE ApplyStateMessage(k)
    <3>1. k = cgen /\ cstate = "Ready" /\ Versioned(h) /\ applied' = h.ver
      BY <2>2 DEF ApplyStateMessage, Apply, Applies, OfThisConnection, Versioned
    <3> HIDE DEF h
    <3> QED
      BY <1>1, <1>3, <1>10, <1>12, <3>1 DEF Level
  <2>3. CASE Ignore(k) \/ ApplyServerHello(k) \/ ApplyRegistryResult(k)
    BY <1>3, <1>11, <2>3 DEF Ignore, ApplyServerHello, ApplyRegistryResult, Level
  <2> QED
    BY <2>1, <2>2, <2>3 DEF Process
<1>14. Remembered' /\ ToldAfter'
  <2>1. CASE Ignore(k) /\ k # cgen
    <3>1. UNCHANGED <<up, cstate, walking>>
      BY <2>1 DEF Ignore
    <3>2. \A j \in Conn : j = cgen => UnderWay(j)' = UnderWay(j)
      BY <1>4, <2>1
    <3> QED
      BY <1>3, <3>1, <3>2 DEF Kept, Remembered, ToldAfter, Served, Traveling
  <2>2. CASE ApplyServerHello(k) \/ ApplyRegistryResult(k)
    <3>1. cstate' # "Ready"
      BY <2>2 DEF ApplyServerHello, ApplyRegistryResult
    <3> QED
      BY <3>1 DEF Remembered, ToldAfter
  <2>3. CASE Ignore(k) /\ k = cgen
    <3>1. UNCHANGED <<up, cstate, walking>> /\ ~Applies(h)
      BY <2>3 DEF Ignore, OfThisConnection
    <3>2. CASE cstate = "Ready"
      <4>1. \A a : ~Names(h, a) /\ h.type # "action_started"
        BY <1>12, <2>3, <3>1, <3>2 DEF Applies, Names, Versioned
      <4>2. \A a : \A m \in UnderWay(k) : Names(m, a) \/ m.type = "action_started"
                                          => m \in UnderWay(k)'
        BY <1>4, <4>1
      <4>3. Remembered'
        BY <1>3, <2>3, <3>1, <4>2 DEF Kept, Remembered, Served, Traveling
      <4>4. ToldAfter'
        BY <1>3, <1>4, <2>3, <3>1, <4>2 DEF Kept, ToldAfter, Served, Traveling
      <4> QED
        BY <4>3, <4>4
    <3>3. CASE cstate # "Ready"
      BY <3>1, <3>3 DEF Remembered, ToldAfter
    <3> QED
      BY <3>2, <3>3
  <2>4. CASE ApplyWorldSnapshot(k)
    <3>1. /\ k = cgen /\ h.type = "world_snapshot" /\ walking' = Walkers(h.traveling)
          /\ cstate \in {"AwaitingWorldSnapshot", "Ready"}
      BY <2>4 DEF ApplyWorldSnapshot, Apply, OfThisConnection, Applies
    <3>2. \A a \in Traveling : \A n : n \in Party[a] /\ a \in h.traveling => <<a, n>> \in walking'
      <4>1. \A a \in Action : Party[a] \subseteq Agent
        BY BridgeConstants DEF BridgeConstants
      <4> QED
        BY <3>1, <4>1 DEF Traveling, Walkers
    <3>3. CASE cstate = "Ready"
      <4>1. ASSUME Served(k), NEW a \in Traveling, a \notin h.traveling
            PROVE  \E m \in UnderWay(k)' : m.type = "action_started" /\ m.action = a
        <5>1. PICK m \in UnderWay(k) : m.type = "action_started" /\ m.action = a
          BY <1>4, <3>1, <3>3, <4>1 DEF Kept, ToldAfter
        <5>2. m # h
          BY <3>1, <5>1
        <5> QED
          BY <1>4, <5>1, <5>2
      <4>2. Remembered'
        <5> SUFFICES ASSUME Served(k), NEW a \in Traveling, NEW n \in Party[a] \ trip[a].arrived
                     PROVE  \/ <<a, n>> \in walking'
                            \/ \E m \in UnderWay(k)' : Names(m, a)
          BY <1>3, <3>1 DEF Remembered, Served, Traveling
        <5> QED
          BY <3>2, <4>1 DEF Names
      <4>3. ToldAfter'
        <5> SUFFICES ASSUME Served(k), NEW a \in Traveling, NEW s \in UnderWay(k)',
                            s.type = "world_snapshot", a \notin s.traveling
                     PROVE  \E m \in UnderWay(k)' : m.type = "action_started" /\ m.action = a /\ s.ver < m.ver
          BY <1>3, <3>1 DEF ToldAfter, Served, Traveling
        <5>1. PICK m \in UnderWay(k) : m.type = "action_started" /\ m.action = a /\ s.ver < m.ver
          BY <1>4, <3>1, <3>3 DEF Kept, ToldAfter
        <5>2. m # h
          BY <3>1, <5>1
        <5> QED
          BY <1>4, <5>1, <5>2
      <4> QED
        BY <4>2, <4>3
    <3>4. CASE cstate = "AwaitingWorldSnapshot"
      <4>1. ASSUME Served(k)
            PROVE  \A m \in UnderWay(k) : m.type = "world_snapshot" => m.traveling = Traveling
        <5>1. handler[k] = "serving"
          BY <4>1 DEF Served
        <5>2. k = generation
          BY <3>1, <5>1, Ours
        <5>3. session[k].phase # "READY"
          BY <3>1, <3>4 DEF Kept, Unready, HandshakeStates
        <5>4. session[k].phase # "DISCONNECTED" /\ session[k].phase \in Phases
          BY <5>1 DEF Kept, Attended, OInv, IInv, Types
        <5> QED
          BY <5>2, <5>3, <5>4 DEF Kept, Offers
      <4>2. Remembered'
        <5> SUFFICES ASSUME Served(k), NEW a \in Traveling, NEW n \in Party[a] \ trip[a].arrived
                     PROVE  <<a, n>> \in walking'
          BY <1>3, <3>1 DEF Remembered, Served, Traveling
        <5> QED
          BY <1>4, <3>1, <3>2, <4>1
      <4>3. ToldAfter'
        <5> SUFFICES ASSUME Served(k), NEW a \in Traveling, NEW s \in UnderWay(k)',
                            s.type = "world_snapshot", a \notin s.traveling
                     PROVE  FALSE
          BY <1>3, <3>1 DEF ToldAfter, Served, Traveling
        <5> QED
          BY <1>4, <4>1
      <4> QED
        BY <4>2, <4>3
    <3> QED
      BY <3>1, <3>3, <3>4
  <2>5. CASE ApplyStateMessage(k)
    <3>1. /\ k = cgen /\ cstate = "Ready" /\ UNCHANGED <<up, cstate>> /\ Versioned(h)
          /\ h.type \in {"clock", "agent_state_delta", "action_started", "action_ended"}
          /\ walking' = CASE h.type = "action_started" -> walking \cup Walkers({h.action})
                          [] h.type = "action_ended" -> walking \ Walkers({h.action})
                          [] OTHER -> walking
      BY <2>5 DEF ApplyStateMessage, Apply, OfThisConnection, Applies, Versioned
    <3>2. h.type = "action_ended" => trip[h.action].phase = "ENDED"
      BY <1>4 DEF Kept, EndsTold
    <3>3. \A a \in Traveling : \A n : <<a, n>> \in walking => <<a, n>> \in walking'
      <4>1. ASSUME NEW a \in Traveling, NEW n, <<a, n>> \in walking, h.type = "action_ended"
            PROVE  <<a, n>> \notin Walkers({h.action})
        <5>1. a # h.action
          BY <3>2, <4>1 DEF Traveling
        <5> QED
          BY <5>1 DEF Walkers
      <4> QED
        BY <3>1, <4>1
    <3>4. \A a \in Traveling : \A n \in Party[a] : Names(h, a) => <<a, n>> \in walking'
      <4>1. \A a \in Action : Party[a] \subseteq Agent
        BY BridgeConstants DEF BridgeConstants
      <4>2. ASSUME NEW a \in Traveling, NEW n \in Party[a], Names(h, a)
            PROVE  <<a, n>> \in walking'
        <5>1. h.type = "action_started" /\ h.action = a /\ a \in Action /\ n \in Agent
          BY <3>1, <4>1, <4>2 DEF Names, Traveling
        <5>2. <<a, n>> \in Walkers({h.action})
          BY <5>1 DEF Walkers
        <5>3. walking' = walking \cup Walkers({h.action})
          BY <3>1, <5>1
        <5> QED
          BY <5>2, <5>3
      <4> QED
        BY <4>2
    <3>5. Remembered'
      <4> SUFFICES ASSUME Served(k), NEW a \in Traveling, NEW n \in Party[a] \ trip[a].arrived
                   PROVE  \/ <<a, n>> \in walking'
                          \/ \E m \in UnderWay(k)' : Names(m, a)
                          \/ \E i \in DOMAIN up[k] : Accounts(up[k][i], a, n)
        BY <1>3, <3>1 DEF Remembered, Served, Traveling
      <4>1. \/ <<a, n>> \in walking
            \/ \E m \in UnderWay(k) : Names(m, a)
            \/ \E i \in DOMAIN up[k] : Accounts(up[k][i], a, n)
        BY <3>1 DEF Kept, Remembered
      <4> QED
        BY <1>4, <3>3, <3>4, <4>1
    <3>6. ToldAfter'
      <4> SUFFICES ASSUME Served(k), NEW a \in Traveling, NEW s \in UnderWay(k)',
                          s.type = "world_snapshot", a \notin s.traveling
                   PROVE  \E m \in UnderWay(k)' : m.type = "action_started" /\ m.action = a /\ s.ver < m.ver
        BY <1>3, <3>1 DEF ToldAfter, Served, Traveling
      <4>1. PICK m \in UnderWay(k) : m.type = "action_started" /\ m.action = a /\ s.ver < m.ver
        BY <1>4, <3>1 DEF Kept, ToldAfter
      <4>2. m # h
        <5>1. h.ver <= s.ver
          BY <1>4, <3>1 DEF NotAfter, Versioned
        <5>2. s \in UnderWay(k)
          BY <1>4
        <5>3. s.ver \in Nat /\ h.ver \in Nat
          BY <1>1, <1>10, <3>1, <5>2, WayTyped, Messages DEF Versioned
        <5> HIDE DEF h
        <5>4. m = h => h.ver <= s.ver /\ s.ver < h.ver
          BY <4>1, <5>1
        <5> QED
          BY <5>3, <5>4
      <4> QED
        BY <1>4, <4>1, <4>2
    <3> QED
      BY <3>5, <3>6
  <2> QED
    BY <2>1, <2>2, <2>3, <2>4, <2>5 DEF Process
<1> QED
  BY <1>5, <1>8, <1>9, <1>13, <1>14 DEF Kept

(* As long as the server has not been started anew, nobody is forgotten.   *)
KInv == OInv /\ (faults.restarts = 0 => Kept)

(* A step before the first restart of the server is not one.               *)
LEMMA RestartsCount ==
  ASSUME Typed, [Next]_vars, faults'.restarts = 0
  PROVE  faults.restarts = 0 /\ ~ServerRestart
<1>1. faults \in Faults
  BY Split DEF Carried
<1>2. ~ServerRestart
  <2>1. ASSUME ServerRestart PROVE FALSE
    <3>1. faults'.restarts = faults.restarts + 1 /\ faults.restarts \in Nat
      BY <1>1, <2>1 DEF Faults, ServerRestart
    <3> QED
      BY <3>1
  <2> QED
    BY <2>1
<1>3. faults'.restarts = faults.restarts
  BY <1>1, <1>2
     DEF Faults, Next, Tick, SendNext, OpenSession, HandlerEnds, Handle, ReceiveRepeat, ReceiveRefused,
         ReceiveHello, ReceiveRegistry, ReceiveReady, ReceiveMovement, ReceiveControl, Receive,
         Process, Ignore, ApplyServerHello, ApplyRegistryResult, ApplyWorldSnapshot,
         ApplyStateMessage, Apply, Deliver, Connect, Connected, ConnectFails,
         SendHello, NoticeEnd, HandshakeTimeout, ReconnectDelay, Report, RequestClock,
         ConnectionLost, Retransmit, vars
<1> QED
  BY <1>2, <1>3

(* Every step keeps it.                                                    *)
LEMMA KeptKeeps == ASSUME KInv, [Next]_vars PROVE KInv'
<1>1. OInv'
  BY OrderKeeps DEF KInv
<1>2. ASSUME faults'.restarts = 0 PROVE Kept'
  <2>1. faults.restarts = 0 /\ ~ServerRestart /\ OInv /\ Kept
    BY <1>2, RestartsCount DEF KInv, OInv
  <2>2. CASE UNCHANGED vars
    <3>1. UNCHANGED <<trip, generation, handler, session, sendq, link, up, down, cstate, cgen,
                      inflight, applied, floor, walking>>
      BY <2>2 DEF vars, server, wire, client, reconnecting, authority, gate
    <3>2. \A j \in Conn : UnderWay(j)' = UnderWay(j)
      BY <3>1 DEF UnderWay
    <3>3. Newest' /\ Unopened' /\ Attended' /\ Unready' /\ EndsTold' /\ Offers' /\ Level'
      BY <2>1, <3>1, <3>2 DEF Kept, Newest, Unopened, Attended, Unready, EndsTold, Offers, Level, Traveling
    <3>4. Remembered' /\ ToldAfter'
      BY <2>1, <3>1, <3>2 DEF Kept, Remembered, ToldAfter, Served, Traveling
    <3> QED
      BY <3>3, <3>4 DEF Kept
  <2> QED
    BY <2>1, <2>2, TickForgets, SendForgets, OpenForgets, HandleForgets, EndForgets,
       ProcessForgets, ApartKeeps, SpeaksKeeps DEF Next
<1> QED
  BY <1>1, <1>2 DEF KInv

(* NobodyForgotten holds always: before the server is started anew, a      *)
(* ready client and its server with nothing left to tell each other agree  *)
(* on who is on the way; no rejected report, resynchronisation or          *)
(* reconnection leaves a trip to its timeout.                              *)
THEOREM AllRemembered == Spec => []NobodyForgotten
<1>1. Init => KInv
  BY InitiallyInOrder, InitiallyKept DEF KInv
<1>2. KInv /\ [Next]_vars => KInv'
  BY KeptKeeps
<1>3. KInv => NobodyForgotten
  <2> SUFFICES ASSUME KInv, faults.restarts = 0, cgen > 0, cstate = "Ready", Quiet(cgen),
                      NEW a \in Action, trip[a].phase = "TRAVELING",
                      NEW n \in Party[a] \ trip[a].arrived
               PROVE  <<a, n>> \in walking
    BY DEF NobodyForgotten
  <2>1. cgen \in Conn
    BY DEF KInv, OInv, IInv, Types, Conn
  <2>2. Served(cgen) /\ a \in Traveling
    BY DEF Quiet, Served, Traveling
  <2>3. DOMAIN up[cgen] = {} /\ UnderWay(cgen) = {}
    BY DEF Quiet, UnderWay
  <2> QED
    BY <2>1, <2>2, <2>3 DEF KInv, Kept, Remembered
<1> QED
  BY <1>1, <1>2, <1>3, PTL DEF Spec
=============================================================================
