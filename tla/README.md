# A verified model of the small town world model

This directory holds TLA+ modules, TLC configurations and TLAPS proofs for the
Python authority of the town under `src/python/town_core` and for its bridge to
the Unity client under `src/unity`. A module is read next to the code:
`PROJECT.json` maps every definition to the lines it models and lists the runs,
the mutants, the findings, the hazards and the theorems.

## 1. Inventory

The program simulates a town of agents minute by minute. One Python process is
the only authority over its state; a Unity client shows it and reports how
bodies move. Everything runs on one asyncio thread: the engine is synchronous
code, so its methods never overlap, and concurrency enters with the two tasks of
the server (the message handler of a connection and the clock loop) and with the
client, which is a process of its own.

| Component | State | Operations | Meets |
|---|---|---|---|
| Society authority, M3 (`society/engine.py`, `rules.py`, `invariants.py`, `initialization.py`) | `AuthorityCheckpoint`: minute, version, agents, households, locations, objects, active actions, reservations, knowledge, work sessions | `advance_to`, `report_movement_arrived/failed/cancelled`, `cancel_action`, `fail_action` | called by the M3 runtime and by headless runs; validates every commit |
| M1 simulation engine (`simulation/`) | `WorldState` of one resident, work session, event ledger | `advance_to`, movement reports | called by the M2 runtime, by `simulation/run.py` |
| Bridge runtime (`bridge/runtime.py`, `m3_runtime.py`) | session generation, ready generation, pause, time scale, message counter | open, mark ready, disconnect, clock controls, movement inputs, one-minute advance | owns an engine; called by session and server |
| Bridge session (`bridge/session.py`, `m3_session.py`) | handshake phase, accepted registry, snapshot version, processed message ids | `receive_json`, `disconnect` | one per connection, over the runtime |
| Bridge server (`bridge/server.py`, `m3_server.py`) | active connection, send lock | connection handler, clock loop | websocket peers; two tasks share the runtime |
| Scene registry (`bridge/registry.py`, `m3_registry.py`) | none | compare a scene's registry with the catalog | called by the handshake |
| Society persistence (`society/checkpoint.py`, `run.py`, `replay.py`) | checkpoint files, `authority.jsonl`, report files | write and load a checkpoint, run days, verify a replay | headless runs of the M3 engine |
| M1 run and replay (`simulation/run.py`, `events/ledger.py`, `replay/runner.py`) | event list, world files | append, write, replay | headless runs of the M1 engine |
| Decision (`decision/`, `society/rules.py`) | none | enumerate and score candidates, draw outcomes | called by the engines |
| Society transactions (`society/transactions.py`, `simulation/transactions.py`) | none | the difference of two commits; its application to a checkpoint | the runs write differences, the replays apply them |
| Domain and protocol models, CLI | none | validate, wire | everything |
| Catalog loading (`catalogs/loader.py`, `m3_loader.py`) | catalogs, object manifest, dialogue lines | read and cross-check | both engines, the scene registry |
| Evidence producers (`*qa_adapter.py`, `m3_release_producer.py`, `m3_targeted_evidence.py`, `tools/diagnostics`) | reports | run the program and collect | command line |
| Unity client (`unity/Assets/AITown/Scripts`) | connection state and generation, last applied version, presented actions, navigation of every NPC | connect, handshake, apply messages, report movement | the bridge, over a websocket |

Which behaviours are hard:

* *A minute of the society engine* is a long sequence on a private copy of the
  checkpoint: progress every action, let every free agent decide on candidates
  enumerated before anybody acted, then validate everything and install it or
  raise. A raise loses the minute; the clock loop then tries the same minute
  again (`bridge/m3_server.py:162`).
* *Who uses what* is recorded in five places (actions, `current_action_id`,
  location membership, reservations, occupied slots) that every method edits.
* *Shared trips*: participants of one action arrive in any order, between ticks,
  and the trip may fail, be cancelled or time out at any point.
* *Shared budgets*: members of a household reserve from one balance.
* *Invitations* end one action and create another in the same commit.
* *Connections* are replaced while messages of the old one are in flight; the
  clock may only run for the connection that is ready.
* *Runs* append to a log and write checkpoints that a crash may separate.
* *Shifts* are settled in the one minute in which they end, from what breaks, late
  starts, closing hours and needs left of them; wages are paid there once.
* *Talk* opens, carries on and ends conversations from both sides, in the minute in
  which others witness it, learn of it and pass it on.
* *What the client shows* is put together from differences: one commit may end an
  action, free its slot and give it to another.
* *Catalogs and scenes* are validated in three places, each of which sees a part.

The hazards in `PROJECT.json` list each of these at its line.

What makes each component correct:

* Society authority: the records agree after every step; nothing is overbooked,
  overspent or paid twice; no participant acts before all of them are there;
  nobody is left on the road; every commit leaves everybody engaged; no reachable
  state makes a commit raise (headless), and the clock gets through.
* Bridge: only the current connection changes or advances the town; the clock
  stands until the client accepted the snapshot it was sent; an input is applied
  at most once however often it is sent; a refused input leaves the town alone.
* Needs, shifts and talk: every wage, price and meal is accounted for; a break never
  costs the wage; who starves looks for food, though another may be served first;
  whatever is known goes back to a witness; a conversation is opened and ended once,
  and an agent confronts another about an offence once.
* M1 engine: one work session per shift, paid once, its events in order; every
  minute finds something to do.
* Persistence: resuming from any crash point yields a log without loss or
  repetition, and a loaded checkpoint is the one that was written.
* Unity client: it shows one authority's state, of one connection, and reports
  each movement against the state it was told of.
* Loading: what the validators accept gives everybody its own bed, seat and post,
  and the client finds every object an action is bound to.

## 2. Modules

| Module | What it is |
|---|---|
| `Society` | the M3 authority: one action per step of a minute and per report; who uses what |
| `Engagements` | the abstract promise of `Society`: resources are taken, held and given back in whole sets |
| `Rulebook`, `SocietyDay` | the rules of M3 that choose what a free agent does, and days of needs, shifts, breaks, wages, food and money under them |
| `Talk` | the social half of M3: conversations, cooldowns, tension, knowledge and who passes it on |
| `TownEngine` | the whole M1 engine, headless and live: minutes, trips, reports, work sessions, the ledger |
| `TownBridge` | the M2 bridge composed with the live `TownEngine` |
| `Bridge` | the M3 bridge: server, wire and Unity client, with their faults |
| `Handover` | the abstract promise of both bridges: whose the world is, and what it saw before it got it |
| `Presentation` | what M3 tells the client of a commit, and what the client shows of it |
| `Persistence` | headless runs of M1 and M3 on disk, their crashes, resumption and replay |
| `TownSetup` | loading catalogs, building the world, validating the scene, and using the objects |
| `MC...` | the small instances for TLC |
| `SocietyProofs`, `SocietyDayProofs`, `BridgeProofs`, `TownEngineProofs`, `TownBridgeProofs`, `PersistenceProofs`, `TownSetupProofs` | the theorems of section 4 |
| `Totals` | totals over finite sets: what proofs about money, food and minutes need |

The M3 engine is divided by what its parts share. `Society` has the claims on
slots, rooms, money and food and the way a minute interleaves agents; there a
decision is any choice among what can be enumerated, so that needs, shifts and
talk can only narrow it. `SocietyDay` has the numbers and the rules, with agents
that act alone; `Talk` has what passes between agents, with any ranking. The
modules of the M3 bridge meet `Society` in `state_version`: what is one commit
or one report there is one step of `version` here.

### `Society`

`auth` is `SocietyEngine.checkpoint`. `ctx` is the `_TickContext`, a record `w`
that every method edits in the code; here each method is an operator from
contexts to contexts with the method's name (`CreateAction`, `ArriveParticipants`,
`FinishArrivalBarrier`, `TerminateAction`, ...). `stage` and `todo` say where
`_advance_one_minute` is. Its phases are actions:

| Action | Code |
|---|---|
| `BeginTick` | `_advance_one_minute`: copy the checkpoint, next minute |
| `ProgressAction` | the loop of `_progress_actions`, one action in id order |
| `BeginDecisions` | the first pass of `_decide_due_agents`: who is free, on which state |
| `SkipCommitted(p)`, `DecideAgent(p)` | its second pass for one agent: taken meanwhile; best candidate, else idle, else raise |
| `Commit` | `_commit` with `assert_society_invariants` |
| `MovementArrived`, `MovementEnded`, `EndAction` | `report_movement_*`, `cancel_action`, `fail_action`, each a commit of its own |

The engine is synchronous, so reports only run between minutes (`stage = "idle"`)
while each step of a minute is a state of its own: the invariants hold *inside* a
minute, where the code checks nothing. A candidate's score and the order of
ranked agents are a choice among everything that can be enumerated, which covers
every weighting and every random draw; times of day and cooldowns only remove
candidates, and idle is always one. The shift's fixed start is kept (`startsAt`),
because it makes an action wait in ALIGNING after its arrival. `Engagements` sees
of all this only which active action holds which agents and slots; `HeldWhole`
is the refinement.

### `Rulebook` and `SocietyDay`

`day` is the checkpoint after a minute; `Advance` is one whole
`_advance_one_minute` in the order of the code: needs are felt, running actions
progress and settle, shifts that end are settled, crises are announced, and each
free agent decides by the rules of `Rulebook` on the state before anybody
decided. `FailAction` is `fail_action`. `Rulebook` computes candidates, durations
and scores, in hundredths of a utility point; the hash that draws durations and
noise is any value in its range. What may rank first is therefore every
candidate whose best score reaches the others' worst.

### `Talk`

`t` is the context; `Advance` is a minute: what was said before ends and takes
effect, in the order of action ids, then free agents choose. Effects open, carry
on and end conversations, set cooldowns, move tension, stage events and add
knowledge for participants, witnesses and those who are told. Then shifts end:
whoever may have missed one (`Absences`, since the shifts are `SocietyDay`'s)
burdens all its coworkers with one event and turns each of them a little against
it (`Burdened`). The cause of a confrontation is any such event, or any quarrel, of
which both agents are participants, as actor or as affected (`Causes`). Whether an
invitation, apology or confrontation is accepted is a choice.

### `TownEngine`

`town` is the `WorldState` with the engine's private records, `raised` whether a
call raised. The three actions are the engine's three kinds of call:

| Action | Code |
|---|---|
| `Advance` | `_advance_one_minute`: `ApplyNeedChanges`, `Progress`, `Finalize`, `UpdateCrises`, `OpenWindow`, `Decided`, `Commit` in this order |
| `ReportArrived` | `report_movement_arrived` |
| `ReportEnded` | `report_movement_failed`, `report_movement_cancelled` |

The utility score is any ranking (`Rankings`). A decision tries the first
candidate and then one more, and raises if both are refused.

### `TownBridge`

Every connection has a handler with its session; several may be alive at once.
`Connect` is `open_session` with the start of the handler, `ClientHello`,
`AssetRegistry` and `ClientReady` the branches of the handshake, `Refuse` a
protocol error, `Leave` the `finally` block that runs after the close was
awaited, `ClockTick` an iteration of the clock loop, and `MovementArrived`,
`MovementFailed`, `MovementCancelled`, `SetTimeScale`, `PauseRequest` the
requests of a ready client. `told` is an abstract client that keeps what the
messages of a result say of the npc.

### `Bridge`

A connection is a number, the client's `connectionGeneration`; `handler[k]` is the
coroutine `_handle_connection` that serves it, `session[k]` its `M3BridgeSession`,
`link`, `up` and `down` the websocket. `generation`, `readyGen` and `active` are
the runtime's and the server's fields of those names. The server is one asyncio
thread, so code between two awaits is one step, and the awaits are where steps
divide: a handler that processed a message (`ReceiveHello` ... `ReceiveControl`)
puts its outputs in `sendq`, the queue for `_send_lock`, and takes its next message
only after they are sent; the clock loop (`Tick`) does the same; `SendNext` sends
one message of the batch that has the lock. The client's `Update` processes frames
on Unity's main thread (`Process`), the connection attempt runs beside it
(`Connect`, `Connected`, `ConnectFails`, `SendHello`), and navigation goes on by
itself until it reports (`Report`).

| Action | Code |
|---|---|
| `OpenSession`, `HandlerEnds` | `_handle_connection`: `open_session`, and the `finally` clause |
| `ReceiveRepeat`, `ReceiveRefused`, `Receive...` | `receive_json` and one branch of `_dispatch` each; a `BridgeProtocolError` closes the connection |
| `Tick`, `SendNext` | `_clock_loop`, `_send_messages` |
| `Connect` ... `NoticeEnd`, `HandshakeTimeout`, `ReconnectDelay` | `TownBridgeClient.Connect`, `ConnectSessionAsync`, `ReceiveLoopAsync`, `HandleTransportEnded`, `Update` |
| `Apply...`, `Ignore` | `ApplyEnvelope` and the handlers it calls; dropped frames |
| `Report`, `RequestClock` | the callbacks of `NpcNavigationController`; the debug panel's requests |
| `ConnectionLost`, `Retransmit`, `ServerRestart` | faults: a lost connection takes a suffix of each direction along, a message comes twice, the server begins again |

A minute may do anything to one action that the authority may do and tells the
client so; two actions never share an agent. `ALIGNING` counts as `PERFORMING`:
neither is navigated. A `message_id` is the bit `again`. The registry is accepted
or not (`Registries`). `Ignore` may drop any message after a restart, because the
new server's ids collide with remembered ones.

### `Presentation`

A commit is prepared in `tick` by `OpenMinute`, `ProgressAction`,
`BeginDecisions`, `Decide` and `Commit`, which turns the difference of two worlds
into messages as `_messages_for_result` does. `Apply` is the client's handling of
the next message: views, joint groups, slot claims and navigation.
`NavArrives`, `NavFails` and `PresentationCompleted` are its reports,
`ReceiveMovement` and `ReceivePresented` their handling, and `Reconnect` loses
everything under way and starts from a snapshot. `wrong` records a message that
violates its own model validator, or one that the client rejects.

### `Persistence`

`disk` holds run directories, `proc` the one process that writes. `plot` says
what the deterministic engine does in each minute: actions begin and end, events
happen, agents are told of events.

| Action | Code |
|---|---|
| `StartFresh`, `Resume` | a run from the initial state; one from any stored checkpoint |
| `WriteInitial`, `WriteZero`, `Construct` | the initial files, the first checkpoint, `SocietyEngine.__init__` with its check |
| `AdvanceChunk`, `AppendRecords`, `WriteCheckpoint` | an iteration of the loop: minutes up to the next boundary, the authority log, the checkpoint |
| `WriteFinal`, `WriteLast`, `WriteSummary`, `Complete` | the end of a run |
| `ChildFails`, `Crash` | the isolated writer dies or fails; the process is killed, an append leaves a prefix |
| `Replay` | the verifier of a run that has its summary, from any checkpoint |

A hash stands for what was hashed. Canonical JSON sorts keys, so it forgets the
order of a dict; the engine's invariants do not: `Own` is what they read of the
records in the order they have, `Accepted` whether that is what each agent knows.

`report` is how the last replay ended. Two of its verdicts are exceptions and leave no
report behind: `"record"`, a record that does not follow, and `"invariants"`, a state
at the end of the log that the invariants refuse. `_verify_society_run` asserts them
after it has compared and before it reports (`replay.py:134`), so only a replay that
passes them ends in `"match"` or `"mismatch"`.

### `TownSetup`

`ReadCatalogs`, `ReadManifest` and `RegisterScene` are the three validations,
each of which may refuse; every file may have been edited. `Begin` and `End` are
the use the rules of M1 and M3 then make of the objects. The tables frozen in
the loaders are constants.

## 3. Runs

All bounds are constants of the configurations.

| Run | Instance | Shows |
|---|---|---|
| `society_headless` | three agents of two households, two homes and a cafe of two places each, television, sofa, table, a shift; four minutes | `ClaimsAgree`: the records of who uses what agree in every state; `NeverRaises`: no minute is rejected; `JointReplacesInvitation` |
| `society_live` | three agents of one household with two coins, a cafe, meals and groceries, cancellation in any phase, timeout of one minute; three minutes | `ArrivalBarrier`, `NobodyStranded`, `PromisesCovered`, `SettledOnce`, and `HeldWhole`, the refinement of `Engagements` |
| `bridge_safety` | one walker, two connections, one minute; refused registries, all reports, clock requests, timeouts; one loss, one failed attempt, one restart, one repeated message | `InOrder` on the wire, `GateAgrees`, `NobodyForgotten`, `AppliedOnce`, and `HandsOver`, the refinement of `Handover` |
| `bridge_reconnect` | one walker, four connections, two minutes, one loss, one failed attempt, under fairness | `EventuallyReady`, `TripsEnd` |
| `town_engine` | home and a shop that closes with the shift, both runtime modes, with and without a workstation; days of eight minutes, fourteen minutes, two shifts, timeout of two | `NeverRaises`, `BooksBalance`, `ShiftsRight`, `SettlementFinal` |
| `town_bridge` | two connections, three minutes, two recorded cancellations, every client | `GatesAgree`, `EvidenceTrue`, `ToldTrue` |
| `persistence` | two directories of M1 or M3, four minutes, a checkpoint every second, chunks of one and three, every plot of three kinds of minutes | `DirectoriesWhole`, `ReplaysAgree`, `HistoriesAgree`, `CheckpointsStable` |
| `persistence_resume` | one directory | *violation*: `ResumesOrReplays` |
| `society_day` | two coworkers of one household, one place at the fridge and one at a cafe's counter, a day of twelve minutes and the morning after, hungry or not, one failed action | `NeverFails`, `BreakKeepsWage`, `BooksBalance`, `NeedsHeeded` |
| `talk` | three coworkers in one cafe, a shift that any of them may have missed, four minutes, five events a run, tension from zero | `RumourHasOrigin`, `ConversationsWhole`, `NothingTwice` |
| `presentation` | two agents, a home, a cafe with two slots, two actions, four commits, one lost connection | `MessagesWellFormed`, `NothingDropped`, `ClientShowsTown` |
| `town_setup` | three npcs, two homes, one cafe; one edit in any file | `CatalogsAgree`, `OwnPlace`, `SceneShowsAll` |

Why the bounds are enough. Contention needs two agents on one slot, place or
purse and a third whose choice depends on them; a shared trip needs two travelers
with different distances; a timeout needs a trip one minute longer than the
timeout. In `Bridge` a stale report needs two messages that cross, a handover, a
frame of an obsolete connection and a world that a restart set back two
connections, and a report that spoils a handshake and is brought back by a
snapshot four in all. In `TownEngine` two shifts are needed for what is left of
the first in the second, and shop hours that end with the shift for a refused
idle fallback. In `Persistence` a resumed run of a resumed run adds nothing that
two directories do not have, since a directory is written by one process and only
read by others; chunk sizes of one and three fall on, before and across a
checkpoint. In `society_day` the shift is long enough for a first stretch, a
break and a second stretch; who starts the day hungry is starving at its first
decision, when both want the one place at the fridge. What `NeedsHeeded` says there is
not that the starving eat: the loser of a contended slot idles even where it could
have had other food (`society/engine.py:718`, as in
`python/tests/society/test_lifecycle_and_replay.py:73`), and the run has such minutes. It
says that an agent at zero hunger that could have been fed begins to idle only if
another began in the same minute what it needed. `talk` needs a third agent for
hearsay and for an offence of several, and a confrontation needs one event to be about and another minute for it to stop
counting, which is why a confrontation's cooldown is zero there, shorter than the
time its cause counts as in the catalog (90 of 360 minutes). In `town_setup` one
edit is any single mistake in any file; mistakes in two files that cancel out
are too many for a run. The theorems of section 4 do not depend on any bound.

`Cancels` is TRUE in the live run only: `cancel_action` and `fail_action` are
called by tests and by `m3_targeted_evidence.py`, not by the engine.
`CHECK_DEADLOCK` is off because a bound on the minute, on connections or on
actions stops the model where the program goes on, and in `town_setup` because a
refused catalog is the end.

Fairness. All runs but `bridge_reconnect` are checked for safety only and ask
nothing of the scheduling. `NeverRaises` and `NeverFails` say that the clock loop
and the headless loop, which do nothing but call `advance_to` again, are never
stuck. In `Bridge` (`FairSpec`) each task and thread is fair by itself: the lock
holder, every handler, the client's main thread and its connection attempt, the
reconnect timer and the noticing of a closed connection. Minutes, requests and
faults are not. A walker's arrival has strong fairness: a snapshot stops all
navigation and starts it again, but `ResetPresentationForSnapshot` leaves the NPC
where it stands, so it gets there across the interruptions. `EventuallyReady`
counts connections: each walker and each further fault may spoil one attempt, and
no more, before the client is Ready again. This is of walkers that report on a
later frame; one whose navigation fails inside the call that begins it, at each
attempt anew, is not modelled (section 6). `TripsEnd` asks nothing of a trip
after a loss: the snapshot that makes the client Ready starts the navigation
anew, and a report that had reached the server just before still closes that
connection, so the movement timeout is what ends such a trip.

Each property of a passing run has a mutant in `PROJECT.json`, a slip in one
mapped operator that the property catches (the operators commented "Slip").

## 4. Proofs

Every theorem is about the specification that TLC checks, for every value of its
constants.

### `SocietyProofs`

`TypeCorrect`, `ClaimsAlwaysAgree` (`ClaimsAgree`), `BarrierHolds`
(`ArrivalBarrier`), `NobodyIsStranded` (`NobodyStranded`), `TripsAreBounded` and
`EveryoneIsEngaged`, for every set of agents, locations and objects, every
catalog and both runtime modes. The assumptions are `SocietyConstants`: the shapes
of the catalog, positive travel times between different locations and positive
durations (`config_models.py`), and `MovementTimeout <= ExpirySlack` (15 and 60 in
the code), which is what keeps a late but not timed-out trip from holding an
expired reservation.

None of the properties is inductive. `Good` is the conjunction that every context
satisfies after every step of a minute: well-formed, ownership and membership as
in the commit's own check, and three strengthenings. `Placed` ties each
participant's place to whether it has arrived, without which nothing says where
`_terminate_action` takes somebody back from. `Ledger` says that an action lists
exactly the reservations that name it, where the code checks one direction only;
without it a release could leave a reservation behind. `Dated` ties `expires` to
`planned_end`, so that `NoneExpired` follows from the trip and performance
deadlines. `IInv` adds where the minute stands: `OnTime` for the actions that were
progressed already, `Pending` for those in `todo`. There is one lemma per method
of the engine that shows `Good` is kept, built on four shapes of change
(`Onward`, `Created`, `Ended`, `Engages`), and one step per action in `Inductive`.

`EngagementsAreKept` (`HeldWhole`: `Society` implements `Engagements`) and
`JointsReplaceInvitations` (`JointReplacesInvitation`). Every method that edits a
context has one of three shapes, `WentOn`, `ActionEnds` and `ActionBegins`, and one
lemma per method says which; what is proved of the shapes holds of the methods.
The invariant `FInv` says that the context of a minute in progress `Follows` the
checkpoint: an action that both have keeps its agents and slots, what is new has a
new id, and a joint action of the context that the checkpoint has not stands for an
invitation of the same agents that has gone (`Paired`: the agents of an action are
its actor and its target). A commit is then a step of `Engagements`
whatever happened in its minute, because resources that two actions share would
violate `Good`. `AgentsAreNotSlots` is assumed, a matter of naming in the model.

Its second half is about what is promised: `PromisesAreCovered` (`PromisesCovered`), `SettlementIsExact` (`SettledOnce`) and
`HeadlessNeverRaises` (`NeverRaises`). Their sums are those of `MapThenSumSet`, a
recursive function that is known to exist only on finite sets; `Totals` proves what
is needed of it (a total of nothing, of one more, of one less, of a part, of two
parts) by well-founded induction on cardinality.

* `PInv`: checkpoint and context are `Covered`. Completing an action takes its price
  from the balance and its reservation from the reserved; accepting a candidate is
  the only step that adds one, and checks it.
* `SInv` adds that balances of the checkpoint, less what the actions settled so far
  in the minute had reserved, are the balances of the context (`Books`), that an
  action still in `todo` is untouched, and that an action has at most one record of a
  household's resources and an invitation none (`ChargedOnce`). An invitation ends without a settlement; that
  it costs nothing is `InvitationsAreFree` (`_draft` in `rules.py` gives invitations
  no price).
* `NInv`: `Roomy` says that at every location there is room for those who are there
  together with those who have a place reserved, and that whoever is on the road has
  such a place. The capacity check of the Resolver maintains it when actions begin,
  an arrival turns a reserved place into a taken one, and an ending action gives
  places back; counting is by injections into smaller sets. The theorem assumes
  `~Live /\ ~Cancels`: live, an action that ends early takes its travelers back to
  where they came from without asking for room (`engine.py:1461`), and a full origin
  then makes the commit raise; the same holds for cancellations from outside. The
  idle fallback is accepted because `IdleIsFree` (`rules.py:149`), and the first
  checkpoint has room because the engine's constructor asserts it (`RoomAtFirst`,
  `engine.py:222`).

### `SocietyDayProofs`

`DayInvariant`, `NothingFails` (`NeverFails`) and `BreaksKeepTheWage`
(`BreakKeepsWage`), for any agents and households, any catalog and rulebook, any
week and any starting stock and needs. The assumptions are `RulebookConstants` and
`SocietyDayConstants` (shapes; the idle fallback costs nothing and is done where one
is) and `FrozenCatalog`: workplaces are open during the shift, and `take_break` is done
at work and lasts no longer than the window that `_break_preserves_completion`
leaves for it (`config/v0/behaviors.yaml`, `rules.py:920`).

`fault` names what would raise: an agent nothing is accepted for, a wage paid twice, a
second break in a shift, a balance below what was promised. None of these is excluded by one
guard. The invariant `DayInv` says of the context between any two steps (`Sound`):

* an agent's sessions have the shape of the week, none counts more minutes than
  have passed since it was begun (`SessionSound`), who is working has begun, and a
  settled wage is of a finalized session (`SettledSound`);
* a running break is the first of its shift, and what is left of the shift after
  it still completes it, unless it is finalized (`BreakSound`, `Safe`): minutes
  cannot be lost in between, because who takes a break does nothing else;
* what the running actions of a household will cost is there (`Covered`, by
  `Totals`).

A minute is a chain of folds over the agents, and each step of one concerns one
agent. `Moves` says so: the others' actions, sessions, places and wages are as they
were, and the household's books changed only by what this agent's own action holds or gave
back. One lemma per method shows `Moves` and that the agent is sound after it;
`Sound` then follows for all. A decision is harder: the candidates of everybody due
are drawn from the world before any of them decides, and an earlier one may
spend what a later one counted on. `Ready` is what a choice keeps until its turn,
because it is about the agent's own session only; money and food are asked for
again when it is accepted, and idling, which needs neither, is what remains.
The folds are taken apart by a trace of their steps (`TakesTrace`), as in
`PersistenceProofs`.

### `TownEngineProofs`

`TypeCorrect`, `NothingLeaks` (slots and reserved food are the current action's),
`TripsAreBounded`, `ShiftsAreSettled`, `SettledStaysSettled` (`SettlementFinal`),
`NothingIsRaised` (`NeverRaises`), `BooksAreBalanced` (`BooksBalance`) and
`ShiftsComeOutRight` (`ShiftsRight`), for every house, catalog, ranking and both
modes. The assumptions are `TownConstants` (shapes, travel times positive between
different places, only sleep restores energy and energy always decays) and
`FrozenCatalog`: the shift ends before midnight, the home never closes, the
workplace is open from the start to the end of the shift, and a shift is no
longer than the base duration of `work_shift` but longer than its grace. The v0
catalog satisfies the condition on the workplace only just: the cafe opens at the
minute its shift begins.

`Good` says that the agent is on the road exactly while its action travels
(`Placed`), that slots and reservations are the action's (`Held`), that a shift
being worked has its session (`Sessioned`), that a settled session belongs to a
shift that has ended (`Settled`, without which a worker could still add to it),
and where the agent can be (`Visible`, `Located`). One lemma per method shows that
a context stays `Good` and that no settled session changes (`Kept`);
`AdvanceKeeps` chains them in the order of the minute.

`NothingIsRaised` is not a matter of the Resolver alone. Idling is refused at a
workplace that has closed, and only one other candidate is tried. The proof shows
that sleep is always one more: after the needs of a minute are felt nobody is
fully rested unless it stands at home (`FeltRested`, since only a sleeper gains
energy and sleeps at home), the home is never closed and the bed is free whenever
the agent is; and at home idling itself is accepted (`SomethingAccepted`). The
commit then passes `assert_world_invariants` because `Good` contains them
(`GoodIsConsistent`).

The ledger and the books need a second invariant, `FInv`: `IInv` with `Fair` and
`Waits`.

* `Story`: the shift events the ledger has of a day are those its session lived
  through (`Lived`: started, late, paid, or finalized without pay), each once, the
  start first. The properties speak of the ledger alone, and nothing in the ledger
  says what must not come next. `AfterStart` is the order: live, a start may follow
  a missed shift, after an arrival that was reported too late.
* `Attends`: whoever began a shift that is not settled is performing it, and at
  least every minute since then is counted. From it and the grace follows, at the
  settlement, that enough minutes are there (`FinalizeFair`): `Attended` tests both,
  and they agree only because nobody leaves a shift before its end.
* `Planned` says why: work is planned to last to the end of its shift
  (`ErrandFact`, which is where the base duration matters), also after a live
  arrival has moved it. A meal is planned with its one portion.
* `Balanced`: money and food are what they were, with the wages of the days paid
  and without the meals told.

Within a minute the count is one behind until the needs are felt: `Beginning` is
`Attends` as the new minute finds it. One lemma per method keeps `Fair`, and
`AdvanceFair` chains them as `AdvanceKeeps` does.

### `BridgeProofs`

`WorldWaits` (the version a client is about to acknowledge is the authority's
own), `GatesAgree` (`GateAgrees`) and `ImplementsHandover` (`HandsOver`), for every
set of agents and actions, joint trips included, any number of connections, any
faults and any requests. The assumption is `BridgeConstants`, of which only that
the bounds are natural numbers is used. Both invariants say something of the
connection that is served, and break for one that is being closed while a minute
passes; `Granted` says that whoever is ready is the newest connection and in phase
READY, served or not. That the newest connection takes over from an older one
rests on the client: `OneLink` (at most the newest connection is open), `Rested`
(none is when it tries again) and `Opened` (the server has served none that is
newer). `StepRefines` maps `OpenSession` to `Open`, an accepted registry to
`Offer`, `client_ready` to `Grant`, minutes and accepted reports to `Write`, the
end of a handler to `Release`, a restart to `Restart`, and everything else to a
stutter.

Its second half is about what is under way on the wire: `BridgeTypes` (`TypeOK`), `SentInOrder` (`InOrder`), `NothingTwiceApplied`
(`AppliedOnce`) and `AllRemembered` (`NobodyForgotten`), under the same assumption.

`InOrder` compares any two messages on the way to one connection. `OInv` adds what
keeps a new one from being out of place: nothing on the way to the newest connection
is ahead of the authority (`NotAhead`), so what is queued now is in order behind it;
a connection that is not yet accepted has nothing on its way (`Fresh`), so taking one
over adds nothing old; and a ready client shows nothing newer than what it will still
be sent (`Shown`), which a client that is not ready keeps by refusing snapshots
older than it last showed (`Floored`). `Ordered` takes the order apart by where the
two messages stand: on the wire, in one batch, in two batches, one in each. That no
version is shown twice over (`NeverOlder`) follows from `Shown`; `RepeatIsNoOp` needs
only that a repeated message is taken by `ReceiveRepeat` and no other step.

`NobodyForgotten` is about a moment at which nothing is under way. `KInv` says of
every moment, before a restart, of a ready client that is served: whoever the
authority waits for walks, or a message that names the trip is on its way, or a
report of this participant is (`Remembered`). Three more facts make this inductive.
A snapshot replaces all that walk, so a trip it does not name is announced behind it,
in a later version (`ToldAfter`). The snapshot offered in a handshake names exactly
the trips under way (`Offers`), because the world stands until the client is ready,
and nobody takes the client for ready before it has applied one (`Unready`).
And only what has ended is told to have ended (`EndsTold`). A ready client ignores a
message only if it is older than what it shows, which `Shown` excludes: this is
where the order is needed. After a restart `message_id`s come round, `Ignore` may
drop any message, and the restriction is the code's.

### `TownBridgeProofs`

`GatesAlwaysAgree` (`GatesAgree`), `EvidenceIsTrue` (`EvidenceTrue`),
`ToldIsTrue` (`ToldTrue`), `ImplementsHandover` and `NothingIsRaisedLive`,
for every town, any number of connections and any client: nothing is assumed of
the client but that its messages are well formed. `BInv` is the engine's `IInv`
with `SessionsKept`, `OfferCurrent` and `GatesAgree`. That the engine's invariant
survives the composition is immediate once every step is either a step of the
engine or leaves the town alone (`EngineStep`, `EngineRests`), and with it
`NothingIsRaised` carries over. The refinement needs from the engine that each
call adds exactly one version, which `Inductive` gives.

`EvidenceTrue` compares two records of cancellations; a new one is compared with
the town. `EInv` therefore says that everything recorded is past there (`Past`): no
record is of a later version or connection, and an action that was cancelled has an
id below that of the current one, since ids grow with every creation (`Numbers`,
`Follows`).

`ToldTrue` is about what a sequence of messages adds up to. `TInv` says it of every
moment from the offered snapshot on, and that the id of a current action was
presented. Between the offer and `client_ready` the town stands, so what was offered
is still true. A commit then reports at most three phases, the two of an action that
ends and the one of the next that begins (`RecordsCases`); what they add up to is
unrolled from `FoldLeft` (`Heard`), after showing that the recursive function by which
it is defined exists, and compared with the town before and after (`Published`).

### `PersistenceProofs`

`OneHistoryPerSeed` (`HistoriesAgree`), `DirectoriesAreWhole` (`DirectoriesWhole`),
`CheckpointsAreStable` (`CheckpointsStable`) and `ReplaysRebuild` (`ReplaysAgree`),
for every seed, interval, chunk size, set of agents and number of run directories, in
both editions. The assumptions
are `PersistenceConstants`: agents are finitely many numbers (their ids sort like
them), a minute does a sequence of the four kinds of steps, and interval, end and
chunks are positive.

The runs of a seed never meet, so they are compared with a third thing: `History`,
the authority at every minute of a run that nothing disturbs, which exists for every
seed (`HistoryExists`) and is no variable of the model. The invariant says that
whatever a process holds or a directory stores is of that history (`Known`), that a
log is the part of the one log of the seed from the cursor the directory was opened
at (`Recorded`), that a process has in `pending` exactly what follows its log
(`WriterOk`), and how far its checkpoints have got in each phase (`LeftBehind`).

`Known` cannot be equality. Writing a checkpoint sorts the knowledge records, so a
run that was resumed has them in another order than the run that wrote it, for ever
after. `Alike` allows this and nothing else. That a commit of two states that are
`Alike` ends in two that are, with the same records and the same hashes
(`CommitAlike`), is proved for every kind of step: what is learnt, told, begun and
ended depends on the set of the records and on what is known, and the transaction
holds the new records sorted. Two stored checkpoints of one minute are then equal
because sorting the same set gives the same sequence (`AlikeCanonical`,
`SortedLists`). This is why the finding of section 5 does no harm to the runs and
replays that are not refused.

A chunk, a minute and the choice of a kind are folds of steps. The library's
induction theorems cannot be instantiated, but a least counterexample can be had
from the well-foundedness of the natural numbers (`StepByStep`); with it the
recursive function that `FoldLeft` chooses is shown to exist (`TakesExist`) and to
take one step after the other (`TakesTrace`), for each operator that is folded
(`LearnFold`, `TellFold`, `PerformFold`, `CommitFold`, `SelectFold`, `ReplayFold`,
`TownFold`). That no multiple of the interval is passed over between two chunks is
`Intervals` and `Targets`.

`ReplaysRebuild` compares a replay, too, with `History`: after n records of a log it
is at the last minute whose transaction it has read, with exactly those records,
whichever checkpoint it started from (`Reached`). One transaction does the step from
a minute to the next because applying what a commit changed to a state same as the
one before it gives one same as the one after it (`PatchRestores`); the order of the
knowledge records does not matter here either, for a commit reads them as a set.
Where in the log the transaction of each minute stands is `EmissionIs`, `CommitLog`,
`LogNumbered` and `CursorsRise`; that a checkpoint passed on the way compares equal
to the stored one is `ReachedCheckpoint`. An M1 run is replayed from its transactions
alone (`TownReplayed`), which works because its log has one transaction for each
minute and one event record for each event (`HistoryKinds`). The invariant of this
theorem, `Accountable`, adds to the other where the log of a directory begins, what
its summary says, and that a summary is written last (`Settled`, `Summed`,
`Unsummed`).

The theorem does not say that a replay comes to its report: section 5 shows that it may
not. What it says of a replay that raises is that it read every record and is refused
for the state at the end of the log, which happens only if the final checkpoint,
as the run stored it, would be refused too. The records of a replay have another
order than those of the run, so this is no comparison of equals. An agent's own
records are those of what it knows, in whatever order they are (`Ledgers`), and what is
known is only ever added to (`Prefixed`). The stored final checkpoint has each
agent's records sorted by event, and so it is accepted exactly if what every agent
knows in the end ascends (`FinalAccepted`, `Calm`). Then it ascended at every
minute before (`CalmAscends`); each transaction's records are sorted (`SortedOrderly`)
and later than those before them, so that they come in the order of their events whichever
checkpoint the replay started from (`Orderly`), and two sequences that ascend and
list the same are the same (`Ascending`, `AcceptedAscends`). `Reported`, a part of
`Accountable`, keeps a report true after it is made, because a summary stays
(`SummaryStays`).

### `TownSetupProofs`

`AcceptedCatalogsAgree` (`CatalogsAgree`), `NobodyDisplaced` (`OwnPlace`) and
`AcceptedSceneShowsAll` (`SceneShowsAll`), for every set of npcs, households and
places, every catalog, manifest and scene and any number of edits. The assumptions
are `TownConstants` (members are npcs, npcs are finitely many numbers, no two
households share a home: the table frozen in `catalogs/loader.py:43`) and
`FilesOfTheTown` (the repository's files have the types their models ask for, and
its catalog names the three animations that the M2 registry spells out).

The validators count: a home has as many beds as residents, and the owners of its
beds are its residents. That this makes one bed for each is `OwnersDiffer`, a
surjection between finite sets of one size. The M1 fixture numbers beds by the
members of a home and stations by those who work at a place; `FixtureIds` shows
that ids never collide, so nothing made is overwritten. `Settled` says of both
editions that everybody has one bed, seat and station where it will look for it.
`OwnPlace` is inductive only with what is held: if beds, seats and stations are
only ever held by their owners (`HoldsOwn`), an idle agent's own is free
(`OwnIsFree`), hence among the candidates (`OwnMatches`), hence chosen
(`PreferredIs`), hence again held by its owner. `SceneShowsAll` adds that whoever is
at something holds an object of each type it needs (`Busy`): in M2 that is what ties
the action to an object the registry had to show.

### Only model-checked

`EventuallyReady` and `TripsEnd` are liveness, out of the prover's reach.
Left to TLC is everything in `Talk` and `Presentation`, and what `SocietyDay` says of
hunger and of the rules that choose. `Talk`'s `Origin` is a RECURSIVE operator, which
the provers do not accept. `Presentation` folds over sequences, and each fold needs
lemmas like those of `PersistenceProofs`, which are not written.

## 5. Findings

`persistence_resume`. What a run that nothing disturbed left behind may be refused,
both by a resume and by a replay. `docs/qa/M3_ACCEPTANCE.md:124` says "Resume and
authoritative replay have zero final/checkpoint/log mismatch", and
`docs/orchestration/M3_EXECUTION_BASELINE.md:126` promises the resume from each
checkpoint. `ResumesOrReplays` asks for one of the two only, so that its
counterexample has neither.

Canonical JSON sorts keys, so what is stored lists the knowledge records in the order of
`agent|event`; `assert_society_invariants` walks them in dict order against each
agent's `known_event_ids`. In the counterexample an agent witnesses event 2 and is told
of event 1 in the same minute: it knows `<<2, 1>>`, which is also the order of the
records in the process that runs on.

* The checkpoint of that minute has them as 1, 2. `SocietyEngine.__init__` refuses it,
  and the run that was to be resumed leaves its directory IN_PROGRESS, because the
  engine is constructed outside the `try` (`run.py:335`).
* The transaction of that minute has them as 1, 2, and so has a replay, also from the
  very start. All it compares agrees, for canonical JSON forgets this order, but
  `assert_society_invariants` then raises (`replay.py:134`) before a report is built.

`ReplaysAgree` says what does hold of every replay.

Other differences between code and documents, met while modelling, that the
models follow the code in:

* A live arrival reported after its planned minute keeps `planned_end` in M3
  (`society/engine.py:587`), so the action is shortened; `docs/adr/0003...:10` says
  that duration starts after the confirmed arrival, and M1 re-bases both minutes.
* A timed-out trip puts its travelers back at their origin without asking for room
  (`society/engine.py:1461`). In a live town the minute may then be rejected and met
  again; `docs/adr/0011...:95` says any timeout releases the reservation set.
  `NeverRaises` is therefore claimed headless only.
* An arrival or failure is rejected unless its version is the current one
  (`society/engine.py:365`), although `docs/qa/M2_GRAYBOX_INTERFACE.md:76` calls a
  matching stale report processable. `TripsEnd` shows that this costs time only.
* The client reports movement in the middle of a handshake
  (`TownBridgeClient.cs:317`), which closes the connection, and a failed attempt to
  reconnect is repeated without delay (`:1129`). `EventuallyReady` holds in spite
  of both.
* After a restart of the server `message_id`s come round, and the client may drop
  new messages as repeats: `NobodyForgotten` is claimed without restarts.
* `docs/adr/0011` gives a rejected actor one more candidate before idling;
  `_decide_due_agents` (`society/engine.py:716`) goes to idle at once. A starving
  agent that lost a slot idles beside other food for this reason.
* Several agents may be burdened by one missed shift. Each may confront the absent
  one about it, the absent one each of them, and two of the burdened each other
  (`rules.py:830` asks only that both took part): `NothingTwice` is therefore about
  who confronts whom, and the run has an event that is confronted by several pairs.
* A refused apology lowers tension more than an accepted one, and an escalated
  conflict lowers it while a reduced one raises it: `_apply_target_to_actor_relationship`
  takes the midpoint of the bounds if accepted and their minimum if not
  (`society/engine.py:1742`).
* The client navigates on every `action_started`, also for an action without a
  trip, and reports an arrival that the authority rejects with a full snapshot. A
  participant that waits for its partner does so after every resynchronisation.
  `ClientShowsTown` holds in spite of it.
* A client of M2 does not navigate again after a resynchronisation, so such a trip
  ends by its timeout; a delta with no current action cannot clear the action it
  shows. `ToldTrue` is about a client that keeps what it is told.
* The M3 loader does not ask that a seat or bed keeps the capability its behaviour
  needs, and checks animations over the union of instances only; the base loader
  does not compare shifts with opening hours. `OwnPlace` is claimed where the
  objects are so equipped (`Equipped`).
* A shift that ends exactly at midnight would never be settled in M1, because the
  minute belongs to the next day; the frozen catalog has none (`FrozenCatalog`).
* In M1 a live arrival after the end of a shift emits WORK_STARTED after
  WORK_MISSED; `SettlementFinal` shows that minutes and pay stay as settled.

## 6. Not modelled, and what is left

* Bridge and Presentation with joint trips *and* faults of the transport at once:
  `Bridge`'s runs have one walker (the theorems have any number), `Presentation`'s
  run has joint trips and one loss. With two walkers the queues grow past what TLC
  can enumerate.
* The three parts of the M3 engine are not composed with each other; moods,
  personality and, in `Talk`, who missed its shift appear as choices. The cap of 1000 events a day is not modelled.
* `Talk`'s run has five of the social behaviours; greet, joke, compliment and
  apologize are in the model but not in the run.
* The recorded reports of M2, the evidence lists and protocol negotiation; sizes
  of messages and the client's limit on them; its bounded memory of seen messages.
* A client whose own registry has errors goes to DiagnosticOnly and no further
  (`TownBridgeClient.cs:652`). It never becomes ready, and `Bridge` has clients
  that may.
* A navigation that fails inside `BeginNavigation` while the snapshot of a handshake
  is bound (`NpcNavigationController.cs:137`, an agent off the mesh or no path)
  reports before `client_ready` is sent, at every attempt. `Bridge`'s walkers report
  on a later frame; `EventuallyReady` is not claimed for such a scene. No safety
  property depends on it: a report in that phase closes the connection either way.
* `summary.json` is written in place (`run.py:279`); a kill in the middle of it leaves
  a file that no replay can read, where the model has none.
* Memory and performance reports of headless runs.
* Field formats, JSON schemas, parsing of files and of arguments, dialogue wording:
  no state depends on them.
* The evidence producers and diagnostics run the program and collect reports; they
  keep no state of the running system. Unity's scenes, animation, debug panels and
  editor are presentation on its frame loop.
* The configuration files and schemas are data; the instances are scaled down from
  them.

What would come next: theorems about what the client of
`Presentation` shows and the chain of rumours in `Talk`, and a composition of
`SocietyDay` with the claims of `Society`.
