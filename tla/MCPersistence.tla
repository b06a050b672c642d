--------------------------- MODULE MCPersistence ---------------------------
(* Two agents, four minutes, a checkpoint every second minute.              *)
EXTENDS Persistence

Event(who) == [what |-> "event", who |-> who]
Tell(who) == [what |-> "tell", who |-> who]
Begin == [what |-> "begin"]
End == [what |-> "end"]

MCPlots == {<<Begin, Event({1})>>, <<Event({1, 2}), Tell({2})>>, <<End, Event({1})>>}
=============================================================================
