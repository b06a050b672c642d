------------------------------ MODULE MCBridge ------------------------------
(* Small instances of Bridge: trips of one walker and requests of the clock. *)
EXTENDS Bridge, TLC

CONSTANTS n1, n2, walk

Alone == (walk :> {n1})

Pausing == {[type |-> "pause_request", value |-> 1], [type |-> "pause_request", value |-> 0],
            [type |-> "set_time_scale_request", value |-> 0]}
=============================================================================
