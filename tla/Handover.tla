------------------------------ MODULE Handover ------------------------------
(***************************************************************************)
(* What the bridge promises about who may change the world (ADR-0010: one  *)
(* connection generation at a time, and no change between the snapshot a   *)
(* client is offered and its acknowledgement).  The world is a version     *)
(* number; it is written only while somebody holds it, and it is handed    *)
(* to the latest connection once that connection has seen exactly the      *)
(* world it is about to be given.                                          *)
(***************************************************************************)
EXTENDS Integers

VARIABLES
  version, \* of the world
  latest,  \* the most recent connection, 0 if none
  holder,  \* the connection on whose behalf the world advances, 0 if none
  offered  \* the version shown to the latest connection, -1 if none

vars == <<version, latest, holder, offered>>

Init == version = 0 /\ latest = 0 /\ holder = 0 /\ offered = -1

Open == /\ latest' > latest /\ holder' = 0 /\ offered' = -1
        /\ UNCHANGED version

Offer == /\ holder = 0 /\ offered = -1
         /\ offered' = version
         /\ UNCHANGED <<version, latest, holder>>

Grant == /\ offered = version
         /\ holder' = latest /\ offered' = -1
         /\ UNCHANGED <<version, latest>>

Write == /\ holder = latest /\ holder # 0
         /\ version' = version + 1
         /\ UNCHANGED <<latest, holder, offered>>

Release == /\ holder' = 0 /\ offered' \in {offered, -1}
           /\ UNCHANGED <<version, latest>>

(* The program is started anew from its initial world. *)
Restart == version' = 0 /\ latest' = 0 /\ holder' = 0 /\ offered' = -1

Next == Open \/ Offer \/ Grant \/ Write \/ Release \/ Restart

Spec == Init /\ [][Next]_vars

=============================================================================
