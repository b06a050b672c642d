---------------------------- MODULE Engagements ----------------------------
(***************************************************************************)
(* What the M3 authority promises about the things it hands out.  An       *)
(* engagement (an active action, src/python/town_core/society/engine.py)   *)
(* takes a whole set of resources, agents and object slots, in one commit, *)
(* holds exactly that set as long as it lives, and gives it back in one    *)
(* commit.  No resource is held twice and no engagement comes back.        *)
(***************************************************************************)
EXTENDS Integers

CONSTANT Resource

VARIABLES
  held,   \* engagement -> the resources it holds
  issued  \* how many engagements there have been

Init ==
  /\ held = << >>
  /\ issued = 0

NoneShared(h) == \A d, e \in DOMAIN h : d # e => h[d] \cap h[e] = {}

(* One commit: some engagements end, some begin, the others are untouched. *)
Commit ==
  /\ issued' >= issued
  /\ \A e \in DOMAIN held' : IF e \in DOMAIN held
                              THEN held'[e] = held[e]
                              ELSE /\ e \in issued + 1 .. issued'
                                   /\ held'[e] \in (SUBSET Resource) \ {{}}
  /\ NoneShared(held')

Spec == Init /\ [][Commit]_<<held, issued>>

=============================================================================
