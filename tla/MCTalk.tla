------------------------------- MODULE MCTalk -------------------------------
(* Three coworkers in one place, some of the social behaviors; each lasts a *)
(* minute.  The numbers are those of the v0 catalog.                        *)
EXTENDS Talk, TLC

MCDuration == [b \in Social \cup {"idle", "walk", "joint"} |-> 1]
\* A confrontation's cooldown is shorter than Fresh, the time its cause counts.
MCCooldown == [b \in Social |-> IF b \in {"confront", "end_conversation"} THEN 0 ELSE 2]
MCTensionDelta ==
  [b \in Social \cup {"confront"} |->
     CASE b = "confront" -> [yes |-> 75, no |-> -200]
       [] b = "apologize" -> [yes |-> -125, no |-> -300]
       [] b = "joke" -> [yes |-> 35, no |-> -50]
       [] b = "share_event" -> [yes |-> 40, no |-> -40]
       [] b = "invite_join" -> [yes |-> 20, no |-> -40]
       [] OTHER -> [yes |-> 0, no |-> 0]]
MCWork == [a \in Agent |-> CHOOSE p \in Place : TRUE]
MCImportance ==
  ("WORK_MISSED" :> 80) @@ ("COWORKER_EXTRA_LOAD" :> 75) @@
  ("AWKWARD_INTERACTION" :> 45) @@ ("CONFLICT_ESCALATED" :> 90) @@ ("CONFLICT_REDUCED" :> 65)
  @@ ("EVENT_SHARED" :> 55) @@ ("CONVERSATION_ENDED" :> 15) @@ ("CONVERSATION_STARTED" :> 15)
  @@ ("FIRST_GREETING" :> 30) @@ ("POSITIVE_INTERACTION" :> 35) @@ ("INVITATION_ACCEPTED" :> 45)
  @@ ("INVITATION_REJECTED" :> 50) @@ ("APOLOGY_ACCEPTED" :> 70) @@ ("APOLOGY_REJECTED" :> 75)
MCLoud == {"FIRST_GREETING", "POSITIVE_INTERACTION", "AWKWARD_INTERACTION",
           "CONFLICT_ESCALATED", "CONVERSATION_STARTED", "CONVERSATION_ENDED"}
MCNegative == {"AWKWARD_INTERACTION", "INVITATION_REJECTED", "APOLOGY_REJECTED",
               "COWORKER_EXTRA_LOAD", "CONFLICT_STARTED", "CONFLICT_ESCALATED"}
Symmetry == Permutations(Agent)
=============================================================================
