------------------------------- MODULE Presence -------------------------------
(***************************************************************************)
(* What the login flow promises about a player: one agent at a time plays  *)
(* for an account, it plays once, and it hands over only by leaving first. *)
(* LoginFlow implements this module when clients log in serially.          *)
(***************************************************************************)
CONSTANTS Player, Agent, PlayerOf, Nobody

VARIABLES
  holder,   \* the agent that plays for a player, or Nobody
  retired   \* the agents that have played

Init ==
  /\ holder = [p \in Player |-> Nobody]
  /\ retired = {}

Enter(a) ==
  /\ holder[PlayerOf[a]] = Nobody
  /\ a \notin retired
  /\ holder' = [holder EXCEPT ![PlayerOf[a]] = a]
  /\ UNCHANGED retired

Leave(p) ==
  /\ holder[p] # Nobody
  /\ holder' = [holder EXCEPT ![p] = Nobody]
  /\ retired' = retired \cup {holder[p]}

Next == (\E a \in Agent : Enter(a)) \/ (\E p \in Player : Leave(p))

Spec == Init /\ [][Next]_<<holder, retired>>
=============================================================================
