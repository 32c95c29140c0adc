--------------------------- MODULE PrimaryComponent ---------------------------
(***************************************************************************)
(* What the cluster promises to its clients, whoever starts, stops or      *)
(* kills its servers: there is at most one primary component.  It grows by *)
(* one joining node, shrinks by one leaving node, collapses, and is        *)
(* founded anew only after it is gone.                                     *)
(***************************************************************************)
CONSTANT Nodes
VARIABLE members

Init == members = {}

Found(i) == members = {} /\ members' = {i}

Join(i) ==
  /\ members # {}
  /\ i \notin members
  /\ members' = members \cup {i}

Leave(i) == i \in members /\ members' = members \ {i}

\* Every member is killed, or too few remain to be primary.
Collapse == members # {} /\ members' = {}

Next == (\E i \in Nodes : Found(i) \/ Join(i) \/ Leave(i)) \/ Collapse

Spec == Init /\ [][Next]_members

===============================================================================
