--------------------------- MODULE ChaosMonkeyProofs ----------------------------
(***************************************************************************)
(* What holds of ChaosMonkey for every number of nodes, whichever two are  *)
(* drawn and whenever the servers and the load do something by themselves; *)
(* and of RollingUpgrade, the other program that acts on a running cluster *)
(* and founds no component.                                                *)
(***************************************************************************)
EXTENDS ChaosMonkey, RollingUpgrade, ClusterProofs

v1 == victims[1]
v2 == victims[2]

\* How far the kills and the restarts have come.
VictimInv ==
  /\ killed \subseteq {v1, v2}
  /\ pc \in {"prepare", "launch", "capture"} => killed = {} /\ k = 1
  /\ pc = "kill" =>
       \/ k = 1 /\ killed = {}
       \/ k = 2 /\ killed = {v1} /\ ~Running(v1)
  /\ pc = "unload" => k = 1
  /\ pc \in {"unload", "restart"} =>
       /\ v1 # v2 /\ killed = {v1, v2}
       /\ ~Running(v2) /\ (k = 1 => ~Running(v1))

MemberInv == 1 \in cohort /\ NoFounder /\ NoSplitBrain

\* Without a crash the members that were not killed have stayed members.
StayInv ==
  Cardinality(cohort) >= 4 /\ died = {} =>
    \A i \in cohort \ killed : Running(i) /\ comp[i] # NoComponent

\* There is one sysbench run: its script starts no second.
LoadInv ==
  /\ \A r \in Runs \ {1} : load[r] = "none"
  /\ pc \in {"prepare", "launch"} => load[1] = "none"
  /\ LoadKilledFirst

-------------------------------------------------------------------------------
(* Type correctness *)

LEMMA VictimNodes ==
  ASSUME TypeOK
  PROVE  /\ v1 \in Nodes /\ v2 \in Nodes /\ v1 # 1 /\ v2 # 1
         /\ victims[k] \in {v1, v2} /\ (k = 1 \/ k = 2)
<1>1. k = 1 \/ k = 2
  BY DEF TypeOK
<1>2. v1 \in 2..N /\ v2 \in 2..N
  BY DEF TypeOK, v1, v2
<1> QED BY <1>1, <1>2, NodeBounds DEF Nodes, v1, v2

\* The nodes that answered are in one component, among them node 1.
LEMMA InitServers ==
  ASSUME Init
  PROVE  /\ ClusterTypeOK /\ cohort \subseteq Nodes /\ 1 \in cohort /\ NoFounder
         /\ \A i \in cohort : Answers(i)
         /\ \E c \in Components :
              \A i \in Nodes : comp[i] = IF i \in cohort THEN c ELSE NoComponent
<1>1. PICK c \in Components, last \in {"synced", "open"},
          slow \in [2..(N - 1) -> {"synced", "open", "starting", "down"}] :
        /\ proc = [i \in Nodes |-> IF i \in 2..(N - 1) THEN slow[i]
                                    ELSE IF i = 1 THEN "synced" ELSE last]
        /\ cohort = {i \in Nodes : Answers(i)}
        /\ comp = [i \in Nodes |-> IF i \in cohort THEN c ELSE NoComponent]
        /\ datadir = [i \in Nodes |-> IF i \in cohort THEN "unsafe" ELSE "fresh"]
  BY DEF Init
<1>2. ClusterTypeOK
  BY <1>1 DEF ClusterTypeOK, ProcStates, DatadirStates
<1>3. proc[1] = "synced" /\ 1 \in cohort
  BY <1>1, NodeBounds DEF Answers
<1>4. NoFounder
  BY <1>1 DEF NoFounder
<1> QED BY <1>1, <1>2, <1>3, <1>4

LEMMA InitType == Init => TypeOK
<1> SUFFICES ASSUME Init PROVE TypeOK
  OBVIOUS
<1>1. LoadTypeOK
  BY DEF Init, LoadInit, LoadTypeOK, LoadStates
<1>2. /\ pc \in Phases /\ victims \in [1..2 -> 2..N] /\ k \in 1..2
      /\ pid \subseteq Runs /\ killed \subseteq Nodes /\ died \subseteq Nodes
  BY DEF Init, Phases
<1> QED BY <1>1, <1>2, InitServers DEF TypeOK

\* Every step leaves the servers alone, kills or starts the victim in hand or is a
\* step of the servers.
LEMMA ServerChange ==
  ASSUME [Next]_vars
  PROVE  /\ UNCHANGED <<cohort, victims>>
         /\ \/ UNCHANGED <<clusterVars, died, killed>>
            \/ /\ pc = "kill" /\ Answers(victims[k]) /\ Lose({victims[k]})
               /\ killed' = killed \cup {victims[k]} /\ UNCHANGED died
            \/ pc = "restart" /\ Start(victims[k], "starting") /\ UNCHANGED <<died, killed>>
            \/ ServersByThemselves
<1>1. CASE ScriptStep
  BY <1>1 DEF ScriptStep, Prepare, LaunchLoad, CapturePid, KillNode, KillLoad,
              RestartNode, Verdict
<1>2. CASE ServersByThemselves \/ LoadByItself \/ UNCHANGED vars
  BY <1>2 DEF ServersByThemselves, LoadByItself, vars, scriptVars
<1> QED BY <1>1, <1>2 DEF Next

LEMMA ClusterType ==
  ASSUME ClusterTypeOK, [Next]_vars
  PROVE  ClusterTypeOK'
<1>1. CASE UNCHANGED clusterVars
  BY <1>1 DEF clusterVars, ClusterTypeOK
<1>2. CASE Lose({victims[k]})
  BY <1>2, LoseType
<1>3. CASE Start(victims[k], "starting")
  BY <1>3 DEF Start, ClusterTypeOK, ProcStates
<1>4. CASE ServersByThemselves
  BY <1>4, ServerType DEF ServersByThemselves
<1> QED BY <1>1, <1>2, <1>3, <1>4, ServerChange

LEMMA LoadType ==
  ASSUME LoadTypeOK, [Next]_vars
  PROVE  LoadTypeOK'
<1>1. CASE LaunchLoad
  BY <1>1 DEF LaunchLoad, LaunchRun, LoadTypeOK, LoadStates
<1>2. CASE KillLoad
  BY <1>2 DEF KillLoad, KillRuns, LoadTypeOK, LoadStates
<1>3. CASE LoadByItself
  BY <1>3 DEF LoadByItself, LoadStep, LoadTypeOK, LoadStates
<1>4. CASE UNCHANGED load
  BY <1>4 DEF LoadTypeOK
<1>5. LaunchLoad \/ KillLoad \/ LoadByItself \/ UNCHANGED load
  BY DEF Next, ScriptStep, Prepare, CapturePid, KillNode, RestartNode, Verdict,
         ServersByThemselves, scriptVars, vars
<1> QED BY <1>1, <1>2, <1>3, <1>4, <1>5

LEMMA TypeStep ==
  ASSUME TypeOK, [Next]_vars
  PROVE  TypeOK'
<1>1. /\ ClusterTypeOK' /\ LoadTypeOK' /\ cohort' \subseteq Nodes
      /\ victims' \in [1..2 -> 2..N]
  BY ClusterType, LoadType, ServerChange DEF TypeOK
<1>2. killed' \subseteq Nodes /\ died' \subseteq Nodes
  <2>1. victims[k] \in Nodes
    BY VictimNodes
  <2> QED BY <2>1, ServerChange DEF TypeOK, ServersByThemselves
<1>3. pc' \in Phases /\ k' \in 1..2 /\ pid' \subseteq Runs
  <2> USE DEF TypeOK, Phases
  <2>1. CASE Prepare \/ LaunchLoad \/ CapturePid
    BY <2>1 DEF Prepare, LaunchLoad, CapturePid, Visible
  <2>2. CASE KillNode \/ RestartNode
    BY <2>2 DEF KillNode, RestartNode, NextVictim
  <2>3. CASE KillLoad \/ Verdict
    BY <2>3 DEF KillLoad, Verdict
  <2>4. CASE ServersByThemselves \/ LoadByItself \/ UNCHANGED vars
    BY <2>4 DEF ServersByThemselves, LoadByItself, scriptVars, vars
  <2> QED BY <2>1, <2>2, <2>3, <2>4 DEF Next, ScriptStep
<1> QED BY <1>1, <1>2, <1>3 DEF TypeOK

\* Every variable stays in its domain: the draw has two places, and the nodes in
\* them are never node 1.
THEOREM TypeCorrect == Spec => []TypeOK
<1> QED BY InitType, TypeStep, PTL DEF Spec

-------------------------------------------------------------------------------
(* The victims *)

LEMMA VictimStep ==
  ASSUME TypeOK, VictimInv, [Next]_vars
  PROVE  VictimInv'
<1>1. ClusterTypeOK /\ UNCHANGED <<v1, v2>>
  BY ServerChange DEF TypeOK, v1, v2
<1>2. CASE Prepare \/ LaunchLoad \/ CapturePid
  BY <1>1, <1>2 DEF Prepare, LaunchLoad, CapturePid, VictimInv, clusterVars, Running
<1>3. CASE KillNode
  <2>1. CASE pc' = "failed" /\ UNCHANGED killed
    BY <1>1, <2>1 DEF VictimInv
  <2>2. CASE /\ Answers(victims[k]) /\ Lose({victims[k]})
             /\ killed' = killed \cup {victims[k]}
             /\ NextVictim("kill", "unload")
    <3>1. CASE k = 1
      <4>1. killed' = {v1} /\ pc' = "kill" /\ k' = 2
        BY <1>3, <2>2, <3>1 DEF KillNode, VictimInv, NextVictim, v1
      <4>2. proc'[v1] = "down"
        BY <1>1, <2>2, <3>1, VictimNodes, LoseFacts DEF v1
      <4> QED BY <1>1, <4>1, <4>2 DEF VictimInv, Running
    <3>2. CASE k = 2
      <4>1. killed = {v1} /\ ~Running(v1) /\ Answers(v2)
        BY <1>3, <2>2, <3>2 DEF KillNode, VictimInv, v2
      <4>2. v1 # v2
        BY <4>1 DEF Running, Answers
      <4>3. killed' = {v1, v2} /\ pc' = "unload" /\ k' = 1
        BY <2>2, <3>2, <4>1 DEF NextVictim, v2
      <4>4. proc'[v2] = "down"
        BY <1>1, <2>2, <3>2, VictimNodes, LoseFacts DEF v2
      <4>5. proc'[v1] = "down"
        BY <1>1, <2>2, <4>1, VictimNodes, LoseFacts DEF Running
      <4> QED BY <1>1, <4>2, <4>3, <4>4, <4>5 DEF VictimInv, Running
    <3> QED BY <3>1, <3>2, VictimNodes
  <2> QED BY <1>3, <2>1, <2>2 DEF KillNode
<1>4. CASE KillLoad
  BY <1>1, <1>4 DEF KillLoad, VictimInv, clusterVars, Running
<1>5. CASE RestartNode
  <2>1. /\ v1 # v2 /\ killed = {v1, v2} /\ ~Running(v2) /\ UNCHANGED killed
        /\ \/ k = 1 /\ pc' = "restart" /\ k' = 2
           \/ k = 2 /\ pc' = "verdict"
    BY <1>5, VictimNodes DEF RestartNode, VictimInv, NextVictim
  <2>2. k = 1 => ~Running(v2)'
    BY <1>1, <1>5, <2>1, VictimNodes DEF RestartNode, Start, Running, ClusterTypeOK, v1
  <2> QED BY <1>1, <2>1, <2>2 DEF VictimInv
<1>6. CASE Verdict
  BY <1>1, <1>6 DEF Verdict, VictimInv
<1>7. CASE ServersByThemselves
  <2>1. (Running(v1)' => Running(v1)) /\ (Running(v2)' => Running(v2))
    BY <1>1, <1>7, VictimNodes, ServerStartsNothing DEF ServersByThemselves, Running
  <2> QED BY <1>1, <1>7, <2>1 DEF ServersByThemselves, scriptVars, VictimInv
<1>8. CASE LoadByItself \/ UNCHANGED vars
  BY <1>1, <1>8 DEF LoadByItself, vars, scriptVars, clusterVars, VictimInv, Running
<1> QED BY <1>2, <1>3, <1>4, <1>5, <1>6, <1>7, <1>8 DEF Next, ScriptStep

LEMMA VictimAlways == Spec => []VictimInv
<1>1. Init => VictimInv
  BY DEF Init, VictimInv
<1> QED BY <1>1, VictimStep, TypeCorrect, PTL DEF Spec

\* A node that is drawn twice never reaches the restarts: its second kill finds no
\* pid file.  So the two nodes that are started were killed, and are down.
THEOREM RestartsTheKilledTheorem == Spec => []RestartsTheKilled
<1>1. VictimInv => RestartsTheKilled
  BY DEF VictimInv, RestartsTheKilled, v1, v2
<1> QED BY <1>1, VictimAlways, PTL

-------------------------------------------------------------------------------
(* The members *)

LEMMA MemberStep ==
  ASSUME TypeOK, MemberInv, [Next]_vars
  PROVE  MemberInv'
<1>1. ClusterTypeOK /\ UNCHANGED cohort
  BY ServerChange DEF TypeOK
<1> USE DEF MemberInv, NoFounder, NoSplitBrain
<1>2. CASE UNCHANGED clusterVars
  BY <1>1, <1>2 DEF clusterVars
<1>3. CASE Lose({victims[k]})
  BY <1>1, <1>3, LoseFacts
<1>4. CASE Start(victims[k], "starting")
  BY <1>1, <1>4 DEF Start, ClusterTypeOK
<1>5. CASE ServersByThemselves
  BY <1>1, <1>5, ServerOneComponent DEF ServersByThemselves
<1> QED BY <1>2, <1>3, <1>4, <1>5, ServerChange

LEMMA MemberAlways == Spec => []MemberInv
<1>1. Init => MemberInv
  BY InitServers DEF MemberInv, NoSplitBrain
<1> QED BY <1>1, MemberStep, TypeCorrect, PTL DEF Spec

\* The two kills, the two restarts and whatever the servers do refine the primary
\* component without ever founding one: it loses one node at a time or collapses,
\* and a killed node comes back only to the component that is still there.
THEOREM MembershipTheorem == Spec => [][KeepsComponent]_members
<1>1. ASSUME TypeOK, MemberInv, [Next]_vars PROVE [KeepsComponent]_members
  <2>1. ClusterTypeOK /\ NoFounder /\ NoSplitBrain /\ victims[k] \in Nodes
    BY <1>1, VictimNodes DEF TypeOK, MemberInv
  <2>2. CASE UNCHANGED clusterVars
    BY <2>2 DEF clusterVars, members
  <2>3. CASE Lose({victims[k]})
    BY <2>1, <2>3, LoseKeeps
  <2>4. CASE Start(victims[k], "starting")
    BY <2>4 DEF Start, members
  <2>5. CASE ServersByThemselves
    BY <2>1, <2>5, NoFounderKeeps DEF ServersByThemselves
  <2> QED BY <1>1, <2>2, <2>3, <2>4, <2>5, ServerChange
<1> QED BY <1>1, TypeCorrect, MemberAlways, PTL DEF Spec

\* Of four members two are left when both victims are gone.
LEMMA TwoLeft ==
  ASSUME TypeOK, Cardinality(cohort) >= 4
  PROVE  Cardinality(cohort \ {v1, v2}) >= 2
<1>1. IsFiniteSet(cohort) /\ IsFiniteSet(cohort \ {v1})
  BY NodesFinite, FS_Subset DEF TypeOK
<1>2. /\ Cardinality(cohort) \in Nat /\ Cardinality(cohort \ {v1}) \in Nat
      /\ Cardinality(cohort) <= Cardinality(cohort \ {v1}) + 1
  BY <1>1, RemoveOne
<1>3. /\ Cardinality((cohort \ {v1}) \ {v2}) \in Nat
      /\ Cardinality(cohort \ {v1}) <= Cardinality((cohort \ {v1}) \ {v2}) + 1
  BY <1>1, RemoveOne
<1>4. Cardinality((cohort \ {v1}) \ {v2}) >= 2
  BY <1>2, <1>3
<1>5. (cohort \ {v1}) \ {v2} = cohort \ {v1, v2}
  OBVIOUS
<1> QED BY <1>4, <1>5

\* So the loss of a victim is survived by the members that are not killed yet.
LEMMA KillSurvived ==
  ASSUME TypeOK, VictimInv, MemberInv, StayInv, Cardinality(cohort) >= 4, died = {},
         Lose({victims[k]}), killed' = killed \cup {victims[k]}
  PROVE  \A i \in cohort \ killed' : Running(i)' /\ comp'[i] # NoComponent
<1> DEFINE S == cohort \ killed'
<1>1. ClusterTypeOK /\ cohort \subseteq Nodes /\ S \subseteq Nodes
  BY DEF TypeOK
<1>2. victims[k] \in Nodes /\ victims[k] \notin S /\ 1 \in S
  BY VictimNodes DEF VictimInv, MemberInv
<1>3. \A i \in S : Running(i) /\ comp[i] # NoComponent
  BY DEF StayInv
<1>4. \A i \in S : comp[i] = comp[1]
  BY <1>1, <1>2, <1>3 DEF MemberInv, NoSplitBrain
<1>5. Cardinality(S) >= 2
  <2>1. cohort \ {v1, v2} \subseteq S
    BY VictimNodes DEF VictimInv
  <2>2. IsFiniteSet(S)
    BY <1>1, NodesFinite, FS_Subset
  <2>3. Cardinality(cohort \ {v1, v2}) <= Cardinality(S)
    BY <2>1, <2>2, FS_Subset
  <2>4. Cardinality(S) \in Nat /\ Cardinality(cohort \ {v1, v2}) \in Nat
    BY <2>1, <2>2, FS_Subset, FS_CardinalityType
  <2> HIDE DEF S
  <2> QED BY <2>3, <2>4, TwoLeft
<1> HIDE DEF S
<1>6. \A i \in S : proc'[i] = proc[i] /\ comp'[i] = comp[1]
  <2>1. comp[1] # NoComponent /\ S \in SUBSET Nodes
    BY <1>1, <1>2, <1>3
  <2> DEFINE v == victims[k]
             c == comp[1]
  <2>2. v \in Nodes /\ v \notin S /\ Lose({v}) /\ c # NoComponent /\ \A i \in S : comp[i] = c
    BY <1>2, <1>4, <2>1
  <2> HIDE DEF v, c
  <2>3. \A i \in S : proc'[i] = proc[i] /\ comp'[i] = c
    BY <1>1, <1>5, <2>1, <2>2, LoseOne
  <2> QED BY <2>3 DEF c
<1> QED BY <1>2, <1>3, <1>6 DEF S, Running

LEMMA StayStep ==
  ASSUME TypeOK, VictimInv, MemberInv, StayInv, [Next]_vars
  PROVE  StayInv'
<1> SUFFICES ASSUME Cardinality(cohort) >= 4, died' = {}
             PROVE  \A i \in cohort \ killed' : Running(i)' /\ comp'[i] # NoComponent
  BY ServerChange DEF StayInv
<1>1. ClusterTypeOK /\ cohort \subseteq Nodes /\ died \subseteq Nodes
  BY DEF TypeOK
<1>2. CASE UNCHANGED <<clusterVars, died, killed>>
  BY <1>2 DEF clusterVars, StayInv, Running
<1>3. CASE Lose({victims[k]}) /\ killed' = killed \cup {victims[k]} /\ UNCHANGED died
  BY <1>3, KillSurvived
<1>4. CASE Start(victims[k], "starting") /\ UNCHANGED <<died, killed>>
  BY <1>1, <1>4 DEF Start, ClusterTypeOK, StayInv, Running
<1>5. CASE ServersByThemselves
  <2>1. died = {} /\ UNCHANGED killed
        /\ {i \in Nodes : Running(i) /\ proc'[i] = "down"} = {}
    BY <1>5 DEF ServersByThemselves
  <2>2. PICK j \in Nodes : Join(j) \/ OpenPort(j) \/ CatchUp(j)
    BY <1>1, <1>5, <2>1, ServerCalm DEF ServersByThemselves, MemberInv
  <2>3. CASE Join(j)
    BY <1>1, <2>1, <2>3, ComponentsAssumption DEF Join, ClusterTypeOK, StayInv, Running
  <2>4. CASE OpenPort(j) \/ CatchUp(j)
    BY <1>1, <2>1, <2>4 DEF OpenPort, CatchUp, ClusterTypeOK, StayInv, Running
  <2> QED BY <2>2, <2>3, <2>4
<1> QED BY <1>2, <1>3, <1>4, <1>5, ServerChange

\* Of a cluster of four or more members both kills leave one primary component of
\* all the others: two members remain beside each victim, enough for the quorum.
THEOREM PrimaryKeptTheorem == Spec => []PrimaryKept
<1>1. Init => StayInv
  <2> SUFFICES ASSUME Init PROVE StayInv
    OBVIOUS
  <2>1. PICK c \in Components :
          \A i \in Nodes : comp[i] = IF i \in cohort THEN c ELSE NoComponent
    BY InitServers
  <2> QED BY <2>1, InitServers, ComponentsAssumption DEF StayInv, Running, Answers
<1>2. TypeOK /\ VictimInv /\ MemberInv /\ StayInv => PrimaryKept
  <2> SUFFICES ASSUME TypeOK, VictimInv, MemberInv, StayInv PROVE PrimaryKept
    OBVIOUS
  <2>1. 1 \in cohort \ killed /\ cohort \subseteq Nodes
    BY VictimNodes DEF TypeOK, VictimInv, MemberInv
  <2> QED BY <2>1 DEF StayInv, MemberInv, NoSplitBrain, PrimaryKept
<1> QED BY <1>1, <1>2, StayStep, TypeCorrect, VictimAlways, MemberAlways, PTL DEF Spec

-------------------------------------------------------------------------------
(* The load *)

LEMMA LoadInvStep ==
  ASSUME TypeOK, LoadInv, [Next]_vars
  PROVE  LoadInv'
<1>1. /\ 1 \in Runs /\ Runs \subseteq Nat \ {0} /\ load \in [Runs -> LoadStates]
      /\ pid \subseteq Runs
  BY RunsAssumption, MaxRunsAssumption DEF Runs, TypeOK, LoadTypeOK
<1> USE DEF LoadInv, LoadKilledFirst
<1>2. CASE Prepare \/ KillNode
  BY <1>1, <1>2 DEF Prepare, KillNode, NextVictim
<1>3. CASE LaunchLoad
  <2>1. PICK r \in Runs : /\ \A s \in 1..(r - 1) : load[s] # "none"
                          /\ load' = [load EXCEPT ![r] = "launching"]
    BY <1>3 DEF LaunchLoad, LaunchRun
  <2>2. r = 1
    <3>1. load[1] = "none" /\ r \in Nat /\ r >= 1
      BY <1>1, <1>3 DEF LaunchLoad
    <3>2. r # 1 => 1 \in 1..(r - 1)
      BY <3>1
    <3> QED BY <2>1, <3>1, <3>2
  <2> QED BY <1>1, <1>3, <2>1, <2>2 DEF LaunchLoad
<1>4. CASE CapturePid \/ Verdict \/ ServersByThemselves \/ UNCHANGED vars
  BY <1>4 DEF CapturePid, Verdict, ServersByThemselves, vars, scriptVars
<1>5. CASE KillLoad
  <2>1. \A r \in Runs : load'[r] = IF r \in pid \cap Visible THEN "killed" ELSE load[r]
    BY <1>5 DEF KillLoad, KillRuns
  <2>2. \A r \in Visible : r = 1
    BY DEF Visible
  <2>3. pc' = "restart" => 1 \in pid \cap Visible
    BY <1>5, <2>2 DEF KillLoad
  <2>4. pc' \in {"restart", "failed"}
    BY <1>5 DEF KillLoad
  <2> QED BY <1>1, <2>1, <2>2, <2>3, <2>4
<1>6. CASE RestartNode
  BY <1>6 DEF RestartNode, NextVictim
<1>7. CASE LoadByItself
  <2>1. PICK r \in Runs :
          \/ load[r] = "launching" /\ load' = [load EXCEPT ![r] = "running"]
          \/ load[r] \in {"launching", "running"} /\ load' = [load EXCEPT ![r] = "expired"]
    BY <1>7 DEF LoadByItself, LoadStep
  <2>2. r = 1 /\ pc \notin {"prepare", "launch", "restart", "verdict"}
    BY <2>1
  <2> QED BY <1>1, <1>7, <2>1, <2>2 DEF LoadByItself
<1> QED BY <1>2, <1>3, <1>4, <1>5, <1>6, <1>7 DEF Next, ScriptStep

\* The tables are compared after the sysbench run is gone, killed by the script: a
\* run that pidof did not show yet, or that ended by itself, fails the test.
THEOREM LoadKilledFirstTheorem == Spec => []LoadKilledFirst
<1>1. Init => LoadInv
  <2>1. 1 \in Runs
    BY RunsAssumption, MaxRunsAssumption DEF Runs
  <2> QED BY <2>1 DEF Init, LoadInit, LoadInv, LoadKilledFirst
<1>2. LoadInv => LoadKilledFirst
  BY DEF LoadInv
<1> QED BY <1>1, <1>2, LoadInvStep, TypeCorrect, PTL DEF Spec

-------------------------------------------------------------------------------
(* The script is bounded *)

\* How many steps of the script can still follow at most: it never waits.
StepsLeft ==
  CASE pc \in {"done", "failed"} -> 0
    [] pc = "verdict" -> 1
    [] pc = "restart" -> 4 - k
    [] pc = "unload"  -> 4
    [] pc = "kill"    -> 7 - k
    [] pc = "capture" -> 7
    [] pc = "launch"  -> 8
    [] pc = "prepare" -> 9

\* Nine steps are the most a test takes, whatever the draw and the servers do.
THEOREM BoundedTheorem ==
  Spec => /\ [](StepsLeft \in 0..9)
          /\ [][StepsLeft' < StepsLeft \/ UNCHANGED <<pc, k>>]_vars
<1>1. TypeOK => StepsLeft \in 0..9
  BY DEF TypeOK, Phases, StepsLeft
<1>2. ASSUME TypeOK, VictimInv, [Next]_vars
      PROVE  StepsLeft' < StepsLeft \/ UNCHANGED <<pc, k>>
  <2>1. k = 1 \/ k = 2
    BY <1>2 DEF TypeOK
  <2> USE <1>2, <2>1 DEF StepsLeft
  <2>2. CASE Prepare \/ LaunchLoad \/ CapturePid
    BY <2>2 DEF Prepare, LaunchLoad, CapturePid
  <2>3. CASE KillNode \/ RestartNode
    BY <2>3 DEF KillNode, RestartNode, NextVictim
  <2>4. CASE KillLoad \/ Verdict
    BY <2>4 DEF KillLoad, Verdict, VictimInv
  <2>5. CASE ServersByThemselves \/ LoadByItself \/ UNCHANGED vars
    BY <2>5 DEF ServersByThemselves, LoadByItself, scriptVars, vars
  <2> QED BY <2>2, <2>3, <2>4, <2>5 DEF Next, ScriptStep
<1> QED BY <1>1, <1>2, TypeCorrect, VictimAlways, PTL DEF Spec

-------------------------------------------------------------------------------
(* RollingUpgrade *)

\* The phases in which the node in hand is not done, and those that follow the loop.
Rolling == {"shutdown", "load", "restart", "ping", "upgrade"}
Rolled == {"oltp", "verdict"}

\* The nodes above the one in hand are done.
UpgradeProgress ==
  /\ node \in Nodes /\ upgraded \subseteq Nodes /\ version \in [Nodes -> {"lower", "upper"}]
  /\ stage \in Rolling \cup Rolled \cup {"stop", "stopped", "failed"}
  /\ stage \in Rolling => upgraded = {i \in Nodes : i > node}
  /\ stage \in Rolled => upgraded = Nodes /\ node = 1
  /\ \A i \in upgraded : version[i] = "upper"
  /\ stage \in {"ping", "upgrade"} => version[node] = "upper"

\* The upgrade bootstraps no node: no component is founded.
UpgradeServerInv ==
  ClusterTypeOK /\ NoFounder /\ NoSplitBrain /\ original \subseteq Nodes /\ crashed \subseteq Nodes

\* Without a crash who answers is a member, and so are those that were one at the
\* start and those that are done, but for the node in hand.
AwayInv ==
  crashed = {} /\ stage \in Rolling \cup Rolled =>
    /\ \A i \in Nodes : Answers(i) => comp[i] # NoComponent
    /\ \A i \in Nodes : i \in (original \ {node}) \cup upgraded => comp[i] # NoComponent

LEMMA InitUpgrade == UpgradeInit => UpgradeProgress /\ UpgradeServerInv /\ AwayInv
<1> SUFFICES ASSUME UpgradeInit PROVE UpgradeProgress /\ UpgradeServerInv /\ AwayInv
  OBVIOUS
<1>1. PICK c \in Components, last \in {"synced", "open"},
          slow \in [2..(N - 1) -> {"synced", "open", "starting", "down"}] :
        /\ proc = [i \in Nodes |-> IF i \in 2..(N - 1) THEN slow[i]
                                    ELSE IF i = 1 THEN "synced" ELSE last]
        /\ original = {i \in Nodes : Answers(i)}
        /\ comp = [i \in Nodes |-> IF i \in original THEN c ELSE NoComponent]
        /\ datadir = [i \in Nodes |-> IF i \in original THEN "unsafe" ELSE "fresh"]
  BY DEF UpgradeInit, Answers
<1>2. ClusterTypeOK
  BY <1>1 DEF ClusterTypeOK, ProcStates, DatadirStates
<1>3. NoFounder /\ NoSplitBrain
  BY <1>1 DEF NoFounder, NoSplitBrain
<1>4. stage = "shutdown" /\ node = N /\ upgraded = {} /\ crashed = {}
      /\ version = [i \in Nodes |-> "lower"]
  BY DEF UpgradeInit
<1>5. UpgradeProgress
  BY <1>4, NodeBounds DEF UpgradeProgress, Rolling, Rolled, Nodes
<1>6. AwayInv
  BY <1>1, <1>4, ComponentsAssumption DEF AwayInv
<1> QED BY <1>1, <1>2, <1>3, <1>4, <1>5, <1>6 DEF UpgradeServerInv

\* A step shuts the node in hand down, starts it again, leaves the servers alone or
\* is one of the servers.
LEMMA UpgradeChange ==
  ASSUME [UpgradeNext]_upgradeVars
  PROVE  /\ UNCHANGED original
         /\ \/ UNCHANGED <<clusterVars, crashed>>
            \/ ShutdownNode /\ Shutdown(node) /\ UNCHANGED crashed
            \/ RestartUpper /\ Start(node, "starting") /\ UNCHANGED crashed
            \/ StopNode /\ Shutdown(node) /\ UNCHANGED crashed
            \/ ServersMeanwhile /\ ServerStep
<1> USE DEF clusterVars
<1>1. CASE ShutdownNode
  BY <1>1 DEF ShutdownNode
<1>2. CASE LoadWhileAway \/ PingAnswered \/ PingRefused
  BY <1>2 DEF LoadWhileAway, PingAnswered, PingRefused
<1>3. CASE RestartUpper
  BY <1>3 DEF RestartUpper
<1>4. CASE UpgradeNode \/ OltpAfterUpgrade \/ CompareTables
  BY <1>4 DEF UpgradeNode, OltpAfterUpgrade, CompareTables
<1>5. CASE StopNode
  BY <1>5 DEF StopNode
<1>6. CASE ServersMeanwhile
  BY <1>6 DEF ServersMeanwhile
<1>7. CASE UNCHANGED upgradeVars
  BY <1>7 DEF upgradeVars
<1> QED BY <1>1, <1>2, <1>3, <1>4, <1>5, <1>6, <1>7 DEF UpgradeNext, UpgradeStep

LEMMA UpgradeProgressStep ==
  ASSUME UpgradeProgress, [UpgradeNext]_upgradeVars
  PROVE  UpgradeProgress'
<1> USE NodeBounds DEF UpgradeProgress, Rolling, Rolled, Goto, Exit
<1>1. CASE ShutdownNode
  BY <1>1 DEF ShutdownNode
<1>2. CASE LoadWhileAway \/ PingAnswered
  BY <1>2 DEF LoadWhileAway, PingAnswered
<1>3. CASE PingRefused
  BY <1>3 DEF PingRefused
<1>4. CASE RestartUpper
  BY <1>4 DEF RestartUpper, Nodes
<1>5. CASE UpgradeNode
  <2>1. CASE upgraded' = upgraded
    BY <1>5, <2>1 DEF UpgradeNode
  <2>2. CASE /\ upgraded' = upgraded \cup {node}
             /\ IF node > 1 THEN Goto("shutdown", node - 1) ELSE Goto("oltp", 1)
    <3>1. upgraded' = {i \in Nodes : i >= node} /\ version' = version
      BY <1>5, <2>2 DEF UpgradeNode, Nodes
    <3>2. \A i \in upgraded' : version'[i] = "upper"
      BY <1>5, <2>2, <3>1 DEF UpgradeNode
    <3>3. CASE node > 1
      <4>1. {i \in Nodes : i >= node} = {i \in Nodes : i > node - 1} /\ node - 1 \in Nodes
        BY <3>3 DEF Nodes
      <4> QED BY <2>2, <3>1, <3>2, <3>3, <4>1
    <3>4. CASE ~(node > 1)
      <4>1. {i \in Nodes : i >= node} = Nodes
        BY <3>4 DEF Nodes
      <4> QED BY <2>2, <3>1, <3>2, <3>4, <4>1
    <3> QED BY <3>3, <3>4
  <2> QED BY <1>5, <2>1, <2>2 DEF UpgradeNode
<1>6. CASE OltpAfterUpgrade \/ CompareTables
  BY <1>6 DEF OltpAfterUpgrade, CompareTables
<1>7. CASE StopNode
  BY <1>7 DEF StopNode, Nodes
<1>8. CASE ServersMeanwhile \/ UNCHANGED upgradeVars
  BY <1>8 DEF ServersMeanwhile, upgradeVars, loopVars
<1> QED BY <1>1, <1>2, <1>3, <1>4, <1>5, <1>6, <1>7, <1>8 DEF UpgradeNext, UpgradeStep

LEMMA UpgradeServerStep ==
  ASSUME UpgradeProgress, UpgradeServerInv, [UpgradeNext]_upgradeVars
  PROVE  UpgradeServerInv'
<1>1. ClusterTypeOK /\ node \in Nodes /\ original' \subseteq Nodes
  BY UpgradeChange DEF UpgradeServerInv, UpgradeProgress
<1>2. crashed' \subseteq Nodes
  BY UpgradeChange DEF UpgradeServerInv, ServersMeanwhile
<1> USE DEF UpgradeServerInv, NoFounder, NoSplitBrain
<1>3. CASE UNCHANGED clusterVars
  BY <1>1, <1>2, <1>3 DEF clusterVars, ClusterTypeOK
<1>4. CASE Shutdown(node)
  <2>1. ClusterTypeOK'
    BY <1>1, <1>4 DEF Shutdown, ClusterTypeOK, ProcStates, DatadirStates
  <2> QED BY <1>1, <1>2, <1>4, <2>1 DEF Shutdown, ClusterTypeOK
<1>5. CASE Start(node, "starting")
  <2>1. ClusterTypeOK'
    BY <1>1, <1>5 DEF Start, ClusterTypeOK, ProcStates
  <2> QED BY <1>1, <1>2, <1>5, <2>1 DEF Start, ClusterTypeOK
<1>6. CASE ServerStep
  <2>1. NoFounder' /\ NoSplitBrain'
    BY <1>1, <1>6, ServerOneComponent
  <2> QED BY <1>1, <1>2, <1>6, <2>1, ServerType
<1> QED BY <1>3, <1>4, <1>5, <1>6, UpgradeChange

\* Until the cluster is stopped the node in hand changes when it is done.
LEMMA UpgradeFlow ==
  ASSUME UpgradeProgress, [UpgradeNext]_upgradeVars, stage' \in Rolling \cup Rolled
  PROVE  /\ stage \in Rolling \cup Rolled /\ ~StopNode
         /\ \/ UNCHANGED <<node, upgraded>>
            \/ Answers(node) /\ upgraded' = upgraded \cup {node} /\ UpgradeNode
<1> USE DEF Goto, Exit, Rolling, Rolled, StopNode
<1>1. CASE ShutdownNode \/ LoadWhileAway \/ RestartUpper
  BY <1>1 DEF ShutdownNode, LoadWhileAway, RestartUpper
<1>2. CASE PingAnswered \/ PingRefused
  BY <1>2 DEF PingAnswered, PingRefused
<1>3. CASE UpgradeNode
  BY <1>3 DEF UpgradeNode
<1>4. CASE OltpAfterUpgrade \/ CompareTables \/ StopNode
  BY <1>4 DEF OltpAfterUpgrade, CompareTables, UpgradeProgress
<1>5. CASE ServersMeanwhile \/ UNCHANGED upgradeVars
  BY <1>5 DEF ServersMeanwhile, upgradeVars, loopVars
<1> QED BY <1>1, <1>2, <1>3, <1>4, <1>5 DEF UpgradeNext, UpgradeStep

LEMMA AwayStep ==
  ASSUME UpgradeProgress, UpgradeServerInv, AwayInv, [UpgradeNext]_upgradeVars
  PROVE  AwayInv'
<1> SUFFICES ASSUME crashed' = {}, stage' \in Rolling \cup Rolled
             PROVE  /\ \A i \in Nodes : Answers(i)' => comp'[i] # NoComponent
                    /\ \A i \in Nodes : i \in ((original \ {node}) \cup upgraded)' =>
                         comp'[i] # NoComponent
  BY DEF AwayInv
<1>1. ClusterTypeOK /\ UNCHANGED original /\ node \in Nodes
  BY UpgradeChange DEF UpgradeServerInv, UpgradeProgress
<1>2. crashed = {}
  BY UpgradeChange DEF ServersMeanwhile
<1>3. /\ \A i \in Nodes : Answers(i) => comp[i] # NoComponent
      /\ \A i \in Nodes : i \in (original \ {node}) \cup upgraded => comp[i] # NoComponent
  BY <1>2, UpgradeFlow DEF AwayInv
<1>4. CASE UNCHANGED clusterVars
  BY <1>1, <1>3, <1>4, UpgradeFlow DEF clusterVars, Answers
<1>5. CASE ShutdownNode /\ Shutdown(node)
  <2>1. stage = "shutdown" /\ UNCHANGED upgraded
    BY <1>5 DEF ShutdownNode
  <2>2. UNCHANGED node /\ node \notin upgraded
    <3>1. upgraded = {i \in Nodes : i > node}
      BY <2>1 DEF UpgradeProgress, Rolling
    <3>2. node \notin upgraded
      BY <1>1, <3>1 DEF Nodes
    <3> QED BY <2>1, <3>2, UpgradeFlow
  <2> QED BY <1>1, <1>3, <1>5, <2>1, <2>2 DEF Shutdown, ClusterTypeOK, Answers
<1>6. CASE RestartUpper /\ Start(node, "starting")
  <2>1. UNCHANGED <<node, upgraded>>
    BY <1>6 DEF RestartUpper, Goto
  <2> QED BY <1>1, <1>3, <1>6, <2>1 DEF Start, ClusterTypeOK, Answers
<1>7. CASE ServersMeanwhile /\ ServerStep
  <2>1. UNCHANGED <<node, upgraded>>
    BY <1>7 DEF ServersMeanwhile, loopVars
  <2>2. {i \in Nodes : Running(i) /\ proc'[i] = "down"} = {}
    BY <1>7 DEF ServersMeanwhile, Running
  <2>3. PICK j \in Nodes : Join(j) \/ OpenPort(j) \/ CatchUp(j)
    BY <1>1, <1>7, <2>2, ServerCalm DEF UpgradeServerInv
  <2>4. CASE Join(j)
    BY <1>1, <1>3, <2>1, <2>4 DEF Join, ClusterTypeOK, Answers
  <2>5. CASE OpenPort(j) \/ CatchUp(j)
    BY <1>1, <1>3, <2>1, <2>5 DEF OpenPort, CatchUp, ClusterTypeOK, Answers
  <2> QED BY <2>3, <2>4, <2>5
<1> QED BY <1>4, <1>5, <1>6, <1>7, UpgradeFlow, UpgradeChange

LEMMA UpgradeAlways == UpgradeSpec => [](UpgradeProgress /\ UpgradeServerInv /\ AwayInv)
<1> QED BY InitUpgrade, UpgradeProgressStep, UpgradeServerStep, AwayStep, PTL DEF UpgradeSpec

\* The upgrade restarts every server, node 1 last, and founds no component on the
\* way: each node leaves the one there is and comes back to the same.
THEOREM UpgradeMembershipTheorem == UpgradeSpec => [][KeepsComponent]_members
<1>1. ASSUME UpgradeProgress, UpgradeServerInv, [UpgradeNext]_upgradeVars
      PROVE  [KeepsComponent]_members
  <2>1. ClusterTypeOK /\ NoFounder /\ NoSplitBrain /\ node \in Nodes
    BY <1>1 DEF UpgradeProgress, UpgradeServerInv
  <2>2. CASE UNCHANGED clusterVars
    BY <2>2 DEF clusterVars, members
  <2>3. CASE Shutdown(node)
    BY <2>1, <2>3, ShutdownKeeps
  <2>4. CASE Start(node, "starting")
    BY <2>4 DEF Start, members
  <2>5. CASE ServerStep
    BY <2>1, <2>5, NoFounderKeeps
  <2> QED BY <1>1, <2>2, <2>3, <2>4, <2>5, UpgradeChange
<1> QED BY <1>1, UpgradeAlways, PTL DEF UpgradeSpec

\* Every variable of RollingUpgrade stays in its domain: in particular the loop
\* never leaves the nodes and the pings stay below their limit.
THEOREM UpgradeTypeCorrect == UpgradeSpec => []UpgradeTypeOK
<1> DEFINE Rest == pings \in 0..(PingLimit - 1) /\ sst \in BOOLEAN
<1>1. UpgradeInit => Rest
  BY PingLimitAssumption DEF UpgradeInit
<1>2. ASSUME Rest, [UpgradeNext]_upgradeVars PROVE Rest'
  <2> USE <1>2, PingLimitAssumption DEF Goto, Exit
  <2>1. CASE ShutdownNode \/ LoadWhileAway \/ RestartUpper
    BY <2>1 DEF ShutdownNode, LoadWhileAway, RestartUpper
  <2>2. CASE PingAnswered \/ PingRefused
    BY <2>2 DEF PingAnswered, PingRefused
  <2>3. CASE UpgradeNode \/ OltpAfterUpgrade \/ CompareTables \/ StopNode
    BY <2>3 DEF UpgradeNode, OltpAfterUpgrade, CompareTables, StopNode
  <2>4. CASE ServersMeanwhile \/ UNCHANGED upgradeVars
    BY <2>4 DEF ServersMeanwhile, upgradeVars, loopVars
  <2> QED BY <2>1, <2>2, <2>3, <2>4 DEF UpgradeNext, UpgradeStep
<1>3. UpgradeProgress /\ UpgradeServerInv /\ Rest => UpgradeTypeOK
  BY DEF UpgradeProgress, UpgradeServerInv, UpgradeTypeOK, Rolling, Rolled, Stages
<1> HIDE DEF Rest
<1> QED BY <1>1, <1>2, <1>3, UpgradeAlways, PTL DEF UpgradeSpec

\* Whatever the number of nodes, without a crash every member but the node in hand
\* stays in one primary component: a node that answers its ping is a member again.
THEOREM OneNodeAwayTheorem == UpgradeSpec => []OneNodeAway
<1>1. UpgradeProgress /\ UpgradeServerInv /\ AwayInv => OneNodeAway
  BY DEF UpgradeProgress, UpgradeServerInv, AwayInv, NoSplitBrain, OneNodeAway
<1> QED BY <1>1, UpgradeAlways, PTL

\* And the tables that are compared are those of a cluster all of whose nodes were
\* started with the new version and upgraded.
THEOREM ComparedUpgradedTheorem == UpgradeSpec => []ComparedUpgraded
<1>1. UpgradeProgress /\ UpgradeServerInv /\ AwayInv => ComparedUpgraded
  BY NodeBounds
     DEF UpgradeProgress, UpgradeServerInv, AwayInv, NoSplitBrain, ComparedUpgraded, Rolled
<1> QED BY <1>1, UpgradeAlways, PTL

\* How many steps of rolling_upgrade can still follow at most.
NodeSteps == PingLimit + 4
AfterLoop == (node - 1) * NodeSteps + N + 3
UpgradeStepsLeft ==
  CASE stage \in {"stopped", "failed"} -> 0
    [] stage = "stop"     -> node
    [] stage = "verdict"  -> N + 1
    [] stage = "oltp"     -> N + 2
    [] stage = "upgrade"  -> AfterLoop
    [] stage = "ping"     -> AfterLoop + PingLimit - pings
    [] stage = "restart"  -> AfterLoop + PingLimit + 1
    [] stage = "load"     -> AfterLoop + PingLimit + 2
    [] stage = "shutdown" -> AfterLoop + PingLimit + 3

LEMMA UpgradeCounted ==
  ASSUME UpgradeTypeOK
  PROVE  /\ PingLimit \in Nat \ {0} /\ N \in Nat /\ node \in Nat \ {0} /\ node <= N
         /\ pings \in Nat /\ pings < PingLimit /\ stage \in Stages
         /\ (node - 1) * NodeSteps \in Nat
         /\ node > 1 => ((node - 1) - 1) * NodeSteps = (node - 1) * NodeSteps - NodeSteps
<1>1. /\ PingLimit \in Nat \ {0} /\ N \in Nat /\ node \in Nat \ {0} /\ node <= N
      /\ pings \in Nat /\ pings < PingLimit /\ stage \in Stages
  BY PingLimitAssumption, NodeBounds DEF UpgradeTypeOK, Nodes
<1>2. NodeSteps \in Nat
  BY <1>1 DEF NodeSteps
<1>3. \A n, m \in Nat : n * m \in Nat /\ (n - 1) * m = n * m - m
  OBVIOUS
<1>4. node - 1 \in Nat
  BY <1>1
<1>5. (node - 1) * NodeSteps \in Nat /\ ((node - 1) - 1) * NodeSteps = (node - 1) * NodeSteps - NodeSteps
  BY <1>2, <1>3, <1>4
<1> QED BY <1>1, <1>5

LEMMA UpgradeStepsNat == ASSUME UpgradeTypeOK PROVE UpgradeStepsLeft \in Nat
  BY UpgradeCounted DEF UpgradeStepsLeft, AfterLoop, Stages

LEMMA UpgradeStepsFewer ==
  ASSUME UpgradeTypeOK, UpgradeStep
  PROVE  UpgradeStepsLeft' < UpgradeStepsLeft
<1> USE UpgradeCounted DEF UpgradeStepsLeft, AfterLoop, Goto, Exit
<1>1. CASE ShutdownNode
  BY <1>1 DEF ShutdownNode
<1>2. CASE LoadWhileAway \/ RestartUpper
  BY <1>2 DEF LoadWhileAway, RestartUpper
<1>3. CASE PingAnswered
  BY <1>3 DEF PingAnswered
<1>4. CASE PingRefused
  BY <1>4 DEF PingRefused
<1>5. CASE UpgradeNode
  BY <1>5 DEF UpgradeNode, NodeSteps
<1>6. CASE OltpAfterUpgrade \/ CompareTables
  BY <1>6 DEF OltpAfterUpgrade, CompareTables
<1>7. CASE StopNode
  BY <1>7 DEF StopNode
<1> QED BY <1>1, <1>2, <1>3, <1>4, <1>5, <1>6, <1>7 DEF UpgradeStep

\* Whatever the servers do, the upgrade takes no more steps than its nodes and pings
\* give: no loop of it waits for a server without counting.
THEOREM UpgradeBoundedTheorem ==
  UpgradeSpec => /\ [](UpgradeStepsLeft \in Nat)
                 /\ [][UpgradeStepsLeft' < UpgradeStepsLeft \/ UNCHANGED loopVars]_upgradeVars
<1>1. ASSUME UpgradeTypeOK, [UpgradeNext]_upgradeVars
      PROVE  UpgradeStepsLeft' < UpgradeStepsLeft \/ UNCHANGED loopVars
  BY <1>1, UpgradeStepsFewer DEF UpgradeNext, ServersMeanwhile, upgradeVars
<1> QED BY <1>1, UpgradeStepsNat, UpgradeTypeCorrect, PTL DEF UpgradeSpec

===============================================================================
