------------------------ MODULE ClusterLifecycleProofs ------------------------
(***************************************************************************)
(* What holds of ClusterLifecycle for every number of nodes, ping limit    *)
(* and number of scenarios.  The theorems that depend on sanity_check      *)
(* assume N <= 9: its pattern conf/node[0-9].cnf finds no further node.    *)
(***************************************************************************)
EXTENDS ClusterLifecycle, ClusterProofs

\* Between sanity_check, or the end of stop_galera, and the first launch
\* nothing runs.
Quiet ==
  pc \in {"config", "init", "stopped"} \/ (pc = "launch" /\ node = 1)
    => \A i \in Nodes : ~Running(i)

\* start_cluster has launched this node.
Launched(i) == i < node \/ (i = node /\ pc = "ping")

LaunchInOrder ==
  pc \in {"launch", "ping"} => \A i \in Nodes : Running(i) => Launched(i)

StopInOrder == pc = "stop" => \A i \in Nodes : Running(i) => i <= node

\* What ties the script to the servers.
ScriptInv == Quiet /\ LaunchInOrder /\ StopInOrder

SafetyInv == TypeOK /\ ServerInv /\ ScriptInv

\* A node that this round started, and that is not yet stopped, has died.
Lost(k) ==
  /\ ~Running(k)
  /\ pc \in {"launch", "ping"} => Launched(k)
  /\ pc = "stop" => k <= node

\* Only a death costs a server its primary component.
QuorumLostByDeath ==
  \A i \in Nodes :
    Answers(i) /\ comp[i] = NoComponent => \E k \in Nodes : Lost(k)

\* Unless a node has died, the nodes stopped so far are not safe to bootstrap.
StoppedUnsafe ==
  pc = "stop" =>
    \/ \E k \in Nodes : Lost(k)
    \/ \A i \in Nodes : i > node => datadir[i] = "unsafe"

\* From the first install, or the end of stop_galera, to its start, node 1 has a
\* data directory it may bootstrap from.
FounderBootable ==
  /\ pc = "sanity" => mode # "restart"
  /\ \/ proc[1] = "bootstrapping"
     \/ pc = "launch" /\ node = 1
     \/ pc = "config" /\ mode # "start"
     \/ pc = "init" /\ node > 1
     => datadir[1] # "unsafe"

RestartInv ==
  /\ QuorumLostByDeath
  /\ StoppedUnsafe
  /\ FounderBootable
  /\ CleanStop

IInv == SafetyInv /\ RestartInv

-------------------------------------------------------------------------------
(* Type correctness *)

LEMMA GotoType ==
  ASSUME NEW p \in Phases, NEW i \in Nodes, Goto(p, i)
  PROVE  pc' \in Phases /\ node' \in Nodes /\ pings' \in 0..PingLimit
  BY PingLimitAssumption DEF Goto

LEMMA ExitType ==
  ASSUME Exit
  PROVE  pc' \in Phases /\ node' \in Nodes /\ pings' \in 0..PingLimit
BY GotoType, NodeBounds DEF Exit, Phases

LEMMA TypeStep ==
  ASSUME TypeOK, [Next]_vars
  PROVE  TypeOK'
<1> USE DEF TypeOK
<1>1. CASE \E m \in Modes : BeginScript(m)
  <2>1. "sanity" \in Phases /\ 0 \in 0..MaxRounds
    BY MaxRoundsAssumption DEF Phases
  <2> QED BY <1>1, <2>1, GotoType, NodeBounds
          DEF BeginScript, clusterVars, ClusterTypeOK
<1>2. CASE SanityCheck
  <2>1. ClusterTypeOK'
    BY <1>2, LoseType DEF SanityCheck
  <2>2. AfterSanity \in Phases
    BY DEF AfterSanity, Phases
  <2> QED BY <1>2, <2>1, <2>2, GotoType, ExitType, NodeBounds DEF SanityCheck
<1>3. CASE CreateConfig
  <2>1. AfterConfig \in Phases
    BY DEF AfterConfig, Phases
  <2> QED BY <1>3, <2>1, GotoType, ExitType, NodeBounds
          DEF CreateConfig, clusterVars, ClusterTypeOK
<1>4. CASE InitializeNode
  <2>1. ClusterTypeOK'
    BY <1>4 DEF InitializeNode, ClusterTypeOK, DatadirStates
  <2>2. AfterInit \in Phases /\ "init" \in Phases
    BY DEF AfterInit, Phases
  <2>3. node < N => node + 1 \in Nodes
    BY NodeBounds DEF Nodes
  <2> QED BY <1>4, <2>1, <2>2, <2>3, GotoType, ExitType, NodeBounds
          DEF InitializeNode
<1>5. CASE LaunchNode
  <2>1. ClusterTypeOK'
    BY <1>5 DEF LaunchNode, Start, ClusterTypeOK, ProcStates
  <2>2. "ping" \in Phases
    BY DEF Phases
  <2> QED BY <1>5, <2>1, <2>2, GotoType DEF LaunchNode
<1>6. CASE PingAnswered
  <2>1. {"launch", "connect"} \subseteq Phases
    BY DEF Phases
  <2>2. node < N => node + 1 \in Nodes
    BY NodeBounds DEF Nodes
  <2> QED BY <1>6, <2>1, <2>2, GotoType, NodeBounds
          DEF PingAnswered, clusterVars, ClusterTypeOK
<1>7. CASE PingRefused
  <2>1. "launch" \in Phases
    BY DEF Phases
  <2>2. node < N => node + 1 \in Nodes
    BY NodeBounds DEF Nodes
  <2>3. pings + 1 < PingLimit => pings + 1 \in 0..PingLimit
    BY PingLimitAssumption
  <2> QED BY <1>7, <2>1, <2>2, <2>3, GotoType, ExitType
          DEF PingRefused, clusterVars, ClusterTypeOK
<1>8. CASE ConnectionCheck
  BY <1>8, GotoType, ExitType, NodeBounds
  DEF ConnectionCheck, clusterVars, ClusterTypeOK, Phases
<1>9. CASE StopGalera \/ BeginStop
  <2>1. "stop" \in Phases /\ 0 \in 0..MaxRounds
    BY MaxRoundsAssumption DEF Phases
  <2> QED BY <1>9, <2>1, GotoType, NodeBounds
          DEF StopGalera, BeginStop, clusterVars, ClusterTypeOK
<1>10. CASE AbandonCluster
  BY <1>10, ExitType DEF AbandonCluster, clusterVars, ClusterTypeOK
<1>11. CASE StopNode
  <2>1. ClusterTypeOK'
    BY <1>11 DEF StopNode, Shutdown, clusterVars, ClusterTypeOK, ProcStates,
                 DatadirStates
  <2>2. {"stop", "stopped"} \subseteq Phases
    BY DEF Phases
  <2>3. node > 1 => node - 1 \in Nodes
    BY NodeBounds DEF Nodes
  <2> QED BY <1>11, <2>1, <2>2, <2>3, GotoType, ExitType, NodeBounds DEF StopNode
<1>12. CASE NextScenario \/ RestartCluster
  <2>1. rounds < MaxRounds => rounds + 1 \in 0..MaxRounds
    BY MaxRoundsAssumption
  <2>2. {"sanity", "config"} \subseteq Phases /\ {"start", "restart"} \subseteq Modes
    BY DEF Phases, Modes
  <2> QED BY <1>12, <2>1, <2>2, GotoType, NodeBounds
          DEF NextScenario, RestartCluster, clusterVars, ClusterTypeOK
<1>13. CASE EndScript
  BY <1>13, ExitType DEF EndScript, clusterVars, ClusterTypeOK
<1>14. CASE ClusterStep
  BY <1>14, ServerType DEF ClusterStep, scriptVars
<1>15. CASE UNCHANGED vars
  BY <1>15 DEF vars, clusterVars, scriptVars, ClusterTypeOK
<1> QED BY <1>1, <1>2, <1>3, <1>4, <1>5, <1>6, <1>7, <1>8, <1>9, <1>10, <1>11,
           <1>12, <1>13, <1>14, <1>15 DEF Next, ScriptStep

LEMMA TypeInit == ASSUME Init PROVE TypeOK
<1>1. ClusterTypeOK
  BY DEF Init, ClusterInit, ClusterTypeOK, ProcStates, DatadirStates
<1>2. 0 \in 0..PingLimit /\ 0 \in 0..MaxRounds
  BY PingLimitAssumption, MaxRoundsAssumption
<1> QED BY <1>1, <1>2, NodeBounds DEF Init, TypeOK, Phases, Modes

\* Every variable of the script and of the servers keeps its type.
THEOREM TypeCorrect == Spec => []TypeOK
  BY TypeInit, TypeStep, PTL DEF Spec

-------------------------------------------------------------------------------
(* One primary component *)

\* Fewer servers run, and the script does not move.
LEMMA ScriptInvMonotone ==
  ASSUME ScriptInv, UNCHANGED <<pc, node>>,
         \A i \in Nodes : Running(i)' => Running(i)
  PROVE  ScriptInv'
  BY DEF ScriptInv, Quiet, LaunchInOrder, StopInOrder, Launched

\* The script moves to a phase that asks nothing of the servers.
LEMMA ScriptInvFree ==
  ASSUME NEW p \in {"idle", "sanity", "connect", "run"}, NEW i, Goto(p, i)
  PROVE  ScriptInv'
  BY DEF Goto, ScriptInv, Quiet, LaunchInOrder, StopInOrder

\* sanity_check finds every server when there are at most nine.
LEMMA AllMatched == ASSUME N <= 9 PROVE Matched = Nodes
  BY NAssumption DEF Matched, Nodes

LEMMA SafetySanityCheck ==
  ASSUME N <= 9, TypeOK, ServerInv, ScriptInv, SanityCheck
  PROVE  ServerInv' /\ ScriptInv'
<1>1. Lose(Nodes)
  BY AllMatched DEF SanityCheck
<1>2. ServerInv'
  BY <1>1, LoseSafety
<1>3. \A i \in Nodes : ~Running(i)'
  BY <1>1, LoseFacts DEF Running, ServerInv
<1>4. ScriptInv'
  BY <1>3 DEF ScriptInv, Quiet, LaunchInOrder, StopInOrder
<1> QED BY <1>2, <1>4

LEMMA SafetyInitializeNode ==
  ASSUME TypeOK, ServerInv, ScriptInv, InitializeNode
  PROVE  ServerInv' /\ ScriptInv'
<1>1. ServerInv'
  BY ServerInvUnchanged DEF InitializeNode, TypeOK, ClusterTypeOK, DatadirStates
<1>2. \A i \in Nodes : ~Running(i)'
  BY DEF InitializeNode, ScriptInv, Quiet, Running
<1>3. ScriptInv'
  BY <1>2 DEF ScriptInv, Quiet, LaunchInOrder, StopInOrder
<1> QED BY <1>1, <1>3

\* The first node is launched while nothing runs, a later one is not yet
\* running.
LEMMA SafetyLaunchNode ==
  ASSUME TypeOK, ServerInv, ScriptInv, LaunchNode
  PROVE  ServerInv' /\ ScriptInv'
<1> USE NodeBounds
<1>1. ~Running(node)
  BY DEF LaunchNode, ScriptInv, LaunchInOrder, Launched, TypeOK, Nodes
<1>2. node = 1 => \A i \in Nodes : ~Running(i) /\ comp[i] = NoComponent
  BY DEF LaunchNode, ScriptInv, Quiet, ServerInv, DownIsOut
<1>3. /\ proc' = [proc EXCEPT ![node] = IF node = 1 THEN "bootstrapping" ELSE "starting"]
      /\ UNCHANGED <<comp, datadir>>
      /\ pc = "launch" /\ pc' = "ping" /\ node' = node
  BY <1>1 DEF LaunchNode, Start, Goto
<1>4. ServerInv'
  <2>1. node = 1 => members = {}
    BY <1>2 DEF members
  <2>2. CASE node = 1
    BY <2>1, <2>2, StartSafety DEF LaunchNode
  <2>3. CASE node # 1
    BY <2>3, StartSafety DEF LaunchNode, TypeOK
  <2> QED BY <2>2, <2>3
<1>5. ScriptInv'
  BY <1>3 DEF ServerInv, ScriptInv, Quiet, LaunchInOrder, StopInOrder, Launched, Running,
              TypeOK, ClusterTypeOK
<1> QED BY <1>4, <1>5

LEMMA SafetyPing ==
  ASSUME TypeOK, ScriptInv, PingAnswered \/ PingRefused
  PROVE  ScriptInv'
<1> USE NodeBounds
<1>1. CASE Goto("launch", node + 1) /\ pc = "ping" /\ UNCHANGED clusterVars
  BY <1>1 DEF Goto, clusterVars, ScriptInv, Quiet, LaunchInOrder, StopInOrder,
              Launched, Running, TypeOK, Nodes
<1>2. CASE Goto("connect", 1) \/ Goto("idle", 1)
  BY <1>2, ScriptInvFree
<1>3. CASE UNCHANGED <<pc, node>> /\ UNCHANGED clusterVars
  BY <1>3, ScriptInvMonotone DEF clusterVars, Running
<1> QED BY <1>1, <1>2, <1>3 DEF PingAnswered, PingRefused, Exit

LEMMA SafetyStopNode ==
  ASSUME TypeOK, ServerInv, ScriptInv, StopNode
  PROVE  ServerInv' /\ ScriptInv'
<1> USE NodeBounds
<1>1. CASE Exit /\ UNCHANGED clusterVars
  BY <1>1, ScriptInvFree, ServerInvClusterUnchanged DEF Exit
<1>2. CASE Shutdown(node)
  <2> USE <1>2
  <2>1. ServerInv'
    BY ShutdownSafety DEF TypeOK
  <2>3. \A i \in Nodes : Running(i)' => i < node
    BY DEF Shutdown, StopNode, ScriptInv, StopInOrder, Running, TypeOK,
           ClusterTypeOK, Nodes
  <2>4. \/ node > 1 /\ Goto("stop", node - 1)
        \/ node = 1 /\ Goto("stopped", 1)
    BY DEF StopNode, Shutdown, TypeOK, Nodes
  <2>5. ScriptInv'
    BY <2>3, <2>4 DEF Goto, ScriptInv, Quiet, LaunchInOrder, StopInOrder, TypeOK, Nodes
  <2> QED BY <2>1, <2>5
<1> QED BY <1>1, <1>2 DEF StopNode

LEMMA SafetyStep ==
  ASSUME N <= 9, TypeOK, ServerInv, ScriptInv, [Next]_vars
  PROVE  ServerInv' /\ ScriptInv'
<1> USE NodeBounds
<1>1. CASE \E m \in Modes : BeginScript(m)
  BY <1>1, ServerInvClusterUnchanged, ScriptInvFree DEF BeginScript
<1>2. CASE SanityCheck
  BY <1>2, SafetySanityCheck
<1>3. CASE CreateConfig
  <2>1. ServerInv'
    BY <1>3, ServerInvClusterUnchanged DEF CreateConfig
  <2>2. \A i \in Nodes : ~Running(i)'
    BY <1>3 DEF CreateConfig, ScriptInv, Quiet, Running, clusterVars
  <2> QED BY <2>1, <2>2 DEF ScriptInv, Quiet, LaunchInOrder, StopInOrder
<1>4. CASE InitializeNode
  BY <1>4, SafetyInitializeNode
<1>5. CASE LaunchNode
  BY <1>5, SafetyLaunchNode
<1>6. CASE PingAnswered \/ PingRefused
  BY <1>6, SafetyPing, ServerInvClusterUnchanged DEF PingAnswered, PingRefused
<1>7. CASE ConnectionCheck \/ AbandonCluster
  BY <1>7, ServerInvClusterUnchanged, ScriptInvFree
  DEF ConnectionCheck, AbandonCluster, Exit
<1>8. CASE StopGalera \/ BeginStop
  <2>1. ServerInv'
    BY <1>8, ServerInvClusterUnchanged DEF StopGalera, BeginStop
  <2> QED BY <1>8, <2>1 DEF StopGalera, BeginStop, Goto, ScriptInv, Quiet,
                            LaunchInOrder, StopInOrder, Nodes
<1>9. CASE StopNode
  BY <1>9, SafetyStopNode
<1>10. CASE NextScenario \/ EndScript
  BY <1>10, ServerInvClusterUnchanged, ScriptInvFree
  DEF NextScenario, EndScript, Exit
<1>11. CASE RestartCluster
  <2>1. ServerInv'
    BY <1>11, ServerInvClusterUnchanged DEF RestartCluster
  <2>2. \A i \in Nodes : ~Running(i)'
    BY <1>11 DEF RestartCluster, ScriptInv, Quiet, Running, clusterVars
  <2> QED BY <2>1, <2>2 DEF ScriptInv, Quiet, LaunchInOrder, StopInOrder
<1>12. CASE ClusterStep
  BY <1>12, ServerSafety, ServerStartsNothing, ScriptInvMonotone
  DEF ClusterStep, scriptVars, TypeOK
<1>13. CASE UNCHANGED vars
  BY <1>13, ServerInvClusterUnchanged, ScriptInvMonotone
  DEF vars, scriptVars, clusterVars, Running
<1> QED BY <1>1, <1>2, <1>3, <1>4, <1>5, <1>6, <1>7, <1>8, <1>9, <1>10, <1>11,
           <1>12, <1>13 DEF Next, ScriptStep

LEMMA SafetyInit == ASSUME Init PROVE SafetyInv
<1>1. \A i \in Nodes : ~Running(i) /\ comp[i] = NoComponent
  BY DEF Init, ClusterInit, Running
<1>2. DownIsOut /\ NoSplitBrain
  BY <1>1 DEF DownIsOut, NoSplitBrain
<1>3. FounderAlone
  BY NodeBounds DEF FounderAlone, Init, ClusterInit
<1>4. Quiet /\ LaunchInOrder /\ StopInOrder
  BY DEF Init, Quiet, LaunchInOrder, StopInOrder
<1> QED BY TypeInit, <1>2, <1>3, <1>4 DEF SafetyInv, ServerInv, ScriptInv, TypeOK

THEOREM SafetyInvariant == ASSUME N <= 9 PROVE Spec => []SafetyInv
<1>1. SafetyInv /\ [Next]_vars => SafetyInv'
  BY SafetyStep, TypeStep DEF SafetyInv
<1> QED BY SafetyInit, <1>1, PTL DEF Spec

\* With at most nine nodes, whatever scenarios are chained and however they end,
\* no two servers are members of different primary components.
THEOREM NoSplitBrainTheorem == ASSUME N <= 9 PROVE Spec => []NoSplitBrain
<1>1. SafetyInv => NoSplitBrain
  BY DEF SafetyInv, ServerInv
<1> QED BY SafetyInvariant, <1>1, PTL

\* With at most nine nodes, initialize_cluster and start_cluster never work on
\* the data directory of a running server.
THEOREM DatadirExclusiveTheorem == ASSUME N <= 9 PROVE Spec => []DatadirExclusive
<1>1. SafetyInv => DatadirExclusive
  BY NodeBounds DEF SafetyInv, ScriptInv, DatadirExclusive, Quiet, LaunchInOrder, Launched,
                    TypeOK, Nodes
<1> QED BY SafetyInvariant, <1>1, PTL

-------------------------------------------------------------------------------
(* A stopped cluster can be started again *)

\* A phase in which Lost says no more than that the server is down, and the
\* other parts of RestartInv ask for nothing.
LEMMA RestartFree ==
  ASSUME TypeOK, RestartInv, UNCHANGED clusterVars,
         NEW p \in {"idle", "sanity", "connect", "run"}, NEW i, Goto(p, i),
         p = "sanity" => mode' # "restart"
  PROVE  RestartInv'
<1>1. pc' = p
  BY DEF Goto
<1>2. QuorumLostByDeath'
  BY <1>1 DEF RestartInv, QuorumLostByDeath, Lost, Answers, Running, clusterVars
<1>3. StoppedUnsafe' /\ CleanStop'
  BY <1>1 DEF StoppedUnsafe, CleanStop
<1>4. FounderBootable'
  BY <1>1 DEF RestartInv, FounderBootable, clusterVars
<1> QED BY <1>2, <1>3, <1>4 DEF RestartInv

\* While nothing runs, only the data directory of node 1 matters.
LEMMA RestartQuiet ==
  ASSUME \A i \in Nodes : ~Running(i)', pc' \notin {"stop", "stopped", "sanity"},
         FounderBootable'
  PROVE  RestartInv'
  BY DEF RestartInv, QuorumLostByDeath, StoppedUnsafe, CleanStop, Answers, Running

LEMMA RestartSanityCheck ==
  ASSUME N <= 9, TypeOK, ServerInv, RestartInv, SanityCheck
  PROVE  RestartInv'
<1>1. Lose(Nodes)
  BY AllMatched DEF SanityCheck
<1>2. \A i \in Nodes : proc'[i] = "down"
  BY <1>1, LoseFacts DEF ServerInv
<1>3. /\ pc' \in {"config", "init", "idle"}
      /\ pc' = "init" => node' = 1
      /\ pc' = "config" => mode' = "start"
  BY DEF SanityCheck, Exit, Goto, AfterSanity, RestartInv, FounderBootable,
         TypeOK, Modes
<1>4. FounderBootable'
  BY <1>2, <1>3, NodeBounds DEF FounderBootable
<1> QED BY <1>2, <1>3, <1>4, RestartQuiet DEF Running

LEMMA RestartCreateConfig ==
  ASSUME TypeOK, SafetyInv, RestartInv, CreateConfig
  PROVE  RestartInv'
<1>1. \A i \in Nodes : proc'[i] = "down"
  BY DEF CreateConfig, SafetyInv, ScriptInv, Quiet, Running, clusterVars
<1>2. /\ pc' \in {"init", "launch", "idle"}
      /\ pc' = "init" => node' = 1
      /\ pc' = "launch" => mode # "start"
      /\ datadir' = datadir /\ pc = "config"
  BY DEF CreateConfig, Exit, Goto, AfterConfig, clusterVars
<1>3. FounderBootable'
  BY <1>1, <1>2, NodeBounds DEF FounderBootable, RestartInv
<1> QED BY <1>1, <1>2, <1>3, RestartQuiet DEF Running

LEMMA RestartInitializeNode ==
  ASSUME TypeOK, SafetyInv, RestartInv, InitializeNode
  PROVE  RestartInv'
<1> USE NodeBounds
<1>1. \A i \in Nodes : proc'[i] = "down"
  BY DEF InitializeNode, SafetyInv, ScriptInv, Quiet, Running
<1>2. /\ pc' \in {"init", "config", "launch", "idle"}
      /\ pc' # "idle" => node = 1 \/ node > 1
  BY DEF InitializeNode, Exit, Goto, AfterInit, TypeOK, Nodes
<1>3. datadir'[1] # "unsafe"
  <2>1. CASE node = 1
    BY <2>1 DEF InitializeNode, TypeOK, ClusterTypeOK
  <2>2. CASE node > 1
    BY <2>2 DEF InitializeNode, TypeOK, ClusterTypeOK, RestartInv, FounderBootable
  <2> QED BY <2>1, <2>2 DEF TypeOK, Nodes
<1>4. FounderBootable'
  BY <1>2, <1>3 DEF FounderBootable
<1> QED BY <1>1, <1>2, <1>4, RestartQuiet DEF Running

LEMMA RestartLaunchNode ==
  ASSUME TypeOK, SafetyInv, RestartInv, LaunchNode
  PROVE  RestartInv'
<1> USE NodeBounds
<1>1. ~Running(node)
  BY DEF LaunchNode, SafetyInv, ScriptInv, LaunchInOrder, Launched, TypeOK, Nodes
<1>2. /\ proc' = [proc EXCEPT ![node] = IF node = 1 THEN "bootstrapping" ELSE "starting"]
      /\ UNCHANGED <<comp, datadir>>
      /\ pc = "launch" /\ pc' = "ping" /\ node' = node
  BY <1>1 DEF LaunchNode, Start, Goto
<1>3. \A k \in Nodes : Lost(k) => Lost(k)'
  BY <1>2 DEF Lost, Launched, Running, TypeOK, ClusterTypeOK, Nodes
<1>4. QuorumLostByDeath'
  BY <1>2, <1>3 DEF RestartInv, QuorumLostByDeath, Answers, TypeOK, ClusterTypeOK
<1>5. FounderBootable'
  BY <1>2 DEF RestartInv, FounderBootable, TypeOK, ClusterTypeOK
<1> QED BY <1>2, <1>4, <1>5 DEF RestartInv, StoppedUnsafe, CleanStop

LEMMA RestartPing ==
  ASSUME TypeOK, RestartInv, PingAnswered \/ PingRefused
  PROVE  RestartInv'
<1> USE NodeBounds
<1>1. CASE Goto("launch", node + 1) /\ pc = "ping" /\ UNCHANGED clusterVars
  <2>1. pc' = "launch" /\ node' = node + 1 /\ node' # 1
    BY <1>1 DEF Goto, TypeOK, Nodes
  <2>2. \A k \in Nodes : Lost(k) => Lost(k)'
    BY <1>1, <2>1 DEF Lost, Launched, Running, clusterVars, TypeOK, Nodes
  <2>3. QuorumLostByDeath'
    BY <1>1, <2>2 DEF RestartInv, QuorumLostByDeath, Answers, clusterVars
  <2>4. FounderBootable'
    BY <1>1, <2>1 DEF RestartInv, FounderBootable, clusterVars
  <2> QED BY <2>1, <2>3, <2>4 DEF RestartInv, StoppedUnsafe, CleanStop
<1>2. CASE (Goto("connect", 1) \/ Goto("idle", 1)) /\ UNCHANGED clusterVars
  BY <1>2, RestartFree
<1>3. CASE UNCHANGED <<pc, node, mode, clusterVars>>
  BY <1>3 DEF RestartInv, QuorumLostByDeath, StoppedUnsafe, FounderBootable,
              CleanStop, Lost, Launched, Answers, Running, clusterVars
<1> QED BY <1>1, <1>2, <1>3 DEF PingAnswered, PingRefused, Exit

\* While no node is lost, a node that stop_galera stops is not the last one out,
\* except node 1: node 1 is still a member of the same component.
LEMMA RestartStopNode ==
  ASSUME TypeOK, SafetyInv, RestartInv, StopNode
  PROVE  RestartInv'
<1> USE NodeBounds
<1>1. CASE Exit /\ UNCHANGED clusterVars
  BY <1>1, RestartFree DEF Exit
<1>2. CASE Shutdown(node)
  <2> USE <1>2
  <2> DEFINE Nobody == \A k \in Nodes : ~Lost(k)
  <2>1. pc = "stop" /\ node \in Nodes /\ Answers(node)
    BY DEF StopNode, Shutdown, TypeOK
  <2>2. \/ node > 1 /\ pc' = "stop" /\ node' = node - 1
        \/ node = 1 /\ pc' = "stopped" /\ node' = 1
    BY <2>1 DEF StopNode, Shutdown, Goto, Nodes
  <2>3. proc' = [proc EXCEPT ![node] = "down"] /\ mode' = mode
    BY DEF Shutdown, StopNode
  <2>4. node > 1 => \A k \in Nodes : Lost(k) => Lost(k)'
    BY <2>1, <2>2, <2>3
    DEF Lost, Running, Answers, TypeOK, ClusterTypeOK, ProcStates, Nodes
  <2>5. node = 1 => Nobody
    BY <2>1 DEF Lost, Running, Answers, Nodes
  <2>6. \A i \in Nodes : i <= node /\ Nobody => Running(i)
    BY <2>1 DEF Lost
  <2>7. Nobody => comp[node] # NoComponent /\ Answers(1) /\ comp[1] = comp[node]
    <3>1. Nobody => comp[node] # NoComponent
      BY <2>1 DEF RestartInv, QuorumLostByDeath
    <3>2. Nobody => proc[1] \in {"open", "synced"}
      BY <2>1, <2>6, <3>1
      DEF Running, SafetyInv, ServerInv, FounderAlone, TypeOK, ClusterTypeOK,
          ProcStates, Nodes
    <3>3. Nobody => comp[1] # NoComponent
      BY <3>2 DEF RestartInv, QuorumLostByDeath, Answers
    <3> QED BY <2>1, <3>1, <3>2, <3>3
            DEF SafetyInv, ServerInv, NoSplitBrain, Answers
  <2>8. Nobody /\ node > 1 => datadir' = [datadir EXCEPT ![node] = "unsafe"]
    <3>1. Nobody /\ node > 1 => 1 \in Members(comp[node]) /\ 1 \notin {node}
      BY <2>7 DEF Members
    <3> QED BY <3>1 DEF Shutdown
  <2>9. node = 1 => datadir' = [datadir EXCEPT ![1] = "safe"]
    <3>1. ASSUME node = 1, NEW i \in Nodes, i # 1 PROVE comp[i] = NoComponent
      BY <2>1, <3>1 DEF SafetyInv, ServerInv, DownIsOut, ScriptInv, StopInOrder, Nodes
    <3>2. node = 1 => Members(comp[1]) = {1}
      BY <2>5, <2>7, <3>1 DEF Members
    <3> QED BY <2>5, <2>7, <3>2 DEF Shutdown
  <2>10. Nobody => \A i \in Nodes : i > node => datadir[i] = "unsafe"
    BY <2>1 DEF RestartInv, StoppedUnsafe
  <2>11. QuorumLostByDeath'
    <3>1. CASE node > 1
      BY <2>3, <2>4, <3>1
      DEF Shutdown, RestartInv, QuorumLostByDeath, Answers, TypeOK, ClusterTypeOK
    <3>2. CASE node = 1
      BY <2>1, <2>3, <3>2
      DEF Answers, QuorumLostByDeath, SafetyInv, ScriptInv, StopInOrder, Running,
          TypeOK, ClusterTypeOK, Nodes
    <3> QED BY <2>2, <3>1, <3>2
  <2>12. StoppedUnsafe'
    <3>1. CASE node > 1 /\ Nobody
      BY <2>2, <2>8, <2>10, <3>1 DEF StoppedUnsafe, TypeOK, ClusterTypeOK, Nodes
    <3>2. CASE node > 1 /\ ~Nobody
      BY <2>4, <3>2 DEF StoppedUnsafe
    <3>3. CASE node = 1
      BY <2>2, <3>3 DEF StoppedUnsafe
    <3> QED BY <2>2, <3>1, <3>2, <3>3
  <2>13. FounderBootable'
    <3>1. node = 1 => proc'[1] = "down"
      BY <2>3 DEF TypeOK, ClusterTypeOK
    <3>2. node > 1 => proc'[1] = proc[1] /\ datadir'[1] = datadir[1]
      BY <2>3 DEF Shutdown, TypeOK, ClusterTypeOK
    <3> QED BY <2>2, <3>1, <3>2 DEF FounderBootable, RestartInv
  <2>14. CleanStop'
    <3>1. CASE node = 1
      BY <2>1, <2>3, <2>5, <2>9, <2>10, <3>1
      DEF CleanStop, SafetyInv, ScriptInv, StopInOrder, Running, TypeOK,
          ClusterTypeOK, Nodes
    <3>2. CASE node > 1
      BY <2>2, <3>2 DEF CleanStop
    <3> QED BY <2>2, <3>1, <3>2
  <2> QED BY <2>11, <2>12, <2>13, <2>14 DEF RestartInv
<1> QED BY <1>1, <1>2 DEF StopNode

\* A server that dies is the lost node that explains a lost quorum.
LEMMA DiesLost ==
  ASSUME TypeOK, SafetyInv, NEW i \in Nodes, Die(i), UNCHANGED scriptVars
  PROVE  Lost(i)'
<1>1. proc'[i] = "down"
  BY LoseFacts DEF Die, SafetyInv, ServerInv
<1>2. /\ pc \in {"launch", "ping"} => Launched(i)
      /\ pc = "stop" => i <= node
  BY DEF Die, SafetyInv, ScriptInv, LaunchInOrder, StopInOrder
<1> QED BY <1>1, <1>2 DEF Lost, Launched, Running, scriptVars

LEMMA RestartServerStep ==
  ASSUME TypeOK, SafetyInv, RestartInv, ServerStep, UNCHANGED scriptVars
  PROVE  RestartInv'
<1> USE NodeBounds
<1>1. PICK i \in Nodes :
        Bootstrap(i) \/ Join(i) \/ OpenPort(i) \/ CatchUp(i) \/ Die(i)
  BY DEF ServerStep
<1>2. Running(i)
  BY <1>1 DEF Bootstrap, Join, OpenPort, CatchUp, Die, Running
<1>3. pc \notin {"config", "init", "stopped"} /\ ~(pc = "launch" /\ node = 1)
  BY <1>2 DEF SafetyInv, ScriptInv, Quiet
<1>4. \A k \in Nodes : Lost(k) => Lost(k)'
  <2>1. \A k \in Nodes : ~Running(k) => ~Running(k)'
    BY ServerStartsNothing DEF TypeOK
  <2> QED BY <2>1 DEF Lost, Launched, scriptVars
<1>5. CleanStop'
  BY <1>3 DEF CleanStop, scriptVars
<1>6. CASE Bootstrap(i)
  <2>1. /\ comp'[i] # NoComponent
        /\ \A j \in Nodes \ {i} : comp'[j] = comp[j] /\ proc'[j] = proc[j]
        /\ datadir' = [datadir EXCEPT ![i] = "unsafe"]
        /\ proc'[i] = "synced" /\ i = 1
    BY <1>6, ComponentsAssumption
    DEF Bootstrap, TypeOK, ClusterTypeOK, SafetyInv, ServerInv, FounderAlone
  <2>2. QuorumLostByDeath'
    BY <2>1, <1>4 DEF RestartInv, QuorumLostByDeath, Answers
  <2>3. StoppedUnsafe'
    BY <2>1, <1>4 DEF RestartInv, StoppedUnsafe, scriptVars, TypeOK, ClusterTypeOK
  <2>4. FounderBootable'
    BY <2>1, <1>3 DEF RestartInv, FounderBootable, scriptVars
  <2> QED BY <2>2, <2>3, <2>4, <1>5 DEF RestartInv
<1>7. CASE Join(i) \/ OpenPort(i) \/ CatchUp(i)
  <2>1. /\ comp'[i] # NoComponent
        /\ \A j \in Nodes \ {i} : comp'[j] = comp[j] /\ proc'[j] = proc[j]
        /\ datadir' = datadir \/ datadir' = [datadir EXCEPT ![i] = "unsafe"]
        /\ proc'[i] # "bootstrapping"
    BY <1>7 DEF Join, OpenPort, CatchUp, TypeOK, ClusterTypeOK
  <2>2. datadir'[1] = datadir[1] \/ proc'[1] # "bootstrapping"
    BY <2>1 DEF TypeOK, ClusterTypeOK
  <2>3. QuorumLostByDeath'
    BY <2>1, <1>4 DEF RestartInv, QuorumLostByDeath, Answers
  <2>4. StoppedUnsafe'
    BY <2>1, <1>4 DEF RestartInv, StoppedUnsafe, scriptVars, TypeOK, ClusterTypeOK
  <2>5. FounderBootable'
    BY <2>1, <2>2, <1>3 DEF RestartInv, FounderBootable, scriptVars
  <2> QED BY <2>3, <2>4, <2>5, <1>5 DEF RestartInv
<1>8. CASE Die(i)
  <2>1. QuorumLostByDeath' /\ StoppedUnsafe'
    BY <1>8, DiesLost DEF QuorumLostByDeath, StoppedUnsafe
  <2>2. proc'[1] = "bootstrapping" => proc[1] = "bootstrapping"
    BY <1>8, LoseFacts DEF Die, TypeOK
  <2>3. FounderBootable'
    BY <1>8, <1>3, <2>2 DEF Die, Lose, RestartInv, FounderBootable, scriptVars
  <2> QED BY <2>1, <2>3, <1>5 DEF RestartInv
<1> QED BY <1>1, <1>6, <1>7, <1>8

LEMMA RestartStep ==
  ASSUME N <= 9, IInv, [Next]_vars
  PROVE  RestartInv'
<1> USE DEF IInv
<1>1. TypeOK /\ ServerInv
  BY DEF SafetyInv
<1>2. CASE \E m \in Modes : BeginScript(m)
  BY <1>2, <1>1, RestartFree DEF BeginScript
<1>3. CASE SanityCheck
  BY <1>3, <1>1, RestartSanityCheck
<1>4. CASE CreateConfig
  BY <1>4, <1>1, RestartCreateConfig
<1>5. CASE InitializeNode
  BY <1>5, <1>1, RestartInitializeNode
<1>6. CASE LaunchNode
  BY <1>6, <1>1, RestartLaunchNode
<1>7. CASE PingAnswered \/ PingRefused
  BY <1>7, <1>1, RestartPing
<1>8. CASE ConnectionCheck \/ AbandonCluster \/ NextScenario \/ EndScript
  BY <1>8, <1>1, RestartFree
  DEF ConnectionCheck, AbandonCluster, NextScenario, EndScript, Exit
<1>9. CASE StopGalera \/ BeginStop
  <2>1. pc \in {"run", "idle"} /\ pc' = "stop" /\ node' = N /\ UNCHANGED clusterVars
    BY <1>9 DEF StopGalera, BeginStop, Goto
  <2>2. QuorumLostByDeath'
    BY <2>1 DEF RestartInv, QuorumLostByDeath, Lost, Answers, Running, clusterVars, Nodes
  <2>3. StoppedUnsafe'
    BY <2>1, NodeBounds DEF StoppedUnsafe, Nodes
  <2>4. FounderBootable' /\ CleanStop'
    BY <2>1 DEF RestartInv, FounderBootable, CleanStop, clusterVars
  <2> QED BY <2>2, <2>3, <2>4 DEF RestartInv
<1>10. CASE StopNode
  BY <1>10, <1>1, RestartStopNode
<1>11. CASE RestartCluster
  <2>1. pc = "stopped" /\ pc' = "config" /\ UNCHANGED clusterVars
    BY <1>11 DEF RestartCluster, Goto
  <2>2. \A i \in Nodes : ~Running(i)'
    BY <2>1 DEF SafetyInv, ScriptInv, Quiet, Running, clusterVars
  <2>3. FounderBootable'
    BY <2>1, NodeBounds DEF RestartInv, CleanStop, FounderBootable, clusterVars
  <2> QED BY <2>1, <2>2, <2>3, RestartQuiet
<1>12. CASE ClusterStep
  BY <1>12, <1>1, RestartServerStep DEF ClusterStep
<1>13. CASE UNCHANGED vars
  BY <1>13
  DEF vars, clusterVars, scriptVars, RestartInv, QuorumLostByDeath, StoppedUnsafe,
      FounderBootable, CleanStop, Lost, Launched, Answers, Running
<1> QED BY <1>2, <1>3, <1>4, <1>5, <1>6, <1>7, <1>8, <1>9, <1>10, <1>11, <1>12,
           <1>13 DEF Next, ScriptStep

THEOREM RestartInvariant == ASSUME N <= 9 PROVE Spec => []IInv
<1>1. Init => IInv
  <2>1. ASSUME Init PROVE RestartInv
    BY <2>1, NodeBounds
    DEF Init, ClusterInit, RestartInv, QuorumLostByDeath, StoppedUnsafe,
        FounderBootable, CleanStop, Answers
  <2> QED BY <2>1, SafetyInit DEF IInv
<1>2. IInv /\ [Next]_vars => IInv'
  BY RestartStep, SafetyStep, TypeStep DEF IInv, SafetyInv
<1> QED BY <1>1, <1>2, PTL DEF Spec

\* With at most nine nodes, no start_cluster has its first node refused by
\* safe_to_bootstrap, on a new data directory or on that of a stopped cluster.
THEOREM BootstrapTheorem == ASSUME N <= 9 PROVE Spec => []BootstrapNotRefused
<1>1. IInv => BootstrapNotRefused
  BY DEF IInv, SafetyInv, ServerInv, FounderAlone, RestartInv, FounderBootable,
         BootstrapNotRefused
<1> QED BY RestartInvariant, <1>1, PTL

\* With at most nine nodes, a stop_galera that reports success everywhere leaves
\* nothing running and node 1 as the one node that is safe to bootstrap.
THEOREM CleanStopTheorem == ASSUME N <= 9 PROVE Spec => []CleanStop
<1>1. IInv => CleanStop
  BY DEF IInv, RestartInv
<1> QED BY RestartInvariant, <1>1, PTL

-------------------------------------------------------------------------------
(* The primary component *)

LEMMA ScriptImplements ==
  ASSUME N <= 9, TypeOK, ServerInv, [Next]_vars
  PROVE  [PC!Next]_members
<1>1. CASE SanityCheck
  <2>1. \A i \in Nodes : comp'[i] = NoComponent
    BY <1>1, AllMatched, LoseFacts DEF SanityCheck, ServerInv
  <2>2. members' = {}
    BY <2>1 DEF members
  <2> QED BY <2>2 DEF PC!Next, PC!Collapse, members
<1>2. CASE StopNode /\ Shutdown(node)
  <2>1. PICK i \in Nodes : i = node
    BY DEF TypeOK
  <2>2. members' = members \ {i}
    BY <1>2, <2>1 DEF Shutdown, members, TypeOK, ClusterTypeOK
  <2>3. members' = members \/ PC!Leave(i)
    BY <2>2 DEF PC!Leave, members
  <2> QED BY <2>3 DEF PC!Next, members
<1>3. CASE ClusterStep
  BY <1>3, ServerImplements DEF ClusterStep
<1>4. CASE UNCHANGED comp
  BY <1>4 DEF members
<1> QED BY <1>1, <1>2, <1>3, <1>4
        DEF Next, ScriptStep, vars, clusterVars, BeginScript, CreateConfig,
            InitializeNode, LaunchNode, Start, PingAnswered, PingRefused,
            ConnectionCheck, StopGalera, BeginStop, AbandonCluster, StopNode,
            NextScenario, RestartCluster, EndScript

\* With at most nine nodes, everything the scripts do to the servers implements
\* PrimaryComponent: one component, founded only when the last one is gone.
THEOREM RefinementTheorem == ASSUME N <= 9 PROVE Spec => OnePrimaryComponent
<1>1. Init => PC!Init
  BY DEF Init, ClusterInit, PC!Init, members
<1>2. SafetyInv /\ [Next]_vars => [PC!Next]_members
  BY ScriptImplements DEF SafetyInv
<1> QED BY <1>1, <1>2, SafetyInvariant, PTL DEF Spec, OnePrimaryComponent, PC!Spec, members

-------------------------------------------------------------------------------
(***************************************************************************)
(* The loops of the methods are bounded: a begun script always has fewer   *)
(* steps left than before its last one.  That it takes them is ScriptEnds. *)
(***************************************************************************)

\* The most steps a script can still take: the launches and pings of the nodes above
\* the one in hand, the methods after them, the scenarios after this one.
NodeSteps == PingLimit + 2
LaunchSteps == (N - node) * NodeSteps + N + 3
StartSteps == N * NodeSteps + N + 3
ScenarioSteps == StartSteps + N + 4
LaterScenarios == (MaxRounds - rounds) * ScenarioSteps

PhaseSteps ==
  CASE pc = "stopped" -> 1
    [] pc = "stop"    -> node + 1
    [] pc = "run"     -> N + 2
    [] pc = "connect" -> N + 3
    [] pc = "ping"    -> LaunchSteps + PingLimit + 1 - pings
    [] pc = "launch"  -> LaunchSteps + NodeSteps
    [] pc = "init"    -> StartSteps + N + 2 - node
    [] pc = "config"  -> IF mode = "start" THEN StartSteps + N + 2 ELSE StartSteps + 1
    [] pc = "sanity"  -> StartSteps + N + 3

StepsLeft == IF pc = "idle" THEN 0 ELSE LaterScenarios + PhaseSteps

LEMMA Counted ==
  ASSUME TypeOK
  PROVE  /\ N \in Nat \ {0} /\ node \in Nat \ {0} /\ node <= N
         /\ PingLimit \in Nat \ {0} /\ pings \in Nat /\ pings <= PingLimit
         /\ rounds \in Nat /\ rounds <= MaxRounds /\ MaxRounds \in Nat /\ pc \in Phases
         /\ NodeSteps \in Nat /\ NodeSteps = PingLimit + 2
         /\ LaunchSteps \in Nat /\ LaunchSteps >= N + 3
         /\ (N - (node + 1)) * NodeSteps + N + 3 = LaunchSteps - NodeSteps
         /\ StartSteps \in Nat /\ (N - 1) * NodeSteps + N + 3 = StartSteps - NodeSteps
         /\ StartSteps >= N + 3
         /\ ScenarioSteps \in Nat /\ ScenarioSteps = StartSteps + N + 4
         /\ LaterScenarios \in Nat
         /\ (MaxRounds - (rounds + 1)) * ScenarioSteps = LaterScenarios - ScenarioSteps
<1>1. /\ N \in Nat \ {0} /\ node \in Nat \ {0} /\ node <= N
      /\ PingLimit \in Nat \ {0} /\ pings \in Nat /\ pings <= PingLimit
      /\ rounds \in Nat /\ rounds <= MaxRounds /\ MaxRounds \in Nat /\ pc \in Phases
  BY NAssumption, PingLimitAssumption, MaxRoundsAssumption DEF TypeOK, Nodes
<1>2. \A n, m \in Nat : n * m \in Nat /\ (n - 1) * m = n * m - m
  OBVIOUS
<1>3. NodeSteps \in Nat /\ NodeSteps = PingLimit + 2
  BY <1>1 DEF NodeSteps
<1>4. N - node \in Nat /\ N - (node + 1) = (N - node) - 1
  BY <1>1
<1>5. /\ LaunchSteps \in Nat /\ LaunchSteps >= N + 3
      /\ (N - (node + 1)) * NodeSteps + N + 3 = LaunchSteps - NodeSteps
  <2>1. /\ (N - node) * NodeSteps \in Nat
        /\ (N - (node + 1)) * NodeSteps = (N - node) * NodeSteps - NodeSteps
    BY <1>2, <1>3, <1>4
  <2> QED BY <1>1, <1>3, <2>1 DEF LaunchSteps
<1>6. /\ StartSteps \in Nat /\ (N - 1) * NodeSteps + N + 3 = StartSteps - NodeSteps
      /\ StartSteps >= N + 3
  <2>1. N * NodeSteps \in Nat /\ (N - 1) * NodeSteps = N * NodeSteps - NodeSteps
    BY <1>1, <1>2, <1>3
  <2> QED BY <1>1, <1>3, <2>1 DEF StartSteps
<1>7. ScenarioSteps \in Nat /\ ScenarioSteps = StartSteps + N + 4
  BY <1>1, <1>6 DEF ScenarioSteps
<1>8. MaxRounds - rounds \in Nat /\ MaxRounds - (rounds + 1) = (MaxRounds - rounds) - 1
  BY <1>1
<1>9. /\ LaterScenarios \in Nat
      /\ (MaxRounds - (rounds + 1)) * ScenarioSteps = LaterScenarios - ScenarioSteps
  BY <1>2, <1>7, <1>8 DEF LaterScenarios
<1> QED BY <1>1, <1>3, <1>5, <1>6, <1>7, <1>9

LEMMA PhaseStepsPositive == ASSUME TypeOK, pc # "idle" PROVE PhaseSteps \in Nat \ {0}
  BY Counted DEF PhaseSteps, Phases

LEMMA StepsNat == ASSUME TypeOK PROVE StepsLeft \in Nat
  BY Counted, PhaseStepsPositive DEF StepsLeft

\* A step within the scenario, in terms of the phase alone.
LEMMA PhaseFewer ==
  ASSUME TypeOK, pc # "idle", pc' # "idle", UNCHANGED rounds,
         PhaseSteps' \in Nat, PhaseSteps' < PhaseSteps
  PROVE  StepsLeft' < StepsLeft
<1>1. LaterScenarios' = LaterScenarios
  BY DEF LaterScenarios, ScenarioSteps, StartSteps, NodeSteps
<1>2. StepsLeft = LaterScenarios + PhaseSteps /\ StepsLeft' = LaterScenarios + PhaseSteps'
  BY <1>1 DEF StepsLeft
<1>3. \A a, b, c \in Nat : b < c => a + b < a + c
  OBVIOUS
<1>4. LaterScenarios \in Nat /\ PhaseSteps \in Nat
  BY Counted, PhaseStepsPositive
<1> QED BY <1>2, <1>3, <1>4, Zenon

LEMMA ExitFewer == ASSUME TypeOK, pc # "idle", Exit PROVE StepsLeft' < StepsLeft
<1>1. StepsLeft' = 0 /\ StepsLeft = LaterScenarios + PhaseSteps
  BY DEF StepsLeft, Exit, Goto
<1>2. \A a \in Nat, b \in Nat \ {0} : 0 < a + b
  OBVIOUS
<1> QED BY <1>1, <1>2, Counted, PhaseStepsPositive, Zenon

LEMMA StepsFewer == ASSUME TypeOK, ScriptStep PROVE StepsLeft' < StepsLeft
<1> USE Counted DEF PhaseSteps, LaunchSteps, Goto
<1>1. CASE SanityCheck
  <2>1. CASE Goto(AfterSanity, 1)
    BY <1>1, <2>1, PhaseFewer DEF SanityCheck, AfterSanity, StartSteps, NodeSteps
  <2> QED BY <1>1, <2>1, ExitFewer DEF SanityCheck
<1>2. CASE CreateConfig
  <2>1. CASE Goto(AfterConfig, 1)
    BY <1>2, <2>1, PhaseFewer DEF CreateConfig, AfterConfig, StartSteps, NodeSteps
  <2> QED BY <1>2, <2>1, ExitFewer DEF CreateConfig
<1>3. CASE InitializeNode
  <2>1. CASE node < N /\ Goto("init", node + 1)
    BY <1>3, <2>1, PhaseFewer DEF InitializeNode, StartSteps, NodeSteps
  <2>2. CASE node = N /\ Goto(AfterInit, 1)
    BY <1>3, <2>2, PhaseFewer DEF InitializeNode, AfterInit, StartSteps, NodeSteps
  <2>3. CASE Exit
    BY <1>3, <2>3, ExitFewer DEF InitializeNode
  <2> HIDE DEF PhaseSteps, LaunchSteps, Goto
  <2> QED BY <1>3, <2>1, <2>2, <2>3 DEF InitializeNode
<1>4. CASE LaunchNode
  BY <1>4, PhaseFewer DEF LaunchNode, NodeSteps
<1>5. CASE PingAnswered \/ PingRefused
  <2>1. CASE node < N /\ Goto("launch", node + 1) /\ UNCHANGED rounds
    BY <1>5, <2>1, PhaseFewer DEF PingAnswered, PingRefused, NodeSteps
  <2>2. CASE Goto("connect", 1) /\ UNCHANGED rounds
    <3> HIDE DEF LaunchSteps
    <3> QED BY <1>5, <2>2, PhaseFewer DEF PingAnswered, PingRefused
  <2>3. CASE pings + 1 < PingLimit /\ pings' = pings + 1 /\ UNCHANGED <<pc, node, rounds>>
    BY <1>5, <2>3, PhaseFewer DEF PingAnswered, PingRefused, NodeSteps
  <2>4. CASE Exit
    BY <1>5, <2>4, ExitFewer DEF PingAnswered, PingRefused
  <2> QED BY <1>5, <2>1, <2>2, <2>3, <2>4 DEF PingAnswered, PingRefused
<1>6. CASE ConnectionCheck
  <2>1. CASE Goto("run", 1)
    BY <1>6, <2>1, PhaseFewer DEF ConnectionCheck
  <2> QED BY <1>6, <2>1, ExitFewer DEF ConnectionCheck
<1>7. CASE StopGalera
  BY <1>7, PhaseFewer DEF StopGalera
<1>8. CASE AbandonCluster \/ EndScript
  BY <1>8, ExitFewer DEF AbandonCluster, EndScript
<1>9. CASE StopNode
  <2>1. CASE node > 1 /\ Goto("stop", node - 1)
    BY <1>9, <2>1, PhaseFewer DEF StopNode
  <2>2. CASE Goto("stopped", 1)
    BY <1>9, <2>2, PhaseFewer DEF StopNode
  <2> QED BY <1>9, <2>1, <2>2, ExitFewer DEF StopNode
<1>10. CASE NextScenario \/ RestartCluster
  <2>1. StepsLeft = LaterScenarios + PhaseSteps /\ PhaseSteps \in Nat \ {0}
    <3> HIDE DEF PhaseSteps
    <3> QED BY <1>10, PhaseStepsPositive DEF StepsLeft, NextScenario, RestartCluster
  <2>2. LaterScenarios' = LaterScenarios - ScenarioSteps
    BY <1>10 DEF NextScenario, RestartCluster, LaterScenarios, ScenarioSteps, StartSteps,
                 NodeSteps
  <2>3. PhaseSteps' \in Nat /\ PhaseSteps' < ScenarioSteps
    <3>1. StartSteps' = StartSteps
      BY DEF StartSteps, NodeSteps
    <3>2. PhaseSteps' = StartSteps' + N + 3 \/ PhaseSteps' = StartSteps' + 1
      BY <1>10 DEF NextScenario, RestartCluster
    <3>3. PhaseSteps' = StartSteps + N + 3 \/ PhaseSteps' = StartSteps + 1
      BY <3>1, <3>2, Zenon
    <3> HIDE DEF PhaseSteps, LaunchSteps
    <3> QED BY <3>3
  <2>4. StepsLeft' = LaterScenarios' + PhaseSteps'
    BY <1>10 DEF StepsLeft, NextScenario, RestartCluster
  <2>5. \A a, s, p, q \in Nat : q < s => (a - s) + q < a + p
    OBVIOUS
  <2> HIDE DEF PhaseSteps
  <2> QED BY <2>1, <2>2, <2>3, <2>4, <2>5, Zenon
<1> QED BY <1>1, <1>2, <1>3, <1>4, <1>5, <1>6, <1>7, <1>8, <1>9, <1>10 DEF ScriptStep

\* The safety half of ScriptEnds: whatever the servers do, a script that was begun takes
\* no more steps than its loops and scenarios add up to.
THEOREM BoundedTheorem ==
  Spec => /\ [](StepsLeft \in Nat)
          /\ [][pc = "idle" \/ StepsLeft' < StepsLeft \/ UNCHANGED scriptVars]_vars
<1>1. ASSUME TypeOK, [Next]_vars
      PROVE  pc = "idle" \/ StepsLeft' < StepsLeft \/ UNCHANGED scriptVars
  BY <1>1, StepsFewer DEF Next, BeginScript, BeginStop, ClusterStep, vars
<1> QED BY <1>1, StepsNat, TypeCorrect, PTL DEF Spec

===============================================================================
