----------------------- MODULE RollingReplacementProofs ------------------------
(***************************************************************************)
(* What holds of RollingReplacement whatever the servers do, however often *)
(* the script pings, and whatever the components are called.  The ports    *)
(* are distinct for every number of founders; the rest is about the three  *)
(* founders the literals of the script are made for.                       *)
(***************************************************************************)
EXTENDS RollingReplacement, ClusterProofs

\* A node's port is its number, as the donor of a file is the node below it.
PortInv ==
  /\ \A i \in Nodes : Configured(i) => conf[i].port = i
  /\ pc = "port" => Configured(Donor)

TypeInv == TypeOK /\ PortInv

\* The nodes that have not had their turn do not run.
JoinersDown ==
  /\ pc \in {"address", "port", "launch"} => \A n \in Nodes : n >= Joiner => ~Running(n)
  /\ pc \in {"ping", "sync", "upgrade"} => \A n \in Nodes : n > Joiner => ~Running(n)

\* The phases of rolling_replacement itself.
Replacing == {"address", "port", "launch", "ping", "sync", "upgrade"}

\* A server opens its port as a member, and stays one as long as none crashes.
OpenIsIn == \A i \in Nodes : Answers(i) => comp[i] # NoComponent

\* Where servers stand as long as none has crashed.
Standing ==
  /\ pc \in Replacing => proc[1] = "synced"
  /\ pc \in {"address", "port"} =>
       Answers(Donor) /\ (Donor > Founders => proc[Donor] = "synced")
  /\ pc = "upgrade" => proc[Joiner] = "synced"
  /\ \A n \in replaced : n > Founders /\ proc[n] = "synced"

\* Which nodes have been replaced, and which have been shut down.
Progress ==
  /\ pc \in Replacing => replaced = 4..(round + 2)
  /\ pc \in {"stop", "stopped"} => replaced = 4..6
  /\ pc = "stop" => \A n \in Nodes : n > round /\ n <= Founders => proc[n] = "down"
  /\ pc = "stopped" => \A n \in Nodes : n <= Founders => proc[n] = "down"

\* Node 1's address is first in every list, and never the one that is spoilt.
FounderListed ==
  /\ \A i \in Nodes : Configured(i) => 1 \in conf[i].peers
  /\ pc = "port" => 1 \in addr.peers
  /\ pc \in {"launch", "ping", "sync"} => Configured(Joiner)
  /\ Configured(1)

CalmInv ==
  died = {} =>
    OpenIsIn /\ DownIsOut /\ NoSplitBrain /\ Standing /\ Progress /\ FounderListed

-------------------------------------------------------------------------------
(* Type correctness and ports *)

LEMMA Bounds ==
  ASSUME round \in 1..Founders
  PROVE  /\ Founders \in Nat \ {0} /\ N = Founders + 3 /\ round \in Nat
         /\ Donor \in Nodes /\ Joiner \in Nodes /\ Joiner = Donor + 1
         /\ Joiner >= 4 /\ round \in Nodes
  BY FoundersAssumption, RoomAssumption DEF Nodes, Donor, Joiner

LEMMA InitType == Init => TypeInv
<1> SUFFICES ASSUME Init PROVE TypeInv
  OBVIOUS
<1>1. PICK c \in Components, last \in {"synced", "open"},
          slow \in [2..(Founders - 1) -> {"synced", "open", "starting", "down"}] :
        /\ proc = [n \in Nodes |-> IF n > Founders THEN "down"
                                   ELSE IF n \in 2..(Founders - 1) THEN slow[n]
                                   ELSE IF n = 1 THEN "synced" ELSE last]
        /\ comp = [n \in Nodes |-> IF Answers(n) THEN c ELSE NoComponent]
        /\ datadir = [n \in Nodes |-> IF n > Founders THEN "none"
                                      ELSE IF Answers(n) THEN "unsafe" ELSE "fresh"]
  BY DEF Init
<1>2. ClusterTypeOK
  BY <1>1 DEF ClusterTypeOK, ProcStates, DatadirStates
<1>3. N \in Nat /\ Founders \in Nat \ {0} /\ Nodes = 1..N /\ Founders < N
  BY FoundersAssumption, NAssumption DEF Nodes
<1>4. \A i \in 1..Founders : FounderConf(i) \in Confs
  BY <1>3 DEF FounderConf, Confs
<1>5. NoConf \in Confs
  BY <1>3 DEF NoConf, Confs
<1>6. JoinerTypeOK
  BY <1>4, <1>5 DEF Init, JoinerInit, JoinerTypeOK, NoList, Lists
<1>7. TypeOK
  BY <1>2, <1>3, <1>6, PingLimitAssumption DEF Init, TypeOK, Phases
<1>8. \A i \in Nodes : Configured(i) => conf[i].port = i
  BY DEF Init, JoinerInit, Configured, FounderConf
<1>9. pc # "port"
  BY DEF Init
<1> QED BY <1>7, <1>8, <1>9 DEF TypeInv, PortInv

\* A server steps as one of Cluster does, and founds no component.
LEMMA ByAddress ==
  ASSUME ServerStepByAddress
  PROVE  ServerStep /\ \E i \in Nodes : Join(i) \/ OpenPort(i) \/ CatchUp(i) \/ Die(i)
  BY DEF ServerStepByAddress, ServerStep, JoinByAddress

\* Every step leaves the servers alone, makes a directory, starts a new node,
\* shuts one down or is a step of the servers.
LEMMA ServerChange ==
  ASSUME [Next]_vars
  PROVE  \/ UNCHANGED <<clusterVars, died>>
         \/ ReadPort /\ WriteConf(Donor, Joiner) /\ UNCHANGED died
         \/ LaunchJoiner
         \/ StopNode /\ Shutdown(round) /\ UNCHANGED died
         \/ ServersByThemselves
<1>1. CASE ReadAddress \/ PingAnswered \/ PingRefused \/ SeeSynced \/ UpgradeJoiner
  BY <1>1 DEF ReadAddress, PingAnswered, PingRefused, SeeSynced, UpgradeJoiner
<1>2. CASE ReadPort
  BY <1>2 DEF ReadPort
<1>3. CASE StopNode
  BY <1>3 DEF StopNode
<1>4. CASE UNCHANGED vars
  BY <1>4 DEF vars
<1> QED BY <1>1, <1>2, <1>3, <1>4 DEF Next, ScriptStep

LEMMA ClusterType ==
  ASSUME ClusterTypeOK, [Next]_vars
  PROVE  ClusterTypeOK'
<1>1. CASE UNCHANGED clusterVars
  BY <1>1 DEF clusterVars, ClusterTypeOK
<1>2. CASE WriteConf(Donor, Joiner) /\ ReadPort
  BY <1>2 DEF WriteConf, ReadPort, ClusterTypeOK, DatadirStates
<1>3. CASE LaunchJoiner
  BY <1>3 DEF LaunchJoiner, Start, ClusterTypeOK, ProcStates
<1>4. CASE Shutdown(round)
  BY <1>4 DEF Shutdown, ClusterTypeOK, ProcStates, DatadirStates
<1>5. CASE ServersByThemselves
  BY <1>5, ByAddress, ServerType DEF ServersByThemselves
<1> QED BY <1>1, <1>2, <1>3, <1>4, <1>5, ServerChange

\* The files and the list change in two actions only.
LEMMA FileChange ==
  ASSUME [Next]_vars
  PROVE  \/ UNCHANGED joinerVars
         \/ ReadAddress /\ AskAddress(Donor) /\ UNCHANGED conf /\ Configured(Donor)
         \/ ReadPort /\ WriteConf(Donor, Joiner)
<1>1. CASE ReadAddress
  BY <1>1 DEF ReadAddress, joinerVars
<1>2. CASE ReadPort
  BY <1>2 DEF ReadPort, joinerVars
<1>3. CASE LaunchJoiner \/ PingAnswered \/ PingRefused \/ SeeSynced \/ UpgradeJoiner \/ StopNode
  BY <1>3 DEF LaunchJoiner, PingAnswered, PingRefused, SeeSynced, UpgradeJoiner, StopNode
<1>4. CASE ServersByThemselves \/ UNCHANGED vars
  BY <1>4 DEF ServersByThemselves, vars
<1> QED BY <1>1, <1>2, <1>3, <1>4 DEF Next, ScriptStep

\* A new file is well formed, and its port is the number of the new node.
LEMMA NewConf ==
  ASSUME TypeInv, ReadPort, WriteConf(Donor, Joiner)
  PROVE  /\ JoinerConf(addr, conf[Donor].port + 1) \in Confs
         /\ conf' = [conf EXCEPT ![Joiner] = JoinerConf(addr, Joiner)]
         /\ UNCHANGED addr
<1>1. round \in 1..Founders /\ addr \in Lists
  BY DEF TypeInv, TypeOK, JoinerTypeOK
<1>2. conf[Donor].port = Donor
  BY <1>1, Bounds DEF TypeInv, PortInv, ReadPort
<1>3. conf[Donor].port + 1 = Joiner
  BY <1>1, <1>2, Bounds
<1>4. Joiner \in 1..(Founders + N) /\ 14 \in 0..(10 + N)
  BY <1>1, Bounds DEF Nodes
<1>5. addr.peers \in SUBSET (1..(Founders + N))
  BY <1>1 DEF Lists
<1>6. JoinerConf(addr, Joiner) \in Confs
  BY <1>4, <1>5 DEF JoinerConf, Confs
<1> QED BY <1>3, <1>6 DEF WriteConf

LEMMA JoinerType ==
  ASSUME TypeInv, [Next]_vars
  PROVE  JoinerTypeOK'
<1>1. JoinerTypeOK /\ round \in 1..Founders
  BY DEF TypeInv, TypeOK
<1>2. CASE UNCHANGED joinerVars
  BY <1>1, <1>2 DEF joinerVars, JoinerTypeOK
<1>3. CASE AskAddress(Donor) /\ UNCHANGED conf
  <2>1. conf[Donor] \in Confs
    BY <1>1, Bounds DEF JoinerTypeOK
  <2>2. NoList \in Lists
    BY DEF NoList, Lists
  <2>3. addr' \in Lists
    BY <1>3, <2>1, <2>2 DEF AskAddress, Confs, Lists
  <2> QED BY <1>1, <1>3, <2>3 DEF JoinerTypeOK
<1>4. CASE ReadPort /\ WriteConf(Donor, Joiner)
  <2>1. conf' = [conf EXCEPT ![Joiner] = JoinerConf(addr, conf[Donor].port + 1)] /\ UNCHANGED addr
    BY <1>4 DEF WriteConf
  <2>2. conf' \in [Nodes -> Confs]
    BY <1>1, <1>4, <2>1, NewConf DEF JoinerTypeOK
  <2> QED BY <1>1, <2>1, <2>2 DEF JoinerTypeOK
<1> QED BY <1>2, <1>3, <1>4, FileChange

LEMMA ScriptType ==
  ASSUME TypeInv, [Next]_vars
  PROVE  /\ pc' \in Phases /\ round' \in 1..Founders /\ pings' \in 0..(PingLimit - 1)
         /\ replaced' \subseteq Nodes /\ died' \subseteq Nodes
<1>1. /\ pc \in Phases /\ round \in 1..Founders /\ pings \in 0..(PingLimit - 1)
      /\ replaced \subseteq Nodes /\ died \subseteq Nodes
  BY DEF TypeInv, TypeOK
<1>2. 0 \in 0..(PingLimit - 1) /\ 1 \in 1..Founders /\ Founders \in 1..Founders
  BY PingLimitAssumption, FoundersAssumption
<1> USE <1>1, <1>2 DEF Goto, Exit, Phases
<1>3. CASE ReadAddress
  BY <1>3 DEF ReadAddress
<1>4. CASE ReadPort
  BY <1>4 DEF ReadPort
<1>5. CASE LaunchJoiner \/ PingAnswered \/ SeeSynced
  BY <1>5 DEF LaunchJoiner, PingAnswered, SeeSynced
<1>6. CASE PingRefused
  BY <1>6, PingLimitAssumption DEF PingRefused
<1>7. CASE UpgradeJoiner
  <2>1. Joiner \in Nodes
    BY Bounds
  <2> QED BY <1>7, <2>1, FoundersAssumption DEF UpgradeJoiner
<1>8. CASE StopNode
  BY <1>8, FoundersAssumption DEF StopNode
<1>9. CASE ServersByThemselves \/ UNCHANGED vars
  BY <1>9 DEF ServersByThemselves, scriptVars, vars
<1> QED BY <1>3, <1>4, <1>5, <1>6, <1>7, <1>8, <1>9 DEF Next, ScriptStep

LEMMA PortStep ==
  ASSUME TypeInv, [Next]_vars
  PROVE  PortInv'
<1>1. round \in 1..Founders /\ conf \in [Nodes -> Confs]
  BY DEF TypeInv, TypeOK, JoinerTypeOK
<1>2. ASSUME NEW i \in Nodes, Configured(i)'
      PROVE  conf'[i].port = i
  <2>1. CASE UNCHANGED conf
    BY <1>2, <2>1 DEF Configured, TypeInv, PortInv
  <2>2. CASE ReadPort /\ WriteConf(Donor, Joiner)
    <3>1. conf' = [conf EXCEPT ![Joiner] = JoinerConf(addr, Joiner)]
      BY <2>2, NewConf
    <3>2. JoinerConf(addr, Joiner).port = Joiner
      BY DEF JoinerConf
    <3> QED BY <1>1, <1>2, <3>1, <3>2 DEF Configured, TypeInv, PortInv
  <2> QED BY <2>1, <2>2, FileChange DEF joinerVars
<1>3. ASSUME pc' = "port"
      PROVE  Configured(Donor)'
  <2>1. CASE ReadAddress
    BY <1>3, <2>1 DEF ReadAddress, Exit, Goto, Configured, Donor
  <2>2. CASE ServersByThemselves \/ UNCHANGED vars
    BY <1>3, <2>2 DEF ServersByThemselves, scriptVars, joinerVars, vars, Configured, Donor,
                      TypeInv, PortInv
  <2>3. CASE ReadPort \/ LaunchJoiner \/ PingAnswered \/ PingRefused
    BY <1>3, <2>3 DEF ReadPort, LaunchJoiner, PingAnswered, PingRefused, Goto, Exit
  <2>4. CASE SeeSynced \/ UpgradeJoiner \/ StopNode
    BY <1>3, <2>4 DEF SeeSynced, UpgradeJoiner, StopNode, Goto, Exit
  <2> QED BY <2>1, <2>2, <2>3, <2>4 DEF Next, ScriptStep
<1> QED BY <1>2, <1>3 DEF PortInv

LEMMA TypeAlways == Spec => []TypeInv
<1>1. TypeInv /\ [Next]_vars => TypeInv'
  BY ClusterType, JoinerType, ScriptType, PortStep DEF TypeInv, TypeOK
<1> QED BY <1>1, InitType, PTL DEF Spec

\* The variables stay in their domains: in particular the number of each node
\* that is configured is that of a node, and its port one that was drawn.
THEOREM TypeCorrect == Spec => []TypeOK
<1> QED BY TypeAlways, PTL DEF TypeInv

\* No two nodes are given one port, whatever number of founders there is and
\* whichever of the joins fail: the donor of a file is the node just below.
THEOREM PortsDistinctTheorem == Spec => []PortsDistinct
<1>1. TypeInv => PortsDistinct
  BY DEF TypeInv, PortInv, PortsDistinct
<1> QED BY <1>1, TypeAlways, PTL

-------------------------------------------------------------------------------
(* Live data directories *)

\* Nothing starts a server but LaunchJoiner, and that one starts the joiner's.
LEMMA Started ==
  ASSUME TypeInv, [Next]_vars, NEW n \in Nodes, Running(n)'
  PROVE  Running(n) \/ (LaunchJoiner /\ n = Joiner)
<1>1. ClusterTypeOK
  BY DEF TypeInv, TypeOK
<1>2. CASE UNCHANGED clusterVars
  BY <1>2 DEF clusterVars, Running
<1>3. CASE WriteConf(Donor, Joiner) /\ ReadPort
  BY <1>3 DEF WriteConf, ReadPort, joinerVars, Goto, Running
<1>4. CASE LaunchJoiner
  BY <1>1, <1>4 DEF LaunchJoiner, Start, ClusterTypeOK, Running
<1>5. CASE Shutdown(round)
  BY <1>1, <1>5 DEF Shutdown, ClusterTypeOK, Running
<1>6. CASE ServersByThemselves
  BY <1>1, <1>6, ByAddress, ServerStartsNothing DEF ServersByThemselves
<1> QED BY <1>2, <1>3, <1>4, <1>5, <1>6, ServerChange

\* How rolling_replacement goes from phase to phase.
LEMMA Flow ==
  ASSUME [Next]_vars
  PROVE  /\ pc' \in {"address", "port", "launch"} =>
              \/ pc \in {"address", "port", "launch"} /\ round' = round
              \/ pc = "upgrade" /\ round' = round + 1
         /\ pc' \in {"ping", "sync", "upgrade"} =>
              \/ pc \in {"ping", "sync", "upgrade"} /\ round' = round /\ ~LaunchJoiner
              \/ LaunchJoiner /\ pc = "launch" /\ round' = round
<1> USE DEF Goto, Exit
<1>1. CASE ReadAddress
  BY <1>1 DEF ReadAddress
<1>2. CASE ReadPort
  BY <1>2 DEF ReadPort
<1>3. CASE LaunchJoiner
  BY <1>3 DEF LaunchJoiner
<1>4. CASE PingAnswered \/ PingRefused \/ SeeSynced
  BY <1>4 DEF PingAnswered, PingRefused, SeeSynced, LaunchJoiner
<1>5. CASE UpgradeJoiner
  BY <1>5 DEF UpgradeJoiner
<1>6. CASE StopNode
  BY <1>6 DEF StopNode
<1>7. CASE ServersByThemselves \/ UNCHANGED vars
  BY <1>7 DEF ServersByThemselves, scriptVars, vars, LaunchJoiner
<1> QED BY <1>1, <1>2, <1>3, <1>4, <1>5, <1>6, <1>7 DEF Next, ScriptStep

LEMMA InitDown ==
  ASSUME Founders <= 3, Init
  PROVE  JoinersDown
<1> SUFFICES ASSUME NEW n \in Nodes, n >= Joiner PROVE ~Running(n)
  BY DEF JoinersDown, Init
<1>1. n > Founders
  BY FoundersAssumption, NAssumption DEF Joiner, Init, Nodes
<1> QED BY <1>1 DEF Init, Running

LEMMA DownStep ==
  ASSUME TypeInv, JoinersDown, [Next]_vars
  PROVE  JoinersDown'
<1>1. round \in 1..Founders
  BY DEF TypeInv, TypeOK
<1>2. round \in Nat /\ \A n \in Nodes : n \in Nat
  BY <1>1, FoundersAssumption, NAssumption DEF Nodes
<1>3. ASSUME pc' \in {"address", "port", "launch"}, NEW n \in Nodes, n >= Joiner', Running(n)'
      PROVE  FALSE
  <2>1. \/ pc \in {"address", "port", "launch"} /\ Joiner' = Joiner
        \/ pc = "upgrade" /\ Joiner' = Joiner + 1
    BY <1>2, <1>3, Flow DEF Joiner
  <2>2. Running(n)
    BY <1>3, Started DEF LaunchJoiner, Goto
  <2>3. Joiner \in Nat
    BY <1>2 DEF Joiner
  <2> QED BY <1>2, <1>3, <2>1, <2>2, <2>3 DEF JoinersDown
<1>4. ASSUME pc' \in {"ping", "sync", "upgrade"}, NEW n \in Nodes, n > Joiner', Running(n)'
      PROVE  FALSE
  <2>1. Joiner' = Joiner
    BY <1>4, Flow DEF Joiner
  <2>2. Joiner \in Nat
    BY <1>2 DEF Joiner
  <2>3. Running(n)
    BY <1>2, <1>4, <2>1, <2>2, Started
  <2> QED BY <1>2, <1>4, <2>1, <2>2, <2>3, Flow DEF JoinersDown
<1> QED BY <1>3, <1>4 DEF JoinersDown

LEMMA DownAlways == ASSUME Founders <= 3 PROVE Spec => []JoinersDown
<1>1. Init => JoinersDown
  BY InitDown
<1>2. TypeInv /\ JoinersDown /\ [Next]_vars => JoinersDown'
  BY DownStep
<1> QED BY <1>1, <1>2, TypeAlways, PTL DEF Spec

\* No step empties the data directory of a server that runs.
LEMMA LiveStep ==
  ASSUME TypeInv, JoinersDown, [Next]_vars, NEW i \in Nodes, Running(i),
         datadir'[i] = "fresh"
  PROVE  datadir[i] = "fresh"
<1>1. ClusterTypeOK /\ round \in 1..Founders
  BY DEF TypeInv, TypeOK
<1>2. CASE UNCHANGED datadir
  BY <1>2
<1>3. CASE ReadPort /\ WriteConf(Donor, Joiner)
  <2>1. Joiner \in Nodes /\ Joiner \in Nat
    BY <1>1, Bounds DEF Joiner
  <2>2. ~Running(Joiner)
    BY <1>3, <2>1 DEF ReadPort, JoinersDown
  <2> QED BY <1>1, <1>3, <2>2 DEF WriteConf, ClusterTypeOK
<1>4. CASE Shutdown(round)
  BY <1>1, <1>4 DEF Shutdown, ClusterTypeOK
<1>5. CASE ServersByThemselves
  <2>1. PICK j \in Nodes : Join(j) \/ OpenPort(j) \/ CatchUp(j) \/ Die(j)
    BY <1>5, ByAddress DEF ServersByThemselves
  <2>2. CASE Join(j)
    BY <1>1, <2>2 DEF Join, ClusterTypeOK
  <2> QED BY <2>1, <2>2 DEF OpenPort, CatchUp, Die, Lose
<1> QED BY <1>2, <1>3, <1>4, <1>5, ServerChange DEF clusterVars, LaunchJoiner, Start

\* With three founders at most, the number of a new node is that of no node that
\* runs: the directory that is removed is never in use.
THEOREM LiveDatadirTheorem == ASSUME Founders <= 3 PROVE Spec => LiveDatadirKept
<1>1. TypeInv /\ JoinersDown /\ [Next]_vars =>
        [\A i \in Nodes : Running(i) /\ datadir'[i] = "fresh" => datadir[i] = "fresh"
          ]_<<clusterVars, joinerVars>>
  BY LiveStep
<1> QED BY <1>1, TypeAlways, DownAlways, PTL DEF Spec, LiveDatadirKept

-------------------------------------------------------------------------------
(* The primary component, whatever crashes *)

\* The replacement founds no component: for every number of founders, whatever
\* crashes, the new nodes enter the one there is and the old ones leave it.
THEOREM MembershipTheorem == Spec => [][KeepsComponent]_members
<1>1. Init => NoSplitBrain
  BY DEF Init, NoSplitBrain
<1>2. ASSUME TypeInv, NoSplitBrain, [Next]_vars
      PROVE  NoSplitBrain' /\ [KeepsComponent]_members
  <2>1. ClusterTypeOK /\ round \in Nodes
    BY <1>2, Bounds DEF TypeInv, TypeOK
  <2>2. CASE UNCHANGED comp
    BY <1>2, <2>2 DEF NoSplitBrain, members
  <2>3. CASE Shutdown(round)
    BY <1>2, <2>1, <2>3, ShutdownKeeps DEF Shutdown, NoSplitBrain, ClusterTypeOK
  <2>4. CASE ServersByThemselves
    BY <1>2, <2>1, <2>4, ByAddress, ServerKeeps DEF ServersByThemselves
  <2> QED BY <1>2, <2>2, <2>3, <2>4, ServerChange
          DEF clusterVars, WriteConf, LaunchJoiner, Start
<1> QED BY <1>1, <1>2, TypeAlways, PTL DEF Spec

-------------------------------------------------------------------------------
(* As long as no server crashes *)

\* What servers and script can do to the servers then.
LEMMA CalmChange ==
  ASSUME TypeInv, [Next]_vars, died' = {}
  PROVE  /\ died = {}
         /\ \/ UNCHANGED <<proc, comp>>
            \/ LaunchJoiner
            \/ StopNode /\ Shutdown(round)
            \/ ServersByThemselves
         /\ ServersByThemselves =>
              \E i \in Nodes : Join(i) \/ OpenPort(i) \/ CatchUp(i)
<1>1. ClusterTypeOK /\ died \subseteq Nodes
  BY DEF TypeInv, TypeOK
<1>2. ASSUME ServersByThemselves
      PROVE  died = {} /\ \E i \in Nodes : Join(i) \/ OpenPort(i) \/ CatchUp(i)
  <2>1. PICK i \in Nodes : Join(i) \/ OpenPort(i) \/ CatchUp(i) \/ Die(i)
    BY <1>2, ByAddress DEF ServersByThemselves
  <2>2. CASE Die(i)
    <3>1. proc'[i] = "down" /\ Running(i)
      BY <1>1, <2>2, LoseFacts DEF Die
    <3> QED BY <1>2, <3>1 DEF ServersByThemselves
  <2> QED BY <1>2, <2>1, <2>2 DEF ServersByThemselves
<1>3. LaunchJoiner => UNCHANGED died
  BY DEF LaunchJoiner
<1> QED BY <1>2, <1>3, ServerChange DEF clusterVars, WriteConf

\* Who reports Synced goes on to, but for the node that is being shut down.
LEMMA SyncedStays ==
  ASSUME TypeInv, [Next]_vars, died' = {}, NEW n \in Nodes, proc[n] = "synced",
         StopNode => n # round
  PROVE  proc'[n] = "synced"
<1>1. ClusterTypeOK
  BY DEF TypeInv, TypeOK
<1>2. CASE LaunchJoiner
  BY <1>1, <1>2 DEF LaunchJoiner, Start, Running, ClusterTypeOK
<1>3. CASE StopNode /\ Shutdown(round)
  BY <1>1, <1>3 DEF Shutdown, ClusterTypeOK
<1>4. CASE \E i \in Nodes : Join(i) \/ OpenPort(i) \/ CatchUp(i)
  BY <1>1, <1>4 DEF Join, OpenPort, CatchUp, ClusterTypeOK
<1> QED BY <1>2, <1>3, <1>4, CalmChange

\* Who answers goes on to, but for the node that is being shut down.
LEMMA AnswersStay ==
  ASSUME TypeInv, [Next]_vars, died' = {}, NEW n \in Nodes, Answers(n), ~StopNode
  PROVE  Answers(n)'
<1> USE DEF Answers
<1>1. ClusterTypeOK
  BY DEF TypeInv, TypeOK
<1>2. CASE LaunchJoiner
  BY <1>1, <1>2 DEF LaunchJoiner, Start, Running, ClusterTypeOK
<1>3. CASE \E i \in Nodes : Join(i) \/ OpenPort(i) \/ CatchUp(i)
  BY <1>1, <1>3 DEF Join, OpenPort, CatchUp, ClusterTypeOK
<1> QED BY <1>2, <1>3, CalmChange

\* One component: its members are up, and who answers is one of them.
LEMMA MembersStep ==
  ASSUME TypeInv, OpenIsIn, DownIsOut, NoSplitBrain, [Next]_vars, died' = {}
  PROVE  OpenIsIn' /\ DownIsOut' /\ NoSplitBrain'
<1>1. ClusterTypeOK
  BY DEF TypeInv, TypeOK
<1> USE DEF OpenIsIn, DownIsOut, NoSplitBrain, Running, Answers
<1>2. CASE UNCHANGED <<proc, comp>>
  BY <1>2
<1>3. CASE LaunchJoiner
  BY <1>1, <1>3 DEF LaunchJoiner, Start, ClusterTypeOK
<1>4. CASE Shutdown(round)
  BY <1>1, <1>4 DEF Shutdown, ClusterTypeOK
<1>5. CASE ServersByThemselves
  <2>1. PICK i \in Nodes : Join(i) \/ OpenPort(i) \/ CatchUp(i)
    BY <1>5, CalmChange
  <2>2. CASE Join(i)
    BY <1>1, <2>2 DEF Join, ClusterTypeOK
  <2>3. CASE OpenPort(i) \/ CatchUp(i)
    BY <1>1, <2>3 DEF OpenPort, CatchUp, ClusterTypeOK
  <2> QED BY <2>1, <2>2, <2>3
<1> QED BY <1>2, <1>3, <1>4, <1>5, CalmChange

\* The new nodes that have been upgraded are Synced, and so is node 1; the node the
\* next one is made from answers.
LEMMA StandingStep ==
  ASSUME Founders = 3, TypeInv, Standing, [Next]_vars, died' = {}
  PROVE  Standing'
<1>1. /\ round \in 1..3 /\ Nodes = 1..6 /\ replaced \subseteq Nodes
      /\ 1 \in Nodes /\ Donor \in Nodes /\ Joiner \in Nodes
  BY Bounds DEF TypeInv, TypeOK, Nodes
<1>2. ASSUME ~StopNode, NEW n \in Nodes, proc[n] = "synced"
      PROVE  proc'[n] = "synced"
  BY <1>2, SyncedStays
<1>3. ASSUME ~StopNode, NEW n \in Nodes, Answers(n)
      PROVE  Answers(n)'
  BY <1>3, AnswersStay
<1>4. CASE ReadAddress \/ ReadPort \/ LaunchJoiner \/ PingAnswered \/ PingRefused
  <2>1. /\ ~StopNode /\ UNCHANGED replaced
        /\ pc \in Replacing \ {"upgrade"} /\ pc' # "upgrade"
        /\ pc' \in {"address", "port"} => pc \in {"address", "port"} /\ Donor' = Donor
    BY <1>4 DEF ReadAddress, ReadPort, LaunchJoiner, PingAnswered, PingRefused, StopNode,
                Goto, Exit, Replacing, Donor
  <2>2. pc' \in {"address", "port"} => Answers(Donor)' /\ (Donor' > Founders => proc'[Donor'] = "synced")
    BY <1>1, <1>2, <1>3, <2>1 DEF Standing, Answers
  <2> QED BY <1>1, <1>2, <2>1, <2>2 DEF Standing
<1>5. CASE SeeSynced
  <2>1. /\ ~StopNode /\ UNCHANGED replaced /\ pc \in Replacing
        /\ pc' = "upgrade" /\ Joiner' = Joiner /\ proc[Joiner] = "synced"
    BY <1>5 DEF SeeSynced, StopNode, Goto, Replacing, Joiner
  <2> QED BY <1>1, <1>2, <2>1 DEF Standing
<1>6. CASE UpgradeJoiner
  <2>1. /\ ~StopNode /\ pc = "upgrade" /\ replaced' \subseteq replaced \cup {Joiner}
        /\ pc' \in {"address", "stop", "failed"}
        /\ pc' = "address" => Donor' = Joiner
    BY <1>1, <1>6 DEF UpgradeJoiner, StopNode, Goto, Exit, Donor, Joiner
  <2>2. Joiner > Founders
    BY <1>1 DEF Joiner
  <2>3. pc' = "address" => Answers(Donor)' /\ proc'[Donor'] = "synced"
    BY <1>1, <1>2, <2>1 DEF Standing, Answers
  <2> QED BY <1>1, <1>2, <2>1, <2>2, <2>3 DEF Standing, Replacing
<1>7. CASE StopNode
  <2>1. UNCHANGED replaced /\ pc' \in {"stop", "stopped", "failed"}
    BY <1>7 DEF StopNode, Goto, Exit
  <2>2. \A n \in replaced : n # round /\ n \in Nodes /\ n > Founders
    BY <1>1 DEF Standing
  <2>3. \A n \in replaced : proc'[n] = "synced"
    BY <2>2, SyncedStays DEF Standing
  <2> QED BY <2>1, <2>2, <2>3 DEF Standing, Replacing
<1>8. CASE ServersByThemselves \/ UNCHANGED vars
  <2>1. UNCHANGED <<pc, round, replaced>>
    BY <1>8 DEF ServersByThemselves, scriptVars, vars
  <2>2. ASSUME NEW n \in Nodes, proc[n] = "synced"
        PROVE  proc'[n] = "synced"
    <3>1. CASE UNCHANGED vars
      BY <2>2, <3>1 DEF vars, clusterVars
    <3>2. CASE ServersByThemselves
      <4>1. ClusterTypeOK
        BY DEF TypeInv, TypeOK
      <4>2. PICK i \in Nodes : Join(i) \/ OpenPort(i) \/ CatchUp(i)
        BY <3>2, CalmChange
      <4> QED BY <2>2, <4>1, <4>2 DEF Join, OpenPort, CatchUp, ClusterTypeOK
    <3> QED BY <1>8, <3>1, <3>2
  <2>3. ASSUME NEW n \in Nodes, Answers(n)
        PROVE  Answers(n)'
    <3>1. CASE UNCHANGED vars
      BY <2>3, <3>1 DEF vars, clusterVars, Answers
    <3>2. CASE ServersByThemselves
      <4>1. ClusterTypeOK
        BY DEF TypeInv, TypeOK
      <4>2. PICK i \in Nodes : Join(i) \/ OpenPort(i) \/ CatchUp(i)
        BY <3>2, CalmChange
      <4> QED BY <2>3, <4>1, <4>2 DEF Join, OpenPort, CatchUp, ClusterTypeOK, Answers
    <3> QED BY <1>8, <3>1, <3>2
  <2>4. Donor' = Donor /\ Joiner' = Joiner
    BY <2>1 DEF Donor, Joiner
  <2>5. pc' \in {"address", "port"} =>
          Answers(Donor)' /\ (Donor' > Founders => proc'[Donor'] = "synced")
    BY <1>1, <2>1, <2>2, <2>3, <2>4 DEF Standing, Answers
  <2> QED BY <1>1, <2>1, <2>2, <2>4, <2>5 DEF Standing
<1> QED BY <1>4, <1>5, <1>6, <1>7, <1>8 DEF Next, ScriptStep

\* What is down stays down, but for the new node that is launched.
LEMMA DownStays ==
  ASSUME TypeInv, [Next]_vars, NEW n \in Nodes, n <= Founders, proc[n] = "down",
         pc \in {"stop", "stopped"}
  PROVE  proc'[n] = "down"
<1>1. ~LaunchJoiner
  BY DEF LaunchJoiner
<1> QED BY <1>1, Started DEF Running

\* One new node per round, then one old node less per step.
LEMMA ProgressStep ==
  ASSUME Founders = 3, TypeInv, Progress, [Next]_vars
  PROVE  Progress'
<1>1. round \in 1..3 /\ Nodes = 1..6 /\ ClusterTypeOK
  BY Bounds DEF TypeInv, TypeOK, Nodes
<1>2. CASE ReadAddress \/ ReadPort \/ LaunchJoiner \/ PingAnswered \/ PingRefused \/ SeeSynced
  <2>1. /\ UNCHANGED replaced /\ pc \in Replacing
        /\ \/ pc' \in Replacing /\ round' = round
           \/ pc' = "failed"
    BY <1>2 DEF ReadAddress, ReadPort, LaunchJoiner, PingAnswered, PingRefused, SeeSynced,
                Goto, Exit, Replacing
  <2> QED BY <2>1 DEF Progress, Replacing
<1>3. CASE UpgradeJoiner
  <2>1. \/ pc' = "failed"
        \/ pc' = "address" /\ round' = round + 1 /\ replaced' = replaced \cup {round + 3}
        \/ pc' = "stop" /\ round = 3 /\ round' = 3 /\ replaced' = replaced \cup {round + 3}
    BY <1>1, <1>3 DEF UpgradeJoiner, Goto, Exit, Joiner
  <2>2. replaced = 4..(round + 2)
    BY <1>3 DEF UpgradeJoiner, Progress, Replacing
  <2>3. replaced \cup {round + 3} = 4..(round + 3)
    BY <1>1, <2>2
  <2>4. CASE pc' = "failed"
    BY <2>4 DEF Progress, Replacing
  <2>5. CASE pc' = "address" /\ round' = round + 1 /\ replaced' = replaced \cup {round + 3}
    <3>1. round' + 2 = round + 3
      BY <1>1, <2>5
    <3>2. replaced' = 4..(round' + 2)
      BY <2>3, <2>5, <3>1
    <3> QED BY <2>5, <3>2 DEF Progress, Replacing
  <2>6. CASE pc' = "stop" /\ round = 3 /\ round' = 3 /\ replaced' = replaced \cup {round + 3}
    <3>1. replaced' = 4..6
      BY <2>3, <2>6
    <3> QED BY <1>1, <2>6, <3>1 DEF Progress, Replacing
  <2> QED BY <2>1, <2>4, <2>5, <2>6
<1>4. CASE StopNode
  <2>1. /\ UNCHANGED replaced /\ pc = "stop"
        /\ \/ pc' = "failed"
           \/ pc' = "stop" /\ round > 1 /\ round' = round - 1 /\ Shutdown(round)
           \/ pc' = "stopped" /\ round = 1 /\ Shutdown(round)
    BY <1>1, <1>4 DEF StopNode, Goto, Exit
  <2>2. \A n \in Nodes : n > round /\ n <= 3 => proc'[n] = "down"
    BY <2>1, DownStays DEF Progress
  <2>3. Shutdown(round) => proc'[round] = "down"
    BY <1>1 DEF Shutdown, ClusterTypeOK
  <2> QED BY <1>1, <2>1, <2>2, <2>3 DEF Progress, Replacing
<1>5. CASE ServersByThemselves \/ UNCHANGED vars
  <2>1. UNCHANGED <<pc, round, replaced>>
    BY <1>5 DEF ServersByThemselves, scriptVars, vars
  <2> QED BY <2>1, DownStays DEF Progress
<1> QED BY <1>2, <1>3, <1>4, <1>5 DEF Next, ScriptStep

\* Node 1's address is handed on from file to file.
LEMMA ListedStep ==
  ASSUME Founders = 3, TypeInv, Standing, FounderListed, [Next]_vars
  PROVE  FounderListed'
<1>1. /\ round \in 1..3 /\ Nodes = 1..6 /\ conf \in [Nodes -> Confs] /\ addr \in Lists
      /\ 1 \in Nodes /\ Donor \in Nodes /\ Joiner \in Nodes /\ Joiner \in 4..6
  BY Bounds DEF TypeInv, TypeOK, JoinerTypeOK, Nodes, Joiner
<1>2. CASE ReadAddress
  <2>1. pc = "address" /\ UNCHANGED <<conf, round>> /\ pc' \in {"port", "failed"}
    BY <1>2 DEF ReadAddress, Goto, Exit
  <2>2. pc' = "port" => Configured(Donor) /\ AskAddress(Donor)
    BY <1>2 DEF ReadAddress, Goto, Exit
  <2>3. Answers(Donor)
    BY <2>1 DEF Standing, Answers
  <2>4. pc' = "port" => 1 \in addr'.peers
    BY <1>1, <2>2, <2>3 DEF AskAddress, FounderListed
  <2> QED BY <2>1, <2>4 DEF FounderListed, Configured
<1>3. CASE ReadPort /\ WriteConf(Donor, Joiner)
  <2>1. pc = "port" /\ pc' \in {"launch", "failed"} /\ UNCHANGED round
    BY <1>3 DEF ReadPort, Goto, Exit
  <2>2. conf' = [conf EXCEPT ![Joiner] = JoinerConf(addr, Joiner)]
    BY <1>3, NewConf
  <2>3. JoinerConf(addr, Joiner).port = Joiner /\ 1 \in JoinerConf(addr, Joiner).peers
    BY <1>1, <2>1 DEF JoinerConf, FounderListed
  <2>4. conf'[Joiner] # NoConf /\ 1 \in conf'[Joiner].peers
    BY <1>1, <2>2, <2>3 DEF NoConf
  <2>5. \A i \in Nodes \ {Joiner} : conf'[i] = conf[i]
    BY <1>1, <2>2
  <2>6. Joiner' = Joiner
    BY <2>1 DEF Joiner
  <2> QED BY <1>1, <2>1, <2>4, <2>5, <2>6 DEF FounderListed, Configured
<1>4. CASE UNCHANGED joinerVars /\ ~ReadAddress /\ ~(ReadPort /\ WriteConf(Donor, Joiner))
  <2>1. ReadPort => pc' = "failed"
    BY <1>4 DEF ReadPort, Exit, Goto
  <2>2. /\ pc' = "port" => pc = "port"
        /\ pc' \in {"launch", "ping", "sync"} =>
             pc \in {"launch", "ping", "sync"} /\ UNCHANGED round
    BY <1>4, <2>1 DEF Next, ScriptStep, LaunchJoiner, PingAnswered, PingRefused, SeeSynced,
                      UpgradeJoiner, StopNode, ServersByThemselves, scriptVars, vars, Goto, Exit
  <2> QED BY <1>4, <2>2 DEF FounderListed, Configured, joinerVars, Joiner
<1> QED BY <1>2, <1>3, <1>4, FileChange

LEMMA InitCalm ==
  ASSUME Founders = 3, Init
  PROVE  CalmInv
<1> Nodes = 1..6 /\ round = 1 /\ pc = "address" /\ replaced = {} /\ 1 \in Nodes
  BY RoomAssumption DEF Init, Nodes
<1>1. PICK c \in Components, last \in {"synced", "open"},
          slow \in [2..(Founders - 1) -> {"synced", "open", "starting", "down"}] :
        /\ proc = [n \in Nodes |-> IF n > Founders THEN "down"
                                   ELSE IF n \in 2..(Founders - 1) THEN slow[n]
                                   ELSE IF n = 1 THEN "synced" ELSE last]
        /\ comp = [n \in Nodes |-> IF Answers(n) THEN c ELSE NoComponent]
  BY DEF Init
<1>2. OpenIsIn /\ DownIsOut /\ NoSplitBrain
  BY <1>1, ComponentsAssumption DEF OpenIsIn, DownIsOut, NoSplitBrain, Running, Answers
<1>3. Standing
  <2>1. proc[1] = "synced" /\ proc[3] \in {"synced", "open"}
    BY <1>1
  <2> QED BY <2>1 DEF Standing, Donor, Answers, Replacing
<1>4. Progress
  BY DEF Progress, Replacing
<1>5. FounderListed
  BY DEF FounderListed, Init, JoinerInit, Configured, FounderConf, NoConf
<1> QED BY <1>2, <1>3, <1>4, <1>5 DEF CalmInv

LEMMA CalmAlways == ASSUME Founders = 3 PROVE Spec => []CalmInv
<1>1. ASSUME TypeInv, CalmInv, [Next]_vars PROVE CalmInv'
  <2> SUFFICES ASSUME died' = {}
      PROVE  (OpenIsIn /\ DownIsOut /\ NoSplitBrain /\ Standing /\ Progress /\ FounderListed)'
    BY DEF CalmInv
  <2>1. OpenIsIn /\ DownIsOut /\ NoSplitBrain /\ Standing /\ Progress /\ FounderListed
    BY <1>1, CalmChange DEF CalmInv
  <2> QED BY <1>1, <2>1, MembersStep, StandingStep, ProgressStep, ListedStep
<1> QED BY <1>1, InitCalm, TypeAlways, PTL DEF Spec

\* Node 1 is in every list, and Synced for as long as new nodes join: without
\* crashes a new node always finds a member to join through.
THEOREM JoinerCanReachTheorem == ASSUME Founders = 3 PROVE Spec => []JoinerCanReach
<1>1. ASSUME TypeInv, CalmInv, died = {}, pc \in {"launch", "ping", "sync"}
      PROVE  CanReach(Joiner)
  <2>1. Joiner \in Nodes /\ Joiner >= 4 /\ Joiner \in Nat /\ 1 \in Nodes
    BY <1>1, Bounds, NodeBounds DEF TypeInv, TypeOK, Joiner
  <2>2. proc[1] = "synced" /\ comp[1] # NoComponent
    BY <1>1, <2>1 DEF CalmInv, Standing, Replacing, OpenIsIn, Answers
  <2>3. Configured(1) /\ conf[1].port = 1 /\ 1 \in conf[Joiner].peers
    BY <1>1, <2>1 DEF CalmInv, FounderListed, TypeInv, PortInv
  <2>4. Contact(Joiner, 1)
    BY <2>1, <2>3 DEF Contact
  <2> QED BY <2>1, <2>2, <2>4 DEF CanReach
<1>2. TypeInv /\ CalmInv => JoinerCanReach
  BY <1>1 DEF JoinerCanReach
<1> QED BY <1>2, TypeAlways, CalmAlways, PTL

\* Without crashes the donor of a file is a member beside node 1 that answers, and
\* is Synced if it is one of the new nodes.
THEOREM DonorReadyTheorem == ASSUME Founders = 3 PROVE Spec => []DonorReady
<1>1. ASSUME TypeInv, CalmInv, died = {}, pc \in {"address", "port"}
      PROVE  /\ Answers(Donor) /\ comp[Donor] # NoComponent /\ comp[Donor] = comp[1]
             /\ Donor > Founders => proc[Donor] = "synced"
  <2>1. Donor \in Nodes /\ 1 \in Nodes
    BY <1>1, Bounds, NodeBounds DEF TypeInv, TypeOK
  <2>2. Answers(Donor) /\ (Donor > Founders => proc[Donor] = "synced")
    BY <1>1 DEF CalmInv, Standing
  <2>3. Answers(1)
    BY <1>1 DEF CalmInv, Standing, Replacing, Answers
  <2>4. comp[Donor] # NoComponent /\ comp[1] # NoComponent
    BY <1>1, <2>1, <2>2, <2>3 DEF CalmInv, OpenIsIn
  <2>5. comp[Donor] = comp[1]
    BY <1>1, <2>1, <2>4 DEF CalmInv, NoSplitBrain
  <2> QED BY <2>2, <2>4, <2>5
<1>2. TypeInv /\ CalmInv => DonorReady
  BY <1>1 DEF DonorReady
<1> QED BY <1>2, TypeAlways, CalmAlways, PTL

\* Without crashes the new nodes hold the one primary component from their upgrade
\* on, and alone when the old ones have been stopped.
THEOREM HandedOverTheorem == ASSUME Founders = 3 PROVE Spec => []HandedOver
<1>1. ASSUME TypeInv, CalmInv, died = {}
      PROVE  \A m, n \in replaced : comp[m] = comp[n] /\ comp[m] # NoComponent
  BY <1>1 DEF CalmInv, Standing, OpenIsIn, NoSplitBrain, TypeInv, TypeOK, Answers
<1>2. ASSUME TypeInv, CalmInv, died = {}, pc = "stopped"
      PROVE  /\ \A n \in Nodes : comp[n] # NoComponent <=> n > Founders
             /\ replaced = {n \in Nodes : n > Founders}
  <2>1. Nodes = 1..6 /\ replaced = 4..6
    BY <1>2, RoomAssumption DEF CalmInv, Progress, Nodes
  <2>2. \A n \in Nodes : n <= Founders => comp[n] = NoComponent
    BY <1>2 DEF CalmInv, Progress, DownIsOut, Running
  <2>3. \A n \in 4..6 : comp[n] # NoComponent
    BY <1>1, <1>2, <2>1
  <2> QED BY <2>1, <2>2, <2>3
<1>3. TypeInv /\ CalmInv => HandedOver
  BY <1>1, <1>2 DEF HandedOver
<1> QED BY <1>3, TypeAlways, CalmAlways, PTL

-------------------------------------------------------------------------------
(* The script is bounded *)

\* How many steps of the script can still follow at most, the wait for Synced apart.
RoundSteps == PingLimit + 5
AfterRound == (Founders - round) * RoundSteps + Founders
StepsLeft ==
  CASE pc \in {"stopped", "failed"} -> 0
    [] pc = "stop"    -> round
    [] pc = "upgrade" -> AfterRound + 1
    [] pc = "sync"    -> AfterRound + 2
    [] pc = "ping"    -> AfterRound + PingLimit - pings + 2
    [] pc = "launch"  -> AfterRound + PingLimit + 3
    [] pc = "port"    -> AfterRound + PingLimit + 4
    [] pc = "address" -> AfterRound + PingLimit + 5

LEMMA Counted ==
  ASSUME TypeOK
  PROVE  /\ PingLimit \in Nat \ {0} /\ Founders \in Nat \ {0} /\ round \in Nat \ {0}
         /\ round <= Founders /\ pings \in Nat /\ pings < PingLimit /\ pc \in Phases
         /\ (Founders - round) * RoundSteps \in Nat
         /\ (Founders - (round + 1)) * RoundSteps = (Founders - round) * RoundSteps - RoundSteps
<1>1. /\ PingLimit \in Nat \ {0} /\ Founders \in Nat \ {0} /\ round \in Nat \ {0}
      /\ round <= Founders /\ pings \in Nat /\ pings < PingLimit /\ pc \in Phases
  BY PingLimitAssumption, FoundersAssumption DEF TypeOK
<1>2. RoundSteps \in Nat
  BY <1>1 DEF RoundSteps
<1>3. \A n, m \in Nat : n * m \in Nat /\ (n - 1) * m = n * m - m
  OBVIOUS
<1>4. Founders - round \in Nat /\ Founders - (round + 1) = (Founders - round) - 1
  BY <1>1
<1>5. (Founders - round) * RoundSteps \in Nat
      /\ ((Founders - round) - 1) * RoundSteps = (Founders - round) * RoundSteps - RoundSteps
  BY <1>2, <1>3, <1>4
<1> QED BY <1>1, <1>4, <1>5

LEMMA StepsNat == ASSUME TypeOK PROVE StepsLeft \in Nat
  BY Counted DEF StepsLeft, AfterRound, Phases

LEMMA StepsFewer ==
  ASSUME TypeOK, ScriptStep
  PROVE  StepsLeft' < StepsLeft
<1> USE Counted DEF StepsLeft, AfterRound, Goto, Exit
<1>1. CASE ReadAddress \/ ReadPort \/ LaunchJoiner
  BY <1>1 DEF ReadAddress, ReadPort, LaunchJoiner
<1>2. CASE PingAnswered \/ SeeSynced
  BY <1>2 DEF PingAnswered, SeeSynced
<1>3. CASE PingRefused
  BY <1>3 DEF PingRefused
<1>4. CASE UpgradeJoiner
  <2>1. CASE pc' = "address" /\ round' = round + 1
    <3>1. AfterRound' = AfterRound - RoundSteps /\ AfterRound \in Nat
      BY <2>1 DEF RoundSteps
    <3>2. StepsLeft = AfterRound + 1 /\ StepsLeft' = AfterRound' + RoundSteps
      BY <1>4, <2>1 DEF UpgradeJoiner, RoundSteps
    <3>3. RoundSteps \in Nat
      BY DEF RoundSteps
    <3> HIDE DEF StepsLeft, AfterRound
    <3>4. AfterRound' + RoundSteps = AfterRound
      BY <3>1, <3>3
    <3> QED BY <3>1, <3>2, <3>4
  <2>2. CASE (pc' = "stop" /\ round' = Founders) \/ pc' = "failed"
    BY <1>4, <2>2 DEF UpgradeJoiner
  <2> QED BY <1>4, <2>1, <2>2 DEF UpgradeJoiner
<1>5. CASE StopNode
  BY <1>5 DEF StopNode
<1> QED BY <1>1, <1>2, <1>3, <1>4, <1>5 DEF ScriptStep

\* Whatever the servers do, the script takes no more steps than the founders and the
\* pings give.  It may still wait for ever where it has no step of its own: for Synced.
THEOREM BoundedTheorem ==
  Spec => /\ [](StepsLeft \in Nat)
          /\ [][StepsLeft' < StepsLeft \/ UNCHANGED scriptVars]_vars
<1>1. ASSUME TypeOK, [Next]_vars PROVE StepsLeft' < StepsLeft \/ UNCHANGED scriptVars
  BY <1>1, StepsFewer DEF Next, ServersByThemselves, vars
<1> QED BY <1>1, StepsNat, TypeCorrect, PTL DEF Spec

===============================================================================
