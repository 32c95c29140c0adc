----------------------- MODULE ClusterInteractionProofs ------------------------
(***************************************************************************)
(* What holds of ClusterInteraction whatever the servers and the loads do, *)
(* however long the script waits, for every number of founders that the    *)
(* literals of cluster_interaction_qa allow.                               *)
(***************************************************************************)
EXTENDS ClusterInteraction, ClusterProofs

\* The donor's file is the one of create_config, and the rounds of sysbench_run
\* are those the script has code for.
FileInv == conf[Donor] = FounderConf(Donor)
RoundInv == pc = "prepare" => round \in 0..3

TypeInv == TypeOK /\ FileInv /\ RoundInv

\* The phases before the fourth node is launched.
BeforeJoin == Phases \ {"check", "verdict", "done"}
JoinerDown == pc \in BeforeJoin => ~Running(Joiner)

\* Where the servers stand as long as none has crashed: one component, whose
\* members the founders that answered stay, and a joiner that has been reported.
FoundersStay ==
  \A n \in cohort \ {Victim} : comp[n] # NoComponent

ReportInv ==
  /\ report # "none" => pc \in {"verdict", "done"}
  /\ report = "synced" => proc[Joiner] = "synced"

CalmInv == died = {} => SyncedIsIn /\ NoSplitBrain /\ FoundersStay /\ ReportInv

-------------------------------------------------------------------------------
(* Type correctness *)

LEMMA Bounds ==
  /\ Founders \in Nat /\ N \in Nat /\ Founders >= 3 /\ N >= 4 /\ Founders < N
  /\ 1 \in Nodes /\ Victim \in Nodes /\ Donor \in Nodes /\ Joiner \in Nodes
  /\ Victim # 1 /\ Donor # Joiner
  BY FoundersAssumption, NAssumption, JoinerAssumption DEF Nodes, Victim, Donor, Joiner

\* The founders that answered are in one component, among them node 1.
LEMMA InitServers ==
  ASSUME Init
  PROVE  /\ ClusterTypeOK /\ cohort \subseteq Nodes /\ 1 \in cohort
         /\ \A n \in Nodes : n > Founders => proc[n] = "down"
         /\ \E c \in Components :
              \A n \in Nodes : comp[n] = IF n \in cohort THEN c ELSE NoComponent
         /\ \A n \in Nodes : proc[n] = "synced" => n \in cohort
<1>1. PICK c \in Components, last \in {"synced", "open"},
          slow \in [2..(Founders - 1) -> {"synced", "open", "starting", "down"}] :
        /\ proc = [n \in Nodes |-> IF n > Founders THEN "down"
                                   ELSE IF n \in 2..(Founders - 1) THEN slow[n]
                                   ELSE IF n = 1 THEN "synced" ELSE last]
        /\ cohort = {n \in Nodes : Answers(n)}
        /\ comp = [n \in Nodes |-> IF n \in cohort THEN c ELSE NoComponent]
        /\ datadir = [n \in Nodes |-> IF n > Founders THEN "none"
                                      ELSE IF n \in cohort THEN "unsafe" ELSE "fresh"]
  BY DEF Init
<1>2. ClusterTypeOK
  BY <1>1 DEF ClusterTypeOK, ProcStates, DatadirStates
<1>3. proc[1] = "synced"
  BY <1>1, Bounds
<1> QED BY <1>1, <1>2, <1>3, Bounds DEF Answers

LEMMA InitType == Init => TypeInv
<1> SUFFICES ASSUME Init PROVE TypeInv
  OBVIOUS
<1>1. \A i \in 1..Founders : FounderConf(i) \in Confs
  BY Bounds DEF FounderConf, Confs
<1>2. NoConf \in Confs
  BY Bounds DEF NoConf, Confs
<1>3. JoinerTypeOK
  BY <1>1, <1>2 DEF Init, JoinerInit, JoinerTypeOK, NoList, Lists
<1>4. LoadTypeOK
  BY DEF Init, LoadInit, LoadTypeOK, LoadStates
<1>5. tries \in Nat /\ tries < CASE pc = "ping" -> PingLimit [] pc = "check" -> SyncLimit [] OTHER -> 1
  BY DEF Init
<1>6. TypeOK
  BY <1>3, <1>4, <1>5, InitServers, Bounds DEF Init, TypeOK, Phases
<1>7. FileInv
  BY Bounds DEF Init, JoinerInit, FileInv, Donor, Nodes
<1> QED BY <1>6, <1>7 DEF TypeInv, RoundInv, Init

LEMMA ByAddress ==
  ASSUME ServerStepByAddress
  PROVE  ServerStep /\ \E i \in Nodes : Join(i) \/ OpenPort(i) \/ CatchUp(i) \/ Die(i)
  BY DEF ServerStepByAddress, ServerStep, JoinByAddress

\* Every step leaves the servers alone, makes the joiner's directory, starts one
\* of two nodes, shuts the victim down or is a step of the servers.
LEMMA ServerChange ==
  ASSUME [Next]_vars
  PROVE  /\ UNCHANGED cohort
         /\ \/ UNCHANGED <<clusterVars, died>>
            \/ ReadPort /\ WriteConf(Donor, Joiner) /\ UNCHANGED died
            \/ pc = "join" /\ Start(Joiner, "starting") /\ UNCHANGED died
            \/ pc = "restart" /\ Start(Victim, "starting") /\ UNCHANGED died
            \/ pc = "shutdown" /\ Shutdown(Victim) /\ UNCHANGED died
            \/ ServersByThemselves
<1>1. CASE ScriptStep
  BY <1>1 DEF ScriptStep, Prepare, LaunchLoad, CapturePid, FlowControl, ShutdownVictim,
       KillLoad, RestartVictim, PingVictim, ReadAddress, ReadPort, LaunchJoiner,
       SeeSynced, NotSynced, Verdict
<1>2. CASE ServersByThemselves \/ LoadByItself \/ UNCHANGED vars
  BY <1>2 DEF ServersByThemselves, LoadByItself, vars
<1> QED BY <1>1, <1>2 DEF Next

LEMMA ClusterType ==
  ASSUME ClusterTypeOK, [Next]_vars
  PROVE  ClusterTypeOK'
<1>1. CASE UNCHANGED clusterVars
  BY <1>1 DEF clusterVars, ClusterTypeOK
<1>2. CASE WriteConf(Donor, Joiner)
  BY <1>2 DEF WriteConf, ClusterTypeOK, DatadirStates
<1>3. CASE Start(Joiner, "starting") \/ Start(Victim, "starting")
  BY <1>3 DEF Start, ClusterTypeOK, ProcStates
<1>4. CASE Shutdown(Victim)
  BY <1>4 DEF Shutdown, ClusterTypeOK, ProcStates, DatadirStates
<1>5. CASE ServersByThemselves
  BY <1>5, ByAddress, ServerType DEF ServersByThemselves
<1> QED BY <1>1, <1>2, <1>3, <1>4, <1>5, ServerChange

\* The files and the list change in two actions only.
LEMMA FileChange ==
  ASSUME [Next]_vars
  PROVE  \/ UNCHANGED joinerVars
         \/ AskAddress(Donor) /\ UNCHANGED conf
         \/ ReadPort /\ WriteConf(Donor, Joiner)
<1>1. CASE ScriptStep
  BY <1>1 DEF ScriptStep, Prepare, LaunchLoad, CapturePid, FlowControl, ShutdownVictim,
       KillLoad, RestartVictim, PingVictim, ReadAddress, ReadPort, LaunchJoiner,
       SeeSynced, NotSynced, Verdict
<1>2. CASE ServersByThemselves \/ LoadByItself \/ UNCHANGED vars
  BY <1>2 DEF ServersByThemselves, LoadByItself, vars
<1> QED BY <1>1, <1>2 DEF Next

\* The joiner's file takes the port after the donor's.
LEMMA JoinerType ==
  ASSUME TypeInv, [Next]_vars
  PROVE  JoinerTypeOK' /\ FileInv'
<1>1. JoinerTypeOK /\ FileInv
  BY DEF TypeInv, TypeOK
<1>2. CASE UNCHANGED joinerVars
  BY <1>1, <1>2 DEF joinerVars, JoinerTypeOK, FileInv
<1>3. CASE AskAddress(Donor) /\ UNCHANGED conf
  <2>1. conf[Donor] \in Confs
    BY <1>1, Bounds DEF JoinerTypeOK
  <2>2. NoList \in Lists
    BY DEF NoList, Lists
  <2>3. addr' \in Lists
    BY <1>3, <2>1, <2>2 DEF AskAddress, Confs, Lists
  <2> QED BY <1>1, <1>3, <2>3 DEF JoinerTypeOK, FileInv
<1>4. CASE WriteConf(Donor, Joiner)
  <2>1. conf[Donor].port + 1 = 4
    BY <1>1 DEF FileInv, FounderConf, Donor
  <2>2. addr.peers \in SUBSET (1..(Founders + N))
    BY <1>1 DEF JoinerTypeOK, Lists
  <2>3. 4 \in 1..(Founders + N) /\ 14 \in 0..(10 + N)
    BY Bounds
  <2>4. JoinerConf(addr, 4) \in Confs
    BY <2>2, <2>3 DEF JoinerConf, Confs
  <2>5. conf' = [conf EXCEPT ![Joiner] = JoinerConf(addr, 4)] /\ UNCHANGED addr
    BY <1>4, <2>1 DEF WriteConf
  <2> QED BY <1>1, <2>4, <2>5, Bounds DEF JoinerTypeOK, FileInv
<1> QED BY <1>2, <1>3, <1>4, FileChange

LEMMA LoadType ==
  ASSUME LoadTypeOK, [Next]_vars
  PROVE  LoadTypeOK'
<1>1. CASE LaunchLoad
  BY <1>1 DEF LaunchLoad, LaunchRun, LoadTypeOK, LoadStates
<1>2. CASE KillLoad
  BY <1>2 DEF KillLoad, KillRuns, LoadTypeOK, LoadStates
<1>3. CASE LoadByItself
  BY <1>3 DEF LoadByItself, LoadStep, LoadTypeOK, LoadStates
<1>4. CASE UNCHANGED load
  BY <1>4 DEF LoadTypeOK
<1>5. LaunchLoad \/ KillLoad \/ LoadByItself \/ UNCHANGED load
  BY DEF Next, ScriptStep, Prepare, CapturePid, FlowControl, ShutdownVictim,
         RestartVictim, PingVictim, ReadAddress, ReadPort, LaunchJoiner, SeeSynced,
         NotSynced, Verdict, ServersByThemselves, scriptVars, vars
<1> QED BY <1>1, <1>2, <1>3, <1>4, <1>5

\* The counter of a wait stays below the bound of its own loop.
WaitOK(p, t) ==
  t \in Nat /\ t < CASE p = "ping" -> PingLimit [] p = "check" -> SyncLimit [] OTHER -> 1

LEMMA WaitBegins == ASSUME NEW p PROVE WaitOK(p, 0)
  BY PingLimitAssumption, SyncLimitAssumption DEF WaitOK

LEMMA ScriptType ==
  ASSUME TypeInv, [Next]_vars
  PROVE  /\ pc' \in Phases /\ round' \in 0..Founders /\ WaitOK(pc', tries')
         /\ pid' \subseteq Runs /\ report' \in {"none", "synced", "answers", "warning"}
         /\ RoundInv'
<1>1. /\ pc \in Phases /\ round \in 0..Founders /\ WaitOK(pc, tries)
      /\ pid \subseteq Runs /\ report \in {"none", "synced", "answers", "warning"}
      /\ RoundInv
  BY DEF TypeInv, TypeOK, WaitOK
<1>2. \A r \in 0..3 : r \in 0..Founders
  BY Bounds
<1>3. ASSUME NEW p \in Phases, NEW n \in 0..Founders, Goto(p, n),
             p = "prepare" => n \in 0..3
      PROVE  pc' \in Phases /\ round' \in 0..Founders /\ WaitOK(pc', tries') /\ RoundInv'
  BY <1>3, WaitBegins DEF Goto, RoundInv
<1>4. Exit => /\ pc' \in Phases /\ round' \in 0..Founders
              /\ WaitOK(pc', tries') /\ RoundInv'
  BY <1>2, <1>3 DEF Exit, Phases
<1>5. CASE Prepare
  <2>1. CASE Exit
    BY <1>1, <1>4, <1>5, <2>1 DEF Prepare
  <2>2. CASE ~Exit
    <3>1. round \in 0..3 /\ UNCHANGED <<pid, report>>
      BY <1>1, <1>5 DEF Prepare, RoundInv
    <3>2. \/ Goto("launch", 0)
          \/ round \in 1..2 /\ Goto("prepare", round + 1)
          \/ Goto("address", 0)
      <4>1. CASE round = 0
        BY <1>5, <2>2, <4>1 DEF Prepare
      <4>2. CASE round \in 1..2
        BY <1>5, <2>2, <4>2 DEF Prepare
      <4>3. CASE round = 3
        BY <1>5, <2>2, <4>3 DEF Prepare
      <4> QED BY <3>1, <4>1, <4>2, <4>3
    <3>3. round \in 1..2 => round + 1 \in 0..3
      BY <3>1
    <3> QED BY <1>1, <1>2, <1>3, <3>1, <3>2, <3>3 DEF Phases
  <2> QED BY <2>1, <2>2
<1>6. CASE LaunchLoad \/ CapturePid
  BY <1>1, <1>2, <1>3, <1>6, Bounds DEF LaunchLoad, CapturePid, Phases, Visible
<1>7. CASE FlowControl
  <2>1. round < Founders => round + 1 \in 0..Founders
    BY <1>1, Bounds
  <2> QED BY <1>1, <1>2, <1>3, <1>7, <2>1 DEF FlowControl, Phases
<1>8. CASE ShutdownVictim \/ KillLoad \/ RestartVictim
  BY <1>1, <1>2, <1>3, <1>4, <1>8 DEF ShutdownVictim, KillLoad, RestartVictim, Phases
<1>9. CASE PingVictim
  <2>1. CASE Goto("unloadAgain", 0)
    BY <1>1, <1>2, <1>3, <1>9, <2>1 DEF PingVictim, Phases
  <2>2. CASE tries + 1 # PingLimit /\ tries' = tries + 1 /\ UNCHANGED <<pc, round>>
    BY <1>1, <1>9, <2>2, PingLimitAssumption DEF PingVictim, WaitOK, RoundInv
  <2> QED BY <1>9, <2>1, <2>2 DEF PingVictim
<1>10. CASE ReadAddress \/ ReadPort \/ LaunchJoiner \/ SeeSynced \/ Verdict
  BY <1>1, <1>2, <1>3, <1>4, <1>10 DEF ReadAddress, ReadPort, LaunchJoiner, SeeSynced,
     Verdict, Phases
<1>11. CASE NotSynced
  <2>1. CASE Goto("verdict", 0)
    BY <1>1, <1>2, <1>3, <1>11, <2>1 DEF NotSynced, Phases
  <2>2. CASE tries + 1 < SyncLimit /\ tries' = tries + 1 /\ UNCHANGED <<pc, round, report>>
    BY <1>1, <1>11, <2>2, SyncLimitAssumption DEF NotSynced, WaitOK, RoundInv
  <2> QED BY <1>1, <1>11, <2>1, <2>2 DEF NotSynced
<1>12. CASE ServersByThemselves \/ LoadByItself \/ UNCHANGED vars
  BY <1>1, <1>12 DEF ServersByThemselves, LoadByItself, scriptVars, vars, RoundInv
<1> QED BY <1>5, <1>6, <1>7, <1>8, <1>9, <1>10, <1>11, <1>12 DEF Next, ScriptStep

LEMMA TypeAlways == Spec => []TypeInv
<1>1. ASSUME TypeInv, [Next]_vars PROVE TypeInv'
  <2>1. ClusterTypeOK' /\ JoinerTypeOK' /\ FileInv' /\ LoadTypeOK'
    BY <1>1, ClusterType, JoinerType, LoadType DEF TypeInv, TypeOK
  <2>2. cohort' \subseteq Nodes /\ died' \subseteq Nodes
    BY <1>1, ServerChange DEF TypeInv, TypeOK, ServersByThemselves
  <2> QED BY <1>1, <2>1, <2>2, ScriptType DEF TypeInv, TypeOK, WaitOK
<1> QED BY <1>1, InitType, PTL DEF Spec

\* The variables stay in their domains: in particular each of the two waits counts
\* to its own limit, and the joiner's file can be derived from node 3's.
THEOREM TypeCorrect == Spec => []TypeOK
<1> QED BY TypeAlways, PTL DEF TypeInv

-------------------------------------------------------------------------------
(* Live data directories *)

\* Nothing starts a server but the restart of the victim and the joiner's launch.
LEMMA Started ==
  ASSUME TypeInv, [Next]_vars, NEW n \in Nodes, Running(n)'
  PROVE  \/ Running(n)
         \/ pc = "join" /\ n = Joiner
         \/ pc = "restart" /\ n = Victim
<1>1. ClusterTypeOK
  BY DEF TypeInv, TypeOK
<1>2. CASE UNCHANGED clusterVars \/ WriteConf(Donor, Joiner)
  BY <1>2 DEF clusterVars, WriteConf, Running
<1>3. CASE pc = "join" /\ Start(Joiner, "starting")
  BY <1>1, <1>3 DEF Start, ClusterTypeOK, Running
<1>4. CASE pc = "restart" /\ Start(Victim, "starting")
  BY <1>1, <1>4 DEF Start, ClusterTypeOK, Running
<1>5. CASE Shutdown(Victim)
  BY <1>1, <1>5 DEF Shutdown, ClusterTypeOK, Running
<1>6. CASE ServersByThemselves
  BY <1>1, <1>6, ByAddress, ServerStartsNothing DEF ServersByThemselves
<1> QED BY <1>2, <1>3, <1>4, <1>5, <1>6, ServerChange

\* The script does not go back to a phase before the join, and leaves the launch
\* of the joiner for the check that it is Synced.
LEMMA Onward ==
  ASSUME [Next]_vars
  PROVE  pc' \in BeforeJoin => pc \in BeforeJoin /\ (pc = "join" => UNCHANGED proc \/ ServersByThemselves)
<1> USE DEF Goto, Exit, BeforeJoin, Phases
<1>1. CASE Prepare \/ LaunchLoad \/ CapturePid \/ FlowControl
  BY <1>1 DEF Prepare, LaunchLoad, CapturePid, FlowControl, clusterVars
<1>2. CASE ShutdownVictim \/ KillLoad \/ RestartVictim \/ PingVictim
  BY <1>2 DEF ShutdownVictim, KillLoad, RestartVictim, PingVictim
<1>3. CASE ReadAddress \/ ReadPort \/ LaunchJoiner
  BY <1>3 DEF ReadAddress, ReadPort, LaunchJoiner
<1>4. CASE SeeSynced \/ NotSynced \/ Verdict
  BY <1>4 DEF SeeSynced, NotSynced, Verdict
<1>5. CASE ServersByThemselves
  BY <1>5 DEF ServersByThemselves, scriptVars
<1>6. CASE LoadByItself \/ UNCHANGED vars
  BY <1>6 DEF LoadByItself, vars, clusterVars, scriptVars
<1> QED BY <1>1, <1>2, <1>3, <1>4, <1>5, <1>6 DEF Next, ScriptStep

LEMMA DownStep ==
  ASSUME Founders = 3, TypeInv, JoinerDown, [Next]_vars
  PROVE  JoinerDown'
<1> SUFFICES ASSUME pc' \in BeforeJoin, Running(Joiner)' PROVE FALSE
  BY DEF JoinerDown, Joiner
<1>1. pc \in BeforeJoin /\ ~Running(Joiner)
  BY Onward DEF JoinerDown
<1>2. pc = "join"
  BY <1>1, Started, Bounds DEF Victim, Joiner
<1>3. UNCHANGED proc \/ ServersByThemselves
  BY <1>2, Onward
<1>4. Running(Joiner)
  BY <1>3, ByAddress, ServerStartsNothing, Bounds
     DEF ServersByThemselves, Running, TypeInv, TypeOK, Joiner
<1> QED BY <1>1, <1>4

LEMMA DownAlways == ASSUME Founders = 3 PROVE Spec => []JoinerDown
<1>1. Init => JoinerDown
  BY InitServers, Bounds DEF JoinerDown, Running, Joiner
<1> QED BY <1>1, DownStep, TypeAlways, PTL DEF Spec

LEMMA LiveStep ==
  ASSUME TypeInv, JoinerDown, [Next]_vars, NEW i \in Nodes, Running(i),
         datadir'[i] = "fresh"
  PROVE  datadir[i] = "fresh"
<1>1. ClusterTypeOK
  BY DEF TypeInv, TypeOK
<1>2. CASE UNCHANGED clusterVars \/ Start(Joiner, "starting") \/ Start(Victim, "starting")
  BY <1>2 DEF clusterVars, Start
<1>3. CASE ReadPort /\ WriteConf(Donor, Joiner)
  <2>1. ~Running(Joiner)
    BY <1>3 DEF ReadPort, JoinerDown, BeforeJoin, Phases
  <2> QED BY <1>1, <1>3, <2>1 DEF WriteConf, ClusterTypeOK
<1>4. CASE Shutdown(Victim)
  BY <1>1, <1>4 DEF Shutdown, ClusterTypeOK
<1>5. CASE ServersByThemselves
  <2>1. PICK j \in Nodes : Join(j) \/ OpenPort(j) \/ CatchUp(j) \/ Die(j)
    BY <1>5, ByAddress DEF ServersByThemselves
  <2>2. CASE Join(j)
    BY <1>1, <2>2 DEF Join, ClusterTypeOK
  <2> QED BY <2>1, <2>2 DEF OpenPort, CatchUp, Die, Lose
<1> QED BY <1>2, <1>3, <1>4, <1>5, ServerChange

\* With the three founders the literals of cluster_interaction_qa are for, node 4
\* is not running when its data directory is removed.
THEOREM LiveDatadirTheorem == ASSUME Founders = 3 PROVE Spec => LiveDatadirKept
<1>1. TypeInv /\ JoinerDown /\ [Next]_vars =>
        [\A i \in Nodes : Running(i) /\ datadir'[i] = "fresh" => datadir[i] = "fresh"
          ]_<<clusterVars, joinerVars>>
  BY LiveStep
<1> QED BY <1>1, TypeAlways, DownAlways, PTL DEF Spec, LiveDatadirKept

-------------------------------------------------------------------------------
(* The primary component, whatever crashes *)

\* The shutdown, the restart, the fourth node and the crashes of any server refine the
\* primary component without founding one: whoever comes up finds a member at one of
\* its addresses, or stays out.
THEOREM MembershipTheorem == Spec => [][KeepsComponent]_members
<1>1. Init => NoSplitBrain
  BY InitServers DEF NoSplitBrain
<1>2. ASSUME TypeInv, NoSplitBrain, [Next]_vars
      PROVE  NoSplitBrain' /\ [KeepsComponent]_members
  <2>1. ClusterTypeOK
    BY <1>2 DEF TypeInv, TypeOK
  <2>2. CASE UNCHANGED comp
    BY <1>2, <2>2 DEF NoSplitBrain, members
  <2>3. CASE Shutdown(Victim)
    BY <1>2, <2>1, <2>3, Bounds, ShutdownKeeps DEF Shutdown, NoSplitBrain, ClusterTypeOK
  <2>4. CASE ServersByThemselves
    BY <1>2, <2>1, <2>4, ByAddress, ServerKeeps DEF ServersByThemselves
  <2> QED BY <1>2, <2>2, <2>3, <2>4, ServerChange DEF clusterVars, WriteConf, Start
<1> QED BY <1>1, <1>2, TypeAlways, PTL DEF Spec

-------------------------------------------------------------------------------
(* As long as no server crashes *)

\* What servers and script can do to the servers then.
LEMMA CalmChange ==
  ASSUME TypeInv, [Next]_vars, died' = {}
  PROVE  /\ died = {}
         /\ \/ UNCHANGED <<proc, comp>>
            \/ pc = "join" /\ Start(Joiner, "starting")
            \/ pc = "restart" /\ Start(Victim, "starting")
            \/ pc = "shutdown" /\ Shutdown(Victim)
            \/ \E i \in Nodes : Join(i) \/ OpenPort(i) \/ CatchUp(i)
<1>1. ClusterTypeOK /\ died \subseteq Nodes
  BY DEF TypeInv, TypeOK
<1>2. CASE ServersByThemselves
  <2>1. PICK i \in Nodes : Join(i) \/ OpenPort(i) \/ CatchUp(i) \/ Die(i)
    BY <1>2, ByAddress DEF ServersByThemselves
  <2>2. ~Die(i)
    <3>1. SUFFICES ASSUME Die(i) PROVE FALSE
      OBVIOUS
    <3>2. proc'[i] = "down" /\ Running(i)
      BY <1>1, <3>1, LoseFacts DEF Die
    <3> QED BY <1>2, <3>2 DEF ServersByThemselves
  <2> QED BY <1>2, <2>1, <2>2 DEF ServersByThemselves
<1> QED BY <1>2, ServerChange DEF clusterVars, WriteConf

\* One component, which only the node that is shut down leaves.
LEMMA MembersStep ==
  ASSUME TypeInv, SyncedIsIn, NoSplitBrain, FoundersStay, [Next]_vars, died' = {}
  PROVE  SyncedIsIn' /\ NoSplitBrain' /\ FoundersStay'
<1>1. ClusterTypeOK /\ cohort \subseteq Nodes /\ UNCHANGED cohort
  BY ServerChange DEF TypeInv, TypeOK
<1> USE DEF SyncedIsIn, NoSplitBrain, FoundersStay, Victim
<1>2. CASE UNCHANGED <<proc, comp>>
  BY <1>1, <1>2
<1>3. CASE Start(Joiner, "starting") \/ Start(Victim, "starting")
  BY <1>1, <1>3 DEF Start, ClusterTypeOK
<1>4. CASE Shutdown(Victim)
  BY <1>1, <1>4 DEF Shutdown, ClusterTypeOK
<1>5. CASE \E i \in Nodes : Join(i) \/ OpenPort(i) \/ CatchUp(i)
  <2>1. PICK i \in Nodes : Join(i) \/ OpenPort(i) \/ CatchUp(i)
    BY <1>5
  <2>2. CASE Join(i)
    BY <1>1, <2>2 DEF Join, ClusterTypeOK
  <2>3. CASE OpenPort(i) \/ CatchUp(i)
    BY <1>1, <2>3 DEF OpenPort, CatchUp, ClusterTypeOK
  <2> QED BY <2>1, <2>2, <2>3
<1> QED BY <1>2, <1>3, <1>4, <1>5, CalmChange

\* The report is the last thing but one the script does, and what it says of the
\* joiner stays so.
LEMMA ReportStep ==
  ASSUME TypeInv, ReportInv, [Next]_vars, died' = {}
  PROVE  ReportInv'
<1>1. ClusterTypeOK
  BY DEF TypeInv, TypeOK
<1>2. \/ UNCHANGED report /\ pc \notin {"verdict", "done"}
      \/ UNCHANGED report /\ pc \in {"verdict", "done"} /\ pc' \in {"verdict", "done"}
      \/ SeeSynced
      \/ NotSynced /\ pc' = "verdict" /\ report' \in {"answers", "warning"}
  <2> USE DEF Goto, Exit
  <2>1. CASE Prepare \/ LaunchLoad \/ CapturePid \/ FlowControl
    BY <2>1 DEF Prepare, LaunchLoad, CapturePid, FlowControl
  <2>2. CASE ShutdownVictim \/ KillLoad \/ RestartVictim \/ PingVictim
    BY <2>2 DEF ShutdownVictim, KillLoad, RestartVictim, PingVictim
  <2>3. CASE ReadAddress \/ ReadPort \/ LaunchJoiner
    BY <2>3 DEF ReadAddress, ReadPort, LaunchJoiner
  <2>4. CASE SeeSynced \/ NotSynced \/ Verdict
    BY <2>4 DEF NotSynced, Verdict
  <2>5. CASE ServersByThemselves \/ LoadByItself \/ UNCHANGED vars
    BY <2>5 DEF ServersByThemselves, LoadByItself, scriptVars, vars
  <2> QED BY <2>1, <2>2, <2>3, <2>4, <2>5 DEF Next, ScriptStep
<1>3. CASE UNCHANGED report /\ pc \in {"verdict", "done"} /\ pc' \in {"verdict", "done"}
  <2>1. UNCHANGED proc \/ \E i \in Nodes : Join(i) \/ OpenPort(i) \/ CatchUp(i)
    BY <1>3, CalmChange
  <2>2. proc[Joiner] = "synced" => proc'[Joiner] = "synced"
    <3>1. ASSUME NEW i \in Nodes, Join(i) \/ OpenPort(i) \/ CatchUp(i)
          PROVE  proc[Joiner] = "synced" => proc'[Joiner] = "synced"
      BY <1>1, <3>1, Bounds DEF Join, OpenPort, CatchUp, ClusterTypeOK
    <3> QED BY <2>1, <3>1 DEF Joiner
  <2> QED BY <1>3, <2>2 DEF ReportInv, Joiner
<1>4. CASE UNCHANGED report /\ pc \notin {"verdict", "done"}
  BY <1>4 DEF ReportInv
<1>5. CASE SeeSynced
  BY <1>5 DEF SeeSynced, Goto, ReportInv, clusterVars, Joiner
<1>6. CASE pc' = "verdict" /\ report' \in {"answers", "warning"}
  BY <1>6 DEF ReportInv
<1> QED BY <1>2, <1>3, <1>4, <1>5, <1>6

LEMMA CalmAlways == Spec => []CalmInv
<1>1. Init => CalmInv
  <2> SUFFICES ASSUME Init PROVE CalmInv
    OBVIOUS
  <2>1. PICK c \in Components :
          \A n \in Nodes : comp[n] = IF n \in cohort THEN c ELSE NoComponent
    BY InitServers
  <2>2. c # NoComponent
    BY ComponentsAssumption
  <2>3. SyncedIsIn /\ NoSplitBrain /\ FoundersStay
    BY <2>1, <2>2, InitServers DEF SyncedIsIn, NoSplitBrain, FoundersStay
  <2>4. report = "none"
    BY DEF Init
  <2> QED BY <2>3, <2>4 DEF CalmInv, ReportInv
<1>2. ASSUME TypeInv, CalmInv, [Next]_vars PROVE CalmInv'
  <2> SUFFICES ASSUME died' = {}
               PROVE  (SyncedIsIn /\ NoSplitBrain /\ FoundersStay /\ ReportInv)'
    BY DEF CalmInv
  <2>1. SyncedIsIn /\ NoSplitBrain /\ FoundersStay /\ ReportInv
    BY <1>2, CalmChange DEF CalmInv
  <2> QED BY <1>2, <2>1, MembersStep, ReportStep
<1> QED BY <1>1, <1>2, TypeAlways, PTL DEF Spec

\* Without a crash the founders that answered at the start stay in one primary
\* component, but for the node that is shut down: its loss is announced, so that
\* even the last of two members keeps its quorum.
THEOREM PrimaryKeptTheorem == Spec => []PrimaryKept
<1>1. TypeInv /\ CalmInv => PrimaryKept
  BY DEF TypeInv, TypeOK, CalmInv, FoundersStay, NoSplitBrain, PrimaryKept
<1> QED BY <1>1, TypeAlways, CalmAlways, PTL

LEMMA FirstInCohort == Spec => [](1 \in cohort)
<1>1. Init => 1 \in cohort
  BY InitServers
<1>2. 1 \in cohort /\ [Next]_vars => (1 \in cohort)'
  BY ServerChange
<1> QED BY <1>1, <1>2, PTL DEF Spec

\* Without a crash a join that galera_startup_check reports as Synced is one, into
\* the component of node 1, and stays one to the end of the test.
THEOREM JoinReportExactTheorem == Spec => []JoinReportExact
<1>1. ASSUME TypeInv, CalmInv, 1 \in cohort, died = {}, report = "synced"
      PROVE  /\ proc[Joiner] = "synced" /\ comp[Joiner] # NoComponent
             /\ comp[Joiner] = comp[1]
  <2>1. proc[Joiner] = "synced" /\ comp[Joiner] # NoComponent
    BY <1>1, Bounds DEF CalmInv, ReportInv, SyncedIsIn
  <2>2. comp[1] # NoComponent
    BY <1>1, Bounds DEF CalmInv, FoundersStay
  <2> QED BY <1>1, <2>1, <2>2, Bounds DEF CalmInv, NoSplitBrain
<1>2. TypeInv /\ CalmInv /\ 1 \in cohort => JoinReportExact
  BY <1>1 DEF JoinReportExact
<1> QED BY <1>2, TypeAlways, CalmAlways, FirstInCohort, PTL

-------------------------------------------------------------------------------
(* The script is bounded *)

\* How many steps of the script can still follow at most: every wait is counted, and
\* no phase comes back but for the preparation, which counts its databases.
StepsLeft ==
  CASE pc = "done"        -> 0
    [] pc = "verdict"     -> 1
    [] pc = "check"       -> SyncLimit - tries + 1
    [] pc = "join"        -> SyncLimit + 2
    [] pc = "port"        -> SyncLimit + 3
    [] pc = "address"     -> SyncLimit + 4
    [] pc = "prepare"     -> IF round > 0 THEN SyncLimit + 8 - round
                             ELSE SyncLimit + PingLimit + Founders + 14
    [] pc = "unloadAgain" -> SyncLimit + 8
    [] pc = "ping"        -> SyncLimit + PingLimit - tries + 8
    [] pc = "restart"     -> SyncLimit + PingLimit + 9
    [] pc = "unload"      -> SyncLimit + PingLimit + 10
    [] pc = "shutdown"    -> SyncLimit + PingLimit + 11
    [] pc = "flow"        -> SyncLimit + PingLimit + Founders - round + 12
    [] pc = "capture"     -> SyncLimit + PingLimit + Founders + 12
    [] pc = "launch"      -> SyncLimit + PingLimit + Founders + 13

LEMMA Counted ==
  ASSUME TypeInv
  PROVE  /\ PingLimit \in Nat \ {0} /\ SyncLimit \in Nat \ {0} /\ Founders \in Nat
         /\ pc \in Phases /\ round \in Nat /\ round <= Founders /\ tries \in Nat
         /\ pc = "prepare" => round <= 3
         /\ pc = "ping" => tries < PingLimit
         /\ pc = "check" => tries < SyncLimit
<1> USE DEF TypeInv, TypeOK
<1>1. pc = "prepare" => round <= 3
  BY DEF RoundInv
<1>2. pc = "ping" => tries < PingLimit
  OBVIOUS
<1>3. pc = "check" => tries < SyncLimit
  OBVIOUS
<1> QED BY <1>1, <1>2, <1>3, Bounds, PingLimitAssumption, SyncLimitAssumption

LEMMA StepsNat == ASSUME TypeInv PROVE StepsLeft \in Nat
  BY Counted DEF StepsLeft, Phases

LEMMA StepsFewer ==
  ASSUME TypeInv, ScriptStep
  PROVE  StepsLeft' < StepsLeft
<1> USE Counted DEF StepsLeft, Goto, Exit
<1>1. CASE Prepare
  <2>1. \/ round = 0 /\ pc' = "launch"
        \/ round \in 1..2 /\ pc' = "prepare" /\ round' = round + 1
        \/ round = 3 /\ pc' = "address"
        \/ pc' = "done"
    <3>1. round = 0 \/ round \in 1..2 \/ round = 3
      BY <1>1 DEF Prepare
    <3> QED BY <1>1, <3>1 DEF Prepare
  <2>2. pc = "prepare"
    BY <1>1 DEF Prepare
  <2> QED BY <2>1, <2>2
<1>2. CASE LaunchLoad \/ CapturePid
  BY <1>2 DEF LaunchLoad, CapturePid
<1>3. CASE FlowControl
  BY <1>3 DEF FlowControl
<1>4. CASE ShutdownVictim \/ KillLoad \/ RestartVictim
  BY <1>4 DEF ShutdownVictim, KillLoad, RestartVictim
<1>5. CASE PingVictim
  BY <1>5 DEF PingVictim
<1>6. CASE ReadAddress \/ ReadPort \/ LaunchJoiner
  BY <1>6 DEF ReadAddress, ReadPort, LaunchJoiner
<1>7. CASE SeeSynced \/ Verdict
  BY <1>7 DEF SeeSynced, Verdict
<1>8. CASE NotSynced
  BY <1>8 DEF NotSynced
<1> QED BY <1>1, <1>2, <1>3, <1>4, <1>5, <1>6, <1>7, <1>8 DEF ScriptStep

\* The safety half of TestEnds: whatever the servers do, the script takes no more steps
\* than its limits add up to.
THEOREM BoundedTheorem ==
  Spec => /\ [](StepsLeft \in Nat)
          /\ [][StepsLeft' < StepsLeft \/ UNCHANGED <<pc, round, tries>>]_vars
<1>1. ASSUME TypeInv, [Next]_vars
      PROVE  StepsLeft' < StepsLeft \/ UNCHANGED <<pc, round, tries>>
  BY <1>1, StepsFewer DEF Next, ServersByThemselves, LoadByItself, scriptVars, vars
<1> QED BY <1>1, StepsNat, TypeAlways, PTL DEF Spec

===============================================================================
