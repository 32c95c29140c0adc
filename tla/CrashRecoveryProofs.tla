-------------------------- MODULE CrashRecoveryProofs --------------------------
(***************************************************************************)
(* What holds of CrashRecovery for every number of nodes, ping limit and   *)
(* number of sysbench runs; and of PqueryCrashRecovery, the test that      *)
(* kills all servers, for every number of its rounds.                      *)
(***************************************************************************)
EXTENDS CrashRecovery, PqueryCrashRecovery, ClusterProofs

\* A test takes the node down once, multi_restart twice; only multi_restart
\* returns to the load between two rounds.
Rounds ==
  /\ pc = "takedown" => round < 2
  /\ pc = "recapture" => test = "multi_restart"
  /\ pc = "pids" => test = "with_force_kill"
  /\ test # "multi_restart" /\ pc \in {"prepare", "launch", "capture", "pids", "takedown"}
       => round = 0

TypeInv == TypeOK /\ Rounds

\* Between the take-down and the restart of the two shorter tests sysbench is
\* killed, and the victim is already down.
DownInv ==
  pc = "restart" \/ (pc = "unload" /\ test # "multi_restart") => ~Running(Victim)

\* With three members there is no node that founds a component: the victim is
\* not node 1.
MemberInv ==
  /\ {1, N} \subseteq cohort
  /\ SyncedIsIn
  /\ Cardinality(cohort) >= 3 => NoFounder /\ NoSplitBrain
  /\ PrimaryKept

\* In the first two tests nothing follows a reported recovery but the verdict.
RecoveredPhase ==
  recovered =>
    /\ pc \notin {"ping", "sync", "pids"}
    /\ test # "multi_restart" => pc \in {"verdict", "done"}

\* RecoveryMeansRejoined, without the component and up to the next take-down.
RecoveredSynced ==
  recovered /\ pc \notin {"restart", "done"} /\ died = {} /\ Cardinality(cohort) >= 3 =>
    proc[Victim] = "synced"

RecoveryInv == RecoveredPhase /\ RecoveredSynced

\* What sysbench_pid no longer names is gone, for pidof prints every run; and
\* it names nothing that runs once the last kill is over.
CapturedSeen == \A r \in captured : load[r] \notin {"none", "launching"}

LoadInv ==
  /\ CapturedSeen
  /\ captured \cap Visible \subseteq pid
  /\ \/ pc = "verdict"
     \/ test # "multi_restart" /\ pc \in {"restart", "ping", "sync"}
     => captured \cap Visible = {}

-------------------------------------------------------------------------------
(* Type correctness *)

LEMMA InitType == Init => TypeInv
<1> SUFFICES ASSUME Init PROVE TypeInv
  OBVIOUS
<1>1. PICK c \in Components, last \in {"synced", "open"},
          slow \in [2..(N - 1) -> {"synced", "open", "starting", "down"}] :
        /\ proc = [i \in Nodes |-> IF i \in 2..(N - 1) THEN slow[i]
                                    ELSE IF i = 1 THEN "synced" ELSE last]
        /\ cohort = {i \in Nodes : proc[i] \in {"synced", "open"}}
        /\ comp = [i \in Nodes |-> IF i \in cohort THEN c ELSE NoComponent]
        /\ datadir = [i \in Nodes |-> IF i \in cohort THEN "unsafe" ELSE "fresh"]
  BY DEF Init
<1>2. ClusterTypeOK
  BY <1>1 DEF ClusterTypeOK, ProcStates, DatadirStates
<1>3. LoadTypeOK
  BY DEF Init, LoadInit, LoadTypeOK, LoadStates
<1>4. 0 \in 0..(PingLimit - 1)
  BY PingLimitAssumption
<1>5. cohort \subseteq Nodes
  BY <1>1
<1>6. pid \subseteq Runs /\ captured \subseteq Runs /\ died \subseteq Nodes
  BY DEF Init
<1>7. /\ pc = "prepare" /\ test \in Tests /\ round = 0
      /\ pings \in 0..(PingLimit - 1)
  BY <1>4 DEF Init
<1>8. pidRead \in BOOLEAN /\ recovered \in BOOLEAN
  BY DEF Init
<1>9. TypeOK
  BY <1>2, <1>3, <1>5, <1>6, <1>7, <1>8 DEF TypeOK, Phases
<1> QED BY <1>7, <1>9 DEF TypeInv, Rounds

\* Every step leaves the servers alone, takes the victim down, starts it or is
\* a step of the servers.
LEMMA ServerChange ==
  ASSUME [Next]_vars
  PROVE  /\ UNCHANGED <<cohort, test>>
         /\ \/ UNCHANGED <<clusterVars, died>>
            \/ TakeDown /\ Lose({Victim}) /\ UNCHANGED died
            \/ TakeDown /\ Shutdown(Victim) /\ UNCHANGED died
            \/ RestartVictim
            \/ ServersByThemselves
<1>1. CASE Prepare \/ LaunchLoad \/ CapturePid \/ ReadPidFiles \/ KillLoad
  BY <1>1 DEF Prepare, LaunchLoad, CapturePid, ReadPidFiles, KillLoad,
              historyVars, clusterVars
<1>2. CASE PingAnswered \/ PingRefused \/ SeeSynced \/ Recapture \/ Verdict
  BY <1>2 DEF PingAnswered, PingRefused, SeeSynced, Recapture, Verdict,
              historyVars, clusterVars
<1>3. CASE TakeDown
  BY <1>3 DEF TakeDown, KillVictim, historyVars, clusterVars
<1>4. CASE RestartVictim
  BY <1>4 DEF RestartVictim
<1>5. CASE ServersByThemselves
  BY <1>5 DEF ServersByThemselves, scriptVars
<1>6. CASE LoadByItself
  BY <1>6 DEF LoadByItself, historyVars, clusterVars
<1>7. CASE UNCHANGED vars
  BY <1>7 DEF vars, scriptVars, historyVars, clusterVars
<1> QED BY <1>1, <1>2, <1>3, <1>4, <1>5, <1>6, <1>7 DEF Next, ScriptStep

LEMMA ClusterType ==
  ASSUME ClusterTypeOK, [Next]_vars
  PROVE  ClusterTypeOK'
<1>1. CASE UNCHANGED clusterVars
  BY <1>1 DEF clusterVars, ClusterTypeOK
<1>2. CASE Lose({Victim})
  BY <1>2, LoseType
<1>3. CASE Shutdown(Victim)
  BY <1>3 DEF Shutdown, ClusterTypeOK, ProcStates, DatadirStates
<1>4. CASE RestartVictim
  BY <1>4 DEF RestartVictim, Start, ClusterTypeOK, ProcStates
<1>5. CASE ServersByThemselves
  BY <1>5, ServerType DEF ServersByThemselves
<1> QED BY <1>1, <1>2, <1>3, <1>4, <1>5, ServerChange

LEMMA LoadType ==
  ASSUME LoadTypeOK, [Next]_vars
  PROVE  LoadTypeOK'
<1>1. CASE LaunchLoad
  BY <1>1 DEF LaunchLoad, LaunchRun, LoadTypeOK, LoadStates
<1>2. CASE KillLoad
  BY <1>2 DEF KillLoad, KillRuns, LoadTypeOK, LoadStates
<1>3. CASE LoadByItself
  BY <1>3 DEF LoadByItself, LoadStep, LoadTypeOK, LoadStates
<1>4. CASE UNCHANGED load
  BY <1>4 DEF LoadTypeOK
<1>5. LaunchLoad \/ KillLoad \/ LoadByItself \/ UNCHANGED load
  BY DEF Next, ScriptStep, Prepare, CapturePid, ReadPidFiles, TakeDown, RestartVictim,
         PingAnswered, PingRefused, SeeSynced, Recapture, Verdict, ServersByThemselves,
         vars, scriptVars
<1> QED BY <1>1, <1>2, <1>3, <1>4, <1>5

LEMMA TypeStep ==
  ASSUME TypeInv, [Next]_vars
  PROVE  TypeInv'
<1>1. ClusterTypeOK' /\ LoadTypeOK'
  BY ClusterType, LoadType DEF TypeInv, TypeOK
<1>2. Visible \subseteq Runs
  BY DEF Visible
<1>3. 0 \in 0..(PingLimit - 1)
  BY PingLimitAssumption
<1> USE <1>1 DEF TypeInv, TypeOK, Rounds, Phases, Tests
<1>4. CASE Prepare \/ LaunchLoad
  BY <1>4 DEF Prepare, LaunchLoad, historyVars, Exit
<1>5. CASE CapturePid
  BY <1>2, <1>5 DEF CapturePid, Pidof, AfterCapture
<1>6. CASE ReadPidFiles
  <2>1. pidRead' \in BOOLEAN
    BY <1>6 DEF ReadPidFiles, Answers
  <2> QED BY <1>6, <2>1 DEF ReadPidFiles, historyVars
<1>7. CASE TakeDown
  BY <1>7 DEF TakeDown, AfterTakeDown, Exit, historyVars
<1>8. CASE KillLoad
  BY <1>8 DEF KillLoad, AfterUnload, historyVars
<1>9. CASE RestartVictim
  BY <1>9, <1>3 DEF RestartVictim
<1>10. CASE PingAnswered \/ SeeSynced
  BY <1>10 DEF PingAnswered, SeeSynced, AfterStartupCheck, historyVars
<1>11. CASE PingRefused
  <2>1. pings + 1 < PingLimit => pings + 1 \in 0..(PingLimit - 1)
    BY PingLimitAssumption
  <2> QED BY <1>11, <2>1 DEF PingRefused, AfterStartupCheck, historyVars
<1>12. CASE Recapture \/ Verdict
  BY <1>2, <1>12 DEF Recapture, Pidof, Verdict, Exit, historyVars
<1>13. CASE ServersByThemselves
  BY <1>13 DEF ServersByThemselves, scriptVars
<1>14. CASE LoadByItself
  BY <1>14 DEF LoadByItself, historyVars
<1>15. CASE UNCHANGED vars
  BY <1>15 DEF vars, scriptVars, historyVars
<1> QED BY <1>4, <1>5, <1>6, <1>7, <1>8, <1>9, <1>10, <1>11, <1>12, <1>13, <1>14,
           <1>15 DEF Next, ScriptStep

LEMMA TypeAlways == Spec => []TypeInv
  BY InitType, TypeStep, PTL DEF Spec

\* Type correctness of the script, the sysbench runs and the servers.
THEOREM TypeCorrect == Spec => []TypeOK
<1>1. TypeInv => TypeOK
  BY DEF TypeInv
<1> QED BY <1>1, TypeAlways, PTL

-------------------------------------------------------------------------------
(* The victim is down when it is started *)

LEMMA VictimLost ==
  ASSUME ClusterTypeOK, Lose({Victim}) \/ Shutdown(Victim)
  PROVE  ~Running(Victim)'
<1>1. CASE Lose({Victim})
  BY <1>1, LoseFacts, NodeBounds DEF Victim, Running
<1>2. CASE Shutdown(Victim)
  BY <1>2, NodeBounds DEF Shutdown, ClusterTypeOK, Victim, Running
<1> QED BY <1>1, <1>2

LEMMA DownStep ==
  ASSUME TypeInv, DownInv, [Next]_vars
  PROVE  DownInv'
<1>1. CASE TakeDown
  <2>1. CASE pc' = "done"
    BY <2>1 DEF DownInv
  <2>2. CASE pc' # "done"
    <3>1. Lose({Victim}) \/ Shutdown(Victim)
      BY <1>1, <2>2 DEF TakeDown, KillVictim, Exit
    <3> QED BY <3>1, VictimLost DEF DownInv, TypeInv, TypeOK
  <2> QED BY <2>1, <2>2
<1>2. CASE ServersByThemselves
  <2>1. Running(Victim)' => Running(Victim)
    BY <1>2, ServerStartsNothing, NodeBounds
       DEF ServersByThemselves, TypeInv, TypeOK, Victim
  <2> QED BY <1>2, <2>1 DEF ServersByThemselves, scriptVars, DownInv
<1>3. CASE RestartVictim
  BY <1>3 DEF RestartVictim, DownInv
<1>4. CASE KillLoad
  BY <1>4 DEF KillLoad, AfterUnload, DownInv, clusterVars, Running
<1>5. CASE CapturePid
  BY <1>5 DEF CapturePid, AfterCapture, DownInv, TypeInv, Rounds
<1>6. CASE Recapture
  BY <1>6 DEF Recapture, DownInv, TypeInv, Rounds
<1>7. CASE PingAnswered \/ PingRefused \/ SeeSynced
  BY <1>7 DEF PingAnswered, PingRefused, SeeSynced, AfterStartupCheck, DownInv
<1>8. CASE Prepare \/ LaunchLoad \/ ReadPidFiles \/ Verdict
  BY <1>8 DEF Prepare, LaunchLoad, ReadPidFiles, Verdict, Exit, DownInv
<1>9. CASE LoadByItself \/ UNCHANGED vars
  BY <1>9 DEF LoadByItself, vars, scriptVars, clusterVars, DownInv, Running
<1> QED BY <1>1, <1>2, <1>3, <1>4, <1>5, <1>6, <1>7, <1>8, <1>9 DEF Next, ScriptStep

\* The server is started only when the one before it is gone.
THEOREM VictimDownTheorem == Spec => []VictimDown
<1>1. Init => DownInv
  BY DEF Init, DownInv
<1>2. DownInv => VictimDown
  BY DEF DownInv, VictimDown
<1> QED BY <1>1, <1>2, DownStep, TypeAlways, PTL DEF Spec

-------------------------------------------------------------------------------
(* The members *)

LEMMA ThreeNodes ==
  ASSUME cohort \subseteq Nodes, Cardinality(cohort) >= 3
  PROVE  /\ N >= 3 /\ Victim # 1
         /\ Cardinality(cohort \ {Victim}) >= 2
<1>1. IsFiniteSet(cohort) /\ Cardinality(cohort) <= N
  BY NodesFinite, FS_Subset
<1>2. Cardinality(cohort) \in Nat
  BY <1>1, FS_CardinalityType
<1>3. N >= 3
  BY <1>1, <1>2, NodeBounds
<1>4. Cardinality(cohort \ {Victim}) >= 2
  <2>1. /\ Cardinality(cohort \ {Victim}) \in Nat
        /\ Cardinality(cohort) <= Cardinality(cohort \ {Victim}) + 1
    BY <1>1, RemoveOne
  <2> QED BY <2>1, <1>2
<1> QED BY <1>3, <1>4 DEF Victim

LEMMA InitMembers == Init => MemberInv
<1> SUFFICES ASSUME Init PROVE MemberInv
  OBVIOUS
<1>1. PICK c \in Components, last \in {"synced", "open"},
          slow \in [2..(N - 1) -> {"synced", "open", "starting", "down"}] :
        /\ proc = [i \in Nodes |-> IF i \in 2..(N - 1) THEN slow[i]
                                    ELSE IF i = 1 THEN "synced" ELSE last]
        /\ cohort = {i \in Nodes : proc[i] \in {"synced", "open"}}
        /\ comp = [i \in Nodes |-> IF i \in cohort THEN c ELSE NoComponent]
        /\ datadir = [i \in Nodes |-> IF i \in cohort THEN "unsafe" ELSE "fresh"]
  BY DEF Init
<1>2. c # NoComponent
  BY ComponentsAssumption
<1>3. {1, N} \subseteq cohort
  BY <1>1, NodeBounds
<1>4. SyncedIsIn /\ NoFounder /\ NoSplitBrain
  BY <1>1, <1>2 DEF SyncedIsIn, NoFounder, NoSplitBrain
<1>5. PrimaryKept
  BY <1>1, <1>2, <1>3 DEF PrimaryKept, Running
<1> QED BY <1>3, <1>4, <1>5 DEF MemberInv

LEMMA SyncedStep ==
  ASSUME TypeInv, SyncedIsIn, [Next]_vars
  PROVE  SyncedIsIn'
<1> USE DEF TypeInv, TypeOK
<1>1. CASE UNCHANGED clusterVars
  BY <1>1 DEF clusterVars, SyncedIsIn
<1>2. CASE Lose({Victim})
  BY <1>2, LoseSynced
<1>3. CASE Shutdown(Victim)
  BY <1>3 DEF Shutdown, ClusterTypeOK, SyncedIsIn
<1>4. CASE RestartVictim
  BY <1>4 DEF RestartVictim, Start, ClusterTypeOK, SyncedIsIn
<1>5. CASE ServersByThemselves
  BY <1>5, ServerSynced DEF ServersByThemselves
<1> QED BY <1>1, <1>2, <1>3, <1>4, <1>5, ServerChange

\* With three members no component is founded beside the one there is.
LEMMA OneComponentStep ==
  ASSUME TypeInv, NoFounder, NoSplitBrain, Victim # 1, [Next]_vars
  PROVE  NoFounder' /\ NoSplitBrain'
<1> USE DEF TypeInv, TypeOK
<1>1. CASE UNCHANGED clusterVars
  BY <1>1 DEF clusterVars, NoFounder, NoSplitBrain
<1>2. CASE Lose({Victim})
  BY <1>2, LoseFacts DEF NoFounder, NoSplitBrain
<1>3. CASE Shutdown(Victim)
  BY <1>3 DEF Shutdown, ClusterTypeOK, NoFounder, NoSplitBrain
<1>4. CASE RestartVictim
  BY <1>4 DEF RestartVictim, Start, ClusterTypeOK, NoFounder, NoSplitBrain
<1>5. CASE ServersByThemselves
  BY <1>5, ServerOneComponent DEF ServersByThemselves
<1> QED BY <1>1, <1>2, <1>3, <1>4, <1>5, ServerChange

\* The members but the victim: a take-down leaves two of them or more, and only
\* a crash of one of them would cost them their component.
LEMMA PrimaryStep ==
  ASSUME TypeInv, MemberInv, [Next]_vars
  PROVE  PrimaryKept'
<1> DEFINE Rest == cohort \ {Victim}
<1> USE DEF TypeInv, TypeOK
<1>1. UNCHANGED cohort
  BY ServerChange
<1> SUFFICES ASSUME Cardinality(cohort) >= 3, (died \subseteq {Victim})'
             PROVE  \A i \in Rest :
                      /\ Running(i)' /\ comp'[i] # NoComponent /\ comp'[i] = comp'[1]
  BY <1>1 DEF PrimaryKept
<1>2. /\ Rest \subseteq Nodes /\ Victim \in Nodes /\ Victim \notin Rest /\ 1 \in Rest
      /\ Cardinality(Rest) >= 2
  BY ThreeNodes, NodeBounds DEF MemberInv, Victim
<1>3. ASSUME died \subseteq {Victim}
      PROVE  \A i \in Rest : Running(i) /\ comp[i] # NoComponent /\ comp[i] = comp[1]
  BY <1>3 DEF MemberInv, PrimaryKept
<1> HIDE DEF Rest
<1>4. CASE UNCHANGED <<clusterVars, died>>
  BY <1>3, <1>4 DEF clusterVars, Running
<1>5. ASSUME Lose({Victim}), died \subseteq {Victim}
      PROVE  \A i \in Rest : Running(i)' /\ comp'[i] # NoComponent /\ comp'[i] = comp'[1]
  <2>1. \A i \in Rest : proc'[i] = proc[i] /\ comp'[i] = comp[1]
    BY <1>2, <1>3, <1>5, LoseOne
  <2> QED BY <1>2, <1>3, <1>5, <2>1 DEF Running
<1>6. CASE Shutdown(Victim) /\ UNCHANGED died
  BY <1>2, <1>3, <1>6 DEF Shutdown, ClusterTypeOK, Running
<1>7. CASE RestartVictim
  BY <1>2, <1>3, <1>7 DEF RestartVictim, Start, ClusterTypeOK, Running
<1>8. CASE ServersByThemselves
  <2>1. died \subseteq {Victim}
    BY <1>8 DEF ServersByThemselves
  <2>2. PICK i \in Nodes :
          Bootstrap(i) \/ Join(i) \/ OpenPort(i) \/ CatchUp(i) \/ Die(i)
    BY <1>8 DEF ServersByThemselves, ServerStep
  <2>3. ~Bootstrap(i)
    BY DEF Bootstrap, MemberInv, NoFounder
  <2>4. CASE Join(i)
    BY <1>2, <1>3, <2>1, <2>4 DEF Join, ClusterTypeOK, Running
  <2>5. CASE OpenPort(i) \/ CatchUp(i)
    BY <1>2, <1>3, <2>1, <2>5 DEF OpenPort, CatchUp, ClusterTypeOK, Running
  <2>6. CASE Die(i)
    <3>1. Running(i) /\ proc'[i] = "down"
      BY <2>6, LoseFacts DEF Die
    <3>2. i = Victim
      BY <1>8, <3>1 DEF ServersByThemselves
    <3> QED BY <1>5, <2>1, <2>6, <3>2 DEF Die
  <2> QED BY <2>2, <2>3, <2>4, <2>5, <2>6
<1> QED BY <1>4, <1>5, <1>6, <1>7, <1>8, ServerChange

LEMMA MemberStep ==
  ASSUME TypeInv, MemberInv, [Next]_vars
  PROVE  MemberInv'
<1>1. UNCHANGED cohort
  BY ServerChange
<1>2. ASSUME Cardinality(cohort) >= 3
      PROVE  NoFounder' /\ NoSplitBrain'
  <2>1. Victim # 1
    BY <1>2, ThreeNodes DEF TypeInv, TypeOK
  <2> QED BY <1>2, <2>1, OneComponentStep DEF MemberInv
<1>3. SyncedIsIn' /\ PrimaryKept'
  BY SyncedStep, PrimaryStep DEF MemberInv
<1> QED BY <1>1, <1>2, <1>3 DEF MemberInv

LEMMA MemberAlways == Spec => []MemberInv
  BY InitMembers, MemberStep, TypeAlways, PTL DEF Spec

\* However many nodes there are, taking the last one down and up again leaves
\* all other members in the primary component.
THEOREM PrimaryKeptTheorem == Spec => []PrimaryKept
<1>1. MemberInv => PrimaryKept
  BY DEF MemberInv
<1> QED BY <1>1, MemberAlways, PTL

\* With two nodes or more, however few of them are members, no component is founded
\* in a test: the victim leaves the one there is and comes back to the same, or the
\* component collapses and stays away.
THEOREM NoFounderTheorem == ASSUME N >= 2 PROVE Spec => [][KeepsComponent]_members
<1>1. Victim \in Nodes /\ Victim # 1
  BY NodeBounds DEF Victim
<1>2. Init => NoFounder /\ NoSplitBrain
  BY DEF Init, NoFounder, NoSplitBrain
<1>3. ASSUME TypeInv, NoFounder, NoSplitBrain, [Next]_vars
      PROVE  NoFounder' /\ NoSplitBrain' /\ [KeepsComponent]_members
  <2>1. NoFounder' /\ NoSplitBrain' /\ ClusterTypeOK
    BY <1>1, <1>3, OneComponentStep DEF TypeInv, TypeOK
  <2>2. CASE UNCHANGED clusterVars
    BY <2>1, <2>2 DEF clusterVars, members
  <2>3. CASE Lose({Victim})
    BY <1>1, <1>3, <2>1, <2>3, LoseKeeps
  <2>4. CASE Shutdown(Victim)
    BY <1>1, <2>1, <2>4, ShutdownKeeps
  <2>5. CASE RestartVictim
    BY <2>1, <2>5 DEF RestartVictim, Start, members
  <2>6. CASE ServersByThemselves
    BY <1>3, <2>1, <2>6, NoFounderKeeps DEF ServersByThemselves
  <2> QED BY <1>3, <2>2, <2>3, <2>4, <2>5, <2>6, ServerChange
<1> QED BY <1>2, <1>3, TypeAlways, PTL DEF Spec

LEMMA VictimServerStep ==
  ASSUME TypeInv, ServerInv, [Next]_vars
  PROVE  ServerInv' /\ [PC!Next]_members
<1>1. Victim \in Nodes
  BY NodeBounds DEF Victim
<1>2. CASE UNCHANGED clusterVars
  BY <1>2, ServerInvClusterUnchanged DEF clusterVars, members
<1>3. CASE Lose({Victim})
  BY <1>1, <1>3, LoseSafety, LoseKeeps, KeepsImplements DEF ServerInv
<1>4. CASE Shutdown(Victim)
  BY <1>1, <1>4, ShutdownSafety, ShutdownKeeps, KeepsImplements DEF ServerInv
<1>5. CASE RestartVictim
  <2>1. Victim = 1 => Running(1) \/ members = {}
    BY DEF Victim, Nodes, ServerInv, DownIsOut, members
  <2>2. Start(Victim, IF Victim = 1 THEN "bootstrapping" ELSE "starting")
    BY <1>5 DEF RestartVictim
  <2>3. ServerInv'
    BY <1>1, <2>1, <2>2, StartSafety
  <2> QED BY <2>2, <2>3 DEF Start, members
<1>6. CASE ServersByThemselves
  BY <1>6, ServerSafety, ServerImplements DEF ServersByThemselves
<1> QED BY <1>2, <1>3, <1>4, <1>5, <1>6, ServerChange

\* A single node bootstraps when it is started again.  Whatever the number of
\* nodes, a test implements PrimaryComponent from the state it begins in.
THEOREM ComponentTheorem == Spec => [][PC!Next]_members
<1>1. Init => ServerInv
  <2> SUFFICES ASSUME Init PROVE ServerInv
    OBVIOUS
  <2>1. ClusterTypeOK
    BY InitType DEF TypeInv, TypeOK
  <2>2. \A i \in Nodes : proc[i] # "bootstrapping" /\ (~Running(i) => comp[i] = NoComponent)
    BY DEF Init, Running
  <2>3. proc[1] = "synced" /\ NoSplitBrain
    BY NodeBounds DEF Init, NoSplitBrain
  <2> QED BY <2>1, <2>2, <2>3 DEF ServerInv, DownIsOut, FounderAlone
<1> QED BY <1>1, VictimServerStep, TypeAlways, PTL DEF Spec

-------------------------------------------------------------------------------
(* What startup_check has reported *)

LEMMA PhaseStep ==
  ASSUME TypeInv, RecoveredPhase, [Next]_vars
  PROVE  RecoveredPhase'
<1> USE DEF RecoveredPhase, TypeInv, Rounds
<1>1. CASE Prepare \/ LaunchLoad \/ ReadPidFiles \/ Verdict
  BY <1>1 DEF Prepare, LaunchLoad, ReadPidFiles, Verdict, Exit, historyVars
<1>2. CASE CapturePid \/ Recapture
  BY <1>2 DEF CapturePid, Recapture, AfterCapture, TypeOK, Tests
<1>3. CASE TakeDown
  BY <1>3 DEF TakeDown, AfterTakeDown, Exit, historyVars
<1>4. CASE KillLoad
  BY <1>4 DEF KillLoad, AfterUnload, historyVars
<1>5. CASE RestartVictim
  BY <1>5 DEF RestartVictim
<1>6. CASE PingAnswered \/ PingRefused \/ SeeSynced
  BY <1>6 DEF PingAnswered, PingRefused, SeeSynced, AfterStartupCheck, historyVars
<1>7. CASE ServersByThemselves \/ LoadByItself \/ UNCHANGED vars
  BY <1>7 DEF ServersByThemselves, LoadByItself, scriptVars, historyVars, vars
<1> QED BY <1>1, <1>2, <1>3, <1>4, <1>5, <1>6, <1>7 DEF Next, ScriptStep

\* No step but a take-down, a restart or a crash costs a synced victim Synced.
LEMMA SyncedStays ==
  ASSUME TypeInv, SyncedIsIn, proc[Victim] = "synced", [Next]_vars, (died = {})',
         ~TakeDown, ~RestartVictim
  PROVE  proc'[Victim] = "synced" /\ died = {}
<1> USE DEF TypeInv, TypeOK
<1>1. CASE UNCHANGED <<clusterVars, died>>
  BY <1>1 DEF clusterVars
<1>2. CASE ServersByThemselves
  <2>1. died = {} /\ \A i \in Nodes : Running(i) => proc'[i] # "down"
    BY <1>2 DEF ServersByThemselves
  <2>2. PICK i \in Nodes :
          Bootstrap(i) \/ Join(i) \/ OpenPort(i) \/ CatchUp(i) \/ Die(i)
    BY <1>2 DEF ServersByThemselves, ServerStep
  <2>3. ~Die(i)
    BY <2>1, LoseFacts DEF Die
  <2>4. proc'[Victim] = "synced"
    BY <2>2, <2>3, NodeBounds
       DEF Victim, Bootstrap, Join, OpenPort, CatchUp, ClusterTypeOK
  <2> QED BY <2>1, <2>4
<1> QED BY <1>1, <1>2, ServerChange

LEMMA RecoveredStep ==
  ASSUME TypeInv, MemberInv, RecoveredPhase, RecoveredSynced, [Next]_vars
  PROVE  RecoveredSynced'
<1> SUFFICES ASSUME recovered', (pc \notin {"restart", "done"})', (died = {})',
                    (Cardinality(cohort) >= 3)'
             PROVE  proc'[Victim] = "synced"
  BY DEF RecoveredSynced
<1>1. Cardinality(cohort) >= 3
  BY ServerChange
<1>2. ~RestartVictim
  BY DEF RestartVictim
<1>3. ~TakeDown
  BY DEF TakeDown, AfterTakeDown, Exit, historyVars, RecoveredPhase
<1>4. CASE SeeSynced
  BY <1>4 DEF SeeSynced, clusterVars
<1>5. CASE ~SeeSynced
  <2>1. UNCHANGED recovered /\ (pc = pc' \/ ScriptStep)
    BY <1>2, <1>5 DEF Next, ScriptStep, Prepare, LaunchLoad, CapturePid, ReadPidFiles,
       TakeDown, KillLoad, PingAnswered, PingRefused, Recapture, Verdict,
       ServersByThemselves, LoadByItself, scriptVars, historyVars, vars
  <2>2. pc \notin {"restart", "done"}
    BY <1>2, <2>1 DEF ScriptStep, Prepare, LaunchLoad, CapturePid, ReadPidFiles,
       TakeDown, KillLoad, PingAnswered, PingRefused, SeeSynced, Recapture, Verdict
  <2>3. died = {}
    BY <1>2, ServerChange DEF ServersByThemselves
  <2>4. proc[Victim] = "synced"
    BY <1>1, <2>1, <2>2, <2>3 DEF RecoveredSynced
  <2> QED BY <1>2, <1>3, <2>4, SyncedStays DEF MemberInv
<1> QED BY <1>4, <1>5

\* A startup_check that reports success is right, and stays right until the next
\* take-down: the victim is Synced in node 1's component.
THEOREM RecoveryTheorem == Spec => []RecoveryMeansRejoined
<1>1. Init => RecoveryInv
  BY DEF Init, RecoveryInv, RecoveredPhase, RecoveredSynced
<1>2. TypeInv /\ MemberInv /\ RecoveryInv /\ [Next]_vars => RecoveryInv'
  BY PhaseStep, RecoveredStep DEF RecoveryInv
<1>3. TypeInv /\ MemberInv /\ RecoveryInv => RecoveryMeansRejoined
  BY NodeBounds DEF RecoveryInv, RecoveredSynced, RecoveryMeansRejoined, MemberInv,
     SyncedIsIn, NoSplitBrain, PrimaryKept, Victim, TypeInv, TypeOK, RecoveredPhase
<1> QED BY <1>1, <1>2, <1>3, TypeAlways, MemberAlways, PTL DEF Spec

-------------------------------------------------------------------------------
(* The sysbench runs *)

LEMMA PidofSeesAll ==
  ASSUME LoadInv, Pidof, UNCHANGED load
  PROVE  CapturedSeen' /\ (captured \cap Visible \subseteq pid)'
  BY DEF LoadInv, CapturedSeen, Pidof, Visible

\* A run that was captured has been seen running: it does not start again.
LEMMA SeenStays ==
  ASSUME LoadTypeOK, captured \subseteq Runs, LoadInv, UNCHANGED <<captured, pid>>,
         LaunchRun \/ LoadStep \/ KillRuns(pid) \/ UNCHANGED load
  PROVE  /\ CapturedSeen' /\ (captured \cap Visible \subseteq pid)'
         /\ (captured \cap Visible)' \subseteq captured \cap Visible
<1> USE DEF LoadInv, CapturedSeen, LoadTypeOK, Visible
<1>1. CASE LaunchRun
  BY <1>1 DEF LaunchRun
<1>2. CASE LoadStep
  BY <1>2 DEF LoadStep
<1>3. CASE KillRuns(pid)
  BY <1>3 DEF KillRuns
<1>4. CASE UNCHANGED load
  BY <1>4
<1> QED BY <1>1, <1>2, <1>3, <1>4

LEMMA LoadInvStep ==
  ASSUME TypeInv, LoadInv, [Next]_vars
  PROVE  LoadInv'
<1>1. CASE CapturePid \/ Recapture
  <2>1. Pidof /\ UNCHANGED load
    BY <1>1 DEF CapturePid, Recapture
  <2>2. pc' \notin {"verdict", "restart", "ping", "sync"}
    BY <1>1 DEF CapturePid, Recapture, AfterCapture
  <2> QED BY <2>1, <2>2, PidofSeesAll DEF LoadInv
<1>2. CASE KillLoad
  <2>1. CapturedSeen' /\ (captured \cap Visible \subseteq pid)'
    BY <1>2, SeenStays DEF KillLoad, historyVars, TypeInv, TypeOK
  <2>2. (captured \cap Visible)' = {}
    BY <1>2 DEF KillLoad, KillRuns, historyVars, LoadInv, Visible, TypeInv, TypeOK, LoadTypeOK
  <2> QED BY <2>1, <2>2 DEF LoadInv
<1>3. CASE ~(CapturePid \/ Recapture \/ KillLoad)
  <2>1. UNCHANGED <<captured, pid>> /\ (LaunchRun \/ LoadStep \/ UNCHANGED load)
    BY <1>3 DEF Next, ScriptStep, Prepare, LaunchLoad, ReadPidFiles, TakeDown,
       RestartVictim, PingAnswered, PingRefused, SeeSynced, Verdict,
       ServersByThemselves, LoadByItself, scriptVars, historyVars, vars
  <2>2. UNCHANGED test
    BY ServerChange
  <2>3. \/ pc' = "verdict"
        \/ test # "multi_restart" /\ pc' \in {"restart", "ping", "sync"}
        => \/ pc = "verdict"
           \/ test # "multi_restart" /\ pc \in {"restart", "ping", "sync"}
    BY <1>3 DEF Next, ScriptStep, Prepare, LaunchLoad, ReadPidFiles, TakeDown,
       AfterTakeDown, RestartVictim, PingAnswered, PingRefused, SeeSynced,
       AfterStartupCheck, Verdict, Exit, ServersByThemselves, LoadByItself, scriptVars,
       historyVars, vars
  <2>4. /\ CapturedSeen' /\ (captured \cap Visible \subseteq pid)'
        /\ (captured \cap Visible)' \subseteq captured \cap Visible
    BY <2>1, SeenStays DEF TypeInv, TypeOK
  <2> QED BY <2>2, <2>3, <2>4 DEF LoadInv
<1> QED BY <1>1, <1>2, <1>3

\* However often sysbench_pid is overwritten, no run it has named is writing when
\* the tables are compared.
THEOREM CapturedLoadTheorem == Spec => []CapturedLoadGone
<1>1. Init => LoadInv
  BY DEF Init, LoadInv, CapturedSeen
<1>2. LoadInv => CapturedLoadGone
  BY DEF LoadInv, CapturedLoadGone
<1> QED BY <1>1, <1>2, LoadInvStep, TypeAlways, PTL DEF Spec

-------------------------------------------------------------------------------
(* The script is bounded *)

\* How many steps of the script can still follow at most.  A round restarts the victim;
\* the two shorter tests kill sysbench before that, multi_restart after it.
RoundSteps == PingLimit + 12
RoundsLeft ==
  CASE round = 0 -> RoundSteps + RoundSteps [] round = 1 -> RoundSteps [] round = 2 -> 0
PhaseSteps ==
  CASE pc = "done"      -> 0
    [] pc \in {"takedown", "verdict"} -> 1
    [] pc = "pids"      -> 2
    [] pc = "unload"    -> IF test = "multi_restart" THEN 2 ELSE PingLimit + 10
    [] pc = "capture"   -> 3
    [] pc = "launch"    -> 4
    [] pc = "prepare"   -> 5
    [] pc = "recapture" -> 6
    [] pc = "sync"      -> 7
    [] pc = "ping"      -> PingLimit - pings + 8
    [] pc = "restart"   -> PingLimit + 9
StepsLeft == RoundsLeft + PhaseSteps

LEMMA Counted ==
  ASSUME TypeInv
  PROVE  /\ PingLimit \in Nat \ {0} /\ pc \in Phases /\ pings \in Nat /\ pings < PingLimit
         /\ round \in {0, 1, 2} /\ test \in Tests
  BY PingLimitAssumption DEF TypeInv, TypeOK

LEMMA StepsNat == ASSUME TypeInv PROVE StepsLeft \in Nat
<1>1. RoundsLeft \in Nat
  BY Counted DEF RoundsLeft, RoundSteps
<1>2. PhaseSteps \in Nat
  BY Counted DEF PhaseSteps, Phases
<1> QED BY <1>1, <1>2 DEF StepsLeft

LEMMA StepsFewer ==
  ASSUME TypeInv, ScriptStep
  PROVE  StepsLeft' < StepsLeft
<1>1. CASE TakeDown /\ round' = round + 1
  <2>1. pc = "takedown" /\ round < 2 /\ pc' \in {"restart", "unload"} /\ UNCHANGED <<test, pings>>
        /\ (pc' = "unload" => test # "multi_restart")
    BY <1>1 DEF TakeDown, AfterTakeDown, TypeInv, Rounds
  <2> QED BY <1>1, <2>1, Counted DEF StepsLeft, RoundsLeft, RoundSteps, PhaseSteps
<1>2. CASE ~(TakeDown /\ round' = round + 1)
  <2>1. UNCHANGED <<test, round>>
    BY <1>2 DEF ScriptStep, Prepare, LaunchLoad, CapturePid, ReadPidFiles, TakeDown, KillLoad,
         RestartVictim, PingAnswered, PingRefused, SeeSynced, Recapture, Verdict
  <2>2. PhaseSteps' < PhaseSteps
    <3> USE Counted, <2>1 DEF PhaseSteps, Exit, TypeInv, Rounds
    <3>1. CASE Prepare \/ LaunchLoad
      BY <3>1 DEF Prepare, LaunchLoad
    <3>2. CASE CapturePid
      BY <3>2 DEF CapturePid, AfterCapture
    <3>3. CASE ReadPidFiles \/ TakeDown
      BY <1>2, <3>3 DEF ReadPidFiles, TakeDown
    <3>4. CASE KillLoad
      BY <3>4 DEF KillLoad, AfterUnload
    <3>5. CASE RestartVictim
      BY <3>5 DEF RestartVictim
    <3>6. CASE PingAnswered \/ PingRefused \/ SeeSynced
      BY <3>6 DEF PingAnswered, PingRefused, SeeSynced, AfterStartupCheck
    <3>7. CASE Recapture \/ Verdict
      BY <3>7 DEF Recapture, Verdict
    <3> QED BY <3>1, <3>2, <3>3, <3>4, <3>5, <3>6, <3>7 DEF ScriptStep
  <2>3. RoundsLeft' = RoundsLeft /\ RoundsLeft \in Nat
    BY <2>1, Counted DEF RoundsLeft, RoundSteps
  <2>4. PhaseSteps \in Nat /\ PhaseSteps' \in Nat
    <3>1. TypeInv'
      BY TypeStep DEF Next
    <3>2. pc' \in Phases /\ pings' \in Nat /\ pings' < PingLimit /\ test' \in Tests
      BY <3>1, PingLimitAssumption DEF TypeInv, TypeOK
    <3> QED BY <3>2, Counted DEF PhaseSteps, Phases
  <2>5. \A r, p, q \in Nat : q < p => r + q < r + p
    OBVIOUS
  <2> QED BY <2>2, <2>3, <2>4, <2>5, Zenon DEF StepsLeft
<1> QED BY <1>1, <1>2

\* The safety half of HangsOnlyOnLostServer: whatever the servers and sysbench do, the
\* script takes no more steps than two rounds of startup_check add up to.  It may still
\* wait for ever, in the one place where it has no step of its own: for Synced.
THEOREM BoundedTheorem ==
  Spec => /\ [](StepsLeft \in Nat)
          /\ [][StepsLeft' < StepsLeft \/ UNCHANGED <<pc, test, round, pings>>]_vars
<1>1. ASSUME TypeInv, [Next]_vars
      PROVE  StepsLeft' < StepsLeft \/ UNCHANGED <<pc, test, round, pings>>
  BY <1>1, StepsFewer DEF Next, ServersByThemselves, LoadByItself, scriptVars, vars
<1> QED BY <1>1, StepsNat, TypeAlways, PTL DEF Spec

-------------------------------------------------------------------------------
(* PqueryCrashRecovery: kill -9 of all servers and a forced bootstrap *)

\* kill -9 finds every server when there are at most nine.
LEMMA AllMatched == ASSUME N <= 9 PROVE Matched = Nodes
  BY NAssumption DEF Matched, Nodes

\* A step kills every server it finds, edits node 1's grastate.dat, starts the next
\* node, moves the script alone or is one of the servers.
LEMMA PqueryChange ==
  ASSUME [PqueryNext]_pqueryVars, node \in Nodes
  PROVE  \/ stage = "kill" /\ stage' = "sed" /\ node' = 1 /\ Lose(Matched)
         \/ /\ stage = "sed" /\ stage' = "restart" /\ node' = 1 /\ UNCHANGED <<proc, comp>>
            /\ datadir' = [datadir EXCEPT ![1] = IF @ = "unsafe" THEN "safe" ELSE @]
         \/ /\ stage = "restart" /\ stage' = "ping" /\ node' = node
            /\ Start(node, IF node = 1 THEN "bootstrapping" ELSE "starting")
         \/ /\ UNCHANGED clusterVars
            /\ \/ stage' \in {"kill", "pquery", "done"} /\ node' = 1
               \/ stage = "ping" /\ stage' = "restart" /\ node' = node + 1 /\ node' \in Nodes
               \/ UNCHANGED <<stage, node>>
         \/ ServerStep /\ UNCHANGED <<stage, node>>
<1> USE DEF Goto, clusterVars
<1>1. CASE RunPquery
  BY <1>1 DEF RunPquery
<1>2. CASE KillServers
  BY <1>2 DEF KillServers
<1>3. CASE ForceBootstrap
  BY <1>3 DEF ForceBootstrap
<1>4. CASE RestartNode
  BY <1>4 DEF RestartNode
<1>5. NextNode => \/ stage' \in {"pquery", "done"} /\ node' = 1
                  \/ stage' = "restart" /\ node' = node + 1 /\ node' \in Nodes
  <2>1. node < N => node + 1 \in Nodes
    BY NodeBounds DEF Nodes
  <2> QED BY <2>1 DEF NextNode
<1>6. CASE NodeAnswered
  BY <1>5, <1>6 DEF NodeAnswered
<1>7. CASE NodeRefused
  BY <1>5, <1>7 DEF NodeRefused
<1>8. CASE ServerStep /\ UNCHANGED loopVars
  BY <1>8 DEF loopVars
<1>9. CASE UNCHANGED pqueryVars
  BY <1>9 DEF pqueryVars, loopVars
<1> QED BY <1>1, <1>2, <1>3, <1>4, <1>6, <1>7, <1>8, <1>9 DEF PqueryNext, DataLoadStep

\* Whatever the number of nodes: node 1 is down and marked as safe when it is
\* started, and no other node is told to bootstrap.
PqueryBoot ==
  /\ ClusterTypeOK /\ node \in Nodes
  /\ proc[1] # "starting"
  /\ \A i \in Nodes : proc[i] = "bootstrapping" => i = 1 /\ datadir[i] # "unsafe"
  /\ stage = "sed" \/ (stage = "restart" /\ node = 1) => ~Running(1)
  /\ stage = "restart" /\ node = 1 => datadir[1] # "unsafe"

\* With all servers killed, each node is down until its turn comes.
PqueryDown ==
  /\ stage = "sed" => \A i \in Nodes : ~Running(i)
  /\ stage = "restart" => \A i \in Nodes : i >= node => ~Running(i)
  /\ stage = "ping" => \A i \in Nodes : i > node => ~Running(i)

LEMMA InitPquery == PqueryInit => PqueryBoot /\ PqueryDown /\ ServerInv
<1> SUFFICES ASSUME PqueryInit PROVE PqueryBoot /\ PqueryDown /\ ServerInv
  OBVIOUS
<1>1. PICK c \in Components, last \in {"synced", "open"},
          slow \in [2..(N - 1) -> {"synced", "open", "starting", "down"}] :
        /\ proc = [i \in Nodes |-> IF i \in 2..(N - 1) THEN slow[i]
                                    ELSE IF i = 1 THEN "synced" ELSE last]
        /\ comp = [i \in Nodes |-> IF Answers(i) THEN c ELSE NoComponent]
        /\ datadir = [i \in Nodes |-> IF Answers(i) THEN "unsafe" ELSE "fresh"]
  BY DEF PqueryInit
<1>2. ClusterTypeOK
  BY <1>1 DEF ClusterTypeOK, ProcStates, DatadirStates
<1>3. proc[1] = "synced" /\ \A i \in Nodes : proc[i] # "bootstrapping"
  BY <1>1, NodeBounds
<1>4. stage = "pquery" /\ node \in Nodes
  BY NodeBounds DEF PqueryInit
<1>5. DownIsOut /\ NoSplitBrain /\ FounderAlone
  BY <1>1, <1>3 DEF DownIsOut, NoSplitBrain, FounderAlone, Running, Answers
<1> QED BY <1>2, <1>3, <1>4, <1>5 DEF PqueryBoot, PqueryDown, ServerInv

LEMMA PqueryBootStep ==
  ASSUME PqueryBoot, [PqueryNext]_pqueryVars
  PROVE  PqueryBoot'
<1> USE NodeBounds DEF PqueryBoot, Running
<1>1. CASE stage' = "sed" /\ node' = 1 /\ Lose(Matched)
  <2>1. 1 \in Matched
    BY DEF Matched
  <2>2. UNCHANGED datadir
    BY <1>1 DEF Lose
  <2> QED BY <1>1, <2>1, <2>2, LoseFacts, LoseType
<1>2. CASE /\ stage = "sed" /\ stage' = "restart" /\ node' = 1 /\ UNCHANGED <<proc, comp>>
           /\ datadir' = [datadir EXCEPT ![1] = IF @ = "unsafe" THEN "safe" ELSE @]
  BY <1>2 DEF ClusterTypeOK, DatadirStates
<1>3. CASE /\ stage = "restart" /\ stage' = "ping" /\ node' = node
           /\ Start(node, IF node = 1 THEN "bootstrapping" ELSE "starting")
  BY <1>3 DEF Start, ClusterTypeOK, ProcStates
<1>4. CASE /\ UNCHANGED clusterVars
           /\ \/ stage' \in {"kill", "pquery", "done"} /\ node' = 1
              \/ stage = "ping" /\ stage' = "restart" /\ node' = node + 1 /\ node' \in Nodes
              \/ UNCHANGED <<stage, node>>
  <2>1. node + 1 # 1
    BY DEF Nodes
  <2> QED BY <1>4, <2>1 DEF clusterVars, ClusterTypeOK
<1>5. CASE ServerStep /\ UNCHANGED <<stage, node>>
  <2>1. ClusterTypeOK' /\ (Running(1)' => Running(1))
    BY <1>5, ServerType, ServerStartsNothing
  <2>2. PICK i \in Nodes :
          Bootstrap(i) \/ Join(i) \/ OpenPort(i) \/ CatchUp(i) \/ Die(i)
    BY <1>5 DEF ServerStep
  <2>3. CASE Bootstrap(i)
    BY <1>5, <2>1, <2>3 DEF Bootstrap, ClusterTypeOK
  <2>4. CASE Join(i)
    BY <1>5, <2>1, <2>4 DEF Join, ClusterTypeOK
  <2>5. CASE OpenPort(i) \/ CatchUp(i)
    BY <1>5, <2>1, <2>5 DEF OpenPort, CatchUp, ClusterTypeOK
  <2>6. CASE Die(i)
    <3>1. UNCHANGED datadir
      BY <2>6 DEF Die, Lose
    <3> QED BY <1>5, <2>1, <2>6, <3>1, LoseFacts DEF Die
  <2> QED BY <2>2, <2>3, <2>4, <2>5, <2>6
<1> QED BY <1>1, <1>2, <1>3, <1>4, <1>5, PqueryChange

\* The forced safe_to_bootstrap is there whenever node 1 is told to bootstrap, and
\* nobody else is: for every number of nodes, even where kill -9 misses some.
THEOREM ForcedBootstrapTheorem == PquerySpec => []BootstrapNotRefused
<1>1. PqueryBoot => BootstrapNotRefused
  BY DEF PqueryBoot, BootstrapNotRefused
<1> QED BY <1>1, InitPquery, PqueryBootStep, PTL DEF PquerySpec

LEMMA PqueryDownStep ==
  ASSUME N <= 9, PqueryBoot, PqueryDown, [PqueryNext]_pqueryVars
  PROVE  PqueryDown'
<1> USE NodeBounds DEF PqueryDown, PqueryBoot
<1>1. CASE stage' = "sed" /\ Lose(Matched)
  BY <1>1, AllMatched, LoseFacts DEF Running
<1>2. CASE stage = "sed" /\ stage' = "restart" /\ UNCHANGED proc
  BY <1>2 DEF Running
<1>3. CASE /\ stage = "restart" /\ stage' = "ping" /\ node' = node
           /\ Start(node, IF node = 1 THEN "bootstrapping" ELSE "starting")
  <2>1. \A i \in Nodes : i > node => proc'[i] = proc[i]
    BY <1>3 DEF Start, ClusterTypeOK, Nodes
  <2> QED BY <1>3, <2>1 DEF Running, Nodes
<1>4. CASE /\ UNCHANGED clusterVars
           /\ \/ stage' \in {"kill", "pquery", "done"} /\ node' = 1
              \/ stage = "ping" /\ stage' = "restart" /\ node' = node + 1 /\ node' \in Nodes
              \/ UNCHANGED <<stage, node>>
  BY <1>4 DEF clusterVars, Running, Nodes
<1>5. CASE ServerStep /\ UNCHANGED <<stage, node>>
  <2>1. \A i \in Nodes : Running(i)' => Running(i)
    BY <1>5, ServerStartsNothing
  <2> QED BY <1>5, <2>1
<1> QED BY <1>1, <1>2, <1>3, <1>4, <1>5, PqueryChange

\* With at most nine nodes kill -9 has ended every server of the round before, so
\* that none is started on a data directory in use.
THEOREM KilledBeforeStartTheorem == ASSUME N <= 9 PROVE PquerySpec => []DatadirExclusive
<1>1. PqueryBoot /\ PqueryDown => DatadirExclusive
  BY DEF PqueryBoot, PqueryDown, DatadirExclusive, Nodes
<1> QED BY <1>1, InitPquery, PqueryBootStep, PqueryDownStep, PTL DEF PquerySpec

\* The servers keep to one component; node 1 founds the next when the last is gone.
LEMMA PqueryServerStep ==
  ASSUME N <= 9, PqueryBoot, PqueryDown, ServerInv, [PqueryNext]_pqueryVars
  PROVE  ServerInv' /\ [PC!Next]_members
<1>1. ClusterTypeOK' /\ node \in Nodes
  BY PqueryBootStep DEF PqueryBoot
<1>2. CASE Lose(Matched)
  <2>1. \A i \in Nodes : comp'[i] = NoComponent
    BY <1>2, AllMatched, LoseFacts DEF ServerInv
  <2>2. members' = {}
    BY <2>1 DEF members
  <2>3. [PC!Next]_members
    BY <2>2 DEF PC!Next, PC!Collapse, members
  <2> QED BY <1>2, <2>3, LoseSafety
<1>3. CASE stage = "sed" /\ UNCHANGED <<proc, comp>>
  <2>1. ServerInv'
    BY <1>1, <1>3, ServerInvUnchanged DEF ClusterTypeOK
  <2> QED BY <1>3, <2>1 DEF members
<1>4. CASE stage = "restart" /\ Start(node, IF node = 1 THEN "bootstrapping" ELSE "starting")
  <2>1. ~Running(node) /\ (node = 1 => \A i \in Nodes : ~Running(i))
    BY <1>1, <1>4 DEF PqueryDown, Nodes
  <2>2. /\ comp' = comp
        /\ proc' = [proc EXCEPT ![node] = IF node = 1 THEN "bootstrapping" ELSE "starting"]
    BY <1>4, <2>1 DEF Start
  <2>3. DownIsOut' /\ NoSplitBrain'
    BY <1>1, <2>2 DEF ServerInv, DownIsOut, NoSplitBrain, Running, ClusterTypeOK
  <2>4. FounderAlone'
    <3>1. CASE node = 1
      <4>1. \A i \in Nodes : comp[i] = NoComponent
        BY <2>1, <3>1 DEF ServerInv, DownIsOut
      <4> QED BY <1>1, <2>2, <3>1, <4>1 DEF ServerInv, FounderAlone, ClusterTypeOK
    <3>2. CASE node # 1
      BY <1>1, <2>2, <3>2, NodeBounds DEF ServerInv, FounderAlone, ClusterTypeOK
    <3> QED BY <3>1, <3>2
  <2> QED BY <1>1, <2>2, <2>3, <2>4 DEF ServerInv, members
<1>5. CASE UNCHANGED clusterVars
  <2>1. ServerInv'
    BY <1>5, ServerInvClusterUnchanged
  <2> QED BY <1>5, <2>1 DEF clusterVars, members
<1>6. CASE ServerStep
  BY <1>6, ServerSafety, ServerImplements
<1> QED BY <1>1, <1>2, <1>3, <1>4, <1>5, <1>6, PqueryChange

\* With at most nine nodes every step between two killings, and each killing, is a
\* step of PrimaryComponent.
THEOREM MembershipTheorem == ASSUME N <= 9 PROVE PquerySpec => MembershipSteps
  BY InitPquery, PqueryBootStep, PqueryDownStep, PqueryServerStep, PTL
  DEF PquerySpec, MembershipSteps

\* Every variable of PqueryCrashRecovery stays in its domain: in particular the loops
\* never leave the nodes and the rounds.
THEOREM PqueryTypeCorrect == PquerySpec => []PqueryTypeOK
<1> DEFINE Rest == stage \in Stages /\ cycle \in 1..MaxRounds /\ timer \in 0..(TimerLimit - 1)
<1>1. PqueryInit => Rest
  BY TimerLimitAssumption, MaxRoundsAssumption DEF PqueryInit, Stages
<1>2. ASSUME Rest, [PqueryNext]_pqueryVars PROVE Rest'
  <2> USE <1>2, TimerLimitAssumption, MaxRoundsAssumption DEF Goto, Stages
  <2>1. CASE RunPquery \/ KillServers \/ ForceBootstrap \/ RestartNode
    BY <2>1 DEF RunPquery, KillServers, ForceBootstrap, RestartNode
  <2>2. CASE NodeAnswered \/ NodeRefused
    BY <2>2 DEF NodeAnswered, NodeRefused, NextNode
  <2>3. CASE (ServerStep /\ UNCHANGED loopVars) \/ UNCHANGED pqueryVars
    BY <2>3 DEF pqueryVars, loopVars
  <2> QED BY <2>1, <2>2, <2>3 DEF PqueryNext, DataLoadStep
<1>3. PqueryBoot /\ Rest => PqueryTypeOK
  BY DEF PqueryBoot, PqueryTypeOK
<1> HIDE DEF Rest
<1> QED BY <1>1, <1>2, <1>3, InitPquery, PqueryBootStep, PTL DEF PquerySpec

\* How many steps of data_load can still follow at most: the pings, the nodes above
\* the one in hand, the rounds.
NodeSteps == TimerLimit + 1
NodesLeft == (N - node) * NodeSteps
CycleSteps == N * NodeSteps + 3
CyclesLeft == (MaxRounds - cycle) * CycleSteps
PqueryStepsLeft ==
  CASE stage = "done"    -> 0
    [] stage = "pquery"  -> CyclesLeft + CycleSteps
    [] stage = "kill"    -> CyclesLeft + CycleSteps - 1
    [] stage = "sed"     -> CyclesLeft + CycleSteps - 2
    [] stage = "restart" -> CyclesLeft + NodesLeft + TimerLimit + 1
    [] stage = "ping"    -> CyclesLeft + NodesLeft + TimerLimit - timer

LEMMA PqueryCounted ==
  ASSUME PqueryTypeOK
  PROVE  /\ TimerLimit \in Nat \ {0} /\ timer \in Nat /\ timer < TimerLimit
         /\ node \in Nat \ {0} /\ node <= N /\ N \in Nat \ {0} /\ stage \in Stages
         /\ cycle \in Nat \ {0} /\ cycle <= MaxRounds /\ MaxRounds \in Nat
         /\ NodeSteps \in Nat /\ NodeSteps = TimerLimit + 1
         /\ NodesLeft \in Nat /\ (N - (node + 1)) * NodeSteps = NodesLeft - NodeSteps
         /\ CycleSteps \in Nat /\ CycleSteps = (N - 1) * NodeSteps + NodeSteps + 3
         /\ (N - 1) * NodeSteps \in Nat
         /\ CyclesLeft \in Nat
         /\ (MaxRounds - (cycle + 1)) * CycleSteps = CyclesLeft - CycleSteps
<1>1. /\ TimerLimit \in Nat \ {0} /\ timer \in Nat /\ timer < TimerLimit
      /\ node \in Nat \ {0} /\ node <= N /\ N \in Nat \ {0} /\ stage \in Stages
      /\ cycle \in Nat \ {0} /\ cycle <= MaxRounds /\ MaxRounds \in Nat
  BY TimerLimitAssumption, MaxRoundsAssumption, NAssumption DEF PqueryTypeOK, Nodes
<1>2. \A n, m \in Nat : n * m \in Nat /\ (n - 1) * m = n * m - m
  OBVIOUS
<1>3. NodeSteps \in Nat /\ NodeSteps = TimerLimit + 1
  BY <1>1 DEF NodeSteps
<1>4. N - node \in Nat /\ N - (node + 1) = (N - node) - 1 /\ N - 1 \in Nat
  BY <1>1
<1>5. NodesLeft \in Nat /\ (N - (node + 1)) * NodeSteps = NodesLeft - NodeSteps
  BY <1>2, <1>3, <1>4 DEF NodesLeft
<1>6. /\ N * NodeSteps \in Nat /\ (N - 1) * NodeSteps \in Nat
      /\ (N - 1) * NodeSteps = N * NodeSteps - NodeSteps
  BY <1>1, <1>2, <1>3, <1>4
<1>7. CycleSteps \in Nat /\ CycleSteps = (N - 1) * NodeSteps + NodeSteps + 3
  BY <1>3, <1>6 DEF CycleSteps
<1>8. MaxRounds - cycle \in Nat /\ MaxRounds - (cycle + 1) = (MaxRounds - cycle) - 1
  BY <1>1
<1>9. CyclesLeft \in Nat /\ (MaxRounds - (cycle + 1)) * CycleSteps = CyclesLeft - CycleSteps
  BY <1>2, <1>7, <1>8 DEF CyclesLeft
<1> QED BY <1>1, <1>3, <1>5, <1>6, <1>7, <1>9

LEMMA PqueryStepsNat == ASSUME PqueryTypeOK PROVE PqueryStepsLeft \in Nat
  BY PqueryCounted DEF PqueryStepsLeft, Stages

LEMMA PqueryStepsFewer ==
  ASSUME PqueryTypeOK, DataLoadStep
  PROVE  PqueryStepsLeft' < PqueryStepsLeft
<1> USE PqueryCounted DEF PqueryStepsLeft, NodeSteps, NodesLeft, CyclesLeft, Goto
<1>1. CASE RunPquery \/ KillServers
  BY <1>1 DEF RunPquery, KillServers
<1>2. CASE ForceBootstrap \/ RestartNode
  BY <1>2 DEF ForceBootstrap, RestartNode
<1>3. ASSUME NextNode, stage = "ping" PROVE PqueryStepsLeft' < PqueryStepsLeft
  <2>1. CASE stage' = "restart" /\ node' = node + 1 /\ cycle' = cycle
    <3>1. (N - (node + 1)) * (TimerLimit + 1) = (N - node) * (TimerLimit + 1) - (TimerLimit + 1)
      OBVIOUS
    <3> QED BY <1>3, <2>1, <3>1 DEF CycleSteps
  <2>2. CASE stage' = "pquery" /\ cycle' = cycle + 1
    <3>1. PqueryStepsLeft' = (MaxRounds - (cycle + 1)) * CycleSteps + CycleSteps
      BY <2>2 DEF CycleSteps
    <3>2. PqueryStepsLeft = CyclesLeft + (NodesLeft + TimerLimit - timer)
      BY <1>3
    <3>3. NodesLeft + TimerLimit - timer \in Nat \ {0}
      OBVIOUS
    <3>4. (MaxRounds - (cycle + 1)) * CycleSteps + CycleSteps = CyclesLeft
      <4> HIDE DEF NodesLeft, CyclesLeft
      <4> QED OBVIOUS
    <3>5. \A a \in Nat, b \in Nat \ {0} : a < a + b
      OBVIOUS
    <3>6. CyclesLeft \in Nat /\ PqueryStepsLeft' = CyclesLeft
      BY <3>1, <3>4
    <3> HIDE DEF PqueryStepsLeft, NodesLeft, CyclesLeft
    <3> QED BY <3>2, <3>3, <3>5, <3>6, Zenon
  <2>3. CASE stage' = "done"
    BY <1>3, <2>3
  <2> QED BY <1>3, <2>1, <2>2, <2>3 DEF NextNode
<1>4. CASE NodeAnswered
  BY <1>3, <1>4 DEF NodeAnswered
<1>5. CASE NodeRefused
  <2>1. CASE NextNode
    BY <1>3, <1>5, <2>1 DEF NodeRefused
  <2>2. CASE timer' = timer + 1 /\ UNCHANGED <<stage, node, cycle>>
    BY <1>5, <2>2 DEF NodeRefused, CycleSteps
  <2> QED BY <1>5, <2>1, <2>2 DEF NodeRefused
<1> QED BY <1>1, <1>2, <1>4, <1>5 DEF DataLoadStep

\* Whatever the servers do, data_load takes no more steps than its rounds, nodes and
\* pings give: no loop of it waits for a server without counting.
THEOREM PqueryBoundedTheorem ==
  PquerySpec => /\ [](PqueryStepsLeft \in Nat)
                /\ [][PqueryStepsLeft' < PqueryStepsLeft \/ UNCHANGED loopVars]_pqueryVars
<1>1. ASSUME PqueryTypeOK, [PqueryNext]_pqueryVars
      PROVE  PqueryStepsLeft' < PqueryStepsLeft \/ UNCHANGED loopVars
  BY <1>1, PqueryStepsFewer DEF PqueryNext, pqueryVars
<1> QED BY <1>1, PqueryStepsNat, PqueryTypeCorrect, PTL DEF PquerySpec

===============================================================================
