----------------------------- MODULE ClusterProofs -----------------------------
(***************************************************************************)
(* Lemmas about the servers of Cluster, whatever script drives them.       *)
(***************************************************************************)
EXTENDS Cluster, FiniteSetTheorems, TLAPS

\* A stopped server is in no component.
DownIsOut == \A i \in Nodes : ~Running(i) => comp[i] = NoComponent

\* Only a member of a primary component reports Synced.
SyncedIsIn == \A i \in Nodes : proc[i] = "synced" => comp[i] # NoComponent

-------------------------------------------------------------------------------
LEMMA NodeBounds == N \in Nat /\ 1 \in Nodes /\ N \in Nodes
  BY NAssumption DEF Nodes

\* What the loss of the servers in K, by a kill or a crash, does to each server.
LEMMA LoseFacts ==
  ASSUME ClusterTypeOK, NEW K, Lose(K), NEW i \in Nodes
  PROVE  /\ i \in K => proc'[i] = "down" /\ comp'[i] = NoComponent
         /\ i \notin K => \/ proc'[i] = proc[i]
                          \/ proc[i] = "synced" /\ proc'[i] = "open"
         /\ comp'[i] = comp[i] \/ comp'[i] = NoComponent
  BY DEF Lose, ClusterTypeOK

LEMMA LoseType ==
  ASSUME ClusterTypeOK, NEW K, Lose(K)
  PROVE  ClusterTypeOK'
<1>1. proc' \in [Nodes -> ProcStates]
  BY DEF Lose, ClusterTypeOK, ProcStates
<1>2. comp' \in [Nodes -> Components \cup {NoComponent}]
  BY DEF Lose, ClusterTypeOK
<1> QED BY <1>1, <1>2 DEF Lose, ClusterTypeOK

\* The servers keep their types by themselves.
LEMMA ServerType ==
  ASSUME ClusterTypeOK, ServerStep
  PROVE  ClusterTypeOK'
<1>1. PICK i \in Nodes :
        Bootstrap(i) \/ Join(i) \/ OpenPort(i) \/ CatchUp(i) \/ Die(i)
  BY DEF ServerStep
<1>2. CASE Bootstrap(i)
  BY <1>2 DEF Bootstrap, ClusterTypeOK, ProcStates, DatadirStates
<1>3. CASE Join(i)
  BY <1>3 DEF Join, ClusterTypeOK, DatadirStates
<1>4. CASE OpenPort(i)
  BY <1>4 DEF OpenPort, ClusterTypeOK, ProcStates
<1>5. CASE CatchUp(i)
  BY <1>5 DEF CatchUp, ClusterTypeOK, ProcStates
<1>6. CASE Die(i)
  BY <1>6, LoseType DEF Die
<1> QED BY <1>1, <1>2, <1>3, <1>4, <1>5, <1>6

\* No step of a server starts a server.
LEMMA ServerStartsNothing ==
  ASSUME ClusterTypeOK, ServerStep, NEW i \in Nodes, Running(i)'
  PROVE  Running(i)
<1>1. PICK j \in Nodes :
        Bootstrap(j) \/ Join(j) \/ OpenPort(j) \/ CatchUp(j) \/ Die(j)
  BY DEF ServerStep
<1>2. CASE Bootstrap(j) \/ Join(j) \/ OpenPort(j) \/ CatchUp(j)
  BY <1>2 DEF Bootstrap, Join, OpenPort, CatchUp, ClusterTypeOK, Running
<1>3. CASE Die(j)
  BY <1>3, LoseFacts DEF Die, Running
<1> QED BY <1>1, <1>2, <1>3

-------------------------------------------------------------------------------
(* Quorum *)

LEMMA NodesFinite == IsFiniteSet(Nodes) /\ Cardinality(Nodes) = N
  BY FS_Interval, NAssumption DEF Nodes

LEMMA RemoveOne ==
  ASSUME NEW S, IsFiniteSet(S), NEW v
  PROVE  /\ Cardinality(S) \in Nat /\ Cardinality(S \ {v}) \in Nat
         /\ Cardinality(S) <= Cardinality(S \ {v}) + 1
<1>1. Cardinality(S) \in Nat /\ Cardinality(S \ {v}) \in Nat
  BY FS_Subset, FS_CardinalityType
<1>2. \/ Cardinality(S \ {v}) = Cardinality(S) - 1
      \/ Cardinality(S \ {v}) = Cardinality(S)
  BY FS_RemoveElement
<1> QED BY <1>1, <1>2

\* A component that loses one server stays primary when two others are left.
LEMMA QuorumKept ==
  ASSUME ClusterTypeOK, NEW v \in Nodes, NEW c,
         NEW S \in SUBSET Nodes, v \notin S, Cardinality(S) >= 2,
         \A i \in S : comp[i] = c
  PROVE  HasQuorum(c, {v})
<1> DEFINE M == Members(c)
<1>1. M \subseteq Nodes /\ S \subseteq M \ {v}
  BY DEF Members
<1>2. IsFiniteSet(M) /\ IsFiniteSet(M \ {v}) /\ IsFiniteSet(S)
  BY <1>1, NodesFinite, FS_Subset
<1>3. Cardinality(M \ {v}) >= 2
  <2>1. Cardinality(S) <= Cardinality(M \ {v})
    BY <1>1, <1>2, FS_Subset
  <2> QED BY <2>1, <1>2, FS_CardinalityType
<1>4. Cardinality(M) <= Cardinality(M \ {v}) + 1
  BY <1>2, RemoveOne
<1> HIDE DEF M
<1>5. 2 * Cardinality(M \ {v}) > Cardinality(M)
  BY <1>2, <1>3, <1>4, FS_CardinalityType
<1> QED BY <1>5 DEF HasQuorum, M

\* When a server is lost and two others of its component are left, none of those
\* that are left loses anything.
LEMMA LoseOne ==
  ASSUME ClusterTypeOK, NEW v \in Nodes, Lose({v}), NEW c, c # NoComponent,
         NEW S \in SUBSET Nodes, v \notin S, Cardinality(S) >= 2,
         \A i \in S : comp[i] = c
  PROVE  \A i \in S : proc'[i] = proc[i] /\ comp'[i] = c
<1>1. HasQuorum(c, {v})
  BY QuorumKept
<1>2. TAKE i \in S
<1>3. comp'[i] = c
  BY <1>1 DEF Lose
<1>4. proc'[i] = proc[i]
  BY <1>3 DEF Lose
<1> QED BY <1>3, <1>4

-------------------------------------------------------------------------------
(* Synced, and in one component *)

LEMMA LoseSynced ==
  ASSUME ClusterTypeOK, SyncedIsIn, NEW K, Lose(K)
  PROVE  SyncedIsIn'
  BY DEF Lose, SyncedIsIn, ClusterTypeOK

LEMMA ServerSynced ==
  ASSUME ClusterTypeOK, SyncedIsIn, ServerStep
  PROVE  SyncedIsIn'
<1>1. PICK i \in Nodes :
        Bootstrap(i) \/ Join(i) \/ OpenPort(i) \/ CatchUp(i) \/ Die(i)
  BY DEF ServerStep
<1>2. CASE Bootstrap(i)
  BY <1>2, ComponentsAssumption DEF Bootstrap, SyncedIsIn, ClusterTypeOK
<1>3. CASE Join(i)
  BY <1>3 DEF Join, SyncedIsIn, ClusterTypeOK
<1>4. CASE OpenPort(i) \/ CatchUp(i)
  BY <1>4 DEF OpenPort, CatchUp, SyncedIsIn, ClusterTypeOK
<1>5. CASE Die(i)
  BY <1>5, LoseSynced DEF Die
<1> QED BY <1>1, <1>2, <1>3, <1>4, <1>5

-------------------------------------------------------------------------------
(* Servers that nobody tells to bootstrap *)

\* Nobody founds a component, so there is one at most.
NoFounder == \A i \in Nodes : proc[i] # "bootstrapping"

\* Left alone, servers nobody told to bootstrap keep to one component ...
LEMMA ServerOneComponent ==
  ASSUME ClusterTypeOK, NoFounder, NoSplitBrain, ServerStep
  PROVE  NoFounder' /\ NoSplitBrain'
<1> USE DEF NoFounder, NoSplitBrain
<1>1. PICK i \in Nodes :
        Bootstrap(i) \/ Join(i) \/ OpenPort(i) \/ CatchUp(i) \/ Die(i)
  BY DEF ServerStep
<1>2. ~Bootstrap(i)
  BY DEF Bootstrap
<1>3. CASE Join(i)
  BY <1>3 DEF Join, ClusterTypeOK
<1>4. CASE OpenPort(i) \/ CatchUp(i)
  BY <1>4 DEF OpenPort, CatchUp, ClusterTypeOK
<1>5. CASE Die(i)
  BY <1>5, LoseFacts DEF Die
<1> QED BY <1>1, <1>2, <1>3, <1>4, <1>5

\* ... and as long as none goes down they join it and come up, no more.
LEMMA ServerCalm ==
  ASSUME ClusterTypeOK, NoFounder, ServerStep,
         {i \in Nodes : Running(i) /\ proc'[i] = "down"} = {}
  PROVE  \E i \in Nodes : Join(i) \/ OpenPort(i) \/ CatchUp(i)
<1>1. PICK i \in Nodes :
        Bootstrap(i) \/ Join(i) \/ OpenPort(i) \/ CatchUp(i) \/ Die(i)
  BY DEF ServerStep
<1>2. ~Bootstrap(i)
  BY DEF Bootstrap, NoFounder
<1>3. ASSUME Die(i) PROVE FALSE
  <2>1. proc'[i] = "down" /\ Running(i)
    BY <1>3, LoseFacts DEF Die
  <2> QED BY <2>1
<1> QED BY <1>1, <1>2, <1>3

-------------------------------------------------------------------------------
(* Servers of which node 1 bootstraps *)

\* Node 1 alone is told to bootstrap, and while it has not yet done so there is
\* no component anywhere.
FounderAlone ==
  /\ proc[1] # "starting"
  /\ \A i \in Nodes :
       proc[i] = "bootstrapping" => i = 1 /\ \A j \in Nodes : comp[j] = NoComponent

\* What the scripts that bootstrap keep true of the servers.
ServerInv ==
  /\ ClusterTypeOK
  /\ DownIsOut
  /\ FounderAlone
  /\ NoSplitBrain

LEMMA LoseSafety ==
  ASSUME ServerInv, NEW K, Lose(K)
  PROVE  ServerInv'
<1> USE LoseFacts, LoseType DEF ServerInv
<1>1. DownIsOut'
  BY DEF DownIsOut, Running
<1>2. FounderAlone'
  BY NodeBounds DEF FounderAlone
<1>3. NoSplitBrain'
  BY DEF NoSplitBrain
<1> QED BY <1>1, <1>2, <1>3

LEMMA ShutdownSafety ==
  ASSUME ServerInv, NEW i \in Nodes, Shutdown(i)
  PROVE  ServerInv'
<1> USE DEF ServerInv, Shutdown, ClusterTypeOK
<1>1. ClusterTypeOK'
  BY DEF ProcStates, DatadirStates
<1>2. DownIsOut' /\ FounderAlone' /\ NoSplitBrain'
  BY NodeBounds DEF DownIsOut, Running, FounderAlone, NoSplitBrain
<1> QED BY <1>1, <1>2

\* Node 1 may be told to bootstrap where no server is a member.
LEMMA StartSafety ==
  ASSUME ServerInv, NEW i \in Nodes, NEW how \in {"starting", "bootstrapping"}, Start(i, how),
         how = "bootstrapping" <=> i = 1,
         i = 1 => Running(1) \/ members = {}
  PROVE  ServerInv'
<1> USE DEF ServerInv, Start, ClusterTypeOK
<1>1. ClusterTypeOK'
  BY DEF ProcStates
<1>2. DownIsOut' /\ NoSplitBrain'
  BY DEF DownIsOut, NoSplitBrain, Running
<1>3. FounderAlone'
  BY NodeBounds DEF FounderAlone, members
<1> QED BY <1>1, <1>2, <1>3

\* A server that founds a component is alone, one that joins enters the only
\* component there is, and no other step moves a server into a component.
LEMMA ServerSafety ==
  ASSUME ServerInv, ServerStep
  PROVE  ServerInv'
<1> USE NodeBounds DEF ServerInv
<1>1. PICK i \in Nodes :
        Bootstrap(i) \/ Join(i) \/ OpenPort(i) \/ CatchUp(i) \/ Die(i)
  BY DEF ServerStep
<1>2. ClusterTypeOK'
  BY ServerType
<1>3. CASE Bootstrap(i)
  <2>1. PICK c \in Components : comp' = [comp EXCEPT ![i] = c]
    BY <1>3 DEF Bootstrap
  <2>2. i = 1 /\ \A j \in Nodes : comp[j] = NoComponent
    BY <1>3 DEF Bootstrap, FounderAlone
  <2>3. DownIsOut'
    BY <1>3, <2>1 DEF Bootstrap, DownIsOut, Running, ClusterTypeOK
  <2>4. FounderAlone'
    BY <1>3, <2>2 DEF Bootstrap, FounderAlone, ClusterTypeOK
  <2>5. NoSplitBrain'
    BY <2>1, <2>2 DEF NoSplitBrain, ClusterTypeOK
  <2> QED BY <1>2, <2>3, <2>4, <2>5
<1>4. CASE Join(i)
  <2>1. PICK j \in Nodes : comp[j] # NoComponent /\ comp' = [comp EXCEPT ![i] = comp[j]]
    BY <1>4 DEF Join
  <2>2. DownIsOut'
    BY <1>4, <2>1 DEF Join, DownIsOut, Running, ClusterTypeOK
  <2>3. FounderAlone'
    BY <1>4, <2>1 DEF Join, FounderAlone
  <2>4. NoSplitBrain'
    BY <2>1 DEF NoSplitBrain, ClusterTypeOK
  <2> QED BY <1>2, <2>2, <2>3, <2>4
<1>5. CASE OpenPort(i) \/ CatchUp(i)
  <2>1. DownIsOut'
    BY <1>5 DEF OpenPort, CatchUp, DownIsOut, Running, ClusterTypeOK
  <2>2. FounderAlone'
    BY <1>5 DEF OpenPort, CatchUp, FounderAlone, ClusterTypeOK
  <2>3. NoSplitBrain'
    BY <1>5 DEF OpenPort, CatchUp, NoSplitBrain
  <2> QED BY <1>2, <2>1, <2>2, <2>3
<1>6. CASE Die(i)
  BY <1>6, LoseSafety DEF Die
<1> QED BY <1>1, <1>3, <1>4, <1>5, <1>6

LEMMA ServerInvUnchanged ==
  ASSUME ServerInv, UNCHANGED <<proc, comp>>, datadir' \in [Nodes -> DatadirStates]
  PROVE  ServerInv'
  BY DEF ServerInv, ClusterTypeOK, DownIsOut, Running, FounderAlone, NoSplitBrain

LEMMA ServerInvClusterUnchanged ==
  ASSUME ServerInv, UNCHANGED clusterVars
  PROVE  ServerInv'
  BY ServerInvUnchanged DEF ServerInv, ClusterTypeOK, clusterVars

-------------------------------------------------------------------------------
(* The primary component *)

\* A loss takes the lost servers out, or leaves no component at all.
LEMMA LoseMembers ==
  ASSUME NoSplitBrain, NEW K, Lose(K)
  PROVE  members' = members \ K \/ members' = {}
<1>1. CASE \E c : (\A i \in members : comp[i] = c) /\ HasQuorum(c, K)
  <2>1. \A i \in Nodes : comp'[i] = IF i \notin K /\ i \in members THEN comp[i]
                                    ELSE NoComponent
    BY <1>1 DEF Lose, members
  <2> QED BY <2>1 DEF members
<1>2. CASE ~\E c : (\A i \in members : comp[i] = c) /\ HasQuorum(c, K)
  <2>1. ASSUME NEW i \in Nodes, comp[i] # NoComponent PROVE ~HasQuorum(comp[i], K)
    BY <1>2, <2>1 DEF NoSplitBrain, members
  <2>2. \A i \in Nodes : comp'[i] = NoComponent
    BY <2>1 DEF Lose
  <2> QED BY <2>2 DEF members
<1> QED BY <1>1, <1>2

\* What the servers do to the component when they found none: it grows, shrinks or
\* collapses, and when it is gone it stays gone.
KeepsComponent == (\E i \in Nodes : PC!Join(i) \/ PC!Leave(i)) \/ PC!Collapse

LEMMA KeepsImplements == KeepsComponent => PC!Next
  BY DEF KeepsComponent, PC!Next

LEMMA LoseKeeps ==
  ASSUME NoSplitBrain, NEW i \in Nodes, Lose({i})
  PROVE  [KeepsComponent]_members
<1>1. members' = members \ {i} \/ members' = {}
  BY LoseMembers
<1>2. members' = members \/ PC!Leave(i) \/ PC!Collapse
  BY <1>1 DEF PC!Leave, PC!Collapse, members
<1> QED BY <1>2 DEF KeepsComponent, members

LEMMA ShutdownKeeps ==
  ASSUME ClusterTypeOK, NEW i \in Nodes, Shutdown(i)
  PROVE  [KeepsComponent]_members
<1>1. members' = members \ {i}
  BY DEF Shutdown, members, ClusterTypeOK
<1>2. members' = members \/ PC!Leave(i)
  BY <1>1 DEF PC!Leave, members
<1> QED BY <1>2 DEF KeepsComponent, members

LEMMA JoinKeeps ==
  ASSUME ClusterTypeOK, NEW i \in Nodes, Join(i)
  PROVE  KeepsComponent
<1>1. PICK j \in Nodes : comp[j] # NoComponent /\ comp' = [comp EXCEPT ![i] = comp[j]]
  BY DEF Join
<1>2. members # {} /\ i \notin members
  BY <1>1 DEF Join, members
<1>3. members' = members \cup {i}
  BY <1>1 DEF members, ClusterTypeOK
<1> QED BY <1>2, <1>3 DEF KeepsComponent, PC!Join, members

\* A step of a server but a bootstrap keeps the component, and leaves one at most.
LEMMA ServerKeeps ==
  ASSUME ClusterTypeOK, NoSplitBrain, NEW i \in Nodes,
         Join(i) \/ OpenPort(i) \/ CatchUp(i) \/ Die(i)
  PROVE  NoSplitBrain' /\ [KeepsComponent]_members
<1>1. CASE Join(i)
  <2>1. NoSplitBrain'
    BY <1>1 DEF Join, NoSplitBrain, ClusterTypeOK
  <2> QED BY <1>1, <2>1, JoinKeeps
<1>2. CASE OpenPort(i) \/ CatchUp(i)
  BY <1>2 DEF OpenPort, CatchUp, NoSplitBrain, members
<1>3. CASE Die(i)
  BY <1>3, LoseFacts, LoseKeeps DEF Die, NoSplitBrain
<1> QED BY <1>1, <1>2, <1>3

LEMMA NoFounderKeeps ==
  ASSUME ClusterTypeOK, NoFounder, NoSplitBrain, ServerStep
  PROVE  [KeepsComponent]_members
  BY ServerKeeps DEF ServerStep, Bootstrap, NoFounder

\* And node 1, told to bootstrap, founds a component when there is none.
LEMMA ServerImplements ==
  ASSUME ServerInv, ServerStep
  PROVE  [PC!Next]_members
<1>1. PICK i \in Nodes :
        Bootstrap(i) \/ Join(i) \/ OpenPort(i) \/ CatchUp(i) \/ Die(i)
  BY DEF ServerStep
<1>2. CASE Bootstrap(i)
  <2>1. PICK c \in Components : comp' = [comp EXCEPT ![i] = c]
    BY <1>2 DEF Bootstrap
  <2>2. members = {}
    BY <1>2 DEF Bootstrap, ServerInv, FounderAlone, members
  <2>3. members' = {i}
    BY <2>1, <2>2, ComponentsAssumption DEF members, ServerInv, ClusterTypeOK
  <2> QED BY <2>2, <2>3 DEF PC!Next, PC!Found, members
<1>3. CASE ~Bootstrap(i)
  BY <1>1, <1>3, ServerKeeps, KeepsImplements DEF ServerInv
<1> QED BY <1>2, <1>3

===============================================================================
