-------------------------- MODULE PqueryCrashRecovery --------------------------
(***************************************************************************)
(* data_load of suite/random_qa/pquery_crash_recovery_qa.py: after each    *)
(* pquery run every server is killed, safe_to_bootstrap of node 1 is set   *)
(* by force and the nodes are started again, one after the other, on the   *)
(* data they have.                                                         *)
(***************************************************************************)
EXTENDS Cluster

CONSTANTS
  TimerLimit, \* range(120) in startup_check
  MaxRounds   \* range(1, 10) in data_load

ASSUME TimerLimitAssumption == TimerLimit \in Nat \ {0}
ASSUME MaxRoundsAssumption == MaxRounds \in Nat \ {0}

VARIABLES
  stage, \* where data_load is
  cycle, \* the loop variable i
  node,  \* the loop variable j
  timer  \* startup_timer

loopVars == <<stage, cycle, node, timer>>
pqueryVars == <<clusterVars, loopVars>>

Stages == {"pquery", "kill", "sed", "restart", "ping", "done"}

PqueryTypeOK ==
  /\ ClusterTypeOK
  /\ stage \in Stages
  /\ cycle \in 1..MaxRounds
  /\ node \in Nodes
  /\ timer \in 0..(TimerLimit - 1)

\* Fault: the pattern of the kill finds node 1 only.
MatchedNodeOne == {i \in Nodes : i = 1}

\* ps | grep '/conf/node[0-9].cnf': the names of nodes 1 to 9.
Matched == {i \in Nodes : i <= 9}

\* start_galera has seen the first and the last node answer.
PqueryInit ==
  /\ \E c \in Components, last \in {"synced", "open"},
        slow \in [2..(N - 1) -> {"synced", "open", "starting", "down"}] :
       /\ proc = [i \in Nodes |-> IF i \in 2..(N - 1) THEN slow[i]
                                  ELSE IF i = 1 THEN "synced" ELSE last]
       /\ comp = [i \in Nodes |-> IF Answers(i) THEN c ELSE NoComponent]
       /\ datadir = [i \in Nodes |-> IF Answers(i) THEN "unsafe" ELSE "fresh"]
  /\ stage = "pquery"
  /\ cycle = 1
  /\ node = 1
  /\ timer = 0

-------------------------------------------------------------------------------

Goto(p, i) ==
  /\ stage' = p
  /\ node' = i
  /\ timer' = 0

\* Five minutes of pquery on node 1, in the foreground; a server that it
\* crashes makes it fail, and check_testcase then ends the script.
RunPquery ==
  /\ stage = "pquery"
  /\ \/ Answers(1) /\ Goto("kill", 1)
     \/ Goto("done", 1)
  /\ UNCHANGED <<clusterVars, cycle>>

KillServers ==
  /\ stage = "kill"
  /\ Lose(Matched)
  /\ Goto("sed", 1)
  /\ UNCHANGED cycle

\* Fault: grastate.dat is left as it is.
ForceBootstrapSkipped ==
  /\ stage = "sed"
  /\ Goto("restart", 1)
  /\ UNCHANGED <<clusterVars, cycle>>

\* sed 's#safe_to_bootstrap: 0#safe_to_bootstrap: 1#' node1/grastate.dat
ForceBootstrap ==
  /\ stage = "sed"
  /\ datadir' = [datadir EXCEPT ![1] = IF @ = "unsafe" THEN "safe" ELSE @]
  /\ Goto("restart", 1)
  /\ UNCHANGED <<proc, comp, cycle>>

\* log/startup<j>.sh; the one of node 1 says --wsrep-new-cluster.
RestartNode ==
  /\ stage = "restart"
  /\ Start(node, IF node = 1 THEN "bootstrapping" ELSE "starting")
  /\ Goto("ping", node)
  /\ UNCHANGED cycle

NextNode ==
  IF node < N THEN Goto("restart", node + 1) /\ UNCHANGED cycle
  ELSE IF cycle < MaxRounds THEN Goto("pquery", 1) /\ cycle' = cycle + 1
  ELSE Goto("done", 1) /\ UNCHANGED cycle

\* startup_check: the next node follows when this one answers ...
NodeAnswered ==
  /\ stage = "ping"
  /\ Answers(node)
  /\ NextNode
  /\ UNCHANGED clusterVars

\* ... and when it has refused TimerLimit pings.
NodeRefused ==
  /\ stage = "ping"
  /\ ~Answers(node)
  /\ IF timer + 1 < TimerLimit THEN timer' = timer + 1 /\ UNCHANGED <<stage, node, cycle>>
     ELSE NextNode
  /\ UNCHANGED clusterVars

DataLoadStep ==
  \/ RunPquery \/ KillServers \/ ForceBootstrap \/ RestartNode
  \/ NodeAnswered \/ NodeRefused

PqueryNext == DataLoadStep \/ (ServerStep /\ UNCHANGED loopVars)

PquerySpec == PqueryInit /\ [][PqueryNext]_pqueryVars

-------------------------------------------------------------------------------

\* No data directory is given to a second server: whatever a slow node of the
\* round before is still doing, it is dead when its turn comes.
DatadirExclusive == stage = "restart" => ~Running(node)

\* After kill -9 no node is safe to bootstrap from by its own account; node 1 is
\* never turned away all the same, and nobody else is told to bootstrap.
BootstrapNotRefused ==
  \A i \in Nodes : proc[i] = "bootstrapping" => i = 1 /\ datadir[i] # "unsafe"

\* Node 1 founds its new component when the old one is gone, and the servers
\* step through the membership changes of PrimaryComponent only.
MembershipSteps == [][PC!Next]_members

===============================================================================
