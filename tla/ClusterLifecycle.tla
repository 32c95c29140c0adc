--------------------------- MODULE ClusterLifecycle ---------------------------
(***************************************************************************)
(* How a QA script brings a Galera cluster up and down: the methods of     *)
(* StartCluster (util/galera_startup.py) in the order Utility.start_galera *)
(* and the suites call them, Utility.stop_galera, and the ways scripts     *)
(* chain them: a second scenario on top of a running cluster, a restart on *)
(* the old data directories, an exit(1) that leaves every server running.  *)
(* The script is one sequential process; the servers of Cluster interleave *)
(* with every step of it.                                                  *)
(***************************************************************************)
EXTENDS Cluster

CONSTANTS
  PingLimit, \* range(120) in start_cluster
  MaxRounds  \* bound: scenarios one script chains (3 in crash_recovery.py)

ASSUME PingLimitAssumption == PingLimit \in Nat \ {0}
ASSUME MaxRoundsAssumption == MaxRounds \in Nat

VARIABLES
  pc,      \* the method the script is in
  mode,    \* the order the methods are called in
  node,    \* the loop variable of the method
  pings,   \* startup_timer
  conf,    \* conf/node<i>.cnf exist
  rounds   \* scenarios begun by this script

scriptVars == <<pc, mode, node, pings, conf, rounds>>
vars == <<clusterVars, scriptVars>>

Modes == {"start", "init_first", "restart"}

Phases == {"idle", "sanity", "config", "init", "launch", "ping", "connect",
           "run", "stop", "stopped"}

TypeOK ==
  /\ ClusterTypeOK
  /\ pc \in Phases
  /\ mode \in Modes
  /\ node \in Nodes
  /\ pings \in 0..PingLimit
  /\ conf \in BOOLEAN
  /\ rounds \in 0..MaxRounds

\* Fault: the pattern of the kill finds node 1 only.
MatchedNodeOne == {i \in Nodes : i = 1}

\* ps | grep '/conf/node[0-9].cnf': the names of nodes 1 to 9.
Matched == {i \in Nodes : i <= 9}

Init ==
  /\ ClusterInit
  /\ pc = "idle"
  /\ mode = "start"
  /\ node = 1
  /\ pings = 0
  /\ conf = FALSE
  /\ rounds = 0

-------------------------------------------------------------------------------

Goto(p, i) ==
  /\ pc' = p
  /\ node' = i
  /\ pings' = 0

\* check_testcase on a nonzero result, or a bare exit(1): no server is touched.
Exit == Goto("idle", 1)

\* utility.start_galera calls create_config, then initialize_cluster; the wsrep
\* provider test calls them the other way round, and only create_config before
\* it starts a stopped cluster again.
AfterSanity == IF mode = "init_first" THEN "init" ELSE "config"
AfterConfigNoInit == "launch" \* Fault: initialize_cluster is skipped.
AfterConfig == IF mode = "start" THEN "init" ELSE "launch"
AfterInit == IF mode = "init_first" THEN "config" ELSE "launch"

BeginScript(m) ==
  /\ pc = "idle"
  /\ m \in {"start", "init_first"}
  /\ mode' = m
  /\ rounds' = 0
  /\ Goto("sanity", 1)
  /\ UNCHANGED <<clusterVars, conf>>

\* galera_util.py --stop: a script of its own for what an earlier one left.
BeginStop ==
  /\ pc = "idle"
  /\ rounds' = 0
  /\ Goto("stop", N)
  /\ UNCHANGED <<clusterVars, mode, conf>>

\* Fault: sanity_check kills nothing.
SanityCheckNoKill ==
  /\ pc = "sanity"
  /\ \/ Goto(AfterSanity, 1)
     \/ Exit
  /\ UNCHANGED <<clusterVars, mode, conf, rounds>>

\* sanity_check
SanityCheck ==
  /\ pc = "sanity"
  /\ Lose(Matched)
  /\ \/ Goto(AfterSanity, 1)
     \/ Exit                        \* bin/mariadbd does not exist
  /\ UNCHANGED <<mode, conf, rounds>>

\* create_config
CreateConfig ==
  /\ pc = "config"
  /\ \/ conf' = TRUE /\ Goto(AfterConfig, 1)
     \/ conf' = conf /\ Exit        \* conf/mdg.cnf is missing
  /\ UNCHANGED <<clusterVars, mode, rounds>>

\* One iteration of initialize_cluster.  Only the last mariadb-install-db
\* decides the result of the method.
InitializeNode ==
  /\ pc = "init"
  /\ \/ /\ ~conf
        /\ datadir' = [datadir EXCEPT ![node] = "none"]
        /\ Exit
     \/ /\ conf
        /\ \E installed \in {"fresh", "broken"} :
             /\ datadir' = [datadir EXCEPT ![node] = installed]
             /\ IF node < N THEN Goto("init", node + 1)
                ELSE IF installed = "fresh"
                     THEN Goto(AfterInit, 1)
                     ELSE Exit
  /\ UNCHANGED <<proc, comp, mode, conf, rounds>>

\* start_cluster launches one node in the background ...
LaunchNode ==
  /\ pc = "launch"
  /\ Start(node, IF node = 1 THEN "bootstrapping" ELSE "starting")
  /\ Goto("ping", node)
  /\ UNCHANGED <<mode, conf, rounds>>

\* ... and pings it until it answers,
PingAnswered ==
  /\ pc = "ping"
  /\ Answers(node)
  /\ IF node < N THEN Goto("launch", node + 1) ELSE Goto("connect", 1)
  /\ UNCHANGED <<clusterVars, mode, conf, rounds>>

\* Fault: the ping loop ends on an answer only.
PingRefusedUnbounded ==
  /\ pc = "ping"
  /\ ~Answers(node)
  /\ pings' = pings + 1
  /\ UNCHANGED <<clusterVars, pc, node, mode, conf, rounds>>

\* Fault: the ping loop does not count.
PingRefusedUncounted ==
  /\ pc = "ping"
  /\ ~Answers(node)
  /\ UNCHANGED vars

\* or for PingLimit times.  The next node follows in either case, and the
\* status of the last node is the one that is returned.
PingRefused ==
  /\ pc = "ping"
  /\ ~Answers(node)
  /\ IF pings + 1 < PingLimit
     THEN pings' = pings + 1 /\ UNCHANGED <<pc, node>>
     ELSE IF node < N THEN Goto("launch", node + 1)
          ELSE Exit
  /\ UNCHANGED <<clusterVars, mode, conf, rounds>>

\* connection_check through the socket of node 1.
ConnectionCheck ==
  /\ pc = "connect"
  /\ IF Answers(1) THEN Goto("run", 1) ELSE Exit
  /\ UNCHANGED <<clusterVars, mode, conf, rounds>>

\* The tests are over: stop_galera, ...
StopGalera ==
  /\ pc = "run"
  /\ Goto("stop", N)
  /\ UNCHANGED <<clusterVars, mode, conf, rounds>>

\* ... or an end of the script, or a failed check, without it.
AbandonCluster ==
  /\ pc = "run"
  /\ Exit
  /\ UNCHANGED <<clusterVars, mode, conf, rounds>>

\* Fault: range(NODE, 1, -1) spares node 1.
StopNodeButFirst ==
  /\ pc = "stop"
  /\ Shutdown(node)
  /\ IF node > 2 THEN Goto("stop", node - 1) ELSE Goto("stopped", 1)
  /\ UNCHANGED <<mode, conf, rounds>>

\* Fault: the result of a shutdown is not checked.
StopNodeUnchecked ==
  /\ pc = "stop"
  /\ IF Answers(node) THEN Shutdown(node) ELSE UNCHANGED clusterVars
  /\ IF node > 1 THEN Goto("stop", node - 1) ELSE Goto("stopped", 1)
  /\ UNCHANGED <<mode, conf, rounds>>

\* One iteration of stop_galera: NODE down to 1.
StopNode ==
  /\ pc = "stop"
  /\ \/ /\ Shutdown(node)
        /\ IF node > 1 THEN Goto("stop", node - 1) ELSE Goto("stopped", 1)
     \/ /\ ~Answers(node)
        /\ Exit
        /\ UNCHANGED clusterVars
  /\ UNCHANGED <<mode, conf, rounds>>

\* Another start_galera, with the cluster running or stopped.
NextScenario ==
  /\ pc \in {"run", "stopped"}
  /\ rounds < MaxRounds
  /\ rounds' = rounds + 1
  /\ mode' = "start"
  /\ Goto("sanity", 1)
  /\ UNCHANGED <<clusterVars, conf>>

\* Another create_config and start_cluster on the data of the stopped cluster.
RestartCluster ==
  /\ pc = "stopped"
  /\ rounds < MaxRounds
  /\ rounds' = rounds + 1
  /\ mode' = "restart"
  /\ Goto("config", 1)
  /\ UNCHANGED <<clusterVars, conf>>

EndScript ==
  /\ pc = "stopped"
  /\ Exit
  /\ UNCHANGED <<clusterVars, mode, conf, rounds>>

ScriptStep ==
  \/ SanityCheck \/ CreateConfig \/ InitializeNode
  \/ LaunchNode \/ PingAnswered \/ PingRefused \/ ConnectionCheck
  \/ StopGalera \/ AbandonCluster \/ StopNode
  \/ NextScenario \/ RestartCluster \/ EndScript

ClusterStep == ServerStep /\ UNCHANGED scriptVars

Next ==
  \/ \E m \in Modes : BeginScript(m)
  \/ BeginStop
  \/ ScriptStep
  \/ ClusterStep

Spec == Init /\ [][Next]_vars

\* The interpreter keeps executing a script that was begun.  Nothing is assumed
\* of the servers: they may stay silent for ever.
FairSpec == Spec /\ WF_vars(ScriptStep)

-------------------------------------------------------------------------------

\* The data directory of a running server is never removed, and no second server
\* is launched on it: initialize_cluster and start_cluster meet stopped nodes
\* only, whatever the scenario before them left behind.
DatadirExclusive ==
  pc \in {"init", "launch"} => ~Running(node)

\* A server started with --wsrep-new-cluster is never turned away by its
\* grastate.dat: stop_galera leaves node 1 as the last member, so that
\* start_cluster may bootstrap from it again.
BootstrapNotRefused ==
  \A i \in Nodes : proc[i] = "bootstrapping" => i = 1 /\ datadir[i] # "unsafe"

\* When stop_galera reports success for each node, nothing runs any more and
\* node 1 alone is safe to bootstrap.  A start-up failure that start_cluster
\* masked, a crash during the tests or a lost quorum never gets this far.
CleanStop ==
  pc = "stopped" =>
    \A i \in Nodes : ~Running(i) /\ datadir[i] = IF i = 1 THEN "safe" ELSE "unsafe"

\* Every script that begins comes to an end, be it by exit(1), even if no
\* server ever answers: the loops of start_cluster and stop_galera are bounded.
ScriptEnds == (pc # "idle") ~> (pc = "idle")

\* The servers that the scripts start, stop and kill never form two primary
\* components, and a new one is founded only when the old one is gone.
OnePrimaryComponent == PC!Spec

===============================================================================
