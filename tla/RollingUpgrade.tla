---------------------------- MODULE RollingUpgrade -----------------------------
(***************************************************************************)
(* rolling_upgrade of suite/upgrade/galera_upgrade.py: the nodes of a      *)
(* running cluster, the last one first, are shut down, started again with  *)
(* the binaries of the new version and treated with mariadb-upgrade; then  *)
(* the tables are compared and the cluster is stopped.                     *)
(***************************************************************************)
EXTENDS Cluster

CONSTANT PingLimit \* range(300) in startup_check

ASSUME PingLimitAssumption == PingLimit \in Nat \ {0}

VARIABLES
  stage,    \* where rolling_upgrade is
  sst,      \* upgrade_type is readwrite_sst
  node,     \* the loop variable i
  pings,    \* startup_timer
  version,  \* the binaries each server was last started with
  upgraded, \* the nodes mariadb-upgrade has succeeded on
  original, \* the members when startup was done
  crashed   \* history: servers that went down by themselves

loopVars == <<stage, sst, node, pings, version, upgraded>>
upgradeVars == <<clusterVars, loopVars, original, crashed>>

\* "failed" is an exit(1): no server is touched.
Stages == {"shutdown", "load", "restart", "ping", "upgrade", "oltp", "verdict",
           "stop", "stopped", "failed"}

UpgradeTypeOK ==
  /\ ClusterTypeOK
  /\ stage \in Stages
  /\ sst \in BOOLEAN
  /\ node \in Nodes
  /\ pings \in 0..(PingLimit - 1)
  /\ version \in [Nodes -> {"lower", "upper"}]
  /\ upgraded \subseteq Nodes
  /\ original \subseteq Nodes
  /\ crashed \subseteq Nodes

\* startup has seen the first and the last node answer.  A node between them
\* may have failed, or still be waiting for its state transfer.
UpgradeInit ==
  /\ \E c \in Components, last \in {"synced", "open"},
        slow \in [2..(N - 1) -> {"synced", "open", "starting", "down"}] :
       /\ proc = [i \in Nodes |-> IF i \in 2..(N - 1) THEN slow[i]
                                  ELSE IF i = 1 THEN "synced" ELSE last]
       /\ original = {i \in Nodes : Answers(i)}
       /\ comp = [i \in Nodes |-> IF i \in original THEN c ELSE NoComponent]
       /\ datadir = [i \in Nodes |-> IF i \in original THEN "unsafe" ELSE "fresh"]
  /\ stage = "shutdown"
  /\ sst \in BOOLEAN
  /\ node = N
  /\ pings = 0
  /\ version = [i \in Nodes |-> "lower"]
  /\ upgraded = {}
  /\ crashed = {}

-------------------------------------------------------------------------------

Goto(p, i) ==
  /\ stage' = p
  /\ node' = i
  /\ pings' = 0

Exit == Goto("failed", node)

\* The sysbench run on the node is killed by its command line and the server is
\* shut down.
ShutdownNode ==
  /\ stage = "shutdown"
  /\ \/ Shutdown(node) /\ Goto(IF sst /\ node = 3 THEN "load" ELSE "restart", node)
     \/ ~Answers(node) /\ Exit /\ UNCHANGED clusterVars
  /\ UNCHANGED <<sst, version, upgraded, original, crashed>>

\* readwrite_sst: three databases are loaded through node 1 while node 3 is
\* away, too much for an incremental state transfer.
LoadWhileAway ==
  /\ stage = "load"
  /\ \/ Answers(1) /\ comp[1] # NoComponent /\ Goto("restart", node)
     \/ Exit
  /\ UNCHANGED <<clusterVars, sst, version, upgraded, original, crashed>>

\* mariadbd of the upper version, in the background, never --wsrep-new-cluster.
RestartUpper ==
  /\ stage = "restart"
  /\ Start(node, "starting")
  /\ version' = [version EXCEPT ![node] = "upper"]
  /\ Goto("ping", node)
  /\ UNCHANGED <<sst, upgraded, original, crashed>>

\* startup_check: its Synced loop is for versions above 080000, and version_check
\* gives four digits, "1006" for 10.6.
PingAnswered ==
  /\ stage = "ping"
  /\ Answers(node)
  /\ Goto("upgrade", node)
  /\ UNCHANGED <<clusterVars, sst, version, upgraded, original, crashed>>

\* Fault: as in the other suites, a timeout ends the loop and nothing more.
PingRefusedSilent ==
  /\ stage = "ping"
  /\ ~Answers(node)
  /\ IF pings + 1 < PingLimit THEN pings' = pings + 1 /\ UNCHANGED <<stage, node>>
     ELSE IF node > 1 THEN Goto("shutdown", node - 1) ELSE Goto("oltp", 1)
  /\ UNCHANGED <<clusterVars, sst, version, upgraded, original, crashed>>

\* STARTUP TIMEOUT ERROR!
PingRefused ==
  /\ stage = "ping"
  /\ ~Answers(node)
  /\ IF pings + 1 < PingLimit THEN pings' = pings + 1 /\ UNCHANGED <<stage, node>>
     ELSE Exit
  /\ UNCHANGED <<clusterVars, sst, version, upgraded, original, crashed>>

UpgradeLastSkipped == \* Fault: the loop ends one node early.
  /\ stage = "upgrade"
  /\ \/ /\ Answers(node)
        /\ upgraded' = upgraded \cup {node}
        /\ IF node > 2 THEN Goto("shutdown", node - 1) ELSE Goto("oltp", 1)
     \/ Exit /\ UNCHANGED upgraded
  /\ UNCHANGED <<clusterVars, sst, version, original, crashed>>

\* mariadb-upgrade, and on to the next node.
UpgradeNode ==
  /\ stage = "upgrade"
  /\ \/ /\ Answers(node)
        /\ upgraded' = upgraded \cup {node}
        /\ IF node > 1 THEN Goto("shutdown", node - 1) ELSE Goto("oltp", 1)
     \/ Exit /\ UNCHANGED upgraded
  /\ UNCHANGED <<clusterVars, sst, version, original, crashed>>

\* sysbench on node 1, in the foreground.
OltpAfterUpgrade ==
  /\ stage = "oltp"
  /\ \/ Answers(1) /\ comp[1] # NoComponent /\ Goto("verdict", 1)
     \/ Exit
  /\ UNCHANGED <<clusterVars, sst, version, upgraded, original, crashed>>

\* Six times check_table_count.
CompareTables ==
  /\ stage = "verdict"
  /\ Goto("stop", N) \/ Exit
  /\ UNCHANGED <<clusterVars, sst, version, upgraded, original, crashed>>

\* utility.stop_galera
StopNode ==
  /\ stage = "stop"
  /\ \/ Shutdown(node) /\ IF node > 1 THEN Goto("stop", node - 1) ELSE Goto("stopped", 1)
     \/ ~Answers(node) /\ Exit /\ UNCHANGED clusterVars
  /\ UNCHANGED <<sst, version, upgraded, original, crashed>>

UpgradeStep ==
  \/ ShutdownNode \/ LoadWhileAway \/ RestartUpper \/ PingAnswered \/ PingRefused
  \/ UpgradeNode \/ OltpAfterUpgrade \/ CompareTables \/ StopNode

ServersMeanwhile ==
  /\ ServerStep
  /\ crashed' = crashed \cup {i \in Nodes : Running(i) /\ proc'[i] = "down"}
  /\ UNCHANGED <<loopVars, original>>

UpgradeNext == UpgradeStep \/ ServersMeanwhile

UpgradeSpec == UpgradeInit /\ [][UpgradeNext]_upgradeVars

-------------------------------------------------------------------------------

\* The upgrade is a rolling one: as long as no server crashes, every member but
\* the node in hand stays in one primary component from the first shutdown to
\* the comparison of the tables, although no node's Synced is awaited.
OneNodeAway ==
  crashed = {} /\ stage \notin {"stop", "stopped", "failed"} =>
    \A i, j \in original \ {node} : comp[i] = comp[j] /\ comp[i] # NoComponent

\* The tables that are compared are those of an upgraded cluster: each node runs
\* the new binaries, was treated with mariadb-upgrade, and without a crash is a
\* member beside node 1.
ComparedUpgraded ==
  stage \in {"oltp", "verdict"} =>
    \A i \in Nodes :
      /\ version[i] = "upper" /\ i \in upgraded
      /\ crashed = {} => comp[i] # NoComponent /\ comp[i] = comp[1]

===============================================================================
