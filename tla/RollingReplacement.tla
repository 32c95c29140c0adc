-------------------------- MODULE RollingReplacement ---------------------------
(***************************************************************************)
(* suite/upgrade/galera_upgrade_replacement.py: the nodes of a cluster of  *)
(* the old version are replaced by nodes of the new one.  Each new node is *)
(* configured from the one before it, joins, is treated with               *)
(* mariadb-upgrade and becomes the donor of the next; in the end the old   *)
(* nodes are shut down.                                                    *)
(***************************************************************************)
EXTENDS NodeJoiner

CONSTANT
  PingLimit \* range(300) in startup_check

ASSUME PingLimitAssumption == PingLimit \in Nat \ {0}

\* Numbers of nodes are offsets from 2 and 3 whatever "node" is.
ASSUME RoomAssumption == N = Founders + 3

VARIABLES
  pc,       \* where rolling_replacement or stop_galera is
  round,    \* the loop variable
  pings,    \* startup_timer
  replaced, \* the new nodes mariadb-upgrade has succeeded on
  died      \* history: servers that went down by themselves

scriptVars == <<pc, round, pings, replaced>>
vars == <<clusterVars, joinerVars, scriptVars, died>>

\* "failed": exit(1) or an exception, with all servers as they are.
Phases == {"address", "port", "launch", "ping", "sync", "upgrade",
           "stop", "stopped", "failed"}

TypeOK ==
  /\ ClusterTypeOK
  /\ JoinerTypeOK
  /\ pc \in Phases
  /\ round \in 1..Founders
  /\ pings \in 0..(PingLimit - 1)
  /\ replaced \subseteq Nodes
  /\ died \subseteq Nodes

\* Fault: node 3 is the donor of every new node.
DonorFirst == 3

Donor == round + 2

\* Fault: the numbers of the files are one too low.
JoinerLow == round + 2

Joiner == round + 3

\* startup has seen node 1, which bootstrapped, and the last of the founders answer
\* a ping; a node between them may have failed or be late.
Init ==
  /\ \E c \in Components, last \in {"synced", "open"},
        slow \in [2..(Founders - 1) -> {"synced", "open", "starting", "down"}] :
       /\ proc = [n \in Nodes |-> IF n > Founders THEN "down"
                                  ELSE IF n \in 2..(Founders - 1) THEN slow[n]
                                  ELSE IF n = 1 THEN "synced" ELSE last]
       /\ comp = [n \in Nodes |-> IF Answers(n) THEN c ELSE NoComponent]
       /\ datadir = [n \in Nodes |-> IF n > Founders THEN "none"
                                     ELSE IF Answers(n) THEN "unsafe" ELSE "fresh"]
  /\ JoinerInit
  /\ pc = "address"
  /\ round = 1
  /\ pings = 0
  /\ replaced = {}
  /\ died = {}

-------------------------------------------------------------------------------

Goto(p, n) == pc' = p /\ round' = n /\ pings' = 0

Exit == Goto("failed", round)

\* The copy of the donor's file, which must be there, and the first query.
ReadAddress ==
  /\ pc = "address"
  /\ IF Configured(Donor) THEN AskAddress(Donor) /\ Goto("port", round)
     ELSE Exit /\ UNCHANGED addr
  /\ UNCHANGED <<clusterVars, conf, replaced, died>>

\* Without an answer int() of the port raises a ValueError.
ReadPort ==
  /\ pc = "port"
  /\ \/ WriteConf(Donor, Joiner) /\ Goto("launch", round)
     \/ ~Answers(Donor) /\ Exit /\ UNCHANGED <<clusterVars, joinerVars>>
  /\ UNCHANGED <<replaced, died>>

\* mariadbd of the upper version, in the background.
LaunchJoiner ==
  /\ pc = "launch"
  /\ Start(Joiner, "starting")
  /\ Goto("ping", round)
  /\ UNCHANGED <<joinerVars, replaced, died>>

\* Fault: a node that answers will do.
PingAnsweredOnly ==
  /\ pc = "ping"
  /\ Answers(Joiner)
  /\ Goto("upgrade", round)
  /\ UNCHANGED <<clusterVars, joinerVars, replaced, died>>

PingAnswered ==
  /\ pc = "ping"
  /\ Answers(Joiner)
  /\ Goto("sync", round)
  /\ UNCHANGED <<clusterVars, joinerVars, replaced, died>>

\* ERROR! Node is not synced with cluster.
PingRefused ==
  /\ pc = "ping"
  /\ ~Answers(Joiner)
  /\ IF pings + 1 < PingLimit THEN pings' = pings + 1 /\ UNCHANGED <<pc, round>> ELSE Exit
  /\ UNCHANGED <<clusterVars, joinerVars, replaced, died>>

\* The loop around the status query has no limit.
SeeSynced ==
  /\ pc = "sync"
  /\ proc[Joiner] = "synced"
  /\ Goto("upgrade", round)
  /\ UNCHANGED <<clusterVars, joinerVars, replaced, died>>

\* mariadb-upgrade, and on to the next node.
UpgradeJoiner ==
  /\ pc = "upgrade"
  /\ \/ /\ Answers(Joiner)
        /\ replaced' = replaced \cup {Joiner}
        /\ IF round < Founders THEN Goto("address", round + 1) ELSE Goto("stop", Founders)
     \/ Exit /\ UNCHANGED replaced
  /\ UNCHANGED <<clusterVars, joinerVars, died>>

\* Fault: the old nodes are killed all at once.
StopNodeKill ==
  /\ pc = "stop"
  /\ Lose(1..Founders)
  /\ Goto("stopped", 1)
  /\ UNCHANGED <<joinerVars, replaced, died>>

\* utility.stop_galera, for the nodes of config.ini: the new ones keep running.
StopNode ==
  /\ pc = "stop"
  /\ \/ Shutdown(round) /\ IF round > 1 THEN Goto("stop", round - 1) ELSE Goto("stopped", 1)
     \/ ~Answers(round) /\ Exit /\ UNCHANGED clusterVars
  /\ UNCHANGED <<joinerVars, replaced, died>>

ScriptStep ==
  \/ ReadAddress \/ ReadPort \/ LaunchJoiner \/ PingAnswered \/ PingRefused
  \/ SeeSynced \/ UpgradeJoiner \/ StopNode

ServersByThemselves ==
  /\ ServerStepByAddress
  /\ died' = died \cup {n \in Nodes : Running(n) /\ proc'[n] = "down"}
  /\ UNCHANGED <<joinerVars, scriptVars>>

Next == ScriptStep \/ ServersByThemselves

Spec == Init /\ [][Next]_vars

-------------------------------------------------------------------------------

\* A new node finds its way in although its list was put together from its
\* donor's and the donor's own address may be spoilt in it: as long as no server
\* crashes, the list names a member that can donate.
JoinerCanReach ==
  died = {} /\ pc \in {"launch", "ping", "sync"} => CanReach(Joiner)

\* The donor of the next node is a member beside node 1 and answers the queries
\* for its address and port; a new one is Synced as well, since the loop before
\* its upgrade saw it so.  Of the first, a founder, nobody asked more than a ping.
DonorReady ==
  died = {} /\ pc \in {"address", "port"} =>
    /\ Answers(Donor) /\ comp[Donor] # NoComponent /\ comp[Donor] = comp[1]
    /\ Donor > Founders => proc[Donor] = "synced"

\* The cluster is handed over: from the moment it is upgraded a new node stays in
\* the one primary component, while the old nodes leave and after they have left,
\* as long as no server crashes.
HandedOver ==
  /\ died = {} => \A m, n \in replaced : comp[m] = comp[n] /\ comp[m] # NoComponent
  /\ died = {} /\ pc = "stopped" =>
       /\ \A n \in Nodes : comp[n] # NoComponent <=> n > Founders
       /\ replaced = {n \in Nodes : n > Founders}

===============================================================================
