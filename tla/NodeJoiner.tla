------------------------------ MODULE NodeJoiner -------------------------------
(***************************************************************************)
(* The configuration files of the nodes: create_config of StartCluster     *)
(* (util/galera_startup.py) writes those of the founders, node_joiner of   *)
(* Utility (util/utility.py) and, in a copy of its own, rolling_replace-   *)
(* ment (suite/upgrade/galera_upgrade_replacement.py) derive the file of   *)
(* one more node from a donor that runs.  Ports are counted in hundreds    *)
(* from the port drawn; a node's cluster address is its port + 8, so that  *)
(* an address is modelled by the port.                                     *)
(***************************************************************************)
EXTENDS Cluster

CONSTANT Founders \* config.ini "node": the nodes of start_galera

ASSUME FoundersAssumption == Founders \in Nat \ {0} /\ Founders < N

VARIABLES
  conf, \* node<i>.cnf, and what the server that was started with it shows
  addr  \* wsrep_cluster_addr, as the donor has given it

joinerVars == <<conf, addr>>

\* The peers are the addresses of wsrep_cluster_address that are well formed;
\* the list is open when it ends with a comma.
Confs == [port : 0..(Founders + N), peers : SUBSET (1..(Founders + N)),
          open : BOOLEAN, server_id : 0..(10 + N)]

NoConf == [port |-> 0, peers |-> {}, open |-> FALSE, server_id |-> 0]

Lists == [peers : SUBSET (1..(Founders + N)), open : BOOLEAN]

\* The empty output of a query that failed: nothing precedes what is appended.
NoList == [peers |-> {}, open |-> FALSE]

JoinerTypeOK == conf \in [Nodes -> Confs] /\ addr \in Lists

Configured(i) == conf[i] # NoConf

\* All the addresses, each followed by a comma.
FounderConf(i) ==
  [port |-> i, peers |-> 1..Founders, open |-> TRUE, server_id |-> 10 + i]

JoinerInit ==
  /\ conf = [i \in Nodes |-> IF i \in 1..Founders THEN FounderConf(i) ELSE NoConf]
  /\ addr = NoList

\* Fault: the new file names its own address only.
JoinerConfAlone(list, port) ==
  [port |-> port, peers |-> {port}, open |-> FALSE, server_id |-> 14]

\* The new address is appended without a comma of its own.  To a list that is
\* not open the last entry, the donor's, and the new one make one bad address.
\* After an empty list it stands without gcomm:// and is no address either.
JoinerConf(list, port) ==
  [port |-> port,
   peers |-> IF list.open THEN list.peers \cup {port} ELSE list.peers \ {port - 1},
   open |-> FALSE,
   server_id |-> 14]

-------------------------------------------------------------------------------

\* show variables like 'wsrep_cluster_address', on the donor.
AskAddress(donor) ==
  addr' = IF Answers(donor) THEN [peers |-> conf[donor].peers, open |-> conf[donor].open]
          ELSE NoList

\* select @@port, on the donor; the copy of its file is edited, and the data
\* directory of the joiner removed and made anew, empty.
WriteConf(donor, joiner) ==
  /\ Answers(donor)
  /\ conf' = [conf EXCEPT ![joiner] = JoinerConf(addr, conf[donor].port + 1)]
  /\ datadir' = [datadir EXCEPT ![joiner] = "fresh"]
  /\ UNCHANGED <<proc, comp, addr>>

\* A server joins through a member at one of the addresses in its list.
Contact(i, j) == j # i /\ Configured(j) /\ conf[j].port \in conf[i].peers

JoinByAddress(i) ==
  /\ Join(i)
  /\ \E j \in Nodes : Contact(i, j) /\ comp[j] = comp'[i]

\* Cluster's ServerStep, without bootstraps: no script here founds a component.
ServerStepByAddress ==
  \E i \in Nodes : JoinByAddress(i) \/ OpenPort(i) \/ CatchUp(i) \/ Die(i)

-------------------------------------------------------------------------------

\* No two nodes of the cluster are given one port.
PortsDistinct ==
  \A i, j \in Nodes : i # j /\ Configured(i) /\ Configured(j) => conf[i].port # conf[j].port

\* Whether a list of addresses names a member that can donate a state.
CanReach(i) ==
  \E j \in Nodes : Contact(i, j) /\ proc[j] = "synced" /\ comp[j] # NoComponent

\* No step empties the data directory of a server that runs: the number of the
\* joiner is that of no node of the cluster.
LiveDatadirKept ==
  [][\A i \in Nodes : Running(i) /\ datadir'[i] = "fresh" => datadir[i] = "fresh"
    ]_<<clusterVars, joinerVars>>

===============================================================================
