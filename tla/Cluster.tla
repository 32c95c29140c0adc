------------------------------- MODULE Cluster --------------------------------
(***************************************************************************)
(* The world the test scripts act on: one mariadbd server per node, its    *)
(* data directory and the Galera primary component it belongs to.  None of *)
(* this is code of the repository.  It is the part of the server that      *)
(* util/ and suite/ start, ping, query, shut down and kill, modelled from  *)
(* what they rely on; every definition here is external in PROJECT.json.   *)
(* The script modules EXTEND this one and call its operators as steps.     *)
(***************************************************************************)
EXTENDS Integers, FiniteSets

CONSTANTS
  N,           \* config.ini "node": the number of cluster nodes
  Components,  \* identities a primary component can be told apart by
  NoComponent  \* a server that is in no primary component

ASSUME NAssumption == N \in Nat \ {0}
ASSUME ComponentsAssumption == NoComponent \notin Components

Nodes == 1..N

VARIABLES
  proc,   \* the mariadbd process of a node
  comp,   \* the primary component its server is a member of
  datadir \* the data directory, with the safe_to_bootstrap of grastate.dat

clusterVars == <<proc, comp, datadir>>

\* "bootstrapping": started with --wsrep-new-cluster; "starting": without it;
\* "open": answers the client port; "synced": and reports Synced.
ProcStates == {"down", "bootstrapping", "starting", "open", "synced"}

\* "none": no directory; "broken": mariadb-install-db failed; "fresh": no
\* grastate.dat yet; "unsafe" and "safe": safe_to_bootstrap is 0 and 1.
DatadirStates == {"none", "broken", "fresh", "unsafe", "safe"}

ClusterTypeOK ==
  /\ proc \in [Nodes -> ProcStates]
  /\ comp \in [Nodes -> Components \cup {NoComponent}]
  /\ datadir \in [Nodes -> DatadirStates]

Running(i) == proc[i] # "down"

\* What a ping, a query or an admin command needs: the client port is open.
Answers(i) == proc[i] \in {"open", "synced"}

Members(c) == {i \in Nodes : comp[i] = c}

ClusterInit ==
  /\ proc = [i \in Nodes |-> "down"]
  /\ comp = [i \in Nodes |-> NoComponent]
  /\ datadir = [i \in Nodes |-> "none"]

-------------------------------------------------------------------------------
\* What a script does to the servers.

\* A background mariadbd.  When a server already runs on this node the second
\* one gives up on its ports and files.
Start(i, how) ==
  /\ proc' = IF Running(i) THEN proc ELSE [proc EXCEPT ![i] = how]
  /\ UNCHANGED <<comp, datadir>>

\* The members of K vanish at once.  The rest of a component stays primary only
\* while it is more than half of the last membership.
HasQuorum(c, K) ==
  2 * Cardinality(Members(c) \ K) > Cardinality(Members(c))

Lose(K) ==
  /\ comp' = [i \in Nodes |->
               IF i \notin K /\ comp[i] # NoComponent /\ HasQuorum(comp[i], K)
               THEN comp[i] ELSE NoComponent]
  /\ proc' = [i \in Nodes |->
               IF i \in K THEN "down"
               ELSE IF proc[i] = "synced" /\ comp'[i] = NoComponent THEN "open"
               ELSE proc[i]]
  /\ UNCHANGED datadir

\* A completed shutdown: the server leaves its component, and whoever leaves
\* last is the one that may bootstrap the next time.
Shutdown(i) ==
  /\ Answers(i)
  /\ proc' = [proc EXCEPT ![i] = "down"]
  /\ comp' = [comp EXCEPT ![i] = NoComponent]
  /\ datadir' = [datadir EXCEPT ![i] =
       IF comp[i] # NoComponent /\ Members(comp[i]) = {i} THEN "safe"
       ELSE "unsafe"]

-------------------------------------------------------------------------------
\* What the servers do by themselves.

\* --wsrep-new-cluster founds a component, without contacting the addresses in
\* wsrep_cluster_address.
Bootstrap(i) ==
  /\ proc[i] = "bootstrapping"
  /\ datadir[i] \in {"fresh", "safe"}
  /\ \E c \in Components :
       /\ \A j \in Nodes : comp[j] # c
       /\ comp' = [comp EXCEPT ![i] = c]
  /\ proc' = [proc EXCEPT ![i] = "synced"]
  /\ datadir' = [datadir EXCEPT ![i] = "unsafe"]

\* A joiner finds a synced member of a primary component and becomes a member;
\* it takes its state transfer with the client port still closed.
Join(i) ==
  /\ proc[i] = "starting"
  /\ comp[i] = NoComponent
  /\ datadir[i] \notin {"none", "broken"}
  /\ \E j \in Nodes :
       /\ proc[j] = "synced"
       /\ comp[j] # NoComponent
       /\ comp' = [comp EXCEPT ![i] = comp[j]]
  /\ datadir' = [datadir EXCEPT ![i] = "unsafe"]
  /\ UNCHANGED proc

OpenPort(i) ==
  /\ proc[i] = "starting"
  /\ comp[i] # NoComponent
  /\ proc' = [proc EXCEPT ![i] = "open"]
  /\ UNCHANGED <<comp, datadir>>

\* The member has applied what it missed.
CatchUp(i) ==
  /\ proc[i] = "open"
  /\ comp[i] # NoComponent
  /\ proc' = [proc EXCEPT ![i] = "synced"]
  /\ UNCHANGED <<comp, datadir>>

\* A start that fails (an option, a port, a refused bootstrap, no primary
\* component within pc.wait_prim_timeout) and a crash look the same.
Die(i) ==
  /\ Running(i)
  /\ Lose({i})

ServerStep ==
  \E i \in Nodes : Bootstrap(i) \/ Join(i) \/ OpenPort(i) \/ CatchUp(i) \/ Die(i)

-------------------------------------------------------------------------------

\* What the servers promise, seen from outside: the primary component, whichever
\* it is, as the set of its members.
members == {i \in Nodes : comp[i] # NoComponent}
PC == INSTANCE PrimaryComponent

\* No two servers are members of different primary components at one time: a
\* bootstrap never happens beside a cluster that is still running.
NoSplitBrain ==
  \A i, j \in Nodes :
    comp[i] # NoComponent /\ comp[j] # NoComponent => comp[i] = comp[j]

===============================================================================
