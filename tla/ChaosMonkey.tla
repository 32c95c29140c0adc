------------------------------ MODULE ChaosMonkey ------------------------------
(***************************************************************************)
(* suite/correctness/chaosmonkey-test.py: two nodes drawn from 2..N (with  *)
(* replacement: random.choices) are killed one after the other while       *)
(* sysbench runs on node 1, and started again.                             *)
(***************************************************************************)
EXTENDS Cluster, BackgroundLoad

ASSUME RunsAssumption == MaxRuns >= 1

VARIABLES
  pc,      \* where multi_recovery_test is
  victims, \* rand_nodes
  k,       \* the position in rand_nodes of the loop variable j
  pid,     \* sysbench_pid; {} is the empty string
  cohort,  \* the members when startup was done
  killed,  \* history: nodes the script has killed
  died     \* history: servers that went down by themselves

scriptVars == <<pc, victims, k, pid, load>>
vars == <<clusterVars, scriptVars, cohort, killed, died>>

\* "failed" is an exit(1): no server and no sysbench is touched.
Phases == {"prepare", "launch", "capture", "kill", "unload", "restart",
           "verdict", "done", "failed"}

TypeOK ==
  /\ ClusterTypeOK
  /\ LoadTypeOK
  /\ pc \in Phases
  /\ victims \in [1..2 -> 2..N]
  /\ k \in 1..2
  /\ pid \subseteq Runs
  /\ cohort \subseteq Nodes
  /\ killed \subseteq Nodes
  /\ died \subseteq Nodes

\* startup has seen the first and the last node answer.  A node between them
\* may have failed, or still be waiting for its state transfer.
Init ==
  /\ \E c \in Components, last \in {"synced", "open"},
        slow \in [2..(N - 1) -> {"synced", "open", "starting", "down"}] :
       /\ proc = [i \in Nodes |-> IF i \in 2..(N - 1) THEN slow[i]
                                  ELSE IF i = 1 THEN "synced" ELSE last]
       /\ cohort = {i \in Nodes : Answers(i)}
       /\ comp = [i \in Nodes |-> IF i \in cohort THEN c ELSE NoComponent]
       /\ datadir = [i \in Nodes |-> IF i \in cohort THEN "unsafe" ELSE "fresh"]
  /\ LoadInit
  /\ pc = "prepare"
  /\ victims \in [1..2 -> 2..N]
  /\ k = 1
  /\ pid = {}
  /\ killed = {}
  /\ died = {}

-------------------------------------------------------------------------------

Prepare ==
  /\ pc = "prepare"
  /\ \/ Answers(1) /\ comp[1] # NoComponent /\ pc' = "launch"
     \/ pc' = "failed"
  /\ UNCHANGED <<clusterVars, victims, k, pid, load, cohort, killed, died>>

LaunchLoad ==
  /\ pc = "launch"
  /\ LaunchRun
  /\ pc' = "capture"
  /\ UNCHANGED <<clusterVars, victims, k, pid, cohort, killed, died>>

\* pidof sysbench
CapturePid ==
  /\ pc = "capture"
  /\ pid' = Visible
  /\ pc' = "kill"
  /\ UNCHANGED <<clusterVars, victims, k, load, cohort, killed, died>>

\* Both loops over rand_nodes.
NextVictim(loop, after) ==
  IF k = 1 THEN pc' = loop /\ k' = 2 ELSE pc' = after /\ k' = 1

\* Fault: both pids are collected first and killed at once.
KillNodeBoth ==
  /\ pc = "kill"
  /\ \A i \in 1..2 : Answers(victims[i])
  /\ Lose({victims[1], victims[2]})
  /\ killed' = {victims[1], victims[2]}
  /\ pc' = "unload"
  /\ UNCHANGED <<k, victims, pid, load, cohort, died>>

\* Fault: the result of the kill is not checked.
KillNodeUnchecked ==
  /\ pc = "kill"
  /\ IF Answers(victims[k])
     THEN Lose({victims[k]}) /\ killed' = killed \cup {victims[k]}
     ELSE UNCHANGED <<clusterVars, killed>>
  /\ NextVictim("kill", "unload")
  /\ UNCHANGED <<victims, pid, load, cohort, died>>

\* A node that does not answer, one that is drawn for the second time as well,
\* has no pid file to read: the kill fails.
KillNode ==
  /\ pc = "kill"
  /\ \/ /\ Answers(victims[k])
        /\ Lose({victims[k]})
        /\ killed' = killed \cup {victims[k]}
        /\ NextVictim("kill", "unload")
     \/ /\ ~Answers(victims[k])
        /\ pc' = "failed"
        /\ UNCHANGED <<clusterVars, killed, k>>
  /\ UNCHANGED <<victims, pid, load, cohort, died>>

\* Fault: the result of the kill is not checked.
KillLoadUnchecked ==
  /\ pc = "unload"
  /\ KillRuns(pid)
  /\ pc' = "restart"
  /\ UNCHANGED <<clusterVars, victims, k, pid, cohort, killed, died>>

\* Unlike in crash_recovery.py the result of this kill is checked.
KillLoad ==
  /\ pc = "unload"
  /\ KillRuns(pid)
  /\ pc' = IF pid # {} /\ pid \subseteq Visible THEN "restart" ELSE "failed"
  /\ UNCHANGED <<clusterVars, victims, k, pid, cohort, killed, died>>

\* log/startup<j>.sh, in the background: its status is always 0, and nobody
\* waits for the node.
RestartNode ==
  /\ pc = "restart"
  /\ Start(victims[k], "starting")
  /\ NextVictim("restart", "verdict")
  /\ UNCHANGED <<victims, pid, load, cohort, killed, died>>

Verdict ==
  /\ pc = "verdict"
  /\ pc' \in {"done", "failed"}
  /\ UNCHANGED <<clusterVars, victims, k, pid, load, cohort, killed, died>>

ScriptStep ==
  \/ Prepare \/ LaunchLoad \/ CapturePid \/ KillNode \/ KillLoad
  \/ RestartNode \/ Verdict

-------------------------------------------------------------------------------

ServersByThemselves ==
  /\ ServerStep
  /\ died' = died \cup {i \in Nodes : Running(i) /\ proc'[i] = "down"}
  /\ UNCHANGED <<scriptVars, cohort, killed>>

LoadByItself ==
  /\ LoadStep
  /\ UNCHANGED <<clusterVars, pc, victims, k, pid, cohort, killed, died>>

Next == ScriptStep \/ ServersByThemselves \/ LoadByItself

Spec == Init /\ [][Next]_vars

-------------------------------------------------------------------------------

\* Two kills in a row do not cost the cluster its quorum: if four or more nodes
\* were members when the test began and no server crashes, all that were not
\* killed stay in node 1's primary component, also while the killed ones join.
PrimaryKept ==
  Cardinality(cohort) >= 4 /\ died = {} =>
    \A i \in cohort \ killed :
      Running(i) /\ comp[i] # NoComponent /\ comp[i] = comp[1]

\* A node drawn twice never reaches the restarts: each node that is started
\* again was killed before and has not been started since.
RestartsTheKilled ==
  pc = "restart" =>
    victims[1] # victims[2] /\ killed = {victims[1], victims[2]}
    /\ ~Running(victims[2]) /\ (k = 1 => ~Running(victims[1]))

\* The tables are compared only after the sysbench run is gone, killed by the
\* script, so that a difference is not a write in flight.
LoadKilledFirst ==
  pc \in {"restart", "verdict"} => \A r \in Runs : load[r] \in {"none", "killed"}

===============================================================================
