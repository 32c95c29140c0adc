---------------------------- MODULE BackgroundLoad -----------------------------
(***************************************************************************)
(* The sysbench oltp runs that SysbenchRun (util/sysbench_run.py) starts   *)
(* on node 1 in the background, and what the scripts know of them: the     *)
(* pids that pidof prints.                                                 *)
(***************************************************************************)
EXTENDS Integers

CONSTANT MaxRuns \* how often the script reaches sysbench_run

ASSUME MaxRunsAssumption == MaxRuns \in Nat

Runs == 1..MaxRuns

VARIABLE load \* the runs, by the order they are started in

\* "launching": forked, not yet seen by pidof; "expired": ended by itself.
LoadStates == {"none", "launching", "running", "expired", "killed"}

LoadTypeOK == load \in [Runs -> LoadStates]

LoadInit == load = [r \in Runs |-> "none"]

Visible == {r \in Runs : load[r] = "running"}

\* sysbench ... run &
LaunchRun ==
  \E r \in Runs :
    /\ load[r] = "none"
    /\ \A s \in 1..(r - 1) : load[s] # "none"
    /\ load' = [load EXCEPT ![r] = "launching"]

\* kill -9 of every pid in P
KillRuns(P) ==
  load' = [r \in Runs |-> IF r \in P \cap Visible THEN "killed" ELSE load[r]]

\* A run appears to pidof some time after the fork.  It ends when its time is
\* over, when it cannot connect and when it loses its server.
LoadStep ==
  \E r \in Runs :
    \/ load[r] = "launching" /\ load' = [load EXCEPT ![r] = "running"]
    \/ load[r] \in {"launching", "running"} /\ load' = [load EXCEPT ![r] = "expired"]

===============================================================================
