----------------------------- MODULE CrashRecovery -----------------------------
(***************************************************************************)
(* suite/correctness/crash_recovery.py: one of its three tests, on the     *)
(* cluster that start_galera has left.  The last node is killed or shut    *)
(* down and started again while sysbench runs on node 1 in the background. *)
(* The script, the sysbench runs and the servers interleave.               *)
(***************************************************************************)
EXTENDS Cluster, BackgroundLoad

CONSTANT PingLimit \* range(120) in startup_check

ASSUME PingLimitAssumption == PingLimit \in Nat \ {0}

VARIABLES
  pc,        \* where crash_recovery is
  test,      \* test_name
  round,     \* how often the node was taken down
  pings,     \* startup_timer
  pidRead,   \* the last entry of pid_list names a process
  pid,       \* sysbench_pid; {} is the empty string
  cohort,    \* the members when start_galera was done
  recovered, \* history: the last startup_check saw the node answer and Synced
  captured,  \* history: every run sysbench_pid has named
  died       \* history: servers that went down by themselves

scriptVars == <<pc, test, round, pings, pidRead, load, pid>>
historyVars == <<recovered, captured, died>>
vars == <<clusterVars, scriptVars, historyVars, cohort>>

Tests == {"with_force_kill", "single_restart", "multi_restart"}

Phases == {"prepare", "launch", "capture", "pids", "takedown", "unload",
           "restart", "ping", "sync", "recapture", "verdict", "done"}

\* One sysbench_run to begin with and one in each round of multi_restart.
ASSUME RunsAssumption == MaxRuns >= 3

TypeOK ==
  /\ ClusterTypeOK
  /\ pc \in Phases
  /\ test \in Tests
  /\ round \in 0..2
  /\ pings \in 0..(PingLimit - 1)
  /\ pidRead \in BOOLEAN
  /\ LoadTypeOK
  /\ pid \subseteq Runs
  /\ cohort \subseteq Nodes
  /\ recovered \in BOOLEAN
  /\ captured \subseteq Runs
  /\ died \subseteq Nodes

\* start_galera has seen the first and the last node answer.  A node between
\* them may have failed, or still be waiting for its state transfer.
Init ==
  /\ \E c \in Components, last \in {"synced", "open"},
        slow \in [2..(N - 1) -> {"synced", "open", "starting", "down"}] :
       /\ proc = [i \in Nodes |-> IF i \in 2..(N - 1) THEN slow[i]
                                  ELSE IF i = 1 THEN "synced" ELSE last]
       /\ cohort = {i \in Nodes : proc[i] \in {"synced", "open"}}
       /\ comp = [i \in Nodes |-> IF i \in cohort THEN c ELSE NoComponent]
       /\ datadir = [i \in Nodes |-> IF i \in cohort THEN "unsafe" ELSE "fresh"]
  /\ pc = "prepare"
  /\ test \in Tests
  /\ round = 0
  /\ pings = 0
  /\ pidRead = FALSE
  /\ LoadInit
  /\ pid = {}
  /\ recovered = FALSE
  /\ captured = {}
  /\ died = {}

-------------------------------------------------------------------------------

\* The node the tests take down.
Victim == N

\* check_testcase on a nonzero result: no server and no sysbench is touched.
Exit == pc' = "done"

\* sysbench_run: schema and data, in the foreground, ...
Prepare ==
  /\ pc = "prepare"
  /\ \/ Answers(1) /\ comp[1] # NoComponent /\ pc' = "launch"
     \/ Exit
  /\ UNCHANGED <<clusterVars, test, round, pings, pidRead, load, pid,
                 historyVars, cohort>>

\* ... and the oltp run, in the background: its status is always 0.
LaunchLoad ==
  /\ pc = "launch"
  /\ LaunchRun
  /\ pc' = "capture"
  /\ UNCHANGED <<clusterVars, test, round, pings, pidRead, pid, historyVars, cohort>>

\* pidof sysbench
Pidof ==
  /\ pid' = Visible
  /\ captured' = captured \cup Visible

AfterCaptureNoKill == \* Fault: the run that multi_restart starts is not killed.
  IF test = "with_force_kill" THEN "pids"
  ELSE IF round < 2 THEN "takedown" ELSE "verdict"

\* The run of the beginning stays on during the take-down, one that
\* multi_restart starts between two rounds is killed.
AfterCapture ==
  IF round > 0 THEN "unload"
  ELSE IF test = "with_force_kill" THEN "pids" ELSE "takedown"

CapturePid ==
  /\ pc = "capture"
  /\ Pidof
  /\ pc' = AfterCapture
  /\ UNCHANGED <<clusterVars, test, round, pings, pidRead, load, recovered, died, cohort>>

\* pid_list: of a node that does not answer there is no pid file to read.
ReadPidFiles ==
  /\ pc = "pids"
  /\ pidRead' = Answers(Victim)
  /\ pc' = "takedown"
  /\ UNCHANGED <<clusterVars, test, round, pings, load, pid, historyVars, cohort>>

\* Fault: the kill takes every entry of pid_list.
KillVictimAll ==
  /\ pidRead /\ Running(Victim)
  /\ Lose({i \in Nodes : i # 1})

\* Ten seconds later.  The pid of a server that is gone is no process.
KillVictim ==
  /\ pidRead /\ Running(Victim)
  /\ Lose({Victim})

AfterTakeDown == IF test = "multi_restart" THEN "restart" ELSE "unload"

\* Fault: the result of the shutdown is not checked.
TakeDownUnchecked ==
  /\ pc = "takedown"
  /\ IF test = "with_force_kill" THEN KillVictim
     ELSE IF Answers(Victim) THEN Shutdown(Victim) ELSE UNCHANGED clusterVars
  /\ round' = round + 1
  /\ pc' = AfterTakeDown
  /\ UNCHANGED <<test, pings, pidRead, load, pid, historyVars, cohort>>

\* kill -9, or mariadb-admin shutdown.
TakeDown ==
  /\ pc = "takedown"
  /\ \/ /\ IF test = "with_force_kill" THEN KillVictim ELSE Shutdown(Victim)
        /\ round' = round + 1
        /\ pc' = AfterTakeDown
     \/ /\ IF test = "with_force_kill" THEN ~(pidRead /\ Running(Victim))
           ELSE ~Answers(Victim)
        /\ Exit
        /\ UNCHANGED <<clusterVars, round>>
  /\ UNCHANGED <<test, pings, pidRead, load, pid, historyVars, cohort>>

AfterUnload ==
  IF test # "multi_restart" THEN "restart"
  ELSE IF round < 2 THEN "takedown" ELSE "verdict"

\* kill -9 of sysbench_pid, its result ignored.
KillLoad ==
  /\ pc = "unload"
  /\ KillRuns(pid)
  /\ pc' = AfterUnload
  /\ UNCHANGED <<clusterVars, test, round, pings, pidRead, pid, historyVars, cohort>>

\* startup_check runs the log/startup<n>.sh that start_cluster has saved, ...
RestartVictim ==
  /\ pc = "restart"
  /\ Start(Victim, IF Victim = 1 THEN "bootstrapping" ELSE "starting")
  /\ recovered' = FALSE
  /\ pings' = 0
  /\ pc' = "ping"
  /\ UNCHANGED <<test, round, pidRead, load, pid, captured, died, cohort>>

AfterStartupCheck == IF test = "multi_restart" THEN "recapture" ELSE "verdict"

\* Fault: the first ping that is answered ends the check.
PingAnsweredUnsynced ==
  /\ pc = "ping"
  /\ Answers(Victim)
  /\ recovered' = TRUE
  /\ pc' = AfterStartupCheck
  /\ UNCHANGED <<clusterVars, test, round, pings, pidRead, load, pid, captured, died, cohort>>

\* ... pings the node ...
PingAnswered ==
  /\ pc = "ping"
  /\ Answers(Victim)
  /\ pc' = "sync"
  /\ UNCHANGED <<clusterVars, test, round, pings, pidRead, load, pid, historyVars, cohort>>

\* Fault: the timer starts again with every refused ping.
PingRefusedUncounted ==
  /\ pc = "ping"
  /\ ~Answers(Victim)
  /\ UNCHANGED vars

\* Fault: the timer runs one too far.
PingRefusedOneMore ==
  /\ pc = "ping"
  /\ ~Answers(Victim)
  /\ IF pings < PingLimit THEN pings' = pings + 1 /\ UNCHANGED pc
     ELSE pc' = AfterStartupCheck /\ UNCHANGED pings
  /\ UNCHANGED <<clusterVars, test, round, pidRead, load, pid, historyVars, cohort>>

\* PingLimit times, and says nothing when none of them is answered, ...
PingRefused ==
  /\ pc = "ping"
  /\ ~Answers(Victim)
  /\ IF pings + 1 < PingLimit THEN pings' = pings + 1 /\ UNCHANGED pc
     ELSE pc' = AfterStartupCheck /\ UNCHANGED pings
  /\ UNCHANGED <<clusterVars, test, round, pidRead, load, pid, historyVars, cohort>>

\* ... and asks it, without a limit, until it says Synced.
SeeSynced ==
  /\ pc = "sync"
  /\ proc[Victim] = "synced"
  /\ recovered' = TRUE
  /\ pc' = AfterStartupCheck
  /\ UNCHANGED <<clusterVars, test, round, pings, pidRead, load, pid, captured, died, cohort>>

\* multi_restart: kill what pidof finds, or start a new sysbench_run.
Recapture ==
  /\ pc = "recapture"
  /\ Pidof
  /\ pc' = IF pid' = {} THEN "prepare" ELSE "unload"
  /\ UNCHANGED <<clusterVars, test, round, pings, pidRead, load, recovered, died, cohort>>

\* check_table_count and the end of the script, or the next start_galera.
Verdict ==
  /\ pc = "verdict"
  /\ Exit
  /\ UNCHANGED <<clusterVars, test, round, pings, pidRead, load, pid, historyVars, cohort>>

ScriptStep ==
  \/ Prepare \/ LaunchLoad \/ CapturePid \/ ReadPidFiles \/ TakeDown \/ KillLoad
  \/ RestartVictim \/ PingAnswered \/ PingRefused \/ SeeSynced \/ Recapture \/ Verdict

-------------------------------------------------------------------------------

ServersByThemselves ==
  /\ ServerStep
  /\ died' = died \cup {i \in Nodes : Running(i) /\ proc'[i] = "down"}
  /\ UNCHANGED <<scriptVars, recovered, captured, cohort>>

LoadByItself ==
  /\ LoadStep
  /\ UNCHANGED <<clusterVars, pc, test, round, pings, pidRead, pid, historyVars, cohort>>

Next == ScriptStep \/ ServersByThemselves \/ LoadByItself

Spec == Init /\ [][Next]_vars

\* The interpreter keeps executing the script; servers and sysbench may do
\* nothing for ever.
FairSpec == Spec /\ WF_vars(ScriptStep)

-------------------------------------------------------------------------------

\* Taking the last node down does not take the cluster down: if three or more
\* nodes were members when the test began, and no other server crashes, all of
\* them but the victim stay in node 1's primary component, whatever the order
\* of kills, restarts and joins.
PrimaryKept ==
  Cardinality(cohort) >= 3 /\ died \subseteq {Victim} =>
    \A i \in cohort \ {Victim} :
      Running(i) /\ comp[i] # NoComponent /\ comp[i] = comp[1]

\* The server is started only when the one before it is gone: no second
\* mariadbd is launched on a data directory that is in use.
VictimDown == pc = "restart" => ~Running(Victim)

\* A startup_check that has reported success is right: unless a server crashed,
\* the node is back in the component of node 1 and has caught up, in every
\* later step before the next take-down.
RecoveryMeansRejoined ==
  pc \in {"recapture", "prepare", "launch", "capture", "unload", "verdict"}
  /\ recovered /\ died = {} /\ Cardinality(cohort) >= 3 =>
    proc[Victim] = "synced" /\ comp[Victim] = comp[1]

\* No run that sysbench_pid ever named is still writing when the tables are
\* compared, although the variable is overwritten between the rounds.
CapturedLoadGone == pc = "verdict" => captured \cap Visible = {}

\* The test ends.  The one place it can stay for ever is the Synced loop, and
\* only with a server that never reports Synced again.
HangsOnlyOnLostServer ==
  <>(pc = "done") \/ <>[](pc = "sync" /\ proc[Victim] # "synced")

===============================================================================
