-------------------------- MODULE ClusterInteraction ---------------------------
(***************************************************************************)
(* cluster_interaction_qa of suite/correctness/cluster_interaction.py:     *)
(* table locks on node 1 under load for flow control, the shutdown and     *)
(* restart of the last node for an incremental state transfer, three loads *)
(* and a fourth node that joins (node_joiner of util/utility.py).  The     *)
(* servers are left running.                                               *)
(***************************************************************************)
EXTENDS NodeJoiner, BackgroundLoad

CONSTANTS
  PingLimit, \* range(120) in startup_check
  SyncLimit  \* range(300) in galera_startup_check

ASSUME PingLimitAssumption == PingLimit \in Nat \ {0}
ASSUME SyncLimitAssumption == SyncLimit \in Nat \ {0}
ASSUME JoinerAssumption == N >= 4 /\ Founders >= 3
ASSUME OneRunAssumption == MaxRuns >= 1

VARIABLES
  pc,     \* where cluster_interaction_qa is
  round,  \* the rounds of the flow control test, then the databases loaded
  tries,  \* startup_timer
  pid,    \* sysbench_pid; {} is the empty string
  report, \* what galera_startup_check has printed
  cohort, \* the members when start_galera was done
  died    \* history: servers that went down by themselves

scriptVars == <<pc, round, tries, load, pid, report>>
vars == <<clusterVars, joinerVars, scriptVars, cohort, died>>

Phases == {"prepare", "launch", "capture", "flow", "shutdown", "unload", "restart",
           "ping", "unloadAgain", "address", "port", "join", "check", "verdict", "done"}

TypeOK ==
  /\ ClusterTypeOK
  /\ JoinerTypeOK
  /\ LoadTypeOK
  /\ pc \in Phases
  /\ round \in 0..Founders
  /\ tries \in Nat
  /\ tries < CASE pc = "ping" -> PingLimit [] pc = "check" -> SyncLimit [] OTHER -> 1
  /\ pid \subseteq Runs
  /\ report \in {"none", "synced", "answers", "warning"}
  /\ cohort \subseteq Nodes
  /\ died \subseteq Nodes

\* The node that is shut down; node_joiner is called for nodes 3 and 4.
Victim == Founders
Donor == 3
JoinerLow == 3 \* Fault: the donor itself.
Joiner == 4

\* start_galera has seen the first and the last node answer.
Init ==
  /\ \E c \in Components, last \in {"synced", "open"},
        slow \in [2..(Founders - 1) -> {"synced", "open", "starting", "down"}] :
       /\ proc = [n \in Nodes |-> IF n > Founders THEN "down"
                                  ELSE IF n \in 2..(Founders - 1) THEN slow[n]
                                  ELSE IF n = 1 THEN "synced" ELSE last]
       /\ cohort = {n \in Nodes : Answers(n)}
       /\ comp = [n \in Nodes |-> IF n \in cohort THEN c ELSE NoComponent]
       /\ datadir = [n \in Nodes |-> IF n > Founders THEN "none"
                                     ELSE IF n \in cohort THEN "unsafe" ELSE "fresh"]
  /\ JoinerInit
  /\ LoadInit
  /\ pc = "prepare"
  /\ round = 0
  /\ tries = 0
  /\ pid = {}
  /\ report = "none"
  /\ died = {}

-------------------------------------------------------------------------------

Goto(p, n) == pc' = p /\ round' = n /\ tries' = 0

\* A failed check_testcase or an exception: the servers stay as they are.
Exit == Goto("done", 0)

\* sysbench_run without its last step: the schema and the data of a database,
\* once for the test and three times, in the foreground, before the fourth node.
Prepare ==
  /\ pc = "prepare"
  /\ \/ /\ Answers(1) /\ comp[1] # NoComponent
        /\ CASE round = 0 -> Goto("launch", 0)
             [] round \in 1..2 -> Goto("prepare", round + 1)
             [] round = 3 -> Goto("address", 0)
     \/ Exit
  /\ UNCHANGED <<clusterVars, joinerVars, load, pid, report>>

LaunchLoad ==
  /\ pc = "launch"
  /\ LaunchRun
  /\ Goto("capture", 0)
  /\ UNCHANGED <<clusterVars, joinerVars, pid, report>>

\* pidof sysbench, the only time.
CapturePid ==
  /\ pc = "capture"
  /\ pid' = Visible
  /\ Goto("flow", 1)
  /\ UNCHANGED <<clusterVars, joinerVars, load, report>>

\* A client in the background locks a table for two minutes.  The loop that
\* should wait for flow control starts with its condition false.
FlowControl ==
  /\ pc = "flow"
  /\ IF round < Founders THEN Goto("flow", round + 1) ELSE Goto("shutdown", 0)
  /\ UNCHANGED <<clusterVars, joinerVars, load, pid, report>>

\* Fault: the node is killed.
ShutdownVictimKill ==
  /\ pc = "shutdown"
  /\ Lose({Victim})
  /\ Goto("unload", 0)
  /\ UNCHANGED <<joinerVars, load, pid, report>>

ShutdownVictim ==
  /\ pc = "shutdown"
  /\ \/ Shutdown(Victim) /\ Goto("unload", 0)
     \/ ~Answers(Victim) /\ Exit /\ UNCHANGED clusterVars
  /\ UNCHANGED <<joinerVars, load, pid, report>>

\* kill -9 of the same pids before and after the restart, without a check.
KillLoad ==
  /\ pc \in {"unload", "unloadAgain"}
  /\ KillRuns(pid)
  /\ IF pc = "unload" THEN Goto("restart", 0) ELSE Goto("prepare", 1)
  /\ UNCHANGED <<clusterVars, joinerVars, pid, report>>

RestartVictim ==
  /\ pc = "restart"
  /\ Start(Victim, "starting")
  /\ Goto("ping", 0)
  /\ UNCHANGED <<joinerVars, load, pid, report>>

\* Fault: the attempts are not counted.
PingVictimUncounted ==
  /\ pc = "ping"
  /\ IF Answers(Victim) THEN Goto("unloadAgain", 0) ELSE UNCHANGED <<pc, round, tries>>
  /\ UNCHANGED <<clusterVars, joinerVars, load, pid, report>>

\* startup_check: a node that never answers is passed over in silence.
PingVictim ==
  /\ pc = "ping"
  /\ IF Answers(Victim) \/ tries + 1 = PingLimit THEN Goto("unloadAgain", 0)
     ELSE tries' = tries + 1 /\ UNCHANGED <<pc, round>>
  /\ UNCHANGED <<clusterVars, joinerVars, load, pid, report>>

-------------------------------------------------------------------------------
\* node_joiner and galera_startup_check.

ReadAddress ==
  /\ pc = "address"
  /\ AskAddress(Donor)
  /\ Goto("port", 0)
  /\ UNCHANGED <<clusterVars, conf, load, pid, report>>

\* Without an answer int() of the port raises a ValueError.
ReadPort ==
  /\ pc = "port"
  /\ \/ WriteConf(Donor, Joiner) /\ Goto("join", 0)
     \/ ~Answers(Donor) /\ Exit /\ UNCHANGED <<clusterVars, joinerVars>>
  /\ UNCHANGED <<load, pid, report>>

LaunchJoiner ==
  /\ pc = "join"
  /\ Start(Joiner, "starting")
  /\ Goto("check", 0)
  /\ UNCHANGED <<joinerVars, load, pid, report>>

\* Fault: a node that answers is taken for one that is Synced.
SeeSyncedOpen ==
  /\ pc = "check"
  /\ Answers(Joiner)
  /\ report' = "synced"
  /\ Goto("verdict", 0)
  /\ UNCHANGED <<clusterVars, joinerVars, load, pid>>

SeeSynced ==
  /\ pc = "check"
  /\ proc[Joiner] = "synced"
  /\ report' = "synced"
  /\ Goto("verdict", 0)
  /\ UNCHANGED <<clusterVars, joinerVars, load, pid>>

\* After the last attempt a warning, and a second line when the node answers a
\* ping at least.  Both are printed with status 0: the test goes on.
NotSynced ==
  /\ pc = "check"
  /\ proc[Joiner] # "synced"
  /\ IF tries + 1 < SyncLimit THEN tries' = tries + 1 /\ UNCHANGED <<pc, round, report>>
     ELSE /\ Goto("verdict", 0)
          /\ report' = IF Answers(Joiner) THEN "answers" ELSE "warning"
  /\ UNCHANGED <<clusterVars, joinerVars, load, pid>>

\* check_table_count of nodes 1 and 2; there is no stop_galera.
Verdict ==
  /\ pc = "verdict"
  /\ Exit
  /\ UNCHANGED <<clusterVars, joinerVars, load, pid, report>>

ScriptStep ==
  /\ \/ Prepare \/ LaunchLoad \/ CapturePid \/ FlowControl \/ ShutdownVictim
     \/ KillLoad \/ RestartVictim \/ PingVictim
     \/ ReadAddress \/ ReadPort \/ LaunchJoiner \/ SeeSynced \/ NotSynced \/ Verdict
  /\ UNCHANGED <<cohort, died>>

ServersByThemselves ==
  /\ ServerStepByAddress
  /\ died' = died \cup {n \in Nodes : Running(n) /\ proc'[n] = "down"}
  /\ UNCHANGED <<joinerVars, scriptVars, cohort>>

LoadByItself ==
  /\ LoadStep
  /\ UNCHANGED <<clusterVars, joinerVars, pc, round, tries, pid, report, cohort, died>>

Next == ScriptStep \/ ServersByThemselves \/ LoadByItself

Spec == Init /\ [][Next]_vars

\* The script goes on; no server and no load is obliged to do anything.
FairSpec == Spec /\ WF_vars(ScriptStep)

-------------------------------------------------------------------------------

\* As long as no server crashes, the members but the node that is shut down stay
\* in one primary component from the beginning to the end, with two members as
\* with three, also while the fourth node joins.
PrimaryKept ==
  died = {} => \A m, n \in cohort \ {Victim} : comp[m] = comp[n] /\ comp[m] # NoComponent

\* A join that is reported without a warning is one: without a crash the fourth
\* node is Synced in the component of node 1, up to the end and although the node
\* it was configured from may have been restarting at that time.
JoinReportExact ==
  died = {} /\ report = "synced" =>
    proc[Joiner] = "synced" /\ comp[Joiner] # NoComponent /\ comp[Joiner] = comp[1]

\* Every wait of the test is bounded: it ends, whatever the servers do.
TestEnds == <>(pc = "done")

===============================================================================
