------------------------------ MODULE Replication ------------------------------
(***************************************************************************)
(* suite/replication/replication.py and gtid_replication.py on top of      *)
(* Utility (util/utility.py) and StartPerconaServer (util/md_startup.py):  *)
(* node 1 of a Galera cluster and one or two stand-alone MD servers are    *)
(* started, made each other's master or slave, loaded, asked for the state *)
(* of their slave threads and stopped.  The threads work by themselves     *)
(* beside the script, and a test may begin on what the one before it has   *)
(* left running.                                                           *)
(***************************************************************************)
EXTENDS Integers, Sequences, FiniteSets

CONSTANTS
  MaxLoads, \* bound: loads of one test
  NoAnswer  \* the empty output of a query that failed

ASSUME MaxLoadsAssumption == MaxLoads \in Nat \ {0}
ASSUME NoAnswerAssumption == NoAnswer \notin Nat

MDServers == {"md1", "md2"}
Servers == {"galera"} \cup MDServers

\* The connections a server can have to a master, by their place in the test.
Slots == {<<"galera", 1>>, <<"galera", 2>>, <<"md1", 1>>}
Slave(slot) == slot[1]

Tests == {"master_master", "galera_master", "md_master", "multi_source"}

\* The connections of a test, in the order they are set up and checked.
SlotsOf(t) ==
  CASE t = "master_master" -> << <<"md1", 1>>, <<"galera", 1>> >>
    [] t = "galera_master" -> << <<"md1", 1>> >>
    [] t = "md_master"     -> << <<"galera", 1>> >>
    [] t = "multi_source"  -> << <<"galera", 1>>, <<"galera", 2>> >>

MDNodes(t) == IF t = "multi_source" THEN {"md1", "md2"} ELSE {"md1"}

\* Fault: both connections are given the port of the first master.
MasterOfFirst(slot) == IF Slave(slot) = "md1" THEN "galera" ELSE "md1"

\* The server whose port the connection is given.
MasterOf(slot) ==
  IF Slave(slot) = "md1" THEN "galera"
  ELSE IF slot[2] = 1 THEN "md1" ELSE "md2"

\* master_socket: the one server that is loaded.
LoadedServer(t) ==
  IF t \in {"master_master", "galera_master"} THEN "galera" ELSE "md1"

\* Fault: the servers are numbered as the nodes of the cluster are.
ServerIdClash(s) == IF s = "md2" THEN 12 ELSE 11

\* 10 + i for the nodes of the cluster, 100 + i for the others.
ServerId(s) == CASE s = "galera" -> 11 [] s = "md1" -> 101 [] s = "md2" -> 102

VARIABLES
  pc,      \* where replication_testcase is
  test,    \* the roles of the servers
  gtid,    \* repl_mode is GTID
  k,       \* the connection that is set up or checked, the server to stop
  coord,   \* the log file and position a master has given
  loads,   \* loads of this test
  outcome, \* how the last test ended
  run,     \* the servers that run
  log,     \* their binary logs
  source,  \* the master of a connection
  next,    \* how much of the master's log the slave has read
  io, sql, \* the states of its threads
  broken   \* history: connections whose SQL thread failed before it was checked

scriptVars == <<pc, test, gtid, k, coord, loads, outcome>>
serverVars == <<run, log, source, next, io, sql>>
vars == <<scriptVars, serverVars, broken>>

Phases == {"idle", "galera", "md", "coords", "change", "load", "io", "sql", "stop"}

\* n = 0: start_server creates the database test.
Events == [origin : Servers, n : 0..MaxLoads]

TypeOK ==
  /\ pc \in Phases
  /\ test \in Tests
  /\ gtid \in BOOLEAN
  /\ k \in 1..3
  /\ coord \in [1..2 -> Nat \cup {NoAnswer}]
  /\ loads \in 0..MaxLoads
  /\ outcome \in {"none", "running", "passed", "exited", "raised"}
  /\ run \subseteq Servers
  /\ log \in [Servers -> Seq(Events)]
  /\ source \in [Slots -> Servers \cup {"none"}]
  /\ next \in [Slots -> Nat]
  /\ io \in [Slots -> {"No", "Connecting", "Yes"}]
  /\ sql \in [Slots -> {"No", "Yes"}]
  /\ broken \subseteq Slots

Init ==
  /\ pc = "idle"
  /\ test \in Tests
  /\ gtid = FALSE
  /\ k = 1
  /\ coord = [i \in 1..2 |-> NoAnswer]
  /\ loads = 0
  /\ outcome = "none"
  /\ run = {}
  /\ log = [s \in Servers |-> <<>>]
  /\ source = [slot \in Slots |-> "none"]
  /\ next = [slot \in Slots |-> 0]
  /\ io = [slot \in Slots |-> "No"]
  /\ sql = [slot \in Slots |-> "No"]
  /\ broken = {}

-------------------------------------------------------------------------------

Goto(p, i) == pc' = p /\ k' = i /\ UNCHANGED outcome

End(how) == pc' = "idle" /\ k' = 1 /\ outcome' = how

\* A failed check_testcase, or exit(1): the servers stay as they are.
Exit == End("exited")

\* These servers are gone, those in new run on new data directories.
Renew(gone, new) ==
  /\ run' = (run \ gone) \cup new
  /\ log' = [s \in Servers |->
       IF s \notin gone THEN log[s]
       ELSE IF s \in new \cap MDServers THEN <<[origin |-> s, n |-> 0]>> ELSE <<>>]
  /\ source' = [slot \in Slots |-> IF Slave(slot) \in gone THEN "none" ELSE source[slot]]
  /\ next' = [slot \in Slots |-> IF Slave(slot) \in gone THEN 0 ELSE next[slot]]
  /\ io' = [slot \in Slots |->
       IF Slave(slot) \in gone THEN "No"
       ELSE IF source[slot] \in gone /\ io[slot] = "Yes" THEN "Connecting" ELSE io[slot]]
  /\ sql' = [slot \in Slots |-> IF Slave(slot) \in gone THEN "No" ELSE sql[slot]]

\* A server goes down; its slave threads go with it, and its slaves lose it.
Down(s) ==
  /\ run' = run \ {s}
  /\ io' = [slot \in Slots |->
       IF Slave(slot) = s THEN "No"
       ELSE IF source[slot] = s /\ io[slot] = "Yes" THEN "Connecting" ELSE io[slot]]
  /\ sql' = [slot \in Slots |-> IF Slave(slot) = s THEN "No" ELSE sql[slot]]
  /\ UNCHANGED <<log, source, next>>

-------------------------------------------------------------------------------

\* master-master replication is set up by GTID only.
BeginTest(t, g) ==
  /\ pc = "idle"
  /\ t = "master_master" => g
  /\ pc' = "galera"
  /\ k' = 1
  /\ test' = t
  /\ gtid' = g
  /\ coord' = [i \in 1..2 |-> NoAnswer]
  /\ loads' = 0
  /\ outcome' = "running"
  /\ broken' = {}
  /\ UNCHANGED serverVars

\* start_galera, whose sanity_check kills the nodes of the cluster and leaves the
\* MD servers alone.
StartGalera ==
  /\ pc = "galera"
  /\ \/ Renew({"galera"}, {"galera"}) /\ Goto("md", 1)
     \/ Renew({"galera"}, {}) /\ Exit
     \/ Renew({"galera"}, {"galera"}) /\ Exit
  /\ UNCHANGED <<test, gtid, coord, loads, broken>>

\* Fault: the servers of an earlier test are not killed.
StartMDNoKill ==
  /\ pc = "md"
  /\ \/ Renew(MDNodes(test) \ run, MDNodes(test)) /\ Goto("coords", 1)
     \/ \E up \in SUBSET MDNodes(test) : Renew(MDNodes(test) \ run, up) /\ Exit
  /\ UNCHANGED <<test, gtid, coord, loads, broken>>

\* start_md, whose sanity_check kills all MD servers.  Of two servers the status
\* of the last is the one that is returned, connection_check is for the first.
StartMD ==
  /\ pc = "md"
  /\ \/ Renew(MDServers, MDNodes(test)) /\ Goto("coords", 1)
     \/ \E up \in SUBSET MDNodes(test) : Renew(MDServers, up) /\ Exit
  /\ UNCHANGED <<test, gtid, coord, loads, broken>>

\* flush logs, the last of the log files, its position, the port of the master.
ReadCoordinates ==
  /\ pc = "coords"
  /\ LET master == MasterOf(SlotsOf(test)[k])
     IN coord' = [coord EXCEPT ![k] = IF master \in run THEN Len(log[master]) ELSE NoAnswer]
  /\ IF test = "multi_source" /\ k = 1 THEN Goto("coords", 2) ELSE Goto("change", k)
  /\ UNCHANGED <<serverVars, test, gtid, loads, broken>>

\* The connections that one CHANGE MASTER statement is for.
Changed == IF test = "multi_source" THEN {1, 2} ELSE {k}

\* By GTID the slave starts from its gtid_slave_pos.  It is set for multi-source
\* replication only, the call for one master is commented out: such a slave
\* begins with the first event of the log.
StartAt(i) == IF gtid /\ test # "multi_source" THEN 0 ELSE coord[i]

\* CHANGE MASTER and START SLAVE.  Without an answer the statement is an error.
ChangeMaster ==
  /\ pc = "change"
  /\ LET at(slot) == CHOOSE i \in Changed : SlotsOf(test)[i] = slot
         changed == {SlotsOf(test)[i] : i \in Changed}
     IN \/ /\ \A i \in Changed : Slave(SlotsOf(test)[i]) \in run /\ coord[i] # NoAnswer
           /\ source' = [slot \in Slots |-> IF slot \in changed THEN MasterOf(slot) ELSE source[slot]]
           /\ next' = [slot \in Slots |-> IF slot \in changed THEN StartAt(at(slot)) ELSE next[slot]]
           /\ io' = [slot \in Slots |-> IF slot \in changed THEN "Connecting" ELSE io[slot]]
           /\ sql' = [slot \in Slots |-> IF slot \in changed THEN "Yes" ELSE sql[slot]]
           /\ IF test = "master_master" /\ k = 1 THEN Goto("coords", 2) ELSE Goto("load", 1)
           /\ UNCHANGED <<run, log>>
        \/ /\ \E i \in Changed : Slave(SlotsOf(test)[i]) \notin run \/ coord[i] = NoAnswer
           /\ Exit
           /\ UNCHANGED serverVars
  /\ UNCHANGED <<test, gtid, coord, loads, broken>>

\* sysbench_run, data_load and galera_dataload, in the foreground.
Load ==
  /\ pc = "load"
  /\ LET s == LoadedServer(test)
     IN \/ /\ s \in run
           /\ loads' = loads + 1
           /\ log' = [log EXCEPT ![s] = Append(@, [origin |-> s, n |-> loads + 1])]
           /\ IF loads + 1 < MaxLoads THEN Goto("load", 1) ELSE Goto("io", 1)
        \/ Exit /\ UNCHANGED <<loads, log>>
  /\ UNCHANGED <<run, source, next, io, sql, test, gtid, coord, broken>>

\* replication_io_status takes a channel name, which only the multi-source tests
\* pass: the call of the others is a TypeError.
CheckIO ==
  /\ pc = "io"
  /\ IF test # "multi_source" THEN End("raised")
     ELSE IF io[SlotsOf(test)[k]] = "Yes" THEN Goto("sql", k) ELSE Exit
  /\ UNCHANGED <<serverVars, test, gtid, coord, loads, broken>>

\* Fault: master2 is asked twice.
CheckSQLLast ==
  /\ pc = "sql"
  /\ IF sql[SlotsOf(test)[Len(SlotsOf(test))]] = "Yes"
     THEN IF k < Len(SlotsOf(test)) THEN Goto("io", k + 1) ELSE Goto("stop", 1)
     ELSE Exit
  /\ UNCHANGED <<serverVars, test, gtid, coord, loads, broken>>

\* replication_sql_status; after the last one check_gtid_consistency, whose
\* result is dropped.
CheckSQL ==
  /\ pc = "sql"
  /\ IF sql[SlotsOf(test)[k]] = "Yes"
     THEN IF k < Len(SlotsOf(test)) THEN Goto("io", k + 1) ELSE Goto("stop", 1)
     ELSE Exit
  /\ UNCHANGED <<serverVars, test, gtid, coord, loads, broken>>

\* stop_galera, then stop_md from the last server to the first.
StopOrder == <<"galera", "md2", "md1">>

StopServer ==
  /\ pc = "stop"
  /\ \/ /\ StopOrder[k] \in run
        /\ Down(StopOrder[k])
        /\ IF k < 3 THEN Goto("stop", k + 1) ELSE End("passed")
     \/ /\ StopOrder[k] \notin run
        /\ Exit
        /\ UNCHANGED serverVars
  /\ UNCHANGED <<test, gtid, coord, loads, broken>>

ScriptStep ==
  \/ StartGalera \/ StartMD \/ ReadCoordinates \/ ChangeMaster \/ Load
  \/ CheckIO \/ CheckSQL \/ StopServer

-------------------------------------------------------------------------------
\* The servers and the slave threads by themselves.

Crash(s) == s \in run /\ Down(s) /\ UNCHANGED broken

Connect(slot) ==
  /\ io[slot] = "Connecting" /\ source[slot] \in run
  /\ io' = [io EXCEPT ![slot] = "Yes"]
  /\ UNCHANGED <<run, log, source, next, sql, broken>>

\* The next event: one that comes from the slave itself, by its server_id, is
\* passed over; the others are applied and, by log_slave_updates, logged.
Replicate(slot) ==
  /\ io[slot] = "Yes" /\ sql[slot] = "Yes"
  /\ next[slot] < Len(log[source[slot]])
  /\ LET event == log[source[slot]][next[slot] + 1]
     IN log' = IF ServerId(event.origin) = ServerId(Slave(slot)) THEN log
               ELSE [log EXCEPT ![Slave(slot)] = Append(@, event)]
  /\ next' = [next EXCEPT ![slot] = @ + 1]
  /\ UNCHANGED <<run, source, io, sql, broken>>

\* An event that cannot be applied.
Break(slot) ==
  /\ sql[slot] = "Yes"
  /\ io[slot] = "Yes" /\ next[slot] < Len(log[source[slot]])
  /\ sql' = [sql EXCEPT ![slot] = "No"]
  /\ broken' = IF pc = "load" THEN broken \cup {slot} ELSE broken
  /\ UNCHANGED <<run, log, source, next, io>>

ServerStep ==
  /\ \/ \E s \in Servers : Crash(s)
     \/ \E slot \in Slots : Connect(slot) \/ Replicate(slot) \/ Break(slot)
  /\ UNCHANGED scriptVars

Next ==
  \/ \E t \in Tests, g \in BOOLEAN : BeginTest(t, g)
  \/ ScriptStep
  \/ ServerStep

Spec == Init /\ [][Next]_vars

-------------------------------------------------------------------------------

\* No server applies an event a second time: an event does not come back to the
\* server it is from, and two connections do not bring the same one.
AppliedOnce ==
  \A s \in Servers : \A i, j \in 1..Len(log[s]) : log[s][i] = log[s][j] => i = j

\* What the script loads after it has set up a connection reaches the slave in
\* full: none of the loads before the slave's position is missing from it,
\* whether the position was read from the master or left at the first event.
NoLoadMissed ==
  pc \in {"load", "io", "sql", "stop"} =>
    \A slot \in Slots : source[slot] # "none" =>
      \A n \in 1..loads :
        LET event == [origin |-> LoadedServer(test), n |-> n]
            logged(s, upto) == \E i \in 1..upto : log[s][i] = event
            all == Len(log[source[slot]])
        IN logged(source[slot], all) /\ ~logged(Slave(slot), Len(log[Slave(slot)])) =>
             \E i \in (next[slot] + 1)..all : log[source[slot]][i] = event

\* While a test loads and checks, the connections are its own: a slave that an
\* earlier test has left running is gone.
ChannelsOfThisTest ==
  pc \in {"load", "io", "sql"} =>
    \A slot \in Slots :
      IF \E i \in 1..Len(SlotsOf(test)) : SlotsOf(test)[i] = slot
      THEN source[slot] = MasterOf(slot) ELSE source[slot] = "none"

\* A slave that fails during the load fails the test.  With two masters it is the
\* connection to the first that can fail: nothing is loaded into the second.
FailureReported == pc = "stop" => broken = {}

-------------------------------------------------------------------------------
\* What the documentation says.

\* The log of a run in doc/replication.md shows the thread status of each test:
\* no test ends in an error of the interpreter.
StatusChecked == outcome # "raised"

===============================================================================
