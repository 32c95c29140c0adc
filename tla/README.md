# TLA+ models of the Galera QA framework

The repository is a test framework: Python scripts that start a Galera cluster of `mariadbd` servers
on one machine, load it, kill, restart or upgrade nodes, and compare the data of two of them.  What can
go wrong in it is what a test of it would hardly reach: a script meeting servers that an earlier script
left behind, a check that says nothing when it times out, a kill beside a crash, a verdict read from two
nodes one after the other.  This directory models the scripts together with the servers they act on, checks
the models with TLC and proves the main results with TLAPS.

Contents: [the system](#1-the-system) ·
[the modules](#2-the-modules-and-the-code) ·
[the runs](#3-what-tlc-checks) ·
[bounds and fairness](#4-bounds-and-fairness) ·
[divergences](#5-where-the-code-and-its-documentation-differ) ·
[the proofs](#6-what-is-proved) ·
[what is left out](#7-what-is-not-modelled) ·
[the plan](#8-plan)

## 1. The system

### Shape

Every suite file is a sequential program of one process.  `qa_framework.py` runs the files one after
another, whatever the result of the one before.  A suite file calls methods of `util/`, most of which run
one shell command and return its status; `Utility.check_testcase` (utility.py:24-32) turns a nonzero
status into `exit(1)`, without touching a server.  What runs beside the script are the processes it has
put in the background: the servers and the `sysbench` runs.  They share with it the work directory (data
directories, `conf/node<i>.cnf`, `log/startup<i>.sh`), the sockets, the pid files and the process table.
There are no threads, callbacks or messages inside the framework.  All of its concurrency is *script
against processes*, and the scripts synchronise with them by polling and by sleeping.

### Inventory

| Part | State | Operations | Hard behaviour | Correct when | Modelled in |
|---|---|---|---|---|---|
| Galera servers (external) | process, primary component, `safe_to_bootstrap` of each node | bootstrap, join, state transfer, catch up, leave, crash | quorum, a join at any time, a crash at any time | one primary component | `Cluster`, `PrimaryComponent` |
| Start and stop: `galera_startup.py`, `Utility.start_galera`/`stop_galera`, `db_connection.py`, `galera_util.py` | loop variable, ping timer, the conf files | `sanity_check`, `create_config`, `initialize_cluster`, `start_cluster`, `connection_check`, `stop_galera` | chained scenarios, scripts that exit and leave servers, restart on old data, a masked startup failure | no data directory used twice, bootstrap never refused, a clean stop is a clean stop, every script ends | `ClusterLifecycle` |
| Background sysbench: `sysbench_run.py` | the runs, and the pids the script knows | start, `pidof`, `kill -9` | a run not yet visible, ended by itself, a variable overwritten | no run the script knows of outlives the test | `BackgroundLoad` |
| `correctness/crash_recovery.py` | victim, round, timers, pids | kill or shut down, restart, `startup_check`, compare | silent timeout, unbounded Synced loop, crash of another node | primary kept, a reported recovery is one | `CrashRecovery` |
| `correctness/chaosmonkey-test.py` | two drawn victims, a loop position | kill both, restart both, compare | the same node drawn twice, quorum after two kills | primary kept, only killed nodes restarted, no load at the comparison | `ChaosMonkey` |
| `random_qa/pquery_crash_recovery_qa.py` | round, node, timer | pquery, kill all, force `safe_to_bootstrap`, restart one by one | late servers of the round before, a node that never came up | bootstrap never refused, one component at a time | `PqueryCrashRecovery` |
| `Utility.check_table_count`, `check_gtid_consistency` | table list, two values | list, read node 1, read node 2, compare | writes, applies and failures between the reads | the verdict says what the data are | `TableCheck` |
| `upgrade/galera_upgrade.py` | node, timer, version of each node | shut down, restart with the new binaries, `mariadb-upgrade`, compare, stop | Synced is not awaited, failures in the middle | one node away at a time, a comparison of upgraded nodes | `RollingUpgrade` |
| `upgrade/galera_upgrade_replacement.py` | loop variable, timer, new nodes | join nodes 4-6, each configured from the one before; `mariadb-upgrade`; shut down 1-3 | slow nodes, crashes, an unbounded Synced loop | the cluster is handed over without leaving the primary component | `RollingReplacement` |
| Node joiner and configurations: utility.py:511-591, `create_config` | ports, `wsrep_cluster_address`, `server_id` | derive a node's file from the donor's, start it, wait for Synced | two queries to a donor that may be restarting, spoilt address lists, a join that never synced and counts as one | distinct ports, a donor can be reached, the report is true | `NodeJoiner`, `ClusterInteraction` |
| `correctness/cluster_interaction.py` | sysbench pids, timers | table locks under load, shutdown and restart of the last node, a fourth node | a pid killed twice, a silent timeout | primary kept, a reported join is one, the test ends | `ClusterInteraction` |
| Replication: utility.py:185-448, `replication/*.py`, `md_startup.py` | log positions, connections and their threads, GTID mode | start both kinds of servers, set up slaves and masters, load, IO and SQL status, stop | threads beside the script, failures, servers of an earlier test, two masters | every event once, no load skipped, a failed slave fails the test | `Replication` |
| wsrep provider test, `loadtest/` | option combination | start on old data, shut down node 3, compare, stop | `startup_check` that says nothing | as start and stop | its order of calls is a mode of `ClusterLifecycle` |
| `ssl/*`, `sanity.py` | certificate files | generate if `ca.pem` is missing | a generation cut short is reused, no status is looked at, keys rewritten in place | the files match, issued ones stay | `Certificates` |
| `qa_framework.py`, `config.py` | list of suites | run the files in order | what a failed script leaves running | each script starts clean | the chaining is in `ClusterLifecycle` |
| Data and option generators, `randgen/`, `sysbench_lua/`, `pquery3/` | files | generate, run | none | — | not modelled |

`PROJECT.json` lists the same parts with a note each, and under `hazards` every place where the code is
exposed to one of the behaviours above, with the properties that would notice, or a note where none does.

### How the parts interact

    qa_framework ──runs──> suite script ──calls──> StartCluster / Utility / SysbenchRun
                                 │                        │
                                 │ kill -9, shutdown,     │ mariadbd & , sysbench &
                                 │ startup<i>.sh          v
                                 └───────────────> servers 1..N  <──oltp── sysbench
                                                     │  primary component
                                                     v
                                 check_table_count reads node 1, then node 2

## 2. The modules and the code

| Module | Code | Extends / instantiates |
|---|---|---|
| `Cluster` | the servers (external) | steps of `PrimaryComponent` on `members` |
| `PrimaryComponent` | what the servers promise together (abstract) | |
| `ClusterLifecycle` | `util/galera_startup.py`, `Utility.start_galera`, `stop_galera` | `Cluster`; refines `PrimaryComponent` |
| `NodeJoiner` | configuration files: `create_config`, `Utility.node_joiner` | `Cluster` |
| `BackgroundLoad` | sysbench in the background and `pidof` | |
| `CrashRecovery` | `suite/correctness/crash_recovery.py` | `Cluster`, `BackgroundLoad` |
| `ChaosMonkey` | `suite/correctness/chaosmonkey-test.py` | `Cluster`, `BackgroundLoad` |
| `PqueryCrashRecovery` | `suite/random_qa/pquery_crash_recovery_qa.py` | `Cluster` |
| `TableCheck` | `Utility.check_table_count`, `check_gtid_consistency` | |
| `RollingUpgrade` | `suite/upgrade/galera_upgrade.py` | `Cluster` |
| `RollingReplacement` | `suite/upgrade/galera_upgrade_replacement.py` | `NodeJoiner` |
| `ClusterInteraction` | `suite/correctness/cluster_interaction.py`, `Utility.node_joiner`, `galera_startup_check` | `NodeJoiner`, `BackgroundLoad` |
| `Replication` | replication methods of `util/utility.py`, `util/md_startup.py`, `suite/replication/*.py` | |
| `Certificates` | `create_ssl_certificate` of `util/sanity.py` | |
| `ClusterProofs` | lemmas on the server steps | `Cluster` |
| `ClusterLifecycleProofs` | proofs | `ClusterLifecycle`, `ClusterProofs` |
| `CrashRecoveryProofs` | proofs, also of `PqueryCrashRecovery` | `CrashRecovery`, `PqueryCrashRecovery`, `ClusterProofs` |
| `ChaosMonkeyProofs` | proofs, also of `RollingUpgrade` | `ChaosMonkey`, `RollingUpgrade`, `ClusterProofs` |
| `RollingReplacementProofs` | proofs | `RollingReplacement`, `ClusterProofs` |
| `ClusterInteractionProofs` | proofs | `ClusterInteraction`, `ClusterProofs` |
| `ReplicationProofs` | proofs, also of `TableCheck` | `Replication`, `TableCheck` |
| `CertificatesProofs` | proofs | `Certificates` |

Three proof modules treat a second program beside the first, because the two share the servers and lemmas about them,
or at least a log.  They extend both modules, and the variables and operators of the second program have names of
their own for that: `stage`, `cycle`, `timer` and `Pquery...` in `PqueryCrashRecovery`; `stage`, `original`, `crashed`
and `Upgrade...` in `RollingUpgrade`; `committed`, `checkVars` and `Check...` in `TableCheck`.  Each keeps a
specification of its own (`PquerySpec`, `UpgradeSpec`, `CheckSpec`), and a theorem says which one it is about.

`members` of `Cluster` is the refinement mapping of all programs that have servers: the nodes that are in a component,
each with its component.  `PC` is `PrimaryComponent` instantiated with it.

**Granularity.**  An action of a script is the stretch from one shell command that the servers can notice to
the next: the command, the test of its status, and the assignments and jumps that follow.  Between two
actions servers and sysbench may do anything.  `time.sleep` is no action, since other processes may take any
number of steps between two script actions anyway.  A background command (`... &`) has status 0 always, as
in the shell, so `LaunchNode`, `LaunchLoad` and `RestartVictim` cannot fail.

**Servers** (`Cluster`).  `proc[i]` goes from `down` through `starting` (or `bootstrapping`) to `open`, where
the client port answers, and to `synced`.  `comp[i]` is the primary component the server is a member of;
`datadir[i]` is as much of the data directory as the scripts depend on.
`Lose(K)` is the simultaneous disappearance of servers: the rest of a component stays
primary only while it is more than half of the last membership.  A shutdown is a graceful leave and
shrinks the membership; whoever leaves last gets `safe_to_bootstrap: 1`.  `Die` stands for a crash as well
as a start that fails, and is always possible for a running server.  All of these are marked external in
the map: they are what the scripts rely on, not code of the repository.

**Start and stop** (`ClusterLifecycle`).  `pc` is the method the script is in; the loop of a method is one
action per iteration (`InitializeNode`, `LaunchNode`, `StopNode`), and `start_cluster`'s inner loop is
`PingAnswered`/`PingRefused`.  `mode` is the order of the calls: that of `start_galera`, that of the wsrep
provider test (data directories before configurations) or a restart on old data.  `Exit` is `exit(1)`.
`BeginScript` and `BeginStop` are new scripts on whatever the last one left running.

**Suites.**  Each begins on the clusters `start_galera` can report as started: first and last node have
answered (the first by `connection_check`, the last because its ping status is the one that is returned).
The first is Synced, since it founded the component.  The last was only pinged and may still be catching up
(`open`); any node between them may be in any state.  Since the suites use the last node or drawn nodes, this matters.

**Comparison** (`TableCheck`).  Write-sets of node 1 are a sequence, node 2 has applied a prefix of it, and an
applier may spoil a table: that is what the suites look for.  A checksum is the set of writes a table has
seen and whether it was spoilt; a query that fails gives the empty string `EmptyOutput`, and two of them are equal.

**Joining** (`NodeJoiner`).  A configuration file is a record: the port in hundreds from the port drawn, the
peers of `wsrep_cluster_address`, whether that list ends with a comma, `server_id`.  A node's cluster address is
its port + 8, so ports stand for addresses.  `JoinerConf` is the text substitution that makes a new file: the new
address is appended to the donor's list as it stands, and without a comma between them the donor's address and the
new one make one bad entry.  `AskAddress` and `WriteConf` are the two queries to the donor, with anything in between.
`JoinByAddress` restricts the join of `Cluster` to members at one of the addresses.  `RollingReplacement` and
`ClusterInteraction` are the two scripts that use it; there a file, once written, is what the running server shows.

**Replication** (`Replication`).  The Galera cluster is its node 1, the only one the suites connect to.  A binary log
is a sequence of events, an event the number of a load at its origin; a connection has a position in its master's
log and the two threads' states, which change without the script.  A position read as a file and an offset is the
length of the log.  `StartGalera` and `StartMD` give servers new data directories and may leave any of them
running when they fail.  `outcome` is how the last test ended, `"raised"` being an error of the interpreter.

**Certificates** (`Certificates`).  A file is the number of the key in it, or `Missing`, or `Empty`: opened and not
written.  `step` is the next of the fifteen commands; the three `openssl rsa` that write a key file over itself
are among them (`RewriteKey`), two of them the client's, as is the second signing of its certificate.  A command that
does not end well leaves all as it was or what it was writing cut short: a key (`TearKey`), a key whose request was not
written (`TearRequest`), a certificate (`TearCert`), the pem file or its parameters (`TearPem`).  `Fail` goes on after
it, since the status is dropped; `Interrupt` ends the method.  A key that is cut short is taken as lost whole, and a
request that is cut short cannot be read.  `torn` remembers whose key, server's or client's, was cut short.

`TypeOK` of a module (`PqueryTypeOK`, `UpgradeTypeOK`, `CheckTypeOK`) states the domain of its variables.  It is a
theorem for every program; where it is no property of a run it documents the state.

History variables (`broken`, `cut`, `torn`, `recovered`, `captured`, `killed`, `died`, `cohort`, `crashed`,
`original`, `settled`) record what
properties speak of; no guard reads one.  Definitions with a comment that begins with `Fault:` are
plausible mistakes: each replaces the definition it is named after, to show that some property notices.

## 3. What TLC checks

| Run | Instance | States | Shows |
|---|---|---|---|
| `lifecycle` | 3 nodes, 2 pings, 2 further scenarios per script, 2 component names | 5,922 | Scripts chained, abandoned and begun again on running clusters never give a data directory to two servers, are never refused the bootstrap, stop cleanly when they say so, always end, and the cluster implements `PrimaryComponent`. |
| `crash_recovery` | 3 nodes, 2 pings, 3 sysbench runs | 215,505 | Survivors of the take-down stay primary, no second server on the victim's data, a reported recovery is a real one and stays so, no named sysbench run at the comparison; the test ends or stays in the Synced loop with a server that never reports Synced. |
| `chaos_monkey` | 5 nodes, all draws | 1,814,465 | Two kills in a row cost four members no quorum, a node drawn twice never reaches the restarts, and no sysbench run is left at the comparison. |
| `pquery_recovery` | 3 nodes, 2 rounds, 2 pings | 1,240 | With late and failing servers: one component at a time, no data directory used twice, the forced bootstrap is never refused, and only membership steps that `PrimaryComponent` has. |
| `table_check` | 2 tables, 4 write-sets | 79,936 | On a settled cluster the verdict is exact for the first table; at any time a success of answering nodes means that all node 1 had shown was applied, and correctly. |
| `rolling_upgrade` | 4 nodes, 2 pings | 28,018 | One member at a time is away although Synced is not awaited, and only upgraded nodes are compared. |
| `replication` | 4 roles, by GTID and by position, 2 loads, 2 MD servers | 7,413 | From test to test, with crashes and failing slaves: no event applied twice, no load skipped, no connection of an earlier test, a failed slave fails the test. |
| `rolling_replacement` | 3 old and 3 new nodes, 2 pings | 8,520 | Distinct ports, a reachable donor for each new node, which answers in node 1's component and is Synced if it is a new one itself; the new nodes keep the primary component when the old ones leave; no live data directory is removed. |
| `cluster_interaction` | 3 nodes and a fourth, 2 pings, 2 attempts, 1 sysbench run | 18,576 | The cluster stays primary, a join reported without a warning is real and stays so, no live data directory is removed, the test ends. |
| `certificates` | 4 keys | 3,138,641 | Certificates match keys and authority after any failure except beside a server or client key that was itself cut short; issued ones stay, except the client's if its second writing is cut short; undisturbed calls leave a complete set. |
| `table_first`, `replication_status` | see section 5 | | Violations: the code differs from what its documentation says. |

The properties, with the hazards they are for:

* `NoSplitBrain`, `OnePrimaryComponent`: a bootstrap beside a cluster still running.  It takes an abandoned
  script, servers that join late, and a second script to violate; `sanity_check` is what prevents it.
* `DatadirExclusive`, `VictimDown`, `RestartsTheKilled`: `rm -rf` or a second server on a directory in use.
* `BootstrapNotRefused`, `CleanStop`: who left last, over any history of starts, failures and stops.
* `PrimaryKept`, `OneNodeAway`: quorum, under kills, joins of slow nodes and restarts in any order.
* `RecoveryMeansRejoined`, `ComparedUpgraded`, `LoadKilledFirst`, `CapturedLoadGone`: what a later step assumes
  of an earlier check is still true when it is used.
* `SettledVerdictExact`, `SuccessMeansApplied`: what a verdict can be trusted for.
* `PortsDistinct`, `JoinerCanReach`, `DonorReady`, `LiveDatadirKept`: each new node's file is made from the one
  before it, so that an error of one is handed on to all that follow.
* `JoinReportExact`: `galera_startup_check` passes 0 in every case, and its message is all that tells a join from none.
* `HandedOver`: who is a member when old nodes leave one by one, after three joins.
* `AppliedOnce`, `NoLoadMissed`: where a slave starts, which events it passes over and which connections it has.
  They are set by different methods, which agree only through ports, server ids and positions.
* `ChannelsOfThisTest`, `FailureReported`: slaves of an earlier test; a slave that fails while the script is elsewhere.
* `CertificatesMatch`, `KeepsIssued`: what two `isfile` tests make of any mixture of files that failures have left.
  Both have exceptions, because the code has them: a server or client key cut short in a rewrite is lost beside a
  certificate, and a new key whose request was not written gets the certificate of an older request; the client's
  two files are written again after the certificate was issued (sanity.py:64-69).  TLC refutes both without them.
* `CompleteUnlessCut`: the order of the commands, each of which must find what it reads.  It is about directories on
  which nothing has ever failed; on any other a later call repairs nothing whose first result is there.
* `ScriptEnds`, `TestEnds`, `HangsOnlyOnLostServer`: bounded loops end, an unbounded one (the Synced loop) need not.

The hypotheses in these properties are those the code needs.  `died \subseteq {Victim}` or `died = {}`: a
crash nobody scripted may cost the quorum.  `Cardinality(cohort) >= 3`: of two members one kill leaves no
majority (`start_cluster` may report such a cluster as started).  Neither is vacuous: each mutant
of `PROJECT.json` violates its property inside the hypotheses.

## 4. Bounds and fairness

| Bound | Stands for | Why it is enough |
|---|---|---|
| `N` = 3, 4, 5 | config.ini `node`, 3 by default; 6 in `chaosmonkey-test.py` | 3 is the least with a quorum to lose and a node between the first and the last, which the code treats differently; the upgrade has a special case for node 3, so there is a 4th; two victims and a quorum of survivors need 5. |
| `N` = 6 and `N` = 4 with `Founders` = 3 | node numbers of the replacement upgrade and of the interaction suite | The scripts have the literals 3 (first donor) and 4 (first new node), so that three founders are the only number they are written for; `RollingReplacement` joins as many nodes as it has founders, `ClusterInteraction` one. |
| `PingLimit` = 2, `TimerLimit` = 2 | 120 or 300 pings | A refused ping is either the last one or not. |
| `SyncLimit` = 2 | 300 attempts of `galera_startup_check` | The same. |
| `MaxRounds` = 2 | three `start_galera` in `crash_recovery.py`; nine rounds of pquery | What one scenario leaves to the next shows with the second; a third starts from what a second left. |
| `MaxRuns` = 3, 1 | reaches of `sysbench_run` | In `CrashRecovery` one at the beginning and one in each round; the module assumes it. In `ChaosMonkey` and `ClusterInteraction` it is reached once. |
| `MaxTables` = 2, `MaxWrites` = 4 | | A first and another table; two writes of each, so that one can be seen and one missed. |
| `MaxLoads` = 2 | loads of one replication test | Beside the event of `start_server` a first and a second load: one can be applied and the other skipped, or one applied twice. Each test begins anew, beside what the one before has left running. |
| `MaxKeys` = 4 | keys drawn over all calls | One undisturbed call makes four. A call that is cut short before it has drawn them leaves some to the next, down to a second server or client key beside a first request; the proofs are for every number. |
| `Components` | identities of primary components | Two, where a script can bootstrap, so that two could be told apart; one where only joins happen. |

`CHECK_DEADLOCK FALSE` is said where the test has an end (`done`, `failed`, `stopped`) or TLC stops at a bound;
`ClusterLifecycle`, `Replication` and `Certificates` never stop, since a new script or call may always begin, and
are checked for deadlock.

Fairness is weak fairness of `ScriptStep` alone: the interpreter keeps executing a script that was begun.
Nothing is assumed of servers and sysbench runs, which may be silent for ever; so `ScriptEnds` and
`TestEnds` really rest on the bounds of the loops, and `HangsOnlyOnLostServer` on what is left when a loop has none.

## 5. Where the code and its documentation differ

Two are runs that TLC ends with a counterexample, and entries under `findings` with the quoted line.

| Run | Documentation | Code |
|---|---|---|
| `table_first` | checksums compared for each table | the loop returns in its first round |
| `replication_status` | the documented run checks the status of the one-master slave | a missing argument raises `TypeError` at that check, with all servers running |

The others are seen by reading, and the models have them as the code does:

* `start_cluster` "will also check the startup status", but only the last node's status is returned: a node in
  the middle may be missing.  Every suite's `Init` contains such clusters.
* `sanity_check` is to "forcefully kill running mariadbd processes", but its pattern `node[0-9].cnf` has no two-digit
  number: node 10 lives on (`Matched`).
* The multiple-restart test is to work "while active data load in primary node", but the script has killed the load
  by the second take-down (`AfterUnload`).
* ChaosMonkey "will kill 2 random nodes", but `random.choices` draws with replacement; the second kill then fails
  (`KillNode`).
* Two queries that fail compare as equal (`Compared`, `EmptyOutput`), so that two nodes that are both gone pass.

## 6. What is proved

Every safety property and every action property that a passing run checks is a theorem of the specification, for
every value of the constants that satisfies the named assumptions of its modules: at least one node
(`NAssumption`), a "no component" value that is not a component (`ComponentsAssumption`), at least one ping or
attempt (`PingLimitAssumption`, `TimerLimitAssumption`, `SyncLimitAssumption`), natural bounds
(`MaxRoundsAssumption`, `MaxRunsAssumption`, `MaxLoadsAssumption`, `MaxKeysAssumption`, `MaxTablesAssumption`,
`MaxWritesAssumption`), as many sysbench runs as the script reaches (`RunsAssumption`, three in `CrashRecovery` and
one in `ChaosMonkey`; `OneRunAssumption`), a failed query that differs from a position (`NoAnswerAssumption`), at
least one founder and room for the new nodes (`FoundersAssumption`, `RoomAssumption`, and `JoinerAssumption`: three
founders, since the literals of `cluster_interaction.py` are nodes 3 and 4). Hypotheses beyond these stand in the
theorem, after ASSUME, and in the tables below.

Beside the properties of the runs three kinds of results are proved.

* Every variable of every program stays in its domain (`TypeCorrect`, `PqueryTypeCorrect`, `UpgradeTypeCorrect`,
  `CheckTypeCorrect`).
* Every program on `Cluster` implements `PrimaryComponent`, whatever crashes; the two that kill by the pattern of
  one digit do for at most nine nodes. `ClusterLifecycle` does from the first state on. A suite begins on a cluster
  that is there, so what is shown is that each of its steps is a step of `PrimaryComponent` or leaves `members`
  alone. The programs that bootstrap no node (`CrashRecovery` from two nodes on, `ChaosMonkey`, `RollingUpgrade`,
  `RollingReplacement`, `ClusterInteraction`) satisfy the stronger `KeepsComponent` (`ClusterProofs`): there is no
  `Found` among the steps, so that a component that is lost stays lost, and no server forms a second one.
* Every script on `Cluster` is bounded (`BoundedTheorem`, `PqueryBoundedTheorem`, `UpgradeBoundedTheorem`).
  `StepsLeft` is a natural number made of the loop variables and the limits; each step of the script makes it
  smaller, and a step of a server or of sysbench leaves the loop variables alone. This is what makes `ScriptEnds`,
  `TestEnds` and `HangsOnlyOnLostServer` true, for every value of the limits. What is left to TLC is that a script
  that is not in one of the states it may wait in can always take a step, and takes it.

**`ClusterProofs`** has the lemmas on one server step: each keeps the types; `Lose` only removes members, and
keeps the rest of a component that has a majority (`QuorumKept`, by cardinalities of finite sets); a shutdown or
one crash removes one member; only a bootstrap founds a component, and only when given a new name.  `ServerSafety`,
`ShutdownSafety`, `StartSafety` and `LoseSafety` keep `ServerInv` through what a script may do (`FounderAlone`: node 1
alone bootstraps, and while it does no server is a member); `ServerImplements`, `NoFounderKeeps`, `JoinKeeps` and
`ShutdownKeeps` say what the same steps do to `members`.

**`ClusterLifecycleProofs`**

| Theorem | For |
|---|---|
| `TypeCorrect`, `BoundedTheorem` | every N |
| `NoSplitBrainTheorem`, `DatadirExclusiveTheorem`, `BootstrapTheorem`, `CleanStopTheorem` | N at most 9 |
| `RefinementTheorem`: `Spec => OnePrimaryComponent` | N at most 9 |

None of the safety properties is inductive.  `SafetyInv` adds what each method may rely on.  `Quiet`: from
`sanity_check`, or the end of `stop_galera`, to the first launch nothing runs at all.  `LaunchInOrder`: a server
that runs while `start_cluster` is at work was launched by it, in order, so the next one finds a free directory.
`StopInOrder`: what still runs in `stop_galera` is at or below `node`.  `FounderAlone`: only node 1 bootstraps, and
while it does no server is in a component, so the one it founds is the only one.  `RestartInv` is for the restart
on old data.  `CleanStop` has to know that a shutdown that found the component gone cannot be part of a
successful stop: `QuorumLostByDeath` says that a server that answers without a component does so because
some node of this round is dead (`Lost`), and a dead node at or below `node` makes `stop_galera` fail when it
gets there; otherwise (`StoppedUnsafe`) every node stopped so far was not the last, and node 1 will be.
`FounderBootable` carries node 1's directory from the install or the stop to its start.  The hypothesis N ≤ 9 is
the one-digit pattern of `sanity_check`: with more nodes `Quiet` is false, since a server of node 10 survives it.
Refinement: a bootstrap is `Found`, a join `Join`, a shutdown `Leave`, a loss of servers `Leave`, `Collapse` or a
stutter, and `sanity_check` empties the membership.  `StepsLeft` counts the nodes to launch with all their pings, the
nodes to stop, the methods after the present one and the scenarios after this one; an idle script has none left.

**`CrashRecoveryProofs`**

| Theorem | For |
|---|---|
| `TypeCorrect`, `VictimDownTheorem`, `BoundedTheorem` | every N |
| `PrimaryKeptTheorem`, `RecoveryTheorem` | every N, with the properties' own hypotheses on the cohort and crashes |
| `CapturedLoadTheorem` | every number of runs from three on |
| `NoFounderTheorem`: `KeepsComponent` | N at least 2 |
| `ComponentTheorem`: steps of `PrimaryComponent` | every N |

`TypeInv` bounds `round` by the phase.  `DownInv`: in the two shorter tests the victim is already down while
sysbench is killed, between the take-down and the restart.  `MemberInv`: with three members no node of this test
bootstraps (the victim is not node 1), the members are in one component, and one kill leaves a majority of them;
a join only adds to it.  `RecoveryInv`: what `SeeSynced` saw can be undone only by a crash or a take-down, and after
a take-down `RestartVictim` clears the report before anyone can rely on it.  `LoadInv`: a run that was named and
still runs is named by the present value of `sysbench_pid` too (`pidof` prints all of them), so overwriting the
variable loses none, and after the last kill it names nothing that runs.  `NoFounderTheorem` has its hypothesis because
the victim is the last node: with one node that is node 1, and its restart is a bootstrap.  `ComponentTheorem` needs
only that nothing else runs when it is.  `StepsLeft` counts the rounds of the test and the pings of `startup_check`; the
Synced loop has none, which is why `HangsOnlyOnLostServer` has its exception.

About `PqueryCrashRecovery`:

| Theorem | For |
|---|---|
| `PqueryTypeCorrect`, `ForcedBootstrapTheorem` (`BootstrapNotRefused`), `PqueryBoundedTheorem` | every N |
| `KilledBeforeStartTheorem` (`DatadirExclusive`), `MembershipTheorem` (`MembershipSteps`) | N at most 9 |

`PqueryBoot` needs no pattern: node 1 is its own match, so that between the forced edit and its start it is down
and not unsafe, and only it is told to bootstrap.  `PqueryDown` says that nothing runs from the kill to the first start and
that nodes are started in order, as `Quiet` and `LaunchInOrder` do for `start_cluster`, and needs N ≤ 9 again.
`ServerInv` is that of `ClusterProofs`: when node 1 is started every other node is down, so that it founds the one component.

**`CertificatesProofs`**

| Theorem | For |
|---|---|
| `TypeCorrect`, `CertificatesMatchTheorem`, `KeepsIssuedTheorem`, `CompleteUnlessCutTheorem` | every number of keys |

`CertificatesMatch` alone is not inductive: a request is signed with whatever authority is there later, and a
command may find files of a call that was cut short.  The invariant adds two parts.  `StepInv`: what the
next command and those after it make is not issued yet, so that no command replaces a certificate that is; only the
last two commands of the first part, which write the client's files a second time, meet their own.  `FileInv`: what is
there has what it was made from beside it: a certificate of server or client the authority and the request it is for,
a request its key, unless that was cut short (`torn`).  This is why the second signing of the client's certificate
gives the one that is there.  `FirstStep` is where all are needed: the two `isfile` tests decide, on any
mixture of files that earlier calls left, which part of the work begins.  `CalmInv` is for behaviours in which nothing
was cut short: between two calls there is nothing or everything, and during a call what the commands before the next
one make is there (`Made`), so each command finds what it reads.

**`RollingReplacementProofs`**

| Theorem | For |
|---|---|
| `TypeCorrect`, `PortsDistinctTheorem`, `MembershipTheorem` (`KeepsComponent`), `BoundedTheorem` | every number of founders |
| `LiveDatadirTheorem` | at most three founders |
| `JoinerCanReachTheorem`, `DonorReadyTheorem`, `HandedOverTheorem` | the three founders the literals of the script are for; any ping limit and any components |

`PortInv` is the reason of distinct ports: the port in a file is the number of its node, since the donor is the node
just below.  `JoinersDown`: nodes whose turn has not come do not run, which is false with a fourth founder.  `CalmInv`
is for behaviours in which no server has crashed.  `Standing`: node 1 and the new nodes are Synced, and the
donor answers.
`FounderListed`: node 1's address is in every list, because the entry that is spoilt is that of the donor, node 3 or
above; this is why the missing comma does no harm.  `Progress`: which nodes are replaced, and which are stopped.

**`ChaosMonkeyProofs`**

| Theorem | For |
|---|---|
| `TypeCorrect`, `RestartsTheKilledTheorem`, `LoadKilledFirstTheorem` | every N and every draw |
| `MembershipTheorem` (`KeepsComponent`), `BoundedTheorem` (nine steps) | every N and every draw |
| `PrimaryKeptTheorem` | every N, with the property's own hypotheses: four members, no crash |
| `OneNodeAwayTheorem`, `ComparedUpgradedTheorem` of `RollingUpgrade` | every N |
| `UpgradeTypeCorrect`, `UpgradeMembershipTheorem` (`KeepsComponent`), `UpgradeBoundedTheorem` of `RollingUpgrade` | every N |

`VictimInv` counts the kills: a node drawn twice is down at the second kill, which then fails, so that whoever gets to
the restarts has killed two different nodes.  `StayInv`, without crashes: the members that were not killed are still
members.  `KillSurvived` is the step that needs arithmetic: of four members at least two remain beside each victim
(`TwoLeft`), more than half of the component although slow nodes may have joined it meanwhile.  `LoadInv`: the
script has one run, and leaves the kill only with its pid.
For `RollingUpgrade`, `UpgradeProgress` says that exactly the nodes above the one in hand are upgraded and run the new
version.  `AwayInv`, without crashes: who answers is a member, and members stay.  That is why the missing wait for
Synced does no harm: the port opens only after the join, and a ping is all that `startup_check` needs to see.
`UpgradeServerInv` (no server bootstraps, one component) holds with crashes too; it is all that the membership needs,
although the upgrade restarts node 1 itself: it is restarted without `--wsrep-new-cluster` and joins what is there.

**`ClusterInteractionProofs`**

| Theorem | For |
|---|---|
| `TypeCorrect`, `PrimaryKeptTheorem`, `JoinReportExactTheorem` | every number of founders from three on |
| `MembershipTheorem` (`KeepsComponent`), `BoundedTheorem` | every number of founders from three on |
| `LiveDatadirTheorem` | three founders |

`FileInv`: the donor's file is that of `create_config`, so that the joiner's port is known.  `JoinerDown`: until it is
launched the fourth node does not run; with a fourth founder that is false, and so is `LiveDatadirKept`.
`CalmInv`: without crashes the founders stay members, since the one that is shut down announces its leave and costs no
quorum, and a joiner once reported stays Synced (`ReportInv`).

**`ReplicationProofs`**

| Theorem | For |
|---|---|
| `Inductive`, `TypeCorrect`, `AppliedOnceTheorem`, `NoLoadMissedTheorem`, `ChannelsOfThisTestTheorem`, `FailureReportedTheorem` | every number of loads |
| `CheckTypeCorrect`, `SettledVerdictTheorem`, `SuccessMeansAppliedTheorem` of `TableCheck` | every number of tables and writes |

The properties hold only together.  `AppliedOnce` needs `UnreadInv`: what a slave has still to read from its master it
has from nowhere else; this rests on `OriginInv` (from where the events of a log can be, so that the two masters of a
multi-source slave have no event in common and an event that comes back is passed over) and on
`SourceInv`/`ChannelInv` (which connections there can be: never both directions beside a second master).
`NoLoadMissed` needs the converse, `ReadInv`: what a slave has read it has; a position that was read from a master is
one of its log (`CoordInv`), and nothing was loaded before it (`FreshInv`, `LoadInv`).  `BrokenInv`: a thread that
failed stays failed until the script asks, and the slaves asked so far had not failed.
For `TableCheck`, `SettledInv` says that a check begun on settled nodes finds them so at each of its steps, except for
nodes that fail, and `Copies` compares the two copies of a table; `FirstValueInv` keeps that what node 1 gave is not
spoilt, which `SuccessMeansApplied` compares node 2's copy with.

**Only model-checked.**  `ScriptEnds`, `TestEnds` and `HangsOnlyOnLostServer`: liveness under fairness is outside
the prover, and so is that a step is enabled.  Their bound is proved (`BoundedTheorem`).  The two violations of
section 5 are counterexamples.  What TLC checks beside the theorems is the same properties on the small instances.

## 7. What is not modelled

* Real time.  120 pings are "some"; that a node is back after five seconds is not said anywhere.
* The text of configurations beside ports, addresses and server ids; in `ClusterLifecycle` `create_config` succeeds
  or fails.
* The backup suite and the replication upgrade: each ends at its first command, which is misspelt or broken over
  several statements, so that nothing behind it is ever executed.  The notes under `components` have the lines.
* The inner round of the wsrep provider test; the option strings of the parallel replication modes and of the random
  option suites.
* Network partitions, and a primary component that re-forms by itself (`pc.recovery`) after a loss of quorum: the
  servers are on one machine, and no script relies on it.
* Reuse of a pid by the operating system.
* Transactions and data beyond what `TableCheck` tells apart.
* Signals to the interpreter; a script ends only by its own `exit`.
* Third-party parts (`randgen`, `sysbench_lua`, `pquery3`, `mariabackup`): commands with a status.  By size most of the
  repository is `randgen`, a copy of the Random Query Generator: its grammars and the option lists `*.cc` under
  `randgen/conf`, which are Perl data for its `combinations.pl`.  The framework calls only `gendata.pl` and never
  reads those lists; they hold no logic, and nothing maps to them.
* `GALERAUpgrade.start_upper_version`, whose only call is commented out.

## 8. Plan

The inner round of the wsrep provider test on `ClusterLifecycle` is left: the shutdown and restart of node 3 in the
middle.

What is there was built in this order: servers, start and stop, their proofs; the suites by the number of
hazards; the proofs of the first suite; joins, replication and certificates; the proofs of all safety properties of
the remaining modules; type correctness, membership and step bounds of every program.
