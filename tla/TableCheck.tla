------------------------------- MODULE TableCheck ------------------------------
(***************************************************************************)
(* The verdict of the correctness, load and upgrade suites: check_table_   *)
(* count and check_gtid_consistency (util/utility.py) read something from  *)
(* node 1 and then from node 2 and compare.  Beside them sysbench may      *)
(* still write on node 1, node 2 applies what node 1 has committed (and    *)
(* may go wrong: that is what the suites are for), and either may die.     *)
(***************************************************************************)
EXTENDS Integers, Sequences, FiniteSets

CONSTANTS
  MaxTables,  \* bound: tables of the database
  MaxWrites,  \* bound: write-sets of one behaviour
  EmptyOutput \* the empty output of a query that failed

ASSUME MaxTablesAssumption == MaxTables \in Nat \ {0}
ASSUME MaxWritesAssumption == MaxWrites \in Nat

VARIABLES
  tables,    \* how many tables the database has, in the order of "show tables"
  committed, \* the table of each write-set node 1 has committed
  applied,   \* how many of them node 2 has applied
  diverged,  \* tables whose copy on node 2 a faulty applier has spoilt
  answers,   \* the nodes, of 1 and 2, that answer queries
  writing,   \* a client is still connected to node 1
  check,     \* "count" or "gtid": the method that runs
  stage,     \* where it is
  listed,    \* the output of "show tables"
  value1,    \* the value node 1 has given
  verdict,   \* the result of the method
  settled    \* history: the check began with no writer and node 2 up to date

dataVars == <<tables, committed, applied, diverged, answers, writing>>
checkVars == <<check, stage, listed, value1, verdict, settled>>
checkerVars == <<dataVars, checkVars>>

Tables == 1..MaxTables

CheckTypeOK ==
  /\ tables \in 0..MaxTables
  /\ committed \in Seq(1..tables) /\ Len(committed) <= MaxWrites
  /\ applied \in 0..Len(committed)
  /\ diverged \subseteq 1..tables
  /\ answers \subseteq {1, 2}
  /\ writing \in BOOLEAN
  /\ check \in {"count", "gtid"}
  /\ stage \in {"begin", "node1", "node2", "done"}
  /\ listed \in 0..tables
  /\ verdict \in 0..1
  /\ settled \in BOOLEAN

CheckInit ==
  /\ tables \in 0..MaxTables
  /\ committed = <<>>
  /\ applied = 0
  /\ diverged = {}
  /\ answers = {1, 2}
  /\ writing = (tables # 0)
  /\ check \in {"count", "gtid"}
  /\ stage = "begin"
  /\ listed = 0
  /\ value1 = EmptyOutput
  /\ verdict = 0
  /\ settled = FALSE

-------------------------------------------------------------------------------
\* The servers and the client.

Prefix(n) == IF n = 1 THEN Len(committed) ELSE applied

\* What a table holds on node n: the writes it has seen, and whether one of them
\* was applied wrongly.
Contents(n, t) ==
  [writes |-> {i \in 1..Prefix(n) : committed[i] = t}, spoilt |-> n = 2 /\ t \in diverged]

\* "checksum table db.t".  A table name that is empty is a syntax error.
Checksum(n, t) ==
  IF n \in answers /\ t # 0 THEN Contents(n, t) ELSE EmptyOutput

\* "SELECT @@gtid_binlog_state"
GtidState(n) == IF n \in answers THEN [position |-> Prefix(n)] ELSE EmptyOutput

Write(t) ==
  /\ writing /\ 1 \in answers
  /\ Len(committed) < MaxWrites
  /\ committed' = Append(committed, t)
  /\ UNCHANGED <<tables, applied, diverged, answers, writing>>

Apply ==
  /\ 2 \in answers
  /\ applied < Len(committed)
  /\ applied' = applied + 1
  /\ diverged' \in {diverged, diverged \cup {committed[applied']}}
  /\ UNCHANGED <<tables, committed, answers, writing>>

StopWriting ==
  /\ writing
  /\ writing' = FALSE
  /\ UNCHANGED <<tables, committed, applied, diverged, answers>>

Fail(n) ==
  /\ n \in answers
  /\ answers' = answers \ {n}
  /\ UNCHANGED <<tables, committed, applied, diverged, writing>>

DataStep ==
  /\ (\E t \in 1..tables : Write(t)) \/ Apply \/ StopWriting \/ (\E n \in {1, 2} : Fail(n))
  /\ UNCHANGED checkVars

-------------------------------------------------------------------------------
\* The method.

\* "show tables" on node 1.  check_gtid_consistency has no such step.
Begin ==
  /\ stage = "begin"
  /\ listed' = IF check = "count" /\ 1 \in answers THEN tables ELSE 0
  /\ settled' = (~writing /\ applied = Len(committed) /\ answers = {1, 2})
  /\ stage' = "node1"
  /\ UNCHANGED <<dataVars, check, value1, verdict>>

\* The loop over the tables returns in its first round; an empty list is one
\* table with an empty name to split('\n').
Compared == IF listed = 0 THEN 0 ELSE 1

ReadSwapped(n) == \* Fault: both reads go to socket1.
  IF check = "gtid" THEN GtidState(1) ELSE Checksum(1, Compared)

Read(n) == IF check = "gtid" THEN GtidState(n) ELSE Checksum(n, Compared)

ReadNode1 ==
  /\ stage = "node1"
  /\ value1' = Read(1)
  /\ stage' = "node2"
  /\ UNCHANGED <<dataVars, check, listed, verdict, settled>>

ReadNode2 ==
  /\ stage = "node2"
  /\ verdict' = IF value1 = Read(2) THEN 0 ELSE 1
  /\ stage' = "done"
  /\ UNCHANGED <<dataVars, check, listed, value1, settled>>

CheckNext == Begin \/ ReadNode1 \/ ReadNode2 \/ DataStep

CheckSpec == CheckInit /\ [][CheckNext]_checkerVars

-------------------------------------------------------------------------------

\* When the load is over and node 2 is up to date before the check begins, and
\* both nodes answer to its end, check_table_count fails if and only if the
\* first table differs, and check_gtid_consistency succeeds: a lagging applier
\* never makes a verdict.
SettledVerdictExact ==
  stage = "done" /\ settled /\ answers = {1, 2} /\ tables # 0 =>
    (verdict = 1 <=> check = "count" /\ 1 \in diverged)

\* A writer or a lagging applier does not hide a difference: at the moment of a
\* success of nodes that answer, node 2 has applied every write node 1 had shown
\* of the first table, and none of them wrongly.
SuccessMeansApplied ==
  [][stage = "node2" /\ stage' = "done" /\ verdict' = 0 /\ check = "count"
     /\ value1 # EmptyOutput =>
       value1.writes \subseteq 1..applied /\ 1 \notin diverged]_checkerVars

-------------------------------------------------------------------------------
\* What the comments of the method say.

\* "Compare the table checksum between node1 and node2 / for table in tables":
\* a success of a quiet cluster speaks for every table.
VerdictCoversTables ==
  stage = "done" /\ settled /\ answers = {1, 2} /\ check = "count" /\ verdict = 0 =>
    diverged = {}

===============================================================================
