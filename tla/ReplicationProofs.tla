--------------------------- MODULE ReplicationProofs ---------------------------
(***************************************************************************)
(* What holds of Replication for every number of loads, whatever the       *)
(* servers and their slave threads do beside the script and whatever an    *)
(* earlier test has left running; and of TableCheck, which compares node 1 *)
(* with a node that applies its log, for every number of tables and writes.*)
(***************************************************************************)
EXTENDS Replication, TableCheck, SequenceTheorems, TLAPS

\* The connections, and those of a test.
G1 == <<"galera", 1>>
G2 == <<"galera", 2>>
M1 == <<"md1", 1>>
Of(t) == {SlotsOf(t)[i] : i \in 1..Len(SlotsOf(t))}

\* The phases in which the servers are those of this test, and those in which its
\* connections have been made.
Started == {"coords", "change", "load", "io", "sql", "stop"}
Connected == {"load", "io", "sql", "stop"}

Holds(l, event) == \E i \in 1..Len(l) : l[i] = event

\* Where the script stands in a list.
IndexInv ==
  /\ pc \in {"coords", "change"} =>
       k \in 1..2 /\ (test \in {"galera_master", "md_master"} => k = 1)
  /\ pc \in {"io", "sql"} => k \in 1..Len(SlotsOf(test))
  /\ pc \in {"galera", "md", "coords", "change"} => loads = 0
  /\ pc = "load" => loads < MaxLoads

TypeInv == TypeOK /\ IndexInv

\* A connection is to its own master or to none; without one its threads stop.
SourceInv ==
  \A slot \in Slots :
    /\ source[slot] \in {"none", MasterOf(slot)}
    /\ source[slot] = "none" => io[slot] = "No" /\ sql[slot] = "No"

\* Which connections there are.  A slave of an earlier test may be left, but never
\* one of each direction through the cluster.
ChannelInv ==
  /\ pc \in {"md", "coords", "change"} => source[G1] = "none" /\ source[G2] = "none"
  /\ pc \in {"coords", "change"} =>
       source[M1] = IF test = "master_master" /\ k = 2 THEN "galera" ELSE "none"
  /\ pc \in Connected =>
       \A slot \in Slots :
         source[slot] = IF slot \in Of(test) THEN MasterOf(slot) ELSE "none"
  /\ source[G2] = "none" \/ source[M1] = "none"

\* What is in the logs before anything is loaded.
FreshInv ==
  /\ pc \in {"md", "coords", "change"} => log["galera"] = <<>>
  /\ pc \in {"coords", "change"} =>
       \A s \in MDServers : log[s] = <<>> \/ log[s] = <<[origin |-> s, n |-> 0]>>

\* From where the events of a log can be.
OriginInv ==
  /\ \A i \in 1..Len(log["md1"]) : log["md1"][i].origin \in {"md1", "galera"}
  /\ \A i \in 1..Len(log["md2"]) : log["md2"][i].origin = "md2"
  /\ source[M1] # "none" =>
       \A i \in 1..Len(log["galera"]) : log["galera"][i].origin # "md2"

\* What a slave has still to read, it has not applied.
UnreadInv ==
  \A slot \in Slots : source[slot] # "none" =>
    \A j \in 1..Len(log[source[slot]]) :
      j > next[slot] /\ log[source[slot]][j].origin # Slave(slot) =>
        ~Holds(log[Slave(slot)], log[source[slot]][j])

\* The loads of this test are in the log of the server that is loaded.
LoadInv ==
  pc \in Started =>
    \A s \in Servers : \A i \in 1..Len(log[s]) :
      /\ log[s][i].n <= loads
      /\ log[s][i].n # 0 => log[s][i].origin = LoadedServer(test)
                            /\ Holds(log[LoadedServer(test)], log[s][i])

\* A position that was read from a master is one of its log.
CoordInv ==
  /\ pc \in {"galera", "md"} => \A i \in 1..2 : coord[i] = NoAnswer
  /\ pc \in {"coords", "change"} =>
       \A i \in 1..2 : coord[i] # NoAnswer =>
         i \in 1..Len(SlotsOf(test)) /\ coord[i] <= Len(log[MasterOf(SlotsOf(test)[i])])

\* What a slave has read, it has.
ReadInv ==
  pc \in Started =>
    \A slot \in Slots : source[slot] # "none" =>
      /\ next[slot] <= Len(log[source[slot]])
      /\ \A j \in 1..next[slot] :
           log[source[slot]][j].n # 0 => Holds(log[Slave(slot)], log[source[slot]][j])

\* A slave that failed during the load stays failed until it is asked.
BrokenInv ==
  /\ pc \in {"galera", "md", "coords", "change"} => broken = {}
  /\ pc \in {"load", "io", "sql"} =>
       \A slot \in broken : slot \in Of(test) /\ sql[slot] = "No"
  /\ pc \in {"io", "sql"} => \A i \in 1..(k - 1) : SlotsOf(test)[i] \notin broken
  /\ pc = "stop" => broken = {}

\* The invariants about the logs alone, those about the threads, and all of them.
DataInv == OriginInv /\ UnreadInv /\ AppliedOnce
PhaseInv == ChannelInv /\ FreshInv /\ LoadInv /\ CoordInv /\ ReadInv
IInv == TypeInv /\ SourceInv /\ DataInv /\ PhaseInv /\ BrokenInv

-------------------------------------------------------------------------------
(* Servers, connections and logs *)

LEMMA SlotFacts ==
  /\ Slots = {G1, G2, M1} /\ G1 # G2 /\ G1 # M1 /\ G2 # M1
  /\ Slave(G1) = "galera" /\ Slave(G2) = "galera" /\ Slave(M1) = "md1"
  /\ MasterOf(G1) = "md1" /\ MasterOf(G2) = "md2" /\ MasterOf(M1) = "galera"
  /\ \A slot \in Slots :
       Slave(slot) \in Servers /\ MasterOf(slot) \in Servers /\ MasterOf(slot) # Slave(slot)
BY DEF Slots, G1, G2, M1, Slave, MasterOf, Servers, MDServers

LEMMA ServerFacts ==
  /\ Servers = {"galera", "md1", "md2"} /\ MDServers = {"md1", "md2"}
  /\ "none" \notin Servers
  /\ \A t \in Tests : LoadedServer(t) \in {"galera", "md1"}
BY DEF Servers, MDServers, LoadedServer

\* The script's lists.
LEMMA ListFacts ==
  /\ Len(SlotsOf("master_master")) = 2 /\ Len(SlotsOf("multi_source")) = 2
  /\ Len(SlotsOf("galera_master")) = 1 /\ Len(SlotsOf("md_master")) = 1
  /\ SlotsOf("master_master")[1] = M1 /\ SlotsOf("master_master")[2] = G1
  /\ SlotsOf("multi_source")[1] = G1 /\ SlotsOf("multi_source")[2] = G2
  /\ SlotsOf("galera_master")[1] = M1 /\ SlotsOf("md_master")[1] = G1
BY DEF SlotsOf, G1, G2, M1

LEMMA OfFacts ==
  /\ Of("master_master") = {M1, G1} /\ Of("multi_source") = {G1, G2}
  /\ Of("galera_master") = {M1} /\ Of("md_master") = {G1}
<1>1. 1..2 = {1, 2} /\ 1..1 = {1}
  OBVIOUS
<1> QED BY <1>1, ListFacts DEF Of

\* The number of a server tells it from the others.
LEMMA ServerIdFacts ==
  \A a, b \in Servers : ServerId(a) = ServerId(b) <=> a = b
BY DEF ServerId, Servers, MDServers

\* A log that is appended to keeps its events and gains one.
LEMMA AppendLog ==
  ASSUME TypeOK, NEW s \in Servers, NEW e \in Events,
         log' = [log EXCEPT ![s] = Append(@, e)]
  PROVE  /\ log' \in [Servers -> Seq(Events)]
         /\ Len(log[s]) \in Nat
         /\ Len(log'[s]) = Len(log[s]) + 1
         /\ log'[s][Len(log[s]) + 1] = e
         /\ \A i \in 1..Len(log[s]) : log'[s][i] = log[s][i]
         /\ \A r \in Servers : r # s => log'[r] = log[r]
<1>1. log[s] \in Seq(Events) /\ log'[s] = Append(log[s], e)
  BY DEF TypeOK
<1>2. Len(log[s]) \in Nat
  BY <1>1
<1>3. /\ Append(log[s], e) \in Seq(Events)
      /\ Len(Append(log[s], e)) = Len(log[s]) + 1
      /\ Append(log[s], e)[Len(log[s]) + 1] = e
      /\ \A i \in 1..Len(log[s]) : Append(log[s], e)[i] = log[s][i]
  BY <1>1, AppendProperties
<1>4. log' \in [Servers -> Seq(Events)]
  BY <1>1, <1>3 DEF TypeOK
<1> QED BY <1>1, <1>2, <1>3, <1>4 DEF TypeOK

\* What a log holds after that.
LEMMA AppendLogged ==
  ASSUME TypeOK, NEW s \in Servers, NEW e \in Events,
         log' = [log EXCEPT ![s] = Append(@, e)],
         NEW r \in Servers, NEW y
  PROVE  Holds(log'[r], y) <=> Holds(log[r], y) \/ (r = s /\ y = e)
<1>1. CASE r # s
  BY <1>1, AppendLog DEF Holds
<1>2. CASE r = s
  <2> DEFINE L == Len(log[s])
  <2>1. /\ L \in Nat /\ Len(log'[s]) = L + 1 /\ log'[s][L + 1] = e
        /\ \A i \in 1..L : log'[s][i] = log[s][i]
    BY AppendLog
  <2> HIDE DEF L
  <2>2. \A i : i \in 1..(L + 1) <=> i \in 1..L \/ i = L + 1
    BY <2>1
  <2>3. (\E i \in 1..Len(log'[s]) : log'[s][i] = y)
          <=> (\E i \in 1..L : log[s][i] = y) \/ y = e
    BY <2>1, <2>2
  <2> QED BY <1>2, <2>3 DEF Holds, L
<1> QED BY <1>1, <1>2

\* No log loses anything by it, and what is new in one is that event.
LEMMA AppendGrows ==
  ASSUME TypeOK, NEW s \in Servers, NEW e \in Events,
         log' = [log EXCEPT ![s] = Append(@, e)],
         NEW r \in Servers
  PROVE  /\ Len(log[r]) \in Nat /\ Len(log'[r]) \in Nat /\ Len(log[r]) <= Len(log'[r])
         /\ \A i \in 1..Len(log[r]) : i \in 1..Len(log'[r]) /\ log'[r][i] = log[r][i]
         /\ \A i \in 1..Len(log'[r]) :
              \/ i \in 1..Len(log[r]) /\ log'[r][i] = log[r][i]
              \/ r = s /\ i = Len(log[s]) + 1 /\ log'[r][i] = e
<1>1. log[r] \in Seq(Events)
  BY DEF TypeOK
<1>2. Len(log[r]) \in Nat
  BY <1>1
<1>3. CASE r # s
  BY <1>2, <1>3, AppendLog
<1>4. CASE r = s
  <2>1. /\ Len(log'[r]) = Len(log[r]) + 1 /\ log'[r][Len(log[r]) + 1] = e
        /\ \A i \in 1..Len(log[r]) : log'[r][i] = log[r][i]
    BY <1>4, AppendLog
  <2> QED BY <1>2, <1>4, <2>1
<1> QED BY <1>3, <1>4

\* The events of a log are events.
LEMMA EventOf ==
  ASSUME TypeOK, NEW s \in Servers, NEW i \in 1..Len(log[s])
  PROVE  /\ log[s][i] \in Events /\ log[s][i].origin \in Servers
         /\ log[s][i].n \in 0..MaxLoads /\ log[s][i].n \in Nat /\ Holds(log[s], log[s][i])
<1>1. log[s] \in Seq(Events)
  BY DEF TypeOK
<1>2. log[s][i] \in Events
  BY <1>1
<1> QED BY <1>2, MaxLoadsAssumption DEF Events, Holds

-------------------------------------------------------------------------------
(* Steps that leave the logs and the connections alone *)

LEMMA SameData ==
  ASSUME DataInv, UNCHANGED <<log, source, next>>
  PROVE  DataInv'
BY DEF DataInv, OriginInv, UnreadInv, AppliedOnce, Holds

LEMMA SamePhase ==
  ASSUME PhaseInv, UNCHANGED <<log, source, next, scriptVars>>
  PROVE  PhaseInv'
BY DEF PhaseInv, ChannelInv, FreshInv, LoadInv, CoordInv, ReadInv, Holds, scriptVars

LEMMA SameServers ==
  ASSUME TypeOK, SourceInv, UNCHANGED serverVars
  PROVE  /\ SourceInv'
         /\ run' \subseteq Servers /\ log' \in [Servers -> Seq(Events)]
         /\ source' \in [Slots -> Servers \cup {"none"}] /\ next' \in [Slots -> Nat]
         /\ io' \in [Slots -> {"No", "Connecting", "Yes"}] /\ sql' \in [Slots -> {"No", "Yes"}]
BY DEF TypeOK, SourceInv, serverVars

LEMMA BeginStep ==
  ASSUME IInv, NEW t \in Tests, NEW g \in BOOLEAN, BeginTest(t, g)
  PROVE  IInv'
<1> USE DEF IInv, TypeInv
<1>1. DataInv' /\ SourceInv'
  BY SameData, SameServers DEF BeginTest, serverVars
<1>2. TypeOK'
  <2>1. coord' \in [1..2 -> Nat \cup {NoAnswer}] /\ loads' \in 0..MaxLoads
    BY MaxLoadsAssumption DEF BeginTest
  <2> QED BY <2>1, SameServers DEF BeginTest, TypeOK, Phases
<1>3. IndexInv' /\ BrokenInv'
  BY DEF BeginTest, IndexInv, BrokenInv
<1>4. PhaseInv'
  BY DEF BeginTest, serverVars, PhaseInv, ChannelInv, FreshInv, LoadInv, CoordInv, ReadInv,
         Started, Connected
<1> QED BY <1>1, <1>2, <1>3, <1>4

\* The script ends a test: nothing is asked of what it leaves.
LEMMA EndStep ==
  ASSUME IInv, pc' = "idle", k' = 1, outcome' \in {"passed", "exited", "raised"},
         UNCHANGED <<serverVars, test, gtid, coord, loads, broken>>
  PROVE  IInv'
<1> USE DEF IInv, TypeInv
<1>1. DataInv' /\ SourceInv'
  BY SameData, SameServers DEF serverVars
<1>2. TypeOK'
  BY SameServers DEF TypeOK, Phases
<1>3. IndexInv' /\ BrokenInv'
  BY DEF IndexInv, BrokenInv
<1>4. PhaseInv'
  BY DEF serverVars, PhaseInv, ChannelInv, FreshInv, LoadInv, CoordInv, ReadInv,
         Started, Connected
<1> QED BY <1>1, <1>2, <1>3, <1>4

\* The servers a list is about.
LEMMA ListedSlot ==
  ASSUME NEW t \in Tests, NEW i \in 1..Len(SlotsOf(t))
  PROVE  SlotsOf(t)[i] \in Slots /\ SlotsOf(t)[i] \in Of(t) /\ i \in 1..2
<1>1. SlotsOf(t)[i] \in Of(t)
  BY DEF Of
<1>2. Len(SlotsOf(t)) \in 1..2
  BY ListFacts DEF Tests
<1> QED BY <1>1, <1>2, OfFacts, SlotFacts DEF Tests

LEMMA CoordinatesStep ==
  ASSUME IInv, ReadCoordinates
  PROVE  IInv'
<1> USE DEF IInv, TypeInv
<1> DEFINE master == MasterOf(SlotsOf(test)[k])
<1>1. /\ pc = "coords" /\ k \in 1..2 /\ test \in Tests /\ loads = 0
      /\ k \in 1..Len(SlotsOf(test))
  BY ListFacts DEF ReadCoordinates, IndexInv, TypeOK, Tests
<1>2. master \in Servers /\ Len(log[master]) \in Nat
  <2>1. master \in Servers
    BY <1>1, ListedSlot, SlotFacts
  <2>2. log[master] \in Seq(Events)
    BY <2>1 DEF TypeOK
  <2> QED BY <2>1, <2>2
<1>3. /\ coord' = [coord EXCEPT ![k] = IF master \in run THEN Len(log[master]) ELSE NoAnswer]
      /\ UNCHANGED <<serverVars, test, gtid, loads, broken, outcome>>
      /\ \/ test = "multi_source" /\ k = 1 /\ pc' = "coords" /\ k' = 2
         \/ pc' = "change" /\ k' = k
  BY DEF ReadCoordinates, Goto
<1> HIDE DEF master
<1>4. DataInv' /\ SourceInv'
  BY <1>3, SameData, SameServers DEF serverVars
<1>5. TypeOK'
  <2>1. coord' \in [1..2 -> Nat \cup {NoAnswer}]
    BY <1>1, <1>2, <1>3 DEF TypeOK
  <2> QED BY <1>1, <1>3, <2>1, SameServers DEF TypeOK, Phases
<1>6. IndexInv' /\ BrokenInv'
  BY <1>1, <1>3 DEF IndexInv, BrokenInv
<1>7. ChannelInv' /\ FreshInv'
  BY <1>1, <1>3 DEF PhaseInv, ChannelInv, FreshInv, Connected, serverVars
<1>8. LoadInv' /\ ReadInv'
  BY <1>1, <1>3 DEF PhaseInv, LoadInv, ReadInv, Started, serverVars, Holds
<1>9. CoordInv'
  <2>1. ASSUME NEW i \in 1..2, coord'[i] # NoAnswer
        PROVE  i \in 1..Len(SlotsOf(test)) /\ coord'[i] <= Len(log[MasterOf(SlotsOf(test)[i])])
    <3>1. CASE i = k
      <4>1. coord'[i] = Len(log[master])
        BY <1>1, <1>3, <2>1, <3>1 DEF TypeOK
      <4> QED BY <1>1, <1>2, <3>1, <4>1 DEF master
    <3>2. CASE i # k
      BY <1>1, <1>3, <2>1, <3>2 DEF TypeOK, PhaseInv, CoordInv
    <3> QED BY <3>1, <3>2
  <2> QED BY <1>3, <2>1 DEF CoordInv, serverVars
<1> QED BY <1>4, <1>5, <1>6, <1>7, <1>8, <1>9 DEF PhaseInv

\* The status of the connections is asked for, one after the other.
LEMMA CheckStep ==
  ASSUME IInv, CheckIO \/ CheckSQL
  PROVE  IInv'
<1> USE DEF IInv, TypeInv
<1>1. /\ pc \in {"io", "sql"} /\ k \in 1..Len(SlotsOf(test)) /\ test \in Tests
      /\ Len(SlotsOf(test)) \in 1..2
      /\ UNCHANGED <<serverVars, test, gtid, coord, loads, broken>>
  BY ListFacts DEF CheckIO, CheckSQL, IndexInv, TypeOK, Tests
<1>2. CASE End("raised") \/ Exit
  BY <1>1, <1>2, EndStep DEF End, Exit
<1>3. CASE /\ UNCHANGED outcome
           /\ \/ pc = "io" /\ pc' = "sql" /\ k' = k
              \/ /\ pc = "sql" /\ sql[SlotsOf(test)[k]] = "Yes"
                 /\ IF k < Len(SlotsOf(test)) THEN pc' = "io" /\ k' = k + 1
                    ELSE pc' = "stop" /\ k' = 1
  <2>1. DataInv' /\ SourceInv'
    BY <1>1, SameData, SameServers DEF serverVars
  <2>2. TypeOK' /\ IndexInv'
    BY <1>1, <1>3, SameServers DEF TypeOK, IndexInv, Phases
  <2>3. PhaseInv'
    BY <1>1, <1>3 DEF serverVars, PhaseInv, ChannelInv, FreshInv, LoadInv, CoordInv,
                      ReadInv, Started, Connected, Holds
  <2>4. BrokenInv'
    <3>1. CASE pc' \in {"sql"}
      BY <1>1, <1>3, <3>1 DEF BrokenInv, serverVars
    <3>2. CASE pc = "sql"
      <4>1. \A i \in 1..k : SlotsOf(test)[i] \notin broken
        BY <1>1, <1>3, <3>2, ListedSlot DEF BrokenInv
      <4>2. k = Len(SlotsOf(test)) => broken = {}
        BY <1>1, <3>2, <4>1 DEF BrokenInv, Of
      <4> QED BY <1>1, <1>3, <3>2, <4>1, <4>2 DEF BrokenInv, serverVars
    <3> QED BY <1>3, <3>1, <3>2
  <2> QED BY <2>1, <2>2, <2>3, <2>4
<1> QED BY <1>2, <1>3 DEF CheckIO, CheckSQL, Goto

\* A server goes down: logs and positions stay.
LEMMA DownType ==
  ASSUME TypeOK, SourceInv, NEW s \in Servers, Down(s)
  PROVE  /\ SourceInv' /\ UNCHANGED <<log, source, next>>
         /\ run' \subseteq Servers
         /\ io' \in [Slots -> {"No", "Connecting", "Yes"}] /\ sql' \in [Slots -> {"No", "Yes"}]
         /\ \A slot \in Slots : sql[slot] = "No" => sql'[slot] = "No"
BY ServerFacts DEF Down, TypeOK, SourceInv

LEMMA StopStep ==
  ASSUME IInv, StopServer
  PROVE  IInv'
<1> USE DEF IInv, TypeInv
<1>1. /\ pc = "stop" /\ k \in 1..3
      /\ UNCHANGED <<test, gtid, coord, loads, broken>>
  BY DEF StopServer, TypeOK
<1>2. CASE Exit /\ UNCHANGED serverVars
  BY <1>1, <1>2, EndStep DEF Exit, End
<1>3. CASE /\ Down(StopOrder[k])
           /\ \/ k < 3 /\ pc' = "stop" /\ k' = k + 1 /\ UNCHANGED outcome
              \/ pc' = "idle" /\ k' = 1 /\ outcome' = "passed"
  <2>1. StopOrder[k] \in Servers
    BY <1>1 DEF StopOrder, Servers, MDServers
  <2>2. DataInv' /\ SourceInv' /\ UNCHANGED <<log, source, next>>
    BY <1>3, <2>1, DownType, SameData
  <2>3. TypeOK' /\ IndexInv'
    BY <1>1, <1>3, <2>1, <2>2, DownType DEF TypeOK, IndexInv, Phases
  <2>4. PhaseInv' /\ BrokenInv'
    BY <1>1, <1>3, <2>2 DEF PhaseInv, ChannelInv, FreshInv, LoadInv, CoordInv, ReadInv,
                            Started, Connected, BrokenInv, Holds
  <2> QED BY <2>2, <2>3, <2>4
<1> QED BY <1>1, <1>2, <1>3 DEF StopServer, Goto, End

LEMMA CrashStep ==
  ASSUME IInv, NEW s \in Servers, Crash(s), UNCHANGED scriptVars
  PROVE  IInv'
<1> USE DEF IInv, TypeInv
<1>1. Down(s) /\ UNCHANGED broken
  BY DEF Crash
<1>2. DataInv' /\ SourceInv' /\ PhaseInv'
  BY <1>1, DownType, SameData, SamePhase
<1>3. TypeOK' /\ IndexInv'
  BY <1>1, DownType DEF TypeOK, IndexInv, scriptVars
<1>4. BrokenInv'
  BY <1>1, DownType DEF BrokenInv, scriptVars, TypeOK
<1> QED BY <1>2, <1>3, <1>4

\* A thread connects, or fails.
LEMMA ThreadStep ==
  ASSUME IInv, NEW slot \in Slots, Connect(slot) \/ Break(slot), UNCHANGED scriptVars
  PROVE  IInv'
<1> USE DEF IInv, TypeInv
<1>1. UNCHANGED <<run, log, source, next>>
  BY DEF Connect, Break
<1>2. DataInv' /\ PhaseInv'
  BY <1>1, SameData, SamePhase
<1>3. source[slot] # "none"
  <2>1. io[slot] # "No"
    BY DEF Connect, Break
  <2> QED BY <2>1 DEF SourceInv
<1>4. TypeOK' /\ IndexInv'
  BY <1>1 DEF Connect, Break, TypeOK, IndexInv, scriptVars
<1>5. SourceInv'
  BY <1>1, <1>3 DEF Connect, Break, TypeOK, SourceInv
<1>6. BrokenInv'
  <2>1. CASE Connect(slot)
    BY <2>1 DEF Connect, BrokenInv, scriptVars
  <2>2. CASE Break(slot) /\ pc = "load"
    <3>1. slot \in Of(test)
      BY <1>3, <2>2 DEF PhaseInv, ChannelInv, Connected
    <3>2. broken' = broken \cup {slot} /\ sql' = [sql EXCEPT ![slot] = "No"]
      BY <2>2 DEF Break
    <3> QED BY <2>2, <3>1, <3>2 DEF BrokenInv, scriptVars, TypeOK
  <2>3. CASE Break(slot) /\ pc # "load"
    <3>1. broken' = broken /\ sql' = [sql EXCEPT ![slot] = "No"]
      BY <2>3 DEF Break
    <3> QED BY <2>3, <3>1 DEF BrokenInv, scriptVars, TypeOK
  <2> QED BY <2>1, <2>2, <2>3
<1> QED BY <1>2, <1>4, <1>5, <1>6

-------------------------------------------------------------------------------
(* Servers on new data directories *)

LEMMA RenewType ==
  ASSUME TypeOK, SourceInv, NEW gone \in SUBSET Servers, NEW new \in SUBSET Servers,
         Renew(gone, new)
  PROVE  /\ SourceInv'
         /\ run' \subseteq Servers /\ log' \in [Servers -> Seq(Events)]
         /\ source' \in [Slots -> Servers \cup {"none"}] /\ next' \in [Slots -> Nat]
         /\ io' \in [Slots -> {"No", "Connecting", "Yes"}] /\ sql' \in [Slots -> {"No", "Yes"}]
<1>1. ASSUME NEW s \in MDServers
      PROVE  <<[origin |-> s, n |-> 0]>> \in Seq(Events)
  <2>1. [origin |-> s, n |-> 0] \in Events
    BY MaxLoadsAssumption, ServerFacts DEF Events
  <2> QED BY <2>1
<1>2. log' \in [Servers -> Seq(Events)]
  <2>1. ASSUME NEW s \in Servers
        PROVE  (IF s \notin gone THEN log[s]
                ELSE IF s \in new \cap MDServers THEN <<[origin |-> s, n |-> 0]>>
                ELSE <<>>) \in Seq(Events)
    BY <1>1 DEF TypeOK
  <2> QED BY <2>1 DEF Renew
<1>3. SourceInv'
  BY ServerFacts DEF Renew, SourceInv, TypeOK
<1> QED BY <1>2, <1>3 DEF Renew, TypeOK

LEMMA GaleraStep ==
  ASSUME IInv, StartGalera
  PROVE  IInv'
<1> USE DEF IInv, TypeInv
<1>1. PICK new \in SUBSET {"galera"} : Renew({"galera"}, new)
  BY DEF StartGalera
<1>2. /\ pc = "galera" /\ UNCHANGED <<test, gtid, coord, loads, broken>>
      /\ \/ pc' = "md" /\ k' = 1 /\ UNCHANGED outcome
         \/ pc' = "idle" /\ k' = 1 /\ outcome' = "exited"
  BY DEF StartGalera, Goto, Exit, End
<1>3. /\ log'["galera"] = <<>> /\ log'["md1"] = log["md1"] /\ log'["md2"] = log["md2"]
      /\ source'[G1] = "none" /\ source'[G2] = "none" /\ source'[M1] = source[M1]
      /\ source'[M1] \in {"none", "galera"}
  BY <1>1, ServerFacts, SlotFacts DEF Renew, SourceInv
<1>4. /\ SourceInv' /\ run' \subseteq Servers /\ log' \in [Servers -> Seq(Events)]
      /\ source' \in [Slots -> Servers \cup {"none"}] /\ next' \in [Slots -> Nat]
      /\ io' \in [Slots -> {"No", "Connecting", "Yes"}] /\ sql' \in [Slots -> {"No", "Yes"}]
  <2>1. {"galera"} \in SUBSET Servers /\ new \in SUBSET Servers
    BY ServerFacts
  <2> QED BY <1>1, <2>1, RenewType
<1>5. TypeOK'
  BY <1>2, <1>4 DEF TypeOK, Phases
<1>6. IndexInv' /\ BrokenInv'
  BY <1>2 DEF IndexInv, BrokenInv
<1>7. PhaseInv'
  BY <1>2, <1>3 DEF PhaseInv, ChannelInv, FreshInv, LoadInv, CoordInv, ReadInv,
                    Started, Connected
<1>8. Len(log'["galera"]) = 0
  BY <1>3
<1>9. DataInv'
  <2>1. OriginInv'
    BY <1>3, <1>8 DEF DataInv, OriginInv
  <2>2. AppliedOnce'
    BY <1>3, <1>8, ServerFacts DEF DataInv, AppliedOnce
  <2>3. UnreadInv'
    <3>1. ASSUME NEW slot \in Slots, source'[slot] # "none"
          PROVE  Len(log'[source'[slot]]) = 0
      BY <1>3, <1>8, <3>1, SlotFacts
    <3> QED BY <3>1 DEF UnreadInv
  <2> QED BY <2>1, <2>2, <2>3 DEF DataInv
<1> QED BY <1>4, <1>5, <1>6, <1>7, <1>9

\* Logs that hold at most the creation of the database test, each of its own.
LEMMA FreshLogs ==
  ASSUME NEW l, l["galera"] = <<>>,
         \A s \in MDServers : l[s] = <<>> \/ l[s] = <<[origin |-> s, n |-> 0]>>,
         NEW s \in Servers, NEW i \in 1..Len(l[s])
  PROVE  i = 1 /\ l[s][i] = [origin |-> s, n |-> 0] /\ s # "galera"
<1>1. CASE l[s] = <<>>
  BY <1>1
<1>2. CASE l[s] = <<[origin |-> s, n |-> 0]>> /\ s # "galera"
  BY <1>2
<1> QED BY <1>1, <1>2, ServerFacts

LEMMA MDStep ==
  ASSUME IInv, StartMD
  PROVE  IInv'
<1> USE DEF IInv, TypeInv
<1>1. PICK up \in SUBSET MDServers : Renew(MDServers, up)
  BY ServerFacts DEF StartMD, MDNodes
<1>2. /\ pc = "md" /\ UNCHANGED <<test, gtid, coord, loads, broken>>
      /\ \/ pc' = "coords" /\ k' = 1 /\ UNCHANGED outcome
         \/ pc' = "idle" /\ k' = 1 /\ outcome' = "exited"
  BY DEF StartMD, Goto, Exit, End
<1>3. /\ log'["galera"] = <<>>
      /\ \A s \in MDServers : log'[s] = <<>> \/ log'[s] = <<[origin |-> s, n |-> 0]>>
      /\ \A slot \in Slots : source'[slot] = "none"
  BY <1>1, <1>2, ServerFacts, SlotFacts DEF Renew, PhaseInv, FreshInv, ChannelInv
<1>4. /\ SourceInv' /\ run' \subseteq Servers /\ log' \in [Servers -> Seq(Events)]
      /\ source' \in [Slots -> Servers \cup {"none"}] /\ next' \in [Slots -> Nat]
      /\ io' \in [Slots -> {"No", "Connecting", "Yes"}] /\ sql' \in [Slots -> {"No", "Yes"}]
  <2>1. MDServers \in SUBSET Servers /\ up \in SUBSET Servers
    BY ServerFacts
  <2> QED BY <1>1, <2>1, RenewType
<1>5. TypeOK'
  BY <1>2, <1>4 DEF TypeOK, Phases
<1>6. IndexInv' /\ BrokenInv'
  BY <1>2 DEF IndexInv, BrokenInv
<1>7. \A s \in Servers : \A i \in 1..Len(log'[s]) :
        i = 1 /\ log'[s][i].origin = s /\ log'[s][i].n = 0
  <2>1. ASSUME NEW s \in Servers, NEW i \in 1..Len(log'[s])
        PROVE  i = 1 /\ log'[s][i].origin = s /\ log'[s][i].n = 0
    <3>1. i = 1 /\ log'[s][i] = [origin |-> s, n |-> 0]
      BY <1>3, <2>1, FreshLogs
    <3> QED BY <3>1
  <2> QED BY <2>1
<1>8. DataInv'
  <2>1. OriginInv'
    BY <1>3, <1>7, ServerFacts, SlotFacts DEF OriginInv
  <2>2. UnreadInv' /\ AppliedOnce'
    BY <1>3, <1>7 DEF UnreadInv, AppliedOnce
  <2> QED BY <2>1, <2>2 DEF DataInv
<1>9. ChannelInv' /\ FreshInv' /\ CoordInv'
  BY <1>2, <1>3, SlotFacts DEF PhaseInv, ChannelInv, FreshInv, CoordInv, Connected
<1>10. LoadInv'
  BY <1>2, <1>7 DEF LoadInv, IndexInv
<1>11. ReadInv'
  BY <1>3 DEF ReadInv
<1> QED BY <1>4, <1>5, <1>6, <1>7, <1>8, <1>9, <1>10, <1>11 DEF PhaseInv

-------------------------------------------------------------------------------
(* Connections, loads and the events that are replicated *)

LEMMA ChangeStep ==
  ASSUME IInv, ChangeMaster
  PROVE  IInv'
<1> USE DEF IInv, TypeInv
<1> DEFINE at(slot) == CHOOSE i \in Changed : SlotsOf(test)[i] = slot
           changed == {SlotsOf(test)[i] : i \in Changed}
<1>1. /\ pc = "change" /\ test \in Tests /\ k \in 1..2 /\ loads = 0 /\ broken = {}
      /\ UNCHANGED <<test, gtid, coord, loads, broken>>
  BY DEF ChangeMaster, IndexInv, TypeOK, BrokenInv
<1>2. CASE Exit /\ UNCHANGED serverVars
  BY <1>1, <1>2, EndStep DEF Exit, End
<1>3. CASE
        /\ \A i \in Changed : Slave(SlotsOf(test)[i]) \in run /\ coord[i] # NoAnswer
        /\ source' = [slot \in Slots |-> IF slot \in changed THEN MasterOf(slot) ELSE source[slot]]
        /\ next' = [slot \in Slots |-> IF slot \in changed THEN StartAt(at(slot)) ELSE next[slot]]
        /\ io' = [slot \in Slots |-> IF slot \in changed THEN "Connecting" ELSE io[slot]]
        /\ sql' = [slot \in Slots |-> IF slot \in changed THEN "Yes" ELSE sql[slot]]
        /\ IF test = "master_master" /\ k = 1 THEN Goto("coords", 2) ELSE Goto("load", 1)
        /\ UNCHANGED <<run, log>>
  <2>1. /\ UNCHANGED outcome
        /\ \/ test = "master_master" /\ k = 1 /\ pc' = "coords" /\ k' = 2
           \/ ~(test = "master_master" /\ k = 1) /\ pc' = "load" /\ k' = 1
    BY <1>3 DEF Goto
  <2>2. Changed \subseteq 1..Len(SlotsOf(test)) /\ Changed \subseteq 1..2
    BY <1>1, ListFacts DEF Changed, Tests, IndexInv
  <2>3. \/ test = "master_master" /\ k = 1 /\ changed = {M1}
        \/ test = "master_master" /\ k = 2 /\ changed = {G1}
        \/ test = "galera_master" /\ changed = {M1}
        \/ test = "md_master" /\ changed = {G1}
        \/ test = "multi_source" /\ changed = {G1, G2}
    <3>1. CASE test = "multi_source"
      <4>1. Changed = {1, 2}
        BY <3>1 DEF Changed
      <4> QED BY <3>1, <4>1, ListFacts
    <3>2. CASE test # "multi_source"
      <4>1. Changed = {k}
        BY <3>2 DEF Changed
      <4>2. changed = {SlotsOf(test)[k]}
        BY <4>1
      <4> QED BY <1>1, <3>2, <4>2, ListFacts DEF Tests, IndexInv
    <3> QED BY <3>1, <3>2
  <2>4. \A slot \in changed :
          /\ at(slot) \in Changed /\ SlotsOf(test)[at(slot)] = slot
          /\ slot \in Slots
    BY <2>2, ListedSlot, <1>1
  <2>5. /\ \A s \in Servers : \A i \in 1..Len(log[s]) :
             i = 1 /\ log[s][i] = [origin |-> s, n |-> 0] /\ s # "galera"
        /\ log["galera"] = <<>>
    BY <1>1, FreshLogs DEF PhaseInv, FreshInv
  \* A connection begins at a position its master has reached.
  <2>6. \A slot \in changed :
          /\ next'[slot] \in Nat
          /\ next'[slot] <= Len(log[MasterOf(slot)])
    <3> TAKE slot \in changed
    <3>1. /\ at(slot) \in Changed /\ SlotsOf(test)[at(slot)] = slot /\ slot \in Slots
          /\ at(slot) \in 1..2
      BY <2>2, <2>4
    <3> HIDE DEF at
    <3>2. coord[at(slot)] # NoAnswer /\ coord[at(slot)] \in Nat
      BY <1>3, <3>1 DEF TypeOK
    <3>3. coord[at(slot)] <= Len(log[MasterOf(slot)])
      BY <1>1, <3>1, <3>2 DEF PhaseInv, CoordInv
    <3>4. Len(log[MasterOf(slot)]) \in Nat
      <4>1. log[MasterOf(slot)] \in Seq(Events)
        BY <3>1, SlotFacts DEF TypeOK
      <4> QED BY <4>1
    <3>5. next'[slot] = StartAt(at(slot))
      BY <1>3, <3>1
    <3> QED BY <3>2, <3>3, <3>4, <3>5 DEF StartAt
  <2> HIDE DEF at
  <2>7. \A slot \in Slots :
          /\ source'[slot] = IF slot \in changed THEN MasterOf(slot) ELSE source[slot]
          /\ next'[slot] \in Nat
          /\ slot \notin changed => next'[slot] = next[slot]
    BY <1>3, <2>6 DEF TypeOK
  <2>8. TypeOK'
    <3>1. next' \in [Slots -> Nat]
      BY <1>3, <2>7
    <3>2. source' \in [Slots -> Servers \cup {"none"}]
      BY <1>3, SlotFacts DEF TypeOK
    <3>3. /\ io' \in [Slots -> {"No", "Connecting", "Yes"}]
          /\ sql' \in [Slots -> {"No", "Yes"}]
      BY <1>3 DEF TypeOK
    <3> QED BY <1>1, <1>3, <2>1, <3>1, <3>2, <3>3 DEF TypeOK, Phases
  <2>9. IndexInv' /\ BrokenInv' /\ CoordInv'
    <3>1. CASE pc' = "load"
      BY <1>1, <3>1, MaxLoadsAssumption DEF IndexInv, BrokenInv, CoordInv
    <3>2. CASE pc' = "coords"
      BY <1>1, <1>3, <2>1, <3>2 DEF IndexInv, BrokenInv, PhaseInv, CoordInv
    <3> QED BY <2>1, <3>1, <3>2
  <2>10. SourceInv'
    BY <1>3, <2>7, SlotFacts, ServerFacts DEF SourceInv
  <2>11. ChannelInv'
    BY <1>1, <2>1, <2>3, <2>7, SlotFacts, OfFacts
       DEF PhaseInv, ChannelInv, Connected, Tests, IndexInv
  <2>12. FreshInv'
    BY <1>1, <1>3, <2>1 DEF PhaseInv, FreshInv
  <2>13. LoadInv'
    BY <1>1, <1>3 DEF PhaseInv, LoadInv, Started, Holds
  <2>14. ReadInv'
    <3>1. ASSUME NEW slot \in Slots, source'[slot] # "none"
          PROVE  /\ next'[slot] <= Len(log'[source'[slot]])
                 /\ \A j \in 1..next'[slot] : log'[source'[slot]][j].n = 0
      <4>1. next'[slot] <= Len(log[source'[slot]])
        <5>1. CASE slot \in changed
          BY <2>6, <2>7, <5>1
        <5>2. CASE slot \notin changed
          BY <1>1, <2>7, <3>1, <5>2 DEF PhaseInv, ReadInv, Started
        <5> QED BY <5>1, <5>2
      <4>2. source'[slot] \in Servers /\ next'[slot] \in Nat
        BY <2>7, <2>8, <3>1 DEF TypeOK
      <4>3. Len(log[source'[slot]]) \in Nat
        <5>1. log[source'[slot]] \in Seq(Events)
          BY <4>2 DEF TypeOK
        <5> QED BY <5>1
      <4>4. ASSUME NEW j \in 1..next'[slot]
            PROVE  log[source'[slot]][j].n = 0
        <5>1. j \in 1..Len(log[source'[slot]])
          BY <4>1, <4>2, <4>3
        <5>2. log[source'[slot]][j] = [origin |-> source'[slot], n |-> 0]
          BY <2>5, <4>2, <5>1
        <5> QED BY <5>2
      <4> QED BY <1>3, <4>1, <4>4
    <3> QED BY <3>1 DEF ReadInv
  <2>15. DataInv'
    <3>1. OriginInv'
      BY <1>3, <2>5 DEF DataInv, OriginInv
    <3>2. ASSUME NEW slot \in Slots, NEW event, event.origin # Slave(slot)
          PROVE  ~Holds(log[Slave(slot)], event)
      <4>1. ASSUME NEW i \in 1..Len(log[Slave(slot)])
            PROVE  log[Slave(slot)][i] # event
        <5>1. log[Slave(slot)][i] = [origin |-> Slave(slot), n |-> 0]
          BY <2>5, SlotFacts
        <5> QED BY <3>2, <5>1
      <4> QED BY <4>1 DEF Holds
    <3>3. UnreadInv'
      BY <1>3, <3>2 DEF UnreadInv, Holds
    <3> QED BY <1>3, <3>1, <3>3 DEF DataInv, AppliedOnce
  <2> QED BY <2>8, <2>9, <2>10, <2>11, <2>12, <2>13, <2>14, <2>15 DEF PhaseInv
<1> QED BY <1>2, <1>3 DEF ChangeMaster

LEMMA LoadStep ==
  ASSUME IInv, Load
  PROVE  IInv'
<1> USE DEF IInv, TypeInv
<1> DEFINE L == LoadedServer(test)
           e == [origin |-> L, n |-> loads + 1]
<1>1. /\ pc = "load" /\ test \in Tests /\ loads \in Nat /\ loads < MaxLoads
      /\ L \in {"galera", "md1"} /\ L \in Servers
      /\ UNCHANGED <<run, source, next, io, sql, test, gtid, coord, broken>>
  BY MaxLoadsAssumption, ServerFacts DEF Load, IndexInv, TypeOK
<1>2. CASE Exit /\ UNCHANGED <<loads, log>>
  BY <1>1, <1>2, EndStep DEF Exit, End, serverVars
<1>3. CASE /\ loads' = loads + 1
           /\ log' = [log EXCEPT ![L] = Append(@, e)]
           /\ IF loads + 1 < MaxLoads THEN Goto("load", 1) ELSE Goto("io", 1)
  <2>1. /\ UNCHANGED outcome /\ k' = 1
        /\ \/ pc' = "load" /\ loads + 1 < MaxLoads
           \/ pc' = "io" /\ ~(loads + 1 < MaxLoads)
    BY <1>3 DEF Goto
  <2>2. e \in Events /\ e.origin = L /\ e.n = loads + 1
    BY <1>1, MaxLoadsAssumption DEF Events
  <2> HIDE DEF e, L
  <2>3. log' \in [Servers -> Seq(Events)]
    BY <1>1, <1>3, <2>2, AppendLog
  <2>4. \A r \in Servers : \A event :
          Holds(log'[r], event) <=> Holds(log[r], event) \/ (r = L /\ event = e)
    BY <1>1, <1>3, <2>2, AppendLogged
  \* An index of a log is one of the log before the load, or the new one.
  <2>5. ASSUME NEW s \in Servers, NEW i \in 1..Len(log'[s])
        PROVE  \/ i \in 1..Len(log[s]) /\ log'[s][i] = log[s][i]
               \/ s = L /\ i = Len(log[L]) + 1 /\ log'[s][i] = e
    BY <1>1, <1>3, <2>2, AppendGrows
  <2>6. \A s \in Servers : \A i \in 1..Len(log[s]) :
          /\ log[s][i].n <= loads /\ log[s][i].n \in Nat
          /\ log[s][i] # e
    <3> TAKE s \in Servers
    <3> TAKE i \in 1..Len(log[s])
    <3>1. log[s][i].n <= loads /\ log[s][i].n \in Nat
      BY <1>1, EventOf DEF PhaseInv, LoadInv, Started
    <3> QED BY <1>1, <2>2, <3>1
  <2>7. TypeOK'
    BY <1>1, <1>3, <2>1, <2>3, MaxLoadsAssumption DEF TypeOK, Phases
  <2>8. IndexInv'
    <3>1. 1 \in 1..Len(SlotsOf(test))
      BY <1>1, ListFacts DEF Tests
    <3> QED BY <1>1, <1>3, <2>1, <3>1 DEF IndexInv
  <2>9. SourceInv' /\ BrokenInv'
    BY <1>1, <2>1 DEF SourceInv, BrokenInv
  <2>10. ChannelInv' /\ FreshInv' /\ CoordInv'
    BY <1>1, <2>1 DEF PhaseInv, ChannelInv, FreshInv, CoordInv, Connected
  <2>11. OriginInv'
    BY <1>1, <2>2, <2>5, ServerFacts DEF DataInv, OriginInv
  <2>12. AppliedOnce'
    <3>1. ASSUME NEW s \in Servers, NEW i \in 1..Len(log'[s]), NEW j \in 1..Len(log'[s]),
                 log'[s][i] = log'[s][j]
          PROVE  i = j
      BY <2>5, <2>6, <3>1 DEF DataInv, AppliedOnce
    <3> QED BY <3>1 DEF AppliedOnce
  <2>13. UnreadInv'
    <3>1. ASSUME NEW slot \in Slots, source[slot] # "none",
                 NEW j \in 1..Len(log'[source[slot]]), j > next[slot],
                 log'[source[slot]][j].origin # Slave(slot),
                 Holds(log'[Slave(slot)], log'[source[slot]][j])
          PROVE  FALSE
      <4>1. /\ source[slot] = MasterOf(slot) /\ source[slot] \in Servers
            /\ Slave(slot) \in Servers /\ source[slot] # Slave(slot)
        BY <3>1, SlotFacts DEF SourceInv
      <4>2. \/ Holds(log[Slave(slot)], log'[source[slot]][j])
            \/ Slave(slot) = L /\ log'[source[slot]][j] = e
        BY <2>4, <3>1, <4>1
      <4>3. Holds(log[Slave(slot)], log'[source[slot]][j])
        BY <2>2, <3>1, <4>2
      <4>4. CASE j \in 1..Len(log[source[slot]]) /\ log'[source[slot]][j] = log[source[slot]][j]
        BY <3>1, <4>3, <4>4 DEF DataInv, UnreadInv
      <4>5. CASE log'[source[slot]][j] = e
        BY <2>6, <4>1, <4>3, <4>5 DEF Holds
      <4> QED BY <2>5, <4>1, <4>4, <4>5
    <3> QED BY <1>1, <3>1 DEF UnreadInv
  <2>14. LoadInv'
    <3>1. ASSUME NEW s \in Servers, NEW i \in 1..Len(log'[s])
          PROVE  /\ log'[s][i].n <= loads + 1
                 /\ log'[s][i].n # 0 => log'[s][i].origin = L /\ Holds(log'[L], log'[s][i])
      <4>1. CASE i \in 1..Len(log[s]) /\ log'[s][i] = log[s][i]
        <5>1. /\ log[s][i].n <= loads + 1
              /\ log[s][i].n # 0 => log[s][i].origin = L /\ Holds(log[L], log[s][i])
          BY <1>1, <2>6, <4>1 DEF PhaseInv, LoadInv, Started, L
        <5> QED BY <1>1, <2>4, <4>1, <5>1
      <4>2. CASE log'[s][i] = e
        <5>1. Holds(log'[L], e)
          BY <1>1, <2>4
        <5>2. loads \in Nat
          BY <1>1
        <5>3. e.origin = L /\ e.n <= loads + 1
          BY <2>2, <5>2
        <5> QED BY <4>2, <5>1, <5>3
      <4> QED BY <2>5, <4>1, <4>2
    <3>2. L' = L
      BY <1>1 DEF L
    <3> QED BY <1>3, <3>1, <3>2 DEF LoadInv, L
  <2>15. ReadInv'
    <3>1. ASSUME NEW slot \in Slots, source[slot] # "none"
          PROVE  /\ next[slot] <= Len(log'[source[slot]])
                 /\ \A j \in 1..next[slot] :
                      log'[source[slot]][j].n # 0 =>
                        Holds(log'[Slave(slot)], log'[source[slot]][j])
      <4>1. source[slot] \in Servers /\ Slave(slot) \in Servers /\ next[slot] \in Nat
        BY <3>1, SlotFacts DEF SourceInv, TypeOK
      <4>2. /\ next[slot] <= Len(log[source[slot]])
            /\ \A j \in 1..next[slot] :
                 log[source[slot]][j].n # 0 => Holds(log[Slave(slot)], log[source[slot]][j])
        BY <1>1, <3>1 DEF PhaseInv, ReadInv, Started
      <4>3. /\ Len(log[source[slot]]) \in Nat /\ Len(log'[source[slot]]) \in Nat
            /\ Len(log[source[slot]]) <= Len(log'[source[slot]])
            /\ \A j \in 1..Len(log[source[slot]]) :
                 log'[source[slot]][j] = log[source[slot]][j]
        BY <1>1, <1>3, <2>2, <4>1, AppendGrows
      <4>4. \A j \in 1..next[slot] : j \in 1..Len(log[source[slot]])
        BY <4>1, <4>2, <4>3
      <4>5. next[slot] <= Len(log'[source[slot]])
        BY <4>1, <4>2, <4>3
      <4> QED BY <2>4, <4>1, <4>2, <4>3, <4>4, <4>5
    <3> QED BY <1>1, <3>1 DEF ReadInv
  <2> QED BY <2>7, <2>8, <2>9, <2>10, <2>11, <2>12, <2>13, <2>14, <2>15 DEF DataInv, PhaseInv
<1> QED BY <1>2, <1>3 DEF Load

\* What a slave reads: the next event of its master's log, of which there is one
\* only after the servers of the test have been started and connected, or while
\* they are left over from another test.
LEMMA NextEvent ==
  ASSUME IInv, NEW slot \in Slots, Replicate(slot)
  PROVE  /\ source[slot] = MasterOf(slot) /\ source[slot] \in Servers
         /\ next[slot] \in Nat /\ next[slot] + 1 \in 1..Len(log[source[slot]])
         /\ pc \notin {"md", "coords", "change"}
<1> USE DEF IInv, TypeInv
<1>1. source[slot] = MasterOf(slot) /\ source[slot] \in Servers
  BY SlotFacts DEF Replicate, SourceInv
<1>2. next[slot] \in Nat /\ Len(log[source[slot]]) \in Nat
  <2>1. log[source[slot]] \in Seq(Events)
    BY <1>1 DEF TypeOK
  <2> QED BY <2>1 DEF TypeOK
<1>3. next[slot] + 1 \in 1..Len(log[source[slot]])
  BY <1>2 DEF Replicate
<1>4. ASSUME pc \in {"md", "coords", "change"}
      PROVE  FALSE
  <2>1. slot = M1 /\ source[slot] = "galera"
    BY <1>1, <1>4, SlotFacts, ServerFacts DEF PhaseInv, ChannelInv
  <2>2. Len(log[source[slot]]) = 0
    BY <1>4, <2>1 DEF PhaseInv, FreshInv
  <2> QED BY <1>2, <1>3, <2>2
<1> QED BY <1>1, <1>2, <1>3, <1>4

\* From where an event is that a slave applies: not from a server that the slave
\* is itself the master of, nor from one that its other connection is to.
LEMMA EventOrigin ==
  ASSUME IInv, NEW slot \in Slots, Replicate(slot),
         NEW event, event = log[source[slot]][next[slot] + 1],
         NEW t \in Slots, source[t] # "none"
  PROVE  /\ source[t] = Slave(slot) => event.origin \in {Slave(slot), Slave(t)}
         /\ t # slot /\ Slave(t) = Slave(slot) =>
              \A j \in 1..Len(log[source[t]]) :
                log[source[t]][j].origin # Slave(t) => log[source[t]][j] # event
         /\ Slave(slot) = "md1" => event.origin \in {"md1", "galera"}
         /\ Slave(slot) = "galera" /\ source[M1] # "none" => event.origin # "md2"
<1> USE DEF IInv, TypeInv
<1>1. /\ source[slot] = MasterOf(slot) /\ source[slot] \in Servers
      /\ next[slot] + 1 \in 1..Len(log[source[slot]])
      /\ source[t] = MasterOf(t)
  BY NextEvent DEF SourceInv
<1>2. event.origin \in Servers
  BY <1>1, EventOf
<1>3. /\ slot = G1 => event.origin \in {"md1", "galera"}
      /\ slot = G2 => event.origin = "md2" /\ source[M1] = "none"
      /\ slot = M1 => event.origin \in {"md1", "galera"}
  <2>1. source[slot] # "none"
    BY <1>1, ServerFacts
  <2> QED BY <1>1, <1>2, <2>1, SlotFacts, ServerFacts DEF DataInv, OriginInv, PhaseInv, ChannelInv
<1>4. t # slot /\ Slave(t) = Slave(slot) =>
        \A j \in 1..Len(log[source[t]]) :
          log[source[t]][j].origin # Slave(t) => log[source[t]][j] # event
  BY <1>1, <1>3, SlotFacts DEF DataInv, OriginInv
<1> QED BY <1>1, <1>3, <1>4, SlotFacts

LEMMA PassStep ==
  ASSUME IInv, NEW slot \in Slots, Replicate(slot), UNCHANGED scriptVars,
         UNCHANGED log, log[source[slot]][next[slot] + 1].origin = Slave(slot)
  PROVE  IInv'
<1> USE DEF IInv, TypeInv
<1> DEFINE event == log[source[slot]][next[slot] + 1]
<1>1. /\ next' = [next EXCEPT ![slot] = @ + 1] /\ next \in [Slots -> Nat]
      /\ UNCHANGED <<run, source, io, sql, broken, pc, test, gtid, k, coord, loads, outcome>>
  BY DEF Replicate, scriptVars, TypeOK
<1>2. /\ source[slot] \in Servers /\ source[slot] = MasterOf(slot)
      /\ next[slot] \in Nat /\ next[slot] + 1 \in 1..Len(log[source[slot]])
      /\ pc \notin {"md", "coords", "change"}
  BY NextEvent
<1>3. TypeOK' /\ IndexInv' /\ SourceInv' /\ BrokenInv'
  BY <1>1 DEF TypeOK, IndexInv, SourceInv, BrokenInv
<1>4. ChannelInv' /\ FreshInv' /\ CoordInv' /\ LoadInv'
  BY <1>1 DEF PhaseInv, ChannelInv, FreshInv, CoordInv, LoadInv
<1>5. DataInv'
  BY <1>1 DEF DataInv, OriginInv, AppliedOnce, UnreadInv
<1>6. ReadInv'
  <2>1. ASSUME pc \in Started, event.n # 0
        PROVE  Holds(log[Slave(slot)], event)
    BY <1>2, <2>1 DEF PhaseInv, LoadInv
  <2>2. ASSUME pc \in Started
        PROVE  /\ next[slot] + 1 <= Len(log[source[slot]])
               /\ \A j \in 1..(next[slot] + 1) :
                    log[source[slot]][j].n # 0 => Holds(log[Slave(slot)], log[source[slot]][j])
    <3>1. source[slot] # "none"
      BY <1>2, ServerFacts
    <3>2. \A j \in 1..next[slot] :
            log[source[slot]][j].n # 0 => Holds(log[Slave(slot)], log[source[slot]][j])
      BY <2>2, <3>1 DEF PhaseInv, ReadInv
    <3>3. Len(log[source[slot]]) \in Nat
      <4>1. log[source[slot]] \in Seq(Events)
        BY <1>2 DEF TypeOK
      <4> QED BY <4>1
    <3> QED BY <1>2, <2>1, <2>2, <3>2, <3>3
  <2> HIDE DEF event
  <2> QED BY <1>1, <2>2 DEF PhaseInv, ReadInv
<1> QED BY <1>3, <1>4, <1>5, <1>6 DEF PhaseInv

LEMMA ApplyStep ==
  ASSUME IInv, NEW slot \in Slots, Replicate(slot), UNCHANGED scriptVars,
         log[source[slot]][next[slot] + 1].origin # Slave(slot),
         log' = [log EXCEPT ![Slave(slot)] = Append(@, log[source[slot]][next[slot] + 1])]
  PROVE  IInv'
<1> USE DEF IInv, TypeInv
<1> DEFINE s == Slave(slot)
           m == source[slot]
           event == log[source[slot]][next[slot] + 1]
<1>1. /\ next' = [next EXCEPT ![slot] = @ + 1] /\ next \in [Slots -> Nat]
      /\ UNCHANGED <<run, source, io, sql, broken, pc, test, gtid, k, coord, loads, outcome>>
  BY DEF Replicate, scriptVars, TypeOK
<1>2. /\ m \in Servers /\ m = MasterOf(slot) /\ s \in Servers /\ m # s /\ m # "none"
      /\ next[slot] \in Nat /\ next[slot] + 1 \in 1..Len(log[m])
      /\ pc \notin {"md", "coords", "change"}
  BY NextEvent, SlotFacts, ServerFacts
<1>3. event \in Events /\ Holds(log[m], event)
  BY <1>2, EventOf
<1>4. ~Holds(log[s], event)
  BY <1>2 DEF DataInv, UnreadInv
<1>5. \A r \in Servers : \A x : Holds(log'[r], x) <=> Holds(log[r], x) \/ (r = s /\ x = event)
  <2>1. TypeOK /\ s \in Servers /\ event \in Events /\ log' = [log EXCEPT ![s] = Append(@, event)]
    BY <1>2, <1>3
  <2> HIDE DEF s, event
  <2> QED BY <2>1, AppendLogged
<1>6. \A r \in Servers :
        /\ Len(log[r]) \in Nat /\ Len(log'[r]) \in Nat /\ Len(log[r]) <= Len(log'[r])
        /\ \A i \in 1..Len(log[r]) : i \in 1..Len(log'[r]) /\ log'[r][i] = log[r][i]
        /\ \A i \in 1..Len(log'[r]) :
             \/ i \in 1..Len(log[r]) /\ log'[r][i] = log[r][i]
             \/ r = s /\ i = Len(log[s]) + 1 /\ log'[r][i] = event
  BY <1>2, <1>3, AppendGrows
<1>7. log' \in [Servers -> Seq(Events)]
  BY <1>2, <1>3, AppendLog
<1>8. TypeOK' /\ IndexInv' /\ SourceInv' /\ BrokenInv'
  BY <1>1, <1>7 DEF TypeOK, IndexInv, SourceInv, BrokenInv
<1>9. ChannelInv' /\ FreshInv'
  BY <1>1, <1>2 DEF PhaseInv, ChannelInv, FreshInv
<1>10. CoordInv'
  BY <1>1, <1>2 DEF PhaseInv, CoordInv
<1> HIDE DEF s, m, event
<1>11. OriginInv'
  <2>1. ASSUME NEW i \in 1..Len(log'["md1"])
        PROVE  log'["md1"][i].origin \in {"md1", "galera"}
    <3>1. s = "md1" => event.origin \in {"md1", "galera"}
      BY <1>2, EventOrigin DEF s, m, event
    <3> QED BY <1>6, <3>1, ServerFacts DEF DataInv, OriginInv
  <2>2. ASSUME NEW i \in 1..Len(log'["md2"])
        PROVE  log'["md2"][i].origin = "md2"
    <3>1. s # "md2"
      BY SlotFacts DEF s
    <3> QED BY <1>6, <3>1, ServerFacts DEF DataInv, OriginInv
  <2>3. ASSUME source[M1] # "none", NEW i \in 1..Len(log'["galera"])
        PROVE  log'["galera"][i].origin # "md2"
    <3>1. s = "galera" => event.origin # "md2"
      BY <1>2, <2>3, EventOrigin DEF s, m, event
    <3> QED BY <1>6, <2>3, <3>1, ServerFacts DEF DataInv, OriginInv
  <2> QED BY <1>1, <2>1, <2>2, <2>3 DEF OriginInv
<1>12. AppliedOnce'
  <2>1. ASSUME NEW r \in Servers, NEW i \in 1..Len(log'[r]), NEW j \in 1..Len(log'[r]),
               log'[r][i] = log'[r][j]
        PROVE  i = j
    <3>1. ASSUME r = s PROVE \A l \in 1..Len(log[r]) : log[r][l] # event
      BY <1>4, <3>1 DEF Holds
    <3> QED BY <1>6, <2>1, <3>1 DEF DataInv, AppliedOnce
  <2> QED BY <2>1 DEF AppliedOnce
<1>13. UnreadInv'
  <2>1. ASSUME NEW t \in Slots, source[t] # "none",
               NEW j \in 1..Len(log'[source[t]]), j > next'[t],
               log'[source[t]][j].origin # Slave(t),
               Holds(log'[Slave(t)], log'[source[t]][j])
        PROVE  FALSE
    <3>1. /\ source[t] = MasterOf(t) /\ source[t] \in Servers /\ source[t] # Slave(t)
          /\ Slave(t) \in Servers
      BY <2>1, SlotFacts DEF SourceInv
    <3>2. j > next[t]
      BY <1>1, <2>1
    <3>3. CASE j \in 1..Len(log[source[t]]) /\ log'[source[t]][j] = log[source[t]][j]
      <4>1. Slave(t) = s /\ log[source[t]][j] = event
        BY <1>5, <2>1, <3>1, <3>2, <3>3 DEF DataInv, UnreadInv
      <4>2. CASE t = slot
        <5>1. log[m][j] = log[m][next[slot] + 1] /\ j \in 1..Len(log[m])
          BY <3>3, <4>1, <4>2 DEF m, event
        <5>2. j = next[slot] + 1
          BY <1>2, <5>1 DEF DataInv, AppliedOnce
        <5> QED BY <1>1, <2>1, <4>2, <5>2
      <4>3. CASE t # slot
        BY <2>1, <3>3, <4>1, <4>3, EventOrigin DEF s, event
      <4> QED BY <4>2, <4>3
    <3>4. CASE source[t] = s /\ log'[source[t]][j] = event
      BY <2>1, <3>4, EventOrigin DEF s, event
    <3> QED BY <1>6, <3>1, <3>3, <3>4
  <2> QED BY <1>1, <2>1 DEF UnreadInv
<1>14. LoadInv'
  <2>1. ASSUME pc \in Started, NEW r \in Servers, NEW i \in 1..Len(log'[r])
        PROVE  /\ log'[r][i].n <= loads
               /\ log'[r][i].n # 0 =>
                    /\ log'[r][i].origin = LoadedServer(test)
                    /\ Holds(log'[LoadedServer(test)], log'[r][i])
    <3>1. PICK q \in Servers : \E j \in 1..Len(log[q]) : log[q][j] = log'[r][i]
      BY <1>2, <1>3, <1>6 DEF Holds
    <3>2. /\ log'[r][i].n <= loads
          /\ log'[r][i].n # 0 =>
               /\ log'[r][i].origin = LoadedServer(test)
               /\ Holds(log[LoadedServer(test)], log'[r][i])
      BY <2>1, <3>1 DEF PhaseInv, LoadInv
    <3>3. LoadedServer(test) \in Servers
      BY ServerFacts DEF TypeOK
    <3> QED BY <1>5, <3>2, <3>3
  <2> QED BY <1>1, <2>1 DEF LoadInv
<1>15. ReadInv'
  <2>1. ASSUME pc \in Started, NEW t \in Slots, source[t] # "none"
        PROVE  /\ next'[t] <= Len(log'[source[t]])
               /\ \A j \in 1..next'[t] :
                    log'[source[t]][j].n # 0 => Holds(log'[Slave(t)], log'[source[t]][j])
    <3>1. source[t] \in Servers /\ Slave(t) \in Servers /\ next[t] \in Nat
      BY <1>1, <2>1, SlotFacts DEF SourceInv
    <3>2. /\ next[t] <= Len(log[source[t]])
          /\ \A j \in 1..next[t] :
               log[source[t]][j].n # 0 => Holds(log[Slave(t)], log[source[t]][j])
      BY <2>1 DEF PhaseInv, ReadInv
    <3>3. \A j \in 1..next[t] :
            /\ j \in 1..Len(log[source[t]])
            /\ log'[source[t]][j].n # 0 => Holds(log'[Slave(t)], log'[source[t]][j])
      <4> TAKE j \in 1..next[t]
      <4>1. j \in 1..Len(log[source[t]])
        BY <1>6, <3>1, <3>2
      <4>2. log'[source[t]][j] = log[source[t]][j]
        BY <1>6, <3>1, <4>1
      <4> QED BY <1>5, <3>1, <3>2, <4>1, <4>2
    <3>4. CASE t # slot
      <4>1. next'[t] = next[t]
        BY <1>1, <3>4
      <4> QED BY <1>6, <3>1, <3>2, <3>3, <4>1
    <3>5. CASE t = slot
      <4>1. next'[t] = next[t] + 1 /\ next[t] + 1 \in 1..Len(log[source[t]])
        BY <1>1, <1>2, <3>5 DEF m
      <4>2. log'[source[t]][next[t] + 1] = event /\ Holds(log'[Slave(t)], event)
        <5>1. log'[source[t]][next[t] + 1] = event
          BY <1>6, <3>1, <3>5, <4>1 DEF event
        <5>2. s \in Servers /\ Slave(t) = s
          BY <1>2, <3>5 DEF s
        <5> QED BY <1>5, <5>1, <5>2
      <4>3. next'[t] <= Len(log'[source[t]])
        BY <1>6, <3>1, <4>1
      <4> QED BY <3>1, <3>3, <4>1, <4>2, <4>3
    <3> QED BY <3>4, <3>5
  <2> QED BY <1>1, <2>1 DEF ReadInv
<1> QED BY <1>8, <1>9, <1>10, <1>11, <1>12, <1>13, <1>14, <1>15 DEF DataInv, PhaseInv

LEMMA ReplicateStep ==
  ASSUME IInv, NEW slot \in Slots, Replicate(slot), UNCHANGED scriptVars
  PROVE  IInv'
<1> DEFINE event == log[source[slot]][next[slot] + 1]
<1>1. event.origin \in Servers /\ Slave(slot) \in Servers
  BY NextEvent, EventOf, SlotFacts DEF IInv, TypeInv
<1>2. CASE event.origin = Slave(slot)
  <2>1. UNCHANGED log
    BY <1>2 DEF Replicate
  <2> QED BY <1>2, <2>1, PassStep
<1>3. CASE event.origin # Slave(slot)
  <2>1. log' = [log EXCEPT ![Slave(slot)] = Append(@, event)]
    BY <1>1, <1>3, ServerIdFacts DEF Replicate
  <2> QED BY <1>3, <2>1, ApplyStep
<1> QED BY <1>2, <1>3

-------------------------------------------------------------------------------
(* The invariant *)

LEMMA InitInv == Init => IInv
<1> SUFFICES ASSUME Init PROVE IInv
  OBVIOUS
<1>1. TypeInv
  <2>1. log \in [Servers -> Seq(Events)] /\ loads \in 0..MaxLoads
    BY MaxLoadsAssumption DEF Init
  <2>2. pc \in Phases /\ coord \in [1..2 -> Nat \cup {NoAnswer}]
    BY DEF Init, Phases
  <2>3. IndexInv
    BY DEF Init, IndexInv
  <2>4. /\ run \subseteq Servers /\ broken \subseteq Slots
        /\ source \in [Slots -> Servers \cup {"none"}] /\ next \in [Slots -> Nat]
    BY DEF Init
  <2>5. /\ io \in [Slots -> {"No", "Connecting", "Yes"}] /\ sql \in [Slots -> {"No", "Yes"}]
    BY DEF Init
  <2>6. test \in Tests /\ k \in 1..3 /\ outcome = "none"
    BY DEF Init
  <2>7. gtid \in BOOLEAN
    BY DEF Init
  <2> QED BY <2>1, <2>2, <2>3, <2>4, <2>5, <2>6, <2>7 DEF TypeInv, TypeOK
<1>2. \A s \in Servers : Len(log[s]) = 0
  BY DEF Init
<1>3. SourceInv /\ BrokenInv
  BY DEF Init, SourceInv, BrokenInv
<1>4. DataInv
  BY <1>2, ServerFacts DEF Init, DataInv, OriginInv, UnreadInv, AppliedOnce
<1>5. PhaseInv
  BY SlotFacts
  DEF Init, PhaseInv, ChannelInv, FreshInv, LoadInv, CoordInv, ReadInv, Started, Connected
<1> QED BY <1>1, <1>3, <1>4, <1>5 DEF IInv

LEMMA Step == IInv /\ [Next]_vars => IInv'
<1> SUFFICES ASSUME IInv, [Next]_vars PROVE IInv'
  OBVIOUS
<1>1. ASSUME NEW t \in Tests, NEW g \in BOOLEAN, BeginTest(t, g) PROVE IInv'
  BY <1>1, BeginStep
<1>2. CASE StartGalera
  BY <1>2, GaleraStep
<1>3. CASE StartMD
  BY <1>3, MDStep
<1>4. CASE ReadCoordinates
  BY <1>4, CoordinatesStep
<1>5. CASE ChangeMaster
  BY <1>5, ChangeStep
<1>6. CASE Load
  BY <1>6, LoadStep
<1>7. CASE CheckIO \/ CheckSQL
  BY <1>7, CheckStep
<1>8. CASE StopServer
  BY <1>8, StopStep
<1>9. ASSUME NEW s \in Servers, Crash(s), UNCHANGED scriptVars PROVE IInv'
  BY <1>9, CrashStep
<1>10. ASSUME NEW slot \in Slots, Connect(slot) \/ Break(slot), UNCHANGED scriptVars PROVE IInv'
  BY <1>10, ThreadStep
<1>11. ASSUME NEW slot \in Slots, Replicate(slot), UNCHANGED scriptVars PROVE IInv'
  BY <1>11, ReplicateStep
<1>12. CASE UNCHANGED vars
  <2>1. UNCHANGED <<scriptVars, run, log, source, next, io, sql, broken>>
    BY <1>12 DEF vars, serverVars
  <2>2. DataInv' /\ PhaseInv'
    BY <2>1, SameData, SamePhase DEF IInv
  <2>3. TypeInv' /\ SourceInv' /\ BrokenInv'
    BY <2>1 DEF IInv, TypeInv, TypeOK, IndexInv, SourceInv, BrokenInv, scriptVars
  <2> QED BY <2>2, <2>3 DEF IInv
<1> QED BY <1>1, <1>2, <1>3, <1>4, <1>5, <1>6, <1>7, <1>8, <1>9, <1>10, <1>11, <1>12
        DEF Next, ScriptStep, ServerStep

\* All of the above holds in every state, so no test relies on what it has not set
\* up itself.
THEOREM Inductive == Spec => []IInv
<1> QED BY InitInv, Step, PTL DEF Spec

-------------------------------------------------------------------------------
(* What a test can rely on *)

\* Every variable of the tests and of the servers stays in its range: the script
\* has at most two connections and three servers to work through, and the logs
\* hold events only.
THEOREM TypeCorrect == Spec => []TypeOK
<1>1. IInv => TypeOK
  BY DEF IInv, TypeInv
<1> QED BY <1>1, Inductive, PTL

\* No server applies an event a second time: an event that comes back is passed
\* over by its server_id, and of two connections only one has it.
THEOREM AppliedOnceTheorem == Spec => []AppliedOnce
<1>1. IInv => AppliedOnce
  BY DEF IInv, DataInv
<1> QED BY <1>1, Inductive, PTL

\* While a test loads and checks, the connections are its own: start_galera and
\* start_md have ended whatever an earlier test has left connected.
THEOREM ChannelsOfThisTestTheorem == Spec => []ChannelsOfThisTest
<1>1. IInv => ChannelsOfThisTest
  BY DEF IInv, PhaseInv, ChannelInv, ChannelsOfThisTest, Connected, Of
<1> QED BY <1>1, Inductive, PTL

\* A slave that fails during the load fails the test: the check that asks it finds
\* its thread stopped, and the others before it cannot hide that.
THEOREM FailureReportedTheorem == Spec => []FailureReported
<1>1. IInv => FailureReported
  BY DEF IInv, BrokenInv, FailureReported
<1> QED BY <1>1, Inductive, PTL

\* Every load of a test that is before the slave's position is on the slave,
\* whatever that position was read from.
THEOREM NoLoadMissedTheorem == Spec => []NoLoadMissed
<1>1. ASSUME IInv, pc \in Connected, NEW slot \in Slots, source[slot] # "none",
             NEW n \in 1..loads, NEW event, event = [origin |-> LoadedServer(test), n |-> n],
             NEW i \in 1..Len(log[source[slot]]), log[source[slot]][i] = event,
             ~Holds(log[Slave(slot)], event)
      PROVE  i \in (next[slot] + 1)..Len(log[source[slot]])
  <2>1. event.n # 0
    BY <1>1 DEF IInv, TypeInv, TypeOK
  <2>2. next[slot] \in Nat /\ source[slot] \in Servers
    BY <1>1 DEF IInv, TypeInv, TypeOK
  <2>3. Len(log[source[slot]]) \in Nat
    <3>1. log[source[slot]] \in Seq(Events)
      BY <1>1, <2>2 DEF IInv, TypeInv, TypeOK
    <3> QED BY <3>1
  <2>4. i \notin 1..next[slot]
    <3>1. pc \in Started
      BY <1>1 DEF Connected, Started
    <3> QED BY <1>1, <2>1, <3>1 DEF IInv, PhaseInv, ReadInv
  <2> QED BY <1>1, <2>2, <2>3, <2>4
<1>2. IInv => NoLoadMissed
  <2> SUFFICES ASSUME IInv, pc \in Connected, NEW slot \in Slots, source[slot] # "none",
                      NEW n \in 1..loads,
                      NEW i \in 1..Len(log[source[slot]]),
                      log[source[slot]][i] = [origin |-> LoadedServer(test), n |-> n],
                      ~Holds(log[Slave(slot)], [origin |-> LoadedServer(test), n |-> n])
               PROVE  \E j \in (next[slot] + 1)..Len(log[source[slot]]) :
                        log[source[slot]][j] = [origin |-> LoadedServer(test), n |-> n]
    BY DEF NoLoadMissed, Connected, Holds
  <2>1. i \in (next[slot] + 1)..Len(log[source[slot]])
    BY <1>1
  <2> QED BY <2>1
<1> QED BY <1>2, Inductive, PTL

-------------------------------------------------------------------------------
(* TableCheck *)

CheckTypeInv ==
  /\ committed \in Seq(1..tables) /\ applied \in Nat
  /\ answers \subseteq {1, 2} /\ check \in {"count", "gtid"}
  /\ stage \in {"begin", "node1", "node2", "done"}

\* Node 1's copy is never spoilt, and a list that is empty gives no value.
FirstValueInv ==
  stage = "node2" /\ check = "count" /\ value1 # EmptyOutput =>
    listed # 0 /\ value1.spoilt = FALSE

\* A check that began on settled nodes finds them so: what it read of node 1 is
\* what it would read again, as long as both answer.
SettledInv ==
  settled /\ stage # "begin" =>
    /\ ~writing /\ applied = Len(committed)
    /\ answers = {1, 2} =>
         /\ check = "count" => listed = tables
         /\ stage = "node2" => value1 = Read(1)

CheckInv == CheckTypeInv /\ FirstValueInv /\ SettledInv /\ SettledVerdictExact

\* A step of the data leaves the check alone, and settled nodes as they are but for
\* one that fails.
LEMMA DataStepFacts ==
  ASSUME CheckTypeInv, DataStep
  PROVE  /\ CheckTypeInv' /\ UNCHANGED <<check, stage, listed, value1, verdict, settled, tables>>
         /\ Len(committed) <= Len(committed') /\ \A i \in 1..Len(committed) : committed'[i] = committed[i]
         /\ ~writing /\ applied = Len(committed) =>
              ~writing' /\ UNCHANGED <<committed, applied, diverged>> /\ answers' \subseteq answers
<1>1. UNCHANGED <<check, stage, listed, value1, verdict, settled>>
  BY DEF DataStep, checkVars
<1> USE DEF CheckTypeInv
<1>2. CASE \E t \in 1..tables : Write(t)
  <2>1. PICK t \in 1..tables : Write(t)
    BY <1>2
  <2>2. committed' \in Seq(1..tables) /\ writing
    BY <2>1 DEF Write
  <2> QED BY <1>1, <2>1, <2>2 DEF Write
<1>3. CASE Apply
  BY <1>1, <1>3 DEF Apply
<1>4. CASE StopWriting
  BY <1>1, <1>4 DEF StopWriting
<1>5. CASE \E n \in {1, 2} : Fail(n)
  BY <1>1, <1>5 DEF Fail
<1> QED BY <1>2, <1>3, <1>4, <1>5 DEF DataStep

\* Node 1's copy of a table is never spoilt, and node 2's is the same if and only if
\* it is not either, once node 2 has applied the log.
LEMMA Copies ==
  /\ Contents(1, 1).spoilt = FALSE
  /\ Contents(2, 1).spoilt = (1 \in diverged)
  /\ Contents(2, 1).writes = {i \in 1..applied : committed[i] = 1}
  /\ applied = Len(committed) => (Contents(1, 1) = Contents(2, 1) <=> 1 \notin diverged)
<1>1. \A n : Contents(n, 1).spoilt = (n = 2 /\ 1 \in diverged)
  BY DEF Contents
<1>2. /\ (1 = 2 /\ 1 \in diverged) = FALSE
      /\ (2 = 2 /\ 1 \in diverged) = (1 \in diverged)
  OBVIOUS
<1>3. Contents(1, 1).spoilt = FALSE /\ Contents(2, 1).spoilt = (1 \in diverged)
  BY <1>1, <1>2, Zenon
<1>4. Contents(2, 1).writes = {i \in 1..applied : committed[i] = 1}
  BY DEF Contents, Prefix
<1>5. ASSUME applied = Len(committed)
      PROVE  Contents(1, 1) = Contents(2, 1) <=> 1 \notin diverged
  <2>1. Prefix(1) = Prefix(2)
    BY <1>5 DEF Prefix
  <2>2. ASSUME 1 \notin diverged
        PROVE  Contents(1, 1) = Contents(2, 1)
    <3>1. (1 = 2 /\ 1 \in diverged) = (2 = 2 /\ 1 \in diverged)
      BY <2>2
    <3> QED BY <2>1, <3>1, Zenon DEF Contents
  <2>3. ASSUME 1 \in diverged
        PROVE  Contents(1, 1) # Contents(2, 1)
    <3>1. (1 \in diverged) = TRUE
      BY <2>3
    <3>2. Contents(2, 1).spoilt = TRUE
      BY <1>3, <3>1, Zenon
    <3> QED BY <1>3, <3>2
  <2> QED BY <2>2, <2>3
<1> QED BY <1>3, <1>4, <1>5

LEMMA InitCheck == CheckInit => CheckInv
<1> SUFFICES ASSUME CheckInit PROVE CheckInv
  OBVIOUS
<1>1. committed = <<>> /\ committed \in Seq(1..tables)
  BY DEF CheckInit
<1> QED BY <1>1 DEF CheckInit, CheckInv, CheckTypeInv, FirstValueInv, SettledInv,
                    SettledVerdictExact

LEMMA CheckStepInv == CheckInv /\ [CheckNext]_checkerVars => CheckInv'
<1> SUFFICES ASSUME CheckInv, [CheckNext]_checkerVars PROVE CheckInv'
  OBVIOUS
<1>1. /\ CheckTypeInv /\ FirstValueInv /\ SettledInv /\ SettledVerdictExact
      /\ Len(committed) \in Nat
  BY DEF CheckInv, CheckTypeInv
<1>2. CASE Begin
  <2>1. /\ stage' = "node1" /\ UNCHANGED <<dataVars, check>>
        /\ listed' = IF check = "count" /\ 1 \in answers THEN tables ELSE 0
        /\ settled' = (~writing /\ applied = Len(committed) /\ answers = {1, 2})
    BY <1>2 DEF Begin
  <2> QED BY <1>1, <2>1 DEF CheckInv, CheckTypeInv, FirstValueInv, SettledInv,
                    SettledVerdictExact, dataVars
<1>3. CASE ReadNode1
  <2>1. /\ stage = "node1" /\ stage' = "node2" /\ value1' = Read(1)
        /\ UNCHANGED <<dataVars, check, listed, verdict, settled>>
    BY <1>3 DEF ReadNode1
  <2>2. Read(1)' = Read(1)
    BY <2>1 DEF dataVars, Read, Compared, GtidState, Checksum, Contents,
                Prefix
  <2>3. FirstValueInv'
    <3>1. ASSUME check = "count", value1' # EmptyOutput
          PROVE  listed # 0 /\ value1' = Contents(1, 1)
      BY <2>1, <3>1 DEF Read, Compared, Checksum
    <3> QED BY <2>1, <3>1, Copies DEF FirstValueInv
  <2> QED BY <1>1, <2>1, <2>2, <2>3 DEF CheckInv, CheckTypeInv, SettledInv,
                    SettledVerdictExact, dataVars
<1>4. CASE ReadNode2
  <2>1. /\ stage = "node2" /\ stage' = "done"
        /\ verdict' = IF value1 = Read(2) THEN 0 ELSE 1
        /\ UNCHANGED <<dataVars, check, listed, value1, settled>>
    BY <1>4 DEF ReadNode2
  <2>2. ASSUME settled, answers = {1, 2}, tables # 0
        PROVE  verdict' = 1 <=> check = "count" /\ 1 \in diverged
    <3>1. applied = Len(committed) /\ value1 = Read(1) /\ (check = "count" => listed # 0)
      BY <1>1, <2>1, <2>2 DEF SettledInv
    <3>2. CASE check = "gtid"
      <4>1. Read(1) = Read(2)
        BY <2>2, <3>1, <3>2 DEF Read, GtidState, Prefix
      <4> QED BY <2>1, <3>1, <3>2, <4>1
    <3>3. CASE check = "count"
      <4>1. Read(1) = Contents(1, 1) /\ Read(2) = Contents(2, 1)
        BY <2>2, <3>1, <3>3 DEF Read, Compared, Checksum
      <4>2. Read(1) = Read(2) <=> 1 \notin diverged
        BY <3>1, <4>1, Copies
      <4> QED BY <2>1, <3>1, <3>3, <4>2
    <3> QED BY <1>1, <3>2, <3>3 DEF CheckTypeInv
  <2> QED BY <1>1, <2>1, <2>2 DEF CheckInv, CheckTypeInv, FirstValueInv, SettledInv,
                    SettledVerdictExact, dataVars
<1>5. CASE DataStep
  <2>1. CheckTypeInv'
    BY <1>1, <1>5, DataStepFacts
  <2>2. FirstValueInv'
    BY <1>1, <1>5, <2>1, DataStepFacts DEF FirstValueInv, CheckTypeInv
  <2>3. ASSUME settled', stage' # "begin"
        PROVE  /\ ~writing' /\ applied' = Len(committed')
               /\ UNCHANGED <<committed, applied, diverged>> /\ answers' \subseteq answers
    BY <1>1, <1>5, <2>3, DataStepFacts DEF SettledInv
  <2>4. SettledInv'
    <3>1. ASSUME settled', stage' # "begin", answers' = {1, 2}
          PROVE  answers = {1, 2} /\ Read(1)' = Read(1)
      <4>1. answers = {1, 2}
        BY <1>1, <2>3, <3>1 DEF CheckTypeInv
      <4> QED BY <1>5, <2>3, <3>1, <4>1, <1>1, DataStepFacts
              DEF Read, Compared, GtidState, Checksum, Contents, Prefix
    <3> QED BY <1>1, <1>5, <2>3, <3>1, DataStepFacts DEF SettledInv
  <2>5. SettledVerdictExact'
    BY <1>1, <1>5, <2>3, DataStepFacts DEF SettledVerdictExact, CheckTypeInv
  <2> QED BY <2>1, <2>2, <2>4, <2>5 DEF CheckInv
<1>6. CASE UNCHANGED checkerVars
  BY <1>1, <1>6 DEF checkerVars, dataVars, checkVars, CheckInv, CheckTypeInv, FirstValueInv,
                    SettledInv, SettledVerdictExact, Read, Compared, GtidState,
                    Checksum, Contents, Prefix
<1> QED BY <1>2, <1>3, <1>4, <1>5, <1>6 DEF CheckNext

LEMMA CheckAlways == CheckSpec => []CheckInv
<1> QED BY InitCheck, CheckStepInv, PTL DEF CheckSpec

\* On settled nodes that both answer, however many tables and writes there were:
\* check_table_count fails if and only if the first table differs, and
\* check_gtid_consistency does not fail.
THEOREM SettledVerdictTheorem == CheckSpec => []SettledVerdictExact
<1> QED BY CheckAlways, PTL DEF CheckInv

\* A success while clients write and node 2 lags behind is no accident: node 2 had
\* applied all that node 1 had shown of the first table, and without a fault.
THEOREM SuccessMeansAppliedTheorem == CheckSpec => SuccessMeansApplied
<1>1. ASSUME CheckInv, [CheckNext]_checkerVars, stage = "node2", stage' = "done", verdict' = 0,
             check = "count", value1 # EmptyOutput
      PROVE  value1.writes \subseteq 1..applied /\ 1 \notin diverged
  <2>1. value1 = Read(2)
    <3>1. ReadNode2
      BY <1>1 DEF CheckNext, Begin, ReadNode1, DataStep, checkVars, checkerVars
    <3> QED BY <1>1, <3>1 DEF ReadNode2
  <2>2. listed # 0 /\ value1.spoilt = FALSE
    BY <1>1 DEF CheckInv, FirstValueInv
  <2>3. value1 = Contents(2, 1)
    BY <1>1, <2>1, <2>2 DEF Read, Compared, Checksum
  <2>4. 1 \notin diverged
    <3>1. (1 \in diverged) = FALSE
      BY <2>2, <2>3, Copies, Zenon
    <3> QED BY <3>1
  <2> QED BY <2>3, <2>4, Copies
<1>2. CheckInv /\ [CheckNext]_checkerVars =>
        [stage = "node2" /\ stage' = "done" /\ verdict' = 0 /\ check = "count"
           /\ value1 # EmptyOutput =>
             value1.writes \subseteq 1..applied /\ 1 \notin diverged]_checkerVars
  BY <1>1
<1> QED BY <1>2, CheckAlways, PTL DEF CheckSpec, SuccessMeansApplied

LEMMA CheckTypeInit == ASSUME CheckInit PROVE CheckTypeOK
<1>1. committed = <<>> /\ committed \in Seq(1..tables) /\ Len(committed) = 0
  BY DEF CheckInit
<1>2. writing \in BOOLEAN /\ settled \in BOOLEAN
  BY Zenon DEF CheckInit
<1> QED BY <1>1, <1>2, MaxWritesAssumption DEF CheckInit, CheckTypeOK

LEMMA CheckTypeStep == ASSUME CheckTypeOK, [CheckNext]_checkerVars PROVE CheckTypeOK'
<1> USE DEF CheckTypeOK
<1>1. CASE Begin \/ ReadNode1 \/ ReadNode2
  <2>1. UNCHANGED dataVars /\ UNCHANGED check
    BY <1>1 DEF Begin, ReadNode1, ReadNode2
  <2>2. stage' \in {"begin", "node1", "node2", "done"} /\ verdict' \in 0..1
    BY <1>1 DEF Begin, ReadNode1, ReadNode2
  <2>3. listed' \in 0..tables
    BY <1>1 DEF Begin, ReadNode1, ReadNode2
  <2>4. settled' \in BOOLEAN
    BY <1>1, Zenon DEF Begin, ReadNode1, ReadNode2
  <2> QED BY <2>1, <2>2, <2>3, <2>4 DEF dataVars
<1>2. CASE DataStep
  <2> USE DEF checkVars
  <2>1. UNCHANGED checkVars
    BY <1>2 DEF DataStep
  <2>2. CASE \E t \in 1..tables : Write(t)
    <3>1. PICK t \in 1..tables : Write(t)
      BY <2>2
    <3>2. /\ committed' \in Seq(1..tables) /\ Len(committed') = Len(committed) + 1
          /\ Len(committed') <= MaxWrites
      BY <3>1, MaxWritesAssumption DEF Write
    <3> QED BY <2>1, <3>1, <3>2 DEF Write
  <2>3. CASE Apply
    <3>1. applied' \in 1..Len(committed) /\ committed[applied'] \in 1..tables
      BY <2>3 DEF Apply
    <3> QED BY <2>1, <2>3, <3>1 DEF Apply
  <2>4. CASE StopWriting
    BY <2>1, <2>4 DEF StopWriting
  <2>5. CASE \E n \in {1, 2} : Fail(n)
    BY <2>1, <2>5 DEF Fail
  <2> QED BY <1>2, <2>2, <2>3, <2>4, <2>5 DEF DataStep
<1>3. CASE UNCHANGED checkerVars
  BY <1>3 DEF checkerVars, dataVars, checkVars
<1> QED BY <1>1, <1>2, <1>3 DEF CheckNext

\* The variables of TableCheck keep their types: the applier is never ahead of the
\* log of node 1, and no list names a table that the database does not have.
THEOREM CheckTypeCorrect == CheckSpec => []CheckTypeOK
<1> QED BY CheckTypeInit, CheckTypeStep, PTL DEF CheckSpec

===============================================================================
