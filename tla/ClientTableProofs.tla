------------------------- MODULE ClientTableProofs -------------------------
(***************************************************************************)
(* Proofs about ClientTable for every set of ports, channels and bound.    *)
(***************************************************************************)
EXTENDS ClientTable, FiniteSetTheorems, WellFoundedInduction, TLAPS

-----------------------------------------------------------------------------
(***************************************************************************)
(* The inductive invariant.                                                *)
(***************************************************************************)
\* Labels at which the daemon thread holds a socket that is not yet a client's
Handshake == {"cleanup", "sweep", "join", "config", "check", "answer", "create"}

\* Messages name ports, and the callback thread only goes through ports that
\* are in the table
EventInv ==
    /\ \A m \in inbox : m.port \in Ports
    /\ apc = "forward" => msg.port \in Ports
    /\ bpc = "notify" => todo \subseteq DOMAIN clients

\* Connections beyond cur are unused, the others have a port and a descriptor
FrontierInv ==
    /\ \A c \in Conns : c > cur => object[c] = "none"
    /\ \A c \in Conns : c <= cur => port[c] \in Ports /\ fd[c] \in Fds
    /\ dpc # "accept" => cur \in Conns

\* clients_mutex has one owner
MutexInv ==
    /\ dpc \in {"sweep", "join"} => bpc \notin {"notify", "stuck"} /\ apc # "stuck"
    /\ bpc \in {"notify", "stuck"} => apc # "stuck"

\* The descriptor table and the field socket of the clients agree
SocketInv ==
    /\ \A f \in Fds : sock[f] # None => sock[f] <= cur /\ fd[sock[f]] = f
    /\ dpc \in Handshake => sock[fd[cur]] = cur /\ object[cur] = "none"
    /\ SocketsOwned

\* The life of a client: its object, its thread and its connection
LifeInv ==
    \A c \in Conns :
        /\ object[c] = "none" <=> cpc[c] = "none"
        /\ object[c] = "deleted" => cpc[c] = "done"
        /\ connected[c] => object[c] = "live" /\ cpc[c] \in {"run", "blocked"}

\* A client that lives is in the table, or about to enter it, or being joined;
\* only clients that live are in the table; the port of a client about to
\* enter is free
TableInv ==
    /\ \A p \in DOMAIN clients : clients[p] # None =>
         object[clients[p]] = "live" /\ port[clients[p]] = p
    /\ \A c \in Conns : object[c] = "live" =>
         \/ port[c] \in DOMAIN clients /\ clients[port[c]] = c
         \/ dpc = "register" /\ c = cur
         \/ dpc = "join" /\ c = victim
    /\ dpc = "join" => /\ victim \in Conns /\ object[victim] = "live"
                       /\ ~ connected[victim] /\ ~ PortBusy(port[victim])
    /\ dpc \in {"answer", "create", "register"} => ~ PortBusy(port[cur])
    /\ dpc \in {"register", "openPort", "sync"} => object[cur] = "live"

\* A port that was reported stands for a client that has reported it
Reported(p) == \E c \in Conns : /\ object[c] = "live" /\ port[c] = p
                                /\ cpc[c] \in {"closePort", "done"}

ReportInv ==
    /\ dpc \notin {"sweep", "join"} =>
         \A i \in 1 .. Len(disconnectedClients) : Reported(disconnectedClients[i])
    /\ dpc \in {"sweep", "join"} =>
         \A i \in 1 .. Len(sweep) : PortBusy(sweep[i]) =>
             cpc[clients[sweep[i]]] \in {"closePort", "done"}

Inv == /\ TypeOK /\ EventInv /\ FrontierInv /\ MutexInv /\ SocketInv /\ LifeInv
       /\ TableInv /\ ReportInv /\ SweptIsDisconnected /\ ConnectedIsOpen

-----------------------------------------------------------------------------
(***************************************************************************)
(* What one step changes, by class: the proofs go through these classes.   *)
(***************************************************************************)
coreVars == <<sock, objVars, cpc, tableVars, daemonVars>>

\* A thread closes the connection of c; its own thread goes on to report it
Close(c) == /\ CloseSocket(c)
            /\ \/ UNCHANGED cpc
               \/ cpc[c] = "run" /\ cpc' = [cpc EXCEPT ![c] = "report"]
            /\ UNCHANGED <<port, fd, object, tableVars, daemonVars>>

\* The assembly thread makes an entry for a port without a client
NullEntry == /\ ClientsMutexFree
             /\ \E p \in TablePorts : ~ PortBusy(p) /\ clients' = With(clients, p, None)
             /\ UNCHANGED <<sock, objVars, cpc, disconnectedClients, open_ports,
                            daemonVars>>

\* cleanupClients finds a client
SweepKill ==
    /\ dpc = "sweep" /\ sweep # << >> /\ sweep' = Tail(sweep)
    /\ PortBusy(Head(sweep)) /\ victim' = clients[Head(sweep)]
    /\ clients' = Without(clients, port[clients[Head(sweep)]])
    /\ Kill(clients[Head(sweep)])
    /\ UNCHANGED <<port, fd, cpc, disconnectedClients, open_ports, cur>>

\* cleanupClients finds no client
SweepNull ==
    /\ dpc = "sweep" /\ sweep # << >> /\ sweep' = Tail(sweep)
    /\ ~ PortBusy(Head(sweep)) /\ clients' = With(clients, Head(sweep), None)
    /\ UNCHANGED <<sock, objVars, cpc, disconnectedClients, open_ports, dpc, cur,
                   victim>>

\* The handshake ends without a client
Drop == /\ dpc \in {"config", "check", "answer"} /\ DropConnection
        /\ UNCHANGED <<objVars, cpc, tableVars, cur, sweep, victim>>

\* The handshake, or the registration, goes on
Advance == /\ \/ dpc = "config" /\ dpc' = "check"
              \/ dpc = "check" /\ dpc' = "answer" /\ ~ PortBusy(port[cur])
              \/ dpc = "answer" /\ dpc' = "create"
              \/ dpc = "sync" /\ dpc' \in {"accept", "blocked"}
           /\ UNCHANGED <<sock, objVars, cpc, tableVars, cur, sweep, victim>>

\* A client thread waits for tx_mutex or for the mutex of the buffer
Block(c) == /\ cpc[c] = "run" /\ cpc' = [cpc EXCEPT ![c] = "blocked"]
            /\ UNCHANGED <<sock, objVars, tableVars, daemonVars>>

ThreadClass(c) == Close(c) \/ Block(c) \/ ThreadExits(c) \/ Report(c) \/ ClosePort(c)

DaemonClass == \/ \E p \in Ports : Accept(p)
               \/ CleanupLock \/ SweepKill \/ SweepNull \/ SweepJoin \/ SweepDone
               \/ Drop \/ Advance \/ Create \/ Register \/ OpenPort

StepClass == \/ UNCHANGED coreVars \/ NullEntry \/ DaemonClass
             \/ \E c \in Conns : ThreadClass(c)

-----------------------------------------------------------------------------
(***************************************************************************)
(* Operators.                                                              *)
(***************************************************************************)
\* A non-empty set of numbers has a lowest one.
LEMMA LowestIn == ASSUME NEW S \in SUBSET Nat, S # {}
                  PROVE  Lowest(S) \in S /\ \A y \in S : Lowest(S) <= y
<1>1. PICK x \in S : \A y \in S : ~ (<<y, x>> \in OpToRel(<, Nat))
  BY NatLessThanWellFounded, WFMin
<1>2. \A y \in S : ~ (y < x)
  BY <1>1 DEF OpToRel
<1>3. x \in Nat /\ \A y \in S : y \in Nat
  OBVIOUS
<1>4. \A y \in S : x <= y
  BY <1>2, <1>3
<1> QED BY <1>4 DEF Lowest

\* An entry of a map is removed.
LEMMA WithoutIs ==
    ASSUME NEW m, NEW p
    PROVE  /\ DOMAIN Without(m, p) = DOMAIN m \ {p}
           /\ \A q \in DOMAIN m \ {p} : Without(m, p)[q] = m[q]
BY DEF Without, Restrict

\* Entries of the table are null or connections that were accepted.
LEMMA TableEntry ==
    ASSUME TypeOK, NEW p \in DOMAIN clients
    PROVE  p \in TablePorts /\ clients[p] \in Conns \cup {None}
BY DEF TypeOK, Range

\* A map whose values have a type has a range of that type.
LEMMA RangeType ==
    ASSUME NEW m, NEW T, \A p \in DOMAIN m : m[p] \in T
    PROVE  Range(m) \subseteq T
BY DEF Range

\* A client whose port is busy is an accepted connection.
LEMMA BusyConn == ASSUME TypeOK, NEW p, PortBusy(p)
                  PROVE  p \in TablePorts /\ clients[p] \in Conns
BY TableEntry DEF PortBusy

\* There is a descriptor for the next connection: each open one belongs to
\* another connection.
LEMMA FreeDescriptor ==
    ASSUME TypeOK, SocketInv, cur < MaxConns
    PROVE  \E f \in Fds : sock[f] = None
<1>1. SUFFICES ASSUME \A f \in Fds : sock[f] # None
               PROVE  FALSE
  OBVIOUS
<1>2. MaxConns \in Nat /\ cur \in Nat
  BY TableAssumption DEF TypeOK
<1>3. sock \in [Fds -> 1 .. cur]
  BY <1>1, <1>2 DEF TypeOK, SocketInv, Conns, Fds, None
<1>4. /\ IsFiniteSet(1 .. cur) /\ Cardinality(1 .. cur) = cur
      /\ IsFiniteSet(Fds) /\ Cardinality(Fds) = MaxConns
  <2>1. /\ IsFiniteSet(1 .. cur)
        /\ Cardinality(1 .. cur) = IF 1 > cur THEN 0 ELSE cur - 1 + 1
    BY <1>2, FS_Interval
  <2>2. /\ IsFiniteSet(1 .. MaxConns)
        /\ Cardinality(1 .. MaxConns) = IF 1 > MaxConns THEN 0 ELSE MaxConns - 1 + 1
    BY <1>2, FS_Interval
  <2> QED BY <1>2, <2>1, <2>2 DEF Fds
<1>5. \E f, g \in Fds : f # g /\ sock[f] = sock[g]
  BY <1>3, <1>4, FS_PigeonHole
<1> QED BY <1>1, <1>5 DEF SocketInv

\* accept gets a free descriptor.
LEMMA AcceptDescriptor ==
    ASSUME TypeOK, SocketInv, cur < MaxConns
    PROVE  LET f == Lowest({g \in Fds : sock[g] = None})
           IN  f \in Fds /\ sock[f] = None
<1>1. {g \in Fds : sock[g] = None} \in SUBSET Nat
  BY TableAssumption DEF Fds
<1>2. {g \in Fds : sock[g] = None} # {}
  BY FreeDescriptor
<1> QED BY <1>1, <1>2, LowestIn

\* Two clients that live never have the same port.
LEMMA OneLive ==
    ASSUME TypeOK, TableInv, NEW c \in Conns, NEW d \in Conns,
           object[c] = "live", object[d] = "live", port[c] = port[d]
    PROVE  c = d
BY DEF TypeOK, TableInv, PortBusy, Conns, None

\* A client that has reported the end of its connection still exists.
LEMMA ReporterLives ==
    ASSUME TypeOK, FrontierInv, LifeInv, NEW c \in Conns,
           cpc[c] \in {"report", "closePort"}
    PROVE  object[c] = "live" /\ ~ connected[c] /\ port[c] \in Ports
<1>1. object[c] = "live" /\ ~ connected[c]
  BY DEF TypeOK, LifeInv
<1>2. c <= cur
  BY <1>1, TableAssumption DEF FrontierInv, TypeOK, Conns
<1> QED BY <1>1, <1>2 DEF FrontierInv

\* The client that cleanupClients finds has reported itself.
LEMMA SweptHasReported ==
    ASSUME Inv, SweepKill
    PROVE  LET p == Head(sweep)
           IN  /\ p \in Ports /\ clients[p] \in Conns /\ port[clients[p]] = p
               /\ object[clients[p]] = "live" /\ ~ connected[clients[p]]
               /\ dpc' = "join" /\ UNCHANGED <<sock, objVars>>
<1> DEFINE p == Head(sweep)
<1>1. clients[p] \in Conns /\ p \in DOMAIN clients /\ clients[p] # None
  BY BusyConn DEF SweepKill, Inv, PortBusy
<1>2. sweep \in Seq(Ports) /\ sweep # << >>
  BY DEF SweepKill, Inv, TypeOK
<1>3. Head(sweep) = sweep[1] /\ 1 \in 1 .. Len(sweep) /\ p \in Ports
  BY <1>2
<1>4. cpc[clients[p]] \in {"closePort", "done"}
  BY <1>3 DEF Inv, ReportInv, SweepKill
<1>5. ~ connected[clients[p]]
  BY <1>1, <1>4 DEF Inv, LifeInv
<1>6. object[clients[p]] = "live" /\ port[clients[p]] = p
  BY <1>1 DEF Inv, TableInv
<1> QED BY <1>1, <1>3, <1>5, <1>6 DEF SweepKill, Kill, objVars

-----------------------------------------------------------------------------
(***************************************************************************)
(* Every step belongs to a class, and keeps types, events and mutexes.     *)
(***************************************************************************)
\* The client that the callback thread notifies is in the table.
LEMMA NotifiedConn ==
    ASSUME TypeOK, EventInv, bpc = "notify", todo # {}, clients[Lowest(todo)] # None
    PROVE  clients[Lowest(todo)] \in Conns
<1>1. todo \in SUBSET Nat
  BY TableAssumption DEF TypeOK, TablePorts
<1>2. Lowest(todo) \in DOMAIN clients
  BY <1>1, LowestIn DEF EventInv
<1> QED BY <1>2, TableEntry

\* The steps of the callback thread change nothing, or close a connection.
LEMMA CbClass ==
    ASSUME TypeOK, EventInv, CbStep
    PROVE  UNCHANGED coreVars \/ \E c \in Conns : Close(c)
<1> USE DEF CbRest, coreVars, objVars, tableVars, daemonVars
<1>1. CASE CbChannel \/ CbSynchronize \/ NotifyLock \/ NotifyDone
  BY <1>1 DEF CbChannel, CbSynchronize, NotifyLock, NotifyDone
<1>2. CASE NotifyNext
  <2>1. CASE UNCHANGED <<sock, connected>>
    BY <1>2, <2>1 DEF NotifyNext
  <2>2. CASE ~ UNCHANGED <<sock, connected>>
    <3>1. clients[Lowest(todo)] # None /\ CloseSocket(clients[Lowest(todo)])
      BY <1>2, <2>2, Zenon DEF NotifyNext
    <3>2. clients[Lowest(todo)] \in Conns
      BY <1>2, <3>1, NotifiedConn DEF NotifyNext
    <3>3. UNCHANGED <<port, fd, object, cpc, tableVars, daemonVars>>
      BY <1>2 DEF NotifyNext
    <3>4. Close(clients[Lowest(todo)])
      BY <3>1, <3>3, Zenon DEF Close
    <3> QED BY <3>2, <3>4
  <2> QED BY <2>1, <2>2
<1> QED BY <1>1, <1>2 DEF CbStep

\* So do the steps of the assembly thread, or they make an entry in the table.
LEMMA AsmClass ==
    ASSUME TypeOK, EventInv, AsmStep
    PROVE  UNCHANGED coreVars \/ NullEntry \/ \E c \in Conns : Close(c)
<1> USE DEF AsmRest, AsmKeeps, coreVars, objVars, tableVars, daemonVars
<1>1. CASE TakeMessage
  BY <1>1 DEF TakeMessage
<1>2. CASE Forward
  <2> DEFINE p == IF apc = "error" THEN 0 ELSE msg.port
             written == apc = "forward" /\ Writable(clients[p])
  <2>1. p \in TablePorts
    BY <1>2 DEF Forward, EventInv, TablePorts
  <2>2. CASE ~ PortBusy(p)
    <3>1. /\ ClientsMutexFree /\ clients' = With(clients, p, None)
          /\ UNCHANGED <<sock, connected>> /\ AsmRest
      BY <1>2, <2>2, Zenon DEF Forward
    <3> QED BY <2>1, <2>2, <3>1 DEF NullEntry
  <2>3. CASE PortBusy(p) /\ written
    BY <1>2, <2>3 DEF Forward
  <2>4. CASE PortBusy(p) /\ ~ written
    <3>1. clients[p] \in Conns
      BY <2>4, BusyConn
    <3>2. CloseSocket(clients[p]) /\ UNCHANGED clients
      BY <1>2, <2>4, Zenon DEF Forward
    <3>3. UNCHANGED <<port, fd, object, cpc, tableVars, daemonVars>>
      BY <1>2, <3>2 DEF Forward
    <3>4. Close(clients[p])
      BY <3>2, <3>3, Zenon DEF Close
    <3> QED BY <3>1, <3>4
  <2> QED BY <2>2, <2>3, <2>4
<1> QED BY <1>1, <1>2 DEF AsmStep

\* The steps of the daemon thread.
LEMMA DaemonClasses == ASSUME DaemonStep PROVE DaemonClass
<1> USE DEF DaemonClass, objVars, tableVars, netVars
<1>1. CASE SweepNext
  BY <1>1 DEF SweepNext, SweepKill, SweepNull, PortBusy
<1>2. CASE ReadConfig
  BY <1>2 DEF ReadConfig, Drop, Advance
<1>3. CASE CheckPort
  BY <1>3 DEF CheckPort, Drop, Advance
<1>4. CASE Answer
  BY <1>4 DEF Answer, Drop, Advance
<1>5. CASE Synchronize
  BY <1>5 DEF Synchronize, SyncBlocks, Advance
<1> QED BY <1>1, <1>2, <1>3, <1>4, <1>5 DEF DaemonStep

\* Every step of the system is of one of the classes.
LEMMA EveryStepHasClass ==
    ASSUME TypeOK, EventInv, [Next]_vars
    PROVE  StepClass
<1> USE DEF coreVars, objVars, tableVars, daemonVars
<1>1. CASE UNCHANGED vars
  BY <1>1 DEF vars, netVars, StepClass
<1>2. CASE Environment
  <2>1. ASSUME NEW c \in Conns, AppConfigures(c) \/ AppCloses(c)
        PROVE  StepClass
    BY <2>1 DEF AppConfigures, AppCloses, AppRest, StepClass
  <2>2. ASSUME NEW c \in Conns, CorruptLength(c) \/ SendBlocks(c)
        PROVE  StepClass
    BY <2>2 DEF CorruptLength, SendBlocks, ThreadRest, StepClass, ThreadClass, Close,
                Block, netVars
  <2>3. ASSUME NEW p \in Ports, Accept(p)
        PROVE  StepClass
    BY <2>3 DEF StepClass, DaemonClass
  <2>4. ASSUME NEW p \in Ports, Arrive(p)
        PROVE  StepClass
    BY <2>4 DEF Arrive, AsmRest, AsmKeeps, StepClass
  <2>5. CASE LinkUp \/ PeerSync \/ \E ch \in Channels : BufferEmpty(ch)
    BY <2>5 DEF LinkUp, PeerSync, BufferEmpty, Callback, CbRest, StepClass
  <2>6. CASE AsmLosesMutex
    BY <2>6 DEF AsmLosesMutex, AsmKeeps, StepClass
  <2> QED BY <1>2, <2>1, <2>2, <2>3, <2>4, <2>5, <2>6 DEF Environment
<1>3. CASE DaemonStep
  BY <1>3, DaemonClasses DEF StepClass
<1>4. CASE CbStep
  BY <1>4, CbClass DEF StepClass, ThreadClass
<1>5. CASE AsmStep
  BY <1>5, AsmClass DEF StepClass, ThreadClass
<1>6. ASSUME NEW c \in Conns, ThreadStep(c)
      PROVE  StepClass
  BY <1>6 DEF ThreadStep, ThreadCloses, ThreadRest, StepClass, ThreadClass, Close
<1> QED BY <1>1, <1>2, <1>3, <1>4, <1>5, <1>6 DEF Next

\* The part of TypeOK that is about the shared state and the daemon thread.
CoreType ==
    /\ sock \in [Fds -> Conns \cup {None}]
    /\ port \in [Conns -> Ports \cup {None}] /\ fd \in [Conns -> Fds \cup {None}]
    /\ connected \in [Conns -> BOOLEAN]
    /\ object \in [Conns -> {"none", "live", "deleted"}]
    /\ cpc \in [Conns -> ThreadLabels]
    /\ DOMAIN clients \subseteq TablePorts /\ Range(clients) \subseteq Conns \cup {None}
    /\ disconnectedClients \in Seq(Ports) /\ open_ports \subseteq Ports
    /\ dpc \in DaemonLabels /\ cur \in 0 .. MaxConns
    /\ sweep \in Seq(Ports) /\ victim \in Conns \cup {None}

\* The table keeps its type when an entry is written or removed.
LEMMA TableType ==
    ASSUME TypeOK, NEW p \in TablePorts, NEW c \in Conns \cup {None},
           clients' \in {clients, With(clients, p, c), Without(clients, p)}
    PROVE  (DOMAIN clients \subseteq TablePorts
          /\ Range(clients) \subseteq Conns \cup {None})'
<1>1. \A q \in DOMAIN clients : q \in TablePorts /\ clients[q] \in Conns \cup {None}
  BY TableEntry
<1>2. CASE clients' = clients
  BY <1>1, <1>2 DEF Range
<1>3. CASE clients' = With(clients, p, c)
  <2>1. \A q \in DOMAIN clients' : q \in TablePorts /\ clients'[q] \in Conns \cup {None}
    BY <1>1, <1>3 DEF With
  <2> QED BY <2>1 DEF Range
<1>4. CASE clients' = Without(clients, p)
  <2>1. \A q \in DOMAIN clients' : q \in TablePorts /\ clients'[q] \in Conns \cup {None}
    BY <1>1, <1>4 DEF Without, Restrict
  <2> QED BY <2>1 DEF Range
<1> QED BY <1>2, <1>3, <1>4

\* Every step keeps the types of the shared state.
LEMMA CoreTypeStep == ASSUME Inv, StepClass PROVE CoreType'
<1> USE DEF CoreType, ThreadLabels, TablePorts, coreVars, objVars, tableVars,
            daemonVars, netVars
<1>0. TypeOK /\ FrontierInv /\ CoreType
  BY DEF Inv, TypeOK
<1>1. CASE UNCHANGED coreVars
  BY <1>0, <1>1, Zenon DEF Range
<1>2. CASE NullEntry
  BY <1>0, <1>2, TableType DEF NullEntry
<1>3. ASSUME NEW c \in Conns, Close(c)
      PROVE  CoreType'
  BY <1>0, <1>3, TableType DEF Close, CloseSocket, Range
<1>4. ASSUME NEW c \in Conns, Block(c) \/ ThreadExits(c)
      PROVE  CoreType'
  BY <1>0, <1>4 DEF Block, ThreadExits, ThreadRest, Range
<1>5. ASSUME NEW c \in Conns, Report(c)
      PROVE  CoreType'
  <2>1. port[c] \in Ports
    BY <1>5, ReporterLives DEF Report, Inv
  <2> QED BY <1>0, <1>5, <2>1 DEF Report, ThreadRest, Range
<1>6. ASSUME NEW c \in Conns, ClosePort(c)
      PROVE  CoreType'
  BY <1>0, <1>6 DEF ClosePort, ThreadRest, Range
<1>7. ASSUME NEW p \in Ports, Accept(p)
      PROVE  CoreType'
  <2> DEFINE f == Lowest({g \in Fds : sock[g] = None})
  <2>1. f \in Fds
    BY <1>7, AcceptDescriptor DEF Accept, Inv
  <2>2. cur + 1 \in Conns /\ cur + 1 \in 0 .. MaxConns
    BY <1>0, <1>7, TableAssumption DEF Accept, Conns
  <2>3. sock' = [sock EXCEPT ![f] = cur + 1] /\ fd' = [fd EXCEPT ![cur + 1] = f]
    BY <1>7 DEF Accept
  <2> HIDE DEF f
  <2>4. sock' \in [Fds -> Conns \cup {None}] /\ fd' \in [Conns -> Fds \cup {None}]
    BY <1>0, <2>1, <2>2, <2>3
  <2>5. port' \in [Conns -> Ports \cup {None}]
    BY <1>0, <1>7, <2>2 DEF Accept
  <2> QED BY <1>0, <1>7, <2>2, <2>4, <2>5 DEF Accept, DaemonLabels, Range
<1>8. CASE CleanupLock \/ SweepJoin \/ SweepDone
  <2>1. CASE CleanupLock
    BY <1>0, <2>1 DEF CleanupLock, DaemonLabels, Range
  <2>2. CASE SweepJoin
    BY <1>0, <2>2 DEF SweepJoin, DaemonLabels, Range
  <2>3. CASE SweepDone
    BY <1>0, <2>3 DEF SweepDone, DaemonLabels, Range
  <2> QED BY <1>8, <2>1, <2>2, <2>3
<1>9. CASE SweepKill
  <2>1. /\ Head(sweep) \in Ports /\ clients[Head(sweep)] \in Conns
        /\ port[clients[Head(sweep)]] = Head(sweep)
        /\ dpc' = "join" /\ UNCHANGED <<sock, objVars>>
    BY <1>9, SweptHasReported
  <2>2. (DOMAIN clients \subseteq TablePorts
          /\ Range(clients) \subseteq Conns \cup {None})'
    BY <1>0, <1>9, <2>1, TableType DEF SweepKill
  <2> QED BY <1>0, <1>9, <2>1, <2>2 DEF SweepKill, DaemonLabels
<1>10. CASE SweepNull
  <2>1. Head(sweep) \in Ports /\ Tail(sweep) \in Seq(Ports)
    BY <1>0, <1>10 DEF SweepNull
  <2>2. (DOMAIN clients \subseteq TablePorts
          /\ Range(clients) \subseteq Conns \cup {None})'
    BY <1>0, <1>10, <2>1, TableType DEF SweepNull
  <2> QED BY <1>0, <1>10, <2>1, <2>2 DEF SweepNull
<1>11. CASE Drop
  BY <1>0, <1>11 DEF Drop, DropConnection, DaemonLabels, Range
<1>12. CASE Advance
  BY <1>0, <1>12 DEF Advance, DaemonLabels, Range
<1>13. CASE Create
  BY <1>0, <1>13 DEF Create, DaemonLabels, Range
<1>14. CASE Register
  <2>1. port[cur] \in Ports /\ cur \in Conns
    BY <1>0, <1>14, TableAssumption DEF Register, FrontierInv, Conns
  <2>2. (DOMAIN clients \subseteq TablePorts
          /\ Range(clients) \subseteq Conns \cup {None})'
    BY <1>0, <1>14, <2>1, TableType DEF Register
  <2> QED BY <1>0, <1>14, <2>2 DEF Register, DaemonLabels
<1>15. CASE OpenPort
  <2>1. port[cur] \in Ports
    BY <1>0, <1>15, TableAssumption DEF OpenPort, FrontierInv, Conns
  <2> QED BY <1>0, <1>15, <2>1 DEF OpenPort, DaemonLabels, Range
<1> QED BY <1>1, <1>2, <1>3, <1>4, <1>5, <1>6, <1>7, <1>8, <1>9, <1>10, <1>11,
           <1>12, <1>13, <1>14, <1>15 DEF StepClass, ThreadClass, DaemonClass

\* Every step keeps connections beyond cur unused.
LEMMA FrontierStep == ASSUME Inv, StepClass PROVE FrontierInv'
<1> USE DEF FrontierInv, coreVars, objVars, tableVars, daemonVars, netVars
<1>0. /\ FrontierInv /\ LifeInv /\ TypeOK /\ TableInv /\ SweptIsDisconnected
      /\ MaxConns \in Nat /\ cur \in Nat
  BY TableAssumption DEF Inv, TypeOK
<1>1. CASE UNCHANGED coreVars
  BY <1>0, <1>1
<1>2. CASE NullEntry \/ CleanupLock \/ SweepNull \/ SweepDone \/ Drop \/ Advance
           \/ Register \/ OpenPort
  BY <1>0, <1>2 DEF NullEntry, CleanupLock, SweepNull, SweepDone, Drop, DropConnection,
                    Advance, Register, OpenPort
<1>3. ASSUME NEW c \in Conns, ThreadClass(c)
      PROVE  FrontierInv'
  BY <1>0, <1>3 DEF ThreadClass, Close, Block, ThreadExits, Report, ClosePort, ThreadRest
<1>4. ASSUME NEW p \in Ports, Accept(p)
      PROVE  FrontierInv'
  <2> DEFINE f == Lowest({g \in Fds : sock[g] = None})
  <2>1. f \in Fds /\ fd' = [fd EXCEPT ![cur + 1] = f]
    BY <1>4, AcceptDescriptor DEF Accept, Inv
  <2> HIDE DEF f
  <2>2. cur + 1 \in Conns /\ cur' = cur + 1
    BY <1>0, <1>4 DEF Accept, Conns
  <2>3. fd \in [Conns -> Fds \cup {None}] /\ port \in [Conns -> Ports \cup {None}]
    BY <1>0 DEF TypeOK
  <2>4. ASSUME NEW c \in Conns, c <= cur + 1
        PROVE  port'[c] \in Ports /\ fd'[c] \in Fds
    <3>1. CASE c = cur + 1
      BY <1>4, <2>1, <2>2, <2>3, <3>1 DEF Accept
    <3>2. CASE c # cur + 1
      <4>1. c <= cur
        BY <1>0, <2>4, <3>2 DEF Conns
      <4> QED BY <1>0, <1>4, <2>1, <2>2, <2>3, <3>2, <4>1 DEF Accept
    <3> QED BY <3>1, <3>2
  <2>5. ASSUME NEW c \in Conns, c > cur + 1
        PROVE  object'[c] = "none"
    <3>1. c > cur
      BY <1>0, <2>5 DEF Conns
    <3> QED BY <1>0, <1>4, <3>1 DEF Accept
  <2> QED BY <2>2, <2>4, <2>5
<1>5. CASE SweepKill
  BY <1>0, <1>5, SweptHasReported DEF SweepKill
<1>6. CASE SweepJoin
  <2>1. object[victim] = "live" /\ victim \in Conns
    BY <1>0, <1>6 DEF SweepJoin, TableInv
  <2> QED BY <1>0, <1>6, <2>1 DEF SweepJoin, TypeOK
<1>7. CASE Create
  <2>1. cur \in Conns /\ ~ (cur > cur)
    BY <1>0, <1>7 DEF Create
  <2> QED BY <1>0, <1>7, <2>1 DEF Create, TypeOK
<1> QED BY <1>1, <1>2, <1>3, <1>4, <1>5, <1>6, <1>7
        DEF StepClass, DaemonClass

\* Every step keeps the types of the other state, what the threads expect of
\* messages and of the table, and the mutual exclusion of clients_mutex.
LEMMA EventStep ==
    ASSUME Inv, [Next]_vars, CoreType', FrontierInv'
    PROVE  TypeOK' /\ EventInv' /\ MutexInv'
<1> DEFINE EType == /\ app \in [Conns -> {"none", "silent", "open", "left", "closed"}]
                    /\ bpc \in CbLabels /\ audience \subseteq Channels
                    /\ todo \subseteq TablePorts /\ apc \in AsmLabels
                    /\ lost \subseteq {"rx", "tx"}
           Goal == EType /\ EventInv /\ MutexInv
<1>0. Goal /\ TypeOK /\ DOMAIN clients \subseteq TablePorts
  BY DEF Inv, TypeOK
<1>1. SUFFICES Goal'
  BY <1>1 DEF TypeOK, CoreType
<1> USE DEF EventInv, MutexInv, netVars, objVars, tableVars, daemonVars, cbVars,
            asmVars, CbLabels, AsmLabels
<1>2. CASE UNCHANGED vars
  BY <1>0, <1>2 DEF vars
<1>3. ASSUME NEW c \in Conns, AppConfigures(c) \/ AppCloses(c)
      PROVE  Goal'
  BY <1>0, <1>3 DEF AppConfigures, AppCloses, AppRest
<1>4. ASSUME NEW c \in Conns, CorruptLength(c) \/ SendBlocks(c) \/ ThreadStep(c)
      PROVE  Goal'
  BY <1>0, <1>4 DEF CorruptLength, SendBlocks, ThreadStep, ThreadCloses, ThreadExits,
                    Report, ClosePort, ThreadRest
<1>5. ASSUME NEW p \in Ports, Accept(p)
      PROVE  Goal'
  BY <1>0, <1>5 DEF Accept, DaemonRest
<1>6. ASSUME NEW p \in Ports, Arrive(p)
      PROVE  Goal'
  BY <1>0, <1>6 DEF Arrive, AsmRest, AsmKeeps
<1>7. CASE LinkUp \/ PeerSync \/ \E ch \in Channels : BufferEmpty(ch)
  BY <1>0, <1>7 DEF LinkUp, PeerSync, BufferEmpty, Callback, CbRest
<1>8. CASE CbStep
  <2>1. CASE CbChannel \/ CbSynchronize \/ NotifyDone
    BY <1>0, <2>1 DEF CbChannel, CbSynchronize, NotifyDone, CbRest, ClientsMutexFree
  <2>2. CASE NotifyLock
    BY <1>0, <2>2 DEF NotifyLock, CbRest, ClientsMutexFree
  <2>3. CASE NotifyNext
    <3>1. /\ todo' \subseteq todo /\ bpc = "notify"
          /\ bpc' \in {"notify", "crashed", "stuck"} /\ UNCHANGED audience
      BY <2>3 DEF NotifyNext
    <3>2. CbRest
      BY <2>3 DEF NotifyNext
    <3> QED BY <1>0, <3>1, <3>2 DEF CbRest
  <2> QED BY <1>8, <2>1, <2>2, <2>3 DEF CbStep
<1>9. CASE AsmStep
  <2>1. CASE TakeMessage
    <3>1. /\ inbox # {} /\ msg' = CHOOSE m \in inbox : m.port = Lowest({n.port : n \in inbox})
          /\ inbox' = inbox \ {msg'} /\ apc' = "forward"
      BY <2>1 DEF TakeMessage
    <3>2. {n.port : n \in inbox} \in SUBSET Nat /\ {n.port : n \in inbox} # {}
      <4>1. \A n \in inbox : n.port \in Nat
        BY <1>0, TableAssumption
      <4> QED BY <3>1, <4>1
    <3>3. Lowest({n.port : n \in inbox}) \in {n.port : n \in inbox}
      BY <3>2, LowestIn
    <3>4. msg' \in inbox
      <4>1. PICK m \in inbox : m.port = Lowest({n.port : n \in inbox})
        BY <3>3
      <4> QED BY <3>1, <4>1
    <3>5. UNCHANGED clients /\ AsmRest /\ apc = "idle"
      BY <2>1 DEF TakeMessage
    <3> QED BY <1>0, <3>1, <3>4, <3>5 DEF AsmRest, AsmKeeps
  <2>2. CASE Forward
    <3>1. ClientsMutexFree /\ apc' \in {"idle", "stuck"} /\ UNCHANGED inbox /\ AsmRest
      BY <2>2, Zenon DEF Forward
    <3> QED BY <1>0, <3>1 DEF ClientsMutexFree, AsmRest, AsmKeeps
  <2> QED BY <1>9, <2>1, <2>2 DEF AsmStep
<1>10. CASE DaemonStep
  <2>1. DaemonRest /\ UNCHANGED app
    BY <1>10 DEF DaemonStep, CleanupLock, SweepNext, SweepJoin, SweepDone, ReadConfig,
                 CheckPort, Answer, Create, Register, OpenPort, Synchronize
  <2>2. CASE CleanupLock
    BY <1>0, <2>1, <2>2 DEF CleanupLock, DaemonRest, ClientsMutexFree
  <2>3. CASE SweepNext
    <3>1. dpc = "sweep" /\ dpc' \in {"sweep", "join", "stuck"}
      BY <2>3 DEF SweepNext, Kill
    <3> QED BY <1>0, <2>1, <3>1 DEF DaemonRest
  <2>4. CASE SweepJoin \/ SweepDone
    BY <1>0, <2>1, <2>4 DEF SweepJoin, SweepDone, DaemonRest
  <2>5. CASE ReadConfig \/ CheckPort \/ Answer \/ Create \/ OpenPort \/ Synchronize
    <3>1. dpc' \notin {"sweep", "join"} /\ UNCHANGED clients
      BY <2>5 DEF ReadConfig, CheckPort, Answer, Create, OpenPort, Synchronize,
                  DropConnection
    <3> QED BY <1>0, <2>1, <3>1 DEF DaemonRest
  <2>6. CASE Register
    BY <1>0, <2>1, <2>6 DEF Register, DaemonRest, ClientsMutexFree
  <2> QED BY <1>10, <2>2, <2>3, <2>4, <2>5, <2>6 DEF DaemonStep
<1>11. CASE AsmLosesMutex
  BY <1>0, <1>11 DEF AsmLosesMutex, AsmKeeps
<1> QED BY <1>2, <1>3, <1>4, <1>5, <1>6, <1>7, <1>8, <1>9, <1>10, <1>11
        DEF Next, Environment

-----------------------------------------------------------------------------
(***************************************************************************)
(* Every step keeps the relations between clients, sockets and the table.  *)
(***************************************************************************)
\* Every step keeps the relation between a client, its thread and its connection.
LEMMA LifeStep == ASSUME Inv, StepClass PROVE LifeInv'
<1> USE DEF LifeInv, coreVars, objVars, tableVars, daemonVars, netVars
<1>0. LifeInv /\ TypeOK /\ CoreType
  BY DEF Inv, TypeOK, CoreType
<1>1. CASE UNCHANGED coreVars
  BY <1>0, <1>1
<1>2. CASE NullEntry \/ CleanupLock \/ SweepNull \/ SweepDone \/ Drop \/ Advance
           \/ Register \/ OpenPort
  BY <1>0, <1>2 DEF NullEntry, CleanupLock, SweepNull, SweepDone, Drop, DropConnection,
                    Advance, Register, OpenPort
<1>3. ASSUME NEW c \in Conns, Close(c)
      PROVE  LifeInv'
  BY <1>0, <1>3 DEF Close, CloseSocket, CoreType
<1>4. ASSUME NEW c \in Conns, ThreadExits(c) \/ Report(c) \/ ClosePort(c)
      PROVE  LifeInv'
  <2>1. ~ connected[c] /\ cpc[c] # "none" /\ UNCHANGED <<connected, object>>
    BY <1>0, <1>4 DEF ThreadExits, Report, ClosePort, ThreadRest
  <2>2. \E l \in {"closePort", "done"} :
            cpc' = [cpc EXCEPT ![c] = l] /\ object[c] # "deleted"
    BY <1>0, <1>4 DEF ThreadExits, Report, ClosePort
  <2> QED BY <1>0, <2>1, <2>2 DEF CoreType
<1>5. ASSUME NEW p \in Ports, Accept(p)
      PROVE  LifeInv'
  BY <1>0, <1>5 DEF Accept
<1>6. CASE SweepKill
  BY <1>0, <1>6, SweptHasReported DEF SweepKill
<1>7. CASE SweepJoin
  <2>1. victim \in Conns /\ ~ connected[victim]
    BY <1>7 DEF SweepJoin, Inv, TableInv
  <2> QED BY <1>0, <1>7, <2>1 DEF SweepJoin, CoreType
<1>8. CASE Create
  BY <1>0, <1>8 DEF Create, CoreType
<1>9. ASSUME NEW c \in Conns, Block(c)
      PROVE  LifeInv'
  BY <1>0, <1>9 DEF Block, CoreType
<1> QED BY <1>1, <1>2, <1>3, <1>4, <1>5, <1>6, <1>7, <1>8, <1>9
        DEF StepClass, ThreadClass, DaemonClass

\* Every step keeps each open descriptor with the one connection that owns it.
LEMMA SocketStep == ASSUME Inv, StepClass PROVE SocketInv'
<1> USE DEF SocketInv, SocketsOwned, Handshake, coreVars, objVars, tableVars,
            daemonVars, netVars
<1>0. SocketInv /\ FrontierInv /\ CoreType /\ MaxConns \in Nat /\ cur \in Nat
  BY TableAssumption DEF Inv, TypeOK, CoreType
<1>1. CASE UNCHANGED coreVars
  BY <1>0, <1>1
<1>2. CASE NullEntry \/ CleanupLock \/ SweepNull \/ SweepDone
  BY <1>0, <1>2 DEF NullEntry, CleanupLock, SweepNull, SweepDone
<1>3. CASE Advance \/ Register \/ OpenPort
  BY <1>0, <1>3 DEF Advance, Register, OpenPort
<1>4. ASSUME NEW c \in Conns, Close(c)
      PROVE  SocketInv'
  <2>1. CASE ~ connected[c]
    <3>1. UNCHANGED <<sock, port, fd, object, cur, dpc>> /\ ~ connected'[c]
      BY <1>0, <1>4, <2>1 DEF Close, CloseSocket, CoreType
    <3>2. \A d \in Conns : connected'[d] <=> connected[d]
      BY <1>0, <1>4, <2>1 DEF Close, CloseSocket, CoreType
    <3> QED BY <1>0, <3>1, <3>2 DEF CoreType
  <2>2. CASE connected[c]
    <3>1. c # cur \/ dpc \notin Handshake
      BY <2>2 DEF Inv, LifeInv
    <3>2. /\ sock' = [sock EXCEPT ![fd[c]] = None]
          /\ connected' = [connected EXCEPT ![c] = FALSE]
          /\ UNCHANGED <<port, fd, object, cur, dpc>>
      BY <1>4, <2>2 DEF Close, CloseSocket
    <3>3. sock[fd[c]] = c
      BY <1>0, <2>2
    <3>4. \A f \in Fds : sock[f] = c => f = fd[c]
      <4>1. c # None
        BY TableAssumption DEF Conns, None
      <4> QED BY <1>0, <4>1
    <3>5. \A d \in Conns \ {c} : connected[d] => fd[d] # fd[c]
      BY <1>0, <3>3
    <3>6. dpc \in Handshake => fd[cur] # fd[c]
      BY <1>0, <3>1, <3>3
    <3> QED BY <1>0, <3>1, <3>2, <3>4, <3>5, <3>6 DEF CoreType
  <2> QED BY <2>1, <2>2
<1>5. ASSUME NEW c \in Conns, Block(c) \/ ThreadExits(c) \/ Report(c) \/ ClosePort(c)
      PROVE  SocketInv'
  BY <1>0, <1>5 DEF Block, ThreadExits, Report, ClosePort, ThreadRest
<1>6. ASSUME NEW p \in Ports, Accept(p)
      PROVE  SocketInv'
  <2> DEFINE f == Lowest({g \in Fds : sock[g] = None})
  <2>1. f \in Fds /\ sock[f] = None
    BY <1>6, AcceptDescriptor DEF Accept, Inv
  <2>2. /\ sock' = [sock EXCEPT ![f] = cur + 1] /\ fd' = [fd EXCEPT ![cur + 1] = f]
        /\ cur' = cur + 1 /\ dpc = "accept" /\ dpc' = "cleanup"
        /\ UNCHANGED <<connected, object>>
    BY <1>6 DEF Accept
  <2> HIDE DEF f
  <2>3. cur + 1 \in Conns /\ cur + 1 # None
    BY <1>0, <1>6 DEF Accept, Conns, None
  <2>4. object[cur + 1] = "none" /\ ~ connected[cur + 1]
    BY <1>0, <2>3 DEF FrontierInv, Inv, LifeInv
  <2>5. \A d \in Conns : connected[d] => fd[d] # f /\ d # cur + 1
    BY <1>0, <2>1, <2>4 DEF Conns, None
  <2>6. \A g \in Fds : sock[g] # None => sock[g] # cur + 1 /\ sock[g] <= cur + 1
    BY <1>0 DEF CoreType, Conns, None
  <2>7. (\A g \in Fds : sock[g] # None => sock[g] <= cur /\ fd[sock[g]] = g)'
    <3>1. SUFFICES ASSUME NEW g \in Fds, sock'[g] # None
                   PROVE  sock'[g] <= cur + 1 /\ fd'[sock'[g]] = g
      BY <2>2
    <3>2. CASE g = f
      BY <1>0, <2>2, <2>3, <3>2 DEF CoreType
    <3>3. CASE g # f
      <4>1. sock'[g] = sock[g] /\ sock[g] \in Conns
        BY <1>0, <2>2, <3>1, <3>3 DEF CoreType
      <4> QED BY <1>0, <2>2, <2>6, <3>1, <4>1 DEF CoreType
    <3> QED BY <3>2, <3>3
  <2>8. (dpc \in Handshake => sock[fd[cur]] = cur /\ object[cur] = "none")'
    BY <1>0, <2>1, <2>2, <2>3, <2>4 DEF CoreType
  <2>9. SocketsOwned'
    BY <1>0, <2>1, <2>2, <2>3, <2>5 DEF CoreType
  <2> QED BY <2>7, <2>8, <2>9
<1>7. CASE SweepKill
  <2>1. dpc' = "join" /\ UNCHANGED <<sock, objVars>>
    BY <1>7, SweptHasReported
  <2> QED BY <1>0, <1>7, <2>1 DEF SweepKill
<1>8. CASE SweepJoin
  <2>1. victim \in Conns /\ victim # cur
    BY <1>0, <1>8 DEF SweepJoin, Inv, TableInv
  <2> QED BY <1>0, <1>8, <2>1 DEF SweepJoin, CoreType
<1>9. CASE Drop
  <2>1. sock[fd[cur]] = cur /\ object[cur] = "none" /\ cur \in Conns
    BY <1>0, <1>9 DEF Drop, FrontierInv
  <2>2. ~ connected[cur]
    BY <2>1 DEF Inv, LifeInv
  <2>3. \A d \in Conns : connected[d] => fd[d] # fd[cur]
    BY <1>0, <2>1, <2>2
  <2>4. \A f \in Fds : sock[f] = cur => f = fd[cur]
    BY <1>0, <2>1 DEF Conns, None
  <2>5. fd[cur] \in Fds
    BY <1>0, <2>1 DEF FrontierInv
  <2> QED BY <1>0, <1>9, <2>3, <2>4, <2>5 DEF Drop, DropConnection, CoreType
<1>10. CASE Create
  <2>1. sock[fd[cur]] = cur /\ object[cur] = "none" /\ cur \in Conns
    BY <1>0, <1>10 DEF Create, FrontierInv
  <2> QED BY <1>0, <1>10, <2>1 DEF Create, CoreType
<1> QED BY <1>1, <1>2, <1>3, <1>4, <1>5, <1>6, <1>7, <1>8, <1>9, <1>10
        DEF StepClass, ThreadClass, DaemonClass

\* Every step keeps the table and the life of the clients in agreement.
LEMMA TableStep == ASSUME Inv, StepClass PROVE TableInv'
<1> USE DEF TableInv, PortBusy, coreVars, objVars, tableVars, daemonVars, netVars
<1>0. TableInv /\ FrontierInv /\ CoreType /\ MaxConns \in Nat /\ cur \in Nat
  BY TableAssumption DEF Inv, TypeOK, CoreType
<1>00. /\ \A q \in DOMAIN clients : q \in TablePorts /\ clients[q] \in Conns \cup {None}
       /\ None \notin Conns
  BY TableEntry DEF Inv, Conns, None
<1>1. CASE UNCHANGED coreVars
  BY <1>0, <1>1
<1>2. CASE CleanupLock \/ SweepDone \/ Advance \/ OpenPort
  BY <1>0, <1>2 DEF CleanupLock, SweepDone, Advance, OpenPort
<1>3. CASE NullEntry
  <2>1. PICK p \in TablePorts : ~ PortBusy(p) /\ clients' = With(clients, p, None)
    BY <1>3 DEF NullEntry
  <2>2. /\ DOMAIN clients' = DOMAIN clients \cup {p} /\ clients'[p] = None
        /\ \A q \in DOMAIN clients : q # p => clients'[q] = clients[q]
    BY <2>1 DEF With
  <2>3. UNCHANGED <<port, object, connected, dpc, cur, victim>>
    BY <1>3 DEF NullEntry
  <2> QED BY <1>0, <1>00, <2>1, <2>2, <2>3 DEF CoreType
<1>4. ASSUME NEW c \in Conns, ThreadClass(c)
      PROVE  TableInv'
  <2>1. UNCHANGED <<port, object, clients, dpc, cur, victim>>
    BY <1>4 DEF ThreadClass, Close, Block, ThreadExits, Report, ClosePort, ThreadRest
  <2>2. CASE Close(c)
    <3>1. connected' = [connected EXCEPT ![c] = FALSE]
      BY <2>2 DEF Close, CloseSocket
    <3>2. dpc = "join" => ~ connected'[victim]
      BY <1>0, <3>1 DEF CoreType
    <3> QED BY <1>0, <2>1, <3>2
  <2>3. CASE UNCHANGED connected
    BY <1>0, <2>1, <2>3
  <2> QED BY <1>4, <2>2, <2>3 DEF ThreadClass, Block, ThreadExits, Report, ClosePort
<1>5. ASSUME NEW p \in Ports, Accept(p)
      PROVE  TableInv'
  <2>1. cur + 1 \in Conns /\ object[cur + 1] = "none"
    BY <1>0, <1>5 DEF Accept, Conns, FrontierInv
  <2>2. /\ UNCHANGED <<object, clients, victim>> /\ dpc = "accept" /\ dpc' = "cleanup"
        /\ port' = [port EXCEPT ![cur + 1] = p]
    BY <1>5 DEF Accept
  <2>3. \A c \in Conns : object[c] = "live" => port'[c] = port[c]
    BY <1>0, <2>1, <2>2 DEF CoreType
  <2> QED BY <1>0, <1>00, <2>2, <2>3
<1>6. CASE SweepKill
  <2> DEFINE p == Head(sweep)
  <2>1. /\ p \in Ports /\ clients[p] \in Conns /\ port[clients[p]] = p
        /\ object[clients[p]] = "live" /\ ~ connected[clients[p]]
        /\ dpc' = "join" /\ UNCHANGED <<sock, objVars>>
    BY <1>6, SweptHasReported
  <2>2. clients' = Without(clients, p) /\ victim' = clients[p] /\ dpc = "sweep"
    BY <1>6, <2>1 DEF SweepKill
  <2>3. /\ DOMAIN clients' = DOMAIN clients \ {p}
        /\ \A q \in DOMAIN clients \ {p} : clients'[q] = clients[q]
    BY <2>2, WithoutIs
  <2> HIDE DEF p
  <2> QED BY <1>0, <1>00, <2>1, <2>2, <2>3 DEF CoreType
<1>7. CASE SweepNull
  <2> DEFINE p == Head(sweep)
  <2>1. /\ DOMAIN clients' = DOMAIN clients \cup {p} /\ clients'[p] = None
        /\ \A q \in DOMAIN clients : q # p => clients'[q] = clients[q]
    BY <1>7 DEF SweepNull, With
  <2>2. ~ PortBusy(p) /\ dpc = "sweep"
        /\ UNCHANGED <<port, object, connected, dpc, cur, victim>>
    BY <1>7 DEF SweepNull
  <2> HIDE DEF p
  <2> QED BY <1>0, <1>00, <2>1, <2>2 DEF CoreType
<1>8. CASE SweepJoin
  <2>1. /\ dpc = "join" /\ dpc' = "sweep" /\ victim \in Conns
        /\ object' = [object EXCEPT ![victim] = "deleted"]
        /\ UNCHANGED <<port, clients, cur>>
    BY <1>0, <1>8 DEF SweepJoin
  <2>2. \A q \in DOMAIN clients : clients[q] # victim
    BY <1>0, <1>00, <2>1
  <2> QED BY <1>0, <1>00, <2>1, <2>2 DEF CoreType
<1>9. CASE Drop
  BY <1>0, <1>9 DEF Drop, DropConnection
<1>10. CASE Create
  <2>1. object[cur] = "none" /\ cur \in Conns
    BY <1>0, <1>10 DEF Create, FrontierInv, Inv, SocketInv, Handshake
  <2> QED BY <1>0, <1>00, <1>10, <2>1 DEF Create, CoreType
<1>11. CASE Register
  <2>1. /\ cur \in Conns /\ dpc = "register" /\ dpc' = "openPort"
        /\ UNCHANGED <<port, object, cur, victim>>
    BY <1>0, <1>11 DEF Register, FrontierInv
  <2>2. /\ DOMAIN clients' = DOMAIN clients \cup {port[cur]} /\ clients'[port[cur]] = cur
        /\ \A q \in DOMAIN clients : q # port[cur] => clients'[q] = clients[q]
    BY <1>11 DEF Register, With
  <2> QED BY <1>0, <1>00, <2>1, <2>2
<1> QED BY <1>1, <1>2, <1>3, <1>4, <1>5, <1>6, <1>7, <1>8, <1>9, <1>10, <1>11
        DEF StepClass, DaemonClass

\* Every step keeps the meaning of a reported port: the client that reported it.
LEMMA ReportStep == ASSUME Inv, StepClass PROVE ReportInv'
<1> USE DEF ReportInv, Reported, coreVars, objVars, tableVars, daemonVars, netVars
<1>0. ReportInv /\ TableInv /\ FrontierInv /\ CoreType /\ MaxConns \in Nat /\ cur \in Nat
  BY TableAssumption DEF Inv, TypeOK, CoreType
<1>00. /\ \A q \in DOMAIN clients : q \in TablePorts /\ clients[q] \in Conns \cup {None}
       /\ None \notin Conns
  BY TableEntry DEF Inv, Conns, None
<1>1. CASE UNCHANGED coreVars
  BY <1>0, <1>1 DEF PortBusy
<1>2. CASE NullEntry
  BY <1>0, <1>2 DEF NullEntry, ClientsMutexFree
<1>3. ASSUME NEW c \in Conns, Close(c)
      PROVE  ReportInv'
  <2>1. UNCHANGED <<port, object, clients, disconnectedClients, dpc, sweep>>
    BY <1>3 DEF Close
  <2>2. \A d \in Conns : cpc[d] \in {"closePort", "done"} => cpc'[d] = cpc[d]
    BY <1>0, <1>3 DEF Close, CoreType
  <2>3. \A p : Reported(p) => Reported(p)'
    BY <2>1, <2>2
  <2>4. \A p : PortBusy(p)' => PortBusy(p) /\ clients[p] \in Conns /\ clients'[p] = clients[p]
    BY <1>00, <2>1 DEF PortBusy
  <2> QED BY <1>0, <2>1, <2>2, <2>3, <2>4
<1>4. ASSUME NEW c \in Conns, Block(c) \/ ThreadExits(c) \/ ClosePort(c)
      PROVE  ReportInv'
  <2>1. UNCHANGED <<port, object, clients, disconnectedClients, dpc, sweep>>
    BY <1>4 DEF Block, ThreadExits, ClosePort, ThreadRest
  <2>2. \A d \in Conns : cpc[d] \in {"closePort", "done"} => cpc'[d] \in {"closePort", "done"}
    BY <1>0, <1>4 DEF Block, ThreadExits, ClosePort, CoreType
  <2>3. \A p : Reported(p) => Reported(p)'
    BY <2>1, <2>2
  <2>4. \A p : PortBusy(p)' => PortBusy(p) /\ clients[p] \in Conns /\ clients'[p] = clients[p]
    BY <1>00, <2>1 DEF PortBusy
  <2> QED BY <1>0, <2>1, <2>2, <2>3, <2>4
<1>5. ASSUME NEW c \in Conns, Report(c)
      PROVE  ReportInv'
  <2>1. object[c] = "live" /\ port[c] \in Ports
    BY <1>5, ReporterLives DEF Report, Inv
  <2>2. /\ UNCHANGED <<port, object, clients, dpc>> /\ dpc \notin {"sweep", "join"}
        /\ cpc' = [cpc EXCEPT ![c] = "closePort"]
        /\ disconnectedClients' = Append(disconnectedClients, port[c])
    BY <1>5 DEF Report, ThreadRest, ClientsMutexFree
  <2>3. \A p : Reported(p) => Reported(p)'
    BY <1>0, <2>2 DEF CoreType
  <2>4. Reported(port[c])'
    BY <1>0, <2>1, <2>2 DEF CoreType
  <2>5. ASSUME NEW i \in 1 .. Len(disconnectedClients')
        PROVE  \/ disconnectedClients'[i] = port[c]
               \/ /\ i \in 1 .. Len(disconnectedClients)
                  /\ disconnectedClients'[i] = disconnectedClients[i]
    BY <1>0, <2>1, <2>2 DEF CoreType
  <2>6. ASSUME NEW i \in 1 .. Len(disconnectedClients')
        PROVE  Reported(disconnectedClients[i])'
    BY <1>0, <2>2, <2>3, <2>4, <2>5
  <2> QED BY <2>2, <2>6
<1>6. ASSUME NEW p \in Ports, Accept(p)
      PROVE  ReportInv'
  <2>1. cur + 1 \in Conns /\ object[cur + 1] = "none"
    BY <1>0, <1>6 DEF Accept, Conns, FrontierInv
  <2>2. /\ UNCHANGED <<object, cpc, disconnectedClients>>
        /\ dpc = "accept" /\ dpc' = "cleanup" /\ port' = [port EXCEPT ![cur + 1] = p]
    BY <1>6 DEF Accept
  <2>3. \A c \in Conns : object[c] = "live" => port'[c] = port[c]
    BY <1>0, <2>1, <2>2 DEF CoreType
  <2> QED BY <1>0, <2>2, <2>3
<1>7. CASE CleanupLock
  <2>1. /\ dpc = "cleanup" /\ dpc' = "sweep" /\ sweep' = disconnectedClients
        /\ UNCHANGED <<clients, cpc>>
    BY <1>7 DEF CleanupLock
  <2>2. ASSUME NEW i \in 1 .. Len(disconnectedClients), PortBusy(disconnectedClients[i])
        PROVE  cpc[clients[disconnectedClients[i]]] \in {"closePort", "done"}
    <3>1. PICK c \in Conns : /\ object[c] = "live" /\ port[c] = disconnectedClients[i]
                             /\ cpc[c] \in {"closePort", "done"}
      BY <1>0, <2>1
    <3>2. clients[disconnectedClients[i]] = c
      BY <1>0, <2>1, <3>1 DEF TableInv
    <3> QED BY <3>1, <3>2
  <2> QED BY <2>1, <2>2 DEF PortBusy
<1>8. CASE SweepKill
  <2> DEFINE p == Head(sweep)
  <2>1. p \in Ports /\ port[clients[p]] = p /\ dpc' = "join"
    BY <1>8, SweptHasReported
  <2>2. /\ clients' = Without(clients, p) /\ dpc = "sweep" /\ UNCHANGED cpc
        /\ sweep # << >> /\ sweep' = Tail(sweep)
    BY <1>8, <2>1 DEF SweepKill
  <2>3. /\ DOMAIN clients' = DOMAIN clients \ {p}
        /\ \A q \in DOMAIN clients \ {p} : clients'[q] = clients[q]
    BY <2>2, WithoutIs
  <2>4. \A i \in 1 .. Len(sweep') : sweep'[i] = sweep[i + 1] /\ i + 1 \in 1 .. Len(sweep)
    BY <1>0, <2>2 DEF CoreType
  <2> HIDE DEF p
  <2> QED BY <1>0, <2>1, <2>2, <2>3, <2>4 DEF PortBusy
<1>9. CASE SweepNull
  <2> DEFINE p == Head(sweep)
  <2>1. /\ DOMAIN clients' = DOMAIN clients \cup {p} /\ clients'[p] = None
        /\ \A q \in DOMAIN clients : q # p => clients'[q] = clients[q]
    BY <1>9 DEF SweepNull, With
  <2>2. /\ dpc = "sweep" /\ UNCHANGED <<dpc, cpc>> /\ sweep # << >> /\ sweep' = Tail(sweep)
    BY <1>9 DEF SweepNull
  <2>4. \A i \in 1 .. Len(sweep') : sweep'[i] = sweep[i + 1] /\ i + 1 \in 1 .. Len(sweep)
    BY <1>0, <2>2 DEF CoreType
  <2> HIDE DEF p
  <2> QED BY <1>0, <2>1, <2>2, <2>4 DEF PortBusy
<1>10. CASE SweepJoin
  BY <1>0, <1>10 DEF SweepJoin, PortBusy
<1>11. CASE SweepDone
  BY <1>0, <1>11 DEF SweepDone
<1>12. CASE Drop \/ Advance
  BY <1>0, <1>12 DEF Drop, DropConnection, Advance
<1>13. CASE Create
  <2>1. object[cur] = "none" /\ cur \in Conns
    BY <1>0, <1>13 DEF Create, FrontierInv, Inv, SocketInv, Handshake
  <2>2. \A p : Reported(p) => Reported(p)'
    BY <1>0, <1>13, <2>1 DEF Create, CoreType
  <2> QED BY <1>0, <1>13, <2>2 DEF Create
<1>14. CASE Register \/ OpenPort
  BY <1>0, <1>14 DEF Register, OpenPort
<1> QED BY <1>1, <1>2, <1>3, <1>4, <1>5, <1>6, <1>7, <1>8, <1>9, <1>10, <1>11, <1>12,
           <1>13, <1>14 DEF StepClass, ThreadClass, DaemonClass

\* Every step keeps the port of a connected client open.
LEMMA OpenStep == ASSUME Inv, StepClass PROVE ConnectedIsOpen'
<1> USE DEF ConnectedIsOpen, coreVars, objVars, tableVars, daemonVars, netVars
<1>0. /\ ConnectedIsOpen /\ FrontierInv /\ LifeInv /\ CoreType
      /\ MaxConns \in Nat /\ cur \in Nat
  BY TableAssumption DEF Inv, TypeOK, CoreType
<1>1. CASE UNCHANGED coreVars
  BY <1>0, <1>1
<1>2. CASE NullEntry \/ CleanupLock \/ SweepNull \/ SweepJoin \/ SweepDone
  BY <1>0, <1>2 DEF NullEntry, CleanupLock, SweepNull, SweepJoin, SweepDone
<1>3. CASE Drop \/ Advance \/ Register \/ OpenPort
  BY <1>0, <1>3 DEF Drop, DropConnection, Advance, Register, OpenPort
<1>4. ASSUME NEW c \in Conns, Close(c)
      PROVE  ConnectedIsOpen'
  <2>1. /\ connected' = [connected EXCEPT ![c] = FALSE]
        /\ UNCHANGED <<port, open_ports, cur, dpc>>
    BY <1>4 DEF Close, CloseSocket
  <2> QED BY <1>0, <2>1 DEF CoreType
<1>5. ASSUME NEW c \in Conns, Block(c) \/ ThreadExits(c) \/ Report(c)
      PROVE  ConnectedIsOpen'
  BY <1>0, <1>5 DEF Block, ThreadExits, Report, ThreadRest
<1>6. ASSUME NEW c \in Conns, ClosePort(c)
      PROVE  ConnectedIsOpen'
  <2>1. object[c] = "live" /\ ~ connected[c]
    BY <1>6, ReporterLives DEF ClosePort, Inv
  <2>2. \A d \in Conns : connected[d] => object[d] = "live"
    BY <1>0 DEF LifeInv
  <2>3. \A d \in Conns : connected[d] => port[d] # port[c]
    BY <2>1, <2>2, OneLive DEF Inv
  <2> QED BY <1>0, <1>6, <2>3 DEF ClosePort, ThreadRest
<1>7. ASSUME NEW p \in Ports, Accept(p)
      PROVE  ConnectedIsOpen'
  <2>1. cur + 1 \in Conns /\ object[cur + 1] = "none"
    BY <1>0, <1>7 DEF Accept, Conns, FrontierInv
  <2>2. ~ connected[cur + 1]
    BY <1>0, <2>1 DEF LifeInv
  <2>3. /\ port' = [port EXCEPT ![cur + 1] = p] /\ dpc = "accept"
        /\ UNCHANGED <<connected, open_ports>>
    BY <1>7 DEF Accept
  <2> QED BY <1>0, <2>2, <2>3 DEF CoreType
<1>8. CASE SweepKill
  <2>1. UNCHANGED <<sock, objVars>>
    BY <1>8, SweptHasReported
  <2> QED BY <1>0, <1>8, <2>1 DEF SweepKill
<1>9. CASE Create
  BY <1>0, <1>9 DEF Create, CoreType
<1> QED BY <1>1, <1>2, <1>3, <1>4, <1>5, <1>6, <1>7, <1>8, <1>9
        DEF StepClass, ThreadClass, DaemonClass

\* Every step keeps cleanupClients from waiting for itself.
LEMMA SweptStep == ASSUME Inv, StepClass PROVE SweptIsDisconnected'
<1> USE DEF SweptIsDisconnected, coreVars, daemonVars
<1>0. dpc # "stuck"
  BY DEF Inv
<1>1. CASE SweepKill
  BY <1>1, SweptHasReported
<1>2. CASE UNCHANGED coreVars \/ NullEntry \/ \E c \in Conns : ThreadClass(c)
  BY <1>0, <1>2 DEF NullEntry, ThreadClass, Close, Block, ThreadExits, Report,
                    ClosePort, ThreadRest
<1>3. CASE (\E p \in Ports : Accept(p)) \/ CleanupLock \/ SweepNull \/ SweepJoin
           \/ SweepDone \/ Drop \/ Advance \/ Create \/ Register \/ OpenPort
  BY <1>0, <1>3 DEF Accept, CleanupLock, SweepNull, SweepJoin, SweepDone, Drop,
                    DropConnection, Advance, Create, Register, OpenPort
<1> QED BY <1>1, <1>2, <1>3 DEF StepClass, DaemonClass

-----------------------------------------------------------------------------
(***************************************************************************)
(* Theorems.                                                               *)
(***************************************************************************)
\* The invariant holds before the first connection.
LEMMA InvInit == Init => Inv
<1> SUFFICES ASSUME Init PROVE Inv
  OBVIOUS
<1> USE TableAssumption DEF Init, Conns, Fds, None
<1>1. DOMAIN clients = {}
  OBVIOUS
<1>2. TypeOK
  BY <1>1 DEF TypeOK, DaemonLabels, ThreadLabels, CbLabels, AsmLabels, TablePorts,
              Range
<1>3. EventInv /\ FrontierInv /\ MutexInv /\ SweptIsDisconnected /\ ConnectedIsOpen
  BY DEF EventInv, FrontierInv, MutexInv, SweptIsDisconnected, ConnectedIsOpen
<1>4. SocketInv /\ LifeInv
  BY DEF SocketInv, SocketsOwned, Handshake, LifeInv
<1>5. TableInv /\ ReportInv
  BY <1>1 DEF TableInv, ReportInv, Reported
<1> QED BY <1>2, <1>3, <1>4, <1>5 DEF Inv

\* Every step of the daemon, its threads and its clients keeps the invariant.
LEMMA InvStep == Inv /\ [Next]_vars => Inv'
<1> SUFFICES ASSUME Inv, [Next]_vars PROVE Inv'
  OBVIOUS
<1>1. StepClass
  BY EveryStepHasClass DEF Inv
<1>2. CoreType' /\ FrontierInv'
  BY <1>1, CoreTypeStep, FrontierStep
<1>3. TypeOK' /\ EventInv' /\ MutexInv'
  BY <1>2, EventStep
<1>4. SocketInv' /\ LifeInv' /\ TableInv'
  BY <1>1, SocketStep, LifeStep, TableStep
<1>5. ReportInv' /\ SweptIsDisconnected' /\ ConnectedIsOpen'
  BY <1>1, ReportStep, SweptStep, OpenStep
<1> QED BY <1>2, <1>3, <1>4, <1>5 DEF Inv

\* The inductive invariant is an invariant.
THEOREM TableInvariant == Spec => []Inv
BY InvInit, InvStep, PTL DEF Spec

\* Every variable of the daemon keeps its type; in particular there is always
\* a free descriptor for the next connection that is accepted.
THEOREM TableTypes == Spec => []TypeOK
<1>1. Inv => TypeOK
  BY DEF Inv
<1> QED BY <1>1, TableInvariant, PTL

\* cleanupClients (S3TP.cpp) never finds a client that is still connected, for
\* any number of connections: it never waits for the mutex that it holds.
THEOREM SweepNeverWaitsForItself == Spec => []SweptIsDisconnected
<1>1. Inv => SweptIsDisconnected
  BY DEF Inv
<1> QED BY <1>1, TableInvariant, PTL

\* The delete in cleanupClients leaves no pointer behind: not in the table,
\* not in the thread of the client.
THEOREM DeletedIsForgotten == Spec => []NoDanglingClient
<1>1. Inv => NoDanglingClient
  <2>1. SUFFICES ASSUME Inv, NEW c \in Conns, object[c] = "deleted"
                 PROVE  c \notin Range(clients) /\ cpc[c] = "done"
    BY DEF NoDanglingClient
  <2>2. cpc[c] = "done"
    BY <2>1 DEF Inv, LifeInv
  <2>3. c # None
    BY TableAssumption DEF Conns, None
  <2>4. \A p \in DOMAIN clients : clients[p] # c
    BY <2>1, <2>3 DEF Inv, TableInv
  <2> QED BY <2>2, <2>4 DEF Range
<1> QED BY <1>1, TableInvariant, PTL

\* Two connected clients never have the same port: the check of the handshake
\* and the registration are separate critical sections, but only the daemon
\* thread adds clients.
THEOREM PortHasOneOwner == Spec => []OneOwnerPerPort
<1>1. Inv => OneOwnerPerPort
  <2>1. SUFFICES ASSUME Inv, NEW c \in Conns, NEW d \in Conns,
                        connected[c], connected[d], port[c] = port[d]
                 PROVE  c = d
    BY DEF OneOwnerPerPort
  <2>2. object[c] = "live" /\ object[d] = "live"
    BY <2>1 DEF Inv, LifeInv
  <2> QED BY <2>1, <2>2, OneLive DEF Inv
<1> QED BY <1>1, TableInvariant, PTL

\* The late closePort of a client never closes the port of its successor.
THEOREM SuccessorStaysOpen == Spec => []ConnectedIsOpen
<1>1. Inv => ConnectedIsOpen
  BY DEF Inv
<1> QED BY <1>1, TableInvariant, PTL

\* No descriptor leaks, and no thread closes a descriptor that has been given
\* to the next connection.
THEOREM DescriptorsOwned == Spec => []SocketsOwned
<1>1. Inv => SocketsOwned
  BY DEF Inv, SocketInv
<1> QED BY <1>1, TableInvariant, PTL
=============================================================================
