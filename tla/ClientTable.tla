---------------------------- MODULE ClientTable ----------------------------
(***************************************************************************)
(* Who owns a port: the accept loop of the daemon (TransportDaemon.cpp),   *)
(* the Client objects and their threads (Client.cpp), and the table of     *)
(* clients in S3TP.cpp, which the daemon thread, the client threads, the   *)
(* link layer's callback thread and the assembly thread share.             *)
(*                                                                         *)
(* One action is one critical section, or the code between two of them.    *)
(* clients_mutex is held across actions by cleanupClients while it joins   *)
(* client threads, by the callback thread while it notifies clients, and   *)
(* for ever by a thread whose write fails under it ("stuck": the failing   *)
(* write calls onDisconnected, which locks the mutex again).  rx_mutex is  *)
(* held by the callback thread from the entry of a callback to its end.    *)
(*                                                                         *)
(* rx_mutex and tx_mutex can be lost: RxModule returns from an error with  *)
(* rx_mutex locked, and each module can end up in a cycle with the mutex   *)
(* of its buffer (RxModule and TxModule show how).  Here that may happen   *)
(* at any time; `lost` is the set of mutexes that are locked for good.     *)
(*                                                                         *)
(* Sockets are what makes the table hard: a descriptor that was closed is  *)
(* given to the next connection.  sock is the descriptor table of the      *)
(* process, app the other end of each connection; both are external, and   *)
(* so are messages and callbacks that arrive.  mishaps and the field       *)
(* `owner` of a message are ghosts, never read by the guards.              *)
(***************************************************************************)
EXTENDS Naturals, Sequences, FiniteSets, Functions

CONSTANTS
    Ports,        \* ports that applications ask for
    PortChannel,  \* virtual channel in the configuration of each port
    Channels,     \* virtual channels
    MaxConns,     \* bound: connections that are accepted
    MaxCallbacks, \* bound: link, channel and sync callbacks
    MaxMessages   \* bound: messages that arrive for applications

ASSUME TableAssumption ==
    /\ Ports \subseteq Nat /\ Ports # {}
    /\ Channels \subseteq Nat /\ PortChannel \in [Ports -> Channels]
    /\ MaxConns \in Nat /\ MaxCallbacks \in Nat /\ MaxMessages \in Nat

Conns == 1 .. MaxConns   \* connections; Client object c serves connection c
Fds == 1 .. MaxConns     \* descriptors
None == 0                \* a null Client *, a free descriptor

VARIABLES
    sock, app,                    \* descriptors, other ends of connections
    port, fd, connected, object,  \* Client: app_port, socket, connected; life
    cpc,                          \* client threads
    clients, disconnectedClients, \* S3TP
    open_ports,                   \* RxModule
    dpc, cur, sweep, victim,      \* daemon thread, cleanupClients
    bpc, audience, todo,          \* callback thread
    apc, msg, inbox,              \* assembly thread
    lost,                         \* mutexes that nobody will unlock
    callbacks, messages, mishaps

netVars == <<sock, app>>
objVars == <<port, fd, connected, object>>
tableVars == <<clients, disconnectedClients, open_ports>>
daemonVars == <<dpc, cur, sweep, victim>>
cbVars == <<bpc, audience, todo, callbacks>>
asmVars == <<apc, msg, inbox, messages>>
vars == <<netVars, objVars, cpc, tableVars, daemonVars, cbVars, asmVars, lost,
          mishaps>>

NoMessage == [port |-> None, owner |-> None]

Lowest(S) == CHOOSE x \in S : \A y \in S : x <= y

Crashed == bpc = "crashed"   \* the process ended with a segmentation fault
ClientsMutexFree == /\ dpc \notin {"sweep", "join", "stuck", "blocked"}
                    /\ bpc \notin {"notify", "stuck", "blocked"} /\ apc # "stuck"
RxMutexFree == bpc = "idle" /\ "rx" \notin lost

Init ==
    /\ sock = [f \in Fds |-> None]
    /\ app = [c \in Conns |-> "none"]
    /\ port = [c \in Conns |-> None]
    /\ fd = [c \in Conns |-> None]
    /\ connected = [c \in Conns |-> FALSE]
    /\ object = [c \in Conns |-> "none"]
    /\ cpc = [c \in Conns |-> "none"]
    /\ clients = << >>               \* the empty map
    /\ disconnectedClients = << >>
    /\ open_ports = {}
    /\ dpc = "accept" /\ cur = 0 /\ sweep = << >> /\ victim = None
    /\ bpc = "idle" /\ audience = {} /\ todo = {}
    /\ apc = "idle" /\ msg = NoMessage /\ inbox = {}
    /\ lost = {} /\ callbacks = 0 /\ messages = 0 /\ mishaps = {}

-----------------------------------------------------------------------------
(***************************************************************************)
(* Applications (external).                                                *)
(***************************************************************************)
OnSocket(c) == \E f \in Fds : sock[f] = c

AppRest == UNCHANGED <<sock, objVars, cpc, tableVars, daemonVars, cbVars, asmVars,
                       lost, mishaps>>

\* The application writes its S3TP_CONFIG
AppConfigures(c) ==
    /\ app[c] = "silent" /\ OnSocket(c)
    /\ app' = [app EXCEPT ![c] = "open"] /\ AppRest

\* It ends the connection, before or after it has sent a configuration
AppCloses(c) ==
    /\ app[c] \in {"silent", "open"} /\ OnSocket(c)
    /\ app' = [app EXCEPT ![c] = IF @ = "silent" THEN "left" ELSE "closed"]
    /\ AppRest

-----------------------------------------------------------------------------
(***************************************************************************)
(* Socket operations of a Client.                                          *)
(***************************************************************************)
\* A write succeeds if the descriptor is open and somebody is at the other end
Writable(c) == sock[fd[c]] # None /\ app[sock[fd[c]]] \in {"silent", "open"}

\* closeConnection and handleConnectionClosed under client_mutex
CloseSocket(c) ==
    /\ sock' = IF connected[c] THEN [sock EXCEPT ![fd[c]] = None] ELSE sock
    /\ connected' = [connected EXCEPT ![c] = FALSE]

-----------------------------------------------------------------------------
(***************************************************************************)
(* Client threads: clientRoutine.                                          *)
(***************************************************************************)
ThreadRest == UNCHANGED <<app, port, fd, object, daemonVars, cbVars, asmVars, lost,
                          mishaps>>

\* A read finds the end of the stream, or the write of an answer fails
ThreadCloses(c) ==
    /\ cpc[c] = "run" /\ cpc' = [cpc EXCEPT ![c] = "report"]
    /\ app[c] = "closed" \/ ~ connected[c]
    /\ CloseSocket(c)
    /\ UNCHANGED tableVars /\ ThreadRest

\* read_length_safe finds no quorum: the daemon ends the connection
CorruptLength(c) ==
    /\ cpc[c] = "run" /\ cpc' = [cpc EXCEPT ![c] = "report"]
    /\ app[c] = "open" /\ connected[c]
    /\ CloseSocket(c)
    /\ UNCHANGED tableVars /\ ThreadRest

\* while (isConnected()): another thread has closed the connection
ThreadExits(c) ==
    /\ cpc[c] = "run" /\ ~ connected[c]
    /\ cpc' = [cpc EXCEPT ![c] = "done"]
    /\ UNCHANGED <<sock, connected, tableVars>> /\ ThreadRest

\* A message is sent: in the cycle of TxModule, or behind it, the thread waits
\* for ever, without clients_mutex
SendBlocks(c) ==
    /\ cpc[c] = "run" /\ connected[c]
    /\ cpc' = [cpc EXCEPT ![c] = "blocked"] /\ lost' = lost \cup {"tx"}
    /\ UNCHANGED <<netVars, objVars, tableVars, daemonVars, cbVars, asmVars, mishaps>>

\* Mutant of Report: the socket is reported in place of the port
MutantReportSocket(c) ==
    /\ cpc[c] = "report" /\ ClientsMutexFree
    /\ disconnectedClients' = Append(disconnectedClients, fd[c])
    /\ cpc' = [cpc EXCEPT ![c] = "closePort"]
    /\ UNCHANGED <<sock, connected, clients, open_ports>> /\ ThreadRest

\* onDisconnected ...
Report(c) ==
    /\ cpc[c] = "report" /\ ClientsMutexFree
    /\ disconnectedClients' = Append(disconnectedClients, port[c])
    /\ cpc' = [cpc EXCEPT ![c] = "closePort"]
    /\ UNCHANGED <<sock, connected, clients, open_ports>> /\ ThreadRest

\* ... and rx.closePort; then the thread ends
ClosePort(c) ==
    /\ cpc[c] = "closePort" /\ RxMutexFree
    /\ open_ports' = open_ports \ {port[c]}
    /\ cpc' = [cpc EXCEPT ![c] = "done"]
    /\ UNCHANGED <<sock, connected, clients, disconnectedClients>> /\ ThreadRest

ThreadStep(c) ==
    ~ Crashed /\ (ThreadCloses(c) \/ ThreadExits(c) \/ Report(c) \/ ClosePort(c))

-----------------------------------------------------------------------------
(***************************************************************************)
(* Daemon thread: startDaemon, cleanupClients, Client::Client, onConnected.*)
(***************************************************************************)
DaemonRest == UNCHANGED <<cbVars, asmVars, lost, mishaps>>

\* accept: the lowest free descriptor
Accept(p) ==
    /\ dpc = "accept" /\ cur < MaxConns
    /\ LET f == Lowest({g \in Fds : sock[g] = None})
       IN  /\ sock' = [sock EXCEPT ![f] = cur + 1]
           /\ fd' = [fd EXCEPT ![cur + 1] = f]
    /\ app' = [app EXCEPT ![cur + 1] = "silent"]
    /\ port' = [port EXCEPT ![cur + 1] = p]
    /\ cur' = cur + 1 /\ dpc' = "cleanup"
    /\ UNCHANGED <<connected, object, cpc, tableVars, sweep, victim>> /\ DaemonRest

\* cleanupClients takes clients_mutex and keeps it to the end
CleanupLock ==
    /\ dpc = "cleanup" /\ ClientsMutexFree
    /\ dpc' = "sweep" /\ sweep' = disconnectedClients
    /\ UNCHANGED <<netVars, objVars, cpc, tableVars, cur, victim>> /\ DaemonRest

Without(m, p) == Restrict(m, DOMAIN m \ {p})
With(m, p, c) == [q \in DOMAIN m \cup {p} |-> IF q = p THEN c ELSE m[q]]

\* Mutant of Kill: does not wait for the thread of a closed connection
MutantKillNoJoin(c) ==
    IF connected[c]
      THEN dpc' = "stuck" /\ CloseSocket(c) /\ UNCHANGED object
      ELSE /\ dpc' = "sweep" /\ object' = [object EXCEPT ![c] = "deleted"]
           /\ UNCHANGED <<sock, connected>>

\* Mutant of Kill: the client is taken out of the table and left to itself
MutantKillForgets(c) ==
    /\ IF connected[c] THEN dpc' = "stuck" /\ CloseSocket(c)
                       ELSE dpc' = "sweep" /\ UNCHANGED <<sock, connected>>
    /\ UNCHANGED object

\* kill: a client that is still connected is closed, and the callback of
\* closeConnection would wait for the clients_mutex of cleanupClients
Kill(c) ==
    /\ IF connected[c] THEN dpc' = "stuck" /\ CloseSocket(c)
                       ELSE dpc' = "join" /\ UNCHANGED <<sock, connected>>
    /\ UNCHANGED object

\* clients[port] inserts a null pointer when there is no entry
SweepNext ==
    /\ dpc = "sweep" /\ sweep # << >> /\ sweep' = Tail(sweep)
    /\ LET p == Head(sweep)
       IN  IF p \in DOMAIN clients /\ clients[p] # None
             THEN /\ clients' = Without(clients, port[clients[p]])
                  /\ victim' = clients[p]
                  /\ Kill(clients[p])
                  /\ UNCHANGED <<port, fd>>
             ELSE /\ clients' = With(clients, p, None)
                  /\ UNCHANGED <<dpc, victim, objVars, sock>>
    /\ UNCHANGED <<app, cpc, disconnectedClients, open_ports, cur>> /\ DaemonRest

\* pthread_join(client_thread), then delete
SweepJoin ==
    /\ dpc = "join" /\ cpc[victim] = "done"
    /\ object' = [object EXCEPT ![victim] = "deleted"]
    /\ dpc' = "sweep"
    /\ UNCHANGED <<netVars, port, fd, connected, cpc, tableVars, cur, sweep, victim>>
    /\ DaemonRest

\* Mutant of SweepDone: the list of ports is not cleared
MutantSweepNotCleared ==
    /\ dpc = "sweep" /\ sweep = << >> /\ dpc' = "config"
    /\ victim' = None
    /\ UNCHANGED <<netVars, objVars, cpc, tableVars, cur, sweep>> /\ DaemonRest

SweepDone ==
    /\ dpc = "sweep" /\ sweep = << >> /\ dpc' = "config"
    /\ disconnectedClients' = << >> /\ victim' = None
    /\ UNCHANGED <<netVars, objVars, cpc, clients, open_ports, cur, sweep>>
    /\ DaemonRest

\* Mutant of DropConnection: an error path without close
MutantDropNoClose == dpc' = "accept" /\ UNCHANGED sock

\* close(new_socket); continue
DropConnection == sock' = [sock EXCEPT ![fd[cur]] = None] /\ dpc' = "accept"

\* Mutant of ReadConfig: without the receive timeout
MutantReadForever ==
    /\ dpc = "config"
    /\ \/ app[cur] \in {"open", "closed"} /\ dpc' = "check" /\ UNCHANGED sock
       \/ app[cur] = "left" /\ DropConnection
    /\ UNCHANGED <<app, objVars, cpc, tableVars, cur, sweep, victim>> /\ DaemonRest

\* read of the configuration: it comes, the application leaves, or two
\* seconds pass
ReadConfig ==
    /\ dpc = "config"
    /\ \/ app[cur] \in {"open", "closed"} /\ dpc' = "check" /\ UNCHANGED sock
       \/ app[cur] \in {"silent", "left"} /\ DropConnection
    /\ UNCHANGED <<app, objVars, cpc, tableVars, cur, sweep, victim>> /\ DaemonRest

\* Mutant of PortBusy: the table is not consulted
MutantPortNeverBusy(p) == FALSE

\* getClientConnectedToPort(port) != NULL
PortBusy(p) == p \in DOMAIN clients /\ clients[p] # None

CheckPort ==
    /\ dpc = "check" /\ ClientsMutexFree
    /\ \/ PortBusy(port[cur]) /\ DropConnection
       \/ ~ PortBusy(port[cur]) /\ dpc' = "answer" /\ UNCHANGED sock
    /\ UNCHANGED <<app, objVars, cpc, tableVars, cur, sweep, victim>> /\ DaemonRest

\* write of CODE_SERVER_ACCEPT; a write of four bytes never returns 0
Answer ==
    /\ dpc = "answer"
    /\ \/ app[cur] = "open" /\ dpc' = "create" /\ UNCHANGED sock
       \/ app[cur] = "closed" /\ DropConnection
    /\ UNCHANGED <<app, objVars, cpc, tableVars, cur, sweep, victim>> /\ DaemonRest

\* new Client: its thread runs before the client is registered
Create ==
    /\ dpc = "create" /\ dpc' = "register"
    /\ object' = [object EXCEPT ![cur] = "live"]
    /\ connected' = [connected EXCEPT ![cur] = TRUE]
    /\ cpc' = [cpc EXCEPT ![cur] = "run"]
    /\ UNCHANGED <<netVars, port, fd, tableVars, cur, sweep, victim>> /\ DaemonRest

\* onConnected: the table ...
Register ==
    /\ dpc = "register" /\ ClientsMutexFree /\ dpc' = "openPort"
    /\ clients' = With(clients, port[cur], cur)
    /\ UNCHANGED <<netVars, objVars, cpc, disconnectedClients, open_ports, cur, sweep,
                   victim>>
    /\ DaemonRest

\* ... rx.openPort ...
OpenPort ==
    /\ dpc = "openPort" /\ RxMutexFree /\ dpc' = "sync"
    /\ open_ports' = open_ports \cup {port[cur]}
    /\ UNCHANGED <<netVars, objVars, cpc, clients, disconnectedClients, cur, sweep,
                   victim>>
    /\ DaemonRest

\* synchronizeStatus: with clients_mutex, scheduleSync waits for tx_mutex
SyncBlocks == "tx" \in lost /\ DOMAIN clients # {}

\* ... and synchronizeStatus
Synchronize ==
    /\ dpc = "sync" /\ ClientsMutexFree
    /\ dpc' = IF SyncBlocks THEN "blocked" ELSE "accept"
    /\ UNCHANGED <<netVars, objVars, cpc, tableVars, cur, sweep, victim>> /\ DaemonRest

DaemonStep ==
    /\ ~ Crashed
    /\ \/ CleanupLock \/ SweepNext \/ SweepJoin \/ SweepDone
       \/ ReadConfig \/ CheckPort \/ Answer
       \/ Create \/ Register \/ OpenPort \/ Synchronize

-----------------------------------------------------------------------------
(***************************************************************************)
(* Callback thread, with rx_mutex: onLinkStatusChanged(true),              *)
(* onChannelStatusChanged, onSynchronization.                              *)
(***************************************************************************)
CbRest == UNCHANGED <<app, port, fd, object, cpc, tableVars, daemonVars, asmVars,
                      lost>>

Callback(l, chs) ==
    /\ RxMutexFree /\ callbacks < MaxCallbacks /\ callbacks' = callbacks + 1
    /\ bpc' = l /\ audience' = chs
    /\ UNCHANGED <<sock, connected, todo, mishaps>> /\ CbRest

LinkUp == Callback("linkSync", Channels)
PeerSync == Callback("peerSync", {})
BufferEmpty(ch) == Callback("channel", {ch})

\* tx.setChannelAvailable takes tx_mutex
CbChannel ==
    /\ bpc = "channel" /\ "tx" \notin lost /\ bpc' = "table"
    /\ UNCHANGED <<sock, connected, audience, todo, callbacks, mishaps>> /\ CbRest

CbSynchronize ==
    /\ bpc \in {"linkSync", "peerSync"} /\ ClientsMutexFree
    /\ bpc' = IF SyncBlocks THEN "blocked"
              ELSE IF bpc = "linkSync" THEN "table" ELSE "idle"
    /\ UNCHANGED <<sock, connected, audience, todo, callbacks, mishaps>> /\ CbRest

\* The loop over the table takes clients_mutex ...
NotifyLock ==
    /\ bpc = "table" /\ ClientsMutexFree /\ bpc' = "notify"
    /\ todo' = DOMAIN clients
    /\ UNCHANGED <<sock, connected, audience, callbacks, mishaps>> /\ CbRest

Misdirected(c) == IF sock[fd[c]] # c THEN {"misdirected"} ELSE {}

\* ... sends AVAILABLE to each client it is meant for ...
NotifyNext ==
    /\ bpc = "notify" /\ todo # {} /\ todo' = todo \ {Lowest(todo)}
    /\ LET c == clients[Lowest(todo)]
       IN  \/ /\ c = None /\ bpc' = "crashed"
              /\ UNCHANGED <<sock, connected, mishaps>>
           \/ /\ c # None /\ PortChannel[port[c]] \notin audience
              /\ UNCHANGED <<bpc, sock, connected, mishaps>>
           \/ /\ c # None /\ PortChannel[port[c]] \in audience /\ Writable(c)
              /\ mishaps' = mishaps \cup Misdirected(c)
              /\ UNCHANGED <<bpc, sock, connected>>
           \/ /\ c # None /\ PortChannel[port[c]] \in audience /\ ~ Writable(c)
              /\ CloseSocket(c) /\ bpc' = "stuck" /\ UNCHANGED mishaps
    /\ UNCHANGED <<audience, callbacks>> /\ CbRest

\* ... and releases both mutexes
NotifyDone ==
    /\ bpc = "notify" /\ todo = {} /\ bpc' = "idle" /\ audience' = {}
    /\ UNCHANGED <<sock, connected, todo, callbacks, mishaps>> /\ CbRest

CbStep == /\ ~ Crashed
          /\ CbChannel \/ CbSynchronize \/ NotifyLock \/ NotifyNext \/ NotifyDone

-----------------------------------------------------------------------------
(***************************************************************************)
(* Messages from the link, and the assembly thread that forwards them.     *)
(***************************************************************************)
AsmKeeps == UNCHANGED <<app, port, fd, object, cpc, disconnectedClients, open_ports,
                        daemonVars, cbVars>>
AsmRest == AsmKeeps /\ UNCHANGED lost

\* The last packet of a message is accepted for an open port (RxModule)
Arrive(p) ==
    /\ messages < MaxMessages /\ messages' = messages + 1
    /\ RxMutexFree /\ p \in open_ports /\ \A m \in inbox : m.port # p
    /\ inbox' = inbox \cup {[port |-> p, owner |-> IF PortBusy(p) THEN clients[p]
                                                                  ELSE None]}
    /\ UNCHANGED <<sock, connected, clients, apc, msg, mishaps>> /\ AsmRest

\* getNextCompleteMessage: the lowest port that has one
TakeMessage ==
    /\ apc = "idle" /\ RxMutexFree /\ inbox # {}
    /\ msg' = CHOOSE m \in inbox : m.port = Lowest({n.port : n \in inbox})
    /\ inbox' = inbox \ {msg'} /\ apc' = "forward"
    /\ UNCHANGED <<sock, connected, clients, messages, mishaps>> /\ AsmRest

\* getNextCompleteMessage loses rx_mutex: it returns an error for port 0 with
\* the mutex locked, or waits in the cycle of RxModule with the callback thread
AsmLosesMutex ==
    /\ apc = "idle" /\ RxMutexFree /\ inbox # {} /\ lost' = lost \cup {"rx"}
    /\ apc' \in {"error", "blocked"}
    /\ UNCHANGED <<sock, connected, clients, msg, inbox, messages, mishaps>> /\ AsmKeeps

\* cli = clients[port]: an entry is made if there is none, and the message is
\* dropped; else it is written to the client's socket.  After an error there is
\* nothing to write, and a write of no bytes counts as a failure
Forward ==
    /\ apc \in {"forward", "error"} /\ ClientsMutexFree
    /\ msg' = NoMessage
    /\ LET p == IF apc = "error" THEN 0 ELSE msg.port
           written == apc = "forward" /\ Writable(clients[p])
       IN  \/ /\ ~ PortBusy(p) /\ apc' = "idle"
              /\ clients' = With(clients, p, None)
              /\ UNCHANGED <<sock, connected, mishaps>>
           \/ /\ PortBusy(p) /\ written /\ apc' = "idle"
              /\ mishaps' = mishaps \cup Misdirected(clients[p])
                    \cup (IF msg.owner # clients[p] THEN {"inherited"} ELSE {})
              /\ UNCHANGED <<sock, connected, clients>>
           \/ /\ PortBusy(p) /\ ~ written /\ apc' = "stuck"
              /\ CloseSocket(clients[p])
              /\ UNCHANGED <<clients, mishaps>>
    /\ UNCHANGED <<inbox, messages>> /\ AsmRest

AsmStep == ~ Crashed /\ (TakeMessage \/ Forward)

Environment ==
    /\ ~ Crashed
    /\ \/ \E c \in Conns : \/ AppConfigures(c) \/ AppCloses(c)
                           \/ CorruptLength(c) \/ SendBlocks(c)
       \/ \E p \in Ports : Accept(p) \/ Arrive(p)
       \/ AsmLosesMutex \/ LinkUp \/ PeerSync
       \/ \E ch \in Channels : BufferEmpty(ch)

Next == Environment \/ DaemonStep \/ CbStep \/ AsmStep \/ \E c \in Conns : ThreadStep(c)

Spec == Init /\ [][Next]_vars

(***************************************************************************)
(* Threads take the steps they can take, and the read of a configuration   *)
(* returns after its timeout.  Nothing is assumed of applications or of    *)
(* the link.                                                               *)
(***************************************************************************)
Fairness == /\ WF_vars(DaemonStep) /\ WF_vars(CbStep) /\ WF_vars(AsmStep)
            /\ \A c \in Conns : WF_vars(ThreadStep(c))

FairSpec == Spec /\ Fairness

-----------------------------------------------------------------------------
(***************************************************************************)
(* Properties.                                                             *)
(***************************************************************************)
DaemonLabels == {"accept", "cleanup", "sweep", "join", "stuck", "config", "check",
                 "answer", "create", "register", "openPort", "sync", "blocked"}
ThreadLabels == {"none", "run", "blocked", "report", "closePort", "done"}
CbLabels == {"idle", "linkSync", "peerSync", "channel", "table", "notify", "stuck",
             "blocked", "crashed"}
AsmLabels == {"idle", "forward", "error", "stuck", "blocked"}

\* Ports that may be in the table: an error of RxModule reports port 0
TablePorts == Ports \cup {0}

\* Every variable has its type; the table maps ports to clients or null.
TypeOK ==
    /\ sock \in [Fds -> Conns \cup {None}]
    /\ app \in [Conns -> {"none", "silent", "open", "left", "closed"}]
    /\ port \in [Conns -> Ports \cup {None}] /\ fd \in [Conns -> Fds \cup {None}]
    /\ connected \in [Conns -> BOOLEAN]
    /\ object \in [Conns -> {"none", "live", "deleted"}]
    /\ cpc \in [Conns -> ThreadLabels]
    /\ DOMAIN clients \subseteq TablePorts /\ Range(clients) \subseteq Conns \cup {None}
    /\ disconnectedClients \in Seq(Ports) /\ open_ports \subseteq Ports
    /\ dpc \in DaemonLabels /\ cur \in 0 .. MaxConns
    /\ sweep \in Seq(Ports) /\ victim \in Conns \cup {None}
    /\ bpc \in CbLabels /\ audience \subseteq Channels /\ todo \subseteq TablePorts
    /\ apc \in AsmLabels /\ lost \subseteq {"rx", "tx"}

\* cleanupClients never finds a client that is still connected: a port in
\* disconnectedClients always stands for the client that reported it, never
\* for the next owner of the port.  So kill does not call closeConnection,
\* whose callback would wait for the clients_mutex that cleanupClients holds.
SweptIsDisconnected == dpc # "stuck"

\* A deleted Client is neither in the table nor used by its own thread, which
\* still reads its port after reporting the end of the connection.
NoDanglingClient ==
    \A c \in Conns : object[c] = "deleted" =>
        c \notin Range(clients) /\ cpc[c] = "done"

\* Two connected clients never have the same port (the test of the handshake,
\* the registration in the constructor and the removal in cleanupClients).
OneOwnerPerPort ==
    \A c, d \in Conns : connected[c] /\ connected[d] /\ port[c] = port[d] => c = d

\* The port of a connected client is open once onConnected has opened it: the
\* closePort of an earlier client of the port, which comes after that client
\* was reported, never comes that late.
ConnectedIsOpen ==
    \A c \in Conns : connected[c] /\ ~ (cur = c /\ dpc \in {"register", "openPort"})
        => port[c] \in open_ports

\* Each open descriptor belongs to the connection at hand or to a connected
\* client, and each connected client has its own: no error path of the
\* handshake leaks a socket, and the client thread, the callback thread and
\* the assembly thread, which may all close a connection, never close the
\* descriptor that the next connection has got in between.
SocketsOwned ==
    /\ \A f \in Fds : sock[f] # None =>
         \/ connected[sock[f]]
         \/ sock[f] = cur /\ dpc \in {"cleanup", "sweep", "join", "config", "check",
                                      "answer", "create"}
    /\ \A c \in Conns : connected[c] => sock[fd[c]] = c

\* A thread waits for a clients_mutex that it holds itself
SelfDeadlock == bpc = "stuck" \/ apc = "stuck"

\* cleanupClients holds clients_mutex and joins a client thread, which waits
\* for rx_mutex, whose owner waits for clients_mutex
JoinCycle == dpc = "join" /\ cpc[victim] = "closePort"
             /\ bpc \in {"linkSync", "peerSync", "table"}

\* rx_mutex is lost, or held by a callback that waits for the lost tx_mutex
RxMutexGone == "rx" \in lost \/ ("tx" \in lost /\ bpc = "channel")

\* A lost mutex stops the daemon: a synchronizeStatus waits with clients_mutex,
\* openPort waits, or cleanupClients joins a thread whose closePort waits
LostMutexWait == \/ dpc = "blocked" \/ bpc = "blocked"
                 \/ RxMutexGone /\ dpc = "openPort"
                 \/ RxMutexGone /\ dpc = "join" /\ cpc[victim] = "closePort"

\* The daemon comes back to accept from every connection, whatever the
\* application does during the handshake, unless a failing write has locked
\* up the table, the join is part of a cycle, a step of the handshake needs a
\* mutex that is lost, or the process has crashed.
HandshakeEnds ==
    dpc = "cleanup" ~> (dpc = "accept" \/ SelfDeadlock \/ JoinCycle \/ LostMutexWait
                        \/ Crashed)

-----------------------------------------------------------------------------
(***************************************************************************)
(* What comments of the repository say and the code does not do.           *)
(***************************************************************************)
\* A thread that writes to a client which was disconnected by force goes on
\* ("Ignore sigpipe signal in case a thread receives a forced disconnection").
NoSelfDeadlock == ~ SelfDeadlock

\* cleanupClients only waits for threads that can finish ("Just waiting for
\* thread to finish").
NoJoinCycle == ~ JoinCycle

\* A message for a port without a client is dropped and nothing else happens.
NoNullClient == ~ Crashed

\* What is written for a client reaches the application of that client.
WritesReachOwner == "misdirected" \notin mishaps

\* A client only gets messages that arrived for it, not for an earlier client
\* of its port.
NothingInherited == "inherited" \notin mishaps
=============================================================================
