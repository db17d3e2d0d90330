------------------------------ MODULE TxModule ------------------------------
(***************************************************************************)
(* The transmission half of S3TP: the client threads that fragment a       *)
(* message and enqueue its packets (S3TP.cpp, TxModule::enqueuePacket,     *)
(* Buffer::write), the transmission thread (TxModule::txRoutine), the link *)
(* layer's callback thread (S3TP::onLinkStatusChanged and friends) and     *)
(* S3TP::stop.                                                             *)
(*                                                                         *)
(* One action is one critical section, or the code between two of them.    *)
(* A mutex that is taken and released within one action needs no state.    *)
(* Two are held across actions: tx_mutex by the transmission thread while  *)
(* it calls into the Buffer, and buffer_mutex by a client inside           *)
(* Buffer::write, where comparePriority takes tx_mutex.  Who holds them    *)
(* follows from the program counters (TxMutexFree, BufferMutexFree).       *)
(*                                                                         *)
(* The link layer (getLinkStatus, getBufferFull, sendFrame) is external.   *)
(* Ghost state, never read by the guards of the program: enq, wire, last,  *)
(* initReq, refused, missed (a packet was announced between the test and   *)
(* the wait of the transmission thread, which has not looked at the buffer *)
(* since) and linkMissed (the same for the signal of the link, until the   *)
(* thread tests the link again).                                           *)
(***************************************************************************)
EXTENDS PacketQueue, FiniteSets

CONSTANTS
    Ports,            \* ports with a client; one client thread each
    PortChannel,      \* virtual channel each client configured
    VirtualChannels,  \* S3TP_VIRTUAL_CHANNELS
    MaxQueueSize,     \* MAX_QUEUE_SIZE, compared with a number of packets
    MaxFragments,     \* DEFAULT_MAX_FRAGMENTS, packets of one message
    MaxPackets,       \* bound: packets a client enqueues in all
    MaxBacklog,       \* bound: packets a client has enqueued and not sent
    MaxEvents         \* bound: link, channel, peer, stop and spurious events

SyncChannel == 0  \* DEFAULT_SYNC_CHANNEL

ASSUME PortsAssumption == Ports \subseteq Nat /\ Ports # {}
ASSUME ChannelAssumption ==
    /\ VirtualChannels \in Nat /\ VirtualChannels > 1
    /\ PortChannel \in [Ports -> 0 .. VirtualChannels - 1]
\* 2^8 < 2^16 < capacity: a queue's 16-bit size never reaches the capacity
ASSUME WidthAssumption ==
    /\ SeqMod < SizeMod /\ SizeMod < MaxQueueCapacity
    /\ MaxQueueSize \in Nat /\ MaxQueueCapacity <= MaxQueueSize
ASSUME BoundsAssumption ==
    /\ MaxFragments \in Nat /\ MaxFragments > 0
    /\ MaxPackets \in Nat /\ MaxBacklog \in Nat /\ MaxEvents \in Nat

VARIABLES
    \* TxModule
    active, state, channel_blacklist, sendingFragments, currentPort,
    scheduled_sync, syncId, port_sequence, to_consume_port_seq,
    global_seq_num,
    queue, packet_counter,    \* outBuffer: a queue and a key per port
    txpc, txPkt,              \* transmission thread and its local packet
    \* client threads: S3TP::sendToLinkLayer .. TxModule::enqueuePacket
    cpc, frags, fragment, dataPtr, pkt,
    \* S3TP, link layer and its callback thread
    stoppc, clients, link, chFull, cbpc, events,
    \* ghosts
    enq, wire, last, initReq, refused, missed, linkMissed

txVars == <<active, state, channel_blacklist, sendingFragments, currentPort,
            port_sequence, to_consume_port_seq, global_seq_num, txPkt>>
syncVars == <<scheduled_sync, syncId, initReq, linkMissed>>
bufVars == <<queue, packet_counter>>
cliVars == <<cpc, frags, fragment, dataPtr, pkt, enq>>
envVars == <<stoppc, clients, link, chFull, cbpc, events>>
wireVars == <<wire, last, missed>>
vars == <<txVars, syncVars, bufVars, cliVars, envVars, wireVars, txpc, refused>>

Initiator == "INITIATOR"  \* S3TP_SYNC_INITIATOR
Ack == "ACK"              \* S3TP_SYNC_ACK

(***************************************************************************)
(* n is a ghost: the unwrapped number of the packet on its port, 1, 2, ... *)
(* chunk tells which LEN_S3TP_PDU-sized piece of the message it carries.   *)
(***************************************************************************)
Packet == [port : Ports, seq : SeqNums, sub : Nat, more : BOOLEAN,
           chunk : Nat, n : Nat, gseq : SeqNums]

NoPacket(p) == [port |-> p, seq |-> 0, sub |-> 0, more |-> FALSE,
                chunk |-> 0, n |-> 0, gseq |-> SeqMod - 1]

TxMutexFree == txpc \notin {"sync", "blacklist", "avail", "pop", "sleep"}
BufferMutexFree == \A p \in Ports : cpc[p] # "compare"
\* S3TP::stop keeps s3tp_mutex while it stops both modules
S3tpMutexFree == stoppc \notin {"stopRoutine", "join"}

\* Mutant of Signalled: the signal is forgotten
MutantNoSignal == txpc

\* pthread_cond_signal(&tx_cond): only the transmission thread waits on it
Signalled == IF txpc = "waiting" THEN "lock" ELSE txpc

Backlog(p) == enq[p] - Len(wire[p])

Init ==
    /\ active = TRUE            \* S3TP::init has called startRoutine
    /\ state = "WAITING"
    /\ channel_blacklist = {}
    /\ sendingFragments = FALSE
    /\ currentPort = 0
    /\ scheduled_sync = FALSE
    /\ syncId = Initiator
    /\ port_sequence = [p \in Ports |-> 0]
    /\ to_consume_port_seq = [p \in Ports |-> 0]
    /\ global_seq_num = 0
    /\ queue = [p \in Ports |-> << >>]
    /\ packet_counter = {}
    /\ txpc = "lock"
    /\ txPkt = NoPacket(CHOOSE p \in Ports : TRUE)
    /\ cpc = [p \in Ports |-> "idle"]
    /\ frags = [p \in Ports |-> 0]
    /\ fragment = [p \in Ports |-> 0]
    /\ dataPtr = [p \in Ports |-> 0]
    /\ pkt = [p \in Ports |-> NoPacket(p)]
    /\ stoppc = "running"
    /\ clients = {}
    /\ link \in BOOLEAN
    /\ chFull = FALSE
    /\ cbpc = "idle"
    /\ events = 0
    /\ enq = [p \in Ports |-> 0]
    /\ wire = [p \in Ports |-> << >>]
    /\ last = txPkt
    /\ initReq = FALSE
    /\ refused = {} /\ missed = FALSE /\ linkMissed = FALSE

-----------------------------------------------------------------------------
(***************************************************************************)
(* Client threads.                                                         *)
(***************************************************************************)
ClientUnchanged == UNCHANGED <<txVars, syncVars, envVars, wireVars>>

Goto(p, l) == cpc' = [cpc EXCEPT ![p] = l]

\* A code other than CODE_SUCCESS reaches the application as a NACK
Refuse(p) == /\ Goto(p, "idle")
             /\ refused' = refused \cup {p}

\* sendToLinkLayer for a message of k packets; it reads S3TP's active flag.
\* The connector does not send again until AVAILABLE has followed a NACK.
ClientSend(p, k) ==
    /\ cpc[p] = "idle" /\ p \notin refused
    /\ S3tpMutexFree
    /\ enq[p] + k <= MaxPackets
    /\ Backlog(p) + k <= MaxBacklog
    /\ \/ /\ stoppc = "running"
          /\ Goto(p, "state")
          /\ frags' = [frags EXCEPT ![p] = k]
          /\ fragment' = [fragment EXCEPT ![p] = 0]
          /\ dataPtr' = [dataPtr EXCEPT ![p] = 0]
          /\ UNCHANGED refused
       \/ /\ stoppc = "stopped" /\ Refuse(p)
          /\ UNCHANGED <<frags, fragment, dataPtr>>
    /\ UNCHANGED <<bufVars, pkt, enq, txpc>> /\ ClientUnchanged

\* checkTransmissionAvailability, first part: getCurrentState
CheckState(p) ==
    /\ cpc[p] = "state" /\ TxMutexFree
    /\ \/ state = "BLOCKED" /\ Refuse(p)
       \/ state # "BLOCKED" /\ Goto(p, "space") /\ UNCHANGED refused
    /\ UNCHANGED <<bufVars, frags, fragment, dataPtr, pkt, enq, txpc>>
    /\ ClientUnchanged

\* isQueueAvailable: the packets must fit, counted against MAX_QUEUE_SIZE
QueueAvailable(p) == Size(queue[p]) + frags[p] <= MaxQueueSize

CheckQueue(p) ==
    /\ cpc[p] = "space" /\ BufferMutexFree
    /\ IF QueueAvailable(p)
         THEN Goto(p, "channel") /\ UNCHANGED refused
         ELSE Refuse(p)
    /\ UNCHANGED <<bufVars, frags, fragment, dataPtr, pkt, enq, txpc>>
    /\ ClientUnchanged

\* isChannelAvailable, then the length check of sendToLinkLayer
CheckChannel(p) ==
    /\ cpc[p] = "channel" /\ TxMutexFree
    /\ \/ /\ PortChannel[p] \in channel_blacklist \/ frags[p] > MaxFragments
          /\ Refuse(p)
       \/ /\ PortChannel[p] \notin channel_blacklist /\ frags[p] <= MaxFragments
          /\ Goto(p, "header") /\ UNCHANGED refused
    /\ UNCHANGED <<bufVars, frags, fragment, dataPtr, pkt, enq, txpc>>
    /\ ClientUnchanged

\* dataPtr += written, where written counts all k + 1 packets so far
AdvancedPtr(ptr, k) == ptr + k + 1

\* enqueuePacket under tx_mutex: the port sequence is taken here, the packet
\* is written to the buffer only after tx_mutex is released.  fragmentPayload
\* has just advanced dataPtr by everything written so far.
EnqueueHeader(p) ==
    /\ cpc[p] = "header" /\ TxMutexFree
    /\ \/ /\ ~ active /\ Refuse(p)
          /\ UNCHANGED <<fragment, dataPtr, pkt, enq, port_sequence>>
       \/ /\ active
          /\ Goto(p, "write")
          /\ pkt' = [pkt EXCEPT ![p] =
                [port |-> p, seq |-> port_sequence[p], sub |-> fragment[p],
                 more |-> fragment[p] + 1 < frags[p], chunk |-> dataPtr[p],
                 n |-> enq[p] + 1, gseq |-> 0]]
          /\ port_sequence' = [port_sequence EXCEPT ![p] = Inc(@)]
          /\ fragment' = [fragment EXCEPT ![p] = @ + 1]
          /\ dataPtr' = [dataPtr EXCEPT ![p] = AdvancedPtr(@, fragment[p])]
          /\ enq' = [enq EXCEPT ![p] = @ + 1]
          /\ UNCHANGED refused
    /\ UNCHANGED <<active, state, channel_blacklist, sendingFragments,
                   currentPort, to_consume_port_seq, global_seq_num, txPkt,
                   syncVars, bufVars, frags, envVars, wireVars, txpc>>

\* Buffer::write: an empty list takes the packet without a comparison
WriteLock(p) ==
    /\ cpc[p] = "write" /\ BufferMutexFree
    /\ \/ /\ queue[p] = << >>
          /\ queue' = [queue EXCEPT ![p] = <<pkt[p]>>]
          /\ packet_counter' = packet_counter \cup {p}
          /\ Goto(p, "signal")
       \/ /\ queue[p] # << >>
          /\ Goto(p, "compare")
          /\ UNCHANGED bufVars
    /\ UNCHANGED <<frags, fragment, dataPtr, pkt, enq, txpc, refused>>
    /\ ClientUnchanged

\* push holds buffer_mutex and compares under tx_mutex.  While a client is
\* here nobody pops this queue, so the comparisons of one push agree.
WriteCompare(p) ==
    /\ cpc[p] = "compare" /\ TxMutexFree
    /\ queue' = [queue EXCEPT ![p] = Push(@, pkt[p], to_consume_port_seq[p])]
    /\ packet_counter' = IF IsFull(queue[p]) THEN packet_counter
                                             ELSE packet_counter \cup {p}
    /\ Goto(p, "signal")
    /\ UNCHANGED <<frags, fragment, dataPtr, pkt, enq, txpc, refused>>
    /\ ClientUnchanged

SignalRest(p) ==
    /\ Goto(p, IF fragment[p] < frags[p] THEN "header" ELSE "idle")
    /\ pkt' = [pkt EXCEPT ![p] = NoPacket(p)]
    /\ UNCHANGED <<bufVars, frags, fragment, dataPtr, enq, refused, txVars, syncVars,
                   envVars, wire, last>>

\* Mutant of SignalTx: the transmission thread is not signalled
MutantSignalNobody(p) ==
    cpc[p] = "signal" /\ SignalRest(p) /\ UNCHANGED <<txpc, missed>>

\* The condition is signalled without tx_mutex, then the next fragment starts
SignalTx(p) ==
    /\ cpc[p] = "signal"
    /\ txpc' = Signalled
    /\ missed' = (missed \/ txpc = "sleep")
    /\ SignalRest(p)

ClientStep(p) ==
    \/ CheckState(p) \/ CheckQueue(p) \/ CheckChannel(p)
    \/ EnqueueHeader(p) \/ WriteLock(p) \/ WriteCompare(p) \/ SignalTx(p)

-----------------------------------------------------------------------------
(***************************************************************************)
(* The transmission thread, txRoutine.                                     *)
(***************************************************************************)
TxUnchanged == UNCHANGED <<cliVars, envVars>>

\* pthread_mutex_lock, the loop condition and the link and channel tests
TxCheck ==
    /\ txpc = "lock"
    /\ \/ /\ ~ active
          /\ txpc' = "done" /\ UNCHANGED state
       \/ /\ active
          /\ ~ link \/ Cardinality(channel_blacklist) >= VirtualChannels
          /\ state' = "BLOCKED" /\ txpc' = "sleep"
       \/ /\ active /\ link
          /\ Cardinality(channel_blacklist) < VirtualChannels
          /\ txpc' = IF scheduled_sync /\ SyncChannel \notin channel_blacklist
                        THEN "sync" ELSE "avail"
          /\ UNCHANGED state
    /\ linkMissed' = FALSE
    /\ UNCHANGED <<active, channel_blacklist, sendingFragments, currentPort,
                   port_sequence, to_consume_port_seq, global_seq_num, txPkt,
                   scheduled_sync, syncId, initReq, bufVars, wireVars, refused>>
    /\ TxUnchanged

\* Sync has priority and carries syncId and port_sequence as they are now,
\* unless the link layer says that channel 0 is full ...
TxSync ==
    /\ txpc = "sync"
    /\ \/ /\ chFull /\ txpc' = "blacklist"
          /\ UNCHANGED syncVars
       \/ /\ ~ chFull /\ txpc' = "avail"
          /\ scheduled_sync' = FALSE /\ initReq' = FALSE
          /\ UNCHANGED <<syncId, linkMissed>>
    /\ UNCHANGED <<txVars, bufVars, wireVars, refused>>
    /\ TxUnchanged

\* ... then it is blacklisted.  tx_mutex is held since the test, which does
\* not keep the link layer from draining the channel in between.
TxBlacklist ==
    /\ txpc = "blacklist" /\ txpc' = "avail"
    /\ channel_blacklist' = channel_blacklist \cup {SyncChannel}
    /\ UNCHANGED <<active, state, sendingFragments, currentPort, port_sequence,
                   to_consume_port_seq, global_seq_num, txPkt, syncVars, bufVars,
                   wireVars, refused>>
    /\ TxUnchanged

AvailRest == UNCHANGED <<active, channel_blacklist, sendingFragments, currentPort,
                         port_sequence, to_consume_port_seq, global_seq_num, txPkt,
                         syncVars, bufVars, wire, last, refused>>

\* Mutant of TxAvail: an empty buffer does not end the state BLOCKED
MutantAvailKeepsState ==
    /\ txpc = "avail" /\ BufferMutexFree
    /\ \/ packet_counter = {} /\ txpc' = "sleep" /\ UNCHANGED state
       \/ packet_counter # {} /\ state' = "RUNNING" /\ txpc' = "pop"
    /\ missed' = FALSE /\ AvailRest
    /\ TxUnchanged

\* outBuffer->packetsAvailable() under both mutexes
TxAvail ==
    /\ txpc = "avail" /\ BufferMutexFree
    /\ \/ /\ packet_counter = {}
          /\ state' = "WAITING" /\ txpc' = "sleep"
       \/ /\ packet_counter # {}
          /\ state' = "RUNNING" /\ txpc' = "pop"
    /\ missed' = FALSE /\ AvailRest
    /\ TxUnchanged

\* popPacketInternal returns a packet: not empty, head on a valid channel
Poppable(p) == ~ IsEmpty(queue[p]) /\ PortChannel[p] \notin channel_blacklist

\* Mutant of Candidates: any port may go on, even within a message
MutantAnyCandidate == {p \in packet_counter : Poppable(p)}

\* getNextPacket(currentPort) within a message, else getNextAvailablePacket,
\* which walks the keys of packet_counter in ascending order
Candidates ==
    IF sendingFragments
      THEN {p \in Ports : p = currentPort /\ Poppable(p)}
      ELSE {p \in packet_counter : Poppable(p)}

NextPort(p) == p \in Candidates /\ \A o \in Candidates : p <= o

\* packet == NULL
TxBlocked ==
    /\ txpc = "pop" /\ BufferMutexFree
    /\ Candidates = {}
    /\ state' = "BLOCKED" /\ txpc' = "sleep"
    /\ UNCHANGED <<active, channel_blacklist, sendingFragments, currentPort,
                   port_sequence, to_consume_port_seq, global_seq_num, txPkt,
                   syncVars, bufVars, wireVars, refused>>
    /\ TxUnchanged

\* The packet leaves the buffer, is numbered, and tx_mutex is released
TxPop(p) ==
    /\ txpc = "pop" /\ BufferMutexFree
    /\ NextPort(p)
    /\ txPkt' = [Head(queue[p]) EXCEPT !.gseq = global_seq_num]
    /\ queue' = [queue EXCEPT ![p] = Tail(@)]
    /\ packet_counter' = IF IsEmpty(Tail(queue[p])) THEN packet_counter \ {p}
                                                   ELSE packet_counter \cup {p}
    /\ currentPort' = p
    /\ sendingFragments' = Head(queue[p]).more
    /\ global_seq_num' = IF Head(queue[p]).more THEN global_seq_num
                                                ELSE Inc(global_seq_num)
    /\ to_consume_port_seq' = [to_consume_port_seq EXCEPT ![p] = Inc(@)]
    /\ txpc' = "send"
    /\ UNCHANGED <<active, state, channel_blacklist, port_sequence, syncVars,
                   wireVars, refused>>
    /\ TxUnchanged

\* linkInterface->sendFrame; its result is not looked at
TxSend ==
    /\ txpc = "send" /\ txpc' = "size"
    /\ wire' = [wire EXCEPT ![txPkt.port] = Append(@, txPkt)]
    /\ last' = txPkt
    /\ UNCHANGED <<txVars, syncVars, bufVars, refused, missed>>
    /\ TxUnchanged

\* The client would be told AVAILABLE if the queue was full until now.
\* statusInterface is never initialised, so the call may not happen.
TxQueueSize ==
    /\ txpc = "size" /\ BufferMutexFree
    /\ txpc' = "lock"
    /\ refused' \in IF Size(queue[txPkt.port]) + 1 = MaxQueueSize
                       THEN {refused, refused \ {txPkt.port}} ELSE {refused}
    /\ UNCHANGED <<txVars, syncVars, bufVars, wireVars>>
    /\ TxUnchanged

\* pthread_cond_wait releases tx_mutex and waits
TxSleep ==
    /\ txpc = "sleep" /\ txpc' = "waiting"
    /\ UNCHANGED <<txVars, syncVars, bufVars, wireVars, refused>>
    /\ TxUnchanged

TxStep ==
    \/ TxCheck \/ TxSync \/ TxBlacklist \/ TxAvail \/ TxBlocked
    \/ \E p \in Ports : TxPop(p)
    \/ TxSend \/ TxQueueSize \/ TxSleep

-----------------------------------------------------------------------------
(***************************************************************************)
(* Link layer (external), its callback thread, the daemon and S3TP::stop.  *)
(* RxModule serialises the callbacks with rx_mutex; cbpc is what the one   *)
(* callback thread still has to do.                                        *)
(***************************************************************************)
EnvEvent == events < MaxEvents /\ events' = events + 1

CbUnchanged == UNCHANGED <<active, state, sendingFragments, currentPort,
                           port_sequence, to_consume_port_seq,
                           global_seq_num, txPkt, bufVars, cliVars,
                           wireVars, stoppc>>
NoSyncChange == UNCHANGED <<scheduled_sync, syncId, initReq, linkMissed>>

\* Mutant of ScheduleSync: runs without tx_mutex
MutantScheduleUnlocked(id) ==
    /\ scheduled_sync' = TRUE
    /\ syncId' = id
    /\ initReq' = (initReq \/ id = Initiator)
    /\ txpc' = Signalled /\ UNCHANGED linkMissed

\* scheduleSync: one pending request, a later one overwrites the id
ScheduleSync(id) ==
    /\ TxMutexFree
    /\ scheduled_sync' = TRUE
    /\ syncId' = id
    /\ initReq' = (initReq \/ id = Initiator)
    /\ txpc' = Signalled /\ UNCHANGED linkMissed

\* The link goes down: onLinkStatusChanged(false) changes nothing in TX
LinkDown ==
    /\ link /\ link' = FALSE /\ cbpc = "idle" /\ EnvEvent
    /\ UNCHANGED <<channel_blacklist, chFull, cbpc, clients, txpc, refused>>
    /\ NoSyncChange /\ CbUnchanged

LinkUp ==
    /\ ~ link /\ link' = TRUE
    /\ cbpc = "idle" /\ cbpc' = "linkUp"
    /\ UNCHANGED <<channel_blacklist, chFull, events, clients, txpc, refused>>
    /\ NoSyncChange /\ CbUnchanged

\* notifyLinkAvailability signals without tx_mutex
CbLinkUp ==
    /\ cbpc = "linkUp" /\ cbpc' = "linkSync"
    /\ txpc' = Signalled
    /\ linkMissed' = IF txpc = "sleep" THEN TRUE ELSE linkMissed
    /\ UNCHANGED <<channel_blacklist, link, chFull, events, clients, refused,
                   scheduled_sync, syncId, initReq>>
    /\ CbUnchanged

\* synchronizeStatus: only when some client is connected
SyncRequest(from, id, to) ==
    /\ cbpc = from /\ cbpc' = to
    /\ IF clients # {} THEN ScheduleSync(id)
                       ELSE NoSyncChange /\ UNCHANGED txpc
    /\ UNCHANGED <<channel_blacklist, link, chFull, events, clients, refused>>
    /\ CbUnchanged

CbLinkSync == SyncRequest("linkSync", Initiator, "linkNotify")

\* onSynchronization answers the peer's initial sync
CbPeerSync == SyncRequest("peerSync", Ack, "idle")

\* notifyAvailabilityToClients
CbLinkNotify ==
    /\ cbpc = "linkNotify" /\ cbpc' = "idle"
    /\ refused' = refused \ clients
    /\ UNCHANGED <<channel_blacklist, link, chFull, events, clients, txpc>>
    /\ NoSyncChange /\ CbUnchanged

PeerSync ==
    /\ cbpc = "idle" /\ cbpc' = "peerSync" /\ EnvEvent
    /\ UNCHANGED <<channel_blacklist, link, chFull, clients, txpc, refused>>
    /\ NoSyncChange /\ CbUnchanged

\* The link layer's buffer of channel 0 fills up, and drains again
ChannelFills ==
    /\ ~ chFull /\ chFull' = TRUE /\ EnvEvent
    /\ UNCHANGED <<channel_blacklist, link, cbpc, clients, txpc, refused>>
    /\ NoSyncChange /\ CbUnchanged

ChannelDrains ==
    /\ chFull /\ chFull' = FALSE
    /\ cbpc = "idle" /\ cbpc' = "bufferEmpty"
    /\ UNCHANGED <<channel_blacklist, link, events, clients, txpc, refused>>
    /\ NoSyncChange /\ CbUnchanged

\* Mutant of Whitelisted: the channel is never taken off the blacklist
MutantNotWhitelisted(c) == channel_blacklist

\* setChannelAvailable(channel, true)
Whitelisted(c) == channel_blacklist \ {c}

\* Mutant of CbBufferEmpty: setChannelAvailable does not lock tx_mutex
MutantWhitelistUnlocked ==
    /\ cbpc = "bufferEmpty" /\ cbpc' = "channelNotify"
    /\ channel_blacklist' = Whitelisted(SyncChannel)
    /\ txpc' = Signalled
    /\ UNCHANGED <<link, chFull, events, clients, refused>>
    /\ NoSyncChange /\ CbUnchanged

\* onChannelStatusChanged(0, true): setChannelAvailable ...
CbBufferEmpty ==
    /\ cbpc = "bufferEmpty" /\ cbpc' = "channelNotify" /\ TxMutexFree
    /\ channel_blacklist' = Whitelisted(SyncChannel)
    /\ txpc' = Signalled
    /\ UNCHANGED <<link, chFull, events, clients, refused>>
    /\ NoSyncChange /\ CbUnchanged

\* ... then AVAILABLE to the clients of the channel
CbChannelNotify ==
    /\ cbpc = "channelNotify" /\ cbpc' = "idle"
    /\ refused' = {p \in refused :
                     p \notin clients \/ PortChannel[p] # SyncChannel}
    /\ UNCHANGED <<channel_blacklist, link, chFull, events, clients, txpc>>
    /\ NoSyncChange /\ CbUnchanged

\* onConnected (daemon thread); the client thread may already be sending
OnConnected(p) ==
    /\ p \notin clients /\ clients' = clients \cup {p}
    /\ ScheduleSync(Initiator)
    /\ UNCHANGED <<channel_blacklist, link, chFull, cbpc, events, refused>>
    /\ CbUnchanged

\* cleanupClients (daemon thread): the client thread has been joined, so it is
\* in no call.  A new client may take the port.
CleanupClient(p) ==
    /\ p \in clients /\ cpc[p] = "idle" /\ EnvEvent
    /\ clients' = clients \ {p} /\ refused' = refused \ {p}
    /\ UNCHANGED <<channel_blacklist, link, chFull, cbpc, txpc>>
    /\ NoSyncChange /\ CbUnchanged

\* pthread_cond_wait may return without a signal
SpuriousWakeup ==
    /\ txpc = "waiting" /\ txpc' = "lock" /\ EnvEvent
    /\ UNCHANGED <<channel_blacklist, link, chFull, cbpc, clients, refused>>
    /\ NoSyncChange /\ CbUnchanged

StopUnchanged == UNCHANGED <<state, channel_blacklist, sendingFragments,
                             currentPort, port_sequence, to_consume_port_seq,
                             global_seq_num, txPkt, syncVars, bufVars, cliVars,
                             clients, link, chFull, cbpc, wireVars, refused>>

\* S3TP::stop: s3tp_mutex and S3TP's active flag ...
StopBegin ==
    /\ stoppc = "running" /\ stoppc' = "stopRoutine" /\ EnvEvent
    /\ UNCHANGED <<active, txpc>> /\ StopUnchanged

\* Mutant of StopRoutine: clears active without taking tx_mutex
MutantStopUnlocked ==
    /\ stoppc = "stopRoutine" /\ stoppc' = "join"
    /\ active' = FALSE
    /\ txpc' = Signalled
    /\ UNCHANGED events /\ StopUnchanged

\* ... TxModule::stopRoutine ...
StopRoutine ==
    /\ stoppc = "stopRoutine" /\ stoppc' = "join" /\ TxMutexFree
    /\ active' = FALSE
    /\ txpc' = Signalled
    /\ UNCHANGED events /\ StopUnchanged

\* ... pthread_join(tx_thread)
StopJoin ==
    /\ stoppc = "join" /\ txpc = "done" /\ stoppc' = "stopped"
    /\ UNCHANGED <<active, txpc, events>> /\ StopUnchanged

CbStep == CbLinkUp \/ CbLinkSync \/ CbLinkNotify \/ CbPeerSync
          \/ CbBufferEmpty \/ CbChannelNotify

StopStep == StopRoutine \/ StopJoin

LinkEvent == LinkDown \/ LinkUp \/ PeerSync \/ ChannelFills \/ ChannelDrains

Next ==
    \/ \E p \in Ports : \/ \E k \in 1 .. MaxFragments + 1 : ClientSend(p, k)
                        \/ ClientStep(p)
                        \/ OnConnected(p) \/ CleanupClient(p)
    \/ TxStep \/ CbStep \/ LinkEvent
    \/ SpuriousWakeup \/ StopBegin \/ StopStep

Spec == Init /\ [][Next]_vars

(***************************************************************************)
(* Every thread that can take a step takes one: the operating system       *)
(* schedules them all and a free mutex goes to a waiter.  Nothing is       *)
(* assumed of the applications, the link, the peer or stop.                *)
(***************************************************************************)
Fairness ==
    /\ WF_vars(TxStep)
    /\ WF_vars(CbStep)
    /\ WF_vars(StopStep)
    /\ \A p \in Ports : WF_vars(ClientStep(p)) 

FairSpec == Spec /\ Fairness

-----------------------------------------------------------------------------
(***************************************************************************)
(* Properties.                                                             *)
(***************************************************************************)
TxLabels == {"lock", "sync", "blacklist", "avail", "pop", "send", "size", "sleep",
             "waiting", "done"}
ClientLabels == {"idle", "state", "space", "channel", "header", "write",
                 "compare", "signal"}
CbLabels == {"idle", "linkUp", "linkSync", "linkNotify", "peerSync",
             "bufferEmpty", "channelNotify"}

TypeTx ==
    /\ active \in BOOLEAN /\ txpc \in TxLabels
    /\ state \in {"RUNNING", "BLOCKED", "WAITING"}
    /\ channel_blacklist \subseteq {SyncChannel}
    /\ sendingFragments \in BOOLEAN /\ currentPort \in Nat

TypeSequences ==
    /\ port_sequence \in [Ports -> SeqNums]
    /\ to_consume_port_seq \in [Ports -> SeqNums]
    /\ global_seq_num \in SeqNums

TypeSync ==
    /\ scheduled_sync \in BOOLEAN /\ initReq \in BOOLEAN
    /\ linkMissed \in BOOLEAN
    /\ syncId \in {Initiator, Ack}

TypePackets ==
    /\ pkt \in [Ports -> Packet]
    /\ queue \in [Ports -> Seq(Packet)] /\ packet_counter \subseteq Ports
    /\ txPkt \in Packet
    /\ wire \in [Ports -> Seq(Packet)] /\ last \in Packet

TypeClient ==
    /\ cpc \in [Ports -> ClientLabels]
    /\ frags \in [Ports -> Nat] /\ fragment \in [Ports -> Nat]
    /\ dataPtr \in [Ports -> Nat] /\ enq \in [Ports -> Nat]

TypeEnv ==
    /\ stoppc \in {"running", "stopRoutine", "join", "stopped"}
    /\ clients \subseteq Ports /\ link \in BOOLEAN /\ chFull \in BOOLEAN
    /\ cbpc \in CbLabels /\ events \in Nat /\ refused \subseteq Ports

TypeMissed == missed \in BOOLEAN

\* Every variable has its type; the sequence counters stay within a uint8_t.
TypeOK == /\ TypeTx /\ TypeSequences /\ TypeSync
          /\ TypePackets /\ TypeClient /\ TypeEnv /\ TypeMissed

\* The packets of a port reach the link layer in the order in which they got
\* their port sequence, none lost and none twice, although the number wraps
\* and a packet is written to the buffer after tx_mutex was released
\* (enqueuePacket, comparePriority, txRoutine).
FifoPerPort ==
    \A p \in Ports : \A i \in 1 .. Len(wire[p]) : wire[p][i].n = i

\* Fragment number k of a message carries its k-th piece (fragmentPayload).
PayloadIntact ==
    \A p \in Ports : \A i \in 1 .. Len(wire[p]) :
        wire[p][i].chunk = wire[p][i].sub

\* The fragments of a message leave without packets of other ports between
\* them and share one global sequence number; the next message takes the
\* next number (the sendingFragments and currentPort rule of txRoutine).
FragmentsContiguous ==
    [][last' # last =>
         IF last.more
           THEN /\ last'.port = last.port /\ last'.sub = last.sub + 1
                /\ last'.gseq = last.gseq
           ELSE last'.sub = 0 /\ last'.gseq = Inc(last.gseq)]_vars

\* A blacklisted channel 0 is still full or its handleBufferEmpty callback is
\* on the way: a drain between getBufferFull and the blacklisting in txRoutine
\* never leaves the channel blocked for good, as setChannelAvailable waits for
\* the tx_mutex that txRoutine keeps.
BlacklistHasWaker ==
    SyncChannel \in channel_blacklist => chFull \/ cbpc = "bufferEmpty"

\* The transmission thread never waits while a sync is due that it could
\* send.  The unlocked signal of notifyLinkAvailability may fall between its
\* test and pthread_cond_wait, but the scheduleSync that follows makes up for
\* it, unless cleanupClients has removed the last client.
SyncNotForgotten ==
    txpc = "waiting" /\ scheduled_sync =>
        \/ ~ link
        \/ SyncChannel \in channel_blacklist
        \/ cbpc \in {"linkUp", "linkSync"}
        \/ linkMissed /\ clients = {}

\* After stopRoutine has cleared active the transmission thread never waits
\* on the condition again, so pthread_join is not held up by a lost signal.
StopNotForgotten == ~ active => txpc \notin {"sleep", "waiting"}

\* A client inside Buffer::write waits in comparePriority for tx_mutex while
\* the transmission thread holds it and waits for buffer_mutex.
LockCycle == txpc \in {"avail", "pop"} /\ \E p \in Ports : cpc[p] = "compare"

\* S3TP::stop returns, unless client and transmission thread are deadlocked.
StopTerminates == stoppc = "stopRoutine" ~> (stoppc = "stopped" \/ LockCycle)

\* While the link is up and channel 0 takes data, a scheduled sync is sent,
\* unless the signal of the link was lost and no client is left for whom
\* another sync would be scheduled, or the module is stopped or deadlocked.
SyncEventuallySent ==
    <>[](link /\ ~ chFull) =>
        (scheduled_sync ~> \/ ~ scheduled_sync \/ (linkMissed /\ clients = {})
                           \/ ~ active \/ LockCycle)

\* While the link is up and channel 0 takes data, everything a registered
\* client has enqueued is sent, unless the signal of a packet fell between
\* the test and the wait of txRoutine (enqueuePacket signals without
\* tx_mutex) or the module is stopped or deadlocked.
EnqueuedIsSent ==
    <>[](link /\ ~ chFull) =>
        \A p \in Ports : Backlog(p) > 0 ~>
            \/ Backlog(p) = 0 \/ p \notin clients \/ missed
            \/ ~ active \/ LockCycle

\* While the link is up and channel 0 takes data, the state BLOCKED, in which
\* every message is refused, does not last: the thread that set it is woken
\* when the reason has gone.  The same exceptions hold.
BlockedIsLeft ==
    <>[](link /\ ~ chFull) =>
        (state = "BLOCKED" ~> \/ state # "BLOCKED" \/ clients = {} \/ missed
                              \/ ~ active \/ LockCycle)

\* The transmitting half implements the abstract transport without losses: its
\* messages are the packets that got a port sequence number.
Transport ==
    INSTANCE OrderedDelivery WITH
        MaxLength <- 1, Lossy <- FALSE,
        messages <- [p \in Ports |-> [i \in 1 .. enq[p] |-> <<i>>]],
        handed <- [p \in Ports |-> [i \in 1 .. Len(wire[p]) |-> <<wire[p][i].n>>]]

\* Every step of TxModule is a step of the abstract transport or changes
\* nothing there: a packet reaches the link layer after it was numbered, in
\* the order of the numbers, none left out and none twice.
SendsInOrder == Transport!Spec

-----------------------------------------------------------------------------
(***************************************************************************)
(* What comments and tests of the repository say and the code does not do. *)
(***************************************************************************)
\* Client threads and the transmission thread do not block each other for
\* ever: the tests in debug.cpp join the application threads and then stop.
NoLockCycle == ~ LockCycle

\* The signal of an enqueued packet reaches the transmission thread before it
\* waits.
NoWakeupLost == ~ (missed /\ txpc = "waiting" /\ packet_counter # {})

\* A queue never holds more than MAX_QUEUE_CAPACITY packets: a message for a
\* full queue is refused (sendToLinkLayer).
QueueLimited == \A p \in Ports : Len(queue[p]) <= MaxQueueCapacity

\* When this side has asked for synchronisation, the sync packet it sends is
\* that of an initiator (S3TP_SYNC::syncId).
InitiatorAnnounced ==
    [][initReq /\ ~ initReq' => syncId = Initiator]_vars

\* A sync packet announces, per port, the sequence number of the packet that
\* leaves next on that port (what the receiver then waits for).
SyncMatchesWire ==
    [][scheduled_sync /\ ~ scheduled_sync' =>
         \A p \in Ports : port_sequence[p] = to_consume_port_seq[p]]_vars

\* A connected client that was refused is told AVAILABLE once the link is up
\* and takes data.
RefusedIsNotified ==
    <>[](link /\ ~ chFull) =>
        \A p \in Ports : p \in refused \cap clients ~> p \notin refused

\* getNextPacket returning NULL means that a channel is blocked (the comment
\* in txRoutine where state becomes BLOCKED).
BlockedByChannels == [][TxBlocked => channel_blacklist # {}]_vars
=============================================================================
