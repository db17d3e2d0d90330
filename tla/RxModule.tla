------------------------------ MODULE RxModule ------------------------------
(***************************************************************************)
(* The receiving half of S3TP: the link layer's callback thread            *)
(* (RxModule::handleFrame .. flushQueues, Buffer::write), the assembly     *)
(* thread (S3TP::assemblyRoutine, RxModule::getNextCompleteMessage), ports *)
(* opened and closed by clients, and S3TP::stop.                           *)
(*                                                                         *)
(* One action is one critical section, or the code between two of them.    *)
(* rx_mutex is held across actions by the assembly thread inside           *)
(* getNextCompleteMessage, buffer_mutex by the callback thread inside      *)
(* Buffer::write, where maximumWindowExceeded and comparePriority take     *)
(* rx_mutex, and s3tp_mutex by the assembly thread while it looks for work *)
(* and by stop.  The program counters say who holds them.  rx_mutex can    *)
(* outlive its owner's critical section (mutexLeaked), clients_mutex is    *)
(* kept for ever by a thread that closes a connection while it holds it    *)
(* and tx_mutex by the lock cycle of TxModule (lost).                      *)
(*                                                                         *)
(* The peer and the channel between the peers are external: net holds the  *)
(* frames in flight, of which the channel may lose some and deliver one of *)
(* the first Reordering.  Ghost state, never read by the guards of the     *)
(* program: the fields n, msg and g of a packet, messages, delivered,      *)
(* newest, missed (a message was announced between the test and the wait   *)
(* of the assembly thread, which has not looked again since) and disturbed *)
(* (ports of which a sync changed the sequence, a flush or the window the  *)
(* queue, or that got two packets of one number, since they were last      *)
(* announced).                                                             *)
(***************************************************************************)
EXTENDS PacketQueue, FiniteSets

SX == INSTANCE SequencesExt

CONSTANTS
    Ports,         \* ports in use
    Window,        \* RECEIVING_WINDOW_SIZE and MAX_REORDERING_WINDOW
    Reordering,    \* 1: the channel delivers in order
    MaxFragments,  \* bound: packets of one message
    MaxPackets,    \* bound: packets the peer sends on a port
    MaxAhead,      \* bound: packets sent on a port since the last one delivered
    MaxSyncs,      \* bound: sync packets the peer sends
    MaxLosses,     \* bound: frames lost or corrupted
    MaxEvents      \* bound: ports closed, stop, spurious wakeups, lost mutexes

ASSUME RxPortsAssumption == Ports \subseteq Nat /\ Ports # {}
ASSUME RxBoundsAssumption ==
    /\ Window \in Nat /\ Window > 0 /\ Window < SeqMod
    /\ Reordering \in Nat /\ Reordering > 0
    /\ MaxFragments \in Nat /\ MaxFragments > 0 /\ MaxPackets \in Nat
    /\ MaxAhead \in Nat /\ MaxSyncs \in Nat /\ MaxLosses \in Nat /\ MaxEvents \in Nat

VARIABLES
    \* RxModule
    active, open_ports, current_port_sequence, available_messages,
    receiving_window, to_consume_global_seq, lastReceivedGlobalSeq,
    queue, packet_counter,     \* inBuffer: a queue and a key per port
    mutexLeaked,               \* rx_mutex was left locked by a return
    rxpc, frame, flushPorts,   \* callback thread, its packet, ports to flush
    asmpc, asmPort, assembled, \* assembly thread, it->first, assembledData
    lost,                      \* mutexes of S3TP and TxModule held for ever
    stoppc,                    \* S3TP::stop
    net,                       \* frames on the way
    messages, peerGlobal,      \* what the peer sent, per port and in all
    syncs, losses, events,
    delivered, newest, missed, disturbed

rxVars == <<receiving_window, to_consume_global_seq, lastReceivedGlobalSeq>>
bufVars == <<queue, packet_counter>>
asmVars == <<asmPort, assembled, mutexLeaked, lost, delivered>>
netVars == <<net, messages, peerGlobal, syncs, losses, newest, missed>>
vars == <<active, open_ports, current_port_sequence, available_messages,
          disturbed, rxVars, bufVars, asmVars, rxpc, frame, flushPorts, asmpc,
          stoppc, netVars, events>>

(***************************************************************************)
(* A data packet: n counts the packets of the port, 1, 2, ..., msg is the  *)
(* number n of the first packet of its message, g the unwrapped global     *)
(* sequence.  A sync packet carries the next sequence of every port.       *)
(***************************************************************************)
DataPacket == [type : {"DATA"}, port : Ports, seq : SeqNums, sub : Nat,
               more : BOOLEAN, gseq : SeqNums, n : Nat, msg : Nat,
               g : Nat]
SyncPacket == [type : {"SYNC"}, port_seq : [Ports -> SeqNums],
               tx_global_seq : SeqNums]
NoFrame == [type |-> "NONE"]

RxMutexFree ==
    ~ mutexLeaked /\ asmpc \notin {"pop", "recheck"} /\ rxpc # "stuck"
BufferMutexFree == rxpc # "compare"
\* A stuck callback waits for clients_mutex, or holds it and waits for tx_mutex
ClientsMutexFree == "clients" \notin lost /\ rxpc # "stuck"
S3tpMutexFree == asmpc \notin {"check", "sleep"} /\ stoppc # "rx"

\* An assert or a NULL dereference ends the process: nobody takes a step
Aborted == rxpc = "aborted" \/ asmpc = "aborted"

\* pthread_cond_signal(&available_msg_cond): only the assembly thread waits
Signalled == IF asmpc = "waiting" THEN "lock" ELSE asmpc

Lowest(S) == CHOOSE p \in S : \A o \in S : p <= o

Init ==
    /\ active \in BOOLEAN        \* not initialised by the constructor
    /\ open_ports = {}
    /\ current_port_sequence = [p \in Ports |-> 0]
    /\ available_messages = {}
    /\ receiving_window = 0
    /\ to_consume_global_seq = 0
    /\ lastReceivedGlobalSeq = 0
    /\ queue = [p \in Ports |-> << >>]
    /\ packet_counter = {}
    /\ mutexLeaked = FALSE /\ lost = {}
    /\ rxpc = "idle"
    /\ frame = NoFrame
    /\ flushPorts = {}
    /\ asmpc = "notStarted"      \* S3TP::init has called transceiver->start()
    /\ asmPort = Lowest(Ports)
    /\ assembled = << >>
    /\ stoppc = "running"
    /\ net = << >>
    /\ messages = [p \in Ports |-> << >>]
    /\ peerGlobal = 0
    /\ syncs = 0 /\ losses = 0 /\ events = 0
    /\ delivered = [p \in Ports |-> << >>]
    /\ newest = 0 /\ missed = FALSE /\ disturbed = {}

-----------------------------------------------------------------------------
(***************************************************************************)
(* Peer and channel (external).  The peer sends the fragments of a message *)
(* one after the other under one global sequence, as TxModule does.        *)
(***************************************************************************)
NetRest ==
    /\ ~ Aborted
    /\ UNCHANGED <<active, open_ports, current_port_sequence, flushPorts,
                   available_messages, disturbed, rxVars, bufVars, asmVars, asmpc,
                   stoppc, events>>

\* The number n of the last packet of the port that reached the client
Consumed(p) ==
    IF delivered[p] = << >> THEN 0 ELSE SX!Last(SX!Last(delivered[p])).n

\* The number of the last packet the peer has enqueued
Sent(p) == IF messages[p] = << >> THEN 0 ELSE SX!Last(SX!Last(messages[p]))

PeerSend(p, k) ==
    /\ Sent(p) + k <= MaxPackets
    /\ Sent(p) + k <= Consumed(p) + MaxAhead
    /\ net' = net \o [i \in 1 .. k |->
         [type |-> "DATA", port |-> p, seq |-> (Sent(p) + i - 1) % SeqMod,
          sub |-> i - 1, more |-> i < k, gseq |-> peerGlobal % SeqMod,
          n |-> Sent(p) + i, msg |-> Sent(p) + 1, g |-> peerGlobal]]
    /\ messages' = [messages EXCEPT ![p] =
                       Append(@, [i \in 1 .. k |-> Sent(p) + i])]
    /\ peerGlobal' = peerGlobal + 1
    /\ UNCHANGED <<rxpc, frame, syncs, losses, newest, missed>>
    /\ NetRest

\* The global sequence of the data packet that leaves next after the first i
NextGlobal(i) ==
    LET later == {j \in i + 1 .. Len(net) : net[j].type = "DATA"}
    IN  IF later = {} THEN peerGlobal % SeqMod ELSE net[Lowest(later)].gseq

\* A sync packet announces the numbers after everything the peer has enqueued
\* and leaves ahead of what its transmission thread has not sent yet
PeerSync ==
    /\ syncs < MaxSyncs /\ syncs' = syncs + 1
    /\ \E i \in 0 .. Len(net) :
         net' = InsertAfter(net, i,
                  [type |-> "SYNC",
                   port_seq |-> [p \in Ports |-> Sent(p) % SeqMod],
                   tx_global_seq |-> NextGlobal(i)])
    /\ UNCHANGED <<rxpc, frame, messages, peerGlobal, losses, newest, missed>>
    /\ NetRest

Without(s, i) == SubSeq(s, 1, i - 1) \o SubSeq(s, i + 1, Len(s))

\* A frame is lost, or arrives damaged and fails verify_checksum
LoseFrame ==
    /\ losses < MaxLosses /\ losses' = losses + 1
    /\ \E i \in 1 .. Len(net) : net' = Without(net, i)
    /\ UNCHANGED <<rxpc, frame, messages, peerGlobal, syncs, newest, missed>>
    /\ NetRest

-----------------------------------------------------------------------------
(***************************************************************************)
(* Callback thread: handleFrame.                                           *)
(***************************************************************************)
RxRest ==
    /\ ~ Aborted
    /\ UNCHANGED <<active, open_ports, asmVars, stoppc, messages, peerGlobal, syncs,
                   losses, events>>

\* handleReceivedPacket: isActive, then dispatch on the type
RecvFrame ==
    /\ rxpc = "idle" /\ RxMutexFree
    /\ \E i \in 1 .. Len(net) :
         /\ i <= Reordering
         /\ net' = Without(net, i)
         /\ \/ ~ active /\ UNCHANGED <<rxpc, frame>>
            \/ /\ active /\ frame' = net[i]
               /\ rxpc' = IF net[i].type = "SYNC" THEN "sync" ELSE "port"
    /\ UNCHANGED <<current_port_sequence, available_messages, disturbed, rxVars,
                   bufVars, flushPorts, asmpc, newest, missed>>
    /\ RxRest

\* A zero in the sync packet leaves the port alone
Synchronized(sync) ==
    [p \in Ports |-> IF sync.port_seq[p] # 0 THEN sync.port_seq[p]
                                             ELSE current_port_sequence[p]]

\* synchronizeStatus.  It calls onSynchronization with rx_mutex held, which
\* takes clients_mutex and, when a client is connected, tx_mutex; what it does
\* there is in TxModule (CbPeerSync).
RecvSync ==
    /\ rxpc = "sync" /\ RxMutexFree
    /\ \/ "clients" \notin lost /\ rxpc' = "idle"
       \/ lost # {} /\ rxpc' = "stuck"
    /\ current_port_sequence' = Synchronized(frame)
    /\ lastReceivedGlobalSeq' = frame.tx_global_seq
    /\ disturbed' =
          disturbed \cup {p \in Ports :
                            current_port_sequence'[p] # current_port_sequence[p]}
    /\ frame' = NoFrame
    /\ UNCHANGED <<available_messages, receiving_window, to_consume_global_seq,
                   bufVars, flushPorts, asmpc, net, newest, missed>>
    /\ RxRest

\* isPortOpen: the packet of a closed port is dropped
RecvPort ==
    /\ rxpc = "port" /\ RxMutexFree
    /\ \/ /\ frame.port \in open_ports /\ active
          /\ rxpc' = "write" /\ UNCHANGED frame
       \/ /\ ~ (frame.port \in open_ports /\ active)
          /\ rxpc' = "idle" /\ frame' = NoFrame
    /\ UNCHANGED <<current_port_sequence, available_messages, disturbed, rxVars,
                   bufVars, flushPorts, asmpc, net, newest, missed>>
    /\ RxRest

\* Buffer::write: an empty queue takes the packet without rx_mutex
RecvWrite ==
    /\ rxpc = "write"
    /\ \/ /\ queue[frame.port] = << >>
          /\ queue' = [queue EXCEPT ![frame.port] = <<frame>>]
          /\ packet_counter' = packet_counter \cup {frame.port}
          /\ rxpc' = "complete"
       \/ /\ queue[frame.port] # << >>
          /\ rxpc' = "compare" /\ UNCHANGED bufVars
    /\ UNCHANGED <<current_port_sequence, available_messages, disturbed, rxVars,
                   frame, flushPorts, asmpc, net, newest, missed>>
    /\ RxRest

\* abs(newSeq - headSeq) > MAX_REORDERING_WINDOW
WindowExceeded(head, new) ==
    LET h == Rel(head.gseq, to_consume_global_seq)
        e == Rel(new.gseq, to_consume_global_seq)
    IN  (IF e >= h THEN e - h ELSE h - e) > Window

\* A queue out of the reordering window is cleared before the push.  While
\* buffer_mutex is held nobody else changes what maximumWindowExceeded and
\* comparePriority read, so one step stands for all their critical sections.
RecvCompare ==
    /\ rxpc = "compare" /\ rxpc' = "complete" /\ RxMutexFree
    /\ LET p == frame.port
           kept == IF WindowExceeded(Head(queue[p]), frame) THEN << >>
                                                           ELSE queue[p]
       IN  /\ queue' = [queue EXCEPT ![p] =
                          Push(kept, frame, current_port_sequence[p])]
           /\ packet_counter' = packet_counter \cup {p}
           /\ disturbed' = IF kept # queue[p]
                              \/ \E i \in 1 .. Len(kept) : kept[i].seq = frame.seq
                            THEN disturbed \cup {p} ELSE disturbed
    /\ UNCHANGED <<current_port_sequence, available_messages, rxVars, frame,
                   flushPorts, asmpc, net, newest, missed>>
    /\ RxRest

\* Mutant of CompleteMessage: only the packet at the tail can be the last one
MutantCompleteAtTail(q, cur) ==
    /\ q # << >> /\ ~ q[Len(q)].more /\ q[Len(q)].sub = Len(q) - 1
    /\ \A j \in 1 .. Len(q) : /\ q[j].seq = cur + (j - 1)
                             /\ q[j].more => q[j].sub = j - 1

\* isCompleteMessageForPortAvailable: walks the queue from its head.  The sum
\* current_port_sequence[port] + fragment is an int and does not wrap.
CompleteMessage(q, cur) ==
    \E k \in 1 .. Len(q) :
        /\ ~ q[k].more /\ q[k].sub = k - 1
        /\ \A j \in 1 .. k : /\ q[j].seq = cur + (j - 1)
                             /\ q[j].more => q[j].sub = j - 1

\* The highest global sequence received, as the code computes it: a relative
\* number is compared with an absolute one
HighestGlobal(gseq) ==
    LET relativeGlobSeq == Rel(gseq, to_consume_global_seq)
    IN  IF relativeGlobSeq < Window /\ relativeGlobSeq > lastReceivedGlobalSeq
          THEN gseq ELSE lastReceivedGlobalSeq

\* Mutant of RecvComplete: the assembly thread is not signalled
MutantCompleteSilent ==
    /\ rxpc = "complete" /\ RxMutexFree
    /\ available_messages' =
          IF CompleteMessage(queue[frame.port], current_port_sequence[frame.port])
            THEN available_messages \cup {frame.port} ELSE available_messages
    /\ disturbed' = disturbed \ (available_messages' \ available_messages)
    /\ lastReceivedGlobalSeq' = HighestGlobal(frame.gseq)
    /\ receiving_window' = receiving_window + 1
    /\ rxpc' = IF receiving_window + 1 >= Window THEN "flush" ELSE "idle"
    /\ frame' = NoFrame
    /\ UNCHANGED <<current_port_sequence, to_consume_global_seq, bufVars, asmpc,
                   flushPorts, net, newest, missed>>
    /\ RxRest

\* The rest of handleReceivedPacket: notify under rx_mutex, then count the
\* packet; these counters belong to the callback thread alone
RecvComplete ==
    /\ rxpc = "complete" /\ RxMutexFree
    /\ LET p == frame.port
       IN  IF CompleteMessage(queue[p], current_port_sequence[p])
             THEN /\ available_messages' = available_messages \cup {p}
                  /\ disturbed' = disturbed \ {p}
                  /\ asmpc' = Signalled
             ELSE UNCHANGED <<available_messages, disturbed, asmpc>>
    /\ lastReceivedGlobalSeq' = HighestGlobal(frame.gseq)
    /\ receiving_window' = receiving_window + 1
    /\ rxpc' = IF receiving_window + 1 >= Window THEN "flush" ELSE "idle"
    /\ newest' = IF frame.g > newest THEN frame.g ELSE newest
    /\ missed' = (missed \/ asmpc = "sleep")
    /\ frame' = NoFrame
    /\ UNCHANGED <<current_port_sequence, to_consume_global_seq, bufVars,
                   flushPorts, net>>
    /\ RxRest

FlushRest ==
    /\ UNCHANGED <<current_port_sequence, available_messages, frame, asmpc, net,
                   newest, missed>>
    /\ RxRest

\* flushQueues takes no rx_mutex: getActiveQueues ...
FlushQueues ==
    /\ rxpc = "flush" /\ rxpc' = "flushNext"
    /\ flushPorts' = packet_counter
    /\ UNCHANGED <<rxVars, bufVars, disturbed>> /\ FlushRest

\* ... then port by port isEmpty ...
FlushTest ==
    /\ rxpc = "flushNext" /\ flushPorts # {}
    /\ \/ /\ IsEmpty(queue[Lowest(flushPorts)])
          /\ flushPorts' = flushPorts \ {Lowest(flushPorts)}
          /\ UNCHANGED rxpc
       \/ /\ ~ IsEmpty(queue[Lowest(flushPorts)])
          /\ rxpc' = "flushPeek" /\ UNCHANGED flushPorts
    /\ UNCHANGED <<rxVars, bufVars, disturbed>> /\ FlushRest

TooOld(head) == Rel(head.gseq, to_consume_global_seq) >= Window

\* ... peek, which asserts that the queue is not empty ...
FlushPeek ==
    /\ rxpc = "flushPeek"
    /\ LET q == queue[Lowest(flushPorts)]
       IN  \/ /\ IsEmpty(q) /\ rxpc' = "aborted" /\ UNCHANGED flushPorts
           \/ /\ ~ IsEmpty(q) /\ TooOld(Head(q))
              /\ rxpc' = "flushClear" /\ UNCHANGED flushPorts
           \/ /\ ~ IsEmpty(q) /\ ~ TooOld(Head(q))
              /\ rxpc' = "flushNext"
              /\ flushPorts' = flushPorts \ {Lowest(flushPorts)}
    /\ UNCHANGED <<rxVars, bufVars, disturbed>> /\ FlushRest

\* ... and clearQueueForPort
FlushClear ==
    /\ rxpc = "flushClear" /\ rxpc' = "flushNext"
    /\ queue' = [queue EXCEPT ![Lowest(flushPorts)] = << >>]
    /\ packet_counter' = packet_counter \ {Lowest(flushPorts)}
    /\ flushPorts' = flushPorts \ {Lowest(flushPorts)}
    /\ disturbed' = disturbed \cup {Lowest(flushPorts)}
    /\ UNCHANGED rxVars /\ FlushRest

FlushDone ==
    /\ rxpc = "flushNext" /\ flushPorts = {} /\ rxpc' = "idle"
    /\ to_consume_global_seq' = lastReceivedGlobalSeq
    /\ receiving_window' = 0
    /\ UNCHANGED <<lastReceivedGlobalSeq, bufVars, flushPorts, disturbed>>
    /\ FlushRest

\* handleLinkStatus and handleBufferEmpty call S3TP with rx_mutex held; what
\* they do there is in TxModule and ClientTable.  Here they matter when a mutex
\* they need is never released.
CallbackStuck ==
    /\ rxpc = "idle" /\ rxpc' = "stuck" /\ RxMutexFree
    /\ lost # {}
    /\ UNCHANGED <<current_port_sequence, available_messages, disturbed, rxVars,
                   bufVars, frame, flushPorts, asmpc, net, newest, missed>>
    /\ RxRest

RxStep ==
    \/ RecvSync \/ RecvPort \/ RecvWrite \/ RecvCompare \/ RecvComplete
    \/ FlushQueues \/ FlushTest \/ FlushPeek \/ FlushClear \/ FlushDone

-----------------------------------------------------------------------------
(***************************************************************************)
(* Assembly thread: S3TP::assemblyRoutine.                                 *)
(***************************************************************************)
AsmRest ==
    /\ ~ Aborted
    /\ missed' = (missed /\ asmpc # "check")  \* the thread looks again
    /\ UNCHANGED <<active, open_ports, rxVars, rxpc, frame, flushPorts, stoppc, net,
                   messages, peerGlobal, syncs, losses, newest, events>>

AsmLock ==
    /\ asmpc = "lock" /\ S3tpMutexFree /\ asmpc' = "check"
    /\ UNCHANGED <<current_port_sequence, available_messages, disturbed, bufVars,
                   asmVars>>
    /\ AsmRest

\* The loop condition, isNewMessageAvailable and its repetition in
\* waitForNextAvailableMessage, all under s3tp_mutex, which stop needs to
\* deactivate the modules
AsmCheck ==
    /\ asmpc = "check" /\ RxMutexFree
    /\ \/ ~ active /\ asmpc' = "done"
       \/ active /\ available_messages # {} /\ asmpc' = "next"
       \/ active /\ available_messages = {} /\ asmpc' = "sleep"
    /\ UNCHANGED <<current_port_sequence, available_messages, disturbed, bufVars,
                   asmVars>>
    /\ AsmRest

\* pthread_cond_wait(&available_msg_cond, &s3tp_mutex)
AsmSleep ==
    /\ asmpc = "sleep" /\ asmpc' = "waiting"
    /\ UNCHANGED <<current_port_sequence, available_messages, disturbed, bufVars,
                   asmVars>>
    /\ AsmRest

\* getNextCompleteMessage: isActive and isNewMessageAvailable; an error returns
\* NULL for port 0
AsmNext ==
    /\ asmpc = "next" /\ RxMutexFree
    /\ asmpc' = IF active /\ available_messages # {} THEN "take" ELSE "error"
    /\ UNCHANGED <<current_port_sequence, available_messages, disturbed, bufVars,
                   asmVars>>
    /\ AsmRest

\* available_messages.begin(); rx_mutex is kept from here to AsmRecheck
AsmTake ==
    /\ asmpc = "take" /\ asmpc' = "pop" /\ RxMutexFree
    /\ asmPort' = Lowest(available_messages)
    /\ assembled' = << >>
    /\ UNCHANGED <<current_port_sequence, available_messages, disturbed, bufVars,
                   mutexLeaked, lost, delivered>>
    /\ AsmRest

\* getNextPacket: the head leaves the queue
Popped(p) ==
    /\ queue' = [queue EXCEPT ![p] = Tail(@)]
    /\ packet_counter' = IF IsEmpty(Tail(queue[p])) THEN packet_counter \ {p}
                                                   ELSE packet_counter

\* Mutant of AsmPop: takes the head whatever its sequence number
MutantPopUnchecked ==
    /\ asmpc = "pop" /\ BufferMutexFree
    /\ ~ IsEmpty(queue[asmPort])
    /\ LET pkt == Head(queue[asmPort])
       IN  /\ assembled' = Append(assembled, pkt)
           /\ current_port_sequence' =
                 [current_port_sequence EXCEPT ![asmPort] = Inc(@)]
           /\ asmpc' = IF pkt.more THEN "pop" ELSE "recheck"
    /\ Popped(asmPort)
    /\ UNCHANGED <<available_messages, disturbed, asmPort, mutexLeaked,
                   lost, delivered>>
    /\ AsmRest

\* One turn of the assembly loop: a packet with the expected sequence
AsmPop ==
    /\ asmpc = "pop" /\ BufferMutexFree
    /\ ~ IsEmpty(queue[asmPort])
    /\ LET pkt == Head(queue[asmPort])
       IN  /\ pkt.seq = current_port_sequence[asmPort]
           /\ assembled' = Append(assembled, pkt)
           /\ current_port_sequence' =
                 [current_port_sequence EXCEPT ![asmPort] = Inc(@)]
           /\ asmpc' = IF pkt.more THEN "pop" ELSE "recheck"
    /\ Popped(asmPort)
    /\ UNCHANGED <<available_messages, disturbed, asmPort, mutexLeaked,
                   lost, delivered>>
    /\ AsmRest

\* CODE_ERROR_INCONSISTENT_STATE: returns without unlocking rx_mutex
AsmInconsistent ==
    /\ asmpc = "pop" /\ BufferMutexFree
    /\ ~ IsEmpty(queue[asmPort])
    /\ Head(queue[asmPort]).seq # current_port_sequence[asmPort]
    /\ mutexLeaked' = TRUE /\ asmpc' = "error"
    /\ Popped(asmPort)
    /\ UNCHANGED <<current_port_sequence, available_messages, disturbed, asmPort,
                   assembled, lost, delivered>>
    /\ AsmRest

\* getNextPacket returns NULL and its header is read
AsmNull ==
    /\ asmpc = "pop" /\ BufferMutexFree
    /\ IsEmpty(queue[asmPort])
    /\ asmpc' = "aborted"
    /\ UNCHANGED <<current_port_sequence, available_messages, disturbed, bufVars,
                   asmVars>>
    /\ AsmRest

\* Mutant of AsmRecheck: the entry is never erased
MutantNeverErased ==
    /\ asmpc = "recheck" /\ BufferMutexFree
    /\ asmpc' = "deliver"
    /\ UNCHANGED <<current_port_sequence, available_messages, disturbed, bufVars,
                   asmVars>>
    /\ AsmRest

\* Further messages?  Then rx_mutex is released, the data handed to the client
AsmRecheck ==
    /\ asmpc = "recheck" /\ BufferMutexFree
    /\ available_messages' =
          IF CompleteMessage(queue[asmPort], current_port_sequence[asmPort])
            THEN available_messages \cup {asmPort}
            ELSE available_messages \ {asmPort}
    /\ disturbed' = disturbed \ {asmPort}
    /\ asmpc' = "deliver"
    /\ UNCHANGED <<current_port_sequence, bufVars, asmVars>>
    /\ AsmRest

\* cli->send succeeds; it runs under clients_mutex, as do the next three.  The
\* ghost records the packets the message was made of.
AsmDeliver ==
    /\ asmpc = "deliver" /\ asmpc' = "lock" /\ ClientsMutexFree
    /\ delivered' = [delivered EXCEPT ![asmPort] = Append(@, assembled)]
    /\ UNCHANGED <<current_port_sequence, available_messages, disturbed, bufVars,
                   asmPort, assembled, mutexLeaked, lost>>
    /\ AsmRest

\* The client of the closed port has been cleaned up: the message is dropped
AsmDrop ==
    /\ asmpc = "deliver" /\ asmpc' = "lock" /\ ClientsMutexFree
    /\ asmPort \notin open_ports
    /\ UNCHANGED <<current_port_sequence, available_messages, disturbed, bufVars,
                   asmVars>>
    /\ AsmRest

\* An error return is not skipped: port 0 has no client ...
AsmDropNull ==
    /\ asmpc = "error" /\ asmpc' = "lock" /\ ClientsMutexFree
    /\ 0 \notin open_ports
    /\ UNCHANGED <<current_port_sequence, available_messages, disturbed, bufVars,
                   asmVars>>
    /\ AsmRest

\* ... or it has one and is sent the NULL, which never succeeds: a write of no
\* bytes counts as a closed connection.  So does cli->send when the connection
\* is broken.  Both call onDisconnected, which waits for clients_mutex.
AsmSendFails ==
    /\ \/ asmpc = "deliver"
       \/ asmpc = "error" /\ 0 \in Ports
    /\ asmpc' = "stuck" /\ ClientsMutexFree
    /\ lost' = lost \cup {"clients"}
    /\ UNCHANGED <<current_port_sequence, available_messages, disturbed, bufVars,
                   asmPort, assembled, mutexLeaked, delivered>>
    /\ AsmRest

AsmStep ==
    \/ AsmLock \/ AsmCheck \/ AsmSleep \/ AsmNext \/ AsmTake \/ AsmPop
    \/ AsmInconsistent \/ AsmNull \/ AsmRecheck
    \/ AsmDeliver \/ AsmDrop \/ AsmDropNull \/ AsmSendFails

-----------------------------------------------------------------------------
(***************************************************************************)
(* Ports, S3TP::stop and the operating system.                             *)
(***************************************************************************)
Event == events < MaxEvents /\ events' = events + 1

PortRest ==
    /\ ~ Aborted
    /\ UNCHANGED <<current_port_sequence, available_messages, disturbed, rxVars,
                   bufVars, asmVars, rxpc, frame, flushPorts, netVars>>

\* The rest of S3TP::init: startModule, and the assembly thread starts; frames
\* may have arrived before
StartModule ==
    /\ asmpc = "notStarted" /\ asmpc' = "lock" /\ RxMutexFree
    /\ active' = TRUE /\ receiving_window' = 0
    /\ ~ Aborted
    /\ UNCHANGED <<open_ports, current_port_sequence, available_messages, disturbed,
                   to_consume_global_seq, lastReceivedGlobalSeq, bufVars, asmVars,
                   rxpc, frame, flushPorts, stoppc, netVars, events>>

\* openPort, from onConnected
OpenPort(p) ==
    /\ asmpc # "notStarted" /\ active /\ RxMutexFree
    /\ p \notin open_ports /\ open_ports' = open_ports \cup {p}
    /\ UNCHANGED <<active, asmpc, stoppc, events>> /\ PortRest

\* closePort, from onDisconnected; the packets of the port stay
ClosePort(p) ==
    /\ active /\ RxMutexFree /\ Event
    /\ p \in open_ports /\ open_ports' = open_ports \ {p}
    /\ UNCHANGED <<active, asmpc, stoppc>> /\ PortRest

\* Another thread keeps a mutex for ever: clients_mutex, when a notification
\* closes a connection under it or cleanupClients joins a thread that never
\* ends, tx_mutex in the lock cycle of TxModule.
LoseMutex(m) ==
    /\ m \notin lost /\ lost' = lost \cup {m} /\ Event
    /\ m = "clients" => ClientsMutexFree
    /\ ~ Aborted
    /\ UNCHANGED <<active, open_ports, current_port_sequence, available_messages,
                   disturbed, rxVars, bufVars, asmPort, assembled, mutexLeaked,
                   delivered, rxpc, frame, flushPorts, asmpc, stoppc, netVars>>

\* S3TP::stop: s3tp_mutex (tx.stopRoutine is in TxModule) ...
StopBegin ==
    /\ asmpc # "notStarted"
    /\ stoppc = "running" /\ stoppc' = "rx" /\ S3tpMutexFree /\ Event
    /\ UNCHANGED <<active, asmpc, open_ports>> /\ PortRest

\* Mutant of StopModule: the waiting thread is not signalled
MutantStopSilent ==
    /\ stoppc = "rx" /\ stoppc' = "join" /\ RxMutexFree /\ "tx" \notin lost
    /\ active' = FALSE
    /\ UNCHANGED <<asmpc, open_ports, events>> /\ PortRest

\* ... rx.stopModule, which tx.stopRoutine has to let through ...
StopModule ==
    /\ stoppc = "rx" /\ stoppc' = "join" /\ RxMutexFree /\ "tx" \notin lost
    /\ active' = FALSE
    /\ asmpc' = Signalled
    /\ UNCHANGED <<open_ports, events>> /\ PortRest

\* ... pthread_join(assembly_thread)
StopJoin ==
    /\ stoppc = "join" /\ asmpc = "done" /\ stoppc' = "stopped"
    /\ UNCHANGED <<active, asmpc, open_ports, events>> /\ PortRest

\* pthread_cond_wait may return without a signal
SpuriousWakeup ==
    /\ asmpc = "waiting" /\ asmpc' = "lock" /\ Event
    /\ UNCHANGED <<active, stoppc, open_ports>> /\ PortRest

StopStep == StopModule \/ StopJoin

Next ==
    \/ \E p \in Ports : \/ \E k \in 1 .. MaxFragments : PeerSend(p, k)
                        \/ OpenPort(p) \/ ClosePort(p)
    \/ PeerSync
    \/ LoseFrame \/ RecvFrame
    \/ RxStep \/ CallbackStuck \/ AsmStep
    \/ \E m \in {"clients", "tx"} : LoseMutex(m)
    \/ StartModule \/ StopBegin \/ StopStep \/ SpuriousWakeup

Spec == Init /\ [][Next]_vars

(***************************************************************************)
(* Both threads and stop take the steps they can take.  Nothing is assumed *)
(* of the peer, the channel or the clients.                                *)
(***************************************************************************)
Fairness == WF_vars(RxStep) /\ WF_vars(AsmStep) /\ WF_vars(StopStep)

FairSpec == Spec /\ Fairness

-----------------------------------------------------------------------------
(***************************************************************************)
(* Properties.                                                             *)
(***************************************************************************)
RxLabels == {"idle", "sync", "port", "write", "compare", "complete", "flush",
             "flushNext", "flushPeek", "flushClear", "stuck", "aborted"}
AsmLabels == {"notStarted", "lock", "check", "sleep", "waiting", "next", "take",
              "pop", "recheck", "deliver", "error", "stuck", "done", "aborted"}

\* Every variable has its type; sequences stay within a uint8_t and the
\* number of packets counted in a window within the window.
TypeOK ==
    /\ active \in BOOLEAN /\ open_ports \subseteq Ports
    /\ current_port_sequence \in [Ports -> SeqNums]
    /\ available_messages \subseteq Ports
    /\ receiving_window \in 0 .. Window
    /\ to_consume_global_seq \in SeqNums /\ lastReceivedGlobalSeq \in SeqNums
    /\ queue \in [Ports -> Seq(DataPacket)] /\ packet_counter \subseteq Ports
    /\ mutexLeaked \in BOOLEAN /\ lost \subseteq {"clients", "tx"}
    /\ disturbed \subseteq Ports
    /\ rxpc \in RxLabels /\ flushPorts \subseteq Ports
    /\ frame \in DataPacket \cup SyncPacket \cup {NoFrame}
    /\ rxpc \in {"port", "write", "compare", "complete"} => frame \in DataPacket
    /\ rxpc = "sync" => frame \in SyncPacket
    /\ asmpc \in AsmLabels /\ asmPort \in Ports /\ assembled \in Seq(DataPacket)
    /\ stoppc \in {"running", "rx", "join", "stopped"}
    /\ net \in Seq(DataPacket \cup SyncPacket)
    /\ messages \in [Ports -> Seq(Seq(Nat))] /\ peerGlobal \in Nat
    /\ newest \in Nat /\ missed \in BOOLEAN
    /\ syncs \in Nat /\ losses \in Nat /\ events \in Nat
    /\ delivered \in [Ports -> Seq(Seq(DataPacket))]

\* A message handed to a client consists of all fragments of one message of
\* the peer, in order and nothing else (isCompleteMessageForPortAvailable and
\* the loop of getNextCompleteMessage), whatever the channel lost or
\* reordered, the sync packets announced and flushQueues cleared.
DeliveredIntact ==
    \A p \in Ports : \A m \in 1 .. Len(delivered[p]) :
        LET data == delivered[p][m]
        IN  \A i \in 1 .. Len(data) :
              /\ data[i].msg = data[1].msg /\ data[i].sub = i - 1
              /\ data[i].more = (i < Len(data))

\* The messages of a port are handed over in the order the peer sent them and
\* none twice.
DeliveredInOrder ==
    \A p \in Ports : \A m \in 2 .. Len(delivered[p]) :
        delivered[p][m - 1][1].msg < delivered[p][m][1].msg

\* An entry of available_messages is stale only when, since it was written, a
\* sync changed the sequence of the port, a flush or the reordering window
\* cleared its queue or a second packet of the same number came in.  Whatever
\* else happens between the notification and getNextCompleteMessage, a
\* complete message is at the head of the queue, and only those causes make
\* the thread return with rx_mutex locked or read a NULL packet (which it
\* also does when 2^16 packets are queued and counted as none).
StaleOnlyWhenDisturbed ==
    /\ RxMutexFree /\ ~ Aborted =>
         \A p \in available_messages \ disturbed :
           CompleteMessage(queue[p], current_port_sequence[p])
    /\ mutexLeaked => asmPort \in disturbed
    /\ asmpc = "aborted" =>
         asmPort \in disturbed \/ Len(queue[asmPort]) >= SizeMod

\* The first k packets of the queue are the message expected next, numbers
\* taken modulo 2^8.
WholeMessage(p, k) ==
    /\ ~ queue[p][k].more
    /\ \A j \in 1 .. k :
         /\ queue[p][j].sub = j - 1
         /\ queue[p][j].seq = (current_port_sequence[p] + j - 1) % SeqMod

\* Conversely no complete message is overlooked: between two frames, a message
\* whose fragments are all at the head of the queue and whose numbers do not
\* wrap is in available_messages, also when it became complete while the one
\* before it was being assembled.
WithinTurnCompletes ==
    rxpc = "idle" /\ RxMutexFree =>
        \A p \in Ports : \A k \in 1 .. Len(queue[p]) :
            /\ current_port_sequence[p] + k <= SeqMod
            /\ WholeMessage(p, k)
            => p \in available_messages

\* Both threads wait for the mutex the other one holds: the callback thread
\* in comparePriority, the assembly thread in the Buffer.
LockCycle == rxpc = "compare" /\ asmpc \in {"pop", "recheck"}

\* S3TP::stop returns: the signal of stopModule reaches the assembly thread,
\* also while frames arrive, unless the threads are deadlocked or a mutex is
\* never released: rx_mutex after an inconsistency, clients_mutex after a
\* connection was closed under it (by this thread's cli->send or another's),
\* tx_mutex in the lock cycle of TxModule.
StopTerminates ==
    stoppc = "rx" ~> \/ stoppc = "stopped" \/ LockCycle \/ Aborted
                     \/ mutexLeaked \/ lost # {}

\* The assembly thread acts on an available message, unless its announcement
\* fell between the test and the wait of waitForNextAvailableMessage, which
\* use different mutexes, or the module is stopped, deadlocked or aborted or a
\* mutex is never released (as in StopTerminates).
AvailableIsConsumed ==
    \A p \in Ports :
        p \in available_messages ~>
            \/ p \notin available_messages \/ (asmpc = "pop" /\ asmPort = p)
            \/ missed
            \/ LockCycle \/ Aborted \/ mutexLeaked \/ lost # {} \/ ~ active

\* The receiving half implements the abstract transport with losses: what
\* reaches a client are whole messages of the peer, in order and none twice.
Transport ==
    INSTANCE OrderedDelivery WITH
        MaxLength <- MaxFragments, Lossy <- TRUE,
        handed <- [p \in Ports |->
                     [m \in 1 .. Len(delivered[p]) |->
                        [i \in 1 .. Len(delivered[p][m]) |-> delivered[p][m][i].n]]]

\* Every step of RxModule is a step of the abstract transport or changes
\* nothing there, whatever the channel lost or reordered and the sync packets
\* announced.
DeliversInOrder == Transport!Spec

-----------------------------------------------------------------------------
(***************************************************************************)
(* What comments and assertions of the repository say and the code does    *)
(* not do.                                                                 *)
(***************************************************************************)
\* The assertion of PriorityQueue::peek holds where flushQueues calls it.
PeekNotEmpty == rxpc # "aborted"

\* An available message can be assembled: the entry that announces it is
\* still true when getNextCompleteMessage acts on it.
AnnouncedIsThere == asmpc # "aborted" /\ ~ mutexLeaked

\* Nothing is sent to a client after an error (the else branch of
\* assemblyRoutine and its "Error while trying to consume message").
NullNotForwarded == [][asmpc = "error" => asmpc' # "stuck"]_vars

\* Once its last fragment has been handled, a message whose fragments are all
\* at the head of the queue is available, wherever its numbers wrap.
LastFragmentCompletes ==
    rxpc = "idle" /\ asmpc = "waiting" =>
        \A p \in Ports :
            (\E k \in 1 .. Len(queue[p]) : WholeMessage(p, k))
              => p \in available_messages

\* An available message is consumed: every notification reaches the assembly
\* thread (unless the threads are deadlocked, aborted or stopped).
NoWakeupLost == ~ (missed /\ asmpc = "waiting" /\ available_messages # {})

\* flushQueues only clears a queue whose head is old: a newer packet than the
\* head has been received.
OnlyOldFlushed ==
    [][FlushClear => queue[Lowest(flushPorts)] = << >>
                     \/ Head(queue[Lowest(flushPorts)]).g < newest]_vars

\* After a sync packet every port expects the sequence it announces.
SyncTakesEffect ==
    [][RecvSync => current_port_sequence' = frame.port_seq]_vars

\* A thread waiting for messages does not wait for ever once the module is
\* stopped.
StopReachesWaiter == stoppc = "rx" ~> asmpc = "done"
=============================================================================
