--------------------------- MODULE TxModuleProofs ---------------------------
(***************************************************************************)
(* Proofs about TxModule for every set of ports, channel assignment,       *)
(* width and bound that satisfies the assumptions of the module.           *)
(***************************************************************************)
EXTENDS TxModule, PacketQueueProofs, FiniteSetTheorems

-----------------------------------------------------------------------------
(***************************************************************************)
(* Who changes what.                                                       *)
(***************************************************************************)
EnvStep == \/ CbStep \/ LinkEvent \/ SpuriousWakeup \/ StopBegin \/ StopStep
           \/ \E p \in Ports : OnConnected(p) \/ CleanupClient(p)

ClientAction(p) == \/ \E k \in 1 .. MaxFragments + 1 : ClientSend(p, k)
                   \/ ClientStep(p)

\* A step is one of a client, of the transmission thread or of the others.
LEMMA Steps ==
    Next => (\E p \in Ports : ClientAction(p)) \/ TxStep \/ EnvStep
BY DEF Next, EnvStep, ClientAction

\* The transmission thread leaves the clients and their environment alone.
LEMMA TxFrame == TxStep => UNCHANGED <<cliVars, envVars>>
BY DEF TxStep, TxCheck, TxSync, TxBlacklist, TxAvail, AvailRest, TxBlocked, TxPop, TxSend,
       TxQueueSize, TxSleep, TxUnchanged

\* Callbacks, link events and stop move no packet and number none.
LEMMA EnvFrame ==
    EnvStep => UNCHANGED <<cliVars, bufVars, wireVars, port_sequence,
                           to_consume_port_seq, global_seq_num, txPkt,
                           sendingFragments, currentPort, state>>
BY DEF EnvStep, CbStep, CbLinkUp, CbLinkSync, CbLinkNotify, CbPeerSync,
       CbBufferEmpty, CbChannelNotify, SyncRequest, LinkEvent, LinkDown,
       LinkUp, PeerSync, ChannelFills, ChannelDrains, OnConnected, CleanupClient,
       SpuriousWakeup, StopBegin, StopStep, StopRoutine, StopJoin,
       CbUnchanged, StopUnchanged, syncVars

\* A client changes, in the transmission module, only its port sequence and
\* whether the transmission thread has been woken.
LEMMA ClientFrame ==
    ASSUME NEW p \in Ports, ClientAction(p)
    PROVE  UNCHANGED <<syncVars, envVars, wire, last, active, state,
                       channel_blacklist, sendingFragments, currentPort,
                       to_consume_port_seq, global_seq_num, txPkt>>
BY DEF ClientAction, ClientStep, ClientSend, CheckState, CheckQueue,
       CheckChannel, EnqueueHeader, WriteLock, WriteCompare, SignalTx,
       SignalRest, ClientUnchanged, txVars, wireVars

-----------------------------------------------------------------------------
(***************************************************************************)
(* Type correctness, one part of the state at a time.                      *)
(***************************************************************************)
\* Initially every variable has its type.
LEMMA TypeInit == Init => TypeOK
<1> SUFFICES ASSUME Init PROVE TypeOK
  OBVIOUS
<1> USE DEF Init
<1>1. TypeTx
  BY DEF TypeTx, TxLabels
<1>2. 0 \in SeqNums /\ SeqMod - 1 \in SeqNums
  BY SeqModAssumption DEF SeqNums
<1>3. TypeSequences /\ TypeSync
  BY <1>2 DEF TypeSequences, TypeSync, Initiator, Ack
<1>4. \A p \in Ports : NoPacket(p) \in Packet
  BY <1>2 DEF NoPacket, Packet
<1>5. TypePackets
  <2>1. (CHOOSE p \in Ports : TRUE) \in Ports
    BY PortsAssumption
  <2>2. txPkt \in Packet /\ last \in Packet
    BY <1>4, <2>1
  <2>3. /\ pkt \in [Ports -> Packet] /\ queue \in [Ports -> Seq(Packet)]
        /\ wire \in [Ports -> Seq(Packet)] /\ packet_counter \subseteq Ports
    BY <1>4
  <2> QED BY <2>2, <2>3 DEF TypePackets
<1>6. TypeClient /\ TypeEnv /\ TypeMissed
  BY DEF TypeClient, TypeEnv, TypeMissed, ClientLabels, CbLabels
<1> QED BY <1>1, <1>3, <1>5, <1>6 DEF TypeOK

\* What popPacketInternal hands out is a packet of the port's queue.
LEMMA PoppedHead ==
    ASSUME TypeOK, NEW p \in Ports, TxPop(p)
    PROVE  /\ queue[p] # << >> /\ queue[p] \in Seq(Packet)
           /\ Head(queue[p]) \in Packet /\ Tail(queue[p]) \in Seq(Packet)
<1>1. queue[p] \in Seq(Packet)
  BY DEF TypeOK, TypePackets
<1>2. ~ IsEmpty(queue[p])
  BY DEF TxPop, NextPort, Candidates, Poppable
<1>3. queue[p] # << >>
  BY <1>1, <1>2, NotEmpty
<1> QED BY <1>1, <1>3

\* Steps keep the types of the module state and the thread.
LEMMA TypeTxStep == TypeOK /\ Next => TypeTx'
<1> SUFFICES ASSUME TypeOK, Next PROVE TypeTx'
  OBVIOUS
<1> USE DEF TypeTx, TxLabels
<1>1. ASSUME NEW p \in Ports, ClientAction(p) PROVE TypeTx'
  <2>1. txpc' \in TxLabels
    BY <1>1 DEF TypeOK, ClientAction, ClientStep, ClientSend, CheckState,
       CheckQueue, CheckChannel, EnqueueHeader, WriteLock, WriteCompare,
       SignalTx, SignalRest, Signalled
  <2> QED BY <1>1, <2>1, ClientFrame DEF TypeOK
<1>2. CASE TxStep
  <2>1. ASSUME NEW p \in Ports, TxPop(p) PROVE TypeTx'
    <3>1. Head(queue[p]).more \in BOOLEAN
      BY <2>1, PoppedHead DEF Packet
    <3> QED BY <2>1, <3>1, PortsAssumption DEF TypeOK, TxPop
  <2>2. CASE TxCheck \/ TxSync \/ TxBlacklist \/ TxAvail \/ TxBlocked
    BY <2>2 DEF TypeOK, TxCheck, TxSync, TxBlacklist, TxAvail, AvailRest, TxBlocked,
         txVars
  <2>3. CASE TxSend \/ TxQueueSize \/ TxSleep
    BY <2>3 DEF TypeOK, TxSend, TxQueueSize, TxSleep, txVars
  <2> QED BY <1>2, <2>1, <2>2, <2>3 DEF TxStep
<1>3. CASE EnvStep
  <2>1. UNCHANGED <<state, sendingFragments, currentPort>>
    BY <1>3, EnvFrame
  <2>2. active' = active \/ active' = FALSE
    BY <1>3 DEF EnvStep, CbStep, CbLinkUp, CbLinkSync, CbLinkNotify, CbPeerSync,
         CbBufferEmpty, CbChannelNotify, SyncRequest, LinkEvent, LinkDown, LinkUp,
         PeerSync, ChannelFills, ChannelDrains, OnConnected, CleanupClient,
         SpuriousWakeup, StopBegin, StopStep, StopRoutine, StopJoin, CbUnchanged,
         StopUnchanged
  <2>3. channel_blacklist' \subseteq channel_blacklist
    BY <1>3 DEF EnvStep, CbStep, CbLinkUp, CbLinkSync, CbLinkNotify, CbPeerSync,
         CbBufferEmpty, CbChannelNotify, SyncRequest, Whitelisted, LinkEvent, LinkDown,
         LinkUp, PeerSync, ChannelFills, ChannelDrains, OnConnected, CleanupClient,
         SpuriousWakeup, StopBegin, StopStep, StopRoutine, StopJoin, StopUnchanged
  <2>4. txpc' = txpc \/ txpc' = "lock"
    BY <1>3 DEF EnvStep, CbStep, CbLinkUp, CbLinkSync, CbLinkNotify, CbPeerSync,
         CbBufferEmpty, CbChannelNotify, SyncRequest, ScheduleSync, Signalled,
         LinkEvent, LinkDown, LinkUp, PeerSync, ChannelFills, ChannelDrains,
         OnConnected, CleanupClient, SpuriousWakeup, StopBegin, StopStep, StopRoutine,
         StopJoin
  <2> QED BY <2>1, <2>2, <2>3, <2>4 DEF TypeOK
<1> QED BY <1>1, <1>2, <1>3, Steps

\* Steps keep the counters within a uint8_t.
LEMMA TypeSequencesStep == TypeOK /\ Next => TypeSequences'
<1> SUFFICES ASSUME TypeOK, Next PROVE TypeSequences'
  OBVIOUS
<1> USE DEF TypeSequences
<1>1. ASSUME NEW p \in Ports, ClientAction(p) PROVE TypeSequences'
  <2>1. port_sequence' = port_sequence
        \/ port_sequence' = [port_sequence EXCEPT ![p] = Inc(@)]
    BY <1>1 DEF ClientAction, ClientStep, ClientSend, CheckState,
       CheckQueue, CheckChannel, EnqueueHeader, WriteLock, WriteCompare,
       SignalTx, SignalRest, ClientUnchanged, txVars
  <2> QED BY <1>1, <2>1, ClientFrame, IncType DEF TypeOK
<1>2. CASE TxStep
  BY <1>2, IncType
     DEF TypeOK, TxStep, TxCheck, TxSync, TxBlacklist, TxAvail, AvailRest, TxBlocked,
         TxPop, TxSend, TxQueueSize, TxSleep, txVars
<1>3. CASE EnvStep
  BY <1>3, EnvFrame DEF TypeOK
<1> QED BY <1>1, <1>2, <1>3, Steps

\* Steps keep the types of the sync request and its ghosts.
LEMMA TypeSyncStep == TypeOK /\ Next => TypeSync'
<1> SUFFICES ASSUME TypeOK, Next PROVE TypeSync'
  OBVIOUS
<1> USE DEF TypeSync, syncVars
<1>1. ASSUME NEW p \in Ports, ClientAction(p) PROVE TypeSync'
  BY <1>1, ClientFrame DEF TypeOK
<1>2. CASE TxStep
  <2>1. CASE TxSync \/ TxCheck
    BY <2>1 DEF TypeOK, TxSync, TxCheck
  <2>2. CASE TxStep /\ ~ TxSync /\ ~ TxCheck
    BY <2>2 DEF TypeOK, TxStep, TxBlacklist, TxAvail, AvailRest, TxBlocked, TxPop, TxSend,
                TxQueueSize, TxSleep
  <2> QED BY <1>2, <2>1, <2>2
<1>3. CASE EnvStep
  BY <1>3, EnvFrame
     DEF TypeOK, EnvStep, CbStep, CbLinkUp, CbLinkSync, CbLinkNotify,
         CbPeerSync, CbBufferEmpty, CbChannelNotify, SyncRequest,
         ScheduleSync, NoSyncChange, LinkEvent, LinkDown, LinkUp, PeerSync,
         ChannelFills, ChannelDrains, OnConnected, CleanupClient, SpuriousWakeup, StopBegin,
         StopStep, StopRoutine, StopJoin, CbUnchanged, StopUnchanged
<1> QED BY <1>1, <1>2, <1>3, Steps

\* Steps keep the types of the client threads.
LEMMA TypeClientStep == TypeOK /\ Next => TypeClient'
<1> SUFFICES ASSUME TypeOK, Next PROVE TypeClient'
  OBVIOUS
<1> USE DEF TypeClient, cliVars
<1>1. ASSUME NEW p \in Ports, ClientAction(p) PROVE TypeClient'
  <2>1. cpc' \in [Ports -> ClientLabels]
    BY <1>1 DEF TypeOK, ClientLabels, ClientAction, ClientStep, ClientSend,
       CheckState, CheckQueue, CheckChannel, EnqueueHeader, WriteLock,
       WriteCompare, SignalTx, SignalRest, Goto, Refuse
  <2>2. ASSUME NEW k \in 1 .. MaxFragments + 1, ClientSend(p, k)
        PROVE  /\ frags' \in [Ports -> Nat] /\ fragment' \in [Ports -> Nat]
               /\ dataPtr' \in [Ports -> Nat] /\ enq' \in [Ports -> Nat]
    <3>1. k \in Nat
      BY BoundsAssumption
    <3> QED BY <2>2, <3>1 DEF TypeOK, ClientSend
  <2>3. ASSUME EnqueueHeader(p)
        PROVE  /\ frags' \in [Ports -> Nat] /\ fragment' \in [Ports -> Nat]
               /\ dataPtr' \in [Ports -> Nat] /\ enq' \in [Ports -> Nat]
    <3>1. /\ fragment[p] + 1 \in Nat /\ dataPtr[p] + fragment[p] + 1 \in Nat
          /\ enq[p] + 1 \in Nat
      BY DEF TypeOK
    <3> QED BY <2>3, <3>1 DEF TypeOK, EnqueueHeader, AdvancedPtr
  <2>4. ASSUME ClientStep(p), ~ EnqueueHeader(p)
        PROVE  UNCHANGED <<frags, fragment, dataPtr, enq>>
    BY <2>4 DEF ClientStep, CheckState, CheckQueue, CheckChannel, WriteLock,
                WriteCompare, SignalTx, SignalRest
  <2> QED BY <1>1, <2>1, <2>2, <2>3, <2>4 DEF TypeOK, ClientAction
<1>2. CASE TxStep
  BY <1>2, TxFrame DEF TypeOK
<1>3. CASE EnvStep
  BY <1>3, EnvFrame DEF TypeOK
<1> QED BY <1>1, <1>2, <1>3, Steps

\* Steps keep the types of link, callbacks, daemon and stop.
LEMMA TypeEnvStep == TypeOK /\ Next => TypeEnv'
<1> SUFFICES ASSUME TypeOK, Next PROVE TypeEnv'
  OBVIOUS
<1> USE DEF TypeEnv, envVars, CbLabels
<1>1. ASSUME NEW p \in Ports, ClientAction(p) PROVE TypeEnv'
  <2>1. refused' \subseteq Ports
    BY <1>1 DEF TypeOK, ClientAction, ClientStep, ClientSend,
       CheckState, CheckQueue, CheckChannel, EnqueueHeader, WriteLock,
       WriteCompare, SignalTx, SignalRest, Refuse
  <2> QED BY <1>1, <2>1, ClientFrame DEF TypeOK
<1>2. CASE TxStep
  <2>1. refused' \subseteq Ports
    BY <1>2 DEF TypeOK, TxStep, TxCheck, TxSync, TxBlacklist, TxAvail, AvailRest, TxBlocked,
         TxPop, TxSend, TxQueueSize, TxSleep
  <2> QED BY <1>2, <2>1, TxFrame DEF TypeOK
<1>3. CASE EnvStep
  <2>1. CASE CbStep
    BY <2>1 DEF TypeOK, CbStep, CbLinkUp, CbLinkSync, CbLinkNotify,
         CbPeerSync, CbBufferEmpty, CbChannelNotify, SyncRequest, CbUnchanged
  <2>2. CASE LinkEvent \/ SpuriousWakeup
    <3>1. events' \in Nat
      BY <2>2 DEF TypeOK, LinkEvent, LinkDown, LinkUp, PeerSync, ChannelFills,
           ChannelDrains, SpuriousWakeup, EnvEvent
    <3>2. link' \in BOOLEAN /\ chFull' \in BOOLEAN
      BY <2>2, Zenon DEF TypeOK, LinkEvent, LinkDown, LinkUp, PeerSync,
           ChannelFills, ChannelDrains, SpuriousWakeup
    <3>3. /\ stoppc' = stoppc /\ clients' = clients /\ refused' = refused
          /\ cbpc' \in CbLabels
      BY <2>2 DEF TypeOK, LinkEvent, LinkDown, LinkUp, PeerSync, ChannelFills,
           ChannelDrains, SpuriousWakeup, CbUnchanged
    <3> QED BY <3>1, <3>2, <3>3 DEF TypeOK
  <2>3. CASE StopBegin \/ StopStep
    BY <2>3 DEF TypeOK, StopBegin, StopStep, StopRoutine, StopJoin, EnvEvent,
         StopUnchanged
  <2>4. ASSUME NEW p \in Ports, OnConnected(p) \/ CleanupClient(p) PROVE TypeEnv'
    BY <2>4 DEF TypeOK, OnConnected, CleanupClient, EnvEvent, CbUnchanged
  <2> QED BY <1>3, <2>1, <2>2, <2>3, <2>4 DEF EnvStep
<1> QED BY <1>1, <1>2, <1>3, Steps

\* Steps keep the ghost of the missed signal Boolean.
LEMMA TypeMissedStep == TypeOK /\ Next => TypeMissed'
<1> SUFFICES ASSUME TypeOK, Next PROVE TypeMissed'
  OBVIOUS
<1>1. \/ missed' = missed
      \/ missed' = FALSE
      \/ missed' = (missed \/ txpc = "sleep")
  <2>1. ASSUME NEW p \in Ports, ClientAction(p)
        PROVE  missed' = missed \/ missed' = (missed \/ txpc = "sleep")
    BY <2>1 DEF ClientAction, ClientStep, ClientSend, CheckState, CheckQueue,
       CheckChannel, EnqueueHeader, WriteLock, WriteCompare, SignalTx,
       ClientUnchanged, wireVars
  <2>2. CASE TxStep
    BY <2>2 DEF TxStep, TxCheck, TxSync, TxBlacklist, TxAvail, TxBlocked, TxPop, TxSend,
       TxQueueSize, TxSleep, wireVars
  <2>3. CASE EnvStep
    BY <2>3, EnvFrame DEF wireVars
  <2> QED BY <2>1, <2>2, <2>3, Steps
<1> QED BY <1>1, Zenon DEF TypeOK, TypeMissed

\* Steps keep every queue and the wire sequences of packets.
LEMMA TypePacketsStep == TypeOK /\ Next => TypePackets'
<1> SUFFICES ASSUME TypeOK, Next PROVE TypePackets'
  OBVIOUS
<1> USE DEF TypePackets
<1>1. ASSUME NEW p \in Ports, ClientAction(p) PROVE TypePackets'
  <2>1. pkt' \in [Ports -> Packet]
    <3>1. CASE EnqueueHeader(p)
      <4>1. 0 \in SeqNums /\ port_sequence[p] \in SeqNums
        BY SeqModAssumption DEF TypeOK, TypeSequences, SeqNums
      <4> DEFINE m == fragment[p] + 1 < frags[p]
      <4>2. m \in BOOLEAN
        OBVIOUS
      <4> HIDE DEF m
      <4>3. [port |-> p, seq |-> port_sequence[p], sub |-> fragment[p],
             more |-> m, chunk |-> dataPtr[p], n |-> enq[p] + 1, gseq |-> 0]
              \in Packet
        <5>1. /\ fragment[p] \in Nat /\ dataPtr[p] \in Nat
              /\ enq[p] + 1 \in Nat
          BY DEF TypeOK, TypeClient
        <5> QED BY <4>1, <4>2, <5>1, Zenon DEF Packet
      <4> QED BY <3>1, <4>3 DEF TypeOK, EnqueueHeader, m
    <3>2. CASE SignalTx(p)
      <4>1. NoPacket(p) \in Packet
        BY SeqModAssumption DEF NoPacket, Packet, SeqNums
      <4> QED BY <3>2, <4>1 DEF TypeOK, SignalTx, SignalRest
    <3>3. CASE ~ EnqueueHeader(p) /\ ~ SignalTx(p)
      BY <1>1, <3>3 DEF TypeOK, ClientAction, ClientStep, ClientSend,
         CheckState, CheckQueue, CheckChannel, WriteLock, WriteCompare
    <3> QED BY <3>1, <3>2, <3>3
  <2>2. queue' \in [Ports -> Seq(Packet)] /\ packet_counter' \subseteq Ports
    <3>1. pkt[p] \in Packet /\ queue[p] \in Seq(Packet)
      BY DEF TypeOK
    <3>2. CASE WriteLock(p)
      <4>1. <<pkt[p]>> \in Seq(Packet)
        BY <3>1
      <4> QED BY <3>2, <4>1 DEF TypeOK, WriteLock, bufVars
    <3>3. CASE WriteCompare(p)
      <4>1. Push(queue[p], pkt[p], to_consume_port_seq[p]) \in Seq(Packet)
        BY <3>1, PushType
      <4> QED BY <3>3, <4>1 DEF TypeOK, WriteCompare
    <3>4. CASE ~ WriteLock(p) /\ ~ WriteCompare(p)
      BY <1>1, <3>4 DEF TypeOK, ClientAction, ClientStep, ClientSend,
         CheckState, CheckQueue, CheckChannel, EnqueueHeader, SignalTx, SignalRest, bufVars
    <3> QED BY <3>2, <3>3, <3>4
  <2> QED BY <1>1, <2>1, <2>2, ClientFrame DEF TypeOK, wireVars
<1>2. CASE TxStep
  <2>1. ASSUME NEW p \in Ports, TxPop(p) PROVE TypePackets'
    <3>1. [Head(queue[p]) EXCEPT !.gseq = global_seq_num] \in Packet
      BY <2>1, PoppedHead DEF TypeOK, TypeSequences, Packet
    <3>2. Tail(queue[p]) \in Seq(Packet)
      BY <2>1, PoppedHead
    <3> QED BY <2>1, <3>1, <3>2, TxFrame, <1>2
            DEF TypeOK, TxPop, TxUnchanged, cliVars, wireVars
  <2>2. CASE TxSend
    <3>1. txPkt \in Packet /\ txPkt.port \in Ports
      BY DEF TypeOK, Packet
    <3>2. Append(wire[txPkt.port], txPkt) \in Seq(Packet)
      BY <3>1 DEF TypeOK
    <3> QED BY <2>2, <3>1, <3>2
            DEF TypeOK, TxSend, TxUnchanged, cliVars, bufVars, txVars
  <2>3. CASE TxCheck \/ TxSync \/ TxBlacklist \/ TxAvail \/ TxBlocked
                \/ TxQueueSize \/ TxSleep
    BY <2>3 DEF TypeOK, TxCheck, TxSync, TxBlacklist, TxAvail, AvailRest, TxBlocked,
         TxQueueSize, TxSleep, TxUnchanged, cliVars, bufVars, txVars, wireVars
  <2> QED BY <1>2, <2>1, <2>2, <2>3 DEF TxStep
<1>3. CASE EnvStep
  BY <1>3, EnvFrame DEF TypeOK, cliVars, bufVars, wireVars
<1> QED BY <1>1, <1>2, <1>3, Steps

\* Type correctness of the whole transmission half: in particular no counter
\* leaves its uint8_t range and every queue holds well-formed packets.
THEOREM TypeCorrect == Spec => []TypeOK
<1>1. TypeOK /\ [Next]_vars => TypeOK'
  <2>1. TypeOK /\ Next => TypeOK'
    BY TypeTxStep, TypeSequencesStep, TypeSyncStep, TypePacketsStep,
       TypeClientStep, TypeEnvStep, TypeMissedStep DEF TypeOK
  <2>2. TypeOK /\ UNCHANGED vars => TypeOK'
    BY DEF vars, TypeOK, TypeTx, TypeSequences, TypeSync, TypePackets,
           TypeClient, TypeEnv, TypeMissed, txVars, syncVars, bufVars, cliVars, envVars,
           wireVars
  <2> QED BY <2>1, <2>2
<1> QED BY <1>1, TypeInit, PTL DEF Spec

-----------------------------------------------------------------------------
(***************************************************************************)
(* No lost wakeup.  While tx_mutex is held (txpc in avail, pop, sleep)     *)
(* nobody else schedules a sync, whitelists the channel or stops; so when  *)
(* the thread goes to sleep with a sync pending, it is because the link    *)
(* was down or the channel is blacklisted, and whoever changes that either *)
(* signals under tx_mutex or still has a callback to run.  Only the signal *)
(* of the link can be lost, and then the next sync request makes up for it *)
(* while there is a client.                                                *)
(***************************************************************************)
SyncHeld == txpc \in {"avail", "pop"} /\ scheduled_sync =>
                SyncChannel \in channel_blacklist

SyncAsleep == txpc \in {"sleep", "waiting"} /\ scheduled_sync =>
                 \/ ~ link
                 \/ SyncChannel \in channel_blacklist
                 \/ cbpc = "linkUp"
                 \/ linkMissed /\ (cbpc = "linkSync" \/ clients = {})

BlacklistDue == txpc = "blacklist" => chFull \/ cbpc = "bufferEmpty"

StopSeen == ~ active => txpc \in {"lock", "send", "size", "done"}

WakeInv == /\ SyncHeld /\ SyncAsleep /\ StopSeen
           /\ BlacklistDue /\ BlacklistHasWaker

\* Only channel 0 is ever blacklisted, so the channels are never all blocked.
LEMMA SomeChannelFree ==
    TypeOK => ~ (Cardinality(channel_blacklist) >= VirtualChannels)
<1> SUFFICES ASSUME TypeOK
             PROVE  ~ (Cardinality(channel_blacklist) >= VirtualChannels)
  OBVIOUS
<1>1. channel_blacklist = {} \/ channel_blacklist = {SyncChannel}
  BY DEF TypeOK, TypeTx
<1>2. Cardinality({}) = 0 /\ Cardinality({SyncChannel}) = 1
  BY FS_EmptySet, FS_Singleton
<1> QED BY <1>1, <1>2, ChannelAssumption

\* Initially nobody waits and nothing is blacklisted.
LEMMA WakeInit == Init => WakeInv
BY DEF Init, WakeInv, SyncHeld, SyncAsleep, StopSeen, BlacklistDue,
       BlacklistHasWaker

\* Every step keeps the wakeup invariant.
LEMMA WakeStep == TypeOK /\ WakeInv /\ [Next]_vars => WakeInv'
<1> SUFFICES ASSUME TypeOK, WakeInv, [Next]_vars PROVE WakeInv'
  OBVIOUS
<1> USE DEF WakeInv, SyncHeld, SyncAsleep, StopSeen, BlacklistDue,
            BlacklistHasWaker
<1>1. ASSUME NEW p \in Ports, ClientAction(p) PROVE WakeInv'
  <2>1. txpc' = txpc \/ txpc' = Signalled
    BY <1>1 DEF ClientAction, ClientStep, ClientSend, CheckState,
       CheckQueue, CheckChannel, EnqueueHeader, WriteLock, WriteCompare,
       SignalTx, SignalRest
  <2> QED BY <1>1, <2>1, ClientFrame DEF Signalled, syncVars, envVars
<1>2. CASE TxStep
  <2>1. UNCHANGED <<clients, link, chFull, cbpc>>
    BY <1>2, TxFrame DEF envVars
  <2>2. CASE TxCheck
    <3>1. /\ UNCHANGED <<active, channel_blacklist, scheduled_sync>>
          /\ \/ ~ active /\ txpc' = "done"
             \/ active /\ ~ link /\ txpc' = "sleep"
             \/ /\ active
                /\ txpc' = IF scheduled_sync /\ SyncChannel \notin channel_blacklist
                              THEN "sync" ELSE "avail"
      BY <2>2, SomeChannelFree DEF TxCheck, syncVars
    <3> QED BY <2>1, <3>1
  <2>3. CASE TxSync \/ TxBlacklist
    BY <2>1, <2>3 DEF TxSync, TxBlacklist, syncVars, txVars
  <2>4. CASE TxAvail \/ TxBlocked
    BY <2>1, <2>4 DEF TxAvail, AvailRest, TxBlocked, syncVars
  <2>5. ASSUME NEW p \in Ports, TxPop(p) PROVE WakeInv'
    BY <2>1, <2>5 DEF TxPop, syncVars
  <2>6. CASE TxSend \/ TxQueueSize \/ TxSleep
    BY <2>1, <2>6 DEF TxSend, TxQueueSize, TxSleep, syncVars, txVars
  <2> QED BY <1>2, <2>2, <2>3, <2>4, <2>5, <2>6 DEF TxStep
<1>3. CASE EnvStep
  <2>1. CASE CbStep
    <3> USE DEF NoSyncChange, Signalled, TxMutexFree, CbUnchanged
    <3>1. CASE CbLinkUp
      <4>1. UNCHANGED <<channel_blacklist, link, chFull, clients, active, scheduled_sync>>
        BY <3>1 DEF CbLinkUp
      <4>2. /\ cbpc = "linkUp" /\ cbpc' = "linkSync"
            /\ txpc' = Signalled /\ (txpc = "sleep" => linkMissed')
        BY <3>1 DEF CbLinkUp
      <4> QED BY <4>1, <4>2
    <3>5. CASE CbLinkNotify \/ CbChannelNotify
      BY <3>5 DEF CbLinkNotify, CbChannelNotify
    <3>2. CASE CbLinkSync
      BY <3>2 DEF CbLinkSync, SyncRequest, ScheduleSync
    <3>3. CASE CbPeerSync
      BY <3>3 DEF CbPeerSync, SyncRequest, ScheduleSync
    <3>4. CASE CbBufferEmpty
      BY <3>4 DEF CbBufferEmpty, Whitelisted
    <3> QED BY <2>1, <3>1, <3>2, <3>3, <3>4, <3>5 DEF CbStep
  <2>2. CASE LinkEvent \/ SpuriousWakeup
    BY <2>2 DEF LinkEvent, LinkDown, LinkUp, PeerSync, ChannelFills,
         ChannelDrains, SpuriousWakeup, NoSyncChange, CbUnchanged
  <2>3. CASE StopBegin \/ StopStep
    BY <2>3 DEF StopBegin, StopStep, StopRoutine, StopJoin, Signalled,
         TxMutexFree, StopUnchanged, syncVars, TypeOK, TypeTx, TxLabels
  <2>4. ASSUME NEW p \in Ports, OnConnected(p) \/ CleanupClient(p) PROVE WakeInv'
    BY <2>4 DEF OnConnected, CleanupClient, ScheduleSync, NoSyncChange, Signalled,
         TxMutexFree, CbUnchanged
  <2> QED BY <1>3, <2>1, <2>2, <2>3, <2>4 DEF EnvStep
<1>4. CASE UNCHANGED vars
  BY <1>4 DEF vars, txVars, syncVars, envVars
<1> QED BY <1>1, <1>2, <1>3, <1>4, Steps

\* The wakeup invariant holds in every reachable state.
LEMMA WakeCorrect == Spec => []WakeInv
BY TypeCorrect, WakeInit, WakeStep, PTL DEF Spec

\* A sync request survives every interleaving of scheduleSync, link and
\* channel callbacks with the transmission thread going to sleep.
THEOREM SyncNeverForgotten == Spec => []SyncNotForgotten
<1>1. WakeInv => SyncNotForgotten
  BY DEF WakeInv, SyncAsleep, SyncNotForgotten
<1> QED BY <1>1, WakeCorrect, PTL

\* A stop request always reaches the transmission thread.
THEOREM StopNeverForgotten == Spec => []StopNotForgotten
<1>1. WakeInv => StopNotForgotten
  BY DEF WakeInv, StopSeen, StopNotForgotten
<1> QED BY <1>1, WakeCorrect, PTL

\* A blacklisted channel always has somebody who will whitelist it.
THEOREM BlacklistAlwaysHasWaker == Spec => []BlacklistHasWaker
<1>1. WakeInv => BlacklistHasWaker
  BY DEF WakeInv
<1> QED BY <1>1, WakeCorrect, PTL

-----------------------------------------------------------------------------
(***************************************************************************)
(* Order on a port.  The packets that have got a sequence number and have  *)
(* not been sent are: the one in the transmission thread's hands, those in *)
(* the queue, and the one its client is writing.  FifoInv says that they   *)
(* are numbered without gaps in that order, that the 8-bit numbers run     *)
(* ahead of to_consume_port_seq by their position, and that there are at   *)
(* most MaxBacklog of them.  With MaxBacklog <= SeqMod the 8-bit distances *)
(* of comparePriority then agree with the real order, so push appends.     *)
(***************************************************************************)
\* x is the k-th sequence number after c, modulo the uint8_t range
Dist(x, c, k) == x = c + k \/ x + SeqMod = c + k

Writing(q) == cpc[q] \in {"write", "compare"}
InFlight(q) == IF txpc = "send" /\ txPkt.port = q THEN 1 ELSE 0
Pending(q) == IF Writing(q) THEN 1 ELSE 0
Gone(q) == Len(wire[q]) + InFlight(q)

QueueInv(q) ==
    \A i \in 1 .. Len(queue[q]) :
        /\ queue[q][i].port = q
        /\ queue[q][i].n = Gone(q) + i
        /\ Dist(queue[q][i].seq, to_consume_port_seq[q], i - 1)

PendingInv(q) ==
    Writing(q) =>
        /\ pkt[q].port = q
        /\ pkt[q].n = Gone(q) + Len(queue[q]) + 1
        /\ Dist(pkt[q].seq, to_consume_port_seq[q], Len(queue[q]))

CountInv(q) ==
    /\ enq[q] = Gone(q) + Len(queue[q]) + Pending(q)
    /\ Dist(port_sequence[q], to_consume_port_seq[q],
            Len(queue[q]) + Pending(q))

RoomInv(q) ==
    /\ cpc[q] = "idle" => enq[q] <= Len(wire[q]) + MaxBacklog
    /\ cpc[q] # "idle" =>
          /\ fragment[q] <= frags[q]
          /\ enq[q] + frags[q] <= Len(wire[q]) + MaxBacklog + fragment[q]
    /\ cpc[q] \in {"state", "space", "channel", "header"} =>
          fragment[q] < frags[q]

WireInv(q) == \A i \in 1 .. Len(wire[q]) : wire[q][i].n = i

SendInv == txpc = "send" => txPkt.n = Len(wire[txPkt.port]) + 1

PortInv(q) == /\ QueueInv(q) /\ PendingInv(q) /\ CountInv(q)
              /\ RoomInv(q) /\ WireInv(q)

FifoInv == SendInv /\ \A q \in Ports : PortInv(q)

\* Initially nothing is numbered, queued or sent.
LEMMA FifoInit == Init => FifoInv
BY BoundsAssumption
   DEF Init, FifoInv, SendInv, PortInv, QueueInv, PendingInv, CountInv,
       RoomInv, WireInv, Writing, InFlight, Pending, Gone, Dist

\* The types that the arithmetic below needs.
LEMMA PortTypes ==
    ASSUME TypeOK, NEW q \in Ports
    PROVE  /\ port_sequence[q] \in SeqNums /\ to_consume_port_seq[q] \in SeqNums
           /\ queue[q] \in Seq(Packet) /\ wire[q] \in Seq(Packet)
           /\ pkt[q] \in Packet /\ txPkt \in Packet
           /\ cpc[q] \in ClientLabels
           /\ enq[q] \in Nat /\ frags[q] \in Nat /\ fragment[q] \in Nat
BY DEF TypeOK, TypeSequences, TypePackets, TypeClient

\* Taking the next number: it is one further ahead of the one to consume.
LEMMA DistInc ==
    ASSUME NEW x \in SeqNums, NEW c \in SeqNums, NEW k \in Nat, k < SeqMod,
           Dist(x, c, k)
    PROVE  Dist(Inc(x), c, k + 1)
BY SeqModAssumption DEF SeqNums, Dist, Inc

\* Consuming one: everything is one step closer.
LEMMA DistConsume ==
    ASSUME NEW x \in SeqNums, NEW c \in SeqNums, NEW k \in Nat, k > 0,
           Dist(x, c, k)
    PROVE  Dist(x, Inc(c), k - 1)
BY SeqModAssumption DEF SeqNums, Dist, Inc

\* Below one turn of the counter the 8-bit difference is the distance.
LEMMA DistIsRel ==
    ASSUME NEW x \in SeqNums, NEW c \in SeqNums, NEW k \in Nat, k < SeqMod,
           Dist(x, c, k)
    PROVE  Rel(x, c) = k
BY SeqModAssumption DEF SeqNums, Dist, Rel

\* Nothing that PortInv(q) and SendInv mention changes.
PortFrame(q) ==
    /\ wire' = wire /\ txPkt' = txPkt /\ (txpc' = "send" <=> txpc = "send")
    /\ to_consume_port_seq' = to_consume_port_seq
    /\ port_sequence'[q] = port_sequence[q] /\ queue'[q] = queue[q]
    /\ pkt'[q] = pkt[q] /\ cpc'[q] = cpc[q] /\ enq'[q] = enq[q]
    /\ frags'[q] = frags[q] /\ fragment'[q] = fragment[q]

\* A step that leaves packets, numbers and clients alone keeps the order.
LEMMA FrameKeeps ==
    ASSUME NEW q \in Ports, PortFrame(q), PortInv(q) PROVE PortInv(q)'
BY DEF PortFrame, PortInv, QueueInv, PendingInv, CountInv, RoomInv, WireInv,
       Writing, InFlight, Pending, Gone

\* A client disturbs no other port.
LEMMA ClientPortFrame ==
    ASSUME TypeOK, NEW p \in Ports, ClientAction(p), NEW q \in Ports, q # p
    PROVE  PortFrame(q)
<1>1. /\ wire' = wire /\ txPkt' = txPkt
      /\ to_consume_port_seq' = to_consume_port_seq
  BY ClientFrame DEF wireVars
<1>2. txpc' = "send" <=> txpc = "send"
  BY DEF ClientAction, ClientStep, ClientSend, CheckState, CheckQueue,
     CheckChannel, EnqueueHeader, WriteLock, WriteCompare, SignalTx, SignalRest, Signalled
<1>3. /\ cpc'[q] = cpc[q] /\ frags'[q] = frags[q]
      /\ fragment'[q] = fragment[q] /\ enq'[q] = enq[q]
  BY DEF TypeOK, TypeClient, ClientAction, ClientStep, ClientSend, CheckState,
     CheckQueue, CheckChannel, EnqueueHeader, WriteLock, WriteCompare,
     SignalTx, SignalRest, Goto, Refuse
<1>4. /\ port_sequence'[q] = port_sequence[q] /\ queue'[q] = queue[q]
      /\ pkt'[q] = pkt[q]
  BY DEF TypeOK, TypeSequences, TypePackets, ClientAction, ClientStep,
     ClientSend, CheckState, CheckQueue, CheckChannel, EnqueueHeader,
     WriteLock, WriteCompare, SignalTx, SignalRest, ClientUnchanged, txVars, bufVars
<1> QED BY <1>1, <1>2, <1>3, <1>4 DEF PortFrame

\* The arithmetic of the counters, free of the state: e packets enqueued, w
\* sent, b the bound, f fragments done of g.
LEMMA RoomAdvance ==
    \A e, w, b, f, g \in Nat :
        f < g /\ e + g <= w + b + f =>
            f + 1 <= g /\ (e + 1) + g <= w + b + (f + 1)
OBVIOUS

\* Room for the rest of a message, before the next packet is numbered.
LEMMA RoomLeft ==
    \A e, w, b, f, g \in Nat :
        /\ f <= g /\ e + g <= w + b + f => e <= w + b
        /\ f < g /\ e + g <= w + b + f => e < w + b /\ e <= w + b /\ f <= g
OBVIOUS

\* A message that ClientSend admits has room for all its packets.
LEMMA RoomNew ==
    \A e, w, b, k \in Nat :
        e + k <= w + b => e + k <= w + b + 0 /\ e <= w + b
OBVIOUS

\* What is queued or in hand is at most what is outstanding.
LEMMA Outstanding ==
    \A e, w, b, i, l, m, x \in Nat :
        e = w + i + l + m /\ b <= x =>
            /\ e <= w + b => l + m <= x
            /\ e < w + b => l < x
OBVIOUS

\* A popped packet moves from the queue to the hand of the thread.
LEMMA OneMoreGone ==
    \A g, l, m \in Nat :
        l > 0 => /\ g + l + m = (g + 1) + (l - 1) + m
                 /\ g + l + 1 = (g + 1) + (l - 1) + 1
OBVIOUS

\* How much a client that is not idle may still have outstanding.
LEMMA Room ==
    ASSUME TypeOK, NEW p \in Ports, PortInv(p), MaxBacklog <= SeqMod
    PROVE  /\ Len(queue[p]) + Pending(p) <= SeqMod
           /\ cpc[p] \in {"state", "space", "channel", "header"} =>
                Len(queue[p]) < SeqMod
           /\ enq[p] <= Len(wire[p]) + MaxBacklog
           /\ Len(queue[p]) \in Nat /\ Gone(p) \in Nat /\ Pending(p) \in {0, 1}
<1>1. /\ Len(queue[p]) \in Nat /\ Len(wire[p]) \in Nat
      /\ enq[p] \in Nat /\ frags[p] \in Nat /\ fragment[p] \in Nat
  BY PortTypes
<1>2. InFlight(p) \in {0, 1} /\ Pending(p) \in {0, 1}
  BY DEF InFlight, Pending
<1>3. enq[p] = Len(wire[p]) + InFlight(p) + Len(queue[p]) + Pending(p)
  BY DEF PortInv, CountInv, Gone
<1>4. enq[p] <= Len(wire[p]) + MaxBacklog
  BY <1>1, BoundsAssumption, RoomLeft DEF PortInv, RoomInv
<1>5. cpc[p] \in {"state", "space", "channel", "header"} =>
        enq[p] < Len(wire[p]) + MaxBacklog
  BY <1>1, BoundsAssumption, RoomLeft DEF PortInv, RoomInv
<1>6. InFlight(p) \in Nat /\ Pending(p) \in Nat /\ Gone(p) \in Nat
  BY <1>1, <1>2 DEF Gone
<1> QED BY <1>1, <1>2, <1>3, <1>4, <1>5, <1>6, BoundsAssumption,
           SeqModAssumption, Outstanding

\* comparePriority puts a packet behind all that its port has queued.
LEMMA CompareAppends ==
    ASSUME TypeOK, NEW p \in Ports, WriteCompare(p), PortInv(p),
           MaxBacklog <= SeqMod
    PROVE  queue'[p] = Append(queue[p], pkt[p])
<1>1. /\ to_consume_port_seq[p] \in SeqNums /\ queue[p] \in Seq(Packet)
      /\ pkt[p] \in Packet
  BY PortTypes
<1>2. /\ queue'[p] = Push(queue[p], pkt[p], to_consume_port_seq[p])
      /\ Writing(p) /\ Pending(p) = 1
  BY DEF WriteCompare, Writing, Pending, TypeOK, TypePackets
<1>3. Len(queue[p]) + 1 <= SeqMod /\ Len(queue[p]) \in Nat
  BY <1>2, Room
<1>4. ASSUME queue[p] # << >>
      PROVE  Before(queue[p][Len(queue[p])], pkt[p], to_consume_port_seq[p])
  <2> DEFINE l == Len(queue[p])
             tl == queue[p][l]
             c == to_consume_port_seq[p]
  <2>1. l \in 1 .. Len(queue[p]) /\ l - 1 \in Nat /\ tl \in Packet
    BY <1>1, <1>4
  <2>2. Dist(tl.seq, c, l - 1) /\ Dist(pkt[p].seq, c, l)
    BY <1>2, <2>1 DEF PortInv, QueueInv, PendingInv
  <2>3. tl.seq \in SeqNums /\ pkt[p].seq \in SeqNums /\ c \in SeqNums
    BY <1>1, <2>1 DEF Packet
  <2> HIDE DEF tl
  <2>4. Rel(tl.seq, c) = l - 1
    BY <1>3, <2>1, <2>2, <2>3, DistIsRel, SeqModAssumption
  <2>5. Rel(pkt[p].seq, c) = l
    BY <1>3, <2>2, <2>3, DistIsRel, SeqModAssumption
  <2> QED BY <1>3, <2>4, <2>5 DEF Before, tl
<1>5. ~ IsFull(queue[p])
  BY <1>1, NeverFull, WidthAssumption
<1> QED BY <1>1, <1>2, <1>4, <1>5, PushAppends

\* The steps of a client keep the order on its own port.
LEMMA ClientPort ==
    ASSUME TypeOK, NEW p \in Ports, ClientAction(p), PortInv(p),
           MaxBacklog <= SeqMod
    PROVE  PortInv(p)'
<1>t. /\ port_sequence[p] \in SeqNums /\ to_consume_port_seq[p] \in SeqNums
      /\ queue[p] \in Seq(Packet) /\ pkt[p] \in Packet
      /\ Len(wire[p]) \in Nat /\ cpc[p] \in ClientLabels
      /\ enq[p] \in Nat /\ frags[p] \in Nat /\ fragment[p] \in Nat
  BY PortTypes
<1> USE <1>t
<1>0. /\ wire' = wire /\ to_consume_port_seq' = to_consume_port_seq
      /\ InFlight(p)' = InFlight(p) /\ Gone(p)' = Gone(p)
  <2>1. wire' = wire /\ txPkt' = txPkt
        /\ to_consume_port_seq' = to_consume_port_seq
    BY ClientFrame DEF wireVars
  <2>2. txpc' = "send" <=> txpc = "send"
    BY DEF ClientAction, ClientStep, ClientSend, CheckState, CheckQueue,
       CheckChannel, EnqueueHeader, WriteLock, WriteCompare, SignalTx, SignalRest,
       Signalled
  <2> QED BY <2>1, <2>2 DEF InFlight, Gone
<1>1. ASSUME NEW k \in 1 .. MaxFragments + 1, ClientSend(p, k)
      PROVE  PortInv(p)'
  <2>1. /\ UNCHANGED <<queue, pkt, enq, port_sequence>>
        /\ \/ cpc'[p] = "state" /\ frags'[p] = k /\ fragment'[p] = 0
           \/ cpc'[p] = "idle" /\ UNCHANGED <<frags, fragment>>
        /\ cpc[p] = "idle" /\ Backlog(p) + k <= MaxBacklog
    BY <1>1 DEF ClientSend, Goto, Refuse, bufVars, ClientUnchanged, txVars,
                TypeOK, TypeClient
  <2>2. k \in Nat /\ k > 0 /\ Len(wire[p]) \in Nat
    BY BoundsAssumption
  <2>3. RoomInv(p)'
    <3>1. enq'[p] = enq[p] /\ Len(wire'[p]) = Len(wire[p])
      BY <1>0, <2>1
    <3>2. enq[p] + k <= Len(wire[p]) + MaxBacklog
      BY <2>1, <2>2, BoundsAssumption DEF Backlog
    <3>3. CASE cpc'[p] = "state"
      BY <2>1, <2>2, <3>1, <3>2, <3>3, BoundsAssumption, RoomNew DEF RoomInv
    <3>4. CASE cpc'[p] = "idle"
      BY <2>1, <2>2, <3>1, <3>2, <3>4, BoundsAssumption, RoomNew DEF RoomInv
    <3> QED BY <2>1, <3>3, <3>4
  <2>4. Pending(p)' = Pending(p) /\ Writing(p)' = Writing(p)
    BY <2>1 DEF Writing, Pending
  <2> QED BY <1>0, <2>1, <2>3, <2>4
          DEF PortInv, QueueInv, PendingInv, CountInv, WireInv
<1>2. CASE CheckState(p) \/ CheckQueue(p) \/ CheckChannel(p)
  <2>1. /\ UNCHANGED <<queue, pkt, enq, frags, fragment, port_sequence>>
        /\ cpc[p] \in {"state", "space", "channel"}
        /\ cpc'[p] \in {"space", "channel", "header", "idle"}
        /\ frags'[p] = frags[p] /\ fragment'[p] = fragment[p]
        /\ enq'[p] = enq[p]
    BY <1>2 DEF CheckState, CheckQueue, CheckChannel, Goto, Refuse, bufVars,
                ClientUnchanged, txVars, TypeOK, TypeClient
  <2>2. Len(wire[p]) \in Nat
    OBVIOUS
  <2>3. RoomInv(p)'
    <3>1. /\ fragment[p] < frags[p]
          /\ enq[p] + frags[p] <= Len(wire[p]) + MaxBacklog + fragment[p]
      BY <2>1 DEF PortInv, RoomInv
    <3>2. fragment[p] <= frags[p] /\ enq[p] <= Len(wire[p]) + MaxBacklog
      BY <2>1, Room DEF PortInv, RoomInv
    <3> QED BY <1>0, <2>1, <3>1, <3>2 DEF RoomInv
  <2>4. Pending(p)' = Pending(p) /\ Writing(p)' = Writing(p)
    BY <2>1 DEF Writing, Pending
  <2> QED BY <1>0, <2>1, <2>3, <2>4
          DEF PortInv, QueueInv, PendingInv, CountInv, WireInv
<1>3. CASE EnqueueHeader(p) /\ ~ active
  <2>1. /\ UNCHANGED <<queue, pkt, enq, frags, fragment, port_sequence>>
        /\ cpc[p] = "header" /\ cpc'[p] = "idle"
    BY <1>3 DEF EnqueueHeader, Goto, Refuse, bufVars, TypeOK, TypeClient
  <2>2. Len(wire[p]) \in Nat
    OBVIOUS
  <2>3. RoomInv(p)'
    <3>1. /\ fragment[p] < frags[p]
          /\ enq[p] + frags[p] <= Len(wire[p]) + MaxBacklog + fragment[p]
      BY <2>1 DEF PortInv, RoomInv
    <3>2. fragment[p] <= frags[p] /\ enq[p] <= Len(wire[p]) + MaxBacklog
      BY <2>1, Room DEF PortInv, RoomInv
    <3> QED BY <1>0, <2>1, <3>1, <3>2 DEF RoomInv
  <2>4. Pending(p)' = Pending(p) /\ Writing(p)' = Writing(p)
    BY <2>1 DEF Writing, Pending
  <2> QED BY <1>0, <2>1, <2>3, <2>4
          DEF PortInv, QueueInv, PendingInv, CountInv, WireInv
<1>4. CASE EnqueueHeader(p) /\ active
  <2>1. /\ UNCHANGED <<queue, frags>>
        /\ cpc[p] = "header" /\ cpc'[p] = "write"
        /\ pkt'[p].port = p /\ pkt'[p].seq = port_sequence[p]
        /\ pkt'[p].n = enq[p] + 1
        /\ enq'[p] = enq[p] + 1 /\ fragment'[p] = fragment[p] + 1
        /\ port_sequence'[p] = Inc(port_sequence[p])
    BY <1>4 DEF EnqueueHeader, Goto, bufVars, TypeOK, TypeClient, TypePackets,
                TypeSequences
  <2>2. Len(queue[p]) < SeqMod /\ Len(queue[p]) \in Nat /\ Gone(p) \in Nat
    BY <2>1, Room
  <2>3. Pending(p) = 0 /\ Pending(p)' = 1 /\ Writing(p)' = TRUE
    BY <2>1 DEF Writing, Pending
  <2>4. RoomInv(p)'
    <3>1. /\ fragment[p] < frags[p]
          /\ enq[p] + frags[p] <= Len(wire[p]) + MaxBacklog + fragment[p]
      BY <2>1 DEF PortInv, RoomInv
    <3>2. frags'[p] = frags[p] /\ Len(wire'[p]) = Len(wire[p])
      BY <1>0, <2>1
    <3>3. /\ fragment[p] + 1 <= frags[p]
          /\ (enq[p] + 1) + frags[p]
               <= Len(wire[p]) + MaxBacklog + (fragment[p] + 1)
      BY <3>1, BoundsAssumption, RoomAdvance
    <3> QED BY <2>1, <3>2, <3>3 DEF RoomInv
  <2>5. CountInv(p)'
    <3>1. Dist(port_sequence[p], to_consume_port_seq[p], Len(queue[p]))
      BY <2>2, <2>3 DEF PortInv, CountInv
    <3>2. Dist(port_sequence'[p], to_consume_port_seq[p], Len(queue[p]) + 1)
      BY <2>1, <2>2, <3>1, DistInc
    <3>3. enq[p] = Gone(p) + Len(queue[p])
      BY <2>2, <2>3 DEF PortInv, CountInv
    <3> QED BY <1>0, <2>1, <2>2, <2>3, <3>2, <3>3 DEF CountInv
  <2>6. PendingInv(p)'
    <3>1. /\ Dist(port_sequence[p], to_consume_port_seq[p], Len(queue[p]))
          /\ enq[p] = Gone(p) + Len(queue[p])
      BY <2>2, <2>3 DEF PortInv, CountInv
    <3> QED BY <1>0, <2>1, <2>2, <3>1 DEF PendingInv
  <2> QED BY <1>0, <2>1, <2>4, <2>5, <2>6 DEF PortInv, QueueInv, WireInv
<1>5. ASSUME queue'[p] = Append(queue[p], pkt[p]), Writing(p),
             cpc'[p] = "signal",
             UNCHANGED <<pkt, enq, frags, fragment, port_sequence>>
      PROVE  PortInv(p)'
  <2>1. /\ Len(queue'[p]) = Len(queue[p]) + 1 /\ Len(queue[p]) \in Nat
        /\ \A i \in 1 .. Len(queue[p]) : queue'[p][i] = queue[p][i]
        /\ queue'[p][Len(queue[p]) + 1] = pkt[p]
    BY <1>5
  <2>2. Pending(p) = 1 /\ Pending(p)' = 0 /\ Writing(p)' = FALSE
    BY <1>5 DEF Writing, Pending
  <2>3. Gone(p) \in Nat
    BY Room
  <2>4. QueueInv(p)'
    <3>1. /\ pkt[p].port = p /\ pkt[p].n = Gone(p) + Len(queue[p]) + 1
          /\ Dist(pkt[p].seq, to_consume_port_seq[p], Len(queue[p]))
      BY <1>5 DEF PortInv, PendingInv
    <3>2. SUFFICES ASSUME NEW i \in 1 .. Len(queue[p]) + 1
                   PROVE  /\ queue'[p][i].port = p
                          /\ queue'[p][i].n = Gone(p) + i
                          /\ Dist(queue'[p][i].seq,
                                  to_consume_port_seq[p], i - 1)
      BY <1>0, <2>1 DEF QueueInv
    <3>3. CASE i \in 1 .. Len(queue[p])
      BY <2>1, <3>3 DEF PortInv, QueueInv
    <3>4. CASE i = Len(queue[p]) + 1
      <4>1. i - 1 = Len(queue[p])
        BY <2>1, <3>4
      <4>2. Gone(p) + Len(queue[p]) + 1 = Gone(p) + i
        BY <2>1, <2>3, <3>4
      <4>3. queue'[p][i] = pkt[p]
        BY <2>1, <3>4
      <4> QED BY <3>1, <4>1, <4>2, <4>3
    <3> QED BY <2>1, <3>3, <3>4
  <2>5. CountInv(p)'
    BY <1>0, <1>5, <2>1, <2>2, <2>3 DEF PortInv, CountInv
  <2>6. RoomInv(p)'
    BY <1>0, <1>5, <2>2 DEF PortInv, RoomInv, Writing
  <2> QED BY <1>0, <2>2, <2>4, <2>5, <2>6
          DEF PortInv, PendingInv, WireInv
<1>6. CASE WriteLock(p)
  <2>1. CASE queue[p] = << >>
    <3>1. /\ queue'[p] = <<pkt[p]>> /\ Writing(p) /\ cpc'[p] = "signal"
          /\ UNCHANGED <<pkt, enq, frags, fragment, port_sequence>>
      BY <1>6, <2>1 DEF WriteLock, Goto, Writing, ClientUnchanged, txVars,
                        TypeOK, TypeClient, TypePackets
    <3>2. Append(queue[p], pkt[p]) = <<pkt[p]>>
      BY <2>1
    <3> QED BY <1>5, <3>1, <3>2
  <2>2. CASE queue[p] # << >>
    <3>1. /\ UNCHANGED <<queue, pkt, enq, frags, fragment, port_sequence>>
          /\ cpc[p] = "write" /\ cpc'[p] = "compare"
      BY <1>6, <2>2 DEF WriteLock, Goto, bufVars, ClientUnchanged, txVars,
                        TypeOK, TypeClient
    <3>2. Pending(p)' = Pending(p) /\ Writing(p)' = Writing(p)
      BY <3>1 DEF Writing, Pending
    <3>3. RoomInv(p)'
      BY <1>0, <3>1 DEF PortInv, RoomInv
    <3> QED BY <1>0, <3>1, <3>2, <3>3
            DEF PortInv, QueueInv, PendingInv, CountInv, WireInv
  <2> QED BY <2>1, <2>2
<1>7. CASE WriteCompare(p)
  <2>1. /\ queue'[p] = Push(queue[p], pkt[p], to_consume_port_seq[p])
        /\ cpc[p] = "compare" /\ cpc'[p] = "signal"
        /\ UNCHANGED <<pkt, enq, frags, fragment, port_sequence>>
    BY <1>7 DEF WriteCompare, Goto, ClientUnchanged, txVars, TypeOK,
                TypeClient, TypePackets
  <2>2. Writing(p) /\ Pending(p) = 1
    BY <2>1 DEF Writing, Pending
  <2>3. queue'[p] = Append(queue[p], pkt[p])
    BY <1>7, CompareAppends
  <2> QED BY <1>5, <2>1, <2>2, <2>3
<1>8. CASE SignalTx(p)
  <2>1. /\ UNCHANGED <<queue, enq, frags, fragment, port_sequence>>
        /\ cpc[p] = "signal"
        /\ cpc'[p] = IF fragment[p] < frags[p] THEN "header" ELSE "idle"
    BY <1>8 DEF SignalTx, SignalRest, Goto, bufVars, ClientUnchanged, txVars, TypeOK,
                TypeClient
  <2>2. Pending(p)' = Pending(p) /\ Writing(p)' = FALSE
    BY <2>1 DEF Writing, Pending
  <2>3. RoomInv(p)'
    <3>1. Len(wire[p]) \in Nat
      OBVIOUS
    <3> QED BY <1>0, <2>1, <3>1, BoundsAssumption DEF PortInv, RoomInv
  <2> QED BY <1>0, <2>1, <2>2, <2>3
          DEF PortInv, QueueInv, PendingInv, CountInv, WireInv
<1> QED BY <1>1, <1>2, <1>3, <1>4, <1>6, <1>7, <1>8
        DEF ClientAction, ClientStep

\* getNextPacket and getNextAvailablePacket take the oldest packet of a port.
LEMMA PopPort ==
    ASSUME TypeOK, NEW p \in Ports, TxPop(p), PortInv(p),
           MaxBacklog <= SeqMod
    PROVE  PortInv(p)' /\ SendInv'
<1>t. /\ port_sequence[p] \in SeqNums /\ to_consume_port_seq[p] \in SeqNums
      /\ queue[p] \in Seq(Packet) /\ pkt[p] \in Packet
      /\ Len(wire[p]) \in Nat /\ cpc[p] \in ClientLabels
      /\ enq[p] \in Nat /\ frags[p] \in Nat /\ fragment[p] \in Nat
  BY PortTypes
<1> USE <1>t
<1>1. /\ queue[p] # << >> /\ queue[p] \in Seq(Packet)
      /\ Head(queue[p]) \in Packet
  BY PoppedHead
<1> DEFINE q == queue[p]
           c == to_consume_port_seq[p]
<1>2. /\ txPkt' = [q[1] EXCEPT !.gseq = global_seq_num]
      /\ queue'[p] = Tail(q) /\ to_consume_port_seq'[p] = Inc(c)
      /\ txpc = "pop" /\ txpc' = "send" /\ wire' = wire
      /\ UNCHANGED <<pkt, enq, frags, fragment, port_sequence, cpc>>
  BY <1>1 DEF TxPop, TxUnchanged, cliVars, wireVars, TypeOK, TypePackets,
              TypeSequences
<1>3. /\ Len(q) \in Nat /\ Len(q) > 0 /\ Len(Tail(q)) = Len(q) - 1
      /\ \A i \in 1 .. Len(q) - 1 : Tail(q)[i] = q[i + 1]
      /\ \A i \in 1 .. Len(q) : q[i] \in Packet
  BY <1>1
<1>4. \A i \in 1 .. Len(q) : /\ q[i].port = p /\ q[i].n = Gone(p) + i
                             /\ Dist(q[i].seq, c, i - 1)
  BY DEF PortInv, QueueInv
<1>5. q[1].port = p /\ q[1].n = Len(wire[p]) + 1
  <2>1. Gone(p) = Len(wire[p])
    BY <1>2 DEF Gone, InFlight
  <2>2. 1 \in 1 .. Len(q)
    BY <1>3
  <2> QED BY <1>4, <2>1, <2>2
<1>6. txPkt'.port = p /\ txPkt'.n = Len(wire[p]) + 1
  BY <1>2, <1>3, <1>5 DEF Packet
<1>7. Gone(p) = Len(wire[p]) /\ Gone(p)' = Len(wire[p]) + 1
      /\ Len(wire[p]) \in Nat
  BY <1>2, <1>6 DEF Gone, InFlight
<1>8. /\ Writing(p)' = Writing(p) /\ Pending(p)' = Pending(p)
      /\ Pending(p) \in {0, 1}
  BY <1>2 DEF Writing, Pending
<1>9. QueueInv(p)'
  <2>1. SUFFICES ASSUME NEW i \in 1 .. Len(q) - 1
                 PROVE  /\ q[i + 1].port = p
                        /\ q[i + 1].n = Len(wire[p]) + 1 + i
                        /\ Dist(q[i + 1].seq, Inc(c), i - 1)
    BY <1>2, <1>3, <1>7 DEF QueueInv
  <2>2. i + 1 \in 1 .. Len(q) /\ i \in Nat /\ i > 0 /\ (i + 1) - 1 = i
    BY <1>3
  <2>3. Dist(q[i + 1].seq, c, i) /\ q[i + 1].seq \in SeqNums
    BY <1>3, <1>4, <2>2 DEF Packet
  <2>4. Dist(q[i + 1].seq, Inc(c), i - 1)
    BY <2>2, <2>3, DistConsume
  <2> QED BY <1>4, <1>7, <2>2, <2>4
<1>10. PendingInv(p)'
  <2>1. SUFFICES ASSUME Writing(p)
                 PROVE  /\ pkt[p].port = p
                        /\ pkt[p].n = Gone(p)' + Len(queue'[p]) + 1
                        /\ Dist(pkt[p].seq, Inc(c), Len(queue'[p]))
    BY <1>2, <1>8 DEF PendingInv
  <2>2. /\ pkt[p].port = p /\ pkt[p].n = Gone(p) + Len(q) + 1
        /\ Dist(pkt[p].seq, c, Len(q)) /\ pkt[p].seq \in SeqNums
    BY <2>1 DEF PortInv, PendingInv, Packet
  <2>3. Dist(pkt[p].seq, Inc(c), Len(q) - 1)
    BY <1>3, <2>2, DistConsume
  <2>4. Len(queue'[p]) = Len(q) - 1
    BY <1>2, <1>3
  <2>5. Gone(p) + Len(q) + 1 = Gone(p)' + Len(queue'[p]) + 1
    <3>1. Gone(p) \in Nat /\ Gone(p)' = Gone(p) + 1
      BY <1>7
    <3>2. Gone(p) + Len(q) + 1 = (Gone(p) + 1) + (Len(q) - 1) + 1
      BY <1>3, <3>1, OneMoreGone
    <3> QED BY <2>4, <3>1, <3>2
  <2> QED BY <2>2, <2>3, <2>4, <2>5
<1>11. CountInv(p)'
  <2>1. /\ enq[p] = Gone(p) + Len(q) + Pending(p)
        /\ Dist(port_sequence[p], c, Len(q) + Pending(p))
    BY DEF PortInv, CountInv
  <2>2. Dist(port_sequence[p], Inc(c), (Len(q) + Pending(p)) - 1)
    BY <1>3, <1>8, <2>1, DistConsume
  <2>3. (Len(q) + Pending(p)) - 1 = Len(queue'[p]) + Pending(p)
    BY <1>2, <1>3, <1>8
  <2>4. enq[p] = Gone(p)' + Len(queue'[p]) + Pending(p)
    <3>1. Len(queue'[p]) = Len(q) - 1
      BY <1>2, <1>3
    <3>2. /\ Gone(p) \in Nat /\ Gone(p)' = Gone(p) + 1
          /\ Pending(p) \in Nat
      BY <1>7, <1>8
    <3>3. Gone(p) + Len(q) + Pending(p)
            = (Gone(p) + 1) + (Len(q) - 1) + Pending(p)
      BY <1>3, <3>2, OneMoreGone
    <3> QED BY <2>1, <3>1, <3>2, <3>3
  <2> QED BY <1>2, <1>8, <2>2, <2>3, <2>4 DEF CountInv
<1>12. RoomInv(p)' /\ WireInv(p)'
  BY <1>2 DEF PortInv, RoomInv, WireInv
<1>13. SendInv'
  BY <1>2, <1>6 DEF SendInv
<1> QED BY <1>9, <1>10, <1>11, <1>12, <1>13 DEF PortInv

\* Popping from one port does not disturb another.
LEMMA PopOther ==
    ASSUME TypeOK, NEW p \in Ports, TxPop(p), PortInv(p),
           NEW q \in Ports, q # p, PortInv(q)
    PROVE  PortInv(q)'
<1>1. /\ queue'[q] = queue[q] /\ to_consume_port_seq'[q] = to_consume_port_seq[q]
      /\ txpc = "pop" /\ wire' = wire
      /\ txPkt' = [Head(queue[p]) EXCEPT !.gseq = global_seq_num]
      /\ UNCHANGED <<pkt, enq, frags, fragment, port_sequence, cpc>>
  BY DEF TxPop, TxUnchanged, cliVars, wireVars, TypeOK, TypePackets,
         TypeSequences
<1>2. txPkt'.port = p
  <2>1. /\ queue[p] # << >> /\ queue[p] \in Seq(Packet)
        /\ Head(queue[p]) \in Packet
    BY PoppedHead
  <2>2. Head(queue[p]) = queue[p][1] /\ 1 \in 1 .. Len(queue[p])
    BY <2>1
  <2>3. Head(queue[p]).port = p
    BY <2>2 DEF PortInv, QueueInv
  <2> QED BY <1>1, <2>1, <2>3 DEF Packet
<1>3. InFlight(q) = 0 /\ InFlight(q)' = 0
  BY <1>1, <1>2 DEF InFlight
<1> QED BY <1>1, <1>3 DEF PortInv, QueueInv, PendingInv, CountInv, RoomInv,
                          WireInv, Writing, Pending, Gone

\* Handing the packet to the link layer appends the next number to the wire.
LEMMA SendPort ==
    ASSUME TypeOK, SendInv, TxSend, NEW q \in Ports, PortInv(q)
    PROVE  PortInv(q)'
<1>1. /\ UNCHANGED <<queue, to_consume_port_seq, txPkt, pkt, enq, frags,
                     fragment, port_sequence, cpc>>
      /\ txpc = "send" /\ txpc' = "size"
      /\ wire' = [wire EXCEPT ![txPkt.port] = Append(@, txPkt)]
  BY DEF TxSend, TxUnchanged, cliVars, bufVars, txVars
<1>2. /\ txPkt \in Packet /\ txPkt.port \in Ports /\ wire[q] \in Seq(Packet)
      /\ Len(wire[q]) \in Nat /\ enq[q] \in Nat /\ frags[q] \in Nat
      /\ fragment[q] \in Nat
  <2>1. txPkt \in Packet /\ wire[q] \in Seq(Packet)
    BY PortTypes
  <2>2. txPkt.port \in Ports
    BY <2>1 DEF Packet
  <2>3. Len(wire[q]) \in Nat
    BY <2>1
  <2> QED BY <2>1, <2>2, <2>3, PortTypes
<1>3. CASE txPkt.port # q
  <2>1. wire'[q] = wire[q] /\ InFlight(q) = 0 /\ InFlight(q)' = 0
    BY <1>1, <1>3 DEF InFlight, TypeOK, TypePackets
  <2> QED BY <1>1, <2>1 DEF PortInv, QueueInv, PendingInv, CountInv, RoomInv,
                            WireInv, Writing, Pending, Gone
<1>4. CASE txPkt.port = q
  <2>1. wire'[q] = Append(wire[q], txPkt)
    BY <1>1, <1>4, <1>2 DEF TypeOK, TypePackets
  <2>2. /\ Len(wire'[q]) = Len(wire[q]) + 1
        /\ \A i \in 1 .. Len(wire[q]) : wire'[q][i] = wire[q][i]
        /\ wire'[q][Len(wire[q]) + 1] = txPkt
    BY <1>2, <2>1
  <2>3. Gone(q)' = Gone(q)
    BY <1>1, <1>2, <1>4, <2>2 DEF Gone, InFlight
  <2>4. WireInv(q)'
    <3>1. txPkt.n = Len(wire[q]) + 1
      BY <1>1, <1>4 DEF SendInv
    <3>2. SUFFICES ASSUME NEW i \in 1 .. Len(wire[q]) + 1
                   PROVE  wire'[q][i].n = i
      BY <2>2 DEF WireInv
    <3>3. CASE i \in 1 .. Len(wire[q])
      BY <2>2, <3>3 DEF PortInv, WireInv
    <3>4. CASE i = Len(wire[q]) + 1
      BY <2>2, <3>1, <3>4
    <3> QED BY <1>2, <3>3, <3>4
  <2>5. RoomInv(q)'
    <3>1. \A e, w, b, f, g \in Nat :
             /\ e + g <= w + b + f => e + g <= (w + 1) + b + f
             /\ e <= w + b => e <= (w + 1) + b
      OBVIOUS
    <3> QED BY <1>1, <1>2, <2>2, <3>1, BoundsAssumption DEF PortInv, RoomInv
  <2> QED BY <1>1, <2>3, <2>4, <2>5
          DEF PortInv, QueueInv, PendingInv, CountInv, Writing, Pending
<1> QED BY <1>3, <1>4

\* All other steps leave packets, numbers and clients alone.
LEMMA OtherFrame ==
    ASSUME TypeOK, NEW q \in Ports,
           \/ TxCheck \/ TxSync \/ TxBlacklist \/ TxAvail \/ TxBlocked \/ TxQueueSize
           \/ TxSleep \/ EnvStep \/ UNCHANGED vars
    PROVE  PortFrame(q)
<1>1. CASE TxCheck \/ TxSync \/ TxBlacklist \/ TxAvail \/ TxBlocked \/ TxQueueSize
              \/ TxSleep
  BY <1>1 DEF TxCheck, TxSync, TxBlacklist, TxAvail, AvailRest, TxBlocked,
     TxQueueSize, TxSleep, TxUnchanged, PortFrame, cliVars, bufVars, wireVars, txVars
<1>2. CASE EnvStep
  <2>1. txpc' = "send" <=> txpc = "send"
    BY <1>2 DEF EnvStep, CbStep, CbLinkUp, CbLinkSync, CbLinkNotify,
       CbPeerSync, CbBufferEmpty, CbChannelNotify, SyncRequest, ScheduleSync,
       Signalled, LinkEvent, LinkDown, LinkUp, PeerSync, ChannelFills,
       ChannelDrains, OnConnected, CleanupClient, SpuriousWakeup, StopBegin, StopStep,
       StopRoutine, StopJoin
  <2> QED BY <1>2, <2>1, EnvFrame DEF PortFrame, cliVars, bufVars, wireVars
<1>3. CASE UNCHANGED vars
  BY <1>3 DEF vars, PortFrame, cliVars, bufVars, wireVars, txVars
<1> QED BY <1>1, <1>2, <1>3

\* Every step keeps the order invariant.
LEMMA FifoStep ==
    ASSUME MaxBacklog <= SeqMod
    PROVE  TypeOK /\ FifoInv /\ [Next]_vars => FifoInv'
<1> SUFFICES ASSUME TypeOK, FifoInv, [Next]_vars PROVE FifoInv'
  OBVIOUS
<1>1. \A q \in Ports : PortInv(q)
  BY DEF FifoInv
<1>2. ASSUME NEW p \in Ports, ClientAction(p) PROVE FifoInv'
  <2>1. SendInv'
    <3>1. wire' = wire /\ txPkt' = txPkt
      BY <1>2, ClientFrame DEF wireVars
    <3>2. txpc' = "send" => txpc = "send"
      BY <1>2 DEF ClientAction, ClientStep, ClientSend, CheckState, CheckQueue,
         CheckChannel, EnqueueHeader, WriteLock, WriteCompare, SignalTx, SignalRest,
         Signalled
    <3> QED BY <3>1, <3>2 DEF FifoInv, SendInv
  <2>2. ASSUME NEW q \in Ports PROVE PortInv(q)'
    <3>1. CASE q = p
      BY <1>1, <1>2, <3>1, ClientPort
    <3>2. CASE q # p
      BY <1>1, <1>2, <3>2, ClientPortFrame, FrameKeeps
    <3> QED BY <3>1, <3>2
  <2> QED BY <2>1, <2>2 DEF FifoInv
<1>3. ASSUME NEW p \in Ports, TxPop(p) PROVE FifoInv'
  <2>1. ASSUME NEW q \in Ports PROVE PortInv(q)'
    BY <1>1, <1>3, PopPort, PopOther
  <2> QED BY <1>1, <1>3, <2>1, PopPort DEF FifoInv
<1>4. CASE TxSend
  <2>1. ASSUME NEW q \in Ports PROVE PortInv(q)'
    BY <1>1, <1>4, SendPort DEF FifoInv
  <2>2. SendInv'
    BY <1>4 DEF SendInv, TxSend
  <2> QED BY <2>1, <2>2 DEF FifoInv
<1>5. CASE \/ TxCheck \/ TxSync \/ TxBlacklist \/ TxAvail \/ TxBlocked \/ TxQueueSize
           \/ TxSleep \/ EnvStep \/ UNCHANGED vars
  <2>1. ASSUME NEW q \in Ports PROVE PortFrame(q)
    BY <1>5, OtherFrame
  <2>2. SendInv'
    <3>1. PICK q \in Ports : TRUE
      BY PortsAssumption
    <3> QED BY <2>1, <3>1 DEF FifoInv, SendInv, PortFrame
  <2> QED BY <1>1, <2>1, <2>2, FrameKeeps DEF FifoInv
<1> QED BY <1>2, <1>3, <1>4, <1>5, Steps DEF TxStep

\* Each port is a FIFO, exactly once, for any number of ports and packets and
\* any width, as long as no client has more than SeqMod (256) packets
\* enqueued and not yet sent.
THEOREM FifoCorrect ==
    ASSUME MaxBacklog <= SeqMod
    PROVE  Spec => []FifoPerPort
<1>1. FifoInv => FifoPerPort
  BY DEF FifoInv, PortInv, WireInv, FifoPerPort
<1>2. TypeOK /\ FifoInv /\ [Next]_vars => FifoInv'
  BY FifoStep
<1> QED BY <1>1, <1>2, FifoInit, TypeCorrect, PTL DEF Spec

-----------------------------------------------------------------------------
(***************************************************************************)
(* The invariant behind FragmentsContiguous: the fragment numbers of a     *)
(* port go on from what the transmission thread took last, through the     *)
(* queue and the packet in the hand of the client, to the fragment that    *)
(* the client is at.                                                       *)
(***************************************************************************)
\* The fragment number that follows a packet
NextSub(k) == IF k.more THEN k.sub + 1 ELSE 0

\* The one that a port goes on with: in its queue, behind its queue, and for
\* the next packet that its client numbers
HeadSub(q) == IF txPkt.port = q THEN NextSub(txPkt) ELSE 0
EndSub(q) == IF queue[q] = << >> THEN HeadSub(q)
                                 ELSE NextSub(queue[q][Len(queue[q])])
TailSub(q) == IF Writing(q) THEN NextSub(pkt[q]) ELSE EndSub(q)

\* The fragment that the client is at, 0 between two messages
Due(q) == IF cpc[q] # "idle" /\ fragment[q] < frags[q] THEN fragment[q] ELSE 0

\* Once active is cleared a message may stay unfinished, but nothing is
\* enqueued behind it
ChainInv(q) ==
    /\ \A i \in 1 .. Len(queue[q]) :
         queue[q][i].sub = IF i = 1 THEN HeadSub(q) ELSE NextSub(queue[q][i - 1])
    /\ Writing(q) => pkt[q].sub = EndSub(q)
    /\ active => TailSub(q) = Due(q)
    /\ cpc[q] \in {"state", "space", "channel"} => fragment[q] = 0

\* b may leave directly after a
Continues(a, b) ==
    IF a.more THEN b.port = a.port /\ b.sub = a.sub + 1 /\ b.gseq = a.gseq
              ELSE b.sub = 0 /\ b.gseq = Inc(a.gseq)

\* The members sendingFragments, currentPort and global_seq_num say what the
\* packet taken last said
LastInv ==
    /\ sendingFragments = txPkt.more
    /\ sendingFragments => currentPort = txPkt.port
    /\ global_seq_num = IF txPkt.more THEN txPkt.gseq ELSE Inc(txPkt.gseq)
    /\ IF txpc = "send" THEN Continues(last, txPkt) ELSE last = txPkt

FragmentInv == LastInv /\ \A q \in Ports : ChainInv(q)

\* Initially nothing was taken, and the first number is 0.
LEMMA FragmentInit == Init => FragmentInv
<1> SUFFICES ASSUME Init PROVE FragmentInv
  OBVIOUS
<1> DEFINE o == CHOOSE p \in Ports : TRUE
<1>1. /\ txPkt = NoPacket(o) /\ last = txPkt /\ txpc = "lock"
      /\ sendingFragments = FALSE /\ global_seq_num = 0
  BY DEF Init
<1>2. txPkt.more = FALSE /\ txPkt.gseq = SeqMod - 1
  BY <1>1 DEF NoPacket
<1>3. Inc(SeqMod - 1) = 0
  BY SeqModAssumption DEF Inc
<1>4. LastInv
  BY <1>1, <1>2, <1>3 DEF LastInv
<1>5. ASSUME NEW q \in Ports PROVE ChainInv(q)
  <2>1. HeadSub(q) = 0
    BY <1>2 DEF HeadSub, NextSub
  <2>2. queue[q] = << >> /\ cpc[q] = "idle"
    BY DEF Init
  <2> QED BY <2>1, <2>2 DEF ChainInv, EndSub, TailSub, Due, Writing
<1> QED BY <1>4, <1>5 DEF FragmentInv

\* Nobody starts the module again.
LEMMA ActiveStays == [Next]_vars => (active' => active)
<1> SUFFICES ASSUME [Next]_vars PROVE active' => active
  OBVIOUS
<1>1. ASSUME NEW p \in Ports, ClientAction(p) PROVE active' => active
  BY <1>1, ClientFrame
<1>2. CASE TxStep
  BY <1>2 DEF TxStep, TxCheck, TxSync, TxBlacklist, TxAvail, AvailRest, TxBlocked,
     TxPop, TxSend, TxQueueSize, TxSleep, txVars
<1>3. CASE EnvStep
  BY <1>3 DEF EnvStep, CbStep, CbLinkUp, CbLinkSync, CbLinkNotify, CbPeerSync,
     CbBufferEmpty, CbChannelNotify, SyncRequest, LinkEvent, LinkDown, LinkUp,
     PeerSync, ChannelFills, ChannelDrains, OnConnected, CleanupClient,
     SpuriousWakeup, StopBegin, StopStep, StopRoutine, StopJoin, CbUnchanged
<1>4. CASE UNCHANGED vars
  BY <1>4 DEF vars, txVars
<1> QED BY <1>1, <1>2, <1>3, <1>4, Steps

\* A step that leaves the packets and the client of a port alone keeps its
\* chain of fragments.
LEMMA ChainKept ==
    ASSUME NEW q \in Ports, ChainInv(q), active' => active, txPkt' = txPkt,
           queue'[q] = queue[q], pkt'[q] = pkt[q], cpc'[q] = cpc[q],
           frags'[q] = frags[q], fragment'[q] = fragment[q]
    PROVE  ChainInv(q)'
<1>1. HeadSub(q)' = HeadSub(q)
  BY DEF HeadSub, NextSub
<1>2. EndSub(q)' = EndSub(q)
  BY <1>1 DEF EndSub, NextSub
<1>3. TailSub(q)' = TailSub(q) /\ Writing(q)' = Writing(q)
  BY <1>2 DEF TailSub, Writing, NextSub
<1>4. Due(q)' = Due(q)
  BY DEF Due
<1> QED BY <1>1, <1>2, <1>3, <1>4 DEF ChainInv, NextSub

\* The steps of a client keep the chain of its port.
LEMMA ChainClient ==
    ASSUME TypeOK, NEW p \in Ports, ClientAction(p), PortInv(p), ChainInv(p),
           MaxBacklog <= SeqMod
    PROVE  ChainInv(p)'
<1>1. /\ queue[p] \in Seq(Packet) /\ pkt[p] \in Packet /\ cpc[p] \in ClientLabels
      /\ frags[p] \in Nat /\ fragment[p] \in Nat
  BY PortTypes
<1>2. txPkt' = txPkt /\ active' = active
  BY ClientFrame
<1>3. HeadSub(p)' = HeadSub(p)
  BY <1>2 DEF HeadSub, NextSub
<1>4. ASSUME queue'[p] = queue[p]
      PROVE  /\ EndSub(p)' = EndSub(p)
             /\ \A i \in 1 .. Len(queue'[p]) :
                  queue'[p][i].sub = IF i = 1 THEN HeadSub(p)' ELSE NextSub(queue'[p][i - 1])
  BY <1>3, <1>4 DEF EndSub, NextSub, ChainInv
<1>5. ASSUME NEW k \in 1 .. MaxFragments + 1, ClientSend(p, k) PROVE ChainInv(p)'
  <2>1. /\ queue' = queue /\ pkt' = pkt /\ cpc[p] = "idle"
        /\ \/ cpc'[p] = "state" /\ frags'[p] = k /\ fragment'[p] = 0
           \/ cpc'[p] = "idle" /\ UNCHANGED <<frags, fragment>>
    BY <1>5 DEF ClientSend, Goto, Refuse, bufVars, TypeOK, TypeClient
  <2>2. Due(p) = 0 /\ Due(p)' = 0
    BY <2>1 DEF Due
  <2>3. ~ Writing(p) /\ ~ Writing(p)'
    BY <2>1 DEF Writing
  <2>4. TailSub(p)' = TailSub(p)
    BY <1>4, <2>1, <2>3 DEF TailSub
  <2> QED BY <1>2, <1>4, <2>1, <2>2, <2>3, <2>4 DEF ChainInv
<1>6. CASE CheckState(p) \/ CheckQueue(p) \/ CheckChannel(p)
  <2>1. /\ queue' = queue /\ pkt' = pkt /\ frags' = frags /\ fragment' = fragment
        /\ cpc[p] \in {"state", "space", "channel"}
        /\ cpc'[p] \in {"space", "channel", "header", "idle"}
    BY <1>6 DEF CheckState, CheckQueue, CheckChannel, Goto, Refuse, bufVars, TypeOK,
                TypeClient
  <2>2. fragment[p] = 0
    BY <2>1 DEF ChainInv
  <2>3. Due(p) = 0 /\ Due(p)' = 0
    BY <2>1, <2>2 DEF Due
  <2>4. ~ Writing(p) /\ ~ Writing(p)'
    BY <2>1 DEF Writing
  <2>5. TailSub(p)' = TailSub(p)
    BY <1>4, <2>1, <2>4 DEF TailSub
  <2> QED BY <1>2, <1>4, <2>1, <2>2, <2>3, <2>4, <2>5 DEF ChainInv
<1>7. CASE EnqueueHeader(p) /\ ~ active
  <2>1. queue' = queue /\ cpc'[p] = "idle"
    BY <1>7 DEF EnqueueHeader, Goto, Refuse, bufVars, TypeOK, TypeClient
  <2>2. ~ Writing(p)'
    BY <2>1 DEF Writing
  <2> QED BY <1>2, <1>4, <1>7, <2>1, <2>2 DEF ChainInv
<1>8. CASE EnqueueHeader(p) /\ active
  <2>1. /\ queue' = queue /\ frags' = frags /\ cpc[p] = "header" /\ cpc'[p] = "write"
        /\ pkt'[p].sub = fragment[p]
        /\ pkt'[p].more = (fragment[p] + 1 < frags[p])
        /\ fragment'[p] = fragment[p] + 1
    BY <1>8 DEF EnqueueHeader, Goto, bufVars, TypeOK, TypeClient, TypePackets
  <2>2. fragment[p] < frags[p]
    BY <2>1 DEF PortInv, RoomInv
  <2>3. ~ Writing(p) /\ Writing(p)'
    BY <2>1 DEF Writing
  <2>4. EndSub(p) = fragment[p]
    <3>1. TailSub(p) = EndSub(p)
      BY <2>3 DEF TailSub
    <3>2. Due(p) = fragment[p]
      BY <2>1, <2>2 DEF Due
    <3> QED BY <1>8, <3>1, <3>2 DEF ChainInv
  <2>5. TailSub(p)' = Due(p)'
    <3>1. TailSub(p)' = IF fragment[p] + 1 < frags[p] THEN fragment[p] + 1 ELSE 0
      BY <2>1, <2>3 DEF TailSub, NextSub
    <3>2. Due(p)' = IF fragment[p] + 1 < frags[p] THEN fragment[p] + 1 ELSE 0
      BY <2>1 DEF Due
    <3> QED BY <3>1, <3>2
  <2>6. pkt'[p].sub = EndSub(p)'
    BY <1>4, <2>1, <2>4
  <2>7. cpc'[p] \notin {"state", "space", "channel"}
    BY <2>1
  <2> QED BY <1>4, <2>1, <2>5, <2>6, <2>7 DEF ChainInv
<1>9. ASSUME queue'[p] = Append(queue[p], pkt[p]), Writing(p), cpc'[p] = "signal",
             UNCHANGED <<pkt, frags, fragment>>
      PROVE  ChainInv(p)'
  <2> DEFINE l == Len(queue[p])
  <2>1. /\ l \in Nat /\ Len(queue'[p]) = l + 1
        /\ \A i \in 1 .. l : queue'[p][i] = queue[p][i]
        /\ queue'[p][l + 1] = pkt[p] /\ queue'[p] # << >>
        /\ queue[p] = << >> <=> l = 0
    BY <1>1, <1>9
  <2>2. pkt[p].sub = EndSub(p) /\ TailSub(p) = NextSub(pkt[p])
    BY <1>9 DEF ChainInv, TailSub
  <2>3. ASSUME NEW i \in 1 .. l + 1
        PROVE  queue'[p][i].sub = IF i = 1 THEN HeadSub(p) ELSE NextSub(queue'[p][i - 1])
    <3>1. CASE i \in 1 .. l
      <4>1. i = 1 \/ i - 1 \in 1 .. l
        BY <2>1, <3>1
      <4>2. queue[p][i].sub = IF i = 1 THEN HeadSub(p) ELSE NextSub(queue[p][i - 1])
        BY <3>1 DEF ChainInv
      <4> QED BY <2>1, <3>1, <4>1, <4>2
    <3>2. CASE i = l + 1 /\ l = 0
      <4>1. i = 1 /\ EndSub(p) = HeadSub(p)
        BY <2>1, <3>2 DEF EndSub
      <4> QED BY <2>1, <2>2, <3>2, <4>1
    <3>3. CASE i = l + 1 /\ l # 0
      <4>1. i # 1 /\ i - 1 = l /\ l \in 1 .. l
        BY <2>1, <3>3
      <4>2. EndSub(p) = NextSub(queue[p][l])
        BY <2>1, <3>3 DEF EndSub
      <4> QED BY <2>1, <2>2, <3>3, <4>1, <4>2
    <3> QED BY <2>1, <3>1, <3>2, <3>3
  <2>4. EndSub(p)' = NextSub(pkt[p])
    BY <2>1 DEF EndSub, NextSub
  <2>5. ~ Writing(p)'
    BY <1>9 DEF Writing
  <2>6. TailSub(p)' = TailSub(p)
    BY <2>2, <2>4, <2>5 DEF TailSub
  <2>7. Due(p)' = Due(p)
    BY <1>9 DEF Due, Writing
  <2>8. \A i \in 1 .. Len(queue'[p]) :
           queue'[p][i].sub = IF i = 1 THEN HeadSub(p)' ELSE NextSub(queue'[p][i - 1])
    BY <1>3, <2>1, <2>3
  <2> QED BY <1>2, <1>9, <2>5, <2>6, <2>7, <2>8 DEF ChainInv
<1>10. CASE WriteLock(p) /\ queue[p] = << >>
  <2>1. /\ queue'[p] = <<pkt[p]>> /\ Writing(p) /\ cpc'[p] = "signal"
        /\ UNCHANGED <<pkt, frags, fragment>>
    BY <1>10 DEF WriteLock, Goto, Writing, TypeOK, TypeClient, TypePackets
  <2>2. Append(queue[p], pkt[p]) = <<pkt[p]>>
    BY <1>10
  <2> QED BY <1>9, <2>1, <2>2
<1>11. CASE WriteLock(p) /\ queue[p] # << >>
  <2>1. /\ queue' = queue /\ pkt' = pkt /\ frags' = frags /\ fragment' = fragment
        /\ cpc[p] = "write" /\ cpc'[p] = "compare"
    BY <1>11 DEF WriteLock, Goto, bufVars, TypeOK, TypeClient
  <2>2. Writing(p) /\ Writing(p)' /\ Due(p)' = Due(p)
    BY <2>1 DEF Writing, Due
  <2>3. TailSub(p)' = TailSub(p)
    BY <2>1, <2>2 DEF TailSub, NextSub
  <2> QED BY <1>2, <1>4, <2>1, <2>2, <2>3 DEF ChainInv
<1>12. CASE WriteCompare(p)
  <2>1. /\ Writing(p) /\ cpc'[p] = "signal" /\ UNCHANGED <<pkt, frags, fragment>>
    BY <1>12 DEF WriteCompare, Goto, Writing, TypeOK, TypeClient
  <2>2. queue'[p] = Append(queue[p], pkt[p])
    BY <1>12, CompareAppends
  <2> QED BY <1>9, <2>1, <2>2
<1>13. CASE SignalTx(p)
  <2>1. /\ queue' = queue /\ frags' = frags /\ fragment' = fragment /\ cpc[p] = "signal"
        /\ cpc'[p] = IF fragment[p] < frags[p] THEN "header" ELSE "idle"
    BY <1>13 DEF SignalTx, SignalRest, Goto, bufVars, TypeOK, TypeClient
  <2>2. ~ Writing(p) /\ ~ Writing(p)' /\ Due(p)' = Due(p)
    BY <2>1 DEF Writing, Due
  <2>3. TailSub(p)' = TailSub(p)
    BY <1>4, <2>1, <2>2 DEF TailSub
  <2>4. cpc'[p] \notin {"state", "space", "channel"}
    BY <2>1
  <2> QED BY <1>2, <1>4, <2>1, <2>2, <2>3, <2>4 DEF ChainInv
<1> QED BY <1>5, <1>6, <1>7, <1>8, <1>10, <1>11, <1>12, <1>13 DEF ClientAction, ClientStep

\* What is left of a queue without its head ends as the queue did.
LEMMA TailEnd ==
    ASSUME NEW S, NEW s \in Seq(S), s # << >>
    PROVE  /\ Len(s) = 1 => Tail(s) = << >>
           /\ Len(s) # 1 => Tail(s) # << >> /\ Tail(s)[Len(Tail(s))] = s[Len(s)]
<1> DEFINE n == Len(s)
           t == Tail(s)
<1>1. n \in Nat /\ n > 0 /\ t \in Seq(S) /\ Len(t) = n - 1
  OBVIOUS
<1>2. \A i \in 1 .. n - 1 : t[i] = s[i + 1]
  OBVIOUS
<1>3. \A u \in Seq(S) : Len(u) = 0 <=> u = << >>
  OBVIOUS
<1> HIDE DEF n, t
<1>4. t = << >> <=> n = 1
  BY <1>1, <1>3
<1>5. ASSUME n # 1 PROVE t[Len(t)] = s[n]
  <2>1. n - 1 \in 1 .. n - 1 /\ (n - 1) + 1 = n
    BY <1>1, <1>5
  <2> QED BY <1>1, <1>2, <2>1
<1> QED BY <1>4, <1>5 DEF n, t

\* The packet that is taken goes on with the message that was begun, or
\* begins one; its port goes on behind it.
LEMMA FragmentPop ==
    ASSUME TypeOK, FifoInv, FragmentInv, active' => active, NEW p \in Ports, TxPop(p)
    PROVE  FragmentInv'
<1> DEFINE q == queue[p]
           h == queue[p][1]
           l == Len(queue[p])
<1>1. /\ q # << >> /\ q \in Seq(Packet) /\ h \in Packet /\ Head(q) = h
      /\ l \in Nat /\ l > 0 /\ Len(Tail(q)) = l - 1
      /\ \A i \in 1 .. l - 1 : Tail(q)[i] = q[i + 1]
  <2>1. q # << >> /\ q \in Seq(Packet)
    BY PoppedHead
  <2> QED BY <2>1
<1>2. /\ txPkt' = [h EXCEPT !.gseq = global_seq_num]
      /\ queue' = [queue EXCEPT ![p] = Tail(q)]
      /\ currentPort' = p /\ sendingFragments' = h.more
      /\ global_seq_num' = IF h.more THEN global_seq_num ELSE Inc(global_seq_num)
      /\ txpc = "pop" /\ txpc' = "send" /\ last' = last
      /\ UNCHANGED <<cpc, frags, fragment, pkt>> /\ NextPort(p)
  BY <1>1 DEF TxPop, TxUnchanged, cliVars, wireVars
<1>3. h.port = p
  BY <1>1 DEF FifoInv, PortInv, QueueInv
<1>4. /\ txPkt'.port = p /\ txPkt'.more = h.more /\ txPkt'.sub = h.sub
      /\ txPkt'.gseq = global_seq_num
  BY <1>1, <1>2, <1>3 DEF Packet
<1>5. /\ last = txPkt /\ sendingFragments = txPkt.more
      /\ sendingFragments => currentPort = txPkt.port
      /\ global_seq_num = IF txPkt.more THEN txPkt.gseq ELSE Inc(txPkt.gseq)
  BY <1>2 DEF FragmentInv, LastInv
<1>6. txPkt.more => p = txPkt.port
  BY <1>2, <1>5 DEF NextPort, Candidates
<1>7. h.sub = HeadSub(p)
  <2>1. 1 \in 1 .. l
    BY <1>1
  <2> QED BY <2>1 DEF FragmentInv, ChainInv
<1>8. Continues(last, txPkt)'
  <2>1. CASE txPkt.more
    BY <1>2, <1>4, <1>5, <1>6, <1>7, <2>1 DEF Continues, HeadSub, NextSub
  <2>2. CASE ~ txPkt.more
    BY <1>2, <1>4, <1>5, <1>7, <2>2 DEF Continues, HeadSub, NextSub
  <2> QED BY <2>1, <2>2
<1>9. LastInv'
  BY <1>2, <1>4, <1>8 DEF LastInv
<1>10. queue'[p] = Tail(q) /\ \A r \in Ports : r # p => queue'[r] = queue[r]
  BY <1>2 DEF TypeOK, TypePackets
<1>11. ASSUME NEW r \in Ports, r # p PROVE ChainInv(r)'
  <2>1. HeadSub(r) = 0
    BY <1>6, <1>11 DEF HeadSub, NextSub
  <2>2. HeadSub(r)' = HeadSub(r)
    BY <1>4, <1>11, <2>1 DEF HeadSub
  <2>3. EndSub(r)' = EndSub(r)
    BY <1>10, <1>11, <2>2 DEF EndSub, NextSub
  <2>4. TailSub(r)' = TailSub(r) /\ Writing(r)' = Writing(r) /\ Due(r)' = Due(r)
    BY <1>2, <2>3 DEF TailSub, Writing, NextSub, Due
  <2>5. ChainInv(r)
    BY DEF FragmentInv
  <2> QED BY <1>2, <1>10, <1>11, <2>2, <2>3, <2>4, <2>5 DEF ChainInv, NextSub
<1>12. ChainInv(p)'
  <2>1. HeadSub(p)' = NextSub(h)
    BY <1>4 DEF HeadSub, NextSub
  <2>2. EndSub(p) = NextSub(q[l])
    BY <1>1 DEF EndSub
  <2>3. EndSub(p)' = NextSub(q[l])
    <3>1. CASE l = 1
      <4>1. Tail(q) = << >> /\ q[l] = h
        BY <1>1, <3>1, TailEnd
      <4> QED BY <1>10, <2>1, <4>1 DEF EndSub, NextSub
    <3>2. CASE l # 1
      <4>1. Tail(q) # << >> /\ Tail(q)[Len(Tail(q))] = q[l]
        BY <1>1, <3>2, TailEnd
      <4> QED BY <1>10, <4>1 DEF EndSub, NextSub
    <3> QED BY <3>1, <3>2
  <2>4. TailSub(p)' = TailSub(p) /\ Writing(p)' = Writing(p) /\ Due(p)' = Due(p)
    BY <1>2, <2>2, <2>3 DEF TailSub, Writing, NextSub, Due
  <2>5. ChainInv(p)
    BY DEF FragmentInv
  <2>6. ASSUME NEW i \in 1 .. l - 1
        PROVE  Tail(q)[i].sub = IF i = 1 THEN NextSub(h) ELSE NextSub(Tail(q)[i - 1])
    <3>1. i + 1 \in 1 .. l /\ i + 1 # 1 /\ (i + 1) - 1 = i
      BY <1>1
    <3>2. q[i + 1].sub = NextSub(q[i])
      BY <2>5, <3>1 DEF ChainInv
    <3>3. i = 1 \/ (i - 1 \in 1 .. l - 1 /\ (i - 1) + 1 = i)
      BY <1>1
    <3> QED BY <1>1, <3>2, <3>3
  <2>7. \A i \in 1 .. Len(queue'[p]) :
           queue'[p][i].sub = IF i = 1 THEN HeadSub(p)' ELSE NextSub(queue'[p][i - 1])
    BY <1>1, <1>10, <2>1, <2>6
  <2> QED BY <1>2, <2>2, <2>3, <2>4, <2>5, <2>7 DEF ChainInv
<1> QED BY <1>9, <1>11, <1>12 DEF FragmentInv

\* Every step keeps the chains of fragments.
LEMMA FragmentStep ==
    ASSUME MaxBacklog <= SeqMod
    PROVE  TypeOK /\ FifoInv /\ FragmentInv /\ [Next]_vars => FragmentInv'
<1> SUFFICES ASSUME TypeOK, FifoInv, FragmentInv, [Next]_vars PROVE FragmentInv'
  OBVIOUS
<1>1. active' => active
  BY ActiveStays
<1>2. LastInv /\ \A q \in Ports : PortInv(q) /\ ChainInv(q)
  BY DEF FifoInv, FragmentInv
<1>3. ASSUME NEW p \in Ports, ClientAction(p) PROVE FragmentInv'
  <2>1. UNCHANGED <<last, sendingFragments, currentPort, global_seq_num, txPkt>>
    BY <1>3, ClientFrame
  <2>2. txpc' = "send" <=> txpc = "send"
    BY <1>3 DEF ClientAction, ClientStep, ClientSend, CheckState, CheckQueue,
       CheckChannel, EnqueueHeader, WriteLock, WriteCompare, SignalTx, SignalRest,
       Signalled
  <2>3. LastInv'
    BY <1>2, <2>1, <2>2 DEF LastInv, Continues
  <2>4. ASSUME NEW q \in Ports PROVE ChainInv(q)'
    <3>1. CASE q = p
      BY <1>2, <1>3, <3>1, ChainClient
    <3>2. CASE q # p
      <4>1. PortFrame(q)
        BY <1>3, <3>2, ClientPortFrame
      <4> QED BY <1>1, <1>2, <4>1, ChainKept DEF PortFrame
    <3> QED BY <3>1, <3>2
  <2> QED BY <2>3, <2>4 DEF FragmentInv
<1>4. ASSUME NEW p \in Ports, TxPop(p) PROVE FragmentInv'
  BY <1>1, <1>4, FragmentPop
<1>5. CASE TxSend
  <2>1. /\ txpc' = "size" /\ last' = txPkt
        /\ UNCHANGED <<sendingFragments, currentPort, global_seq_num, txPkt>>
        /\ UNCHANGED <<queue, pkt, cpc, frags, fragment>>
    BY <1>5 DEF TxSend, TxUnchanged, txVars, bufVars, cliVars
  <2>2. LastInv'
    BY <1>2, <2>1 DEF LastInv
  <2> QED BY <1>1, <1>2, <2>1, <2>2, ChainKept DEF FragmentInv
<1>6. CASE \/ TxCheck \/ TxSync \/ TxBlacklist \/ TxAvail \/ TxBlocked \/ TxQueueSize
           \/ TxSleep \/ EnvStep \/ UNCHANGED vars
  <2>1. ASSUME NEW q \in Ports PROVE PortFrame(q)
    BY <1>6, OtherFrame
  <2>2. UNCHANGED <<last, sendingFragments, currentPort, global_seq_num>>
    BY <1>6, EnvFrame DEF TxCheck, TxSync, TxBlacklist, TxAvail, AvailRest, TxBlocked,
       TxQueueSize, TxSleep, wireVars, txVars, vars
  <2>3. txPkt' = txPkt /\ (txpc' = "send" <=> txpc = "send")
    <3>1. PICK q \in Ports : TRUE
      BY PortsAssumption
    <3> QED BY <2>1, <3>1 DEF PortFrame
  <2>4. LastInv'
    BY <1>2, <2>2, <2>3 DEF LastInv, Continues
  <2>5. ASSUME NEW q \in Ports PROVE ChainInv(q)'
    BY <1>1, <1>2, <2>1, ChainKept DEF PortFrame
  <2> QED BY <2>4, <2>5 DEF FragmentInv
<1> QED BY <1>3, <1>4, <1>5, <1>6, Steps DEF TxStep

\* Only sendFrame changes last, and what it sends continues the message that
\* was sent last, or begins one under the next global number.
LEMMA LastStep == FragmentInv /\ [Next]_vars => (last' # last => Continues(last, last'))
<1> SUFFICES ASSUME FragmentInv, [Next]_vars, last' # last
             PROVE  Continues(last, last')
  OBVIOUS
<1>1. ASSUME NEW p \in Ports, ClientAction(p) PROVE FALSE
  BY <1>1, ClientFrame
<1>2. CASE EnvStep \/ UNCHANGED vars
  BY <1>2, EnvFrame DEF vars, wireVars
<1>3. CASE TxSend
  BY <1>3 DEF TxSend, FragmentInv, LastInv
<1>4. CASE TxStep /\ ~ TxSend
  BY <1>4 DEF TxStep, TxCheck, TxSync, TxBlacklist, TxAvail, AvailRest, TxBlocked,
     TxPop, TxQueueSize, TxSleep, wireVars
<1> QED BY <1>1, <1>2, <1>3, <1>4, Steps

\* The fragments of a message leave together and under one global number, for
\* any number of ports, message sizes and events, as long as no client has
\* more packets pending than there are sequence numbers.
THEOREM FragmentsTogether ==
    ASSUME MaxBacklog <= SeqMod
    PROVE  Spec => FragmentsContiguous
<1>1. TypeOK /\ FifoInv /\ [Next]_vars => FifoInv'
  BY FifoStep
<1>2. TypeOK /\ FifoInv /\ FragmentInv /\ [Next]_vars => FragmentInv'
  BY FragmentStep
<1>3. FragmentInv /\ [Next]_vars =>
        [last' # last =>
           IF last.more
             THEN /\ last'.port = last.port /\ last'.sub = last.sub + 1
                  /\ last'.gseq = last.gseq
             ELSE last'.sub = 0 /\ last'.gseq = Inc(last.gseq)]_vars
  BY LastStep DEF Continues
<1> QED BY <1>1, <1>2, <1>3, FifoInit, FragmentInit, TypeCorrect, PTL
        DEF Spec, FragmentsContiguous

-----------------------------------------------------------------------------
(***************************************************************************)
(* The invariant behind PayloadIntact: which piece of its message a packet *)
(* carries, dataPtr having been advanced by all that was written so far.   *)
(***************************************************************************)
\* c = 0 + 1 + ... + s
Triangular(c, s) == 2 * c = s * (s + 1)

CutPacket == {k \in Packet : Triangular(k.chunk, k.sub) /\ k.sub < MaxFragments}

CutPackets ==
    /\ txPkt \in CutPacket /\ pkt \in [Ports -> CutPacket]
    /\ queue \in [Ports -> Seq(CutPacket)] /\ wire \in [Ports -> Seq(CutPacket)]

PointerInv(q) ==
    /\ Triangular(dataPtr[q], fragment[q])
    /\ cpc[q] \in {"state", "space", "channel"} => fragment[q] = 0 /\ frags[q] > 0
    /\ cpc[q] = "header" => fragment[q] < frags[q]
    /\ cpc[q] \in {"header", "write", "compare", "signal"} => frags[q] <= MaxFragments

\* Fragment number k of a message carries its piece k (k + 1) / 2, whatever
\* the number of fragments (fragmentPayload).
PiecesTriangular ==
    \A p \in Ports : \A i \in 1 .. Len(wire[p]) :
        Triangular(wire[p][i].chunk, wire[p][i].sub)

PayloadInv == CutPackets /\ \A q \in Ports : PointerInv(q)

\* The running sum, its first values and its next one.
LEMMA TriangularStart ==
    Triangular(0, 0) /\ \A c \in Nat : \A s \in {0, 1} : Triangular(c, s) => c = s
BY DEF Triangular

LEMMA TriangularNext ==
    ASSUME NEW c \in Nat, NEW s \in Nat, Triangular(c, s)
    PROVE  Triangular(c + s + 1, s + 1)
<1>1. (s + 1) * ((s + 1) + 1) = s * (s + 1) + 2 * (s + 1)
  OBVIOUS
<1>2. 2 * (c + s + 1) = 2 * c + 2 * (s + 1)
  OBVIOUS
<1> QED BY <1>1, <1>2 DEF Triangular

\* A packet that is not in use carries nothing.
LEMMA EmptyCut == ASSUME NEW p \in Ports PROVE NoPacket(p) \in CutPacket
<1>1. NoPacket(p) \in Packet
  BY SeqModAssumption DEF NoPacket, Packet, SeqNums
<1>2. NoPacket(p).chunk = 0 /\ NoPacket(p).sub = 0
  BY DEF NoPacket
<1> QED BY <1>1, <1>2, TriangularStart, BoundsAssumption DEF CutPacket

\* Initially no packet carries anything.
LEMMA PayloadInit == Init => PayloadInv
<1> SUFFICES ASSUME Init PROVE PayloadInv
  OBVIOUS
<1>1. ASSUME NEW p \in Ports PROVE NoPacket(p) \in CutPacket
  BY EmptyCut
<1>2. (CHOOSE p \in Ports : TRUE) \in Ports
  BY PortsAssumption
<1>3. CutPackets
  BY <1>1, <1>2 DEF Init, CutPackets
<1>4. \A q \in Ports : PointerInv(q)
  BY TriangularStart DEF Init, PointerInv
<1> QED BY <1>3, <1>4 DEF PayloadInv

\* A client cuts each packet off where the running sum says.
LEMMA PayloadClient ==
    ASSUME TypeOK, PayloadInv, NEW p \in Ports, ClientAction(p)
    PROVE  PayloadInv'
<1>1. /\ fragment \in [Ports -> Nat] /\ frags \in [Ports -> Nat]
      /\ dataPtr \in [Ports -> Nat] /\ cpc \in [Ports -> ClientLabels]
      /\ fragment[p] \in Nat /\ frags[p] \in Nat /\ dataPtr[p] \in Nat
      /\ MaxFragments \in Nat
  BY BoundsAssumption DEF TypeOK, TypeClient
<1>2. PointerInv(p) /\ CutPackets
  BY DEF PayloadInv
<1>3. wire' = wire /\ txPkt' = txPkt
  BY ClientFrame
<1>4. CASE EnqueueHeader(p) /\ active
  <2>1. /\ cpc[p] = "header" /\ fragment[p] < MaxFragments
        /\ Triangular(dataPtr[p], fragment[p])
    BY <1>1, <1>2, <1>4 DEF EnqueueHeader, PointerInv
  <2>2. pkt' \in [Ports -> CutPacket]
    <3>1. TypePackets'
      <4>1. Next
        BY DEF ClientAction, Next
      <4> QED BY <4>1, TypePacketsStep
    <3>2. /\ pkt'[p].chunk = dataPtr[p] /\ pkt'[p].sub = fragment[p]
          /\ \A q \in Ports : q # p => pkt'[q] = pkt[q]
      BY <1>2, <1>4 DEF EnqueueHeader, CutPackets
    <3>3. \A q \in Ports : pkt'[q] \in CutPacket
      BY <1>2, <2>1, <3>1, <3>2 DEF TypePackets, CutPackets, CutPacket
    <3> QED BY <3>1, <3>3 DEF TypePackets
  <2>3. /\ queue' = queue /\ frags' = frags
        /\ cpc' = [cpc EXCEPT ![p] = "write"]
        /\ fragment' = [fragment EXCEPT ![p] = @ + 1]
        /\ dataPtr' = [dataPtr EXCEPT ![p] = AdvancedPtr(@, fragment[p])]
    BY <1>4 DEF EnqueueHeader, Goto, bufVars
  <2>4. PointerInv(p)'
    <3>1. /\ cpc'[p] = "write" /\ frags'[p] = frags[p] /\ fragment'[p] = fragment[p] + 1
          /\ dataPtr'[p] = dataPtr[p] + fragment[p] + 1
      BY <1>1, <2>3 DEF AdvancedPtr
    <3>2. Triangular(dataPtr'[p], fragment'[p])
      BY <1>1, <2>1, <3>1, TriangularNext
    <3>3. frags'[p] <= MaxFragments
      BY <1>2, <2>1, <3>1 DEF PointerInv
    <3> QED BY <3>1, <3>2, <3>3 DEF PointerInv
  <2>5. ASSUME NEW q \in Ports, q # p PROVE PointerInv(q)'
    BY <1>1, <2>3, <2>5 DEF PayloadInv, PointerInv
  <2> QED BY <1>2, <1>3, <2>2, <2>3, <2>4, <2>5 DEF PayloadInv, CutPackets
<1>5. CASE WriteLock(p) \/ WriteCompare(p)
  <2>1. queue' \in [Ports -> Seq(CutPacket)] /\ pkt' = pkt
    <3>1. pkt[p] \in CutPacket /\ queue[p] \in Seq(CutPacket)
      BY <1>2 DEF CutPackets
    <3>2. <<pkt[p]>> \in Seq(CutPacket)
      BY <3>1
    <3>3. Push(queue[p], pkt[p], to_consume_port_seq[p]) \in Seq(CutPacket)
      BY <3>1, PushType
    <3> QED BY <1>2, <1>5, <3>2, <3>3 DEF WriteLock, WriteCompare, bufVars, CutPackets
  <2>2. ASSUME NEW q \in Ports PROVE PointerInv(q)'
    BY <1>1, <1>5 DEF WriteLock, WriteCompare, Goto, PayloadInv, PointerInv
  <2> QED BY <1>2, <1>3, <2>1, <2>2 DEF PayloadInv, CutPackets
<1>6. CASE SignalTx(p)
  <2>1. NoPacket(p) \in CutPacket
    BY EmptyCut
  <2>2. pkt' \in [Ports -> CutPacket] /\ queue' = queue
    BY <1>2, <1>6, <2>1 DEF SignalTx, SignalRest, bufVars, CutPackets
  <2>3. ASSUME NEW q \in Ports PROVE PointerInv(q)'
    BY <1>1, <1>6 DEF SignalTx, SignalRest, Goto, PayloadInv, PointerInv
  <2> QED BY <1>2, <1>3, <2>2, <2>3 DEF PayloadInv, CutPackets
<1>7. ASSUME NEW k \in 1 .. MaxFragments + 1, ClientSend(p, k) PROVE PayloadInv'
  <2>1. queue' = queue /\ pkt' = pkt
    BY <1>7 DEF ClientSend, bufVars
  <2>2. k \in Nat /\ k > 0
    BY <1>1
  <2>3. ASSUME NEW q \in Ports PROVE PointerInv(q)'
    BY <1>1, <1>7, <2>2, TriangularStart DEF ClientSend, Refuse, Goto, PayloadInv,
         PointerInv
  <2> QED BY <1>2, <1>3, <2>1, <2>3 DEF PayloadInv, CutPackets
<1>8. CASE CheckState(p) \/ CheckQueue(p) \/ CheckChannel(p)
           \/ (EnqueueHeader(p) /\ ~ active)
  <2>1. queue' = queue /\ pkt' = pkt
    BY <1>8 DEF CheckState, CheckQueue, CheckChannel, EnqueueHeader, bufVars
  <2>2. ASSUME NEW q \in Ports PROVE PointerInv(q)'
    BY <1>1, <1>8 DEF CheckState, CheckQueue, CheckChannel, EnqueueHeader, Refuse, Goto,
       PayloadInv, PointerInv
  <2> QED BY <1>2, <1>3, <2>1, <2>2 DEF PayloadInv, CutPackets
<1> QED BY <1>4, <1>5, <1>6, <1>7, <1>8 DEF ClientAction, ClientStep

\* The transmission thread and the others hand packets on as they are.
LEMMA PayloadRest ==
    ASSUME TypeOK, PayloadInv, TxStep \/ EnvStep \/ UNCHANGED vars
    PROVE  PayloadInv'
<1>1. UNCHANGED <<cpc, frags, fragment, dataPtr, pkt>>
  BY TxFrame, EnvFrame DEF cliVars, vars
<1>2. \A q \in Ports : PointerInv(q)'
  BY <1>1 DEF PayloadInv, PointerInv
<1>3. CutPackets
  BY DEF PayloadInv
<1>4. ASSUME NEW p \in Ports, TxPop(p) PROVE CutPackets'
  <2>1. queue[p] \in Seq(CutPacket) /\ queue[p] # << >> /\ global_seq_num \in SeqNums
    BY <1>3, <1>4, PoppedHead DEF CutPackets, TypeOK, TypeSequences
  <2>2. Head(queue[p]) \in CutPacket /\ Tail(queue[p]) \in Seq(CutPacket)
    BY <2>1
  <2>3. [Head(queue[p]) EXCEPT !.gseq = global_seq_num] \in CutPacket
    BY <2>1, <2>2 DEF CutPacket, Packet
  <2> QED BY <1>1, <1>3, <1>4, <2>2, <2>3 DEF TxPop, CutPackets, wireVars
<1>5. CASE TxSend
  <2>1. txPkt \in CutPacket /\ txPkt.port \in Ports
    BY <1>3 DEF CutPackets, CutPacket, Packet
  <2>2. Append(wire[txPkt.port], txPkt) \in Seq(CutPacket)
    BY <1>3, <2>1 DEF CutPackets
  <2>3. wire' \in [Ports -> Seq(CutPacket)]
    BY <1>3, <1>5, <2>1, <2>2 DEF TxSend, CutPackets
  <2>4. queue' = queue /\ txPkt' = txPkt /\ pkt' = pkt
    BY <1>1, <1>5 DEF TxSend, txVars, bufVars
  <2> QED BY <1>2, <1>3, <2>3, <2>4 DEF PayloadInv, CutPackets
<1>6. CASE \/ TxCheck \/ TxSync \/ TxBlacklist \/ TxAvail \/ TxBlocked \/ TxQueueSize
           \/ TxSleep \/ EnvStep \/ UNCHANGED vars
  <2>1. queue' = queue /\ wire' = wire /\ txPkt' = txPkt /\ pkt' = pkt
    BY <1>1, <1>6, EnvFrame DEF TxCheck, TxSync, TxBlacklist, TxAvail, AvailRest,
       TxBlocked, TxQueueSize, TxSleep, bufVars, wireVars, txVars, vars
  <2> QED BY <1>2, <1>3, <2>1 DEF PayloadInv, CutPackets
<1> QED BY <1>2, <1>4, <1>5, <1>6 DEF TxStep, PayloadInv

\* What has been sent was cut off by the running sum.
LEMMA WireCut ==
    ASSUME PayloadInv, NEW p \in Ports, NEW i \in 1 .. Len(wire[p])
    PROVE  wire[p][i] \in CutPacket
<1>1. wire[p] \in Seq(CutPacket)
  BY DEF PayloadInv, CutPackets
<1> QED BY <1>1

\* The invariant of the running sum is an invariant.
LEMMA PayloadInvariant == Spec => []PayloadInv
<1>1. TypeOK /\ PayloadInv /\ [Next]_vars => PayloadInv'
  BY PayloadClient, PayloadRest, Steps
<1> QED BY <1>1, PayloadInit, TypeCorrect, PTL DEF Spec

\* What fragmentPayload really sends, for every message size and number of
\* ports: fragment k carries piece k (k + 1) / 2.
THEOREM PiecesSent == Spec => []PiecesTriangular
<1>1. PayloadInv => PiecesTriangular
  BY WireCut DEF CutPacket, PiecesTriangular
<1> QED BY <1>1, PayloadInvariant, PTL
=============================================================================
