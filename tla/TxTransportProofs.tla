------------------------- MODULE TxTransportProofs -------------------------
(***************************************************************************)
(* The transmitting half implements the abstract transport without losses  *)
(* (OrderedDelivery), for every number of ports and packets and every      *)
(* width of the sequence numbers.  The order invariant FifoInv of          *)
(* TxModuleProofs makes the refinement mapping simple: what was accepted   *)
(* and what was handed over on a port are both the packets 1, 2, ...       *)
(***************************************************************************)
EXTENDS TxModuleProofs

\* The packets 1 .. k, each a message of its own
Numbers(k) == [i \in 1 .. k |-> <<i>>]

Accepted == [p \in Ports |-> Numbers(enq[p])]
HandedOver == [p \in Ports |-> Numbers(Len(wire[p]))]
Handed == [p \in Ports |-> [i \in 1 .. Len(wire[p]) |-> <<wire[p][i].n>>]]

\* Facts about Numbers: the empty one, the last packet, one packet more.
LEMMA NumbersEmpty == Numbers(0) = << >>
BY DEF Numbers

LEMMA NumbersLen ==
    ASSUME NEW k \in Nat
    PROVE  /\ Numbers(k) \in Seq(Seq(Nat)) /\ Len(Numbers(k)) = k
           /\ \A i \in 1 .. k : Numbers(k)[i] = <<i>>
BY DEF Numbers

LEMMA NumbersLast ==
    ASSUME NEW k \in Nat
    PROVE  Transport!LastPacket(Numbers(k)) = k
<1>1. CASE k = 0
  BY <1>1, NumbersEmpty DEF Transport!LastPacket
<1>2. CASE k # 0
  <2>1. Numbers(k) # << >> /\ Len(Numbers(k)) = k /\ Numbers(k)[k] = <<k>>
    BY <1>2, NumbersLen
  <2> QED BY <2>1 DEF Transport!LastPacket
<1> QED BY <1>1, <1>2

LEMMA NumbersNext ==
    ASSUME NEW k \in Nat
    PROVE  Numbers(k + 1) = Append(Numbers(k), <<k + 1>>)
BY DEF Numbers

\* Under the order invariant the packets on the wire are numbered 1, 2, ...
LEMMA HandedNumbers ==
    ASSUME TypeOK, FifoInv
    PROVE  Handed = HandedOver
<1>1. ASSUME NEW p \in Ports
      PROVE  [i \in 1 .. Len(wire[p]) |-> <<wire[p][i].n>>] = Numbers(Len(wire[p]))
  <2>1. \A i \in 1 .. Len(wire[p]) : wire[p][i].n = i
    BY DEF FifoInv, PortInv, WireInv
  <2> QED BY <2>1 DEF Numbers
<1> QED BY <1>1 DEF Handed, HandedOver

\* The two sides of the abstract transport, as this module writes them.
LEMMA Mapping ==
    /\ Transport!Init <=> Accepted = [p \in Ports |-> << >>]
                           /\ Handed = [p \in Ports |-> << >>]
    /\ Transport!vars = <<Accepted, Handed>>
    /\ Transport!vars' = <<Accepted', Handed'>>
BY DEF Transport!Init, Transport!vars, Accepted, Handed, Numbers

\* Initially nothing was accepted and nothing handed over.
LEMMA MapInit == Init => Transport!Init
<1> SUFFICES ASSUME Init PROVE Transport!Init
  OBVIOUS
<1>1. \A p \in Ports : enq[p] = 0 /\ wire[p] = << >>
  BY DEF Init
<1>2. Accepted = [p \in Ports |-> << >>]
  BY <1>1, NumbersEmpty DEF Accepted
<1>3. Handed = [p \in Ports |-> << >>]
  BY <1>1 DEF Handed
<1> QED BY <1>2, <1>3, Mapping

\* A step that numbers no packet and sends none is invisible.
LEMMA MapStutter ==
    ASSUME enq' = enq, wire' = wire
    PROVE  UNCHANGED Transport!vars
<1>1. Accepted' = Accepted /\ Handed' = Handed
  BY DEF Accepted, Handed, Numbers
<1> QED BY <1>1, Mapping

\* Taking a port sequence number (enqueuePacket) is Accept.
LEMMA MapAccept ==
    ASSUME TypeOK, NEW p \in Ports, wire' = wire,
           enq' = [enq EXCEPT ![p] = @ + 1]
    PROVE  Transport!Accept(p)
<1>1. enq \in [Ports -> Nat] /\ enq[p] \in Nat
  BY DEF TypeOK, TypeClient
<1>2. Accepted[p] = Numbers(enq[p])
  BY DEF Accepted
<1>3. [i \in 1 .. 1 |-> Transport!LastPacket(Accepted[p]) + i] = <<enq[p] + 1>>
  BY <1>1, <1>2, NumbersLast
<1>4. Accepted' = [Accepted EXCEPT ![p] = Append(Accepted[p], <<enq[p] + 1>>)]
  <2>1. ASSUME NEW q \in Ports
        PROVE  Numbers(enq'[q]) = IF q = p THEN Append(Accepted[p], <<enq[p] + 1>>)
                                           ELSE Numbers(enq[q])
    BY <1>1, <1>2, NumbersNext
  <2> QED BY <2>1 DEF Accepted
<1>5. Handed' = Handed
  BY DEF Handed
<1>6. 1 \in 1 .. 1
  OBVIOUS
<1> QED BY <1>3, <1>4, <1>5, <1>6 DEF Transport!Accept, Accepted, Handed, Numbers

\* sendFrame is Hand: the packet is the next one, and it had been accepted.
LEMMA MapHand ==
    ASSUME TypeOK, FifoInv, TypeOK', FifoInv', TxSend,
           NEW p \in Ports, p = txPkt.port,
           NEW k \in Nat, k = Len(wire[p])
    PROVE  Transport!Hand(p)
<1>1. /\ wire \in [Ports -> Seq(Packet)] /\ queue[p] \in Seq(Packet)
      /\ enq[p] \in Nat
  BY DEF TypeOK, TypePackets, TypeClient
<1>2. k + 1 <= enq[p]
  <2>1. enq[p] = Gone(p) + Len(queue[p]) + Pending(p)
    BY DEF FifoInv, PortInv, CountInv
  <2>2. Gone(p) = k + 1
    BY DEF Gone, InFlight, TxSend
  <2>3. Pending(p) = 0 \/ Pending(p) = 1
    BY DEF Pending
  <2>4. Len(queue[p]) \in Nat
    BY <1>1
  <2>5. \A e, l, c \in Nat : e = (k + 1) + l + c => k + 1 <= e
    OBVIOUS
  <2> QED BY <1>1, <2>1, <2>2, <2>3, <2>4, <2>5
<1>3. Accepted[p] = Numbers(enq[p]) /\ Accepted' = Accepted
  <2>1. enq' = enq
    BY DEF TxSend, TxUnchanged, cliVars
  <2> QED BY <2>1 DEF Accepted, Numbers
<1>4. Handed[p] = Numbers(k) /\ Transport!LastPacket(Handed[p]) = k
  BY HandedNumbers, NumbersLast DEF HandedOver
<1>5. /\ Accepted[p][k + 1] = <<k + 1>> /\ Accepted[p][k + 1][1] = k + 1
      /\ k + 1 \in 1 .. Len(Accepted[p])
  <2>1. k + 1 \in 1 .. enq[p]
    BY <1>1, <1>2
  <2>2. Len(Accepted[p]) = enq[p] /\ Accepted[p][k + 1] = <<k + 1>>
    BY <1>1, <1>3, <2>1, NumbersLen
  <2> QED BY <2>1, <2>2
<1>6. Handed' = [Handed EXCEPT ![p] = Append(Handed[p], <<k + 1>>)]
  <2>1. Handed' = HandedOver'
    <3>1. (TypeOK /\ FifoInv => Handed = HandedOver)'
      BY HandedNumbers, PTL
    <3> QED BY <3>1
  <2>2. Handed = HandedOver
    BY HandedNumbers
  <2>3. ASSUME NEW q \in Ports
        PROVE  Len(wire'[q]) = IF q = p THEN k + 1 ELSE Len(wire[q])
    BY <1>1 DEF TxSend
  <2>4. ASSUME NEW q \in Ports
        PROVE  Numbers(Len(wire'[q])) = IF q = p THEN Append(Handed[p], <<k + 1>>)
                                                 ELSE Handed[q]
    BY <1>4, <2>2, <2>3, NumbersNext DEF HandedOver
  <2>5. HandedOver' = [q \in Ports |-> Numbers(Len(wire'[q]))]
    BY DEF HandedOver, Numbers
  <2>6. Handed = [q \in Ports |-> Handed[q]]
    BY DEF Handed
  <2> QED BY <2>1, <2>4, <2>5, <2>6
<1>7. /\ Accepted[p][k + 1][1] > Transport!LastPacket(Handed[p])
      /\ Accepted[p][k + 1][1] = Transport!LastPacket(Handed[p]) + 1
  BY <1>4, <1>5
<1>8. Handed' = [Handed EXCEPT ![p] = Append(Handed[p], Accepted[p][k + 1])]
  BY <1>5, <1>6
<1> QED BY <1>3, <1>5, <1>7, <1>8 DEF Transport!Hand, Accepted, Handed, Numbers

\* Every step maps to a step of the abstract transport or to none.
LEMMA MapStep ==
    ASSUME TypeOK, FifoInv, TypeOK', FifoInv', [Next]_vars
    PROVE  [Transport!Next]_(Transport!vars)
<1>1. ASSUME NEW p \in Ports, ClientAction(p)
      PROVE  Transport!Next \/ UNCHANGED Transport!vars
  <2>1. wire' = wire
    BY <1>1, ClientFrame
  <2>2. enq' = enq \/ enq' = [enq EXCEPT ![p] = @ + 1]
    BY <1>1 DEF ClientAction, ClientStep, ClientSend, CheckState, CheckQueue,
       CheckChannel, EnqueueHeader, WriteLock, WriteCompare, SignalTx, SignalRest
  <2> QED BY <2>1, <2>2, MapAccept, MapStutter DEF Transport!Next
<1>2. CASE TxStep
  <2>1. CASE TxSend
    <3>1. txPkt.port \in Ports
      <4>1. txPkt \in Packet
        BY DEF TypeOK, TypePackets
      <4> QED BY <4>1 DEF Packet
    <3>2. Len(wire[txPkt.port]) \in Nat
      BY <3>1 DEF TypeOK, TypePackets
    <3>3. PICK p \in Ports : p = txPkt.port
      BY <3>1
    <3>4. Transport!Hand(p)
      BY <2>1, <3>2, <3>3, MapHand
    <3> QED BY <3>4 DEF Transport!Next
  <2>2. CASE ~ TxSend
    <3>1. enq' = enq /\ wire' = wire
      BY <1>2, <2>2, TxFrame DEF TxStep, TxCheck, TxSync, TxBlacklist, TxAvail,
         AvailRest, TxBlocked, TxPop, TxQueueSize, TxSleep, cliVars, wireVars
    <3> QED BY <3>1, MapStutter
  <2> QED BY <2>1, <2>2
<1>3. CASE EnvStep \/ UNCHANGED vars
  <2>1. enq' = enq /\ wire' = wire
    BY <1>3, EnvFrame DEF vars, cliVars, wireVars
  <2> QED BY <2>1, MapStutter
<1> QED BY <1>1, <1>2, <1>3, Steps

\* From enqueuePacket to sendFrame the transmitting half is a lossless
\* first-in first-out transport on each port, as long as no client has more
\* than SeqMod (256) packets enqueued and not yet sent.
THEOREM TransportImplemented ==
    ASSUME MaxBacklog <= SeqMod
    PROVE  Spec => SendsInOrder
<1>1. TypeOK /\ FifoInv /\ [Next]_vars => FifoInv'
  BY FifoStep
<1>2. Spec => []FifoInv
  BY <1>1, FifoInit, TypeCorrect, PTL DEF Spec
<1>3. TypeOK /\ FifoInv /\ TypeOK' /\ FifoInv' /\ [Next]_vars
        => [Transport!Next]_(Transport!vars)
  BY MapStep
<1> QED BY <1>2, <1>3, MapInit, TypeCorrect, PTL DEF Spec, SendsInOrder, Transport!Spec
=============================================================================
