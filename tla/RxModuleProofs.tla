--------------------------- MODULE RxModuleProofs ---------------------------
(***************************************************************************)
(* Proofs about RxModule for every set of ports, window, width and bound   *)
(* that satisfies the assumptions of the module.                           *)
(***************************************************************************)
EXTENDS RxModule, PacketQueueProofs, FiniteSetTheorems, WellFoundedInduction

-----------------------------------------------------------------------------
(***************************************************************************)
(* The types, part by part, and what they rest on.                         *)
(***************************************************************************)
TypeModule ==
    /\ active \in BOOLEAN /\ open_ports \subseteq Ports
    /\ current_port_sequence \in [Ports -> SeqNums]
    /\ available_messages \subseteq Ports
    /\ to_consume_global_seq \in SeqNums /\ lastReceivedGlobalSeq \in SeqNums
    /\ mutexLeaked \in BOOLEAN

TypeThreads ==
    /\ rxpc \in RxLabels /\ asmpc \in AsmLabels
    /\ stoppc \in {"running", "rx", "join", "stopped"}
    /\ receiving_window \in 0 .. Window /\ flushPorts \subseteq Ports
    /\ asmPort \in Ports

TypeFrame ==
    /\ net \in Seq(DataPacket \cup SyncPacket)
    /\ frame \in DataPacket \cup SyncPacket \cup {NoFrame}
    /\ rxpc \in {"port", "write", "compare", "complete"} => frame \in DataPacket
    /\ rxpc = "sync" => frame \in SyncPacket

TypeBuffer ==
    /\ queue \in [Ports -> Seq(DataPacket)] /\ packet_counter \subseteq Ports
    /\ assembled \in Seq(DataPacket)
    /\ delivered \in [Ports -> Seq(Seq(DataPacket))]

\* The mutexes that can be kept for ever, and the ghost about ports
TypeLost == lost \subseteq {"clients", "tx"} /\ disturbed \subseteq Ports

TypePeer ==
    /\ messages \in [Ports -> Seq(Seq(Nat))] /\ peerGlobal \in Nat
    /\ syncs \in Nat /\ losses \in Nat /\ events \in Nat
    /\ newest \in Nat /\ missed \in BOOLEAN

\* The callback thread counts a packet only below the window, and the
\* assembly thread takes a message only where one was announced; a queue is
\* flushed only when there is one to flush.
CountInv ==
    /\ rxpc \notin {"flush", "flushNext", "flushPeek", "flushClear", "aborted"} =>
         receiving_window < Window
    /\ asmpc = "take" => available_messages # {}
    /\ rxpc \in {"flushPeek", "flushClear"} => flushPorts # {}

\* No message of the peer is empty.
SomePackets == \A p \in Ports : \A m \in 1 .. Len(messages[p]) : messages[p][m] # << >>

TypeInv == /\ TypeModule /\ TypeThreads /\ TypeFrame /\ TypeBuffer /\ TypePeer
           /\ TypeLost /\ CountInv /\ SomePackets

-----------------------------------------------------------------------------
(***************************************************************************)
(* The invariant behind DeliveredIntact: what a packet says of itself is   *)
(* what the peer sent.                                                     *)
(***************************************************************************)
\* Per port, the numbers of the last packets of its messages, and of the last
\* packet in all
Ends == [p \in Ports |->
           {0} \cup {SX!Last(messages[p][m]) : m \in 1 .. Len(messages[p])}]
Total == [p \in Ports |-> Sent(p)]

\* A number as a header carries it
Wrapped(n) == n % SeqMod

\* The header of a packet says where it stands in the message between two ends
Located(k, ends, total) ==
    /\ k.n \in 1 .. total /\ k.seq = Wrapped(k.n - 1)
    /\ k.msg \in 1 .. k.n /\ k.msg - 1 \in ends /\ k.sub = k.n - k.msg
    /\ \A e \in ends : e < k.msg \/ k.n <= e
    /\ k.more <=> k.n \notin ends

Genuine(k) == Located(k, Ends[k.port], Total[k.port])

\* The boundaries between messages, as a header or a sync packet names them
Marks(p) == {Wrapped(e) : e \in Ends[p]}

\* A sync packet announces a boundary between messages
Boundary(sync) == \A p \in Ports : sync.port_seq[p] \in Marks(p)

PeerInv == \A p \in Ports : /\ Ends[p] \subseteq 0 .. Total[p]
                            /\ Total[p] \in Ends[p] /\ Total[p] <= MaxPackets

FrameInv ==
    /\ \A i \in 1 .. Len(net) :
         /\ net[i].type = "DATA" => Genuine(net[i])
         /\ net[i].type = "SYNC" => Boundary(net[i])
    /\ frame.type = "DATA" => Genuine(frame)
    /\ frame.type = "SYNC" => Boundary(frame)

QueueInv == \A p \in Ports : \A i \in 1 .. Len(queue[p]) :
              queue[p][i].port = p /\ Genuine(queue[p][i])

\* The fragments of one message in order from the first, all but the last
\* with more to come
Started(data) ==
    \A i \in 1 .. Len(data) :
        /\ data[i].msg = data[1].msg /\ data[i].sub = i - 1
        /\ i < Len(data) => data[i].more

\* The fragment that was taken last, and the number expected next
AsmInv ==
    asmpc \in {"pop", "recheck", "deliver"} =>
        /\ ~ mutexLeaked /\ Started(assembled)
        /\ \A i \in 1 .. Len(assembled) : assembled[i].port = asmPort /\ Genuine(assembled[i])
        /\ asmpc # "pop" => assembled # << >>
        /\ assembled # << >> =>
             assembled[Len(assembled)].more = (asmpc = "pop")
        /\ asmpc # "deliver" /\ assembled # << >> =>
             current_port_sequence[asmPort] = Wrapped(assembled[Len(assembled)].n)

\* Between two messages a port expects the first packet of a message
ExpectInv ==
    \A p \in Ports :
        \/ current_port_sequence[p] \in Marks(p) \/ mutexLeaked \/ asmpc = "aborted"
        \/ asmpc = "pop" /\ asmPort = p /\ assembled # << >>

\* The head of the queue follows what was taken, or begins a message
PopsNext ==
    LET n == Head(queue[asmPort]).n
    IN  /\ assembled = << >> => n - 1 \in Ends[asmPort]
        /\ assembled # << >> => n = assembled[Len(assembled)].n + 1

IntactInv == PeerInv /\ FrameInv /\ QueueInv /\ AsmInv /\ ExpectInv
             /\ DeliveredIntact
-----------------------------------------------------------------------------
(***************************************************************************)
(* The invariant behind the order of messages, with at most one sync       *)
(* packet: no packet is in two places, and none that is still around is    *)
(* older than what was taken and yet to come.                              *)
(***************************************************************************)
Same(a, b) == /\ a.type = b.type
              /\ a.type = "DATA" => a.port = b.port /\ a.n = b.n

Distinct(s) == \A i, j \in 1 .. Len(s) : i # j => ~ Same(s[i], s[j])

\* The callback thread has a frame that it has not queued or dropped yet
InHand == rxpc \in {"sync", "port", "write", "compare"}

UniqueInv ==
    /\ Distinct(net) /\ \A p \in Ports : Distinct(queue[p])
    /\ \A p \in Ports : \A i \in 1 .. Len(queue[p]), j \in 1 .. Len(net) :
         ~ Same(queue[p][i], net[j])
    /\ InHand => /\ \A j \in 1 .. Len(net) : ~ Same(frame, net[j])
                 /\ \A p \in Ports : \A i \in 1 .. Len(queue[p]) :
                      ~ Same(queue[p][i], frame)

\* The packets of a port that the assembly thread may still take
Waiting(p) ==
    {k \in {net[i] : i \in 1 .. Len(net)} \cup (IF InHand THEN {frame} ELSE {}) :
        k.type = "DATA" /\ k.port = p}
    \cup {queue[p][i] : i \in 1 .. Len(queue[p])}

\* The sync packet, if there is one, has been received or lost: no other will
\* come
NoSync == rxpc # "sync" /\ \A i \in 1 .. Len(net) : net[i].type # "SYNC"
Spent == syncs > 0 /\ NoSync

\* The number of the last packet the assembly thread took from a port
Assembling(p) ==
    asmpc \in {"pop", "recheck", "deliver"} /\ asmPort = p /\ assembled # << >>
Taken(p) == IF Assembling(p) THEN assembled[Len(assembled)].n ELSE Consumed(p)

\* A packet that waits is newer than what was taken, or passed over for good
NewerInv ==
    ~ mutexLeaked /\ asmpc # "aborted" =>
        \A p \in Ports : \A k \in Waiting(p) :
            k.n > Taken(p) \/ (Spent /\ k.n <= current_port_sequence[p])

\* As long as a sync packet may come, nothing has been passed over
AheadInv ==
    ~ mutexLeaked /\ asmpc # "aborted" /\ ~ Spent =>
        \A p \in Ports : /\ Taken(p) <= current_port_sequence[p]
                         /\ \A k \in Waiting(p) : k.n > current_port_sequence[p]

\* The message that is assembled is newer than what was handed over
HandedInv ==
    \A p \in Ports :
        /\ Consumed(p) \in 0 .. Total[p]
        /\ Assembling(p) => assembled[1].n > Consumed(p)
        /\ delivered[p] # << >> =>
             LET data == SX!Last(delivered[p])
             IN  data # << >> /\ data[1].msg <= SX!Last(data).n

\* The packets of a message are numbered from one end to the next
MessageInv ==
    \A p \in Ports : \A m \in 1 .. Len(messages[p]) :
        LET msg == messages[p][m]
        IN  /\ \A i \in 1 .. Len(msg) : msg[i] = msg[1] + i - 1
            /\ msg[1] > 0 /\ msg[1] - 1 \in Ends[p]
            /\ \A e \in Ends[p] : e < msg[1] \/ SX!Last(msg) <= e

\* Across turns, without sync packets: a port expects what follows a packet t,
\* the last one that was taken, whether its message was handed over, dropped or
\* is being assembled; everything that waits is newer
Reached(p, t) ==
    /\ Consumed(p) <= t
    /\ IF Assembling(p) THEN t = assembled[Len(assembled)].n ELSE t \in Ends[p]
    /\ current_port_sequence[p] = Wrapped(t)
    /\ \A k \in Waiting(p) : k.n > t

FollowsInv ==
    ~ mutexLeaked /\ asmpc # "aborted" => \A p \in Ports : \E t \in Nat : Reached(p, t)

\* Whole messages were handed over, and the peer is no further ahead than
\* MaxAhead
BacklogInv ==
    \A p \in Ports : Consumed(p) \in Ends[p] /\ Total[p] <= Consumed(p) + MaxAhead

TurnsInv == /\ UniqueInv /\ FollowsInv /\ BacklogInv /\ HandedInv /\ MessageInv
            /\ syncs = 0 /\ NoSync /\ DeliveredInOrder

OrderInv == /\ UniqueInv /\ NewerInv /\ AheadInv /\ HandedInv /\ MessageInv
            /\ syncs <= MaxSyncs /\ (syncs = 0 => NoSync) /\ DeliveredInOrder

-----------------------------------------------------------------------------
(***************************************************************************)
(* The invariant behind WithinTurnCompletes.                               *)
(***************************************************************************)
Complete(p) == CompleteMessage(queue[p], current_port_sequence[p])

\* The assembly thread holds rx_mutex and is about to settle the entry of p
Settling(p) == asmpc \in {"pop", "recheck"} /\ asmPort = p

\* Nothing complete is overlooked, or the callback thread has yet to look at
\* the port; the entry of a port stays while its message is being assembled
AnnouncedInv ==
    /\ \A p \in Ports :
         Complete(p) => \/ p \in available_messages \/ mutexLeaked
                        \/ rxpc = "complete" /\ frame.port = p
    /\ asmpc \in {"pop", "recheck"} => asmPort \in available_messages

-----------------------------------------------------------------------------
(***************************************************************************)
(* Operators of the model.                                                 *)
(***************************************************************************)
\* A set of ports that is not empty has a lowest one.
LEMMA LowestIn == ASSUME NEW S \in SUBSET Nat, S # {}
                  PROVE  Lowest(S) \in S /\ \A y \in S : Lowest(S) <= y
<1>1. PICK x \in S : \A y \in S : ~ (<<y, x>> \in OpToRel(<, Nat))
  BY NatLessThanWellFounded, WFMin
<1>2. \A y \in S : ~ (y < x)
  BY <1>1 DEF OpToRel
<1>3. x \in Nat /\ \A y \in S : y \in Nat
  OBVIOUS
<1>4. \A y \in S : x <= y
  BY <1>2, <1>3
<1> QED BY <1>4 DEF Lowest

\* Where the frames stand after one has left the channel.
LEMMA WithoutIs ==
    ASSUME NEW S, NEW s \in Seq(S), NEW i \in 1 .. Len(s)
    PROVE  /\ Without(s, i) \in Seq(S) /\ Len(Without(s, i)) = Len(s) - 1
           /\ \A j \in 1 .. Len(s) - 1 :
                Without(s, i)[j] = IF j < i THEN s[j] ELSE s[j + 1]
<1> DEFINE a == SubSeq(s, 1, i - 1)
           b == SubSeq(s, i + 1, Len(s))
<1>1. a \in Seq(S) /\ Len(a) = i - 1 /\ \A j \in 1 .. i - 1 : a[j] = s[j]
  OBVIOUS
<1>2. /\ b \in Seq(S) /\ Len(b) = Len(s) - i
      /\ \A j \in 1 .. Len(s) - i : b[j] = s[i + j]
  OBVIOUS
<1>3. Without(s, i) = a \o b
  BY DEF Without
<1> HIDE DEF a, b
<1>4. a \o b \in Seq(S) /\ Len(a \o b) = Len(s) - 1
  <2>1. a \o b \in Seq(S) /\ Len(a \o b) = Len(a) + Len(b)
    <3>1. a \in Seq(S) /\ b \in Seq(S)
      BY <1>1, <1>2
    <3> QED BY <3>1
  <2>2. Len(s) \in Nat /\ i \in Nat
    OBVIOUS
  <2> QED BY <1>1, <1>2, <2>1, <2>2
<1>5. \A j \in 1 .. Len(s) - 1 : (a \o b)[j] = IF j < i THEN s[j] ELSE s[j + 1]
  <2> TAKE j \in 1 .. Len(s) - 1
  <2>1. CASE j < i
    BY <1>1, <1>2, <2>1
  <2>2. CASE ~ (j < i)
    <3>1. (a \o b)[j] = b[j - (i - 1)] /\ j - (i - 1) \in 1 .. Len(s) - i
      BY <1>1, <1>2, <2>2
    <3> QED BY <1>2, <2>2, <3>1
  <2> QED BY <2>1, <2>2
<1> QED BY <1>3, <1>4, <1>5

\* What the sender appends is behind what was there.
LEMMA ConcatIs ==
    ASSUME NEW S, NEW s \in Seq(S), NEW k \in Nat, NEW f \in [1 .. k -> S]
    PROVE  /\ s \o f \in Seq(S) /\ Len(s \o f) = Len(s) + k
           /\ \A i \in 1 .. Len(s) : (s \o f)[i] = s[i]
           /\ \A i \in 1 .. k : (s \o f)[Len(s) + i] = f[i]
           /\ \A i \in 1 .. Len(s) + k :
                i > Len(s) => i - Len(s) \in 1 .. k /\ (s \o f)[i] = f[i - Len(s)]
<1>1. f \in Seq(S) /\ Len(f) = k
  OBVIOUS
<1> QED BY <1>1

\* The elements of a sequence, its head and its tail.
LEMMA HeadTail ==
    ASSUME NEW S, NEW s \in Seq(S), s # << >>
    PROVE  /\ Head(s) \in S /\ Head(s) = s[1] /\ Len(s) \in Nat /\ Len(s) >= 1
           /\ Tail(s) \in Seq(S) /\ Len(Tail(s)) = Len(s) - 1
           /\ \A i \in 1 .. Len(s) - 1 : Tail(s)[i] = s[i + 1]
OBVIOUS

\* A sequence with one more element.
LEMMA AppendIs ==
    ASSUME NEW S, NEW s \in Seq(S), NEW e \in S
    PROVE  /\ Append(s, e) \in Seq(S) /\ Len(Append(s, e)) = Len(s) + 1
           /\ Append(s, e) # << >> /\ Len(s) \in Nat
           /\ \A i \in 1 .. Len(s) : Append(s, e)[i] = s[i]
           /\ Append(s, e)[Len(s) + 1] = e
           /\ \A i \in 1 .. Len(s) + 1 : i \in 1 .. Len(s) \/ i = Len(s) + 1
<1>1. /\ Append(s, e) \in Seq(S) /\ Len(Append(s, e)) = Len(s) + 1 /\ Len(s) \in Nat
      /\ \A i \in 1 .. Len(s) : Append(s, e)[i] = s[i]
      /\ Append(s, e)[Len(s) + 1] = e
  OBVIOUS
<1>2. Append(s, e) # << >>
  <2>1. Len(<< >>) = 0
    OBVIOUS
  <2> QED BY <1>1, <2>1
<1>3. \A i \in 1 .. Len(s) + 1 : i \in 1 .. Len(s) \/ i = Len(s) + 1
  BY <1>1
<1> QED BY <1>1, <1>2, <1>3

\* The last element of a sequence.
LEMMA LastIn ==
    ASSUME NEW S, NEW s \in Seq(S), s # << >>
    PROVE  SX!Last(s) \in S /\ SX!Last(s) = s[Len(s)] /\ Len(s) \in 1 .. Len(s)
BY DEF SX!Last

LEMMA AppendLast ==
    ASSUME NEW S, NEW s \in Seq(S), NEW e \in S
    PROVE  Append(s, e) # << >> /\ SX!Last(Append(s, e)) = e
<1> DEFINE r == Append(s, e)
<1>1. r # << >> /\ Len(r) = Len(s) + 1 /\ r[Len(s) + 1] = e
  BY AppendIs
<1> HIDE DEF r
<1>2. r # << >> /\ SX!Last(r) = e
  BY <1>1 DEF SX!Last
<1> QED BY <1>2 DEF r

-----------------------------------------------------------------------------
(***************************************************************************)
(* Who changes what.                                                       *)
(***************************************************************************)
PeerStep == \/ \E p \in Ports : \E k \in 1 .. MaxFragments : PeerSend(p, k)
            \/ PeerSync \/ LoseFrame

FlushStep == FlushQueues \/ FlushTest \/ FlushPeek \/ FlushClear \/ FlushDone

PortStep == \/ \E p \in Ports : OpenPort(p) \/ ClosePort(p)
            \/ StopBegin \/ StopStep \/ SpuriousWakeup
            \/ \E m \in {"clients", "tx"} : LoseMutex(m)

\* A step is one of the peer, of the two threads or of the clients and stop.
LEMMA Steps ==
    Next => \/ PeerStep \/ RecvFrame \/ RecvSync \/ RecvPort \/ CallbackStuck \/ RecvWrite
            \/ RecvCompare \/ RecvComplete \/ FlushStep \/ AsmStep
            \/ StartModule \/ PortStep
BY DEF Next, PeerStep, FlushStep, PortStep, RxStep

\* The peer and the channel leave the module alone.
LEMMA PeerFrame ==
    PeerStep => /\ UNCHANGED <<active, open_ports, current_port_sequence, flushPorts,
                               available_messages, disturbed, rxVars, bufVars, asmVars,
                               asmpc, stoppc, events, rxpc, frame, newest, missed>>
                /\ ~ Aborted
BY DEF PeerStep, PeerSend, PeerSync, LoseFrame, NetRest

\* Clients and stop move no packet.
LEMMA PortFrame ==
    PortStep => /\ UNCHANGED <<current_port_sequence, available_messages, disturbed,
                               rxVars, bufVars, asmPort, assembled, mutexLeaked,
                               delivered, rxpc, frame, flushPorts, netVars>>
                /\ asmpc' = asmpc \/ (asmpc' = "lock" /\ asmpc = "waiting")
                /\ ~ Aborted
BY DEF PortStep, OpenPort, ClosePort, StopBegin, StopStep, StopModule, StopJoin,
       SpuriousWakeup, LoseMutex, PortRest, Signalled, asmVars

-----------------------------------------------------------------------------
(***************************************************************************)
(* Type correctness, one part of the state at a time.                      *)
(***************************************************************************)
\* Initially every variable has its type.
LEMMA TypeInit == Init => TypeInv
<1> SUFFICES ASSUME Init PROVE TypeInv
  OBVIOUS
<1> USE DEF Init
<1>1. 0 \in SeqNums /\ 0 \in 0 .. Window /\ 0 < Window
  BY SeqModAssumption, RxBoundsAssumption DEF SeqNums
<1>2. TypeModule
  BY <1>1 DEF TypeModule
<1>3. Lowest(Ports) \in Ports
  BY RxPortsAssumption, LowestIn
<1>4. TypeThreads
  BY <1>1, <1>3 DEF TypeThreads, RxLabels, AsmLabels
<1>5. TypeFrame
  BY DEF TypeFrame
<1>7. TypeBuffer
  BY DEF TypeBuffer
<1>8. TypePeer
  <2>1. messages \in [Ports -> Seq(Seq(Nat))]
    OBVIOUS
  <2>2. 0 \in Nat /\ missed \in BOOLEAN
    OBVIOUS
  <2> QED BY <2>1, <2>2 DEF TypePeer
<1>6. CountInv /\ SomePackets /\ TypeLost
  BY <1>1 DEF CountInv, SomePackets, TypeLost
<1> QED BY <1>2, <1>4, <1>5, <1>6, <1>7, <1>8 DEF TypeInv

\* The number of the last packet sent is a number.
LEMMA SentType ==
    ASSUME TypeInv, NEW p \in Ports
    PROVE  Sent(p) \in Nat
<1>1. CASE messages[p] = << >>
  BY <1>1 DEF Sent
<1>2. CASE messages[p] # << >>
  <2>1. messages[p] \in Seq(Seq(Nat))
    BY DEF TypeInv, TypePeer
  <2>2. /\ SX!Last(messages[p]) \in Seq(Nat)
        /\ SX!Last(messages[p]) = messages[p][Len(messages[p])]
        /\ Len(messages[p]) \in 1 .. Len(messages[p])
    BY <1>2, <2>1, LastIn
  <2>3. SX!Last(messages[p]) # << >>
    BY <2>2 DEF TypeInv, SomePackets
  <2>4. SX!Last(SX!Last(messages[p])) \in Nat
    BY <2>2, <2>3, LastIn
  <2> QED BY <1>2, <2>4 DEF Sent
<1> QED BY <1>1, <1>2

\* Remainders of a division by SeqMod are sequence numbers.
LEMMA ModType == \A x \in Nat : x % SeqMod \in SeqNums
BY SeqModAssumption DEF SeqNums

\* The module's own state keeps its types.
LEMMA TypeModuleStep == TypeInv /\ Next => TypeModule'
<1> SUFFICES ASSUME TypeInv, Next PROVE TypeModule'
  OBVIOUS
<1> USE DEF TypeModule
<1>1. CASE PeerStep
  BY <1>1, PeerFrame DEF TypeInv, rxVars, asmVars
<1>2. CASE RecvFrame \/ RecvPort \/ CallbackStuck \/ RecvWrite \/ RecvCompare
  BY <1>2 DEF TypeInv, RecvFrame, RecvPort, CallbackStuck, RecvWrite, RecvCompare,
       RxRest, rxVars, asmVars
<1>3. CASE RecvSync
  <2>1. frame.port_seq \in [Ports -> SeqNums] /\ frame.tx_global_seq \in SeqNums
    BY <1>3 DEF RecvSync, TypeInv, TypeFrame, SyncPacket
  <2>2. Synchronized(frame) \in [Ports -> SeqNums]
    BY <2>1 DEF TypeInv, Synchronized
  <2> QED BY <1>3, <2>1, <2>2 DEF TypeInv, RecvSync, RxRest, asmVars
<1>4. CASE RecvComplete
  <2>1. frame \in DataPacket
    BY <1>4 DEF RecvComplete, TypeInv, TypeFrame
  <2>2. frame.port \in Ports /\ frame.gseq \in SeqNums
    BY <2>1 DEF DataPacket
  <2>3. HighestGlobal(frame.gseq) \in SeqNums
    BY <2>2 DEF HighestGlobal, TypeInv
  <2> QED BY <1>4, <2>2, <2>3 DEF TypeInv, RecvComplete, RxRest, asmVars
<1>5. CASE FlushStep
  BY <1>5 DEF TypeInv, FlushStep, FlushQueues, FlushTest, FlushPeek, FlushClear,
              FlushDone, FlushRest, RxRest, rxVars, asmVars
<1>6. CASE AsmStep
  <2>1. asmPort \in Ports
    BY DEF TypeInv, TypeThreads
  <2>2. current_port_sequence' \in [Ports -> SeqNums]
    <3>1. current_port_sequence' = current_port_sequence \/
          current_port_sequence' = [current_port_sequence EXCEPT ![asmPort] = Inc(@)]
      BY <1>6 DEF AsmStep, AsmLock, AsmCheck, AsmSleep, AsmNext, AsmTake, AsmPop,
           AsmInconsistent, AsmNull, AsmRecheck, AsmDeliver, AsmDrop, AsmDropNull,
           AsmSendFails
    <3> QED BY <2>1, <3>1, IncType DEF TypeInv
  <2>3. available_messages' \subseteq Ports
    BY <1>6, <2>1 DEF TypeInv, AsmStep, AsmLock, AsmCheck, AsmSleep, AsmNext, AsmTake,
           AsmPop, AsmInconsistent, AsmNull, AsmRecheck, AsmDeliver, AsmDrop,
           AsmDropNull, AsmSendFails
  <2>4. mutexLeaked' = mutexLeaked \/ mutexLeaked' = TRUE
    BY <1>6 DEF AsmStep, AsmLock, AsmCheck, AsmSleep, AsmNext, AsmTake, AsmPop,
           AsmInconsistent, AsmNull, AsmRecheck, AsmDeliver, AsmDrop, AsmDropNull,
           AsmSendFails, asmVars
  <2>5. UNCHANGED <<active, open_ports, to_consume_global_seq, lastReceivedGlobalSeq>>
    BY <1>6 DEF AsmStep, AsmLock, AsmCheck, AsmSleep, AsmNext, AsmTake, AsmPop,
           AsmInconsistent, AsmNull, AsmRecheck, AsmDeliver, AsmDrop, AsmDropNull,
           AsmSendFails, AsmRest, rxVars
  <2>6. mutexLeaked' \in BOOLEAN
    BY <2>4, Zenon DEF TypeInv
  <2> QED BY <2>2, <2>3, <2>5, <2>6 DEF TypeInv
<1>7. CASE StartModule
  BY <1>7 DEF TypeInv, StartModule, asmVars
<1>8. CASE PortStep
  <2>1. active' \in BOOLEAN /\ open_ports' \subseteq Ports
    BY <1>8 DEF TypeInv, PortStep, OpenPort, ClosePort, StopBegin, StopStep,
                StopModule, StopJoin, SpuriousWakeup, LoseMutex
  <2> QED BY <1>8, <2>1, PortFrame DEF TypeInv, rxVars, asmVars
<1> QED BY <1>1, <1>2, <1>3, <1>4, <1>5, <1>6, <1>7, <1>8, Steps

\* Program counters and what they work on keep their types.
LEMMA TypeThreadsStep == TypeInv /\ Next => TypeThreads' /\ CountInv'
<1> SUFFICES ASSUME TypeInv, Next PROVE TypeThreads' /\ CountInv'
  OBVIOUS
<1> USE DEF TypeThreads, CountInv, RxLabels, AsmLabels
<1>0. Window \in Nat /\ Window > 0 /\ 0 \in 0 .. Window
  BY RxBoundsAssumption
<1>1. CASE PeerStep
  BY <1>1, PeerFrame DEF TypeInv, rxVars, asmVars
<1>2. CASE RecvFrame \/ RecvPort \/ CallbackStuck \/ RecvWrite \/ RecvCompare \/ RecvSync
  BY <1>2 DEF TypeInv, RecvFrame, RecvPort, CallbackStuck, RecvWrite, RecvCompare,
              RecvSync, RxRest, rxVars, asmVars
<1>4. CASE RecvComplete
  <2>1. receiving_window < Window /\ receiving_window \in Nat /\ receiving_window' = receiving_window + 1
    BY <1>0, <1>4 DEF RecvComplete, TypeInv
  <2>2. /\ receiving_window' \in 0 .. Window
        /\ ~ (receiving_window + 1 >= Window) => receiving_window' < Window
    BY <1>0, <2>1
  <2>3. available_messages' # {} \/ available_messages' = available_messages
    BY <1>4 DEF RecvComplete
  <2> QED BY <1>4, <2>2, <2>3 DEF TypeInv, RecvComplete, RxRest, asmVars, Signalled
<1>5. CASE FlushStep
  <2>1. flushPorts' \subseteq Ports
    BY <1>5 DEF TypeInv, TypeBuffer, FlushStep, FlushQueues, FlushTest, FlushPeek,
              FlushClear, FlushDone
  <2>2. \/ rxpc' \in {"flushNext", "flushPeek", "flushClear", "aborted"} /\ receiving_window' = receiving_window
        \/ rxpc' = "idle" /\ receiving_window' = 0
    BY <1>5 DEF FlushStep, FlushQueues, FlushTest, FlushPeek, FlushClear, FlushDone, rxVars
  <2>4. rxpc' \in {"flushPeek", "flushClear"} => flushPorts' # {}
    BY <1>5 DEF TypeInv, FlushStep, FlushQueues, FlushTest, FlushPeek, FlushClear, FlushDone
  <2>3. UNCHANGED <<available_messages, asmpc, stoppc, asmPort>>
    BY <1>5 DEF FlushStep, FlushQueues, FlushTest, FlushPeek, FlushClear,
              FlushDone, FlushRest, RxRest, asmVars
  <2> QED BY <1>0, <2>1, <2>2, <2>3, <2>4 DEF TypeInv
<1>6. CASE AsmStep
  <2>1. asmPort' \in Ports
    <3>1. CASE AsmTake
      <4>1. available_messages # {} /\ available_messages \subseteq Ports
        BY <3>1 DEF AsmTake, TypeInv, TypeModule
      <4> QED BY <3>1, <4>1, LowestIn, RxPortsAssumption DEF AsmTake
    <3>2. CASE ~ AsmTake
      BY <1>6, <3>2 DEF TypeInv, AsmStep, AsmLock, AsmCheck, AsmSleep, AsmNext,
           AsmPop, AsmInconsistent, AsmNull, AsmRecheck, AsmDeliver, AsmDrop,
           AsmDropNull, AsmSendFails, asmVars
    <3> QED BY <3>1, <3>2
  <2>2. UNCHANGED <<rxpc, stoppc, receiving_window, flushPorts>>
    BY <1>6 DEF AsmStep, AsmLock, AsmCheck, AsmSleep, AsmNext, AsmTake, AsmPop,
           AsmInconsistent, AsmNull, AsmRecheck, AsmDeliver, AsmDrop, AsmDropNull,
           AsmSendFails, AsmRest, rxVars
  <2>3. asmpc' \in AsmLabels /\ (asmpc' = "take" => available_messages' # {})
    BY <1>6 DEF AsmStep, AsmLock, AsmCheck, AsmSleep, AsmNext, AsmTake, AsmPop,
           AsmInconsistent, AsmNull, AsmRecheck, AsmDeliver, AsmDrop, AsmDropNull,
           AsmSendFails
  <2> QED BY <2>1, <2>2, <2>3 DEF TypeInv
<1>7. CASE StartModule
  BY <1>0, <1>7 DEF TypeInv, StartModule, asmVars
<1>8. CASE PortStep
  <2>1. stoppc' \in {"running", "rx", "join", "stopped"}
    BY <1>8 DEF TypeInv, PortStep, OpenPort, ClosePort, StopBegin, StopStep,
                StopModule, StopJoin, SpuriousWakeup, LoseMutex
  <2> QED BY <1>8, <2>1, PortFrame DEF TypeInv, rxVars, asmVars
<1> QED BY <1>1, <1>2, <1>4, <1>5, <1>6, <1>7, <1>8, Steps

\* The i-th of the k packets of a message that the peer sends
PeerPacket(p, k, i) ==
    [type |-> "DATA", port |-> p, seq |-> (Sent(p) + i - 1) % SeqMod,
     sub |-> i - 1, more |-> i < k, gseq |-> peerGlobal % SeqMod,
     n |-> Sent(p) + i, msg |-> Sent(p) + 1, g |-> peerGlobal]

\* What the peer sends are data packets.
LEMMA PeerPacketType ==
    ASSUME TypeInv, NEW p \in Ports, NEW k \in Nat, NEW i \in 1 .. k
    PROVE  PeerPacket(p, k, i) \in DataPacket
<1> DEFINE m == i < k
           sub == i - 1
           n == Sent(p) + i
           msg == Sent(p) + 1
           seq == (Sent(p) + i - 1) % SeqMod
           gseq == peerGlobal % SeqMod
<1>1. Sent(p) \in Nat /\ peerGlobal \in Nat
  BY SentType DEF TypeInv, TypePeer
<1>2. Sent(p) + i - 1 \in Nat /\ n \in Nat /\ msg \in Nat /\ sub \in Nat
  BY <1>1
<1>3. seq \in SeqNums /\ gseq \in SeqNums
  BY <1>1, <1>2, ModType
<1>4. m \in BOOLEAN
  OBVIOUS
<1>5. PeerPacket(p, k, i) =
        [type |-> "DATA", port |-> p, seq |-> seq, sub |-> sub, more |-> m,
         gseq |-> gseq, n |-> n, msg |-> msg, g |-> peerGlobal]
  BY DEF PeerPacket
<1> HIDE DEF m, seq, gseq, sub, n, msg
<1>6. [type |-> "DATA", port |-> p, seq |-> seq, sub |-> sub, more |-> m,
       gseq |-> gseq, n |-> n, msg |-> msg, g |-> peerGlobal] \in DataPacket
  BY <1>1, <1>2, <1>3, <1>4 DEF DataPacket
<1> QED BY <1>5, <1>6

\* The packets of a message go to the end of the channel.
LEMMA PeerSendNet ==
    ASSUME TypeInv, NEW p \in Ports, NEW k \in 1 .. MaxFragments, PeerSend(p, k)
    PROVE  /\ net' \in Seq(DataPacket \cup SyncPacket) /\ Len(net') = Len(net) + k
           /\ \A i \in 1 .. Len(net) : net'[i] = net[i]
           /\ \A i \in 1 .. Len(net') :
                i > Len(net) => /\ i - Len(net) \in 1 .. k
                                /\ net'[i] = PeerPacket(p, k, i - Len(net))
<1> DEFINE f == [i \in 1 .. k |-> PeerPacket(p, k, i)]
<1>1. k \in Nat
  BY RxBoundsAssumption
<1>2. f \in [1 .. k -> DataPacket \cup SyncPacket]
  BY <1>1, PeerPacketType
<1>3. net' = net \o f
  BY DEF PeerSend, PeerPacket
<1>4. net \in Seq(DataPacket \cup SyncPacket)
  BY DEF TypeInv, TypeFrame
<1>5. \A i \in 1 .. k : f[i] = PeerPacket(p, k, i)
  OBVIOUS
<1> HIDE DEF f
<1>6. /\ net \o f \in Seq(DataPacket \cup SyncPacket) /\ Len(net \o f) = Len(net) + k
      /\ \A i \in 1 .. Len(net) : (net \o f)[i] = net[i]
      /\ \A i \in 1 .. Len(net) + k :
           i > Len(net) => i - Len(net) \in 1 .. k /\ (net \o f)[i] = f[i - Len(net)]
  BY <1>1, <1>2, <1>4, ConcatIs
<1> QED BY <1>3, <1>5, <1>6

\* A sync packet of the peer, and the channel it is put into.
LEMMA PeerSyncNet ==
    ASSUME TypeInv, PeerSync
    PROVE  \E i \in 0 .. Len(net), s \in SyncPacket :
             /\ net' = InsertAfter(net, i, s) /\ s.port_seq = [p \in Ports |-> Sent(p) % SeqMod]
             /\ net' \in Seq(DataPacket \cup SyncPacket) /\ Len(net') = Len(net) + 1
<1>1. PICK i \in 0 .. Len(net) :
         net' = InsertAfter(net, i, [type |-> "SYNC",
                   port_seq |-> [p \in Ports |-> Sent(p) % SeqMod],
                   tx_global_seq |-> NextGlobal(i)])
  BY DEF PeerSync
<1> DEFINE seqs == [p \in Ports |-> Sent(p) % SeqMod]
           glob == NextGlobal(i)
           s == [type |-> "SYNC", port_seq |-> seqs, tx_global_seq |-> glob]
<1>2. seqs \in [Ports -> SeqNums]
  BY SentType, ModType
<1>3. net \in Seq(DataPacket \cup SyncPacket)
  BY DEF TypeInv, TypeFrame
<1>4. NextGlobal(i) \in SeqNums
  <2> DEFINE later == {j \in i + 1 .. Len(net) : net[j].type = "DATA"}
  <2>1. CASE later = {}
    BY <2>1, ModType DEF NextGlobal, TypeInv, TypePeer
  <2>2. CASE later # {}
    <3>1. later \in SUBSET Nat /\ later \subseteq 1 .. Len(net)
      OBVIOUS
    <3>2. Lowest(later) \in later
      BY <2>2, <3>1, LowestIn
    <3>3. net[Lowest(later)] \in DataPacket \cup SyncPacket /\ net[Lowest(later)].type = "DATA"
      BY <1>3, <3>1, <3>2
    <3>4. net[Lowest(later)].gseq \in SeqNums
      BY <3>3 DEF DataPacket, SyncPacket
    <3>5. NextGlobal(i) = net[Lowest(later)].gseq
      BY <2>2 DEF NextGlobal
    <3> QED BY <3>4, <3>5
  <2> QED BY <2>1, <2>2
<1> HIDE DEF seqs, glob
<1>5. s \in SyncPacket
  BY <1>2, <1>4, Zenon DEF SyncPacket, glob
<1>6. net' = InsertAfter(net, i, s) /\ s.port_seq = seqs
  BY <1>1 DEF seqs, glob
<1> HIDE DEF s
<1>7. net' \in Seq(DataPacket \cup SyncPacket) /\ Len(net') = Len(net) + 1
  <2>1. s \in DataPacket \cup SyncPacket
    BY <1>5
  <2> QED BY <1>3, <1>6, <2>1, InsertAfterType
<1> QED BY <1>5, <1>6, <1>7 DEF seqs

\* The channel and the callback thread hold packets.
LEMMA TypeFrameStep == TypeInv /\ Next => TypeFrame'
<1> SUFFICES ASSUME TypeInv, Next PROVE TypeFrame'
  OBVIOUS
<1> DEFINE Pkt == DataPacket \cup SyncPacket
<1>0. net \in Seq(Pkt) /\ TypeFrame
  BY DEF TypeInv, TypeFrame
<1>1. CASE PeerStep
  <2>1. UNCHANGED <<rxpc, frame>>
    BY <1>1, PeerFrame
  <2>2. net' \in Seq(Pkt)
    <3>1. ASSUME NEW p \in Ports, NEW k \in 1 .. MaxFragments, PeerSend(p, k)
          PROVE  net' \in Seq(Pkt)
      BY <3>1, PeerSendNet
    <3>2. CASE PeerSync
      BY <3>2, PeerSyncNet
    <3>3. CASE LoseFrame
      BY <1>0, <3>3, WithoutIs DEF LoseFrame
    <3> QED BY <1>1, <3>1, <3>2, <3>3 DEF PeerStep
  <2> QED BY <1>0, <2>1, <2>2 DEF TypeFrame
<1>2. CASE RecvFrame
  <2>1. PICK i \in 1 .. Len(net) :
          /\ net' = Without(net, i)
          /\ \/ UNCHANGED <<rxpc, frame>>
             \/ /\ frame' = net[i]
                /\ rxpc' = IF net[i].type = "SYNC" THEN "sync" ELSE "port"
    BY <1>2 DEF RecvFrame
  <2>2. net' \in Seq(Pkt)
    BY <1>0, <2>1, WithoutIs
  <2>3. net[i] \in Pkt
    BY <1>0
  <2>4. net[i].type = "SYNC" => net[i] \in SyncPacket
    BY <2>3 DEF DataPacket, SyncPacket
  <2>5. net[i].type # "SYNC" => net[i] \in DataPacket
    BY <2>3 DEF DataPacket, SyncPacket
  <2> QED BY <1>0, <2>1, <2>2, <2>3, <2>4, <2>5 DEF TypeFrame
<1>3. CASE RecvSync \/ RecvPort \/ CallbackStuck \/ RecvWrite \/ RecvCompare \/ RecvComplete
  <2>1. net' = net /\ (frame' = frame \/ frame' = NoFrame)
    BY <1>3 DEF RecvSync, RecvPort, CallbackStuck, RecvWrite, RecvCompare, RecvComplete
  <2>2. \/ rxpc' \in {"idle", "flush", "stuck"}
        \/ /\ rxpc' \in {"write", "compare", "complete"} /\ frame' = frame
           /\ rxpc \in {"port", "write", "compare"}
    BY <1>3 DEF RecvSync, RecvPort, CallbackStuck, RecvWrite, RecvCompare, RecvComplete
  <2> QED BY <1>0, <2>1, <2>2 DEF TypeFrame
<1>4. CASE FlushStep
  <2>1. /\ UNCHANGED <<net, frame>>
        /\ rxpc' \in {"flushNext", "flushPeek", "flushClear", "aborted", "idle"}
    BY <1>4 DEF FlushStep, FlushQueues, FlushTest, FlushPeek, FlushClear, FlushDone,
         FlushRest
  <2> QED BY <1>0, <2>1 DEF TypeFrame
<1>5. CASE AsmStep \/ StartModule \/ PortStep
  <2>1. UNCHANGED <<net, frame, rxpc>>
    BY <1>5, PortFrame DEF AsmStep, AsmLock, AsmCheck, AsmSleep, AsmNext, AsmTake,
         AsmPop, AsmInconsistent, AsmNull, AsmRecheck, AsmDeliver, AsmDrop,
         AsmDropNull, AsmSendFails, AsmRest, StartModule, netVars
  <2> QED BY <1>0, <2>1 DEF TypeFrame
<1> QED BY <1>1, <1>2, <1>3, <1>4, <1>5, Steps

\* Every queue and every message holds data packets.
LEMMA TypeBufferStep == TypeInv /\ Next => TypeBuffer'
<1> SUFFICES ASSUME TypeInv, Next PROVE TypeBuffer'
  OBVIOUS
<1> USE DEF TypeBuffer
<1>0. TypeBuffer /\ asmPort \in Ports
  BY DEF TypeInv, TypeThreads
<1>1. CASE PeerStep \/ RecvFrame \/ RecvPort \/ CallbackStuck \/ RecvSync \/ RecvComplete
           \/ StartModule \/ PortStep
  <2>1. UNCHANGED <<bufVars, assembled, delivered>>
    BY <1>1, PeerFrame, PortFrame DEF RecvFrame, RecvPort, CallbackStuck, RecvSync,
         RecvComplete, RxRest, StartModule, asmVars
  <2> QED BY <1>0, <2>1 DEF bufVars
<1>2. CASE RecvWrite \/ RecvCompare
  <2>1. frame \in DataPacket
    BY <1>2 DEF TypeInv, TypeFrame, RecvWrite, RecvCompare
  <2>2. frame.port \in Ports
    BY <2>1 DEF DataPacket
  <2>3. UNCHANGED asmVars
    BY <1>2 DEF RecvWrite, RecvCompare, RxRest
  <2>4. queue' \in [Ports -> Seq(DataPacket)]
    <3>1. CASE RecvWrite
      <4>1. <<frame>> \in Seq(DataPacket)
        BY <2>1
      <4> QED BY <1>0, <3>1, <4>1 DEF RecvWrite, bufVars
    <3>2. CASE RecvCompare
      <4> DEFINE p == frame.port
                 kept == IF WindowExceeded(Head(queue[p]), frame) THEN << >> ELSE queue[p]
                 new == Push(kept, frame, current_port_sequence[p])
      <4>1. queue' = [queue EXCEPT ![p] = new]
        BY <3>2 DEF RecvCompare
      <4>2. kept \in Seq(DataPacket)
        BY <1>0, <2>2
      <4> HIDE DEF kept
      <4>3. new \in Seq(DataPacket)
        BY <2>1, <4>2, PushType
      <4> HIDE DEF new
      <4> QED BY <1>0, <4>1, <4>3
    <3> QED BY <1>2, <3>1, <3>2
  <2>5. packet_counter' \subseteq Ports
    BY <1>0, <1>2, <2>2 DEF RecvWrite, RecvCompare, bufVars
  <2> QED BY <1>0, <2>3, <2>4, <2>5 DEF asmVars
<1>3. CASE FlushStep
  <2>1. /\ queue' = queue \/ queue' = [queue EXCEPT ![Lowest(flushPorts)] = << >>]
        /\ packet_counter' \subseteq packet_counter /\ UNCHANGED asmVars
    BY <1>3 DEF FlushStep, FlushQueues, FlushTest, FlushPeek, FlushClear, FlushDone,
                FlushRest, RxRest, bufVars
  <2>2. << >> \in Seq(DataPacket)
    OBVIOUS
  <2>3. queue' \in [Ports -> Seq(DataPacket)]
    BY <1>0, <2>1, <2>2
  <2> QED BY <1>0, <2>1, <2>3 DEF asmVars
<1>4. CASE AsmPop \/ AsmInconsistent
  <2>1. queue[asmPort] \in Seq(DataPacket) /\ queue[asmPort] # << >>
    BY <1>0, <1>4, NotEmpty DEF AsmPop, AsmInconsistent
  <2>2. Head(queue[asmPort]) \in DataPacket /\ Tail(queue[asmPort]) \in Seq(DataPacket)
    BY <2>1, HeadTail
  <2>3. /\ queue' = [queue EXCEPT ![asmPort] = Tail(queue[asmPort])]
        /\ packet_counter' \subseteq packet_counter /\ delivered' = delivered
    BY <1>4 DEF AsmPop, AsmInconsistent, Popped
  <2>4. queue' \in [Ports -> Seq(DataPacket)]
    BY <1>0, <2>2, <2>3
  <2>5. assembled' = assembled \/ assembled' = Append(assembled, Head(queue[asmPort]))
    BY <1>4 DEF AsmPop, AsmInconsistent
  <2>6. assembled' \in Seq(DataPacket)
    <3>1. \A h \in DataPacket : Append(assembled, h) \in Seq(DataPacket)
      BY <1>0
    <3> QED BY <1>0, <2>2, <2>5, <3>1
  <2> QED BY <1>0, <2>3, <2>4, <2>6
<1>5. CASE AsmTake
  <2>1. << >> \in Seq(DataPacket)
    OBVIOUS
  <2> QED BY <1>0, <1>5, <2>1 DEF AsmTake, bufVars
<1>6. CASE AsmDeliver
  <2>1. Append(delivered[asmPort], assembled) \in Seq(Seq(DataPacket))
    BY <1>0
  <2> QED BY <1>0, <1>6, <2>1 DEF AsmDeliver, bufVars
<1>7. CASE AsmLock \/ AsmCheck \/ AsmSleep \/ AsmNext \/ AsmNull \/ AsmRecheck \/ AsmDrop
           \/ AsmDropNull \/ AsmSendFails
  BY <1>0, <1>7 DEF AsmDrop, AsmDropNull, AsmSendFails, AsmLock, AsmCheck, AsmSleep,
       AsmNext, AsmNull, AsmRecheck, bufVars, asmVars
<1> QED BY <1>1, <1>2, <1>3, <1>4, <1>5, <1>6, <1>7, Steps DEF AsmStep

\* What the peer counts and what the ghosts record.
LEMMA TypePeerStep == TypeInv /\ Next => TypePeer' /\ SomePackets'
<1> SUFFICES ASSUME TypeInv, Next PROVE TypePeer' /\ SomePackets'
  OBVIOUS
<1>0. TypePeer /\ SomePackets
  BY DEF TypeInv
<1>1. ASSUME NEW p \in Ports, NEW k \in 1 .. MaxFragments, PeerSend(p, k)
      PROVE  TypePeer' /\ SomePackets'
  <2> DEFINE msg == [i \in 1 .. k |-> Sent(p) + i]
  <2>1. Sent(p) \in Nat /\ k \in Nat /\ k >= 1
    BY SentType, RxBoundsAssumption
  <2>2. msg \in Seq(Nat) /\ Len(msg) = k
    <3>1. msg \in [1 .. k -> Nat]
      BY <2>1
    <3> QED BY <2>1, <3>1
  <2>3. messages' = [messages EXCEPT ![p] = Append(messages[p], msg)] /\ peerGlobal' = peerGlobal + 1
    BY <1>1 DEF PeerSend
  <2>4. messages \in [Ports -> Seq(Seq(Nat))] /\ messages[p] \in Seq(Seq(Nat))
    BY <1>0 DEF TypePeer
  <2>5. msg # << >>
    BY <2>1, <2>2
  <2> HIDE DEF msg
  <2>6. /\ Append(messages[p], msg) \in Seq(Seq(Nat))
        /\ Len(Append(messages[p], msg)) = Len(messages[p]) + 1
        /\ \A m \in 1 .. Len(messages[p]) : Append(messages[p], msg)[m] = messages[p][m]
        /\ Append(messages[p], msg)[Len(messages[p]) + 1] = msg
    BY <2>2, <2>4
  <2>7. messages' \in [Ports -> Seq(Seq(Nat))]
    BY <2>3, <2>4, <2>6
  <2>8. SomePackets'
    <3> SUFFICES ASSUME NEW q \in Ports, NEW m \in 1 .. Len(messages'[q])
                 PROVE  messages'[q][m] # << >>
      BY DEF SomePackets
    <3>1. CASE q # p
      <4>1. messages'[q] = messages[q]
        BY <2>3, <2>4, <3>1
      <4> QED BY <1>0, <4>1 DEF SomePackets
    <3>2. CASE q = p
      <4>1. messages'[q] = Append(messages[p], msg)
        BY <2>3, <2>4, <3>2
      <4>2. m \in 1 .. Len(messages[p]) \/ m = Len(messages[p]) + 1
        BY <2>4, <2>6, <4>1
      <4> QED BY <1>0, <2>5, <2>6, <4>1, <4>2 DEF SomePackets
    <3> QED BY <3>1, <3>2
  <2>9. UNCHANGED <<syncs, losses, events, newest, missed>>
    BY <1>1 DEF PeerSend, NetRest
  <2> QED BY <1>0, <2>3, <2>7, <2>8, <2>9 DEF TypePeer
<1>2. ASSUME messages' = messages PROVE SomePackets'
  BY <1>0, <1>2 DEF SomePackets
<1>3. CASE PeerSync \/ LoseFrame
  <2>1. /\ UNCHANGED <<messages, peerGlobal, newest, missed, events>>
        /\ syncs' = syncs \/ syncs' = syncs + 1
        /\ losses' = losses \/ losses' = losses + 1
    BY <1>3 DEF PeerSync, LoseFrame, NetRest
  <2> QED BY <1>0, <1>2, <2>1 DEF TypePeer
<1>4. CASE RecvFrame \/ RecvSync \/ RecvPort \/ CallbackStuck \/ RecvWrite
              \/ RecvCompare \/ FlushStep
  <2>1. UNCHANGED <<messages, peerGlobal, syncs, losses, newest, missed, events>>
    BY <1>4 DEF RecvFrame, RecvSync, RecvPort, CallbackStuck, RecvWrite, RecvCompare,
         FlushStep, RxRest, FlushQueues, FlushTest, FlushPeek, FlushClear, FlushDone,
         FlushRest
  <2> QED BY <1>0, <1>2, <2>1 DEF TypePeer
<1>5. CASE RecvComplete
  <2>1. UNCHANGED <<messages, peerGlobal, syncs, losses, events>>
    BY <1>5 DEF RecvComplete, RxRest
  <2>2. frame \in DataPacket
    BY <1>5 DEF RecvComplete, TypeInv, TypeFrame
  <2>3. newest' \in Nat
    BY <1>0, <1>5, <2>2 DEF RecvComplete, DataPacket, TypePeer
  <2>4. missed' \in BOOLEAN
    BY <1>5 DEF RecvComplete
  <2> QED BY <1>0, <1>2, <2>1, <2>3, <2>4 DEF TypePeer
<1>6. CASE AsmStep
  <2>1. UNCHANGED <<messages, peerGlobal, syncs, losses, events, newest>>
    BY <1>6 DEF AsmStep, AsmLock, AsmCheck, AsmSleep, AsmNext, AsmTake, AsmPop,
         AsmInconsistent, AsmNull, AsmRecheck, AsmDeliver, AsmDrop, AsmDropNull,
         AsmSendFails, AsmRest
  <2>2. missed' = (missed /\ asmpc # "check")
    BY <1>6 DEF AsmStep, AsmLock, AsmCheck, AsmSleep, AsmNext, AsmTake, AsmPop,
         AsmInconsistent, AsmNull, AsmRecheck, AsmDeliver, AsmDrop, AsmDropNull,
         AsmSendFails, AsmRest
  <2>3. missed' \in BOOLEAN
    BY <2>2
  <2> QED BY <1>0, <1>2, <2>1, <2>3 DEF TypePeer
<1>7. CASE StartModule \/ PortStep
  <2>1. UNCHANGED netVars /\ (events' = events \/ events' = events + 1)
    BY <1>7 DEF StartModule, PortStep, OpenPort, ClosePort, StopBegin, StopStep,
                StopModule, StopJoin, SpuriousWakeup, LoseMutex, PortRest, Event
  <2> QED BY <1>0, <1>2, <2>1 DEF TypePeer, netVars
<1> QED BY <1>1, <1>3, <1>4, <1>5, <1>6, <1>7, Steps DEF PeerStep

\* Mutexes are lost by the assembly thread and by others, and steps disturb
\* ports.
LEMMA TypeLostStep == TypeInv /\ Next => TypeLost'
<1> SUFFICES ASSUME TypeInv, Next PROVE TypeLost'
  OBVIOUS
<1>0. TypeLost
  BY DEF TypeInv
<1>1. CASE PeerStep
  BY <1>0, <1>1, PeerFrame DEF TypeLost, asmVars
<1>2. CASE RecvFrame \/ RecvPort \/ CallbackStuck \/ RecvWrite \/ RecvSync
  BY <1>0, <1>2 DEF TypeLost, RecvFrame, RecvPort, CallbackStuck, RecvWrite, RecvSync,
                    RxRest, asmVars
<1>3. CASE RecvCompare \/ RecvComplete
  <2>1. frame \in DataPacket
    BY <1>3 DEF RecvCompare, RecvComplete, TypeInv, TypeFrame
  <2>2. frame.port \in Ports
    BY <2>1 DEF DataPacket
  <2> QED BY <1>0, <1>3, <2>2 DEF TypeLost, RecvCompare, RecvComplete, RxRest, asmVars
<1>4. CASE FlushStep
  <2>1. FlushClear => Lowest(flushPorts) \in Ports
    <3>1. flushPorts # {} /\ flushPorts \in SUBSET Nat => Lowest(flushPorts) \in flushPorts
      BY LowestIn
    <3> QED BY <3>1, RxPortsAssumption DEF TypeInv, TypeThreads, CountInv, FlushClear
  <2> QED BY <1>0, <1>4, <2>1 DEF TypeLost, FlushStep, FlushQueues, FlushTest, FlushPeek,
                    FlushClear, FlushDone, FlushRest, RxRest, asmVars
<1>5. CASE AsmStep
  BY <1>0, <1>5 DEF TypeLost, AsmStep, AsmLock, AsmCheck, AsmSleep, AsmNext, AsmTake,
     AsmPop, AsmInconsistent, AsmNull, AsmRecheck, AsmDeliver, AsmDrop, AsmDropNull,
     AsmSendFails, asmVars
<1>6. CASE StartModule
  BY <1>0, <1>6 DEF TypeLost, StartModule, asmVars
<1>7. CASE PortStep
  <2>1. lost' = lost \/ \E m \in {"clients", "tx"} : lost' = lost \cup {m}
    BY <1>7 DEF PortStep, OpenPort, ClosePort, StopBegin, StopStep, StopModule, StopJoin,
                SpuriousWakeup, LoseMutex, PortRest, asmVars
  <2> QED BY <1>0, <1>7, <2>1, PortFrame DEF TypeLost
<1> QED BY <1>1, <1>2, <1>3, <1>4, <1>5, <1>6, <1>7, Steps

\* A step that changes nothing keeps the types.
LEMMA TypeStutter == TypeInv /\ UNCHANGED vars => TypeInv'
BY DEF vars, rxVars, bufVars, asmVars, netVars, TypeInv, TypeModule, TypeThreads,
       TypeFrame, TypeBuffer, TypePeer, TypeLost, CountInv, SomePackets

\* Every step keeps the types.
LEMMA TypeStep == TypeInv /\ [Next]_vars => TypeInv'
BY TypeModuleStep, TypeThreadsStep, TypeFrameStep, TypeBufferStep, TypePeerStep,
   TypeLostStep, TypeStutter DEF TypeInv

\* Type correctness of the receiving half: in particular no counter leaves its
\* uint8_t range, receiving_window stops at the window, and every queue and
\* every message handed over holds data packets.
THEOREM RxTypes == Spec => []TypeOK
<1>1. Init => TypeInv
  BY TypeInit
<1>2. TypeInv /\ [Next]_vars => TypeInv'
  BY TypeStep
<1>3. TypeInv => TypeOK
  BY DEF TypeInv, TypeModule, TypeThreads, TypeFrame, TypeBuffer, TypePeer,
         TypeLost, TypeOK
<1> QED BY <1>1, <1>2, <1>3, PTL DEF Spec

-----------------------------------------------------------------------------
(***************************************************************************)
(* Numbers and their remainders.                                           *)
(***************************************************************************)
\* A number below the number of sequence numbers is its own remainder.
LEMMA WrappedSmall ==
    ASSUME NEW n \in 0 .. SeqMod - 1
    PROVE  Wrapped(n) = n
BY SeqModAssumption DEF Wrapped

\* The remainder is the rest after whole turns.
LEMMA WrappedIs ==
    ASSUME NEW d \in Nat, NEW a \in 0 .. SeqMod - 1
    PROVE  Wrapped(SeqMod * d + a) = a
<1>1. SeqMod \in Nat /\ SeqMod > 1
  BY SeqModAssumption
<1>2. PICK n \in Nat : n = SeqMod * d + a
  BY <1>1
<1> DEFINE b == n % SeqMod
           e == n \div SeqMod
<1>3. b \in 0 .. SeqMod - 1 /\ e \in Nat /\ n = SeqMod * e + b
  BY <1>1
<1> HIDE DEF b, e
<1>4. d <= e
  <2> SUFFICES ASSUME e + 1 <= d PROVE FALSE
    BY <1>3
  <2>1. SeqMod * (e + 1) <= SeqMod * d
    BY <1>1, <1>3
  <2> QED BY <1>1, <1>2, <1>3, <2>1
<1>5. e <= d
  <2> SUFFICES ASSUME d + 1 <= e PROVE FALSE
    BY <1>3
  <2>1. SeqMod * (d + 1) <= SeqMod * e
    BY <1>1, <1>3
  <2> QED BY <1>1, <1>2, <1>3, <2>1
<1>6. d = e
  BY <1>3, <1>4, <1>5
<1>7. a = b
  BY <1>1, <1>2, <1>3, <1>6
<1> QED BY <1>2, <1>7 DEF Wrapped, b

\* The number after a remainder is the remainder of the next number.
LEMMA WrappedNext ==
    ASSUME NEW n \in Nat, n >= 1
    PROVE  Wrapped(n - 1) \in SeqNums /\ Inc(Wrapped(n - 1)) = Wrapped(n)
<1> DEFINE a == (n - 1) % SeqMod
           d == (n - 1) \div SeqMod
<1>1. SeqMod \in Nat /\ SeqMod > 1
  BY SeqModAssumption
<1>2. a \in 0 .. SeqMod - 1 /\ d \in Nat /\ n - 1 = SeqMod * d + a
  BY <1>1
<1>3. CASE a = SeqMod - 1
  <2>1. n = SeqMod * (d + 1) + 0 /\ d + 1 \in Nat /\ 0 \in 0 .. SeqMod - 1
    BY <1>1, <1>2, <1>3
  <2>2. Wrapped(n) = 0
    BY <2>1, WrappedIs
  <2> QED BY <1>2, <1>3, <2>2 DEF Wrapped, Inc, SeqNums
<1>4. CASE a # SeqMod - 1
  <2>1. n = SeqMod * d + (a + 1) /\ a + 1 \in 0 .. SeqMod - 1
    BY <1>1, <1>2, <1>4
  <2>2. Wrapped(n) = a + 1
    BY <1>2, <2>1, WrappedIs
  <2> QED BY <1>2, <1>4, <2>2 DEF Wrapped, Inc, SeqNums
<1> QED BY <1>3, <1>4

\* Two numbers less than a turn apart with one remainder are the same.
LEMMA WrappedEqual ==
    ASSUME NEW m \in Nat, NEW n \in Nat, m <= n, n < m + SeqMod, Wrapped(m) = Wrapped(n)
    PROVE  m = n
<1> DEFINE a == m % SeqMod
           c == m \div SeqMod
           d == n \div SeqMod
<1>1. SeqMod \in Nat /\ SeqMod > 1
  BY SeqModAssumption
<1>2. /\ a \in 0 .. SeqMod - 1 /\ c \in Nat /\ m = SeqMod * c + a
  BY <1>1
<1>3. d \in Nat /\ n = SeqMod * d + a
  BY <1>1 DEF Wrapped
<1> HIDE DEF a, c, d
<1>4. c <= d
  <2> SUFFICES ASSUME d + 1 <= c PROVE FALSE
    BY <1>2, <1>3
  <2>1. SeqMod * (d + 1) <= SeqMod * c
    BY <1>1, <1>2, <1>3
  <2> QED BY <1>1, <1>2, <1>3, <2>1
<1>5. d <= c
  <2> SUFFICES ASSUME c + 1 <= d PROVE FALSE
    BY <1>2, <1>3
  <2>1. SeqMod * (c + 1) <= SeqMod * d
    BY <1>1, <1>2, <1>3
  <2> QED BY <1>1, <1>2, <1>3, <2>1
<1> QED BY <1>2, <1>3, <1>4, <1>5

-----------------------------------------------------------------------------
(***************************************************************************)
(* Where a packet stands.                                                  *)
(***************************************************************************)
\* Further messages of the peer do not move it.
LEMMA LocatedGrows ==
    ASSUME NEW total \in Nat, NEW ends \in SUBSET (0 .. total), NEW new \in Nat,
           new > total, NEW k, Located(k, ends, total)
    PROVE  Located(k, ends \cup {new}, new)
BY DEF Located

\* A packet that follows a fragment with more to come belongs to its message.
LEMMA NextFragment ==
    ASSUME NEW total \in Nat, NEW ends \in SUBSET (0 .. total), NEW a, NEW b,
           Located(a, ends, total), Located(b, ends, total), a.more, b.n = a.n + 1
    PROVE  b.msg = a.msg /\ b.sub = a.sub + 1
<1>1. /\ a.n \in Nat /\ b.n \in Nat /\ a.msg \in Nat /\ b.msg \in Nat
      /\ a.msg <= a.n /\ b.msg <= b.n /\ a.sub = a.n - a.msg /\ b.sub = b.n - b.msg
  BY DEF Located
<1>2. a.n \notin ends /\ b.msg - 1 \in ends /\ a.msg - 1 \in ends
  BY DEF Located
<1>3. b.msg - 1 < a.msg \/ a.n <= b.msg - 1
  BY <1>2 DEF Located
<1>4. a.msg - 1 < b.msg \/ b.n <= a.msg - 1
  BY <1>2 DEF Located
<1>5. b.msg - 1 # a.n
  BY <1>2
<1> QED BY <1>1, <1>3, <1>4, <1>5

\* A packet behind an end is the first of its message.
LEMMA FirstFragment ==
    ASSUME NEW total \in Nat, NEW ends \in SUBSET (0 .. total), NEW c \in ends, NEW b,
           Located(b, ends, total), b.n = c + 1
    PROVE  b.sub = 0 /\ b.msg = b.n
BY DEF Located

\* The elements of a sequence after an insertion.
LEMMA InsertAfterElements ==
    ASSUME NEW S, NEW q \in Seq(S), NEW e, NEW k \in 0 .. Len(q), NEW i \in 1 .. Len(q) + 1
    PROVE  \/ InsertAfter(q, k, e)[i] = e
           \/ \E j \in 1 .. Len(q) : InsertAfter(q, k, e)[i] = q[j]
<1>1. InsertAfter(q, k, e)[i] = IF i <= k THEN q[i] ELSE IF i = k + 1 THEN e ELSE q[i - 1]
  BY DEF InsertAfter
<1>2. CASE i <= k
  BY <1>1, <1>2
<1>3. CASE i = k + 1
  BY <1>1, <1>3
<1>4. CASE ~ (i <= k) /\ i # k + 1
  <2>1. i - 1 \in 1 .. Len(q)
    BY <1>4
  <2> QED BY <1>1, <1>4, <2>1
<1> QED BY <1>2, <1>3, <1>4

\* A queue after push holds what it held and the new packet.
LEMMA PushElements ==
    ASSUME NEW S, NEW q \in Seq(S), NEW e \in S, NEW offset,
           NEW i \in 1 .. Len(Push(q, e, offset))
    PROVE  \/ Push(q, e, offset)[i] = e
           \/ \E j \in 1 .. Len(q) : Push(q, e, offset)[i] = q[j]
<1>1. CASE IsFull(q)
  BY <1>1 DEF Push
<1>2. CASE ~ IsFull(q)
  <2>1. PICK k \in 0 .. Len(q) : k = Slot(q, e, offset)
    BY SlotExists
  <2>2. Push(q, e, offset) = InsertAfter(q, k, e)
    BY <1>2, <2>1 DEF Push
  <2>3. i \in 1 .. Len(q) + 1
    BY <2>2, InsertAfterType
  <2> QED BY <2>2, <2>3, InsertAfterElements
<1> QED BY <1>1, <1>2

-----------------------------------------------------------------------------
(***************************************************************************)
(* The messages of the peer.                                               *)
(***************************************************************************)
\* Nobody else changes what the peer has sent.
LEMMA MessagesKept ==
    ASSUME messages' = messages
    PROVE  Ends' = Ends /\ Total' = Total
BY DEF Ends, Total, Sent

\* A message of k packets adds one end, k packets further.
LEMMA MessagesGrow ==
    ASSUME TypeInv, NEW p \in Ports, NEW k \in 1 .. MaxFragments, PeerSend(p, k)
    PROVE  /\ Total[p] \in Nat /\ k \in Nat /\ k >= 1 /\ Total[p] + k <= MaxPackets
           /\ Total' = [Total EXCEPT ![p] = Total[p] + k]
           /\ Ends' = [Ends EXCEPT ![p] = Ends[p] \cup {Total[p] + k}]
<1> DEFINE old == messages[p]
           msg == [i \in 1 .. k |-> Sent(p) + i]
           new == Append(old, msg)
<1>1. Sent(p) \in Nat /\ k \in Nat /\ k >= 1
  BY SentType, RxBoundsAssumption
<1>2. msg \in Seq(Nat) /\ Len(msg) = k /\ msg[k] = Sent(p) + k
  <2>1. msg \in [1 .. k -> Nat]
    BY <1>1
  <2> QED BY <1>1, <2>1
<1>3. old \in Seq(Seq(Nat)) /\ messages \in [Ports -> Seq(Seq(Nat))]
  BY DEF TypeInv, TypePeer
<1>4. messages' = [messages EXCEPT ![p] = new]
  BY DEF PeerSend
<1>5. SX!Last(msg) = Sent(p) + k
  BY <1>2 DEF SX!Last
<1> HIDE DEF msg
<1>6. /\ new \in Seq(Seq(Nat)) /\ Len(new) = Len(old) + 1 /\ new # << >>
      /\ \A m \in 1 .. Len(old) : new[m] = old[m]
      /\ new[Len(old) + 1] = msg
  BY <1>2, <1>3, AppendIs
<1> HIDE DEF new
<1>7. messages'[p] = new /\ \A q \in Ports : q # p => messages'[q] = messages[q]
  BY <1>3, <1>4
<1>8. SX!Last(new) = msg
  BY <1>6 DEF SX!Last
<1>9. Total'[p] = Sent(p) + k
  BY <1>5, <1>6, <1>7, <1>8 DEF Total, Sent
<1>10. \A q \in Ports : q # p => Total'[q] = Total[q] /\ Ends'[q] = Ends[q]
  BY <1>7 DEF Total, Sent, Ends
<1>11. Ends'[p] = Ends[p] \cup {Sent(p) + k}
  <2>1. Ends[p] = {0} \cup {SX!Last(old[m]) : m \in 1 .. Len(old)}
    BY DEF Ends
  <2>2. Ends'[p] = {0} \cup {SX!Last(new[m]) : m \in 1 .. Len(new)}
    BY <1>7 DEF Ends
  <2>3. 1 .. Len(new) = 1 .. Len(old) \cup {Len(old) + 1}
    BY <1>3, <1>6
  <2>4. {SX!Last(new[m]) : m \in 1 .. Len(new)} =
        {SX!Last(old[m]) : m \in 1 .. Len(old)} \cup {SX!Last(msg)}
    BY <1>6, <2>3
  <2> QED BY <1>5, <2>1, <2>2, <2>4
<1>12. Sent(p) + k <= MaxPackets
  BY DEF PeerSend
<1>13. /\ Total = [q \in Ports |-> Total[q]] /\ Total' = [q \in Ports |-> Total'[q]]
       /\ Ends = [q \in Ports |-> Ends[q]] /\ Ends' = [q \in Ports |-> Ends'[q]]
       /\ Total[p] = Sent(p)
  BY DEF Total, Ends
<1> QED BY <1>1, <1>9, <1>10, <1>11, <1>12, <1>13

\* Only PeerSend changes the messages.
LEMMA MessagesStep ==
    ASSUME [Next]_vars
    PROVE  \/ \E p \in Ports : \E k \in 1 .. MaxFragments : PeerSend(p, k)
           \/ messages' = messages
<1>1. CASE PeerStep
  BY <1>1 DEF PeerStep, PeerSync, LoseFrame
<1>2. CASE RecvFrame \/ RecvSync \/ RecvPort \/ CallbackStuck \/ RecvWrite
              \/ RecvCompare \/ RecvComplete
  BY <1>2 DEF RecvFrame, RecvSync, RecvPort, CallbackStuck, RecvWrite, RecvCompare,
       RecvComplete, RxRest
<1>3. CASE FlushStep
  BY <1>3 DEF FlushStep, FlushQueues, FlushTest, FlushPeek, FlushClear, FlushDone,
              FlushRest, RxRest
<1>4. CASE AsmStep
  BY <1>4 DEF AsmStep, AsmLock, AsmCheck, AsmSleep, AsmNext, AsmTake, AsmPop,
         AsmInconsistent, AsmNull, AsmRecheck, AsmDeliver, AsmDrop, AsmDropNull,
         AsmSendFails, AsmRest
<1>5. CASE StartModule \/ PortStep \/ UNCHANGED vars
  BY <1>5, PortFrame DEF StartModule, netVars, vars
<1> QED BY <1>1, <1>2, <1>3, <1>4, <1>5, Steps

\* What the messages of the peer say of packets and boundaries stays true.
LEMMA StaysGenuine ==
    ASSUME TypeInv, PeerInv, [Next]_vars
    PROVE  /\ PeerInv'
           /\ \A p \in Ports : Ends[p] \subseteq Ends'[p] /\ Marks(p) \subseteq Marks(p)'
           /\ \A k : k.port \in Ports /\ Genuine(k) =>
                        Located(k, Ends'[k.port], Total'[k.port])
<1>1. CASE messages' = messages
  <2>1. Ends' = Ends /\ Total' = Total
    BY <1>1, MessagesKept
  <2> QED BY <2>1 DEF PeerInv, Genuine, Marks, Wrapped
<1>2. ASSUME NEW p \in Ports, NEW j \in 1 .. MaxFragments, PeerSend(p, j)
      PROVE  /\ PeerInv'
             /\ \A q \in Ports : Ends[q] \subseteq Ends'[q] /\ Marks(q) \subseteq Marks(q)'
             /\ \A k : k.port \in Ports /\ Genuine(k) =>
                          Located(k, Ends'[k.port], Total'[k.port])
  <2>1. /\ Total[p] \in Nat /\ j \in Nat /\ j >= 1 /\ Total[p] + j <= MaxPackets
        /\ Total' = [Total EXCEPT ![p] = Total[p] + j]
        /\ Ends' = [Ends EXCEPT ![p] = Ends[p] \cup {Total[p] + j}]
    BY <1>2, MessagesGrow
  <2>2. DOMAIN Total = Ports /\ DOMAIN Ends = Ports
    BY DEF Total, Ends
  <2>3. /\ Total'[p] = Total[p] + j /\ Ends'[p] = Ends[p] \cup {Total[p] + j}
        /\ \A q \in Ports : q # p => Total'[q] = Total[q] /\ Ends'[q] = Ends[q]
    BY <2>1, <2>2
  <2>4. Ends[p] \subseteq 0 .. Total[p]
    BY DEF PeerInv
  <2>5. /\ Ends'[p] \subseteq 0 .. Total'[p] /\ Total'[p] \in Ends'[p]
        /\ Total'[p] <= MaxPackets
    BY <2>1, <2>3, <2>4
  <2>6. PeerInv'
    BY <2>3, <2>5 DEF PeerInv
  <2>7. \A q \in Ports : Ends[q] \subseteq Ends'[q] /\ Marks(q) \subseteq Marks(q)'
    BY <2>3 DEF Marks, Wrapped
  <2>8. ASSUME NEW k, k.port \in Ports, Genuine(k)
        PROVE  Located(k, Ends'[k.port], Total'[k.port])
    <3>1. CASE k.port # p
      BY <2>3, <2>8, <3>1 DEF Genuine
    <3>2. CASE k.port = p
      <4>1. Located(k, Ends[p], Total[p])
        BY <2>8, <3>2 DEF Genuine
      <4>2. Total[p] + j \in Nat /\ Total[p] + j > Total[p]
        BY <2>1
      <4>3. Located(k, Ends[p] \cup {Total[p] + j}, Total[p] + j)
        BY <2>1, <2>4, <4>1, <4>2, LocatedGrows
      <4> QED BY <2>3, <3>2, <4>3
    <3> QED BY <3>1, <3>2
  <2> QED BY <2>6, <2>7, <2>8
<1> QED BY <1>1, <1>2, MessagesStep
-----------------------------------------------------------------------------
(***************************************************************************)
(* Every step keeps IntactInv.                                             *)
(***************************************************************************)
\* A packet of the peer stands where its header says.
LEMMA PeerPacketLocated ==
    ASSUME TypeInv, PeerInv, NEW p \in Ports, NEW k \in Nat, NEW i \in 1 .. k
    PROVE  Located(PeerPacket(p, k, i), Ends[p] \cup {Total[p] + k}, Total[p] + k)
<1>1. Total[p] = Sent(p) /\ Total[p] \in Nat
  BY SentType DEF Total
<1>2. Ends[p] \subseteq 0 .. Total[p] /\ Total[p] \in Ends[p]
  BY DEF PeerInv
<1> DEFINE t == Total[p]
<1>3. (t + i - 1) % SeqMod = Wrapped((t + i) - 1)
  BY <1>1 DEF Wrapped
<1>4. /\ PeerPacket(p, k, i).n = t + i /\ PeerPacket(p, k, i).seq = Wrapped((t + i) - 1)
      /\ PeerPacket(p, k, i).msg = t + 1 /\ PeerPacket(p, k, i).sub = i - 1
      /\ PeerPacket(p, k, i).more = (i < k)
  BY <1>1, <1>3 DEF PeerPacket
<1> HIDE DEF t
<1>5. /\ t + i \in 1 .. t + k /\ t + 1 \in 1 .. t + i /\ i - 1 = (t + i) - (t + 1)
      /\ (t + 1) - 1 = t /\ t \in Nat
  BY <1>1 DEF t
<1>6. \A e \in Ends[p] \cup {t + k} : e < t + 1 \/ t + i <= e
  BY <1>2, <1>5 DEF t
<1>7. (i < k) <=> t + i \notin Ends[p] \cup {t + k}
  BY <1>2, <1>5 DEF t
<1>8. t \in Ends[p] \cup {t + k}
  BY <1>2 DEF t
<1> DEFINE k0 == PeerPacket(p, k, i)
           ends == Ends[p] \cup {t + k}
<1> HIDE DEF k0, ends
<1>9. k0.n \in 1 .. t + k /\ k0.seq = Wrapped(k0.n - 1) /\ k0.msg \in 1 .. k0.n /\ k0.sub = k0.n - k0.msg
  BY <1>4, <1>5 DEF k0
<1>10. k0.msg - 1 \in ends
  BY <1>4, <1>5, <1>8 DEF k0, ends
<1>11. \A e \in ends : e < k0.msg \/ k0.n <= e
  BY <1>4, <1>6 DEF k0, ends
<1>12. k0.more <=> k0.n \notin ends
  BY <1>4, <1>7, Zenon DEF k0, ends
<1>13. Located(k0, ends, t + k)
  BY <1>9, <1>10, <1>11, <1>12 DEF Located
<1> QED BY <1>13 DEF k0, ends, t

\* A frame that was on its way still says what the peer sent.
LEMMA FrameStays ==
    ASSUME TypeInv, PeerInv, FrameInv, [Next]_vars
    PROVE  /\ \A i \in 1 .. Len(net) :
                /\ net[i].type = "DATA" => /\ net[i].port \in Ports
                                           /\ Located(net[i], Ends'[net[i].port], Total'[net[i].port])
                /\ net[i].type = "SYNC" => \A p \in Ports : net[i].port_seq[p] \in Marks(p)'
           /\ frame.type = "DATA" => /\ frame.port \in Ports
                                     /\ Located(frame, Ends'[frame.port], Total'[frame.port])
           /\ frame.type = "SYNC" => \A p \in Ports : frame.port_seq[p] \in Marks(p)'
<1>1. \A i \in 1 .. Len(net) : net[i].type = "DATA" => net[i].port \in Ports
  <2>1. \A i \in 1 .. Len(net) : net[i] \in DataPacket \cup SyncPacket
    BY DEF TypeInv, TypeFrame
  <2> QED BY <2>1 DEF DataPacket, SyncPacket
<1>2. frame.type = "DATA" => frame.port \in Ports
  BY DEF TypeInv, TypeFrame, DataPacket, SyncPacket, NoFrame
<1> QED BY <1>1, <1>2, StaysGenuine DEF FrameInv, Boundary

\* The channel and the callback thread hold genuine packets.
LEMMA FrameInvStep ==
    ASSUME TypeInv, TypeInv', PeerInv, FrameInv, [Next]_vars
    PROVE  FrameInv'
<1> DEFINE Good(x) ==
             /\ x.type = "DATA" => Located(x, Ends'[x.port], Total'[x.port])
             /\ x.type = "SYNC" => \A p \in Ports : x.port_seq[p] \in Marks(p)'
<1>1. (\A i \in 1 .. Len(net) : Good(net[i])) /\ Good(frame)
  BY FrameStays
<1>2. SUFFICES (\A i \in 1 .. Len(net') : Good(net'[i])) /\ Good(frame')
  BY DEF FrameInv, Genuine, Boundary
<1>3. Good(NoFrame)
  BY DEF NoFrame
<1>4. net \in Seq(DataPacket \cup SyncPacket)
  BY DEF TypeInv, TypeFrame
<1>5. ASSUME NEW p \in Ports, NEW k \in 1 .. MaxFragments, PeerSend(p, k)
      PROVE  (\A i \in 1 .. Len(net') : Good(net'[i])) /\ Good(frame')
  <2>1. frame' = frame
    BY <1>5 DEF PeerSend
  <2>2. /\ Total[p] \in Nat /\ k \in Nat /\ Total[p] + k <= MaxPackets
        /\ Total'[p] = Total[p] + k /\ Ends'[p] = Ends[p] \cup {Total[p] + k}
    <3>1. DOMAIN Total = Ports /\ DOMAIN Ends = Ports
      BY DEF Total, Ends
    <3> QED BY <1>5, <3>1, MessagesGrow
  <2>3. ASSUME NEW i \in 1 .. Len(net') PROVE Good(net'[i])
    <3>1. CASE i \in 1 .. Len(net)
      <4>1. net'[i] = net[i]
        BY <1>5, <3>1, PeerSendNet
      <4> QED BY <1>1, <3>1, <4>1
    <3>2. CASE i \notin 1 .. Len(net)
      <4>1. i > Len(net)
        BY <1>4, <3>2
      <4>2. i - Len(net) \in 1 .. k /\ net'[i] = PeerPacket(p, k, i - Len(net))
        BY <1>5, <4>1, PeerSendNet
      <4>3. Located(net'[i], Ends'[p], Total'[p])
        BY <2>2, <4>2, PeerPacketLocated
      <4>4. net'[i].port = p /\ net'[i].type = "DATA"
        BY <4>2 DEF PeerPacket
      <4> QED BY <4>3, <4>4
    <3> QED BY <3>1, <3>2
  <2> QED BY <1>1, <2>1, <2>3
<1>6. CASE PeerSync
  <2>1. PICK i \in 0 .. Len(net), s \in SyncPacket :
          /\ net' = InsertAfter(net, i, s) /\ Len(net') = Len(net) + 1
          /\ s.port_seq = [p \in Ports |-> Sent(p) % SeqMod]
    BY <1>6, PeerSyncNet
  <2>2. Good(s)
    <3>1. s.type = "SYNC"
      BY DEF SyncPacket
    <3>2. ASSUME NEW p \in Ports PROVE s.port_seq[p] \in Marks(p)'
      <4>1. Total[p] = Sent(p) /\ Total[p] \in Ends[p]
        BY DEF Total, PeerInv
      <4>2. s.port_seq[p] \in Marks(p)
        BY <2>1, <4>1 DEF Marks, Wrapped
      <4> QED BY <4>2, StaysGenuine
    <3> QED BY <3>1, <3>2
  <2>3. ASSUME NEW j \in 1 .. Len(net') PROVE Good(net'[j])
    <3>1. net'[j] = s \/ \E m \in 1 .. Len(net) : net'[j] = net[m]
      BY <1>4, <2>1, InsertAfterElements
    <3> HIDE DEF Good
    <3> QED BY <1>1, <2>2, <3>1
  <2>4. frame' = frame
    BY <1>6 DEF PeerSync
  <2> QED BY <1>1, <2>3, <2>4
<1>7. CASE LoseFrame \/ RecvFrame
  <2>1. PICK i \in 1 .. Len(net) : net' = Without(net, i) /\ (frame' = frame \/ frame' = net[i])
    BY <1>7 DEF LoseFrame, RecvFrame
  <2>2. ASSUME NEW j \in 1 .. Len(net') PROVE \E m \in 1 .. Len(net) : net'[j] = net[m]
    <3>1. Len(net) \in Nat /\ Len(net') = Len(net) - 1
      BY <1>4, <2>1, WithoutIs
    <3>2. j \in 1 .. Len(net) - 1 /\ j \in 1 .. Len(net) /\ j + 1 \in 1 .. Len(net)
      BY <3>1
    <3>3. net'[j] = IF j < i THEN net[j] ELSE net[j + 1]
      BY <1>4, <2>1, <3>2, WithoutIs
    <3> QED BY <3>2, <3>3
  <2> HIDE DEF Good
  <2> QED BY <1>1, <2>1, <2>2
<1>8. CASE RecvSync \/ RecvPort \/ CallbackStuck \/ RecvWrite \/ RecvCompare
              \/ RecvComplete \/ FlushStep
  <2>1. net' = net /\ (frame' = frame \/ frame' = NoFrame)
    BY <1>8 DEF RecvSync, RecvPort, CallbackStuck, RecvWrite, RecvCompare,
         RecvComplete, FlushStep, FlushQueues, FlushTest, FlushPeek, FlushClear,
         FlushDone, FlushRest
  <2> HIDE DEF Good
  <2> QED BY <1>1, <1>3, <2>1
<1>9. CASE AsmStep \/ StartModule \/ PortStep \/ UNCHANGED vars
  <2>1. UNCHANGED <<net, frame>>
    BY <1>9, PortFrame DEF AsmStep, AsmLock, AsmCheck, AsmSleep, AsmNext, AsmTake,
         AsmPop, AsmInconsistent, AsmNull, AsmRecheck, AsmDeliver, AsmDrop,
         AsmDropNull, AsmSendFails, AsmRest, StartModule, netVars, vars
  <2> HIDE DEF Good
  <2> QED BY <1>1, <2>1
<1> QED BY <1>5, <1>6, <1>7, <1>8, <1>9, Steps DEF PeerStep

\* What one step does to the queues.
LEMMA QueueSteps ==
    ASSUME TypeInv, [Next]_vars
    PROVE  \/ queue' = queue
           \/ /\ RecvWrite /\ frame \in DataPacket /\ frame.port \in Ports
              /\ queue[frame.port] = << >> /\ queue' = [queue EXCEPT ![frame.port] = <<frame>>]
           \/ /\ RecvCompare /\ frame \in DataPacket /\ frame.port \in Ports
              /\ \E kept \in {queue[frame.port], << >>} :
                   /\ kept = queue[frame.port] \/ WindowExceeded(Head(queue[frame.port]), frame)
                   /\ queue' = [queue EXCEPT ![frame.port] =
                          Push(kept, frame, current_port_sequence[frame.port])]
           \/ FlushClear /\ queue' = [queue EXCEPT ![Lowest(flushPorts)] = << >>]
           \/ /\ AsmPop \/ AsmInconsistent
              /\ queue[asmPort] # << >> /\ queue' = [queue EXCEPT ![asmPort] = Tail(queue[asmPort])]
<1>1. CASE PeerStep \/ RecvFrame \/ RecvPort \/ CallbackStuck \/ RecvSync
              \/ RecvComplete \/ StartModule
           \/ PortStep \/ UNCHANGED vars
  BY <1>1, PeerFrame, PortFrame DEF RecvFrame, RecvPort, CallbackStuck, RecvSync,
         RecvComplete, RxRest, StartModule, bufVars, vars
<1>2. CASE RecvWrite \/ RecvCompare
  <2>1. frame \in DataPacket
    BY <1>2 DEF TypeInv, TypeFrame, RecvWrite, RecvCompare
  <2>2. frame.port \in Ports
    BY <2>1 DEF DataPacket
  <2> QED BY <1>2, <2>1, <2>2 DEF RecvWrite, RecvCompare, bufVars
<1>3. CASE FlushStep
  BY <1>3 DEF FlushStep, FlushQueues, FlushTest, FlushPeek, FlushClear, FlushDone, bufVars
<1>4. CASE AsmPop \/ AsmInconsistent
  <2>1. queue[asmPort] \in Seq(DataPacket)
    BY DEF TypeInv, TypeBuffer, TypeThreads
  <2>2. queue[asmPort] # << >>
    BY <1>4, <2>1, NotEmpty DEF AsmPop, AsmInconsistent
  <2> QED BY <1>4, <2>2 DEF AsmPop, AsmInconsistent, Popped
<1>5. CASE AsmTake \/ AsmDeliver \/ AsmDrop \/ AsmDropNull \/ AsmSendFails
              \/ AsmLock \/ AsmCheck \/ AsmSleep \/ AsmNext \/ AsmNull \/ AsmRecheck
  BY <1>5 DEF AsmTake, AsmDeliver, AsmDrop, AsmDropNull, AsmSendFails, AsmLock,
       AsmCheck, AsmSleep, AsmNext, AsmNull, AsmRecheck, bufVars
<1> QED BY <1>1, <1>2, <1>3, <1>4, <1>5, Steps DEF AsmStep

\* The queue of a port holds genuine packets of the port.
LEMMA QueueInvStep ==
    ASSUME TypeInv, PeerInv, FrameInv, QueueInv, [Next]_vars
    PROVE  QueueInv'
<1> DEFINE Good(x, p) == x.port = p /\ Located(x, Ends'[p], Total'[p])
<1>1. \A p \in Ports : \A i \in 1 .. Len(queue[p]) : Good(queue[p][i], p)
  BY StaysGenuine DEF QueueInv
<1>2. SUFFICES ASSUME NEW p \in Ports, NEW i \in 1 .. Len(queue'[p])
               PROVE  Good(queue'[p][i], p)
  BY DEF QueueInv, Genuine
<1>3. queue \in [Ports -> Seq(DataPacket)]
  BY DEF TypeInv, TypeBuffer
<1>4. ASSUME frame \in DataPacket PROVE Good(frame, frame.port)
  <2>1. frame.type = "DATA"
    BY <1>4 DEF DataPacket
  <2> QED BY <2>1, FrameStays
<1>5. CASE queue'[p] = queue[p]
  BY <1>1, <1>5
<1>6. CASE RecvWrite /\ queue' = [queue EXCEPT ![frame.port] = <<frame>>]
           /\ frame \in DataPacket /\ p = frame.port
  <2>1. queue'[p] = <<frame>>
    BY <1>3, <1>6
  <2>2. Len(<<frame>>) = 1 /\ <<frame>>[1] = frame
    OBVIOUS
  <2>3. i = 1
    BY <2>1, <2>2
  <2>4. queue'[p][i] = frame
    BY <2>1, <2>2, <2>3
  <2> QED BY <1>4, <1>6, <2>4
<1>7. ASSUME frame \in DataPacket, p = frame.port, NEW kept \in {queue[p], << >>},
             queue' = [queue EXCEPT ![p] = Push(kept, frame, current_port_sequence[p])]
      PROVE  Good(queue'[p][i], p)
  <2>1. queue'[p] = Push(kept, frame, current_port_sequence[p])
    BY <1>3, <1>7
  <2>2. kept \in Seq(DataPacket)
    <3>1. << >> \in Seq(DataPacket) /\ queue[p] \in Seq(DataPacket)
      BY <1>3
    <3> QED BY <1>7, <3>1
  <2>3. queue'[p][i] = frame \/ \E j \in 1 .. Len(kept) : queue'[p][i] = kept[j]
    BY <1>7, <2>1, <2>2, PushElements
  <2>4. \A j \in 1 .. Len(kept) : Good(kept[j], p)
    <3>1. CASE kept = queue[p]
      BY <1>1, <3>1
    <3>2. CASE kept = << >>
      <4>1. Len(kept) = 0
        BY <3>2
      <4> QED BY <4>1
    <3> QED BY <1>7, <3>1, <3>2
  <2> HIDE DEF Good
  <2> QED BY <1>4, <1>7, <2>3, <2>4
<1>8. CASE queue'[p] = << >>
  <2>1. Len(queue'[p]) = 0
    BY <1>8
  <2> QED BY <2>1
<1>9. CASE queue[p] # << >> /\ queue'[p] = Tail(queue[p])
  <2>1. /\ Len(queue[p]) \in Nat /\ Len(queue'[p]) = Len(queue[p]) - 1
        /\ \A j \in 1 .. Len(queue[p]) - 1 : queue'[p][j] = queue[p][j + 1]
    BY <1>3, <1>9, HeadTail
  <2>2. i + 1 \in 1 .. Len(queue[p]) /\ queue'[p][i] = queue[p][i + 1]
    BY <2>1
  <2> QED BY <1>1, <2>2
<1>10. CASE queue' = [queue EXCEPT ![Lowest(flushPorts)] = << >>]
  <2>1. queue'[p] = queue[p] \/ queue'[p] = << >>
    BY <1>3, <1>10
  <2> HIDE DEF Good
  <2> QED BY <1>5, <1>8, <2>1
<1>11. CASE queue[asmPort] # << >> /\ queue' = [queue EXCEPT ![asmPort] = Tail(queue[asmPort])]
  <2>1. queue'[p] = queue[p] \/ (queue[p] # << >> /\ queue'[p] = Tail(queue[p]))
    BY <1>3, <1>11
  <2> HIDE DEF Good
  <2> QED BY <1>5, <1>9, <2>1
<1>12. ASSUME NEW x, queue' = [queue EXCEPT ![frame.port] = x], p # frame.port
       PROVE  queue'[p] = queue[p]
  BY <1>3, <1>12
<1> HIDE DEF Good
<1> QED BY <1>5, <1>6, <1>7, <1>10, <1>11, <1>12, QueueSteps
\* Everybody but the assembly thread leaves its message alone, and only a sync
\* packet changes what a port expects.
LEMMA OtherFrame ==
    ASSUME [Next]_vars, ~ AsmStep
    PROVE  /\ UNCHANGED <<asmPort, assembled, mutexLeaked, delivered>>
           /\ asmpc' = asmpc \/ (asmpc' = "lock" /\ asmpc \in {"waiting", "notStarted"})
           /\ current_port_sequence' = current_port_sequence \/ RecvSync
<1> USE DEF asmVars
<1>1. CASE PeerStep
  BY <1>1, PeerFrame
<1>2. CASE RecvFrame \/ RecvSync \/ RecvPort \/ CallbackStuck \/ RecvWrite \/ RecvCompare
  BY <1>2 DEF RecvFrame, RecvSync, RecvPort, CallbackStuck, RecvWrite, RecvCompare, RxRest
<1>3. CASE RecvComplete
  BY <1>3 DEF RecvComplete, RxRest, Signalled
<1>4. CASE FlushStep
  BY <1>4 DEF FlushStep, FlushQueues, FlushTest, FlushPeek, FlushClear, FlushDone,
              FlushRest, RxRest
<1>5. CASE StartModule \/ UNCHANGED vars
  BY <1>5 DEF StartModule, vars
<1>6. CASE PortStep
  BY <1>6, PortFrame
<1> QED BY <1>1, <1>2, <1>3, <1>4, <1>5, <1>6, Steps

\* A packet that follows what was taken is the next one of the message.
LEMMA PopTakesNext ==
    ASSUME TypeInv, PeerInv, QueueInv, AsmInv, AsmPop, PopsNext
    PROVE  LET h == Head(queue[asmPort])
               c == current_port_sequence[asmPort]
           IN  /\ h \in DataPacket /\ h.port = asmPort /\ Genuine(h) /\ h = queue[asmPort][1]
               /\ h.n \in Nat /\ h.n >= 1 /\ c = Wrapped(h.n - 1) /\ h.sub = Len(assembled)
               /\ assembled # << >> => h.msg = assembled[1].msg
               /\ assembled = << >> => h.msg = h.n
               /\ assembled' = Append(assembled, h) /\ asmPort' = asmPort
               /\ current_port_sequence' = [current_port_sequence EXCEPT ![asmPort] = Wrapped(h.n)]
               /\ asmpc' = IF h.more THEN "pop" ELSE "recheck"
               /\ mutexLeaked' = mutexLeaked /\ delivered' = delivered
<1> DEFINE h == Head(queue[asmPort])
           c == current_port_sequence[asmPort]
           total == Total[asmPort]
           ends == Ends[asmPort]
<1>1. asmPort \in Ports /\ queue[asmPort] \in Seq(DataPacket) /\ asmpc = "pop"
  BY DEF TypeInv, TypeThreads, TypeBuffer, AsmPop
<1>2. queue[asmPort] # << >>
  BY <1>1, NotEmpty DEF AsmPop
<1>3. h \in DataPacket /\ h = queue[asmPort][1] /\ 1 \in 1 .. Len(queue[asmPort])
  BY <1>1, <1>2, HeadTail
<1>4. h.port = asmPort /\ Genuine(h)
  BY <1>1, <1>3 DEF QueueInv
<1>5. Located(h, ends, total)
  BY <1>4 DEF Genuine
<1>6. /\ assembled' = Append(assembled, h) /\ asmPort' = asmPort /\ h.seq = c
      /\ current_port_sequence' = [current_port_sequence EXCEPT ![asmPort] = Inc(c)]
      /\ asmpc' = IF h.more THEN "pop" ELSE "recheck"
      /\ mutexLeaked' = mutexLeaked /\ delivered' = delivered
  BY DEF AsmPop
<1>7. /\ total \in Nat /\ ends \in SUBSET (0 .. total) /\ total <= MaxPackets
  BY <1>1, SentType DEF PeerInv, Total
<1>8. /\ assembled = << >> => h.n - 1 \in ends
      /\ assembled # << >> => h.n = assembled[Len(assembled)].n + 1
  BY DEF PopsNext
<1> HIDE DEF h, c, total, ends
<1>9. h.n \in 1 .. total /\ h.n \in Nat /\ h.n >= 1 /\ c = Wrapped(h.n - 1)
  BY <1>5, <1>6, <1>7 DEF Located
<1>10. Inc(c) = Wrapped(h.n)
  BY <1>9, WrappedNext
<1>11. ASSUME assembled = << >> PROVE h.sub = Len(assembled) /\ h.msg = h.n
  <2>1. h.n - 1 \in ends /\ h.n = (h.n - 1) + 1
    BY <1>8, <1>9, <1>11
  <2>2. h.sub = 0 /\ h.msg = h.n
    BY <1>5, <1>7, <2>1, FirstFragment
  <2> QED BY <1>11, <2>2
<1>12. ASSUME assembled # << >> PROVE h.sub = Len(assembled) /\ h.msg = assembled[1].msg
  <2>1. assembled \in Seq(DataPacket)
    BY DEF TypeInv, TypeBuffer
  <2> DEFINE l == Len(assembled)
             a == assembled[l]
  <2>2. l \in 1 .. l /\ l \in Nat
    BY <1>12, <2>1
  <2>3. /\ a.port = asmPort /\ Genuine(a) /\ a.msg = assembled[1].msg /\ a.sub = l - 1
        /\ a.more
    BY <1>1, <1>12, <2>2 DEF AsmInv, Started
  <2>4. Located(a, ends, total)
    BY <2>3 DEF Genuine, ends, total
  <2>5. h.msg = a.msg /\ h.sub = a.sub + 1
    BY <1>5, <1>7, <1>8, <1>12, <2>3, <2>4, NextFragment
  <2> HIDE DEF a
  <2> QED BY <2>2, <2>3, <2>5
<1> QED BY <1>3, <1>4, <1>6, <1>9, <1>10, <1>11, <1>12 DEF h, c

\* What the assembly thread has taken stays the beginning of one message.
LEMMA AsmInvStep ==
    ASSUME TypeInv, PeerInv, FrameInv, QueueInv, AsmInv, AsmPop => PopsNext, [Next]_vars
    PROVE  AsmInv'
<1>0. assembled \in Seq(DataPacket)
  BY DEF TypeInv, TypeBuffer
<1>1. ASSUME UNCHANGED <<assembled, asmPort, mutexLeaked>>,
             asmpc \in {"pop", "recheck", "deliver"}
      PROVE  \A i \in 1 .. Len(assembled') :
                assembled'[i].port = asmPort' /\ Genuine(assembled[i])'
  <2>1. asmPort \in Ports
    BY DEF TypeInv, TypeThreads
  <2>2. \A i \in 1 .. Len(assembled) : assembled[i].port = asmPort /\ Genuine(assembled[i])
    BY <1>1 DEF AsmInv
  <2> QED BY <1>1, <2>1, <2>2, StaysGenuine DEF Genuine
<1>2. CASE ~ AsmStep
  <2>1. /\ UNCHANGED <<assembled, asmPort, mutexLeaked>>
        /\ asmpc' = asmpc \/ asmpc' = "lock"
        /\ current_port_sequence' = current_port_sequence \/ RecvSync
    BY <1>2, OtherFrame DEF asmVars
  <2>2. SUFFICES ASSUME asmpc' = asmpc, asmpc \in {"pop", "recheck", "deliver"} PROVE AsmInv'
    BY <2>1 DEF AsmInv
  <2>3. asmpc # "deliver" => current_port_sequence' = current_port_sequence
    BY <2>1, <2>2 DEF RecvSync, RxMutexFree
  <2> QED BY <1>1, <2>1, <2>2, <2>3 DEF AsmInv, Started
<1>3. CASE AsmPop
  <2> DEFINE h == Head(queue[asmPort])
  <2>1. /\ h \in DataPacket /\ h.port = asmPort /\ Genuine(h) /\ h.sub = Len(assembled)
        /\ assembled # << >> => h.msg = assembled[1].msg
        /\ assembled' = Append(assembled, h) /\ asmPort' = asmPort
        /\ current_port_sequence' = [current_port_sequence EXCEPT ![asmPort] = Wrapped(h.n)]
        /\ asmpc' = IF h.more THEN "pop" ELSE "recheck"
        /\ mutexLeaked' = mutexLeaked
    BY <1>3, PopTakesNext
  <2> HIDE DEF h
  <2>2. /\ ~ mutexLeaked /\ Started(assembled)
        /\ \A i \in 1 .. Len(assembled) : assembled[i].port = asmPort /\ Genuine(assembled[i])
        /\ assembled # << >> => assembled[Len(assembled)].more
    BY <1>3 DEF AsmInv, AsmPop
  <2>3. /\ Len(assembled') = Len(assembled) + 1 /\ Len(assembled) \in Nat
        /\ assembled' # << >>
        /\ \A i \in 1 .. Len(assembled) : assembled'[i] = assembled[i]
        /\ assembled'[Len(assembled) + 1] = h
        /\ \A i \in 1 .. Len(assembled) + 1 : i \in 1 .. Len(assembled) \/ i = Len(assembled) + 1
    BY <1>0, <2>1, AppendIs
  <2>4. asmPort \in Ports /\ current_port_sequence'[asmPort] = Wrapped(h.n)
    BY <2>1 DEF TypeInv, TypeThreads, TypeModule
  <2>5. assembled'[1].msg = h.msg
    <3>1. CASE assembled = << >>
      BY <2>3, <3>1
    <3>2. CASE assembled # << >>
      <4>1. 1 \in 1 .. Len(assembled)
        BY <1>0, <3>2
      <4> QED BY <2>1, <2>3, <3>2, <4>1
    <3> QED BY <3>1, <3>2
  <2>6. Started(assembled')
    <3> SUFFICES ASSUME NEW i \in 1 .. Len(assembled')
                 PROVE  /\ assembled'[i].msg = assembled'[1].msg /\ assembled'[i].sub = i - 1
                        /\ i < Len(assembled') => assembled'[i].more
      BY DEF Started
    <3>1. CASE i \in 1 .. Len(assembled)
      <4>1. assembled # << >>
        BY <3>1
      <4>2. 1 \in 1 .. Len(assembled)
        BY <2>3, <3>1
      <4>3. i < Len(assembled) \/ i = Len(assembled)
        BY <2>3, <3>1
      <4>4. assembled[i].more
        BY <2>2, <3>1, <4>1, <4>3 DEF Started
      <4>5. assembled[i].msg = assembled[1].msg /\ assembled[i].sub = i - 1
        BY <2>2, <3>1 DEF Started
      <4> QED BY <2>3, <3>1, <4>2, <4>4, <4>5
    <3>2. CASE i = Len(assembled) + 1
      <4>1. i - 1 = Len(assembled) /\ ~ (i < Len(assembled'))
        BY <2>3, <3>2
      <4> QED BY <2>1, <2>3, <2>5, <3>2, <4>1
    <3> QED BY <2>3, <3>1, <3>2
  <2>7. ASSUME NEW i \in 1 .. Len(assembled')
        PROVE  assembled'[i].port = asmPort' /\ Genuine(assembled[i])'
    <3>1. assembled'[i].port = asmPort /\ Genuine(assembled'[i])
      BY <2>1, <2>2, <2>3
    <3> QED BY <2>1, <2>4, <3>1, StaysGenuine DEF Genuine
  <2>8. assembled'[Len(assembled')] = h
    BY <2>3
  <2>9. h.more \in BOOLEAN
    BY <2>1 DEF DataPacket
  <2>10. h.more = (asmpc' = "pop")
    BY <2>1, <2>9
  <2> QED BY <2>1, <2>2, <2>3, <2>4, <2>6, <2>7, <2>8, <2>10 DEF AsmInv
<1>4. CASE AsmTake
  <2>1. assembled' = << >> /\ asmpc' = "pop" /\ ~ mutexLeaked /\ mutexLeaked' = mutexLeaked
    BY <1>4 DEF AsmTake, RxMutexFree
  <2>2. Len(<< >>) = 0
    OBVIOUS
  <2>3. 1 .. Len(assembled') = {}
    BY <2>1, <2>2
  <2> QED BY <2>1, <2>3 DEF AsmInv, Started
<1>5. CASE AsmRecheck
  <2>1. /\ UNCHANGED <<assembled, asmPort, mutexLeaked, current_port_sequence>>
        /\ asmpc = "recheck" /\ asmpc' = "deliver"
    BY <1>5 DEF AsmRecheck, asmVars
  <2> QED BY <1>1, <2>1 DEF AsmInv, Started
<1>6. CASE AsmDeliver \/ AsmDrop \/ AsmDropNull \/ AsmSendFails \/ AsmLock
              \/ AsmCheck \/ AsmSleep \/ AsmNext \/ AsmInconsistent \/ AsmNull
  BY <1>6 DEF AsmDeliver, AsmDrop, AsmDropNull, AsmSendFails, AsmLock, AsmCheck,
       AsmSleep, AsmNext, AsmInconsistent, AsmNull, AsmInv
<1> QED BY <1>2, <1>3, <1>4, <1>5, <1>6 DEF AsmStep

\* Between two messages a port expects the first packet of a message.
LEMMA ExpectInvStep ==
    ASSUME TypeInv, PeerInv, FrameInv, QueueInv, AsmInv, ExpectInv, AsmPop => PopsNext,
           [Next]_vars
    PROVE  ExpectInv'
<1>0. \A p \in Ports : Marks(p) \subseteq Marks(p)'
  BY StaysGenuine
<1>1. CASE ~ AsmStep /\ ~ RecvSync
  <2>1. /\ UNCHANGED <<assembled, asmPort, mutexLeaked, current_port_sequence>>
        /\ asmpc' = asmpc \/ (asmpc' = "lock" /\ asmpc \in {"waiting", "notStarted"})
    BY <1>1, OtherFrame DEF asmVars
  <2> QED BY <1>0, <2>1 DEF ExpectInv
<1>2. CASE RecvSync
  <2>1. /\ frame \in SyncPacket /\ current_port_sequence' = Synchronized(frame)
        /\ RxMutexFree /\ ~ Aborted
    BY <1>2 DEF RecvSync, TypeInv, TypeFrame, RxRest
  <2>2. frame.type = "SYNC"
    BY <2>1 DEF SyncPacket
  <2>3. Boundary(frame)
    BY <2>2 DEF FrameInv
  <2>4. \A p \in Ports : current_port_sequence[p] \in Marks(p)
    BY <2>1 DEF ExpectInv, RxMutexFree, Aborted
  <2>5. \A p \in Ports : current_port_sequence'[p] \in Marks(p)
    BY <2>1, <2>3, <2>4 DEF Synchronized, Boundary
  <2> QED BY <1>0, <2>5 DEF ExpectInv
<1>3. CASE AsmPop
  <2> DEFINE h == Head(queue[asmPort])
  <2>1. /\ h.port = asmPort /\ Genuine(h) /\ h \in DataPacket
        /\ assembled' = Append(assembled, h) /\ asmPort' = asmPort
        /\ current_port_sequence' = [current_port_sequence EXCEPT ![asmPort] = Wrapped(h.n)]
        /\ asmpc' = IF h.more THEN "pop" ELSE "recheck"
        /\ mutexLeaked' = mutexLeaked
    BY <1>3, PopTakesNext
  <2> HIDE DEF h
  <2>2. asmPort \in Ports /\ current_port_sequence \in [Ports -> SeqNums]
        /\ assembled \in Seq(DataPacket)
    BY DEF TypeInv, TypeThreads, TypeModule, TypeBuffer
  <2>3. assembled' # << >>
    BY <2>1, <2>2, AppendIs
  <2>4. asmpc = "pop"
    BY <1>3 DEF AsmPop
  <2>5. ASSUME NEW p \in Ports
        PROVE  \/ current_port_sequence'[p] \in Marks(p)' \/ mutexLeaked' \/ asmpc' = "aborted"
               \/ asmpc' = "pop" /\ asmPort' = p /\ assembled' # << >>
    <3>1. CASE p # asmPort
      <4>1. current_port_sequence'[p] = current_port_sequence[p]
        BY <2>1, <2>2, <3>1
      <4> QED BY <1>0, <2>1, <2>4, <3>1, <4>1 DEF ExpectInv
    <3>2. CASE p = asmPort /\ h.more
      BY <2>1, <2>3, <3>2
    <3>3. CASE p = asmPort /\ ~ h.more
      <4>1. Wrapped(h.n) \in Marks(p)
        BY <2>1, <3>3 DEF Genuine, Located, Marks
      <4>2. current_port_sequence'[p] = Wrapped(h.n)
        BY <2>1, <2>2, <3>3
      <4> QED BY <1>0, <4>1, <4>2
    <3> QED BY <3>1, <3>2, <3>3
  <2> QED BY <2>5 DEF ExpectInv
<1>4. CASE AsmStep /\ ~ AsmPop
  <2>1. UNCHANGED current_port_sequence /\ ~ Aborted
    BY <1>4 DEF AsmStep, AsmLock, AsmCheck, AsmSleep, AsmNext, AsmTake,
         AsmInconsistent, AsmNull, AsmRecheck, AsmDeliver, AsmDrop, AsmDropNull,
         AsmSendFails, AsmRest
  <2>2. \/ asmpc # "pop" /\ mutexLeaked' = mutexLeaked
        \/ asmpc' = "aborted" \/ mutexLeaked'
    BY <1>4 DEF AsmStep, AsmLock, AsmCheck, AsmSleep, AsmNext, AsmTake,
         AsmInconsistent, AsmNull, AsmRecheck, AsmDeliver, AsmDrop, AsmDropNull,
         AsmSendFails, asmVars
  <2> QED BY <1>0, <2>1, <2>2 DEF ExpectInv, Aborted
<1> QED BY <1>1, <1>2, <1>3, <1>4

\* What has been handed over stays, and a message is handed over whole.
LEMMA DeliveredStep ==
    ASSUME TypeInv, AsmInv, DeliveredIntact, [Next]_vars
    PROVE  DeliveredIntact'
<1> DEFINE Whole(data) ==
             \A i \in 1 .. Len(data) :
                /\ data[i].msg = data[1].msg /\ data[i].sub = i - 1
                /\ data[i].more = (i < Len(data))
<1>1. \A p \in Ports : \A m \in 1 .. Len(delivered[p]) : Whole(delivered[p][m])
  BY DEF DeliveredIntact
<1>2. SUFFICES \A p \in Ports : \A m \in 1 .. Len(delivered'[p]) : Whole(delivered'[p][m])
  BY DEF DeliveredIntact
<1>3. CASE AsmDeliver
  <2>1. assembled \in Seq(DataPacket) /\ asmPort \in Ports
        /\ delivered \in [Ports -> Seq(Seq(DataPacket))]
    BY DEF TypeInv, TypeBuffer, TypeThreads
  <2>2. Whole(assembled)
    <3> SUFFICES ASSUME NEW i \in 1 .. Len(assembled)
                 PROVE  /\ assembled[i].msg = assembled[1].msg /\ assembled[i].sub = i - 1
                        /\ assembled[i].more = (i < Len(assembled))
      OBVIOUS
    <3>1. /\ assembled[i].msg = assembled[1].msg /\ assembled[i].sub = i - 1
          /\ i < Len(assembled) => assembled[i].more
          /\ ~ assembled[Len(assembled)].more
      BY <1>3 DEF AsmDeliver, AsmInv, Started
    <3>2. assembled[i].more \in BOOLEAN
      <4>1. assembled[i] \in DataPacket
        BY <2>1
      <4> QED BY <4>1 DEF DataPacket
    <3>3. i < Len(assembled) \/ i = Len(assembled)
      BY <2>1
    <3>4. i = Len(assembled) => ~ (i < Len(assembled))
      BY <2>1
    <3>5. assembled[i].more = (i < Len(assembled))
      BY <3>1, <3>2, <3>3, <3>4
    <3> QED BY <3>1, <3>5
  <2> HIDE DEF Whole
  <2>3. delivered' = [delivered EXCEPT ![asmPort] = Append(delivered[asmPort], assembled)]
    BY <1>3 DEF AsmDeliver
  <2>4. ASSUME NEW p \in Ports, NEW m \in 1 .. Len(delivered'[p]) PROVE Whole(delivered'[p][m])
    <3>1. CASE p # asmPort
      <4>1. delivered'[p] = delivered[p]
        BY <2>1, <2>3, <3>1
      <4> QED BY <1>1, <4>1
    <3>2. CASE p = asmPort
      <4>1. delivered'[p] = Append(delivered[p], assembled) /\ delivered[p] \in Seq(Seq(DataPacket))
        BY <2>1, <2>3, <3>2
      <4>2. /\ Len(delivered'[p]) = Len(delivered[p]) + 1
            /\ \A i \in 1 .. Len(delivered[p]) : delivered'[p][i] = delivered[p][i]
            /\ delivered'[p][Len(delivered[p]) + 1] = assembled
            /\ \A i \in 1 .. Len(delivered[p]) + 1 :
                 i \in 1 .. Len(delivered[p]) \/ i = Len(delivered[p]) + 1
        BY <2>1, <4>1, AppendIs
      <4> QED BY <1>1, <2>2, <4>2
    <3> QED BY <3>1, <3>2
  <2> QED BY <2>4
<1>4. CASE ~ AsmDeliver
  <2>1. delivered' = delivered
    <3>1. CASE ~ AsmStep
      BY <3>1, OtherFrame DEF asmVars
    <3>2. CASE AsmStep
      BY <1>4, <3>2 DEF AsmStep, AsmLock, AsmCheck, AsmSleep, AsmNext, AsmTake, AsmPop,
         AsmInconsistent, AsmNull, AsmRecheck, AsmDrop, AsmDropNull, AsmSendFails, asmVars
    <3> QED BY <3>1, <3>2
  <2> HIDE DEF Whole
  <2> QED BY <1>1, <2>1
<1> QED BY <1>3, <1>4

\* Initially there is nothing to say.
LEMMA IntactInit == Init => IntactInv
<1> SUFFICES ASSUME Init PROVE IntactInv
  OBVIOUS
<1>1. Len(<< >>) = 0 /\ 1 .. 0 = {}
  OBVIOUS
<1>2. \A p \in Ports : /\ messages[p] = << >> /\ queue[p] = << >> /\ delivered[p] = << >>
                       /\ current_port_sequence[p] = 0
  BY DEF Init
<1>3. net = << >> /\ frame = NoFrame /\ asmpc = "notStarted"
  BY DEF Init
<1>4. \A p \in Ports : Ends[p] = {0} /\ Total[p] = 0
  BY <1>1, <1>2 DEF Ends, Total, Sent
<1>5. PeerInv
  BY <1>4, RxBoundsAssumption DEF PeerInv
<1>6. FrameInv
  BY <1>1, <1>3 DEF FrameInv, NoFrame
<1>7. QueueInv /\ DeliveredIntact
  BY <1>1, <1>2 DEF QueueInv, DeliveredIntact
<1>8. AsmInv /\ ExpectInv
  <2>1. Wrapped(0) = 0
    BY SeqModAssumption, WrappedSmall
  <2> QED BY <1>2, <1>3, <1>4, <2>1 DEF AsmInv, ExpectInv, Marks
<1> QED BY <1>5, <1>6, <1>7, <1>8 DEF IntactInv

\* Every step keeps the invariant, if the packets that are taken follow each
\* other.
LEMMA IntactKept ==
    ASSUME TypeInv, TypeInv', IntactInv, AsmPop => PopsNext, [Next]_vars
    PROVE  IntactInv'
BY StaysGenuine, FrameInvStep, QueueInvStep, AsmInvStep, ExpectInvStep, DeliveredStep
   DEF IntactInv

\* Within one turn a header names its packet and a mark its boundary.
LEMMA WithinTurn ==
    ASSUME MaxPackets < SeqMod, TypeInv, PeerInv, NEW p \in Ports
    PROVE  /\ Marks(p) = Ends[p]
           /\ \A n \in 0 .. Total[p] : Wrapped(n) = n
           /\ \A k : Located(k, Ends[p], Total[p]) => k.n \in 1 .. Total[p] /\ k.seq = k.n - 1
<1>1. Total[p] \in Nat /\ Ends[p] \subseteq 0 .. Total[p] /\ Total[p] < SeqMod
  BY SentType, SeqModAssumption, RxBoundsAssumption DEF Total, PeerInv
<1>2. ASSUME NEW n \in 0 .. Total[p] PROVE Wrapped(n) = n
  <2>1. n \in 0 .. SeqMod - 1
    BY <1>1, SeqModAssumption
  <2> QED BY <2>1, WrappedSmall
<1>3. Marks(p) = Ends[p]
  BY <1>1, <1>2 DEF Marks
<1>4. ASSUME NEW k, Located(k, Ends[p], Total[p])
      PROVE  k.n \in 1 .. Total[p] /\ k.seq = k.n - 1
  <2>1. k.n \in 1 .. Total[p] /\ k.seq = Wrapped(k.n - 1)
    BY <1>4 DEF Located
  <2>2. k.n - 1 \in 0 .. Total[p]
    BY <1>1, <2>1
  <2> QED BY <1>2, <2>1, <2>2
<1> QED BY <1>2, <1>3, <1>4

\* Within one turn, the packet with the number expected is the next one.
LEMMA PopWithinTurn ==
    ASSUME MaxPackets < SeqMod, TypeInv, IntactInv, AsmPop
    PROVE  PopsNext /\ Head(queue[asmPort]).n = current_port_sequence[asmPort] + 1
<1> DEFINE h == Head(queue[asmPort])
           c == current_port_sequence[asmPort]
<1>1. asmPort \in Ports /\ queue[asmPort] \in Seq(DataPacket) /\ asmpc = "pop"
  BY DEF TypeInv, TypeThreads, TypeBuffer, AsmPop
<1>2. queue[asmPort] # << >>
  BY <1>1, NotEmpty DEF AsmPop
<1>3. h = queue[asmPort][1] /\ 1 \in 1 .. Len(queue[asmPort])
  BY <1>1, <1>2, HeadTail
<1>4. Located(h, Ends[asmPort], Total[asmPort])
  BY <1>1, <1>3 DEF IntactInv, QueueInv, Genuine
<1>5. h.seq = c /\ c \in Nat /\ Total[asmPort] \in Nat
  BY <1>1, SentType, SeqModAssumption DEF AsmPop, TypeInv, TypeModule, SeqNums, Total
<1>6. /\ h.n \in 1 .. Total[asmPort] /\ h.seq = h.n - 1 /\ Marks(asmPort) = Ends[asmPort]
      /\ \A n \in 0 .. Total[asmPort] : Wrapped(n) = n
  BY <1>1, <1>4, WithinTurn DEF IntactInv
<1> HIDE DEF h
<1>7. h.n = c + 1
  BY <1>5, <1>6
<1>8. ASSUME assembled = << >> PROVE h.n - 1 \in Ends[asmPort]
  <2>1. c \in Ends[asmPort]
    BY <1>1, <1>6, <1>8 DEF IntactInv, ExpectInv, AsmInv
  <2>2. h.n - 1 = c
    BY <1>5, <1>7
  <2> QED BY <2>1, <2>2
<1>9. ASSUME assembled # << >> PROVE h.n = assembled[Len(assembled)].n + 1
  <2> DEFINE a == assembled[Len(assembled)]
  <2>1. Len(assembled) \in 1 .. Len(assembled)
    BY <1>9 DEF TypeInv, TypeBuffer
  <2>2. a.port = asmPort /\ Genuine(a) /\ c = Wrapped(a.n)
    BY <1>1, <1>9, <2>1 DEF IntactInv, AsmInv
  <2>3. a.n \in 1 .. Total[asmPort]
    BY <2>2 DEF Genuine, Located
  <2> HIDE DEF a
  <2>4. Wrapped(a.n) = a.n
    <3>1. a.n \in 0 .. Total[asmPort]
      BY <1>5, <2>3
    <3> QED BY <1>6, <3>1
  <2>5. h.n = a.n + 1
    BY <1>7, <2>2, <2>4
  <2> QED BY <2>5 DEF a
<1>10. PopsNext
  BY <1>8, <1>9 DEF PopsNext, h
<1> QED BY <1>7, <1>10 DEF h

LEMMA IntactStep ==
    ASSUME MaxPackets < SeqMod, TypeInv, TypeInv', IntactInv, [Next]_vars
    PROVE  IntactInv'
BY IntactKept, PopWithinTurn

\* Within one turn of the sequence numbers (fewer packets on a port than
\* numbers), every message that getNextCompleteMessage hands to a client is
\* one message of the peer, whole and in order, for any number of ports,
\* losses, reordered frames, sync packets, flushed queues and closed ports.
THEOREM MessagesIntact ==
    ASSUME MaxPackets < SeqMod
    PROVE  Spec => []DeliveredIntact
<1>1. Init => TypeInv /\ IntactInv
  BY TypeInit, IntactInit
<1>2. TypeInv /\ IntactInv /\ [Next]_vars => TypeInv' /\ IntactInv'
  BY TypeStep, IntactStep
<1>3. IntactInv => DeliveredIntact
  BY DEF IntactInv
<1> QED BY <1>1, <1>2, <1>3, PTL DEF Spec
-----------------------------------------------------------------------------
(***************************************************************************)
(* No packet is in two places.                                             *)
(***************************************************************************)
\* Same does not depend on the order.
LEMMA SameSymmetric == \A a, b : Same(a, b) => Same(b, a)
BY DEF Same

\* An element that is the same as none keeps a sequence distinct.
LEMMA InsertDistinct ==
    ASSUME NEW S, NEW q \in Seq(S), NEW e, NEW k \in 0 .. Len(q), Distinct(q),
           \A j \in 1 .. Len(q) : ~ Same(q[j], e)
    PROVE  Len(InsertAfter(q, k, e)) = Len(q) + 1 => Distinct(InsertAfter(q, k, e))
<1> DEFINE r == InsertAfter(q, k, e)
<1>1. SUFFICES ASSUME Len(r) = Len(q) + 1, NEW i \in 1 .. Len(q) + 1, NEW j \in 1 .. Len(q) + 1, i < j
               PROVE  ~ Same(r[i], r[j])
  <2>1. Len(q) \in Nat
    OBVIOUS
  <2> SUFFICES ASSUME Len(r) = Len(q) + 1, NEW i \in 1 .. Len(q) + 1, NEW j \in 1 .. Len(q) + 1,
                      i # j
               PROVE  ~ Same(r[i], r[j])
    BY DEF Distinct
  <2>2. i < j \/ j < i
    BY <2>1
  <2> QED BY <1>1, <2>2, SameSymmetric
<1>2. \A m \in 1 .. Len(q) + 1 :
        r[m] = IF m <= k THEN q[m] ELSE IF m = k + 1 THEN e ELSE q[m - 1]
  BY DEF InsertAfter
<1> HIDE DEF r
<1>3. CASE i = k + 1
  <2>1. r[i] = e /\ r[j] = q[j - 1] /\ j - 1 \in 1 .. Len(q)
    BY <1>1, <1>2, <1>3
  <2> QED BY <2>1, SameSymmetric
<1>4. CASE j = k + 1
  <2>1. r[j] = e /\ r[i] = q[i] /\ i \in 1 .. Len(q)
    BY <1>1, <1>2, <1>4
  <2> QED BY <2>1
<1>5. CASE i # k + 1 /\ j # k + 1
  <2>1. PICK x \in 1 .. Len(q) : r[i] = q[x] /\ x = IF i <= k THEN i ELSE i - 1
    BY <1>1, <1>2, <1>5
  <2>2. PICK y \in 1 .. Len(q) : r[j] = q[y] /\ y = IF j <= k THEN j ELSE j - 1
    BY <1>1, <1>2, <1>5
  <2>3. x # y
    BY <1>1, <1>5, <2>1, <2>2
  <2> QED BY <2>1, <2>2, <2>3 DEF Distinct
<1> QED BY <1>3, <1>4, <1>5

\* A frame that leaves the channel is not in it any more.
LEMMA WithoutDistinct ==
    ASSUME NEW S, NEW s \in Seq(S), NEW i \in 1 .. Len(s), Distinct(s)
    PROVE  /\ Distinct(Without(s, i))
           /\ \A j \in 1 .. Len(Without(s, i)) : ~ Same(s[i], Without(s, i)[j])
           /\ \A j \in 1 .. Len(Without(s, i)) :
                \E m \in 1 .. Len(s) : Without(s, i)[j] = s[m]
<1> DEFINE r == Without(s, i)
<1>1. /\ Len(r) = Len(s) - 1 /\ Len(s) \in Nat
      /\ \A j \in 1 .. Len(s) - 1 : r[j] = IF j < i THEN s[j] ELSE s[j + 1]
  <2>1. Len(s) \in Nat
    OBVIOUS
  <2>2. Len(r) = Len(s) - 1
    BY WithoutIs
  <2>3. \A j \in 1 .. Len(s) - 1 : r[j] = IF j < i THEN s[j] ELSE s[j + 1]
    BY WithoutIs
  <2> QED BY <2>1, <2>2, <2>3
<1> HIDE DEF r
<1>2. ASSUME NEW j \in 1 .. Len(r)
      PROVE  \E m \in 1 .. Len(s) : m # i /\ r[j] = s[m] /\ m = IF j < i THEN j ELSE j + 1
  BY <1>1
<1>3. \A j \in 1 .. Len(r) : ~ Same(s[i], r[j])
  BY <1>2 DEF Distinct
<1>4. ASSUME NEW j \in 1 .. Len(r), NEW l \in 1 .. Len(r), j # l PROVE ~ Same(r[j], r[l])
  <2>1. PICK x \in 1 .. Len(s) : r[j] = s[x] /\ x = IF j < i THEN j ELSE j + 1
    BY <1>2
  <2>2. PICK y \in 1 .. Len(s) : r[l] = s[y] /\ y = IF l < i THEN l ELSE l + 1
    BY <1>2
  <2>3. x # y
    BY <1>1, <1>4, <2>1, <2>2
  <2> QED BY <2>1, <2>2, <2>3 DEF Distinct
<1>5. Distinct(r)
  BY <1>4 DEF Distinct
<1> QED BY <1>2, <1>3, <1>5 DEF r

\* So is the head of a queue when it leaves.
LEMMA TailDistinct ==
    ASSUME NEW S, NEW s \in Seq(S), s # << >>, Distinct(s)
    PROVE  /\ Distinct(Tail(s))
           /\ \A j \in 1 .. Len(Tail(s)) : ~ Same(Head(s), Tail(s)[j])
           /\ \A j \in 1 .. Len(Tail(s)) : \E m \in 1 .. Len(s) : Tail(s)[j] = s[m]
<1> DEFINE r == Tail(s)
<1>1. /\ Len(r) = Len(s) - 1 /\ Len(s) \in Nat /\ Len(s) >= 1 /\ Head(s) = s[1]
      /\ \A j \in 1 .. Len(s) - 1 : r[j] = s[j + 1]
  BY HeadTail
<1> HIDE DEF r
<1>2. \A j \in 1 .. Len(r) : j + 1 \in 1 .. Len(s) /\ r[j] = s[j + 1] /\ j + 1 # 1
  BY <1>1
<1>3. 1 \in 1 .. Len(s)
  BY <1>1
<1>4. \A j \in 1 .. Len(r) : ~ Same(Head(s), r[j])
  BY <1>1, <1>2, <1>3 DEF Distinct
<1>5. ASSUME NEW j \in 1 .. Len(r), NEW l \in 1 .. Len(r), j # l PROVE ~ Same(r[j], r[l])
  <2>1. j + 1 # l + 1
    BY <1>5
  <2> QED BY <1>2, <2>1 DEF Distinct
<1>6. Distinct(r)
  BY <1>5 DEF Distinct
<1> QED BY <1>2, <1>4, <1>6 DEF r

\* What one step does to the channel and to the frame in hand.
LEMMA NetSteps ==
    ASSUME [Next]_vars
    PROVE  \/ net' = net /\ (InHand' => InHand /\ frame' = frame)
           \/ /\ \E p \in Ports : \E k \in 1 .. MaxFragments : PeerSend(p, k)
              /\ UNCHANGED <<queue, frame, rxpc>>
           \/ PeerSync /\ UNCHANGED <<queue, frame, rxpc>>
           \/ /\ \E i \in 1 .. Len(net) : net' = Without(net, i)
              /\ UNCHANGED <<queue, frame, rxpc>>
           \/ /\ rxpc = "idle" /\ queue' = queue
              /\ \E i \in 1 .. Len(net) : /\ net' = Without(net, i)
                                          /\ InHand' => frame' = net[i]
                                          /\ rxpc' = "sync" => net[i].type = "SYNC"
<1>1. CASE PeerStep
  BY <1>1, PeerFrame DEF PeerStep, LoseFrame, bufVars
<1>2. CASE RecvFrame
  BY <1>2 DEF RecvFrame, bufVars, InHand
<1>3. CASE RecvSync \/ RecvPort \/ CallbackStuck \/ RecvWrite \/ RecvCompare \/ RecvComplete
  BY <1>3 DEF RecvSync, RecvPort, CallbackStuck, RecvWrite, RecvCompare, RecvComplete,
       InHand
<1>4. CASE FlushStep
  BY <1>4 DEF FlushStep, FlushQueues, FlushTest, FlushPeek, FlushClear, FlushDone,
              FlushRest, InHand
<1>5. CASE AsmStep
  BY <1>5 DEF AsmStep, AsmLock, AsmCheck, AsmSleep, AsmNext, AsmTake, AsmPop,
         AsmInconsistent, AsmNull, AsmRecheck, AsmDeliver, AsmDrop, AsmDropNull,
         AsmSendFails, AsmRest, InHand
<1>6. CASE StartModule \/ PortStep \/ UNCHANGED vars
  BY <1>6, PortFrame DEF StartModule, netVars, vars, InHand
<1> QED BY <1>1, <1>2, <1>3, <1>4, <1>5, <1>6, Steps

\* Packets in the channel, in hand and in the queues, and their numbers.
LEMMA PacketFacts ==
    ASSUME TypeInv, IntactInv
    PROVE  /\ \A i \in 1 .. Len(net) :
                /\ net[i] \in DataPacket \cup SyncPacket
                /\ net[i].type = "DATA" => /\ net[i].port \in Ports
                                           /\ net[i].n \in 1 .. Total[net[i].port]
                /\ net[i].type = "DATA" \/ net[i].type = "SYNC"
           /\ frame.type = "DATA" => /\ frame.port \in Ports
                                     /\ frame.n \in 1 .. Total[frame.port]
           /\ \A p \in Ports : \A i \in 1 .. Len(queue[p]) :
                /\ queue[p][i] \in DataPacket /\ queue[p][i].type = "DATA"
                /\ queue[p][i].port = p /\ queue[p][i].n \in 1 .. Total[p]
           /\ \A p \in Ports : Total[p] \in Nat
<1>1. ASSUME NEW i \in 1 .. Len(net)
      PROVE  /\ net[i] \in DataPacket \cup SyncPacket
             /\ net[i].type = "DATA" => net[i].port \in Ports
             /\ net[i].type = "DATA" \/ net[i].type = "SYNC"
  <2>1. net[i] \in DataPacket \cup SyncPacket
    BY DEF TypeInv, TypeFrame
  <2> QED BY <2>1 DEF DataPacket, SyncPacket
<1>2. frame.type = "DATA" => frame.port \in Ports
  BY DEF TypeInv, TypeFrame, DataPacket, SyncPacket, NoFrame
<1>3. \A p \in Ports : \A i \in 1 .. Len(queue[p]) :
        queue[p][i] \in DataPacket /\ queue[p][i].type = "DATA"
  <2>1. \A p \in Ports : \A i \in 1 .. Len(queue[p]) : queue[p][i] \in DataPacket
    BY DEF TypeInv, TypeBuffer
  <2> QED BY <2>1 DEF DataPacket
<1>4. \A p \in Ports : Total[p] \in Nat
  BY SentType DEF Total
<1> QED BY <1>1, <1>2, <1>3, <1>4 DEF IntactInv, FrameInv, QueueInv, Genuine, Located

\* Every step keeps packets apart.
LEMMA UniqueStep ==
    ASSUME MaxSyncs <= 1, TypeInv, TypeInv', IntactInv, UniqueInv, syncs = 0 => NoSync,
           [Next]_vars
    PROVE  UniqueInv'
<1>0. /\ net \in Seq(DataPacket \cup SyncPacket) /\ net' \in Seq(DataPacket \cup SyncPacket)
      /\ queue \in [Ports -> Seq(DataPacket)] /\ queue' \in [Ports -> Seq(DataPacket)]
      /\ Distinct(net) /\ \A p \in Ports : Distinct(queue[p])
  BY DEF TypeInv, TypeFrame, TypeBuffer, UniqueInv
<1>1. ASSUME NEW p \in Ports, NEW k \in 1 .. MaxFragments, PeerSend(p, k),
             UNCHANGED <<queue, frame, rxpc>>
      PROVE  UniqueInv'
  <2>1. Total[p] \in Nat /\ k \in Nat /\ Total[p] = Sent(p)
    BY PacketFacts, RxBoundsAssumption DEF Total
  <2>2. ASSUME NEW j \in 1 .. Len(net')
        PROVE  \/ j \in 1 .. Len(net) /\ net'[j] = net[j]
               \/ /\ j > Len(net) /\ net'[j].type = "DATA" /\ net'[j].port = p
                  /\ net'[j].n = Total[p] + (j - Len(net))
    <3>1. CASE j \in 1 .. Len(net)
      BY <1>1, <3>1, PeerSendNet
    <3>2. CASE j \notin 1 .. Len(net)
      <4>1. j > Len(net)
        BY <1>0, <3>2
      <4>2. net'[j] = PeerPacket(p, k, j - Len(net))
        BY <1>1, <4>1, PeerSendNet
      <4> QED BY <2>1, <4>1, <4>2 DEF PeerPacket
    <3> QED BY <3>1, <3>2
  <2>3. Len(net) \in Nat /\ Len(net') \in Nat
    BY <1>0
  <2>4. ASSUME NEW j \in 1 .. Len(net'), j > Len(net), NEW x,
               x.type = "DATA" /\ x.port = p => x.n \in 1 .. Total[p]
        PROVE  ~ Same(x, net'[j])
    <3>1. /\ net'[j].type = "DATA" /\ net'[j].port = p
          /\ net'[j].n = Total[p] + (j - Len(net))
      BY <2>2, <2>3, <2>4
    <3> QED BY <2>1, <2>3, <2>4, <3>1 DEF Same
  <2>5. Distinct(net')
    <3> SUFFICES ASSUME NEW i \in 1 .. Len(net'), NEW j \in 1 .. Len(net'), i < j
                 PROVE  ~ Same(net'[i], net'[j])
      <4>1. \A i, j \in 1 .. Len(net') : i # j => i < j \/ j < i
        BY <2>3
      <4> QED BY <4>1, SameSymmetric DEF Distinct
    <3>1. CASE j \in 1 .. Len(net)
      <4>1. i \in 1 .. Len(net) /\ i # j
        BY <3>1
      <4>2. net'[i] = net[i] /\ net'[j] = net[j]
        BY <2>2, <2>3, <3>1, <4>1
      <4> QED BY <1>0, <3>1, <4>1, <4>2 DEF Distinct
    <3>2. CASE j \notin 1 .. Len(net) /\ i \in 1 .. Len(net)
      <4>1. j > Len(net) /\ net'[i] = net[i]
        BY <2>2, <2>3, <3>2
      <4>2. net[i].type = "DATA" /\ net[i].port = p => net[i].n \in 1 .. Total[p]
        BY <3>2, PacketFacts
      <4> QED BY <2>4, <4>1, <4>2
    <3>3. CASE j \notin 1 .. Len(net) /\ i \notin 1 .. Len(net)
      <4>1. net'[i].type = "DATA" /\ net'[i].n = Total[p] + (i - Len(net))
            /\ net'[j].n = Total[p] + (j - Len(net))
        BY <2>2, <3>3
      <4>2. Total[p] + (i - Len(net)) # Total[p] + (j - Len(net))
        BY <2>1, <2>3
      <4> QED BY <4>1, <4>2 DEF Same
    <3> QED BY <3>1, <3>2, <3>3
  <2>6. ASSUME NEW x, \A j \in 1 .. Len(net) : ~ Same(x, net[j]),
               x.type = "DATA" /\ x.port = p => x.n \in 1 .. Total[p],
               NEW j \in 1 .. Len(net')
        PROVE  ~ Same(x, net'[j])
    BY <2>2, <2>4, <2>6
  <2>7. \A q \in Ports : \A i \in 1 .. Len(queue[q]), j \in 1 .. Len(net') :
           ~ Same(queue[q][i], net'[j])
    BY <2>6, PacketFacts DEF UniqueInv
  <2>8. InHand => \A j \in 1 .. Len(net') : ~ Same(frame, net'[j])
    BY <2>6, PacketFacts DEF UniqueInv
  <2> QED BY <1>1, <2>5, <2>7, <2>8 DEF UniqueInv, InHand
<1>2. CASE PeerSync /\ UNCHANGED <<queue, frame, rxpc>>
  <2>1. NoSync
    <3>1. syncs < MaxSyncs /\ syncs \in Nat
      BY <1>2 DEF PeerSync, TypeInv, TypePeer
    <3>2. syncs = 0
      BY <3>1, RxBoundsAssumption
    <3> QED BY <3>2
  <2>2. PICK i \in 0 .. Len(net), s \in SyncPacket :
          net' = InsertAfter(net, i, s) /\ Len(net') = Len(net) + 1
    BY <1>2, PeerSyncNet
  <2>3. s.type = "SYNC"
    BY DEF SyncPacket
  <2>4. \A j \in 1 .. Len(net) : ~ Same(net[j], s)
    BY <2>1, <2>3 DEF NoSync, Same
  <2>5. Distinct(net')
    BY <1>0, <2>2, <2>4, InsertDistinct
  <2>6. ASSUME NEW x, x.type # "SYNC", \A j \in 1 .. Len(net) : ~ Same(x, net[j]),
               NEW j \in 1 .. Len(net')
        PROVE  ~ Same(x, net'[j])
    <3>1. net'[j] = s \/ \E m \in 1 .. Len(net) : net'[j] = net[m]
      BY <1>0, <2>2, InsertAfterElements
    <3> QED BY <2>3, <2>6, <3>1 DEF Same
  <2>7. \A q \in Ports : \A m \in 1 .. Len(queue[q]), j \in 1 .. Len(net') :
           ~ Same(queue[q][m], net'[j])
    BY <2>6, PacketFacts DEF UniqueInv
  <2>8. InHand => frame.type # "SYNC"
    <3>1. InHand => frame \in DataPacket
      BY <2>1 DEF InHand, NoSync, TypeInv, TypeFrame
    <3> QED BY <3>1 DEF DataPacket
  <2>9. InHand => \A j \in 1 .. Len(net') : ~ Same(frame, net'[j])
    BY <2>6, <2>8 DEF UniqueInv
  <2> QED BY <1>2, <2>5, <2>7, <2>9 DEF UniqueInv, InHand
<1>3. ASSUME NEW i \in 1 .. Len(net), net' = Without(net, i), queue' = queue,
             \/ UNCHANGED <<frame, rxpc>>
             \/ InHand' => frame' = net[i]
      PROVE  UniqueInv'
  <2>1. /\ Distinct(net')
        /\ \A j \in 1 .. Len(net') : ~ Same(net[i], net'[j])
        /\ \A j \in 1 .. Len(net') : \E m \in 1 .. Len(net) : net'[j] = net[m]
    <3> DEFINE r == Without(net, i)
    <3>1. /\ Distinct(r)
          /\ \A j \in 1 .. Len(r) : ~ Same(net[i], r[j])
          /\ \A j \in 1 .. Len(r) : \E m \in 1 .. Len(net) : r[j] = net[m]
      BY <1>0, WithoutDistinct
    <3>2. net' = r
      BY <1>3
    <3> HIDE DEF r
    <3> QED BY <3>1, <3>2
  <2>2. \A q \in Ports : \A m \in 1 .. Len(queue[q]), j \in 1 .. Len(net') :
           ~ Same(queue[q][m], net'[j])
    BY <2>1 DEF UniqueInv
  <2>3. CASE UNCHANGED <<frame, rxpc>>
    BY <1>3, <2>1, <2>2, <2>3 DEF UniqueInv, InHand
  <2>4. CASE InHand' => frame' = net[i]
    BY <1>3, <2>1, <2>2, <2>4 DEF UniqueInv
  <2> QED BY <1>3, <2>3, <2>4
<1>4. CASE net' = net /\ (InHand' => InHand /\ frame' = frame)
  \* x joins a queue that has nothing that is the same
  <2>1. ASSUME NEW p \in Ports, \A q \in Ports : q # p => queue'[q] = queue[q],
               Distinct(queue'[p]),
               \A i \in 1 .. Len(queue'[p]) :
                  \/ \E j \in 1 .. Len(queue[p]) : queue'[p][i] = queue[p][j]
                  \/ InHand /\ ~ InHand' /\ queue'[p][i] = frame
        PROVE  UniqueInv'
    <3>1. \A q \in Ports : Distinct(queue'[q])
      BY <1>0, <2>1
    <3>2. \A q \in Ports : \A i \in 1 .. Len(queue'[q]), j \in 1 .. Len(net) :
            ~ Same(queue'[q][i], net[j])
      BY <2>1 DEF UniqueInv
    <3>3. InHand' => \A q \in Ports : \A i \in 1 .. Len(queue'[q]) : ~ Same(queue'[q][i], frame)
      BY <1>4, <2>1 DEF UniqueInv
    <3> QED BY <1>4, <3>1, <3>2, <3>3 DEF UniqueInv
  <2>2. CASE queue' = queue
    BY <1>4, <2>2 DEF UniqueInv
  <2>3. ASSUME RecvWrite, frame \in DataPacket, frame.port \in Ports,
               queue' = [queue EXCEPT ![frame.port] = <<frame>>], queue[frame.port] = << >>
        PROVE  UniqueInv'
    <3>1. queue'[frame.port] = <<frame>> /\ \A q \in Ports : q # frame.port => queue'[q] = queue[q]
      BY <1>0, <2>3
    <3>2. Len(<<frame>>) = 1 /\ <<frame>>[1] = frame
      OBVIOUS
    <3>3. Distinct(<<frame>>)
      BY <3>2 DEF Distinct
    <3>4. \A i \in 1 .. Len(queue'[frame.port]) : queue'[frame.port][i] = frame
      BY <3>1, <3>2
    <3>5. InHand /\ ~ InHand'
      <4>1. rxpc = "write"
        BY <2>3 DEF RecvWrite
      <4>2. queue' # queue
        <5>1. Len(<< >>) = 0
          OBVIOUS
        <5> QED BY <2>3, <3>1, <3>2, <5>1
      <4>3. rxpc' = "complete"
        BY <2>3, <4>2 DEF RecvWrite, bufVars
      <4> QED BY <4>1, <4>3 DEF InHand
    <3> QED BY <2>1, <2>3, <3>1, <3>3, <3>4, <3>5
  <2>4. ASSUME RecvCompare, frame \in DataPacket, frame.port \in Ports,
               NEW kept \in {queue[frame.port], << >>},
               queue' = [queue EXCEPT ![frame.port] =
                           Push(kept, frame, current_port_sequence[frame.port])]
        PROVE  UniqueInv'
    <3> DEFINE p == frame.port
               c == current_port_sequence[p]
    <3>1. queue'[p] = Push(kept, frame, c) /\ \A q \in Ports : q # p => queue'[q] = queue[q]
      BY <1>0, <2>4
    <3>2. InHand /\ ~ InHand'
      BY <2>4 DEF RecvCompare, InHand
    <3>3. /\ kept \in Seq(DataPacket) /\ Distinct(kept)
          /\ \A j \in 1 .. Len(kept) : j \in 1 .. Len(queue[p]) /\ kept[j] = queue[p][j]
      <4>1. CASE kept = queue[p]
        BY <1>0, <2>4, <4>1
      <4>2. CASE kept = << >>
        <5>1. Len(<< >>) = 0 /\ 1 .. 0 = {} /\ << >> \in Seq(DataPacket)
          OBVIOUS
        <5> QED BY <4>2, <5>1 DEF Distinct
      <4> QED BY <2>4, <4>1, <4>2
    <3>4. \A j \in 1 .. Len(kept) : ~ Same(kept[j], frame)
      BY <2>4, <3>2, <3>3 DEF UniqueInv
    <3>5. Distinct(Push(kept, frame, c))
      <4>1. CASE IsFull(kept)
        BY <3>3, <4>1 DEF Push
      <4>2. CASE ~ IsFull(kept)
        <5>1. PICK k \in 0 .. Len(kept) : k = Slot(kept, frame, c)
          BY <3>3, SlotExists
        <5>2. Push(kept, frame, c) = InsertAfter(kept, k, frame)
          BY <4>2, <5>1 DEF Push
        <5>3. Len(InsertAfter(kept, k, frame)) = Len(kept) + 1
          BY <2>4, <3>3, InsertAfterType
        <5> QED BY <3>3, <3>4, <5>2, <5>3, InsertDistinct
      <4> QED BY <4>1, <4>2
    <3>6. \A i \in 1 .. Len(queue'[p]) :
            \/ \E j \in 1 .. Len(queue[p]) : queue'[p][i] = queue[p][j]
            \/ queue'[p][i] = frame
      BY <2>4, <3>1, <3>3, PushElements
    <3> QED BY <2>1, <2>4, <3>1, <3>2, <3>5, <3>6
  <2>5. CASE queue' = [queue EXCEPT ![Lowest(flushPorts)] = << >>]
    <3>1. Distinct(<< >>) /\ Len(<< >>) = 0 /\ 1 .. 0 = {}
      BY DEF Distinct
    <3>2. CASE Lowest(flushPorts) \in Ports
      <4>1. queue'[Lowest(flushPorts)] = << >>
            /\ \A q \in Ports : q # Lowest(flushPorts) => queue'[q] = queue[q]
        BY <1>0, <2>5, <3>2
      <4> QED BY <2>1, <3>1, <3>2, <4>1
    <3>3. CASE Lowest(flushPorts) \notin Ports
      BY <1>0, <2>2, <2>5, <3>3
    <3> QED BY <3>2, <3>3
  <2>6. CASE queue[asmPort] # << >> /\ queue' = [queue EXCEPT ![asmPort] = Tail(queue[asmPort])]
    <3>1. asmPort \in Ports
      BY DEF TypeInv, TypeThreads
    <3>2. queue'[asmPort] = Tail(queue[asmPort]) /\ \A q \in Ports : q # asmPort => queue'[q] = queue[q]
      BY <1>0, <2>6, <3>1
    <3>3. /\ Distinct(Tail(queue[asmPort]))
          /\ \A j \in 1 .. Len(Tail(queue[asmPort])) :
               \E m \in 1 .. Len(queue[asmPort]) : Tail(queue[asmPort])[j] = queue[asmPort][m]
      BY <1>0, <2>6, <3>1, TailDistinct
    <3> DEFINE r == Tail(queue[asmPort])
    <3> HIDE DEF r
    <3>4. /\ queue'[asmPort] = r /\ Distinct(r)
          /\ \A j \in 1 .. Len(r) : \E m \in 1 .. Len(queue[asmPort]) : r[j] = queue[asmPort][m]
      BY <3>2, <3>3 DEF r
    <3> QED BY <2>1, <3>1, <3>2, <3>4
  <2> QED BY <2>2, <2>3, <2>4, <2>5, <2>6, QueueSteps
<1> QED BY <1>1, <1>2, <1>3, <1>4, NetSteps
-----------------------------------------------------------------------------
(***************************************************************************)
(* What waits, what was taken and what may still come.                     *)
(***************************************************************************)
\* Only the peer adds packets, and they have new numbers.
LEMMA WaitingStep ==
    ASSUME TypeInv, IntactInv, [Next]_vars, NEW p \in Ports, NEW k \in Waiting(p)'
    PROVE  \/ k \in Waiting(p)
           \/ /\ k.n \in Nat /\ k.n > Total[p] /\ k.gseq = peerGlobal % SeqMod
              /\ \E q \in Ports : \E j \in 1 .. MaxFragments : PeerSend(q, j)
<1>0. /\ net \in Seq(DataPacket \cup SyncPacket)
      /\ queue \in [Ports -> Seq(DataPacket)]
  BY DEF TypeInv, TypeFrame, TypeBuffer
<1>1. CASE \E i \in 1 .. Len(net') : k = net'[i] /\ k.type = "DATA" /\ k.port = p
  <2>1. PICK i \in 1 .. Len(net') : k = net'[i]
    BY <1>1
  <2>2. (\E j \in 1 .. Len(net) : k = net[j]) => k \in Waiting(p)
    BY <1>1 DEF Waiting
  <2>3. ASSUME NEW q \in Ports, NEW j \in 1 .. MaxFragments, PeerSend(q, j)
        PROVE  \/ k \in Waiting(p)
               \/ k.n \in Nat /\ k.n > Total[p] /\ k.gseq = peerGlobal % SeqMod
    <3>1. CASE i \in 1 .. Len(net)
      BY <2>1, <2>2, <2>3, <3>1, PeerSendNet
    <3>2. CASE i \notin 1 .. Len(net)
      <4>1. i > Len(net) /\ Len(net) \in Nat
        BY <1>0, <3>2
      <4>2. i - Len(net) \in 1 .. j /\ k = PeerPacket(q, j, i - Len(net))
        BY <2>1, <2>3, <4>1, PeerSendNet
      <4>3. Total[q] = Sent(q) /\ Total[q] \in Nat
        BY SentType DEF Total
      <4>4. k.port = q /\ k.n = Total[q] + (i - Len(net)) /\ k.gseq = peerGlobal % SeqMod
        BY <4>2, <4>3 DEF PeerPacket
      <4> QED BY <1>1, <4>1, <4>2, <4>3, <4>4
    <3> QED BY <3>1, <3>2
  <2>4. CASE PeerSync
    <3>1. PICK m \in 0 .. Len(net), s \in SyncPacket :
            net' = InsertAfter(net, m, s) /\ Len(net') = Len(net) + 1
      BY <2>4, PeerSyncNet
    <3> DEFINE r == InsertAfter(net, m, s)
    <3>2. net'[i] = s \/ \E j \in 1 .. Len(net) : net'[i] = net[j]
      <4>1. i \in 1 .. Len(net) + 1
        BY <3>1
      <4>2. r[i] = IF i <= m THEN net[i] ELSE IF i = m + 1 THEN s ELSE net[i - 1]
        BY <4>1 DEF InsertAfter
      <4>3. net' = r
        BY <3>1
      <4> HIDE DEF r
      <4>4. Len(net) \in Nat /\ m \in 0 .. Len(net)
        BY <1>0, <3>1
      <4>5. i <= m => i \in 1 .. Len(net)
        BY <4>1, <4>4
      <4>6. ~ (i <= m) /\ i # m + 1 => i - 1 \in 1 .. Len(net)
        BY <4>1, <4>4
      <4> QED BY <4>2, <4>3, <4>5, <4>6
    <3>3. k # s
      BY <1>1 DEF SyncPacket
    <3> QED BY <2>1, <2>2, <3>2, <3>3
  <2>5. ASSUME NEW m \in 1 .. Len(net), net' = Without(net, m) PROVE k \in Waiting(p)
    <3>1. Len(net) \in Nat /\ Len(net') = Len(net) - 1
      BY <1>0, <2>5, WithoutIs
    <3>2. i \in 1 .. Len(net) - 1 /\ i \in 1 .. Len(net) /\ i + 1 \in 1 .. Len(net)
      BY <3>1
    <3>3. net'[i] = IF i < m THEN net[i] ELSE net[i + 1]
      BY <1>0, <2>5, <3>2, WithoutIs
    <3> QED BY <2>1, <2>2, <3>2, <3>3
  <2>6. CASE net' = net
    BY <2>1, <2>2, <2>6
  <2> QED BY <2>3, <2>4, <2>5, <2>6, NetSteps
<1>2. CASE InHand' /\ k = frame' /\ k.type = "DATA" /\ k.port = p
  <2>1. CASE InHand /\ frame' = frame
    BY <1>2, <2>1 DEF Waiting
  <2>2. ASSUME NEW i \in 1 .. Len(net), frame' = net[i] PROVE k \in Waiting(p)
    BY <1>2, <2>2 DEF Waiting
  <2>3. InHand' /\ rxpc' = rxpc => InHand
    BY DEF InHand
  <2> QED BY <1>2, <2>1, <2>2, <2>3, NetSteps
<1>3. CASE \E i \in 1 .. Len(queue'[p]) : k = queue'[p][i]
  <2>1. PICK i \in 1 .. Len(queue'[p]) : k = queue'[p][i]
    BY <1>3
  <2>2. (\E j \in 1 .. Len(queue[p]) : k = queue[p][j]) => k \in Waiting(p)
    BY DEF Waiting
  <2>3. CASE queue'[p] = queue[p]
    BY <2>1, <2>2, <2>3
  <2>4. ASSUME InHand, frame \in DataPacket, frame.port = p, k = frame
        PROVE  k \in Waiting(p)
    BY <2>4 DEF Waiting, DataPacket
  <2>5. ASSUME RecvWrite, frame \in DataPacket, p = frame.port,
               queue' = [queue EXCEPT ![p] = <<frame>>]
        PROVE  k \in Waiting(p)
    <3>1. queue'[p] = <<frame>>
      BY <1>0, <2>5
    <3>2. Len(<<frame>>) = 1 /\ <<frame>>[1] = frame
      OBVIOUS
    <3>3. i = 1
      BY <3>1, <3>2
    <3>4. k = frame
      BY <2>1, <3>1, <3>2, <3>3
    <3>5. InHand
      BY <2>5 DEF RecvWrite, InHand
    <3> QED BY <2>4, <2>5, <3>4, <3>5
  <2>6. ASSUME RecvCompare, frame \in DataPacket, p = frame.port,
               NEW kept \in {queue[p], << >>},
               queue' = [queue EXCEPT ![p] = Push(kept, frame, current_port_sequence[p])]
        PROVE  k \in Waiting(p)
    <3>1. queue'[p] = Push(kept, frame, current_port_sequence[p])
      BY <1>0, <2>6
    <3>2. kept \in Seq(DataPacket) /\ (kept = queue[p] \/ Len(kept) = 0)
      <4>1. << >> \in Seq(DataPacket) /\ Len(<< >>) = 0 /\ queue[p] \in Seq(DataPacket)
        BY <1>0
      <4> QED BY <2>6, <4>1
    <3>3. k = frame \/ \E j \in 1 .. Len(kept) : k = kept[j]
      BY <2>1, <2>6, <3>1, <3>2, PushElements
    <3>4. k = frame \/ \E j \in 1 .. Len(queue[p]) : k = queue[p][j]
      BY <3>2, <3>3
    <3>5. InHand
      BY <2>6 DEF RecvCompare, InHand
    <3> QED BY <2>2, <2>4, <2>6, <3>4, <3>5
  <2>7. CASE queue'[p] = << >>
    <3>1. Len(queue'[p]) = 0
      BY <2>7
    <3> QED BY <3>1
  <2>8. CASE queue[p] # << >> /\ queue'[p] = Tail(queue[p])
    <3>1. /\ Len(queue[p]) \in Nat /\ Len(queue'[p]) = Len(queue[p]) - 1
          /\ \A j \in 1 .. Len(queue[p]) - 1 : queue'[p][j] = queue[p][j + 1]
      BY <1>0, <2>8, HeadTail
    <3>2. i + 1 \in 1 .. Len(queue[p]) /\ queue'[p][i] = queue[p][i + 1]
      BY <3>1
    <3> QED BY <2>1, <2>2, <3>2
  <2>9. CASE queue' = [queue EXCEPT ![Lowest(flushPorts)] = << >>]
    <3>1. queue'[p] = queue[p] \/ queue'[p] = << >>
      BY <1>0, <2>9
    <3> QED BY <2>3, <2>7, <3>1
  <2>10. CASE queue[asmPort] # << >> /\ queue' = [queue EXCEPT ![asmPort] = Tail(queue[asmPort])]
    <3>1. queue'[p] = queue[p] \/ (queue[p] # << >> /\ queue'[p] = Tail(queue[p]))
      BY <1>0, <2>10
    <3> QED BY <2>3, <2>8, <3>1
  <2>11. ASSUME NEW x, queue' = [queue EXCEPT ![frame.port] = x], p # frame.port
         PROVE  queue'[p] = queue[p]
    BY <1>0, <2>11
  <2> QED BY <2>3, <2>5, <2>6, <2>9, <2>10, <2>11, QueueSteps
<1>4. \/ \E i \in 1 .. Len(net') : k = net'[i] /\ k.type = "DATA" /\ k.port = p
      \/ InHand' /\ k = frame' /\ k.type = "DATA" /\ k.port = p
      \/ \E i \in 1 .. Len(queue'[p]) : k = queue'[p][i]
  BY DEF Waiting
<1> QED BY <1>1, <1>2, <1>3, <1>4

\* Waiting packets are packets of the port with known numbers.
LEMMA WaitingFacts ==
    ASSUME TypeInv, IntactInv, NEW p \in Ports, NEW k \in Waiting(p)
    PROVE  k.type = "DATA" /\ k.port = p /\ k.n \in Nat
<1>1. k.type = "DATA" /\ k.port = p
  BY PacketFacts DEF Waiting
<1>2. k.n \in 1 .. Total[p] /\ Total[p] \in Nat
  BY PacketFacts DEF Waiting
<1> QED BY <1>1, <1>2

\* A packet that was taken does not wait any more.
LEMMA TakenIsGone ==
    ASSUME TypeInv, IntactInv, UniqueInv, AsmPop, NEW p \in Ports, p = asmPort,
           NEW k \in Waiting(p)'
    PROVE  k.n # Head(queue[p]).n
<1> DEFINE h == Head(queue[p])
<1>1. p \in Ports /\ queue[p] \in Seq(DataPacket) /\ queue \in [Ports -> Seq(DataPacket)]
  BY DEF TypeInv, TypeThreads, TypeBuffer
<1>2. queue[p] # << >>
  BY <1>1, NotEmpty DEF AsmPop
<1>3. h = queue[p][1] /\ 1 \in 1 .. Len(queue[p])
  BY <1>1, <1>2, HeadTail
<1>4. h.type = "DATA" /\ h.port = p
  BY <1>1, <1>3, PacketFacts
<1>5. UNCHANGED <<net, frame, rxpc, asmPort>> /\ queue'[p] = Tail(queue[p])
  BY <1>1 DEF AsmPop, AsmRest, Popped
<1> SUFFICES ASSUME k.n = h.n PROVE FALSE
  OBVIOUS
<1>6. CASE \E i \in 1 .. Len(net) : k = net[i] /\ k.type = "DATA" /\ k.port = p
  BY <1>1, <1>3, <1>4, <1>6 DEF UniqueInv, Same
<1>7. CASE InHand /\ k = frame /\ k.type = "DATA" /\ k.port = p
  BY <1>1, <1>3, <1>4, <1>7 DEF UniqueInv, Same
<1>8. CASE \E i \in 1 .. Len(Tail(queue[p])) : k = Tail(queue[p])[i]
  <2>1. Distinct(queue[p])
    BY <1>1 DEF UniqueInv
  <2>2. PICK i \in 1 .. Len(Tail(queue[p])) : k = Tail(queue[p])[i]
    BY <1>8
  <2>3. ~ Same(h, k)
    BY <1>1, <1>2, <2>1, <2>2, TailDistinct
  <2>4. \E m \in 1 .. Len(queue[p]) : k = queue[p][m]
    BY <1>1, <1>2, <2>1, <2>2, TailDistinct
  <2>5. k.type = "DATA" /\ k.port = p
    BY <1>1, <2>4, PacketFacts
  <2> QED BY <1>4, <2>3, <2>5 DEF Same
<1>9. \/ \E i \in 1 .. Len(net) : k = net[i] /\ k.type = "DATA" /\ k.port = p
      \/ InHand /\ k = frame /\ k.type = "DATA" /\ k.port = p
      \/ \E i \in 1 .. Len(Tail(queue[p])) : k = Tail(queue[p])[i]
  BY <1>5 DEF Waiting, InHand
<1> QED BY <1>6, <1>7, <1>8, <1>9

\* What was taken last changes only when a packet is taken; handing a message
\* over does not change it, dropping one forgets it.
LEMMA TakenKept ==
    ASSUME TypeInv, AsmInv, [Next]_vars, ~ AsmPop, ~ AsmInconsistent, ~ AsmNull,
           NEW p \in Ports
    PROVE  /\ Taken(p)' = Taken(p) \/ Taken(p)' = Consumed(p)
           /\ Assembling(p)' => Assembling(p) /\ assembled' = assembled
           /\ Assembling(p) /\ ~ Assembling(p)' => asmpc = "deliver"
           /\ Consumed(p)' = Consumed(p) \/ Consumed(p)' = Taken(p)
<1>1. CASE ~ AsmStep
  BY <1>1, OtherFrame DEF Taken, Assembling, Consumed
<1>2. CASE AsmLock \/ AsmCheck \/ AsmSleep \/ AsmNext \/ AsmTake \/ AsmRecheck
  <2>1. delivered' = delivered
    BY <1>2 DEF AsmLock, AsmCheck, AsmSleep, AsmNext, AsmTake, AsmRecheck, asmVars
  <2>2. CASE AsmLock \/ AsmCheck \/ AsmSleep \/ AsmNext \/ AsmTake
    <3>1. ~ Assembling(p) /\ ~ Assembling(p)'
      BY <2>2 DEF AsmLock, AsmCheck, AsmSleep, AsmNext, AsmTake, Assembling
    <3> QED BY <2>1, <3>1 DEF Taken, Consumed
  <2>3. CASE AsmRecheck
    BY <2>1, <2>3 DEF AsmRecheck, Assembling, Taken, Consumed, asmVars
  <2> QED BY <1>2, <2>2, <2>3
<1>3. CASE AsmDeliver
  <2>1. /\ assembled # << >> /\ asmpc = "deliver" /\ asmpc' = "lock"
        /\ delivered' = [delivered EXCEPT ![asmPort] = Append(delivered[asmPort], assembled)]
    BY <1>3 DEF AsmDeliver, AsmInv
  <2>2. /\ assembled \in Seq(DataPacket) /\ asmPort \in Ports
        /\ delivered \in [Ports -> Seq(Seq(DataPacket))]
    BY DEF TypeInv, TypeBuffer, TypeThreads
  <2>3. ~ Assembling(p)'
    BY <2>1 DEF Assembling
  <2>4. CASE p # asmPort
    <3>1. delivered'[p] = delivered[p] /\ ~ Assembling(p)
      BY <2>1, <2>2, <2>4 DEF Assembling
    <3> QED BY <2>3, <3>1 DEF Taken, Consumed
  <2>5. CASE p = asmPort
    <3>1. delivered'[p] = Append(delivered[p], assembled) /\ delivered[p] \in Seq(Seq(DataPacket))
      BY <2>1, <2>2, <2>5
    <3>2. delivered'[p] # << >> /\ SX!Last(delivered'[p]) = assembled
      BY <2>2, <3>1, AppendLast, Zenon
    <3>3. Assembling(p)
      BY <2>1, <2>5 DEF Assembling
    <3>4. Consumed(p)' = Taken(p) /\ Taken(p)' = Taken(p)
      BY <2>3, <3>2, <3>3 DEF Taken, Consumed, SX!Last
    <3> QED BY <2>1, <2>3, <3>4
  <2> QED BY <2>4, <2>5
<1>4. CASE AsmDrop \/ AsmDropNull \/ AsmSendFails
  <2>1. /\ delivered' = delivered /\ ~ Assembling(p)' /\ asmpc \in {"deliver", "error"}
    BY <1>4 DEF AsmDrop, AsmDropNull, AsmSendFails, Assembling, asmVars
  <2>2. Taken(p)' = Consumed(p) /\ Consumed(p)' = Consumed(p)
    BY <2>1 DEF Taken, Consumed
  <2> QED BY <2>1, <2>2 DEF Assembling
<1> QED BY <1>1, <1>2, <1>3, <1>4 DEF AsmStep

\* The peer counts its sync packets.
LEMMA SyncsStep ==
    ASSUME [Next]_vars
    PROVE  /\ syncs' = syncs \/ (PeerSync /\ syncs' = syncs + 1 /\ syncs < MaxSyncs)
           /\ PeerSync => syncs' = syncs + 1 /\ syncs < MaxSyncs
<1>1. CASE PeerStep
  BY <1>1 DEF PeerStep, PeerSend, PeerSync, LoseFrame
<1>2. CASE RecvFrame \/ RecvSync \/ RecvPort \/ CallbackStuck \/ RecvWrite
              \/ RecvCompare \/ RecvComplete \/ FlushStep
  BY <1>2 DEF RecvFrame, RecvSync, RecvPort, CallbackStuck, RecvWrite, RecvCompare,
       RecvComplete, RxRest, FlushStep, FlushQueues, FlushTest, FlushPeek, FlushClear,
       FlushDone, FlushRest, PeerSync
<1>3. CASE AsmStep
  BY <1>3 DEF AsmStep, AsmLock, AsmCheck, AsmSleep, AsmNext, AsmTake, AsmPop,
       AsmInconsistent, AsmNull, AsmRecheck, AsmDeliver, AsmDrop, AsmDropNull,
       AsmSendFails, AsmRest, PeerSync
<1>4. CASE StartModule \/ PortStep \/ UNCHANGED vars
  BY <1>4, PortFrame DEF StartModule, netVars, vars, PeerSync
<1> QED BY <1>1, <1>2, <1>3, <1>4, Steps

\* Without a sync packet on the way none is received.
LEMMA NoSyncKept ==
    ASSUME TypeInv, [Next]_vars, NoSync, ~ PeerSync
    PROVE  NoSync'
<1>0. net \in Seq(DataPacket \cup SyncPacket)
  BY DEF TypeInv, TypeFrame
<1>1. ASSUME NEW p \in Ports, NEW k \in 1 .. MaxFragments, PeerSend(p, k),
             UNCHANGED <<queue, frame, rxpc>>
      PROVE  NoSync'
  <2>1. ASSUME NEW j \in 1 .. Len(net') PROVE net'[j].type # "SYNC"
    <3>1. CASE j \in 1 .. Len(net)
      BY <1>1, <3>1, PeerSendNet DEF NoSync
    <3>2. CASE j \notin 1 .. Len(net)
      <4>1. j > Len(net)
        BY <1>0, <3>2
      <4>2. net'[j] = PeerPacket(p, k, j - Len(net))
        BY <1>1, <4>1, PeerSendNet
      <4> QED BY <4>2 DEF PeerPacket
    <3> QED BY <3>1, <3>2
  <2> QED BY <1>1, <2>1 DEF NoSync
<1>2. ASSUME NEW i \in 1 .. Len(net), net' = Without(net, i),
             rxpc' = "sync" => rxpc = "sync" \/ net[i].type = "SYNC"
      PROVE  NoSync'
  <2>1. /\ Len(net') = Len(net) - 1 /\ Len(net) \in Nat
        /\ \A j \in 1 .. Len(net) - 1 : net'[j] = IF j < i THEN net[j] ELSE net[j + 1]
    BY <1>0, <1>2, WithoutIs
  <2>2. \A j \in 1 .. Len(net') : \E m \in 1 .. Len(net) : net'[j] = net[m]
    BY <2>1
  <2> QED BY <1>2, <2>2 DEF NoSync
<1>3. CASE net' = net /\ (InHand' => InHand /\ frame' = frame)
  <2>1. rxpc' # "sync"
    <3>1. CASE PeerStep
      BY <3>1, PeerFrame DEF NoSync
    <3>2. CASE RecvFrame
      <4>1. PICK i \in 1 .. Len(net) : net' = Without(net, i)
        BY <3>2 DEF RecvFrame
      <4>2. Len(net') = Len(net) - 1 /\ Len(net) \in Nat
        BY <1>0, <4>1, WithoutIs
      <4> QED BY <1>3, <4>2
    <3>3. CASE RecvSync \/ RecvPort \/ CallbackStuck \/ RecvWrite \/ RecvCompare
                  \/ RecvComplete \/ FlushStep
      BY <3>3 DEF RecvSync, RecvPort, CallbackStuck, RecvWrite, RecvCompare,
           RecvComplete, FlushStep, FlushQueues, FlushTest, FlushPeek, FlushClear,
           FlushDone
    <3>4. CASE AsmStep \/ StartModule \/ PortStep \/ UNCHANGED vars
      BY <3>4, PortFrame DEF AsmStep, AsmLock, AsmCheck, AsmSleep, AsmNext, AsmTake,
           AsmPop, AsmInconsistent, AsmNull, AsmRecheck, AsmDeliver, AsmDrop,
           AsmDropNull, AsmSendFails, AsmRest, StartModule, vars, NoSync
    <3> QED BY <3>1, <3>2, <3>3, <3>4, Steps
  <2> QED BY <1>3, <2>1 DEF NoSync
<1> QED BY <1>1, <1>2, <1>3, NetSteps

\* Once no sync packet will come, none will; and the only one is received only
\* once.
LEMMA SpentStep ==
    ASSUME MaxSyncs <= 1, TypeInv, IntactInv, UniqueInv, syncs <= MaxSyncs,
           syncs = 0 => NoSync, [Next]_vars
    PROVE  /\ Spent \/ RecvSync => Spent'
           /\ syncs' <= MaxSyncs /\ (syncs' = 0 => NoSync')
<1>0. syncs \in Nat /\ MaxSyncs \in Nat
  BY RxBoundsAssumption DEF TypeInv, TypePeer
<1>1. /\ syncs' = syncs \/ (PeerSync /\ syncs' = syncs + 1 /\ syncs < MaxSyncs)
      /\ PeerSync => syncs' = syncs + 1 /\ syncs < MaxSyncs
  BY SyncsStep
<1>2. ASSUME NoSync, ~ PeerSync PROVE NoSync'
  BY <1>2, NoSyncKept
<1>3. CASE RecvSync
  <2>1. /\ rxpc = "sync" /\ rxpc' # "sync" /\ net' = net /\ syncs' = syncs
        /\ frame \in SyncPacket
    BY <1>3 DEF RecvSync, RxRest, TypeInv, TypeFrame
  <2>2. syncs = MaxSyncs
    BY <1>0, <2>1 DEF NoSync
  <2>3. frame.type = "SYNC"
    BY <2>1 DEF SyncPacket
  <2>4. \A j \in 1 .. Len(net) : net[j].type # "SYNC"
    BY <2>1, <2>3 DEF UniqueInv, InHand, Same
  <2> QED BY <1>0, <2>1, <2>2, <2>4 DEF Spent, NoSync
<1>4. CASE ~ RecvSync
  BY <1>0, <1>1, <1>2, <1>4 DEF Spent
<1> QED BY <1>3, <1>4

\* Nothing repairs the module once rx_mutex is left locked or the process has
\* ended.
LEMMA HealthKept ==
    ASSUME [Next]_vars, ~ mutexLeaked', asmpc' # "aborted"
    PROVE  ~ mutexLeaked /\ asmpc # "aborted" /\ ~ AsmInconsistent /\ ~ AsmNull
<1>1. CASE ~ AsmStep
  BY <1>1, OtherFrame DEF asmVars, AsmStep
<1>2. CASE AsmStep
  BY <1>2 DEF AsmStep, AsmLock, AsmCheck, AsmSleep, AsmNext, AsmTake, AsmPop,
         AsmInconsistent, AsmNull, AsmRecheck, AsmDeliver, AsmDrop, AsmDropNull,
         AsmSendFails, AsmRest, Aborted, asmVars
<1> QED BY <1>1, <1>2

\* The packets of an assembled message, from the first to the last.
LEMMA AssembledEnds ==
    ASSUME TypeInv, IntactInv, NEW p \in Ports, Assembling(p)
    PROVE  /\ assembled \in Seq(DataPacket) /\ assembled # << >>
           /\ assembled[1].n = assembled[1].msg /\ assembled[1].n \in Nat
           /\ SX!Last(assembled) = assembled[Len(assembled)]
           /\ SX!Last(assembled).n \in 1 .. Total[p]
           /\ assembled[1].msg <= SX!Last(assembled).n
<1> DEFINE l == Len(assembled)
           a == assembled[l]
           b == assembled[1]
<1>1. /\ assembled \in Seq(DataPacket) /\ assembled # << >> /\ asmPort = p
      /\ asmpc \in {"pop", "recheck", "deliver"}
  BY DEF Assembling, TypeInv, TypeBuffer
<1>2. l \in 1 .. l /\ 1 \in 1 .. l /\ SX!Last(assembled) = a
  BY <1>1 DEF SX!Last
<1>3. /\ a.port = p /\ Genuine(a) /\ a.msg = b.msg
      /\ b.port = p /\ Genuine(b) /\ b.sub = 1 - 1
  BY <1>1, <1>2 DEF IntactInv, AsmInv, Started
<1>4. Located(a, Ends[p], Total[p]) /\ Located(b, Ends[p], Total[p])
  BY <1>3 DEF Genuine
<1> HIDE DEF l, a, b
<1>5. a.n \in 1 .. Total[p] /\ a.msg <= a.n
  BY <1>4 DEF Located
<1>6. b.n \in Nat /\ b.msg \in Nat /\ b.n = b.msg
  BY <1>3, <1>4 DEF Located
<1>7. b.msg <= a.n
  BY <1>3, <1>5
<1> QED BY <1>1, <1>2, <1>5, <1>6, <1>7 DEF l, a, b

\* What was taken and what is expected are numbers of packets that were sent.
LEMMA TakenBound ==
    ASSUME TypeInv, IntactInv, HandedInv, NEW p \in Ports
    PROVE  /\ Total[p] \in Nat /\ Taken(p) \in 0 .. Total[p] /\ Consumed(p) <= Taken(p)
           /\ Consumed(p) \in 0 .. Total[p] /\ current_port_sequence[p] \in Nat
<1>1. Total[p] \in Nat /\ current_port_sequence[p] \in Nat
  BY SentType, SeqModAssumption DEF Total, TypeInv, TypeModule, SeqNums
<1>2. Consumed(p) \in 0 .. Total[p]
  BY DEF HandedInv
<1>3. ASSUME Assembling(p)
      PROVE  assembled[Len(assembled)].n \in 1 .. Total[p]
  <2>1. Len(assembled) \in 1 .. Len(assembled)
    BY <1>3 DEF Assembling, TypeInv, TypeBuffer
  <2>2. assembled[Len(assembled)].port = p /\ Genuine(assembled[Len(assembled)])
    BY <1>3, <2>1 DEF Assembling, IntactInv, AsmInv
  <2> QED BY <2>2 DEF Genuine, Located
<1>4. Taken(p) \in 0 .. Total[p]
  BY <1>1, <1>2, <1>3 DEF Taken
<1>5. Consumed(p) <= Taken(p)
  <2> DEFINE c == Consumed(p)
             t == Taken(p)
  <2>1. CASE ~ Assembling(p)
    BY <1>1, <1>2, <2>1 DEF Taken
  <2>2. CASE Assembling(p)
    <3>1. /\ t = SX!Last(assembled).n /\ assembled[1].n <= t /\ assembled[1].n \in Nat
      BY <2>2, AssembledEnds DEF Taken
    <3>2. assembled[1].n > c
      BY <2>2 DEF HandedInv
    <3>3. c \in Nat /\ t \in Nat
      BY <1>1, <1>2, <1>4
    <3> HIDE DEF t, c
    <3>4. c <= t
      BY <3>1, <3>2, <3>3
    <3> QED BY <3>4 DEF t, c
  <2> QED BY <2>1, <2>2
<1> QED BY <1>1, <1>2, <1>4, <1>5

\* Within one turn, what a port expects are numbers of packets that were sent.
LEMMA ExpectedBound ==
    ASSUME MaxPackets < SeqMod, TypeInv, IntactInv, NEW p \in Ports,
           ~ mutexLeaked, asmpc # "aborted"
    PROVE  current_port_sequence[p] <= Total[p]
<1>1. /\ Total[p] \in Nat /\ Marks(p) = Ends[p] /\ Ends[p] \subseteq 0 .. Total[p]
      /\ \A n \in 0 .. Total[p] : Wrapped(n) = n
  BY SentType, WithinTurn DEF IntactInv, PeerInv, Total
<1>2. CASE current_port_sequence[p] \in Marks(p)
  BY <1>1, <1>2
<1>3. CASE asmpc = "pop" /\ asmPort = p /\ assembled # << >>
  <2> DEFINE a == assembled[Len(assembled)]
  <2>1. Len(assembled) \in 1 .. Len(assembled)
    BY <1>3 DEF TypeInv, TypeBuffer
  <2>2. a.port = p /\ Genuine(a) /\ current_port_sequence[p] = Wrapped(a.n)
    BY <1>3, <2>1 DEF IntactInv, AsmInv
  <2>3. a.n \in 1 .. Total[p]
    BY <2>2 DEF Genuine, Located
  <2> HIDE DEF a
  <2>4. a.n \in 0 .. Total[p] /\ a.n <= Total[p]
    BY <1>1, <2>3
  <2> QED BY <1>1, <2>2, <2>4
<1> QED BY <1>2, <1>3 DEF IntactInv, ExpectInv

\* What taking the head of the queue changes.
LEMMA PopChanges ==
    ASSUME TypeInv, IntactInv, AsmPop, PopsNext
    PROVE  LET h == Head(queue[asmPort])
           IN  /\ asmPort \in Ports /\ h \in Waiting(asmPort)
               /\ h.n \in Nat /\ h.n >= 1 /\ h.n <= Total[asmPort]
               /\ current_port_sequence[asmPort] = Wrapped(h.n - 1)
               /\ current_port_sequence'[asmPort] = Wrapped(h.n)
               /\ \A p \in Ports : p = asmPort =>
                    /\ Taken(p)' = h.n
                    /\ Assembling(p)' /\ assembled'[Len(assembled')].n = h.n
               /\ \A p \in Ports : p # asmPort =>
                    /\ Taken(p)' = Taken(p) /\ ~ Assembling(p) /\ ~ Assembling(p)'
                    /\ current_port_sequence'[p] = current_port_sequence[p]
               /\ delivered' = delivered
<1> DEFINE h == Head(queue[asmPort])
           c == current_port_sequence[asmPort]
<1>1. /\ asmPort \in Ports /\ assembled \in Seq(DataPacket)
      /\ queue[asmPort] \in Seq(DataPacket)
      /\ current_port_sequence \in [Ports -> SeqNums]
  BY DEF TypeInv, TypeThreads, TypeBuffer, TypeModule
<1>2. /\ h \in DataPacket /\ h.port = asmPort /\ Genuine(h) /\ h = queue[asmPort][1]
      /\ h.n >= 1 /\ c = Wrapped(h.n - 1)
      /\ assembled' = Append(assembled, h) /\ asmPort' = asmPort
      /\ current_port_sequence' = [current_port_sequence EXCEPT ![asmPort] = Wrapped(h.n)]
      /\ asmpc' \in {"pop", "recheck"} /\ asmpc = "pop" /\ delivered' = delivered
  <2>1. asmpc = "pop"
    BY DEF AsmPop
  <2> QED BY <2>1, PopTakesNext DEF IntactInv
<1>3. h \in Waiting(asmPort)
  <2>1. queue[asmPort] # << >>
    BY <1>1, NotEmpty DEF AsmPop
  <2>2. 1 \in 1 .. Len(queue[asmPort])
    BY <1>1, <2>1, HeadTail
  <2> QED BY <1>2, <2>2 DEF Waiting
<1>4. h.n \in 1 .. Total[asmPort] /\ h.n \in Nat
  BY <1>2 DEF Genuine, Located
<1>5. ASSUME NEW p \in Ports, p = asmPort
      PROVE  /\ Taken(p)' = h.n
             /\ Assembling(p)' /\ assembled'[Len(assembled')].n = h.n
  <2>1. assembled' # << >> /\ Len(assembled') = Len(assembled) + 1
        /\ assembled'[Len(assembled) + 1] = h
    BY <1>1, <1>2, AppendIs
  <2>2. Assembling(p)'
    BY <1>2, <1>5, <2>1 DEF Assembling
  <2> QED BY <2>1, <2>2 DEF Taken
<1>6. ASSUME NEW p \in Ports, p # asmPort
      PROVE  /\ Taken(p)' = Taken(p) /\ ~ Assembling(p) /\ ~ Assembling(p)'
             /\ current_port_sequence'[p] = current_port_sequence[p]
  <2>1. ~ Assembling(p) /\ ~ Assembling(p)'
    BY <1>2, <1>6 DEF Assembling
  <2>2. Consumed(p)' = Consumed(p)
    BY <1>2 DEF Consumed
  <2> QED BY <1>1, <1>2, <1>6, <2>1, <2>2 DEF Taken
<1>7. current_port_sequence'[asmPort] = Wrapped(h.n)
  BY <1>1, <1>2
<1>8. h.n <= Total[asmPort]
  BY <1>4
<1> HIDE DEF h
<1> QED BY <1>1, <1>2, <1>3, <1>4, <1>5, <1>6, <1>7, <1>8 DEF h

\* The same within one turn.
LEMMA PopTaken ==
    ASSUME MaxPackets < SeqMod, TypeInv, IntactInv, AsmPop
    PROVE  LET h == Head(queue[asmPort])
           IN  /\ asmPort \in Ports /\ h \in Waiting(asmPort)
               /\ h.n = current_port_sequence[asmPort] + 1 /\ h.n \in Nat
               /\ h.n <= Total[asmPort]
               /\ current_port_sequence'[asmPort] = h.n
               /\ \A p \in Ports : p = asmPort => Taken(p)' = h.n
               /\ \A p \in Ports : p # asmPort =>
                    /\ Taken(p)' = Taken(p)
                    /\ current_port_sequence'[p] = current_port_sequence[p]
<1> DEFINE h == Head(queue[asmPort])
<1>1. PopsNext /\ h.n = current_port_sequence[asmPort] + 1
  BY PopWithinTurn
<1>2. /\ asmPort \in Ports /\ h \in Waiting(asmPort) /\ h.n \in Nat
      /\ h.n <= Total[asmPort] /\ current_port_sequence'[asmPort] = Wrapped(h.n)
      /\ \A p \in Ports : p = asmPort => Taken(p)' = h.n
      /\ \A p \in Ports : p # asmPort =>
           /\ Taken(p)' = Taken(p)
           /\ current_port_sequence'[p] = current_port_sequence[p]
  BY <1>1, PopChanges
<1>3. Wrapped(h.n) = h.n
  <2>1. Total[asmPort] \in Nat
    BY <1>2, SentType DEF Total
  <2>2. h.n \in 0 .. Total[asmPort]
    BY <1>2, <2>1
  <2> QED BY <1>2, <2>2, WithinTurn DEF IntactInv
<1> QED BY <1>1, <1>2, <1>3

\* No packet that waits falls behind what was taken, except for good.
LEMMA NewerStep ==
    ASSUME MaxPackets < SeqMod, MaxSyncs <= 1, TypeInv, IntactInv, OrderInv, [Next]_vars
    PROVE  NewerInv' /\ AheadInv'
<1>1. SUFFICES ASSUME ~ mutexLeaked', asmpc' # "aborted", NEW p \in Ports
               PROVE  /\ \A k \in Waiting(p)' :
                            \/ k.n > Taken(p)'
                            \/ Spent' /\ k.n <= current_port_sequence'[p]
                      /\ ~ Spent' =>
                            /\ Taken(p)' <= current_port_sequence'[p]
                            /\ \A k \in Waiting(p)' : k.n > current_port_sequence'[p]
  BY DEF NewerInv, AheadInv
<1>2. /\ ~ mutexLeaked /\ asmpc # "aborted" /\ ~ AsmInconsistent /\ ~ AsmNull
  BY <1>1, HealthKept
<1>3. /\ \A k \in Waiting(p) : k.n > Taken(p) \/ (Spent /\ k.n <= current_port_sequence[p])
      /\ ~ Spent => /\ Taken(p) <= current_port_sequence[p]
                    /\ \A k \in Waiting(p) : k.n > current_port_sequence[p]
  BY <1>2 DEF OrderInv, NewerInv, AheadInv
<1>4. Spent \/ RecvSync => Spent'
  BY SpentStep DEF OrderInv
<1>5. /\ Total[p] \in Nat /\ Taken(p) \in 0 .. Total[p]
      /\ current_port_sequence[p] \in Nat /\ current_port_sequence[p] <= Total[p]
  BY <1>2, TakenBound, ExpectedBound DEF OrderInv
<1>6. ASSUME NEW k \in Waiting(p)'
      PROVE  k.n \in Nat /\ (k \in Waiting(p) \/ k.n > Total[p])
  BY WaitingStep, WaitingFacts
<1>7. CASE AsmPop /\ p = asmPort
  <2> DEFINE h == Head(queue[asmPort])
  <2>0. h = Head(queue[p])
    BY <1>7
  <2>1. /\ h.n = current_port_sequence[p] + 1 /\ h.n \in Nat /\ h.n <= Total[p]
        /\ Taken(p)' = h.n /\ current_port_sequence'[p] = h.n
    BY <1>7, PopTaken
  <2>2. ASSUME NEW k \in Waiting(p)'
        PROVE  k.n # h.n /\ k.n \in Nat /\ (k \in Waiting(p) \/ k.n > Total[p])
    BY <1>6, <1>7, <2>0, TakenIsGone DEF OrderInv
  <2> HIDE DEF h
  <2>3. ASSUME NEW k \in Waiting(p)', ~ Spent PROVE k.n > h.n
    <3>1. k.n > current_port_sequence[p]
      BY <1>3, <1>5, <2>2, <2>3
    <3> QED BY <1>5, <2>1, <2>2, <3>1
  <2>4. \A k \in Waiting(p)' : k.n > h.n \/ k.n <= h.n
    BY <2>1, <2>2
  <2> QED BY <1>4, <2>1, <2>3, <2>4
<1>8. CASE ~ (AsmPop /\ p = asmPort)
  <2>1. Taken(p)' \in Nat /\ Taken(p)' <= Taken(p)
    <3>1. Taken(p)' = Taken(p) \/ Taken(p)' = Consumed(p)
      BY <1>2, <1>8, PopTaken, TakenKept DEF IntactInv
    <3>2. Consumed(p) \in Nat /\ Consumed(p) <= Taken(p)
      BY <1>5, TakenBound DEF OrderInv
    <3> QED BY <1>5, <3>1, <3>2
  <2>2. RecvSync \/ current_port_sequence'[p] = current_port_sequence[p]
    <3>1. CASE AsmPop
      BY <1>8, <3>1, PopTaken
    <3>2. CASE AsmStep /\ ~ AsmPop
      BY <3>2 DEF AsmStep, AsmLock, AsmCheck, AsmSleep, AsmNext, AsmTake,
         AsmInconsistent, AsmNull, AsmRecheck, AsmDeliver, AsmDrop, AsmDropNull,
         AsmSendFails
    <3>3. CASE ~ AsmStep
      BY <3>3, OtherFrame
    <3> QED BY <3>1, <3>2, <3>3
  <2>3. RecvSync => ~ Spent
    BY DEF RecvSync, Spent, NoSync
  <2>4. ASSUME NEW k \in Waiting(p)'
        PROVE  k.n > Taken(p) \/ (Spent /\ k.n <= current_port_sequence[p])
    BY <1>3, <1>5, <1>6
  <2>5. ASSUME NEW k \in Waiting(p)', ~ Spent
        PROVE  k.n > current_port_sequence[p]
    BY <1>3, <1>5, <1>6, <2>5
  <2>6. \A k \in Waiting(p)' : k.n > Taken(p) => k.n > Taken(p)'
    BY <1>5, <1>6, <2>1
  <2>7. Taken(p) <= current_port_sequence[p] => Taken(p)' <= current_port_sequence[p]
    BY <1>5, <2>1
  <2> QED BY <1>3, <1>4, <2>2, <2>3, <2>4, <2>5, <2>6, <2>7
<1> QED BY <1>7, <1>8

\* Handing over is the only step that changes what clients have.
LEMMA DeliveredKept ==
    ASSUME [Next]_vars, ~ AsmDeliver
    PROVE  delivered' = delivered
<1>1. CASE ~ AsmStep
  BY <1>1, OtherFrame DEF asmVars
<1>2. CASE AsmStep
  BY <1>2 DEF AsmStep, AsmLock, AsmCheck, AsmSleep, AsmNext, AsmTake, AsmPop,
         AsmInconsistent, AsmNull, AsmRecheck, AsmDeliver, AsmDrop, AsmDropNull,
         AsmSendFails, asmVars
<1> QED BY <1>1, <1>2

LEMMA DeliverIs ==
    ASSUME TypeInv, IntactInv, AsmDeliver
    PROVE  /\ asmPort \in Ports /\ Assembling(asmPort)
           /\ delivered[asmPort] \in Seq(Seq(DataPacket)) /\ assembled \in Seq(DataPacket)
           /\ delivered'[asmPort] = Append(delivered[asmPort], assembled)
           /\ \A p \in Ports : p # asmPort => delivered'[p] = delivered[p]
           /\ \A p \in Ports : p = asmPort =>
                /\ delivered'[p] # << >> /\ SX!Last(delivered'[p]) = assembled
<1>1. /\ asmPort \in Ports /\ delivered \in [Ports -> Seq(Seq(DataPacket))]
      /\ assembled \in Seq(DataPacket)
  BY DEF TypeInv, TypeThreads, TypeBuffer
<1>2. /\ asmpc = "deliver"
      /\ delivered' = [delivered EXCEPT ![asmPort] = Append(delivered[asmPort], assembled)]
  BY DEF AsmDeliver
<1>3. Assembling(asmPort)
  BY <1>2 DEF Assembling, IntactInv, AsmInv
<1>4. /\ delivered'[asmPort] = Append(delivered[asmPort], assembled)
      /\ \A p \in Ports : p # asmPort => delivered'[p] = delivered[p]
  BY <1>1, <1>2
<1>5. delivered[asmPort] \in Seq(Seq(DataPacket))
  BY <1>1
<1>6. /\ delivered'[asmPort] # << >> /\ SX!Last(delivered'[asmPort]) = assembled
  BY <1>1, <1>4, <1>5, AppendLast, Zenon
<1> QED BY <1>1, <1>3, <1>4, <1>5, <1>6

\* The message that is being assembled stays newer than what was handed over.
LEMMA HandedStep ==
    ASSUME TypeInv, IntactInv, HandedInv, [Next]_vars,
           AsmPop => PopsNext /\ Head(queue[asmPort]).n > Taken(asmPort)
    PROVE  HandedInv'
<1>1. SUFFICES ASSUME NEW p \in Ports
               PROVE  /\ Consumed(p)' \in 0 .. Total'[p]
                      /\ Assembling(p)' => assembled'[1].n > Consumed(p)'
                      /\ delivered'[p] # << >> =>
                           /\ SX!Last(delivered'[p]) # << >>
                           /\ SX!Last(delivered'[p])[1].msg <= SX!Last(SX!Last(delivered'[p])).n
  BY DEF HandedInv
<1>2. /\ Consumed(p) \in 0 .. Total[p]
      /\ Assembling(p) => assembled[1].n > Consumed(p)
      /\ delivered[p] # << >> =>
           /\ SX!Last(delivered[p]) # << >>
           /\ SX!Last(delivered[p])[1].msg <= SX!Last(SX!Last(delivered[p])).n
  BY DEF HandedInv
<1>3. Total[p] \in Nat /\ Total'[p] \in Nat /\ Total[p] <= Total'[p]
  <2>1. CASE messages' = messages
    <3>1. Total[p] \in Nat
      BY SentType DEF Total
    <3> QED BY <2>1, <3>1, MessagesKept
  <2>2. ASSUME NEW q \in Ports, NEW k \in 1 .. MaxFragments, PeerSend(q, k)
        PROVE  Total[p] \in Nat /\ Total'[p] \in Nat /\ Total[p] <= Total'[p]
    <3>1. /\ Total[q] \in Nat /\ k \in Nat
          /\ Total' = [Total EXCEPT ![q] = Total[q] + k]
      BY <2>2, MessagesGrow
    <3>2. Total[p] \in Nat /\ DOMAIN Total = Ports
      BY SentType DEF Total
    <3> QED BY <3>1, <3>2
  <2> QED BY <2>1, <2>2, MessagesStep
<1>4. CASE AsmDeliver /\ p = asmPort
  <2>1. delivered'[p] # << >> /\ SX!Last(delivered'[p]) = assembled /\ Assembling(p)
    BY <1>4, DeliverIs
  <2>2. /\ assembled # << >> /\ SX!Last(assembled).n \in 1 .. Total[p]
        /\ assembled[1].msg <= SX!Last(assembled).n
    BY <2>1, AssembledEnds
  <2>3. Consumed(p)' = SX!Last(assembled).n
    BY <2>1 DEF Consumed
  <2>4. ~ Assembling(p)'
    BY <1>4 DEF AsmDeliver, Assembling
  <2> QED BY <1>3, <2>1, <2>2, <2>3, <2>4
<1>5. CASE ~ (AsmDeliver /\ p = asmPort)
  <2>1. delivered'[p] = delivered[p]
    BY <1>5, DeliveredKept, DeliverIs
  <2>2. Consumed(p)' = Consumed(p)
    BY <2>1 DEF Consumed
  <2>3. ASSUME Assembling(p)' PROVE assembled'[1].n > Consumed(p)
    <3>1. CASE ~ AsmStep \/ AsmRecheck
      <4>1. UNCHANGED <<assembled, asmPort>> /\ (asmpc \in {"pop", "recheck", "deliver"})
        BY <2>3, <3>1, OtherFrame DEF AsmRecheck, asmVars, Assembling
      <4>2. Assembling(p)
        BY <2>3, <4>1 DEF Assembling
      <4> QED BY <1>2, <4>1, <4>2
    <3>2. CASE AsmPop
      <4> DEFINE h == Head(queue[asmPort])
      <4>1. /\ assembled' = Append(assembled, h) /\ asmPort' = asmPort /\ asmpc = "pop"
        BY <3>2 DEF AsmPop
      <4>2. assembled \in Seq(DataPacket) /\ h \in DataPacket
        BY <3>2, PopTakesNext DEF TypeInv, TypeBuffer, IntactInv
      <4>3. p = asmPort
        BY <2>3, <4>1 DEF Assembling
      <4>4. CASE assembled = << >>
        <5>1. h.n > Taken(p)
          BY <3>2, <4>3
        <5>2. Taken(p) = Consumed(p)
          BY <4>4 DEF Taken, Assembling
        <5>3. assembled'[1] = h
          BY <4>1, <4>2, <4>4
        <5> HIDE DEF h
        <5> QED BY <5>1, <5>2, <5>3
      <4>5. CASE assembled # << >>
        <5>1. Assembling(p)
          BY <4>1, <4>3, <4>5 DEF Assembling
        <5>2. assembled'[1] = assembled[1]
          BY <4>1, <4>2, <4>5
        <5> QED BY <1>2, <5>1, <5>2
      <4> QED BY <4>4, <4>5
    <3>3. CASE AsmTake \/ AsmDeliver \/ AsmDrop \/ AsmDropNull \/ AsmSendFails
                  \/ AsmLock \/ AsmCheck \/ AsmSleep \/ AsmNext
               \/ AsmInconsistent \/ AsmNull
      BY <2>3, <3>3 DEF AsmTake, AsmDeliver, AsmDrop, AsmDropNull, AsmSendFails,
           AsmLock, AsmCheck, AsmSleep, AsmNext, AsmInconsistent, AsmNull, Assembling
    <3> QED BY <3>1, <3>2, <3>3 DEF AsmStep
  <2> QED BY <1>2, <1>3, <2>1, <2>2, <2>3
<1> QED BY <1>4, <1>5

\* A message is handed over behind the one before it.
LEMMA InOrderStep ==
    ASSUME TypeInv, IntactInv, HandedInv, DeliveredInOrder, [Next]_vars
    PROVE  DeliveredInOrder'
<1>1. SUFFICES ASSUME NEW p \in Ports, NEW m \in 2 .. Len(delivered'[p])
               PROVE  delivered'[p][m - 1][1].msg < delivered'[p][m][1].msg
  BY DEF DeliveredInOrder
<1>2. \A i \in 2 .. Len(delivered[p]) : delivered[p][i - 1][1].msg < delivered[p][i][1].msg
  BY DEF DeliveredInOrder
<1>3. CASE AsmDeliver /\ p = asmPort
  <2> DEFINE d == delivered[p]
             r == Append(d, assembled)
  <2>1. /\ d \in Seq(Seq(DataPacket)) /\ assembled \in Seq(DataPacket)
        /\ delivered'[p] = r /\ Assembling(p)
    BY <1>3, DeliverIs
  <2>2. /\ Len(r) = Len(d) + 1 /\ Len(d) \in Nat
        /\ \A i \in 1 .. Len(d) : r[i] = d[i]
        /\ r[Len(d) + 1] = assembled
    BY <2>1, AppendIs
  <2> HIDE DEF r
  <2>3. CASE m \in 2 .. Len(d)
    <3>1. r[m] = d[m] /\ r[m - 1] = d[m - 1]
      BY <2>2, <2>3
    <3> QED BY <1>2, <2>1, <2>3, <3>1
  <2>4. CASE m = Len(d) + 1
    <3>1. Len(d) >= 1 /\ m - 1 = Len(d)
      BY <2>2, <2>4
    <3>2. d # << >> /\ SX!Last(d) = d[Len(d)]
      BY <3>1 DEF SX!Last
    <3>3. d[Len(d)][1].msg <= Consumed(p)
      <4>1. SX!Last(d)[1].msg <= SX!Last(SX!Last(d)).n
        BY <3>2 DEF HandedInv
      <4> QED BY <3>2, <4>1 DEF Consumed
    <3>4. /\ Consumed(p) < assembled[1].n /\ assembled[1].n = assembled[1].msg
          /\ assembled[1].n \in Nat
      BY <2>1, AssembledEnds DEF HandedInv
    <3>5. Consumed(p) \in Nat
      BY DEF HandedInv
    <3>6. d[Len(d)][1].msg \in Nat
      <4>1. d[Len(d)] \in Seq(DataPacket) /\ d[Len(d)] # << >>
        <5>1. Len(d) \in 1 .. Len(d)
          BY <2>2, <3>1
        <5>2. d[Len(d)] \in Seq(DataPacket)
          BY <2>1, <5>1
        <5>3. SX!Last(d) # << >>
          BY <3>2 DEF HandedInv
        <5> QED BY <3>2, <5>2, <5>3
      <4>2. d[Len(d)][1] \in DataPacket
        BY <4>1, HeadTail
      <4> QED BY <4>2 DEF DataPacket
    <3>7. d[Len(d)][1].msg < assembled[1].msg
      BY <3>3, <3>4, <3>5, <3>6
    <3>8. r[m - 1] = d[Len(d)] /\ r[m] = assembled
      BY <2>2, <2>4, <3>1
    <3> QED BY <2>1, <3>7, <3>8
  <2>5. m \in 2 .. Len(d) \/ m = Len(d) + 1
    BY <2>1, <2>2
  <2> QED BY <2>3, <2>4, <2>5
<1>4. CASE ~ (AsmDeliver /\ p = asmPort)
  <2>1. delivered'[p] = delivered[p]
    BY <1>4, DeliveredKept, DeliverIs
  <2> QED BY <1>2, <2>1
<1> QED BY <1>3, <1>4

\* A new message is numbered from the end of the one before it.
LEMMA MessageStep ==
    ASSUME TypeInv, IntactInv, MessageInv, [Next]_vars
    PROVE  MessageInv'
<1> DEFINE Numbered(msg, ends) ==
             /\ \A i \in 1 .. Len(msg) : msg[i] = msg[1] + i - 1
             /\ msg[1] > 0 /\ msg[1] - 1 \in ends
             /\ \A e \in ends : e < msg[1] \/ SX!Last(msg) <= e
<1>1. SUFFICES ASSUME NEW p \in Ports, NEW m \in 1 .. Len(messages'[p])
               PROVE  Numbered(messages'[p][m], Ends'[p])
  BY DEF MessageInv
<1>2. \A j \in 1 .. Len(messages[p]) : Numbered(messages[p][j], Ends[p])
  BY DEF MessageInv
<1>3. CASE messages' = messages
  <2> HIDE DEF Numbered
  <2> QED BY <1>2, <1>3, MessagesKept
<1>4. ASSUME NEW q \in Ports, NEW k \in 1 .. MaxFragments, PeerSend(q, k)
      PROVE  Numbered(messages'[p][m], Ends'[p])
  <2> DEFINE old == messages[p]
             msg == [i \in 1 .. k |-> Total[q] + i]
             new == Append(old, msg)
  <2>1. /\ Total[q] \in Nat /\ k \in Nat /\ k >= 1
        /\ Ends' = [Ends EXCEPT ![q] = Ends[q] \cup {Total[q] + k}]
        /\ Total[q] = Sent(q) /\ DOMAIN Ends = Ports
    BY <1>4, MessagesGrow DEF Total, Ends
  <2>2. messages \in [Ports -> Seq(Seq(Nat))] /\ old \in Seq(Seq(Nat))
    BY DEF TypeInv, TypePeer
  <2>3. messages' = [messages EXCEPT ![q] = Append(messages[q], msg)]
    BY <1>4, <2>1 DEF PeerSend
  <2>4. CASE p # q
    <3>1. messages'[p] = old /\ Ends'[p] = Ends[p]
      BY <2>1, <2>2, <2>3, <2>4
    <3> HIDE DEF Numbered
    <3> QED BY <1>2, <3>1
  <2>5. CASE p = q
    <3>1. /\ messages'[p] = new /\ Ends'[p] = Ends[p] \cup {Total[p] + k}
      BY <2>1, <2>2, <2>3, <2>5
    <3>2. /\ msg \in Seq(Nat) /\ Len(msg) = k /\ \A i \in 1 .. k : msg[i] = Total[p] + i
      <4>1. msg \in [1 .. k -> Nat]
        BY <2>1
      <4> QED BY <2>1, <2>5, <4>1
    <3> HIDE DEF msg
    <3>3. /\ Len(new) = Len(old) + 1 /\ Len(old) \in Nat /\ new[Len(old) + 1] = msg
          /\ \A j \in 1 .. Len(old) : new[j] = old[j]
      BY <2>2, <3>2, AppendIs
    <3> HIDE DEF new
    <3>4. Ends[p] \subseteq 0 .. Total[p] /\ Total[p] \in Ends[p]
      BY DEF IntactInv, PeerInv
    <3>5. CASE m \in 1 .. Len(old)
      <4>1. messages'[p][m] = old[m] /\ Numbered(old[m], Ends[p])
        BY <1>2, <3>1, <3>3, <3>5
      <4>2. SX!Last(old[m]) \in Ends[p]
        BY <3>5 DEF Ends
      <4>3. SX!Last(old[m]) <= Total[p] + k
        BY <2>1, <2>5, <3>4, <4>2
      <4>4. Numbered(old[m], Ends'[p])
        BY <3>1, <4>1, <4>3
      <4> QED BY <4>1, <4>4
    <3>6. CASE m = Len(old) + 1
      <4>1. messages'[p][m] = msg
        BY <3>1, <3>3, <3>6
      <4>2. SX!Last(msg) = Total[p] + k /\ msg[1] = Total[p] + 1
        BY <2>1, <3>2 DEF SX!Last
      <4>3. msg[1] - 1 \in Ends'[p] /\ msg[1] > 0
        BY <2>1, <2>5, <3>1, <3>4, <4>2
      <4>4. \A i \in 1 .. Len(msg) : msg[i] = msg[1] + i - 1
        BY <2>1, <2>5, <3>2, <4>2
      <4>5. ASSUME NEW e \in Ends'[p] PROVE e < msg[1] \/ SX!Last(msg) <= e
        BY <2>1, <2>5, <3>1, <3>4, <4>2
      <4> QED BY <4>1, <4>3, <4>4, <4>5
    <3>7. m \in 1 .. Len(old) \/ m = Len(old) + 1
      BY <3>1, <3>3
    <3> QED BY <3>5, <3>6, <3>7
  <2> QED BY <2>4, <2>5
<1> QED BY <1>3, <1>4, MessagesStep

\* Initially there is nothing to say.
LEMMA OrderInit == Init => OrderInv
<1> SUFFICES ASSUME Init PROVE OrderInv
  OBVIOUS
<1>1. Len(<< >>) = 0 /\ 1 .. 0 = {} /\ 2 .. 0 = {}
  OBVIOUS
<1>2. \A p \in Ports : /\ messages[p] = << >> /\ queue[p] = << >> /\ delivered[p] = << >>
                       /\ current_port_sequence[p] = 0
  BY DEF Init
<1>3. /\ net = << >> /\ rxpc = "idle" /\ asmpc = "notStarted" /\ assembled = << >>
      /\ syncs = 0
  BY DEF Init
<1>4. \A p \in Ports : Waiting(p) = {} /\ Consumed(p) = 0 /\ ~ Assembling(p) /\ Taken(p) = 0
  BY <1>1, <1>2, <1>3 DEF Waiting, InHand, Consumed, Assembling, Taken
<1>5. UniqueInv
  BY <1>1, <1>2, <1>3 DEF UniqueInv, Distinct, InHand
<1>6. NewerInv /\ AheadInv
  BY <1>2, <1>4 DEF NewerInv, AheadInv
<1>7. HandedInv
  <2>1. \A p \in Ports : Total[p] = 0
    BY <1>2 DEF Total, Sent
  <2> QED BY <1>2, <1>4, <2>1 DEF HandedInv
<1>8. MessageInv /\ DeliveredInOrder
  BY <1>1, <1>2 DEF MessageInv, DeliveredInOrder
<1>9. syncs <= MaxSyncs /\ NoSync
  BY <1>1, <1>3, RxBoundsAssumption DEF NoSync
<1> QED BY <1>5, <1>6, <1>7, <1>8, <1>9 DEF OrderInv

\* Every step keeps the order.
LEMMA OrderStep ==
    ASSUME MaxPackets < SeqMod, MaxSyncs <= 1, TypeInv, TypeInv', IntactInv, OrderInv,
           [Next]_vars
    PROVE  OrderInv'
<1>1. UniqueInv' /\ syncs' <= MaxSyncs /\ (syncs' = 0 => NoSync')
  BY UniqueStep, SpentStep DEF OrderInv
<1>2. ASSUME AsmPop
      PROVE  PopsNext /\ Head(queue[asmPort]).n > Taken(asmPort)
  <2> DEFINE h == Head(queue[asmPort])
  <2>1. /\ asmPort \in Ports /\ h \in Waiting(asmPort) /\ PopsNext
        /\ h.n = current_port_sequence[asmPort] + 1
    BY <1>2, PopTaken, PopWithinTurn
  <2>2. ~ mutexLeaked /\ asmpc # "aborted"
    BY <1>2 DEF AsmPop, IntactInv, AsmInv
  <2>3. h.n > Taken(asmPort) \/ h.n <= current_port_sequence[asmPort]
    BY <2>1, <2>2 DEF OrderInv, NewerInv
  <2>4. current_port_sequence[asmPort] \in Nat
    BY <2>1, TakenBound DEF OrderInv
  <2> HIDE DEF h
  <2>5. h.n > Taken(asmPort)
    BY <2>1, <2>3, <2>4
  <2> QED BY <2>1, <2>5 DEF h
<1>3. HandedInv'
  BY <1>2, HandedStep DEF OrderInv
<1>4. NewerInv' /\ AheadInv' /\ MessageInv' /\ DeliveredInOrder'
  BY NewerStep, MessageStep, InOrderStep DEF OrderInv
<1> QED BY <1>1, <1>3, <1>4 DEF OrderInv

LEMMA OrderInvariant ==
    ASSUME MaxPackets < SeqMod, MaxSyncs <= 1
    PROVE  Spec => [](TypeInv /\ IntactInv /\ OrderInv)
<1>1. Init => TypeInv /\ IntactInv /\ OrderInv
  BY TypeInit, IntactInit, OrderInit
<1>2. TypeInv /\ IntactInv /\ OrderInv /\ [Next]_vars => (TypeInv /\ IntactInv /\ OrderInv)'
  BY TypeStep, IntactStep, OrderStep
<1> QED BY <1>1, <1>2, PTL DEF Spec

\* Within one turn of the sequence numbers and with at most one sync packet,
\* the messages of a port reach its client in the order the peer sent them and
\* none twice, for any reordering and loss of frames, flushed queues and closed
\* ports: a packet that was passed over is never taken later.
THEOREM MessagesInOrder ==
    ASSUME MaxPackets < SeqMod, MaxSyncs <= 1
    PROVE  Spec => []DeliveredInOrder
<1>1. OrderInv => DeliveredInOrder
  BY DEF OrderInv
<1> QED BY <1>1, OrderInvariant, PTL

-----------------------------------------------------------------------------
(***************************************************************************)
(* The receiving half implements the abstract transport.                   *)
(***************************************************************************)
PacketNumbers(data) == [i \in 1 .. Len(data) |-> data[i].n]
Numbers(d) == [m \in 1 .. Len(d) |-> [i \in 1 .. Len(d[m]) |-> d[m][i].n]]
Handed == [p \in Ports |-> Numbers(delivered[p])]

\* A function on 1 .. n is a sequence of length n.
LEMMA FunctionIsSequence ==
    ASSUME NEW S, NEW n \in Nat, NEW f \in [1 .. n -> S]
    PROVE  f \in Seq(S) /\ Len(f) = n
OBVIOUS

\* The numbers of the packets of a message.
LEMMA PacketNumbersAre ==
    ASSUME NEW data \in Seq(DataPacket)
    PROVE  /\ PacketNumbers(data) \in Seq(Nat) /\ Len(PacketNumbers(data)) = Len(data)
           /\ \A i \in 1 .. Len(data) : PacketNumbers(data)[i] = data[i].n
<1>1. \A i \in 1 .. Len(data) : data[i].n \in Nat
  <2>1. \A i \in 1 .. Len(data) : data[i] \in DataPacket
    OBVIOUS
  <2> QED BY <2>1 DEF DataPacket
<1>2. PacketNumbers(data) \in [1 .. Len(data) -> Nat]
  BY <1>1 DEF PacketNumbers
<1>3. Len(data) \in Nat
  OBVIOUS
<1> QED BY <1>2, <1>3 DEF PacketNumbers

\* The numbers of the packets of some messages.
LEMMA NumbersAre ==
    ASSUME NEW d \in Seq(Seq(DataPacket))
    PROVE  /\ Numbers(d) \in Seq(Seq(Nat)) /\ Len(Numbers(d)) = Len(d)
           /\ \A m \in 1 .. Len(d) : Numbers(d)[m] = PacketNumbers(d[m])
<1>1. Numbers(d) = [m \in 1 .. Len(d) |-> PacketNumbers(d[m])]
  BY DEF Numbers, PacketNumbers
<1>2. \A m \in 1 .. Len(d) : d[m] \in Seq(DataPacket)
  OBVIOUS
<1>3. Numbers(d) \in [1 .. Len(d) -> Seq(Nat)]
  BY <1>1, <1>2, PacketNumbersAre
<1>4. Len(d) \in Nat
  OBVIOUS
<1>5. Numbers(d) \in Seq(Seq(Nat)) /\ Len(Numbers(d)) = Len(d)
  BY <1>3, <1>4, FunctionIsSequence
<1> QED BY <1>1, <1>5

\* One message more.
LEMMA NumbersAppend ==
    ASSUME NEW d \in Seq(Seq(DataPacket)), NEW data \in Seq(DataPacket)
    PROVE  Numbers(Append(d, data)) = Append(Numbers(d), PacketNumbers(data))
<1> DEFINE r == Append(d, data)
<1>1. /\ r \in Seq(Seq(DataPacket)) /\ Len(r) = Len(d) + 1 /\ Len(d) \in Nat
      /\ \A m \in 1 .. Len(d) : r[m] = d[m]
      /\ r[Len(d) + 1] = data
  BY AppendIs
<1> HIDE DEF r
<1>2. Numbers(r) = [m \in 1 .. Len(d) + 1 |-> PacketNumbers(r[m])]
  BY <1>1 DEF Numbers, PacketNumbers
<1>3. /\ Numbers(d) \in Seq(Seq(Nat)) /\ Len(Numbers(d)) = Len(d)
      /\ \A m \in 1 .. Len(d) : Numbers(d)[m] = PacketNumbers(d[m])
      /\ PacketNumbers(data) \in Seq(Nat)
  BY NumbersAre, PacketNumbersAre
<1>4. Append(Numbers(d), PacketNumbers(data)) =
        [m \in 1 .. Len(d) + 1 |-> IF m <= Len(d) THEN Numbers(d)[m] ELSE PacketNumbers(data)]
  <2> DEFINE q == Numbers(d)
             e == PacketNumbers(data)
  <2>1. q \in Seq(Seq(Nat)) /\ e \in Seq(Nat) /\ Len(q) = Len(d)
    BY <1>3
  <2> HIDE DEF q, e
  <2>2. Append(q, e) = [m \in 1 .. Len(q) + 1 |-> IF m <= Len(q) THEN q[m] ELSE e]
    BY <2>1, AppendIsFunction
  <2> QED BY <2>1, <2>2 DEF q, e
<1>5. \A m \in 1 .. Len(d) + 1 :
        PacketNumbers(r[m]) = IF m <= Len(d) THEN Numbers(d)[m] ELSE PacketNumbers(data)
  <2> TAKE m \in 1 .. Len(d) + 1
  <2>1. CASE m <= Len(d)
    <3>1. m \in 1 .. Len(d)
      BY <1>1, <2>1
    <3> QED BY <1>1, <1>3, <2>1, <3>1
  <2>2. CASE ~ (m <= Len(d))
    <3>1. m = Len(d) + 1
      BY <1>1, <2>2
    <3> QED BY <1>1, <2>2, <3>1
  <2> QED BY <2>1, <2>2
<1>6. Numbers(r) = Append(Numbers(d), PacketNumbers(data))
  BY <1>2, <1>4, <1>5
<1> QED BY <1>6 DEF r

\* The two sides of the abstract transport, as this module writes them.
LEMMA Mapping ==
    /\ Transport!Init <=> messages = [p \in Ports |-> << >>]
                           /\ Handed = [p \in Ports |-> << >>]
    /\ Transport!vars = <<messages, Handed>>
    /\ Transport!vars' = <<messages', Handed'>>
BY DEF Transport!Init, Transport!vars, Handed, Numbers

\* Initially nothing was sent and nothing handed over.
LEMMA MapInit == Init => Transport!Init
<1> SUFFICES ASSUME Init PROVE Transport!Init
  OBVIOUS
<1>1. Numbers(<< >>) = << >>
  BY DEF Numbers
<1>2. messages = [p \in Ports |-> << >>] /\ \A p \in Ports : delivered[p] = << >>
  BY DEF Init
<1>3. Handed = [p \in Ports |-> << >>]
  BY <1>1, <1>2 DEF Handed
<1> QED BY <1>2, <1>3, Mapping

\* A step that sends no message and hands none over is invisible.
LEMMA MapStutter ==
    ASSUME messages' = messages, delivered' = delivered
    PROVE  UNCHANGED Transport!vars
<1>1. Handed' = Handed
  BY DEF Handed, Numbers
<1> QED BY <1>1, Mapping

\* The last packet that was handed over, on both levels.
LEMMA LastHanded ==
    ASSUME TypeInv, HandedInv, NEW p \in Ports
    PROVE  Transport!LastPacket(Numbers(delivered[p])) = Consumed(p)
<1> DEFINE d == delivered[p]
           s == Numbers(d)
<1>1. d \in Seq(Seq(DataPacket))
  BY DEF TypeInv, TypeBuffer
<1>2. /\ s \in Seq(Seq(Nat)) /\ Len(s) = Len(d)
      /\ \A m \in 1 .. Len(d) : s[m] = PacketNumbers(d[m])
  BY <1>1, NumbersAre
<1>3. CASE d = << >>
  <2>1. s = << >>
    BY <1>3 DEF Numbers
  <2> QED BY <1>3, <2>1 DEF Transport!LastPacket, Consumed
<1>4. CASE d # << >>
  <2> DEFINE data == d[Len(d)]
  <2>1. SX!Last(d) = data /\ Len(d) \in 1 .. Len(d) /\ data \in Seq(DataPacket)
    BY <1>1, <1>4, LastIn
  <2>2. data # << >>
    BY <1>4, <2>1 DEF HandedInv
  <2>3. SX!Last(data) = data[Len(data)] /\ Len(data) \in 1 .. Len(data)
    BY <2>1, <2>2, LastIn
  <2>4. s[Len(s)] = PacketNumbers(data)
    BY <1>2, <2>1
  <2>5. /\ Len(PacketNumbers(data)) = Len(data)
        /\ PacketNumbers(data)[Len(data)] = data[Len(data)].n
    BY <2>1, <2>3, PacketNumbersAre
  <2>6. s # << >>
    <3>1. Len(<< >>) = 0 /\ Len(s) >= 1
      BY <1>2, <2>1
    <3> QED BY <3>1
  <2> HIDE DEF s, d, data
  <2>7. Transport!LastPacket(s) = data[Len(data)].n
    BY <2>4, <2>5, <2>6 DEF Transport!LastPacket
  <2>8. Consumed(p) = data[Len(data)].n
    BY <1>4, <2>1, <2>3 DEF Consumed, d
  <2> QED BY <2>7, <2>8 DEF s, d
<1> QED BY <1>3, <1>4

\* A message of the peer is Accept.
LEMMA MapAccept ==
    ASSUME TypeInv, NEW p \in Ports, NEW k \in 1 .. MaxFragments, PeerSend(p, k)
    PROVE  Transport!Accept(p)
<1>1. Transport!LastPacket(messages[p]) = Sent(p)
  BY DEF Transport!LastPacket, Sent, SX!Last
<1>2. messages' = [messages EXCEPT ![p] =
                     Append(messages[p], [i \in 1 .. k |-> Sent(p) + i])]
  BY DEF PeerSend
<1>3. Handed' = Handed
  <2>1. delivered' = delivered
    BY DEF PeerSend, NetRest, asmVars
  <2> QED BY <2>1 DEF Handed, Numbers
<1> QED BY <1>1, <1>2, <1>3 DEF Transport!Accept, Handed, Numbers

\* What the assembly thread has put together is one message of the peer.
LEMMA AssembledIsMessage ==
    ASSUME TypeInv, IntactInv, MessageInv, AsmDeliver, NEW p \in Ports, p = asmPort
    PROVE  \E m \in 1 .. Len(messages[p]) : messages[p][m] = PacketNumbers(assembled)
<1> DEFINE l == Len(assembled)
           a == assembled[l]
           b == assembled[1].n
<1>1. /\ asmpc = "deliver" /\ Assembling(p) /\ assembled \in Seq(DataPacket)
      /\ assembled # << >>
  BY DeliverIs DEF AsmDeliver, Assembling
<1>2. l \in Nat /\ l >= 1 /\ l \in 1 .. l /\ 1 \in 1 .. l
  BY <1>1
<1>3. /\ ~ a.more
      /\ \A i \in 1 .. l : /\ assembled[i].port = p /\ Genuine(assembled[i])
                           /\ assembled[i].msg = assembled[1].msg /\ assembled[i].sub = i - 1
  BY <1>1 DEF IntactInv, AsmInv, Started
<1>4. \A i \in 1 .. l : Located(assembled[i], Ends[p], Total[p])
  BY <1>3 DEF Genuine
<1>5. b = assembled[1].msg /\ b \in Nat
  BY <1>1, AssembledEnds
<1>6. \A i \in 1 .. l : assembled[i].n = b + i - 1
  <2> TAKE i \in 1 .. l
  <2>1. /\ assembled[i].n \in Nat /\ assembled[i].sub = assembled[i].n - assembled[i].msg
    BY <1>4 DEF Located
  <2>2. assembled[i].msg = b /\ assembled[i].sub = i - 1
    BY <1>3, <1>5
  <2> HIDE DEF b, l
  <2> QED BY <1>2, <1>5, <2>1, <2>2
<1>7. /\ a.n \in Ends[p] /\ a.n >= 1 /\ b >= 1 /\ b - 1 \in Ends[p]
      /\ \A e \in Ends[p] : e < b \/ a.n <= e
  <2>1. Located(a, Ends[p], Total[p]) /\ a.msg = b
    BY <1>2, <1>3, <1>4, <1>5
  <2> HIDE DEF a, b
  <2> QED BY <1>3, <2>1 DEF Located
<1>8. a.n = b + l - 1
  BY <1>2, <1>6
<1>9. PICK m \in 1 .. Len(messages[p]) : SX!Last(messages[p][m]) = a.n
  <2> HIDE DEF a
  <2> QED BY <1>7 DEF Ends
<1> DEFINE msg == messages[p][m]
<1>10. msg \in Seq(Nat) /\ msg # << >>
  BY DEF TypeInv, TypePeer, SomePackets
<1>11. /\ SX!Last(msg) = msg[Len(msg)] /\ Len(msg) \in 1 .. Len(msg) /\ Len(msg) \in Nat
       /\ msg[1] \in Nat
  BY <1>10, LastIn
<1>12. /\ \A i \in 1 .. Len(msg) : msg[i] = msg[1] + i - 1
       /\ msg[1] > 0 /\ msg[1] - 1 \in Ends[p]
       /\ \A e \in Ends[p] : e < msg[1] \/ SX!Last(msg) <= e
  BY DEF MessageInv
<1>13. PacketNumbers(assembled) = [i \in 1 .. l |-> assembled[i].n]
  BY DEF PacketNumbers
<1>14. SX!Last(msg) = a.n /\ a.n = msg[1] + Len(msg) - 1
  BY <1>9, <1>11, <1>12
<1>15. msg[1] = b
  <2>1. msg[1] - 1 < b \/ a.n <= msg[1] - 1
    BY <1>7, <1>12
  <2>2. b - 1 < msg[1] \/ a.n <= b - 1
    BY <1>7, <1>12, <1>14
  <2>3. Len(msg) >= 1
    BY <1>11
  <2> HIDE DEF a, b, l, msg
  <2> QED BY <1>2, <1>5, <1>8, <1>11, <1>14, <2>1, <2>2, <2>3
<1>16. Len(msg) = l
  <2> HIDE DEF a, b, l, msg
  <2> QED BY <1>2, <1>5, <1>8, <1>11, <1>14, <1>15
<1>17. msg = [i \in 1 .. l |-> assembled[i].n]
  <2>1. msg = [i \in 1 .. Len(msg) |-> msg[i]]
    BY <1>10
  <2>2. \A i \in 1 .. l : msg[i] = assembled[i].n
    BY <1>6, <1>12, <1>15, <1>16
  <2> HIDE DEF msg
  <2> QED BY <1>16, <2>1, <2>2
<1> QED BY <1>13, <1>17

\* Handing a message to the client is Hand.
LEMMA MapHand ==
    ASSUME TypeInv, IntactInv, HandedInv, MessageInv, AsmDeliver, NEW p \in Ports, p = asmPort
    PROVE  Transport!Hand(p)
<1>1. PICK m \in 1 .. Len(messages[p]) : messages[p][m] = PacketNumbers(assembled)
  BY AssembledIsMessage
<1>2. /\ delivered[p] \in Seq(Seq(DataPacket)) /\ assembled \in Seq(DataPacket)
      /\ delivered'[p] = Append(delivered[p], assembled) /\ Assembling(p)
      /\ \A q \in Ports : q # p => delivered'[q] = delivered[q]
      /\ assembled # << >>
  BY DeliverIs DEF Assembling
<1>3. messages[p][m][1] > Consumed(p)
  <2>1. assembled[1].n > Consumed(p)
    BY <1>2 DEF HandedInv
  <2>2. 1 \in 1 .. Len(assembled)
    BY <1>2, HeadTail
  <2> QED BY <1>1, <1>2, <2>1, <2>2, PacketNumbersAre
<1>4. Transport!LastPacket(Handed[p]) = Consumed(p) /\ Handed[p] = Numbers(delivered[p])
  BY LastHanded DEF Handed
<1>5. Handed' = [Handed EXCEPT ![p] = Append(Handed[p], messages[p][m])]
  <2>1. Numbers(delivered'[p]) = Append(Numbers(delivered[p]), PacketNumbers(assembled))
    BY <1>2, NumbersAppend
  <2>2. Handed' = [q \in Ports |-> Numbers(delivered'[q])]
    BY DEF Handed, Numbers
  <2>3. Handed = [q \in Ports |-> Numbers(delivered[q])]
    BY DEF Handed
  <2> QED BY <1>1, <1>2, <1>4, <2>1, <2>2, <2>3
<1>6. messages' = messages
  BY DEF AsmDeliver, AsmRest
<1>7. messages[p][m][1] > Transport!LastPacket(Handed[p])
  BY <1>3, <1>4
<1> QED BY <1>5, <1>6, <1>7 DEF Transport!Hand, Handed, Numbers

\* Every step maps to a step of the abstract transport or to none.
LEMMA MapStep ==
    ASSUME TypeInv, IntactInv, HandedInv, MessageInv, [Next]_vars
    PROVE  [Transport!Next]_(Transport!vars)
<1>1. ASSUME NEW p \in Ports, NEW k \in 1 .. MaxFragments, PeerSend(p, k)
      PROVE  Transport!Next
  BY <1>1, MapAccept DEF Transport!Next
<1>2. CASE AsmDeliver
  BY <1>2, DeliverIs, MapHand DEF Transport!Next
<1>3. CASE messages' = messages /\ ~ AsmDeliver
  BY <1>3, DeliveredKept, MapStutter
<1> QED BY <1>1, <1>2, <1>3, MessagesStep

\* From the peer to the client the receiving half is the abstract transport
\* with losses: what a client is handed are messages the peer sent, whole, in
\* order and none twice, within one turn of the sequence numbers and with at
\* most one sync packet.
THEOREM LossyTransportImplemented ==
    ASSUME MaxPackets < SeqMod, MaxSyncs <= 1
    PROVE  Spec => DeliversInOrder
<1>1. TypeInv /\ IntactInv /\ OrderInv /\ [Next]_vars => [Transport!Next]_(Transport!vars)
  BY MapStep DEF OrderInv
<1> QED BY <1>1, OrderInvariant, MapInit, PTL DEF Spec, DeliversInOrder, Transport!Spec

-----------------------------------------------------------------------------
(***************************************************************************)
(* Any number of turns: the peer is never a whole turn ahead.              *)
(***************************************************************************)
\* Everything that waits is less than a turn ahead of what was taken, so the
\* packet with the number expected is the next one.
LEMMA PopAcrossTurns ==
    ASSUME MaxAhead <= SeqMod, TypeInv, IntactInv, TurnsInv, AsmPop
    PROVE  /\ PopsNext /\ Head(queue[asmPort]).n > Taken(asmPort)
           /\ \A t \in Nat : Reached(asmPort, t) => Head(queue[asmPort]).n = t + 1
<1> DEFINE h == Head(queue[asmPort])
           c == Consumed(asmPort)
           total == Total[asmPort]
<1>1. asmPort \in Ports /\ queue[asmPort] \in Seq(DataPacket) /\ asmpc = "pop"
  BY DEF TypeInv, TypeThreads, TypeBuffer, AsmPop
<1>2. queue[asmPort] # << >>
  BY <1>1, NotEmpty DEF AsmPop
<1>3. h = queue[asmPort][1] /\ 1 \in 1 .. Len(queue[asmPort])
  BY <1>1, <1>2, HeadTail
<1>4. h \in Waiting(asmPort) /\ Located(h, Ends[asmPort], Total[asmPort])
  BY <1>1, <1>3 DEF Waiting, IntactInv, QueueInv, Genuine
<1>5. h.n \in 1 .. total /\ Wrapped(h.n - 1) = current_port_sequence[asmPort]
  BY <1>4 DEF AsmPop, Located
<1>6. total \in Nat /\ c \in 0 .. total /\ total <= c + MaxAhead
  BY <1>1, TakenBound DEF TurnsInv, BacklogInv
<1>7. ASSUME NEW t \in Nat, Reached(asmPort, t) PROVE h.n = t + 1
  <2>1. c <= t /\ h.n > t /\ current_port_sequence[asmPort] = Wrapped(t)
    BY <1>4, <1>7 DEF Reached
  <2> HIDE DEF h, c, total
  <2>2. /\ h.n - 1 \in Nat /\ t <= h.n - 1 /\ h.n - 1 < t + SeqMod
    BY <1>5, <1>6, <2>1, SeqModAssumption, RxBoundsAssumption
  <2>3. t = h.n - 1
    BY <1>5, <2>1, <2>2, WrappedEqual
  <2> QED BY <1>5, <1>6, <2>3
<1>8. PICK t \in Nat : Reached(asmPort, t)
  <2>1. ~ mutexLeaked
    BY <1>1 DEF IntactInv, AsmInv
  <2> QED BY <1>1, <2>1 DEF TurnsInv, FollowsInv
<1>9. h.n = t + 1 /\ c <= t /\ (IF Assembling(asmPort) THEN t = assembled[Len(assembled)].n
                                                      ELSE t \in Ends[asmPort])
  BY <1>7, <1>8 DEF Reached
<1>10. h.n > Taken(asmPort)
  <2> HIDE DEF h
  <2>1. Taken(asmPort) = t \/ Taken(asmPort) = c
    BY <1>9 DEF Taken
  <2> HIDE DEF c
  <2> QED BY <1>6, <1>9, <2>1
<1> HIDE DEF h, c, total
<1>11. ASSUME assembled = << >> PROVE h.n - 1 \in Ends[asmPort]
  <2>1. t \in Ends[asmPort] /\ h.n - 1 = t
    BY <1>9, <1>11 DEF Assembling
  <2> QED BY <2>1
<1>12. ASSUME assembled # << >> PROVE h.n = assembled[Len(assembled)].n + 1
  BY <1>1, <1>9, <1>12 DEF Assembling
<1>13. PopsNext
  BY <1>11, <1>12 DEF PopsNext, h
<1> QED BY <1>7, <1>10, <1>13 DEF h

\* Every step keeps what a port expects next to what was taken.
LEMMA FollowsStep ==
    ASSUME MaxAhead <= SeqMod, TypeInv, IntactInv, TurnsInv, [Next]_vars
    PROVE  FollowsInv'
<1>1. SUFFICES ASSUME ~ mutexLeaked', asmpc' # "aborted", NEW p \in Ports
               PROVE  \E t \in Nat : Reached(p, t)'
  BY DEF FollowsInv
<1>2. ~ mutexLeaked /\ asmpc # "aborted" /\ ~ AsmInconsistent /\ ~ AsmNull
  BY <1>1, HealthKept
<1>3. PICK t \in Nat : Reached(p, t)
  BY <1>2 DEF TurnsInv, FollowsInv
<1>4. /\ Total[p] \in Nat /\ Consumed(p) \in 0 .. Total[p] /\ t <= Total[p]
      /\ Ends[p] \subseteq Ends'[p]
  <2>1. /\ Total[p] \in Nat /\ Consumed(p) \in 0 .. Total[p] /\ Taken(p) \in 0 .. Total[p]
        /\ Ends[p] \subseteq Ends'[p] /\ Ends[p] \subseteq 0 .. Total[p]
    BY TakenBound, StaysGenuine DEF TurnsInv, IntactInv, PeerInv
  <2>2. t = Taken(p) \/ t \in Ends[p]
    BY <1>3 DEF Reached, Taken
  <2> QED BY <2>1, <2>2
<1>5. ASSUME NEW k \in Waiting(p)'
      PROVE  k.n \in Nat /\ (k \in Waiting(p) \/ k.n > Total[p])
  BY WaitingStep, WaitingFacts
<1>6. ASSUME NEW k \in Waiting(p)' PROVE k.n \in Nat /\ k.n > t
  BY <1>3, <1>4, <1>5 DEF Reached
<1>7. CASE AsmPop /\ p = asmPort
  <2> DEFINE h == Head(queue[asmPort])
  <2>1. PopsNext /\ h.n = t + 1
    BY <1>3, <1>7, PopAcrossTurns
  <2>2. /\ h.n \in Nat /\ Assembling(p)' /\ assembled'[Len(assembled')].n = h.n
        /\ current_port_sequence'[p] = Wrapped(h.n) /\ delivered' = delivered
    BY <1>7, <2>1, PopChanges
  <2>3. ASSUME NEW k \in Waiting(p)' PROVE k.n > h.n
    <3>1. k.n # h.n
      BY <1>7, TakenIsGone DEF TurnsInv
    <3> HIDE DEF h
    <3> QED BY <1>6, <2>1, <2>2, <3>1
  <2>4. Consumed(p)' <= h.n
    <3>1. Consumed(p)' = Consumed(p) /\ Consumed(p) <= t
      BY <1>3, <2>2 DEF Consumed, Reached
    <3> HIDE DEF h
    <3> QED BY <1>4, <2>1, <2>2, <3>1
  <2>5. PICK u \in Nat : /\ Consumed(p)' <= u /\ Assembling(p)'
                          /\ u = assembled'[Len(assembled')].n
                          /\ current_port_sequence'[p] = Wrapped(u)
                          /\ \A k \in Waiting(p)' : k.n > u
    BY <2>2, <2>3, <2>4
  <2>6. Reached(p, u)'
    BY <2>5 DEF Reached, Wrapped
  <2> QED BY <2>6
<1>8. CASE ~ (AsmPop /\ p = asmPort)
  <2>1. current_port_sequence'[p] = current_port_sequence[p]
    <3>1. CASE AsmPop
      BY <1>8, <3>1, PopAcrossTurns, PopChanges
    <3>2. CASE AsmStep /\ ~ AsmPop
      BY <3>2 DEF AsmStep, AsmLock, AsmCheck, AsmSleep, AsmNext, AsmTake,
         AsmInconsistent, AsmNull, AsmRecheck, AsmDeliver, AsmDrop, AsmDropNull,
         AsmSendFails
    <3>3. CASE ~ AsmStep
      <4>1. ~ RecvSync
        BY DEF RecvSync, TurnsInv, NoSync
      <4> QED BY <3>3, <4>1, OtherFrame
    <3> QED BY <3>1, <3>2, <3>3
  <2>2. /\ Assembling(p)' => Assembling(p) /\ assembled' = assembled
        /\ Assembling(p) /\ ~ Assembling(p)' => asmpc = "deliver"
        /\ Consumed(p)' = Consumed(p) \/ Consumed(p)' = Taken(p)
    <3>1. CASE AsmPop
      BY <1>8, <3>1, PopAcrossTurns, PopChanges DEF Consumed
    <3>2. CASE ~ AsmPop
      BY <1>2, <3>2, TakenKept DEF IntactInv
    <3> QED BY <3>1, <3>2
  <2>3. Consumed(p)' <= t
    <3>1. Consumed(p) <= t /\ (Taken(p) = t \/ Taken(p) = Consumed(p))
      BY <1>3 DEF Reached, Taken
    <3> QED BY <1>4, <2>2, <3>1
  <2>4. CASE Assembling(p) /\ ~ Assembling(p)'
    <3> DEFINE a == assembled[Len(assembled)]
    <3>1. Len(assembled) \in 1 .. Len(assembled)
      BY <2>4 DEF Assembling, TypeInv, TypeBuffer
    <3>2. a.port = p /\ Genuine(a) /\ ~ a.more
      BY <2>2, <2>4, <3>1 DEF Assembling, IntactInv, AsmInv
    <3>3. a.n = t
      BY <1>3, <2>4 DEF Reached
    <3>4. t \in Ends'[p]
      BY <1>4, <3>2, <3>3 DEF Genuine, Located
    <3>5. Reached(p, t)'
      BY <1>3, <1>6, <2>1, <2>3, <2>4, <3>4 DEF Reached, Wrapped
    <3> QED BY <3>5
  <2>5. CASE Assembling(p)' \/ ~ Assembling(p)
    <3>1. IF Assembling(p)' THEN t = assembled'[Len(assembled')].n ELSE t \in Ends'[p]
      BY <1>3, <1>4, <2>2, <2>5 DEF Reached
    <3>2. Reached(p, t)'
      BY <1>3, <1>6, <2>1, <2>3, <3>1 DEF Reached, Wrapped
    <3> QED BY <3>2
  <2> QED BY <2>4, <2>5
<1> QED BY <1>7, <1>8

\* The peer waits for its client, and a client is handed whole messages.
LEMMA BacklogStep ==
    ASSUME TypeInv, IntactInv, HandedInv, BacklogInv, [Next]_vars
    PROVE  BacklogInv'
<1>1. SUFFICES ASSUME NEW p \in Ports
               PROVE  /\ Consumed(p)' \in Ends'[p]
                      /\ Total'[p] <= Consumed(p)' + MaxAhead
  BY DEF BacklogInv
<1>2. /\ Total[p] \in Nat /\ Consumed(p) \in Nat /\ MaxAhead \in Nat
      /\ Consumed(p) \in Ends[p] /\ Total[p] <= Consumed(p) + MaxAhead
      /\ Ends[p] \subseteq Ends'[p]
  BY TakenBound, StaysGenuine, RxBoundsAssumption DEF BacklogInv, IntactInv
<1>3. CASE AsmDeliver /\ p = asmPort
  <2>1. delivered'[p] # << >> /\ SX!Last(delivered'[p]) = assembled /\ Assembling(p)
    BY <1>3, DeliverIs
  <2> DEFINE a == SX!Last(assembled)
  <2>2. /\ assembled # << >> /\ a = assembled[Len(assembled)] /\ a.n \in 1 .. Total[p]
        /\ assembled[1].n <= a.n /\ assembled[1].n \in Nat /\ assembled \in Seq(DataPacket)
    BY <2>1, AssembledEnds
  <2>3. a.port = p /\ Genuine(a) /\ ~ a.more
    <3>1. Len(assembled) \in 1 .. Len(assembled)
      BY <2>2
    <3> QED BY <1>3, <2>2, <3>1 DEF AsmDeliver, IntactInv, AsmInv
  <2>4. a.n \in Ends[p]
    BY <2>3 DEF Genuine, Located
  <2>5. Consumed(p)' = a.n
    BY <2>1 DEF Consumed
  <2>6. assembled[1].n > Consumed(p)
    BY <2>1 DEF HandedInv
  <2>7. Total'[p] = Total[p]
    <3>1. messages' = messages
      BY <1>3 DEF AsmDeliver, AsmRest
    <3> QED BY <3>1, MessagesKept
  <2> HIDE DEF a
  <2> QED BY <1>2, <2>2, <2>4, <2>5, <2>6, <2>7
<1>4. CASE ~ (AsmDeliver /\ p = asmPort)
  <2>1. delivered'[p] = delivered[p]
    BY <1>4, DeliveredKept, DeliverIs
  <2>2. Consumed(p)' = Consumed(p)
    BY <2>1 DEF Consumed
  <2>3. CASE messages' = messages
    <3>1. Total' = Total
      BY <2>3, MessagesKept
    <3> QED BY <1>2, <2>2, <3>1
  <2>4. ASSUME NEW q \in Ports, NEW k \in 1 .. MaxFragments, PeerSend(q, k)
        PROVE  Total'[p] <= Consumed(p) + MaxAhead
    <3>1. /\ Total[q] + k <= Consumed(q) + MaxAhead
      BY <2>4 DEF PeerSend, Total
    <3>2. Total' = [Total EXCEPT ![q] = Total[q] + k] /\ DOMAIN Total = Ports
      BY <2>4, MessagesGrow DEF Total
    <3> QED BY <1>2, <3>1, <3>2
  <2> QED BY <1>2, <2>2, <2>3, <2>4, MessagesStep
<1> QED BY <1>3, <1>4

\* Initially there is nothing to say.
LEMMA TurnsInit == Init => TurnsInv
<1> SUFFICES ASSUME Init PROVE TurnsInv
  OBVIOUS
<1>1. OrderInv
  BY OrderInit
<1>2. Len(<< >>) = 0 /\ 1 .. 0 = {}
  OBVIOUS
<1>3. \A p \in Ports : /\ messages[p] = << >> /\ queue[p] = << >> /\ delivered[p] = << >>
                       /\ current_port_sequence[p] = 0
  BY DEF Init
<1>4. net = << >> /\ rxpc = "idle" /\ asmpc = "notStarted" /\ syncs = 0
  BY DEF Init
<1>5. \A p \in Ports : Waiting(p) = {} /\ Consumed(p) = 0 /\ Taken(p) = 0
  BY <1>2, <1>3, <1>4 DEF Waiting, InHand, Consumed, Assembling, Taken
<1>6. \A p \in Ports : 0 \in Ends[p] /\ Total[p] = 0
  BY <1>3 DEF Ends, Total, Sent
<1>7. FollowsInv
  <2>1. Wrapped(0) = 0
    BY SeqModAssumption, WrappedSmall
  <2>2. ASSUME NEW p \in Ports PROVE Reached(p, 0)
    BY <1>3, <1>4, <1>5, <1>6, <2>1, <2>2 DEF Reached, Assembling
  <2> QED BY <2>2 DEF FollowsInv
<1>8. BacklogInv
  BY <1>5, <1>6, RxBoundsAssumption DEF BacklogInv
<1> QED BY <1>1, <1>4, <1>7, <1>8 DEF TurnsInv, OrderInv

\* Every step keeps both invariants.
LEMMA TurnsStep ==
    ASSUME MaxSyncs = 0, MaxAhead <= SeqMod, TypeInv, TypeInv', IntactInv, TurnsInv,
           [Next]_vars
    PROVE  IntactInv' /\ TurnsInv'
<1>1. ASSUME AsmPop
      PROVE  PopsNext /\ Head(queue[asmPort]).n > Taken(asmPort)
  BY <1>1, PopAcrossTurns
<1>2. IntactInv'
  BY <1>1, IntactKept
<1>3. syncs' = 0 /\ ~ PeerSync
  BY SyncsStep DEF TurnsInv
<1>4. NoSync'
  BY <1>3, NoSyncKept DEF TurnsInv
<1>5. UniqueInv'
  <2>1. MaxSyncs <= 1
    OBVIOUS
  <2> QED BY <2>1, UniqueStep DEF TurnsInv
<1>6. HandedInv'
  BY <1>1, HandedStep DEF TurnsInv
<1>7. FollowsInv' /\ BacklogInv' /\ MessageInv' /\ DeliveredInOrder'
  BY FollowsStep, BacklogStep, MessageStep, InOrderStep DEF TurnsInv
<1> QED BY <1>2, <1>3, <1>4, <1>5, <1>6, <1>7 DEF TurnsInv

LEMMA TurnsInvariant ==
    ASSUME MaxSyncs = 0, MaxAhead <= SeqMod
    PROVE  Spec => [](TypeInv /\ IntactInv /\ TurnsInv)
<1>1. Init => TypeInv /\ IntactInv /\ TurnsInv
  BY TypeInit, IntactInit, TurnsInit
<1>2. TypeInv /\ IntactInv /\ TurnsInv /\ [Next]_vars => (TypeInv /\ IntactInv /\ TurnsInv)'
  BY TypeStep, TurnsStep
<1> QED BY <1>1, <1>2, PTL DEF Spec

\* However often the sequence numbers wrap, the messages of a port reach its
\* client in the order the peer sent them and none twice, as long as the peer
\* is at most as many packets ahead of the client as there are numbers and no
\* sync packet comes, for any reordering and loss of frames, flushed queues
\* and closed ports.
THEOREM MessagesInOrderAcrossTurns ==
    ASSUME MaxSyncs = 0, MaxAhead <= SeqMod
    PROVE  Spec => []DeliveredInOrder
<1>1. TurnsInv => DeliveredInOrder
  BY DEF TurnsInv
<1> QED BY <1>1, TurnsInvariant, PTL

\* Under the same conditions every message that is handed over is whole: no
\* packet of a later turn is taken for the one that is missing.
THEOREM MessagesIntactAcrossTurns ==
    ASSUME MaxSyncs = 0, MaxAhead <= SeqMod
    PROVE  Spec => []DeliveredIntact
<1>1. IntactInv => DeliveredIntact
  BY DEF IntactInv
<1> QED BY <1>1, TurnsInvariant, PTL

\* And the receiving half is the abstract transport with losses for any
\* number of packets.
THEOREM LossyTransportAcrossTurns ==
    ASSUME MaxSyncs = 0, MaxAhead <= SeqMod
    PROVE  Spec => DeliversInOrder
<1>1. TypeInv /\ IntactInv /\ TurnsInv /\ [Next]_vars => [Transport!Next]_(Transport!vars)
  BY MapStep DEF TurnsInv
<1> QED BY <1>1, TurnsInvariant, MapInit, PTL DEF Spec, DeliversInOrder, Transport!Spec

-----------------------------------------------------------------------------
(***************************************************************************)
(* No complete message is overlooked.                                      *)
(***************************************************************************)
\* Without sync packets every step that completes a message is followed by the
\* step that announces it.
LEMMA AnnouncedStep ==
    ASSUME TypeInv, AnnouncedInv, ~ RecvSync, [Next]_vars
    PROVE  AnnouncedInv'
<1>0. /\ queue \in [Ports -> Seq(DataPacket)] /\ asmPort \in Ports
      /\ available_messages \subseteq Ports
      /\ current_port_sequence \in [Ports -> SeqNums]
  BY DEF TypeInv, TypeBuffer, TypeThreads, TypeModule
<1>1. CASE PeerStep \/ RecvFrame \/ RecvPort \/ CallbackStuck \/ StartModule
              \/ PortStep \/ UNCHANGED vars
           \/ (FlushStep /\ ~ FlushClear)
  <2>1. /\ UNCHANGED <<queue, current_port_sequence, available_messages, mutexLeaked, asmPort>>
        /\ asmpc' = asmpc \/ (asmpc' = "lock" /\ asmpc \in {"waiting", "notStarted"})
        /\ rxpc = "complete" => rxpc' = "complete" /\ frame' = frame
    <3>1. CASE PeerStep
      BY <3>1, PeerFrame DEF bufVars, asmVars
    <3>2. CASE RecvFrame \/ RecvPort \/ CallbackStuck \/ StartModule \/ UNCHANGED vars
      BY <3>2 DEF RecvFrame, RecvPort, CallbackStuck, StartModule, RxRest, vars,
           bufVars, asmVars
    <3>3. CASE PortStep
      BY <3>3, PortFrame DEF bufVars, asmVars
    <3>4. CASE FlushStep /\ ~ FlushClear
      BY <3>4 DEF FlushStep, FlushQueues, FlushTest, FlushPeek, FlushDone, FlushRest,
           RxRest, bufVars, asmVars
    <3> QED BY <1>1, <3>1, <3>2, <3>3, <3>4
  <2> QED BY <2>1 DEF AnnouncedInv, Complete
<1>2. CASE RecvWrite \/ RecvCompare
  <2>1. /\ UNCHANGED <<current_port_sequence, available_messages, mutexLeaked, asmPort, asmpc,
                       frame>>
        /\ rxpc # "complete" /\ frame \in DataPacket
        /\ queue' = queue \/ (rxpc' = "complete"
                              /\ \E x : queue' = [queue EXCEPT ![frame.port] = x])
    BY <1>2 DEF RecvWrite, RecvCompare, RxRest, bufVars, asmVars, TypeInv, TypeFrame
  <2>2. ASSUME NEW p \in Ports, Complete(p)'
        PROVE  \/ p \in available_messages' \/ mutexLeaked'
               \/ rxpc' = "complete" /\ frame'.port = p
    <3>1. CASE queue'[p] = queue[p]
      BY <2>1, <2>2, <3>1 DEF AnnouncedInv, Complete
    <3>2. CASE queue'[p] # queue[p]
      <4>1. p = frame.port /\ rxpc' = "complete"
        BY <1>0, <2>1, <3>2
      <4> QED BY <2>1, <4>1
    <3> QED BY <3>1, <3>2
  <2> QED BY <2>1, <2>2 DEF AnnouncedInv
<1>3. CASE RecvComplete
  <2>1. /\ UNCHANGED <<current_port_sequence, queue, mutexLeaked, asmPort>>
        /\ available_messages' = (IF Complete(frame.port) THEN available_messages \cup {frame.port}
                                                          ELSE available_messages)
        /\ asmpc' = asmpc \/ (asmpc' = "lock" /\ asmpc = "waiting")
    BY <1>3 DEF RecvComplete, RxRest, bufVars, asmVars, Signalled, Complete
  <2>2. \A p \in Ports : Complete(p)' = Complete(p)
    BY <2>1 DEF Complete
  <2> QED BY <2>1, <2>2 DEF AnnouncedInv
<1>4. CASE FlushClear
  <2>1. /\ UNCHANGED <<current_port_sequence, available_messages, mutexLeaked, asmPort, asmpc>>
        /\ queue' = [queue EXCEPT ![Lowest(flushPorts)] = << >>] /\ rxpc = "flushClear"
    BY <1>4 DEF FlushClear, FlushRest, RxRest, bufVars, asmVars
  <2>2. ASSUME NEW p \in Ports, Complete(p)'
        PROVE  p \in available_messages' \/ mutexLeaked'
    <3>1. queue'[p] = queue[p] \/ queue'[p] = << >>
      BY <1>0, <2>1
    <3>2. queue'[p] # << >>
      <4>1. Len(<< >>) = 0 /\ 1 .. 0 = {}
        OBVIOUS
      <4> QED BY <2>2, <4>1 DEF Complete, CompleteMessage
    <3> QED BY <2>1, <2>2, <3>1, <3>2 DEF AnnouncedInv, Complete
  <2> QED BY <2>1, <2>2 DEF AnnouncedInv
<1>5. CASE AsmStep
  <2>1. UNCHANGED <<rxpc, frame>>
    BY <1>5 DEF AsmStep, AsmLock, AsmCheck, AsmSleep, AsmNext, AsmTake, AsmPop,
         AsmInconsistent, AsmNull, AsmRecheck, AsmDeliver, AsmDrop, AsmDropNull,
         AsmSendFails, AsmRest
  <2>2. CASE AsmLock \/ AsmCheck \/ AsmSleep \/ AsmNext \/ AsmNull \/ AsmDeliver
                \/ AsmDrop \/ AsmDropNull \/ AsmSendFails
    <3>1. UNCHANGED <<queue, current_port_sequence, available_messages, mutexLeaked>>
          /\ asmpc' \notin {"pop", "recheck"}
      BY <2>2 DEF AsmLock, AsmCheck, AsmSleep, AsmNext, AsmNull, AsmDeliver, AsmDrop,
           AsmDropNull, AsmSendFails, bufVars, asmVars
    <3> QED BY <2>1, <3>1 DEF AnnouncedInv, Complete
  <2>3. CASE AsmTake
    <3>1. /\ UNCHANGED <<queue, current_port_sequence, available_messages, mutexLeaked>>
          /\ asmPort' = Lowest(available_messages) /\ asmpc = "take"
      BY <2>3 DEF AsmTake, bufVars
    <3>2. Lowest(available_messages) \in available_messages
      BY <1>0, <3>1, LowestIn, RxPortsAssumption DEF TypeInv, CountInv
    <3> QED BY <2>1, <3>1, <3>2 DEF AnnouncedInv, Complete
  <2>4. CASE AsmPop \/ AsmInconsistent
    <3>1. /\ asmpc = "pop" /\ UNCHANGED <<available_messages, asmPort>>
          /\ queue' = [queue EXCEPT ![asmPort] = Tail(queue[asmPort])]
      BY <2>4 DEF AsmPop, AsmInconsistent, Popped
    <3>2. \/ mutexLeaked'
          \/ /\ mutexLeaked' = mutexLeaked
             /\ \E x : current_port_sequence' = [current_port_sequence EXCEPT ![asmPort] = x]
      BY <2>4 DEF AsmPop, AsmInconsistent
    <3>3. asmPort \in available_messages
      BY <3>1 DEF AnnouncedInv
    <3>4. ASSUME NEW p \in Ports, Complete(p)'
          PROVE  \/ p \in available_messages' \/ mutexLeaked'
                 \/ rxpc' = "complete" /\ frame'.port = p
      <4>1. CASE p = asmPort
        BY <3>1, <3>3, <4>1
      <4>2. CASE p # asmPort /\ ~ mutexLeaked'
        <5>1. queue'[p] = queue[p] /\ current_port_sequence'[p] = current_port_sequence[p]
          BY <1>0, <3>1, <3>2, <4>2
        <5> QED BY <2>1, <3>1, <3>2, <3>4, <4>2, <5>1 DEF AnnouncedInv, Complete
      <4> QED BY <4>1, <4>2
    <3> QED BY <3>1, <3>3, <3>4 DEF AnnouncedInv
  <2>5. CASE AsmRecheck
    <3>1. /\ UNCHANGED <<queue, current_port_sequence, mutexLeaked, asmPort>>
          /\ available_messages' = (IF Complete(asmPort) THEN available_messages \cup {asmPort}
                                                         ELSE available_messages \ {asmPort})
          /\ asmpc' = "deliver"
      BY <2>5 DEF AsmRecheck, bufVars, asmVars, Complete
    <3>2. \A p \in Ports : Complete(p)' = Complete(p)
      BY <3>1 DEF Complete
    <3> QED BY <1>0, <2>1, <3>1, <3>2 DEF AnnouncedInv
  <2> QED BY <1>5, <2>2, <2>3, <2>4, <2>5 DEF AsmStep
<1> QED BY <1>1, <1>2, <1>3, <1>4, <1>5, Steps DEF FlushStep

\* Initially nothing is complete, and no sync packet is on the way.
LEMMA AnnouncedInit == Init => AnnouncedInv /\ syncs = 0 /\ NoSync
<1> SUFFICES ASSUME Init PROVE AnnouncedInv /\ syncs = 0 /\ NoSync
  OBVIOUS
<1>1. Len(<< >>) = 0 /\ 1 .. 0 = {}
  OBVIOUS
<1>2. \A p \in Ports : queue[p] = << >>
  BY DEF Init
<1>3. \A p \in Ports : ~ Complete(p)
  BY <1>1, <1>2 DEF Complete, CompleteMessage
<1>4. asmpc = "notStarted" /\ syncs = 0 /\ rxpc = "idle" /\ net = << >>
  BY DEF Init
<1> QED BY <1>1, <1>3, <1>4 DEF AnnouncedInv, NoSync

\* If the peer sends no sync packet there is none.
LEMMA NoSyncStep ==
    ASSUME MaxSyncs = 0, TypeInv, syncs = 0, NoSync, [Next]_vars
    PROVE  syncs' = 0 /\ NoSync' /\ ~ RecvSync
<1>1. ~ PeerSync /\ syncs' = 0
  BY SyncsStep
<1>2. ~ RecvSync
  BY DEF RecvSync, NoSync
<1> QED BY <1>1, <1>2, NoSyncKept

\* What WithinTurnCompletes calls a whole message, whose numbers do not wrap,
\* is what isCompleteMessageForPortAvailable looks for.
LEMMA WholeIsComplete ==
    ASSUME TypeInv, NEW p \in Ports, NEW k \in 1 .. Len(queue[p]),
           current_port_sequence[p] + k <= SeqMod, WholeMessage(p, k)
    PROVE  Complete(p)
<1> DEFINE c == current_port_sequence[p]
<1>1. c \in Nat /\ k \in Nat /\ k >= 1 /\ c + k <= SeqMod
  BY SeqModAssumption DEF TypeInv, TypeModule, TypeBuffer, SeqNums
<1>2. /\ ~ queue[p][k].more
      /\ \A j \in 1 .. k : /\ queue[p][j].sub = j - 1
                           /\ queue[p][j].seq = (c + j - 1) % SeqMod
  BY DEF WholeMessage
<1>3. ASSUME NEW j \in 1 .. k PROVE (c + j - 1) % SeqMod = c + (j - 1)
  <2> HIDE DEF c
  <2>1. c + j - 1 \in 0 .. SeqMod - 1 /\ c + j - 1 = c + (j - 1)
    BY <1>1, SeqModAssumption
  <2> QED BY <2>1, SeqModAssumption
<1>4. k \in 1 .. k
  BY <1>1
<1> QED BY <1>2, <1>3, <1>4 DEF Complete, CompleteMessage

\* Without sync packets no complete message is overlooked, for any number of
\* turns of the sequence numbers, losses, reordered frames, flushed queues and
\* closed ports: whatever completes a message is followed by the test of
\* isCompleteMessageForPortAvailable before the callback thread takes the next
\* frame or the assembly thread releases rx_mutex.
THEOREM NothingOverlooked ==
    ASSUME MaxSyncs = 0
    PROVE  Spec => []WithinTurnCompletes
<1> DEFINE Inv == TypeInv /\ AnnouncedInv /\ syncs = 0 /\ NoSync
<1>1. Init => Inv
  BY TypeInit, AnnouncedInit
<1>2. Inv /\ [Next]_vars => Inv'
  BY TypeStep, AnnouncedStep, NoSyncStep
<1>3. Inv => WithinTurnCompletes
  BY WholeIsComplete DEF AnnouncedInv, WithinTurnCompletes, RxMutexFree
<1> QED BY <1>1, <1>2, <1>3, PTL DEF Spec

-----------------------------------------------------------------------------
(***************************************************************************)
(* What is announced is there, or something disturbed it.                  *)
(***************************************************************************)
\* The packets that the assembly thread has yet to take
Rest(q, cur) ==
    \E k \in 1 .. Len(q) : /\ ~ q[k].more
                           /\ \A j \in 1 .. k : q[j].seq = cur + (j - 1)

\* What the assembly thread is taking is settled when it is done
StaleInv ==
    /\ asmpc # "aborted" =>
         \A p \in available_messages \ disturbed : Complete(p) \/ Settling(p)
    /\ asmpc = "pop" =>
         \/ asmPort \in disturbed
         \/ Rest(queue[asmPort], current_port_sequence[asmPort])
    /\ asmpc \in {"pop", "recheck"} => ~ mutexLeaked
    /\ mutexLeaked => asmPort \in disturbed
    /\ asmpc = "aborted" => asmPort \in disturbed \/ Len(queue[asmPort]) >= SizeMod

\* Nothing is complete in an empty queue.
LEMMA NothingInEmpty ==
    ASSUME NEW p \in Ports, queue[p] = << >>
    PROVE  ~ Complete(p) /\ ~ Rest(queue[p], current_port_sequence[p])
<1>1. Len(<< >>) = 0 /\ 1 .. 0 = {}
  OBVIOUS
<1> QED BY <1>1 DEF Complete, CompleteMessage, Rest

\* A packet of lower priority than the k-th stays behind the first k.
LEMMA PushBehind ==
    ASSUME NEW S, NEW q \in Seq(S), NEW e \in S, NEW offset, NEW k \in 1 .. Len(q),
           Before(q[k], e, offset)
    PROVE  /\ k \in 1 .. Len(Push(q, e, offset))
           /\ \A j \in 1 .. k : Push(q, e, offset)[j] = q[j]
<1>1. CASE IsFull(q)
  BY <1>1 DEF Push
<1>2. CASE ~ IsFull(q)
  <2>1. PICK s \in 0 .. Len(q) : /\ s = Slot(q, e, offset)
                                 /\ \A j \in s + 1 .. Len(q) : ~ Before(q[j], e, offset)
    BY SlotExists
  <2>2. Push(q, e, offset) = InsertAfter(q, s, e)
    BY <1>2, <2>1 DEF Push
  <2>3. k <= s
    <3>1. k \notin s + 1 .. Len(q)
      BY <2>1
    <3> QED BY <3>1
  <2>4. Len(InsertAfter(q, s, e)) = Len(q) + 1
    BY InsertAfterType
  <2>5. \A j \in 1 .. k : InsertAfter(q, s, e)[j] = q[j]
    BY <2>3 DEF InsertAfter
  <2> QED BY <2>2, <2>4, <2>5
<1> QED BY <1>1, <1>2

\* A packet of another number goes behind a complete message.
LEMMA CompletePushed ==
    ASSUME TypeInv, RecvCompare, NEW p \in Ports, p = frame.port, Complete(p),
           p \notin disturbed'
    PROVE  Complete(p)'
<1> DEFINE q == queue[p]
           c == current_port_sequence[p]
           r == Push(q, frame, c)
<1>1. /\ q \in Seq(DataPacket) /\ frame \in DataPacket /\ rxpc = "compare"
      /\ queue \in [Ports -> Seq(DataPacket)] /\ c \in SeqNums
  BY DEF RecvCompare, TypeInv, TypeFrame, TypeBuffer, TypeModule
<1>2. PICK k \in 1 .. Len(q) :
        /\ ~ q[k].more /\ q[k].sub = k - 1
        /\ \A j \in 1 .. k : /\ q[j].seq = c + (j - 1)
                             /\ q[j].more => q[j].sub = j - 1
  BY DEF Complete, CompleteMessage
<1>3. /\ queue'[p] = r /\ current_port_sequence'[p] = c
      /\ \A i \in 1 .. Len(q) : q[i].seq # frame.seq
  BY <1>1 DEF RecvCompare
<1>4. k \in 1 .. k /\ k \in Nat /\ k >= 1 /\ \A j \in 1 .. k : j \in 1 .. Len(q) /\ j \in Nat
  BY <1>1, <1>2
<1>5. frame.seq \in SeqNums
  BY <1>1 DEF DataPacket
<1>6. q[k].seq = c + (k - 1) /\ c + (k - 1) \in SeqNums
  <2>1. q[k] \in DataPacket
    BY <1>1, <1>2
  <2>2. q[k].seq \in SeqNums
    BY <2>1 DEF DataPacket
  <2> QED BY <1>2, <1>4, <2>2
<1>7. \A j \in 1 .. k : frame.seq # c + (j - 1)
  BY <1>2, <1>3, <1>4
<1> HIDE DEF q, c, r
<1> DEFINE s == frame.seq
<1>8. s \in SeqNums /\ \A j \in 1 .. k : s # c + (j - 1)
  BY <1>5, <1>7
<1> HIDE DEF s
<1>9. ~ (s >= c /\ s <= c + (k - 1))
  <2> SUFFICES ASSUME s >= c, s <= c + (k - 1) PROVE FALSE
    OBVIOUS
  <2>1. s - c + 1 \in 1 .. k /\ s = c + ((s - c + 1) - 1)
    BY <1>1, <1>4, <1>8, SeqModAssumption DEF SeqNums
  <2> QED BY <1>8, <2>1
<1>10. Rel(c + (k - 1), c) < Rel(s, c)
  BY <1>1, <1>4, <1>6, <1>8, <1>9, SeqModAssumption DEF SeqNums, Rel
<1>11. Before(q[k], frame, c)
  BY <1>6, <1>10 DEF Before, s
<1>12. k \in 1 .. Len(r) /\ \A j \in 1 .. k : r[j] = q[j]
  BY <1>1, <1>2, <1>11, PushBehind DEF r
<1>13. /\ k \in 1 .. Len(queue'[p]) /\ ~ queue'[p][k].more /\ queue'[p][k].sub = k - 1
       /\ \A j \in 1 .. k : /\ queue'[p][j].seq = current_port_sequence'[p] + (j - 1)
                            /\ queue'[p][j].more => queue'[p][j].sub = j - 1
  BY <1>2, <1>3, <1>4, <1>12
<1> QED BY <1>13 DEF Complete, CompleteMessage

\* As long as the rest of the message is there, the assembly thread neither
\* finds a wrong number nor an empty queue that is not a full turn of the
\* counter.
LEMMA PopFindsPacket ==
    ASSUME TypeInv, StaleInv, asmpc = "pop", asmPort \notin disturbed
    PROVE  ~ AsmInconsistent /\ (AsmNull => Len(queue[asmPort]) >= SizeMod)
<1> DEFINE q == queue[asmPort]
           c == current_port_sequence[asmPort]
<1>1. q \in Seq(DataPacket) /\ asmPort \in Ports /\ c \in Nat
  BY SeqModAssumption DEF TypeInv, TypeBuffer, TypeThreads, TypeModule, SeqNums
<1>2. PICK k \in 1 .. Len(q) : \A j \in 1 .. k : q[j].seq = c + (j - 1)
  BY DEF StaleInv, Rest
<1>3. Len(q) \in Nat /\ Len(q) >= 1 /\ 1 \in 1 .. k
  BY <1>1, <1>2
<1>4. q # << >>
  <2>1. Len(<< >>) = 0
    OBVIOUS
  <2> QED BY <1>3, <2>1
<1>5. Head(q).seq = c
  <2>1. q[1].seq = c + (1 - 1)
    BY <1>2, <1>3
  <2>2. Head(q) = q[1]
    BY <1>1, <1>4, HeadTail
  <2> QED BY <1>1, <2>1, <2>2
<1>6. IsEmpty(q) => Len(q) >= SizeMod
  <2> DEFINE l == Len(q)
  <2>1. l \in Nat /\ l >= 1
    BY <1>3
  <2> HIDE DEF l
  <2>2. l < SizeMod => l % SizeMod = l
    BY <2>1, SizeModAssumption
  <2>3. l % SizeMod = 0 => l >= SizeMod
    BY <2>1, <2>2, SizeModAssumption
  <2> QED BY <2>3 DEF IsEmpty, Size, l
<1> QED BY <1>5, <1>6 DEF AsmInconsistent, AsmNull

\* When a fragment with more to come was taken, the rest of the message is
\* still there.
LEMMA RestStep ==
    ASSUME TypeInv, StaleInv, AsmPop, asmpc' = "pop", asmPort \notin disturbed
    PROVE  Rest(queue[asmPort], current_port_sequence[asmPort])'
<1> DEFINE q == queue[asmPort]
           c == current_port_sequence[asmPort]
           r == Tail(q)
<1>1. /\ q \in Seq(DataPacket) /\ asmPort \in Ports /\ c \in SeqNums
      /\ queue \in [Ports -> Seq(DataPacket)] /\ current_port_sequence \in [Ports -> SeqNums]
  BY DEF TypeInv, TypeBuffer, TypeThreads, TypeModule
<1>2. PICK k \in 1 .. Len(q) : /\ ~ q[k].more
                               /\ \A j \in 1 .. k : q[j].seq = c + (j - 1)
  BY DEF StaleInv, Rest, AsmPop
<1>3. q # << >>
  BY <1>1, NotEmpty DEF AsmPop
<1>4. /\ Head(q) = q[1] /\ Len(r) = Len(q) - 1 /\ Len(q) \in Nat
      /\ \A i \in 1 .. Len(q) - 1 : r[i] = q[i + 1]
  BY <1>1, <1>3, HeadTail
<1>5. Head(q).more
  BY DEF AsmPop
<1>6. k # 1 /\ k \in Nat /\ k >= 2 /\ 2 \in 1 .. k /\ 2 \in 1 .. Len(q)
  BY <1>2, <1>4, <1>5
<1>7. c \in Nat /\ Inc(c) = c + 1
  <2>1. q[2].seq \in SeqNums
    <3>1. q[2] \in DataPacket
      BY <1>1, <1>6
    <3> QED BY <3>1 DEF DataPacket
  <2>2. q[2].seq = c + 1
    BY <1>1, <1>2, <1>6, SeqModAssumption DEF SeqNums
  <2> HIDE DEF c
  <2> QED BY <1>1, <2>1, <2>2, SeqModAssumption DEF SeqNums, Inc
<1>8. queue'[asmPort] = r /\ asmPort' = asmPort /\ current_port_sequence'[asmPort] = Inc(c)
  BY <1>1 DEF AsmPop, Popped
<1> HIDE DEF q, c, r
<1>9. k - 1 \in 1 .. Len(r) /\ ~ r[k - 1].more
  <2>1. k - 1 \in 1 .. Len(q) - 1
    BY <1>2, <1>4, <1>6
  <2>2. r[k - 1] = q[(k - 1) + 1] /\ (k - 1) + 1 = k
    BY <1>2, <1>4, <2>1
  <2> QED BY <1>2, <1>4, <2>1, <2>2
<1>10. ASSUME NEW j \in 1 .. k - 1 PROVE r[j].seq = (c + 1) + (j - 1)
  <2>1. j \in 1 .. Len(q) - 1 /\ j + 1 \in 1 .. k /\ j \in Nat
    BY <1>2, <1>4
  <2>2. r[j] = q[j + 1] /\ q[j + 1].seq = c + ((j + 1) - 1)
    BY <1>2, <1>4, <2>1
  <2>3. c + ((j + 1) - 1) = (c + 1) + (j - 1)
    BY <1>7, <2>1
  <2> QED BY <2>2, <2>3
<1>11. Rest(r, c + 1)
  BY <1>9, <1>10 DEF Rest
<1> QED BY <1>7, <1>8, <1>11 DEF Rest

\* Every step keeps the invariant.
LEMMA StaleStep ==
    ASSUME TypeInv, StaleInv, [Next]_vars
    PROVE  StaleInv'
<1>0. /\ queue \in [Ports -> Seq(DataPacket)] /\ asmPort \in Ports
      /\ available_messages \subseteq Ports
      /\ current_port_sequence \in [Ports -> SeqNums]
  BY DEF TypeInv, TypeBuffer, TypeThreads, TypeModule
<1>1. CASE \/ PeerStep \/ RecvFrame \/ RecvPort \/ CallbackStuck \/ StartModule
           \/ PortStep \/ UNCHANGED vars \/ (FlushStep /\ ~ FlushClear)
  <2>1. /\ UNCHANGED <<queue, current_port_sequence, available_messages, mutexLeaked,
                       asmPort, disturbed>>
        /\ \/ asmpc' = asmpc
           \/ asmpc' = "lock" /\ asmpc \in {"waiting", "notStarted"}
    <3>1. CASE PeerStep
      BY <3>1, PeerFrame DEF bufVars, asmVars
    <3>2. CASE RecvFrame \/ RecvPort \/ CallbackStuck \/ StartModule \/ UNCHANGED vars
      BY <3>2 DEF RecvFrame, RecvPort, CallbackStuck, StartModule, RxRest, vars,
           bufVars, asmVars
    <3>3. CASE PortStep
      BY <3>3, PortFrame DEF bufVars, asmVars
    <3>4. CASE FlushStep /\ ~ FlushClear
      BY <3>4 DEF FlushStep, FlushQueues, FlushTest, FlushPeek, FlushDone, FlushRest,
           RxRest, bufVars, asmVars
    <3> QED BY <1>1, <3>1, <3>2, <3>3, <3>4
  <2> QED BY <2>1 DEF StaleInv, Complete, Settling, Rest
<1>2. CASE RecvSync
  <2>1. /\ UNCHANGED <<queue, available_messages, mutexLeaked, asmPort, asmpc>>
        /\ disturbed \subseteq disturbed' /\ RxMutexFree /\ ~ Aborted
        /\ \A p \in Ports :
             p \in disturbed' \/ current_port_sequence'[p] = current_port_sequence[p]
    BY <1>2 DEF RecvSync, RxRest, bufVars, asmVars
  <2>2. /\ asmpc \notin {"pop", "recheck", "aborted"}
        /\ mutexLeaked => asmPort \in disturbed
        /\ \A p \in available_messages \ disturbed : Complete(p) \/ Settling(p)
    BY <2>1 DEF StaleInv, RxMutexFree, Aborted
  <2>3. \A p \in available_messages' \ disturbed' : Complete(p)'
    BY <1>0, <2>1, <2>2 DEF Complete, Settling
  <2> QED BY <2>1, <2>2, <2>3 DEF StaleInv
<1>3. CASE RecvWrite
  <2>1. /\ UNCHANGED <<current_port_sequence, available_messages, mutexLeaked,
                       asmPort, asmpc, disturbed>>
        /\ frame \in DataPacket /\ ~ Aborted
        /\ \/ queue' = queue
           \/ /\ queue[frame.port] = << >>
              /\ queue' = [queue EXCEPT ![frame.port] = <<frame>>]
    BY <1>3 DEF RecvWrite, RxRest, bufVars, asmVars, TypeInv, TypeFrame
  <2>2. \A p \in Ports : queue'[p] = queue[p] \/ queue[p] = << >>
    BY <1>0, <2>1
  <2>3. /\ \A p \in Ports : Complete(p) => Complete(p)'
        /\ Rest(queue[asmPort], current_port_sequence[asmPort])
             => Rest(queue[asmPort], current_port_sequence[asmPort])'
    BY <1>0, <2>1, <2>2, NothingInEmpty DEF Complete, Rest
  <2>4. asmpc # "aborted"
    BY <2>1 DEF Aborted
  <2>5. \A p \in available_messages' \ disturbed' : Complete(p)' \/ Settling(p)'
    BY <1>0, <2>1, <2>3, <2>4 DEF StaleInv, Settling
  <2> QED BY <2>1, <2>3, <2>4, <2>5 DEF StaleInv
<1>4. CASE RecvCompare
  <2>1. /\ UNCHANGED <<current_port_sequence, available_messages, mutexLeaked,
                       asmPort, asmpc>>
        /\ RxMutexFree /\ ~ Aborted /\ disturbed \subseteq disturbed'
        /\ \E x : queue' = [queue EXCEPT ![frame.port] = x]
    BY <1>4 DEF RecvCompare, RxRest, bufVars, asmVars
  <2>2. /\ asmpc \notin {"pop", "recheck", "aborted"}
        /\ mutexLeaked => asmPort \in disturbed
        /\ \A p \in available_messages \ disturbed : Complete(p) \/ Settling(p)
    BY <2>1 DEF StaleInv, RxMutexFree, Aborted
  <2>3. ASSUME NEW p \in available_messages \ disturbed' PROVE Complete(p)'
    <3>1. Complete(p) /\ p \in Ports
      BY <1>0, <2>1, <2>2 DEF Settling
    <3>2. CASE p = frame.port
      BY <1>4, <3>1, <3>2, CompletePushed
    <3>3. CASE p # frame.port
      <4>1. queue'[p] = queue[p]
        BY <1>0, <2>1, <3>1, <3>3
      <4> QED BY <2>1, <3>1, <4>1 DEF Complete
    <3> QED BY <3>2, <3>3
  <2> QED BY <2>1, <2>2, <2>3 DEF StaleInv
<1>5. CASE RecvComplete
  <2>1. /\ UNCHANGED <<current_port_sequence, queue, mutexLeaked, asmPort>>
        /\ RxMutexFree /\ ~ Aborted
        /\ asmpc' = asmpc \/ asmpc' = "lock"
        /\ \/ UNCHANGED <<available_messages, disturbed>>
           \/ /\ Complete(frame.port)
              /\ available_messages' = available_messages \cup {frame.port}
              /\ disturbed' = disturbed \ {frame.port}
    BY <1>5 DEF RecvComplete, RxRest, bufVars, asmVars, Signalled, Complete
  <2>2. /\ asmpc \notin {"pop", "recheck", "aborted"} /\ ~ mutexLeaked
        /\ \A p \in available_messages \ disturbed : Complete(p)
    BY <2>1 DEF StaleInv, RxMutexFree, Aborted, Settling
  <2>3. \A p \in available_messages' \ disturbed' : Complete(p)'
    BY <2>1, <2>2 DEF Complete
  <2> QED BY <2>1, <2>2, <2>3 DEF StaleInv
<1>6. CASE FlushClear
  <2>1. /\ UNCHANGED <<current_port_sequence, available_messages, mutexLeaked,
                       asmPort, asmpc>>
        /\ queue' = [queue EXCEPT ![Lowest(flushPorts)] = << >>] /\ ~ Aborted
        /\ disturbed' = disturbed \cup {Lowest(flushPorts)}
    BY <1>6 DEF FlushClear, FlushRest, RxRest, bufVars, asmVars
  <2>2. \A p \in Ports : p \in disturbed' \/ queue'[p] = queue[p]
    BY <1>0, <2>1
  <2>3. asmpc # "aborted" /\ disturbed \subseteq disturbed'
    BY <2>1 DEF Aborted
  <2>4. \A p \in available_messages' \ disturbed' : Complete(p)' \/ Settling(p)'
    BY <1>0, <2>1, <2>2, <2>3 DEF StaleInv, Complete, Settling
  <2>5. asmPort \in disturbed' \/ queue'[asmPort] = queue[asmPort]
    BY <1>0, <2>2
  <2> QED BY <2>1, <2>3, <2>4, <2>5 DEF StaleInv, Rest
<1>7. CASE AsmLock \/ AsmCheck \/ AsmSleep \/ AsmNext \/ AsmDeliver \/ AsmDrop
           \/ AsmDropNull \/ AsmSendFails
  <2>1. /\ UNCHANGED <<queue, current_port_sequence, available_messages, mutexLeaked,
                       asmPort, disturbed>>
        /\ asmpc \notin {"pop", "recheck", "aborted"}
        /\ asmpc' \notin {"pop", "recheck", "aborted"}
    BY <1>7 DEF AsmLock, AsmCheck, AsmSleep, AsmNext, AsmDeliver, AsmDrop, AsmDropNull,
         AsmSendFails, bufVars, asmVars
  <2> QED BY <2>1 DEF StaleInv, Complete, Settling
<1>8. CASE AsmTake
  <2>1. /\ UNCHANGED <<queue, current_port_sequence, available_messages, mutexLeaked,
                       disturbed>>
        /\ asmPort' = Lowest(available_messages) /\ asmpc = "take" /\ asmpc' = "pop"
        /\ ~ mutexLeaked
    BY <1>8 DEF AsmTake, bufVars, RxMutexFree
  <2>2. \A p \in available_messages \ disturbed : Complete(p) /\ Complete(p)'
    BY <2>1 DEF StaleInv, Settling, Complete
  <2> DEFINE l == Lowest(available_messages)
  <2>3. l \in available_messages
    BY <1>0, <2>1, LowestIn, RxPortsAssumption DEF TypeInv, CountInv
  <2>4. asmPort' = l
    BY <2>1
  <2> HIDE DEF l
  <2>5. l \in disturbed \/ Rest(queue[l], current_port_sequence[l])
    BY <2>2, <2>3 DEF Complete, CompleteMessage, Rest
  <2>6. asmPort' \in disturbed' \/ Rest(queue[asmPort], current_port_sequence[asmPort])'
    BY <2>1, <2>4, <2>5 DEF Rest
  <2> QED BY <2>1, <2>2, <2>6 DEF StaleInv
<1>9. CASE AsmPop
  <2>1. /\ asmpc = "pop" /\ UNCHANGED <<available_messages, asmPort, mutexLeaked, disturbed>>
        /\ queue' = [queue EXCEPT ![asmPort] = Tail(queue[asmPort])]
        /\ asmpc' \in {"pop", "recheck"}
        /\ \E x : current_port_sequence' = [current_port_sequence EXCEPT ![asmPort] = x]
    BY <1>9 DEF AsmPop, Popped
  <2>2. ASSUME NEW p \in available_messages \ disturbed PROVE Complete(p)' \/ Settling(p)'
    <3>1. CASE p = asmPort
      BY <2>1, <3>1 DEF Settling
    <3>2. CASE p # asmPort
      <4>1. queue'[p] = queue[p] /\ current_port_sequence'[p] = current_port_sequence[p]
        BY <1>0, <2>1, <3>2
      <4>2. Complete(p)
        BY <2>1, <3>2 DEF StaleInv, Settling
      <4> QED BY <4>1, <4>2 DEF Complete
    <3> QED BY <3>1, <3>2
  <2>3. asmpc' = "pop" => \/ asmPort' \in disturbed'
                         \/ Rest(queue[asmPort], current_port_sequence[asmPort])'
    BY <1>9, <2>1, RestStep
  <2> QED BY <2>1, <2>2, <2>3 DEF StaleInv
<1>10. CASE AsmInconsistent
  <2>1. asmPort \in disturbed
    BY <1>10, PopFindsPacket DEF AsmInconsistent
  <2>2. /\ asmpc = "pop" /\ asmpc' = "error"
        /\ UNCHANGED <<current_port_sequence, available_messages, asmPort, disturbed>>
        /\ queue' = [queue EXCEPT ![asmPort] = Tail(queue[asmPort])]
    BY <1>10 DEF AsmInconsistent, Popped
  <2>3. \A p \in available_messages' \ disturbed' : Complete(p)'
    <3> SUFFICES ASSUME NEW p \in available_messages \ disturbed PROVE Complete(p)'
      BY <2>2
    <3>1. p # asmPort /\ Complete(p)
      BY <2>1, <2>2 DEF StaleInv, Settling
    <3>2. queue'[p] = queue[p]
      BY <1>0, <2>2, <3>1
    <3> QED BY <2>2, <3>1, <3>2 DEF Complete
  <2> QED BY <2>1, <2>2, <2>3 DEF StaleInv
<1>11. CASE AsmNull
  <2>1. /\ asmpc = "pop" /\ asmpc' = "aborted"
        /\ UNCHANGED <<queue, available_messages, mutexLeaked, asmPort, disturbed>>
    BY <1>11 DEF AsmNull, bufVars, asmVars
  <2>2. asmPort \in disturbed \/ Len(queue[asmPort]) >= SizeMod
    BY <1>11, <2>1, PopFindsPacket
  <2> QED BY <2>1, <2>2 DEF StaleInv
<1>12. CASE AsmRecheck
  <2>1. /\ UNCHANGED <<queue, current_port_sequence, mutexLeaked, asmPort>>
        /\ available_messages' = (IF Complete(asmPort)
                                    THEN available_messages \cup {asmPort}
                                    ELSE available_messages \ {asmPort})
        /\ disturbed' = disturbed \ {asmPort}
        /\ asmpc = "recheck" /\ asmpc' = "deliver"
    BY <1>12 DEF AsmRecheck, bufVars, asmVars, Complete
  <2>2. ~ mutexLeaked
    BY <2>1 DEF StaleInv
  <2>3. \A p \in available_messages \ disturbed : Complete(p) \/ p = asmPort
    BY <2>1 DEF StaleInv, Settling
  <2>4. \A p \in available_messages' \ disturbed' : Complete(p)
    BY <2>1, <2>3
  <2>5. \A p \in available_messages' \ disturbed' : Complete(p)'
    BY <2>1, <2>4 DEF Complete
  <2> QED BY <2>1, <2>2, <2>5 DEF StaleInv
<1> QED BY <1>1, <1>2, <1>3, <1>4, <1>5, <1>6, <1>7, <1>8, <1>9, <1>10, <1>11, <1>12,
          Steps DEF AsmStep, FlushStep

\* An entry of available_messages stands for a complete message whenever
\* rx_mutex is free, and getNextCompleteMessage neither returns with the mutex
\* locked nor reads a NULL packet, unless a sync packet, a flush, the window or
\* a second packet of the same number got at the port in between (or 2^16
\* packets were queued): for any number of syncs, flushes, turns, losses and
\* ports, packets that arrive go behind an announced message.
THEOREM StaleOnlyAfterDisturbance ==
    Spec => []StaleOnlyWhenDisturbed
<1> DEFINE Inv == TypeInv /\ StaleInv
<1>1. Init => Inv
  <2> SUFFICES ASSUME Init PROVE StaleInv
    BY TypeInit
  <2>1. asmpc = "notStarted" /\ ~ mutexLeaked /\ available_messages = {}
    BY DEF Init
  <2> QED BY <2>1 DEF StaleInv
<1>2. Inv /\ [Next]_vars => Inv'
  BY TypeStep, StaleStep
<1>3. Inv => StaleOnlyWhenDisturbed
  BY DEF StaleInv, StaleOnlyWhenDisturbed, Complete, Settling, RxMutexFree, Aborted
<1> QED BY <1>1, <1>2, <1>3, PTL DEF Spec

=============================================================================
