------------------------- MODULE PacketHeaderProofs -------------------------
(***************************************************************************)
(* The header decodes to what was set, for every content of the            *)
(* uninitialised memory and all values of the fields.  The widths are      *)
(* stated as bounds.                                                       *)
(***************************************************************************)
EXTENDS PacketHeader, TLAPS

Header == [seq : Below(65536), pdu_length : Below(65536), seq_port : Below(256),
           port : Below(256)]

Fields == [type : Below(4), port : Below(128), len : Below(16384),
           sub : Below(256), more : {0, 1}, gseq : Below(256),
           pseq : Below(256)]

\* Every field is right from the step on that sets it last
HeaderInv ==
    /\ hdr \in Header /\ want \in Fields
    /\ pc \in {"memory", "constructed", "addressed", "enqueued", "sent"}
    /\ pc = "memory" => want = Nothing
    /\ pc = "constructed" => want = [Nothing EXCEPT !.len = want.len]
    /\ pc # "memory" => GetPduLength(hdr) = want.len
    /\ pc \in {"addressed", "enqueued", "sent"} => GetPort(hdr) = want.port
    /\ pc \in {"enqueued", "sent"} =>
         /\ GetMessageType(hdr) = want.type /\ GetSubSequence(hdr) = want.sub
         /\ MoreFragments(hdr) = want.more /\ hdr.seq_port = want.pseq
    /\ pc = "sent" => GetGlobalSequence(hdr) = want.gseq

\* A byte 128 high + low has the parts high and low.
LEMMA SplitByte ==
    ASSUME NEW high \in {0, 1}, NEW low \in Below(128)
    PROVE  /\ 128 * high + low \in Below(256)
           /\ (128 * high + low) % 128 = low
           /\ ((128 * high + low) \div 128) % 2 = high
  BY SMT DEF Below

\* So has a word 256 high + low ...
LEMMA SplitWord ==
    ASSUME NEW high \in Below(256), NEW low \in Below(256)
    PROVE  /\ 256 * high + low \in Below(65536)
           /\ (256 * high + low) % 256 = low
           /\ (256 * high + low) \div 256 = high
  BY SMT DEF Below

\* ... and a word 16384 high + low.
LEMMA SplitLength ==
    ASSUME NEW high \in Below(4), NEW low \in Below(16384)
    PROVE  /\ 16384 * high + low \in Below(65536)
           /\ (16384 * high + low) % 16384 = low
           /\ (16384 * high + low) \div 16384 = high
  BY SMT DEF Below

\* The parts of a word or byte are within their widths.
LEMMA Parts ==
    /\ \A w \in Below(65536) : /\ w % 256 \in Below(256)
                               /\ w \div 256 \in Below(256)
                               /\ w % 16384 \in Below(16384)
                               /\ (w \div 16384) % 2 \in {0, 1}
    /\ \A b \in Below(256) : b % 128 \in Below(128) /\ (b \div 128) % 2 \in {0, 1}
  BY SMT DEF Below

-----------------------------------------------------------------------------
(***************************************************************************)
(* What each setter changes and what it keeps.                             *)
(***************************************************************************)
\* setPort and the two functions of the fragmentation bit touch only `port`.
LEMMA PortSetters ==
    ASSUME NEW h \in Header, NEW p \in Below(128)
    PROVE  /\ SetPort(h, p) = [h EXCEPT !.port = SetPort(h, p).port]
           /\ SetPort(h, p) \in Header
           /\ GetPort(SetPort(h, p)) = p
           /\ SetMoreFragments(h) = [h EXCEPT !.port = SetMoreFragments(h).port]
           /\ SetMoreFragments(h) \in Header
           /\ GetPort(SetMoreFragments(h)) = GetPort(h)
           /\ MoreFragments(SetMoreFragments(h)) = 1
           /\ UnsetMoreFragments(h) = [h EXCEPT !.port = UnsetMoreFragments(h).port]
           /\ UnsetMoreFragments(h) \in Header
           /\ GetPort(UnsetMoreFragments(h)) = GetPort(h)
           /\ MoreFragments(UnsetMoreFragments(h)) = 0
<1>1. h.port \in Below(256) BY DEF Header
<1>2. h.port % 128 \in Below(128) /\ (h.port \div 128) % 2 \in {0, 1}
  BY <1>1, Parts
<1> DEFINE frag == (h.port \div 128) % 2
           low == h.port % 128
<1>3. /\ 128 * frag + p \in Below(256) /\ (128 * frag + p) % 128 = p
  BY <1>2, SplitByte
<1>4. /\ 128 * 1 + low \in Below(256) /\ (128 * 1 + low) % 128 = low
      /\ ((128 * 1 + low) \div 128) % 2 = 1
  BY <1>2, SplitByte
<1>5. /\ 128 * 0 + low \in Below(256) /\ (128 * 0 + low) % 128 = low
      /\ ((128 * 0 + low) \div 128) % 2 = 0
  BY <1>2, SplitByte
<1>6. low + 128 = 128 * 1 + low /\ low = 128 * 0 + low
  BY <1>2, SMT DEF Below
<1> HIDE DEF frag, low
<1>7. /\ SetPort(h, p) = [h EXCEPT !.port = 128 * frag + p]
      /\ SetMoreFragments(h) = [h EXCEPT !.port = low + 128]
      /\ UnsetMoreFragments(h) = [h EXCEPT !.port = low]
      /\ GetPort(h) = low
  BY DEF SetPort, SetMoreFragments, UnsetMoreFragments, MoreFragments, GetPort,
         frag, low
<1>8. \A b \in Below(256) : LET g == [h EXCEPT !.port = b]
                            IN  /\ g \in Header /\ g.port = b
                                /\ GetPort(g) = b % 128
                                /\ MoreFragments(g) = (b \div 128) % 2
  BY DEF Header, GetPort, MoreFragments
<1>9. QED BY <1>3, <1>4, <1>5, <1>6, <1>7, <1>8

\* The setters of the two sequence numbers touch only `seq`.
LEMMA SequenceSetters ==
    ASSUME NEW h \in Header, NEW x \in Below(256)
    PROVE  /\ SetGlobalSequence(h, x) = [h EXCEPT !.seq = SetGlobalSequence(h, x).seq]
           /\ SetGlobalSequence(h, x) \in Header
           /\ GetGlobalSequence(SetGlobalSequence(h, x)) = x
           /\ GetSubSequence(SetGlobalSequence(h, x)) = GetSubSequence(h)
           /\ SetSubSequence(h, x) = [h EXCEPT !.seq = SetSubSequence(h, x).seq]
           /\ SetSubSequence(h, x) \in Header
           /\ GetSubSequence(SetSubSequence(h, x)) = x
           /\ GetGlobalSequence(SetSubSequence(h, x)) = GetGlobalSequence(h)
<1> DEFINE low == h.seq % 256
           high == h.seq \div 256
<1>1. h.seq \in Below(65536) BY DEF Header
<1>2. low \in Below(256) /\ high \in Below(256)
  BY <1>1, Parts
<1>3. /\ 256 * x + low \in Below(65536) /\ (256 * x + low) % 256 = low
      /\ (256 * x + low) \div 256 = x
  BY <1>2, SplitWord
<1>4. /\ 256 * high + x \in Below(65536) /\ (256 * high + x) % 256 = x
      /\ (256 * high + x) \div 256 = high
  BY <1>2, SplitWord
<1>5. low + 256 * x = 256 * x + low
  BY <1>2, SMT DEF Below
<1> HIDE DEF low, high
<1>6. /\ SetGlobalSequence(h, x) = [h EXCEPT !.seq = low + 256 * x]
      /\ SetSubSequence(h, x) = [h EXCEPT !.seq = 256 * high + x]
      /\ GetSubSequence(h) = low /\ GetGlobalSequence(h) = high
  BY DEF SetGlobalSequence, SetSubSequence, GetSubSequence, GetGlobalSequence,
         low, high
<1>7. \A w \in Below(65536) : LET g == [h EXCEPT !.seq = w]
                              IN  /\ g \in Header /\ g.seq = w
                                  /\ GetSubSequence(g) = w % 256
                                  /\ GetGlobalSequence(g) = w \div 256
  BY DEF Header, GetSubSequence, GetGlobalSequence
<1>8. QED BY <1>3, <1>4, <1>5, <1>6, <1>7

\* The setters of length and type touch only `pdu_length`.
LEMMA LengthSetters ==
    ASSUME NEW h \in Header, NEW len \in Below(16384), NEW type \in Below(4)
    PROVE  /\ SetPduLength(h, len) = [h EXCEPT !.pdu_length = SetPduLength(h, len).pdu_length]
           /\ SetPduLength(h, len) \in Header
           /\ GetPduLength(SetPduLength(h, len)) = len
           /\ SetMessageType(h, type) = [h EXCEPT !.pdu_length = SetMessageType(h, type).pdu_length]
           /\ SetMessageType(h, type) \in Header
           /\ GetPduLength(SetMessageType(h, type)) = GetPduLength(h)
           /\ GetMessageType(SetMessageType(h, type)) = type
<1> DEFINE low == h.pdu_length % 16384
           bit == (h.pdu_length \div 16384) % 2
<1>1. h.pdu_length \in Below(65536) BY DEF Header
<1>2. low \in Below(16384) /\ bit \in {0, 1}
  BY <1>1, Parts
<1>3. bit \in Below(4)
  BY <1>2, SMT DEF Below
<1>4. /\ 16384 * bit + len \in Below(65536) /\ (16384 * bit + len) % 16384 = len
  BY <1>3, SplitLength
<1>5. /\ 16384 * type + low \in Below(65536) /\ (16384 * type + low) % 16384 = low
      /\ (16384 * type + low) \div 16384 = type
  BY <1>2, SplitLength
<1>6. low + 16384 * type = 16384 * type + low
  BY <1>2, SMT DEF Below
<1> HIDE DEF low, bit
<1>7. /\ SetPduLength(h, len) = [h EXCEPT !.pdu_length = 16384 * bit + len]
      /\ SetMessageType(h, type) = [h EXCEPT !.pdu_length = low + 16384 * type]
      /\ GetPduLength(h) = low
  BY DEF SetPduLength, SetMessageType, GetPduLength, low, bit
<1>8. \A w \in Below(65536) : LET g == [h EXCEPT !.pdu_length = w]
                              IN  /\ g \in Header /\ g.pdu_length = w
                                  /\ GetPduLength(g) = w % 16384
                                  /\ GetMessageType(g) = w \div 16384
  BY DEF Header, GetPduLength, GetMessageType
<1>9. QED BY <1>4, <1>5, <1>6, <1>7, <1>8

-----------------------------------------------------------------------------
(***************************************************************************)
(* The invariant.                                                          *)
(***************************************************************************)
\* Uninitialised memory satisfies the invariant.
LEMMA HeaderInit == Init => HeaderInv
<1> SUFFICES ASSUME Init PROVE HeaderInv OBVIOUS
<1>1. hdr \in Header BY HeaderAssumption DEF Init, Header
<1>2. want \in Fields BY SMT DEF Init, Nothing, Fields, Below
<1>3. QED BY <1>1, <1>2 DEF Init, HeaderInv

\* Each step of the sender keeps the fields that are already right.
LEMMA HeaderStep == HeaderInv /\ [Next]_vars => HeaderInv'
<1> SUFFICES ASSUME HeaderInv, [Next]_vars PROVE HeaderInv' OBVIOUS
<1>t. hdr \in Header /\ want \in Fields BY DEF HeaderInv
<1>1. ASSUME NEW len \in Lengths, Construct(len) PROVE HeaderInv'
  <2>1. len \in Below(16384) /\ 0 \in Below(4) BY HeaderAssumption, SMT DEF Below
  <2>2. hdr' \in Header /\ GetPduLength(hdr') = len
    BY <1>1, <1>t, <2>1, LengthSetters DEF Construct
  <2>3. want' \in Fields /\ want'.len = len /\ want' = [Nothing EXCEPT !.len = len]
    BY <1>1, <1>t, <2>1 DEF Construct, Fields, HeaderInv, Nothing
  <2>4. pc' = "constructed" BY <1>1 DEF Construct
  <2>5. QED BY <2>2, <2>3, <2>4 DEF HeaderInv, GetPduLength
<1>2. ASSUME NEW p \in Ports, Address(p) PROVE HeaderInv'
  <2>1. p \in Below(128) BY HeaderAssumption
  <2>2. /\ hdr' \in Header /\ GetPort(hdr') = p
        /\ hdr' = [hdr EXCEPT !.port = hdr'.port]
    BY <1>2, <1>t, <2>1, PortSetters DEF Address
  <2>3. GetPduLength(hdr') = GetPduLength(hdr)
    BY <1>t, <2>2 DEF Header, GetPduLength
  <2>4. want' \in Fields /\ want'.port = p /\ want'.len = want.len
    BY <1>2, <1>t, <2>1 DEF Address, Fields
  <2>5. pc = "constructed" /\ pc' = "addressed" BY <1>2 DEF Address
  <2>6. QED BY <2>2, <2>3, <2>4, <2>5 DEF HeaderInv, GetPduLength, GetPort
<1>3. ASSUME NEW n \in Numbers, NEW seq_port \in Numbers, NEW more \in {0, 1},
             Enqueue(n, more, seq_port)
      PROVE  HeaderInv'
  <2> DEFINE a == SetMessageType(hdr, S3TP_MSG_DATA)
             b == SetSubSequence(a, n)
             c == [b EXCEPT !.seq_port = seq_port]
             d == IF more = 1 THEN SetMoreFragments(c) ELSE UnsetMoreFragments(c)
  <2>1. /\ n \in Below(256) /\ seq_port \in Below(256) /\ 0 \in Below(4)
        /\ 0 \in Below(16384) /\ 0 \in Below(128)
    BY HeaderAssumption, SMT DEF Below
  <2>2. /\ a \in Header /\ GetPduLength(a) = GetPduLength(hdr)
        /\ GetMessageType(a) = S3TP_MSG_DATA
        /\ a = [hdr EXCEPT !.pdu_length = a.pdu_length]
    BY <1>t, <2>1, LengthSetters DEF S3TP_MSG_DATA
  <2>3. GetPort(a) = GetPort(hdr)
    BY <1>t, <2>2 DEF Header, GetPort
  <2> HIDE DEF a
  <2>4. /\ b \in Header /\ GetSubSequence(b) = n
        /\ b = [a EXCEPT !.seq = b.seq]
    <3>1. n \in Below(256) BY <2>1
    <3>2. a \in Header BY <2>2
    <3>3. SetSubSequence(a, n) \in Header BY <3>1, <3>2, SequenceSetters
    <3>4. GetSubSequence(SetSubSequence(a, n)) = n BY <3>1, <3>2, SequenceSetters
    <3>5. SetSubSequence(a, n) = [a EXCEPT !.seq = SetSubSequence(a, n).seq]
      BY <3>1, <3>2, SequenceSetters
    <3>6. QED BY <3>3, <3>4, <3>5
  <2>5. /\ GetPduLength(b) = GetPduLength(a) /\ GetMessageType(b) = GetMessageType(a)
        /\ GetPort(b) = GetPort(a)
    BY <2>2, <2>4 DEF Header, GetPort, GetPduLength, GetMessageType
  <2> HIDE DEF b
  <2>6. /\ c \in Header /\ c.seq_port = seq_port /\ GetPduLength(c) = GetPduLength(b)
        /\ GetMessageType(c) = GetMessageType(b) /\ GetPort(c) = GetPort(b)
        /\ GetSubSequence(c) = GetSubSequence(b)
    BY <2>1, <2>4 DEF Header, GetPort, GetPduLength, GetMessageType, GetSubSequence
  <2> HIDE DEF c
  <2>7. /\ d \in Header /\ GetPort(d) = GetPort(c) /\ MoreFragments(d) = more
        /\ d = [c EXCEPT !.port = d.port]
    BY <2>1, <2>6, PortSetters
  <2>8. /\ GetPduLength(d) = GetPduLength(c) /\ d.seq_port = c.seq_port
        /\ GetMessageType(d) = GetMessageType(c)
        /\ GetSubSequence(d) = GetSubSequence(c)
    BY <2>6, <2>7 DEF Header, GetPduLength, GetMessageType, GetSubSequence
  <2>9. hdr' = d
    BY <1>3 DEF Enqueue, a, b, c
  <2> HIDE DEF d
  <2>10. /\ want' \in Fields /\ want'.type = S3TP_MSG_DATA /\ want'.sub = n
         /\ want'.more = more /\ want'.pseq = seq_port /\ want'.len = want.len
         /\ want'.port = want.port
    <3>1. want' = [want EXCEPT !.type = 0, !.sub = n, !.more = more,
                               !.pseq = seq_port]
      BY <1>3 DEF Enqueue, S3TP_MSG_DATA
    <3>2. want = [type |-> want.type, port |-> want.port, len |-> want.len,
                  sub |-> want.sub, more |-> want.more, gseq |-> want.gseq,
                  pseq |-> want.pseq]
      BY <1>t DEF Fields
    <3>3. want' = [type |-> 0, port |-> want.port, len |-> want.len, sub |-> n,
                   more |-> more, gseq |-> want.gseq, pseq |-> seq_port]
      BY <3>1, <3>2
    <3>4. /\ n \in Below(256) /\ seq_port \in Below(256) /\ 0 \in Below(4)
          /\ want.port \in Below(128) /\ want.len \in Below(16384)
          /\ want.gseq \in Below(256)
      BY <1>t, <2>1 DEF Fields
    <3>5. want' \in Fields BY <3>3, <3>4 DEF Fields
    <3>6. QED BY <3>3, <3>5 DEF S3TP_MSG_DATA
  <2>11. pc = "addressed" /\ pc' = "enqueued" BY <1>3 DEF Enqueue
  <2>12. /\ GetPduLength(hdr') = want'.len /\ GetPort(hdr') = want'.port
         /\ GetMessageType(hdr') = want'.type /\ GetSubSequence(hdr') = want'.sub
         /\ MoreFragments(hdr') = want'.more /\ hdr'.seq_port = want'.pseq
    BY <2>2, <2>3, <2>4, <2>5, <2>6, <2>7, <2>8, <2>9, <2>10, <2>11
    DEF HeaderInv
  <2>13. QED BY <2>7, <2>9, <2>10, <2>11, <2>12
    DEF HeaderInv, GetPduLength, GetPort, GetMessageType, GetSubSequence,
        MoreFragments
<1>4. ASSUME NEW g \in Numbers, Number(g) PROVE HeaderInv'
  <2>1. g \in Below(256) BY HeaderAssumption
  <2>2. /\ hdr' \in Header /\ GetGlobalSequence(hdr') = g
        /\ GetSubSequence(hdr') = GetSubSequence(hdr)
        /\ hdr' = [hdr EXCEPT !.seq = hdr'.seq]
    BY <1>4, <1>t, <2>1, SequenceSetters DEF Number
  <2>3. /\ GetPduLength(hdr') = GetPduLength(hdr) /\ GetPort(hdr') = GetPort(hdr)
        /\ GetMessageType(hdr') = GetMessageType(hdr)
        /\ MoreFragments(hdr') = MoreFragments(hdr)
        /\ hdr'.seq_port = hdr.seq_port
    BY <1>t, <2>2 DEF Header, GetPduLength, GetPort, GetMessageType, MoreFragments
  <2>4. /\ want' \in Fields /\ want'.gseq = g
        /\ want' = [want EXCEPT !.gseq = g]
    BY <1>4, <1>t, <2>1 DEF Number, Fields
  <2>5. /\ want'.type = want.type /\ want'.sub = want.sub /\ want'.more = want.more
        /\ want'.pseq = want.pseq /\ want'.len = want.len /\ want'.port = want.port
    BY <1>t, <2>4 DEF Fields
  <2>6. pc = "enqueued" /\ pc' = "sent" BY <1>4 DEF Number
  <2>7. /\ GetPduLength(hdr') = want'.len /\ GetPort(hdr') = want'.port
        /\ GetMessageType(hdr') = want'.type /\ GetSubSequence(hdr') = want'.sub
        /\ MoreFragments(hdr') = want'.more /\ hdr'.seq_port = want'.pseq
    BY <2>2, <2>3, <2>5, <2>6 DEF HeaderInv
  <2>8. QED BY <2>2, <2>4, <2>6, <2>7
    DEF HeaderInv, GetPduLength, GetPort, GetMessageType, GetSubSequence,
        MoreFragments, GetGlobalSequence
<1>5. CASE PrepareSync
  <2> DEFINE a == SetMessageType(hdr, S3TP_MSG_SYNC)
             b == SetPort(a, 0)
             c == SetGlobalSequence(b, 0)
             d == SetSubSequence(c, 0)
             e == UnsetMoreFragments(d)
             f == [e EXCEPT !.seq_port = 0]
  <2>1. /\ 3 \in Below(4) /\ 0 \in Below(16384) /\ 0 \in Below(128)
        /\ 0 \in Below(256)
    BY SMT DEF Below
  <2>2. /\ a \in Header /\ GetPduLength(a) = GetPduLength(hdr)
        /\ GetMessageType(a) = 3
    BY <1>t, <2>1, LengthSetters DEF S3TP_MSG_SYNC
  <2> HIDE DEF a
  <2>3. b \in Header /\ GetPort(b) = 0 /\ b = [a EXCEPT !.port = b.port]
    BY <2>1, <2>2, PortSetters
  <2> HIDE DEF b
  <2>4. c \in Header /\ GetGlobalSequence(c) = 0 /\ c = [b EXCEPT !.seq = c.seq]
    BY <2>1, <2>3, SequenceSetters
  <2> HIDE DEF c
  <2>5. /\ d \in Header /\ GetGlobalSequence(d) = 0 /\ GetSubSequence(d) = 0
        /\ d = [c EXCEPT !.seq = d.seq]
    BY <2>1, <2>4, SequenceSetters
  <2> HIDE DEF d
  <2>6. /\ e \in Header /\ GetPort(e) = GetPort(d) /\ MoreFragments(e) = 0
        /\ e = [d EXCEPT !.port = e.port]
    BY <2>1, <2>5, PortSetters
  <2> HIDE DEF e
  <2>7. GetPort(e) = 0
    BY <2>3, <2>4, <2>5, <2>6 DEF Header, GetPort
  <2>8. GetGlobalSequence(e) = 0 /\ GetSubSequence(e) = 0
    BY <2>5, <2>6 DEF Header, GetGlobalSequence, GetSubSequence
  <2>9. e.pdu_length = a.pdu_length
    BY <2>2, <2>3, <2>4, <2>5, <2>6 DEF Header
  <2>10. GetPduLength(e) = GetPduLength(hdr) /\ GetMessageType(e) = 3
    BY <2>2, <2>9 DEF GetPduLength, GetMessageType
  <2>11. /\ f \in Header /\ f.seq_port = 0 /\ GetPort(f) = 0 /\ MoreFragments(f) = 0
         /\ GetGlobalSequence(f) = 0 /\ GetSubSequence(f) = 0
         /\ GetPduLength(f) = GetPduLength(hdr) /\ GetMessageType(f) = 3
    BY <2>1, <2>6, <2>7, <2>8, <2>10
    DEF Header, GetPort, MoreFragments, GetGlobalSequence, GetSubSequence,
        GetPduLength, GetMessageType
  <2>12. hdr' = f
    BY <1>5 DEF PrepareSync, a, b, c, d, e
  <2> HIDE DEF f
  <2>13. pc = "constructed" /\ pc' = "sent" BY <1>5 DEF PrepareSync
  <2>14. want' = [Nothing EXCEPT !.len = want.len, !.type = 3]
    BY <1>5, <2>13 DEF PrepareSync, HeaderInv, S3TP_MSG_SYNC, Nothing
  <2>15. /\ want' \in Fields /\ want'.type = 3 /\ want'.sub = 0 /\ want'.more = 0
         /\ want'.pseq = 0 /\ want'.len = want.len /\ want'.port = 0
         /\ want'.gseq = 0
    <3>1. want.len \in Below(16384) BY <1>t DEF Fields
    <3>2. want' = [type |-> 3, port |-> 0, len |-> want.len, sub |-> 0,
                   more |-> 0, gseq |-> 0, pseq |-> 0]
      BY <2>14 DEF Nothing
    <3>3. QED BY <2>1, <3>1, <3>2 DEF Fields
  <2>16. /\ GetPduLength(hdr') = want'.len /\ GetPort(hdr') = want'.port
         /\ GetMessageType(hdr') = want'.type /\ GetSubSequence(hdr') = want'.sub
         /\ MoreFragments(hdr') = want'.more /\ hdr'.seq_port = want'.pseq
         /\ GetGlobalSequence(hdr') = want'.gseq /\ hdr' \in Header
    BY <2>11, <2>12, <2>13, <2>15 DEF HeaderInv
  <2>17. QED BY <2>13, <2>15, <2>16
    DEF HeaderInv, GetPduLength, GetPort, GetMessageType, GetSubSequence,
        MoreFragments, GetGlobalSequence
<1>6. CASE UNCHANGED vars
  BY <1>6 DEF vars, HeaderInv, GetPduLength, GetPort, GetMessageType,
              GetSubSequence, MoreFragments, GetGlobalSequence
<1>7. QED BY <1>1, <1>2, <1>3, <1>4, <1>5, <1>6 DEF Next

\* A packet handed to the link layer decodes to what the sender set, for every
\* content of the memory it was built in and every value of its fields: the
\* setters of S3TP_HEADER, called in the order of the code, cover each other's
\* leftovers.
THEOREM HeaderCorrect == Spec => []HeaderIntact
<1>1. HeaderInv => HeaderIntact
  <2> SUFFICES ASSUME HeaderInv, pc = "sent" PROVE Decoded(hdr) = want
    BY DEF HeaderIntact
  <2>1. want = [type |-> want.type, port |-> want.port, len |-> want.len,
                sub |-> want.sub, more |-> want.more, gseq |-> want.gseq,
                pseq |-> want.pseq]
    BY DEF HeaderInv, Fields
  <2>2. /\ GetPduLength(hdr) = want.len /\ GetPort(hdr) = want.port
        /\ GetMessageType(hdr) = want.type /\ GetSubSequence(hdr) = want.sub
        /\ MoreFragments(hdr) = want.more /\ hdr.seq_port = want.pseq
        /\ GetGlobalSequence(hdr) = want.gseq
    BY DEF HeaderInv
  <2>3. QED BY <2>1, <2>2 DEF Decoded
<1>2. QED BY <1>1, HeaderInit, HeaderStep, PTL DEF Spec
=============================================================================
