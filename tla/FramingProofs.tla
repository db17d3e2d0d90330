--------------------------- MODULE FramingProofs ---------------------------
(***************************************************************************)
(* Proofs about Framing for all lengths, payloads and numbers of faults.   *)
(***************************************************************************)
EXTENDS Framing, FiniteSetTheorems, WellFoundedInduction, TLAPS

-----------------------------------------------------------------------------
(***************************************************************************)
(* The inductive invariant: a frame is what was written, but for faults.   *)
(***************************************************************************)
LengthFrame ==
    wire.kind = "length" =>
        /\ wire = [kind |-> "length", copies |-> wire.copies]
        /\ DOMAIN wire.copies = Copies /\ faults \subseteq Copies
        /\ wire.copies = [i \in Copies |-> wire.copies[i]]
        /\ \A i \in Copies \ faults : wire.copies[i] = sent

TypeFrame ==
    wire.kind = "type" =>
        /\ wire = [kind |-> "type", bits |-> wire.bits]
        /\ sent \in DOMAIN ControlByte /\ faults \subseteq Low \cup High
        /\ wire.bits = SymDiff(ControlByte[sent], faults)

\* Bits of the checksum that have flipped
Flipped == {b \in Word : <<0, b>> \in faults}

PacketFrame ==
    wire.kind = "packet" =>
        /\ wire = [kind |-> "packet", data |-> wire.data, crc |-> wire.crc]
        /\ wire.crc = SymDiff(calc_checksum(sent), Flipped)
        /\ \A f \in faults : f[1] # 0 \/ \E b \in Word : f = <<0, b>>
        /\ (\A f \in faults : f[1] = 0) => wire.data = sent

\* A packet that was not damaged is accepted, and one whose checksum alone was
\* damaged is refused, whatever its payload and however many bits have flipped.
ChecksumGuardsItself ==
    /\ result.code = "CRC_INVALID" => faults # {}
    /\ result.code = "ACCEPTED" /\ (\A f \in faults : f[1] = 0) =>
           faults = {} /\ result.data = sent

\* A frame that is on its way has not been read
UnreadFrame == wire.kind # "none" => result = Unread

Inv == UnreadFrame /\ LengthFrame /\ TypeFrame /\ PacketFrame
       /\ LengthSound /\ TypeRobust /\ ChecksumGuardsItself

-----------------------------------------------------------------------------
(***************************************************************************)
(* The vote on a length.                                                   *)
(***************************************************************************)
\* A copy matches both others it is compared with only if these agree.
LEMMA FullMatch ==
    ASSUME NEW c, NEW i
    PROVE  /\ Matches(c, i) \in Nat
           /\ Matches(c, i) > 1 => c[i] = c[1] /\ c[i] = c[2]
<1> DEFINE S == {j \in Copies \ {0} : c[i] = c[j]}
<1>1. Copies \ {0} = {1, 2}
  BY DEF Copies, SAFE_TRANSMISSION_COUNT
<1>2. /\ IsFiniteSet({1}) /\ Cardinality({1}) = 1
      /\ IsFiniteSet({2}) /\ Cardinality({2}) = 1
  BY FS_Singleton
<1>3. IsFiniteSet({1, 2})
  <2>1. IsFiniteSet({1} \cup {2})
    BY <1>2, FS_AddElement
  <2>2. {1, 2} = {1} \cup {2}
    OBVIOUS
  <2> QED BY <2>1, <2>2
<1>4. IsFiniteSet(S) /\ Cardinality(S) \in Nat
  <2>1. S \subseteq {1, 2}
    BY <1>1
  <2> QED BY <1>3, <2>1, FS_Subset, FS_CardinalityType
<1>5. ASSUME c[i] # c[1] PROVE Cardinality(S) <= 1
  <2>1. S \subseteq {2}
    BY <1>1, <1>5
  <2> QED BY <1>2, <2>1, FS_Subset
<1>6. ASSUME c[i] # c[2] PROVE Cardinality(S) <= 1
  <2>1. S \subseteq {1}
    BY <1>1, <1>6
  <2> QED BY <1>2, <2>1, FS_Subset
<1>7. Matches(c, i) = Cardinality(S)
  BY DEF Matches
<1> HIDE DEF S
<1> QED BY <1>4, <1>5, <1>6, <1>7

\* read_length_safe succeeds only if the last two copies agree, and returns
\* what they hold.
LEMMA VoteMeansAgreement ==
    ASSUME NEW c, Quorum(c)
    PROVE  c[1] = c[2] /\ Voted(c) = c[1]
<1> DEFINE R == Copies \ {SAFE_TRANSMISSION_COUNT - 1}
           M == {Matches(c, i) : i \in R}
           T == {i \in R : Matches(c, i) = Count(c)}
<1>1. R = {0, 1}
  BY DEF Copies, SAFE_TRANSMISSION_COUNT
<1>2. Matches(c, 0) \in Nat /\ Matches(c, 1) \in Nat
  BY FullMatch
<1>3. M = {Matches(c, 0), Matches(c, 1)}
  BY <1>1
<1>4. \E x \in M : \A y \in M : x >= y
  <2>1. CASE Matches(c, 0) >= Matches(c, 1)
    BY <1>2, <1>3, <2>1
  <2>2. CASE Matches(c, 1) >= Matches(c, 0)
    BY <1>2, <1>3, <2>2
  <2> QED BY <1>2, <2>1, <2>2
<1>5. Count(c) \in M
  BY <1>4 DEF Count, Max
<1>6. Count(c) > 1
  BY DEF Quorum, SAFE_TRANSMISSION_COUNT
<1>7. \E x \in T : \A y \in T : x =< y
  <2>1. T \subseteq {0, 1} /\ T # {}
    BY <1>1, <1>5
  <2> HIDE DEF T
  <2>2. CASE 0 \in T
    BY <2>1, <2>2
  <2>3. CASE 0 \notin T
    <3>1. T = {1}
      BY <2>1, <2>3
    <3> QED BY <3>1
  <2> QED BY <2>2, <2>3
<1>8. Min(T) \in T
  BY <1>7 DEF Min
<1>9. Matches(c, Min(T)) > 1
  BY <1>6, <1>8
<1>10. c[Min(T)] = c[1] /\ c[Min(T)] = c[2]
  BY <1>9, FullMatch
<1> QED BY <1>10 DEF Voted

\* A length that wins the vote and is not the one written is in two copies
\* that were corrupted.
LEMMA ReadLengthSound ==
    ASSUME Inv, ReadLengthSafe
    PROVE  LengthSound'
<1>1. SUFFICES ASSUME result'.code = "SUCCESS", result'.len # sent'
               PROVE  Cardinality({i \in faults' : result'.copies[i] = result'.len}) >= 2
  BY DEF LengthSound
<1> DEFINE c == wire.copies
           S == {i \in faults : c[i] = c[1]}
<1>2. Quorum(c) /\ wire.kind = "length"
  BY <1>1 DEF ReadLengthSafe
<1>3. /\ result'.len = Voted(c) /\ result'.copies = c
      /\ faults' = faults /\ sent' = sent
  BY <1>2 DEF ReadLengthSafe
<1>4. c[1] = c[2] /\ Voted(c) = c[1]
  BY <1>2, VoteMeansAgreement
<1>5. 1 \in Copies /\ 2 \in Copies /\ Copies = 0 .. 2
  BY DEF Copies, SAFE_TRANSMISSION_COUNT
<1>6. 1 \in faults /\ 2 \in faults /\ faults \subseteq 0 .. 2
  BY <1>1, <1>2, <1>3, <1>4, <1>5 DEF Inv, LengthFrame
<1>7. IsFiniteSet(S)
  <2>1. 0 \in Int /\ 2 \in Int
    OBVIOUS
  <2>2. IsFiniteSet(0 .. 2)
    BY <2>1, FS_Interval
  <2> QED BY <1>6, <2>2, FS_Subset
<1>8. Cardinality({1} \cup {2}) = 2 /\ IsFiniteSet({1} \cup {2})
  <2>1. IsFiniteSet({1}) /\ Cardinality({1}) = 1
    BY FS_Singleton
  <2> QED BY <2>1, FS_AddElement
<1>9. {1} \cup {2} \subseteq S
  BY <1>4, <1>6
<1>10. Cardinality({1} \cup {2}) <= Cardinality(S) /\ Cardinality(S) \in Nat
  BY <1>7, <1>9, FS_Subset, FS_CardinalityType
<1>11. S = {i \in faults' : result'.copies[i] = result'.len}
  BY <1>3, <1>4
<1> HIDE DEF S
<1> QED BY <1>8, <1>10, <1>11

-----------------------------------------------------------------------------
(***************************************************************************)
(* The two nibbles of a type.                                              *)
(***************************************************************************)
\* With at most one flipped bit, a nibble of zeros has at most one bit set,
\* and a nibble of ones has more than one.
LEMMA NibbleRobust ==
    ASSUME NEW N, IsFiniteSet(N), Cardinality(N) = 4, NEW faulty,
           Cardinality(faulty \cap N) <= 1, NEW bits
    PROVE  /\ bits \cap N = faulty \cap N => Cardinality(bits \cap N) <= 1
           /\ bits \cap N = N \ faulty => ~ (Cardinality(bits \cap N) <= 1)
<1> DEFINE hit == Cardinality(N \cap faulty)
           rest == Cardinality(N \ faulty)
<1>1. rest = 4 - hit
  BY FS_Difference
<1>2. N \cap faulty = faulty \cap N
  OBVIOUS
<1>3. IsFiniteSet(N \cap faulty)
  BY FS_Subset
<1>4. hit \in Nat /\ hit <= 1
  BY <1>2, <1>3, FS_CardinalityType
<1>5. ~ (rest <= 1)
  <2> HIDE DEF hit, rest
  <2> QED BY <1>1, <1>4
<1>6. ASSUME bits \cap N = N \ faulty PROVE ~ (Cardinality(bits \cap N) <= 1)
  BY <1>5, <1>6, Zenon
<1>7. ASSUME bits \cap N = faulty \cap N PROVE Cardinality(bits \cap N) <= 1
  BY <1>7, Zenon
<1> QED BY <1>6, <1>7

\* Both nibbles have four bits.
LEMMA NibbleSize == /\ IsFiniteSet(Low) /\ Cardinality(Low) = 4
                    /\ IsFiniteSet(High) /\ Cardinality(High) = 4
<1>1. 0 \in Int /\ 3 \in Int /\ 4 \in Int /\ 7 \in Int
  OBVIOUS
<1>2. /\ IsFiniteSet(0 .. 3)
      /\ Cardinality(0 .. 3) = IF 0 > 3 THEN 0 ELSE 3 - 0 + 1
  BY <1>1, FS_Interval
<1>3. /\ IsFiniteSet(4 .. 7)
      /\ Cardinality(4 .. 7) = IF 4 > 7 THEN 0 ELSE 7 - 4 + 1
  BY <1>1, FS_Interval
<1> QED BY <1>2, <1>3 DEF Low, High

\* safeMessageTypeInterpretation reads a type through one flipped bit in each
\* nibble.
LEMMA InterpretationRobust ==
    ASSUME NEW t \in DOMAIN ControlByte, NEW faulty,
           Cardinality(faulty \cap Low) <= 1, Cardinality(faulty \cap High) <= 1
    PROVE  SafeMessageTypeInterpretation(SymDiff(ControlByte[t], faulty)) = t
<1> DEFINE bits == SymDiff(ControlByte[t], faulty)
           low == Cardinality(bits \cap Low) <= 1
           high == Cardinality(bits \cap High) <= 1
<1>1. Low \cap High = {}
  BY DEF Low, High
<1>2. DOMAIN ControlByte = {"ACK", "NACK", "AVAILABLE", "RESERVED"}
  BY DEF ControlByte
<1>3. /\ bits \cap Low = faulty \cap Low => low
      /\ bits \cap Low = Low \ faulty => ~ low
  BY NibbleSize, NibbleRobust
<1>4. /\ bits \cap High = faulty \cap High => high
      /\ bits \cap High = High \ faulty => ~ high
  BY NibbleSize, NibbleRobust
<1>5. SafeMessageTypeInterpretation(bits) =
        CASE low /\ high -> "ACK" [] high /\ ~low -> "NACK"
          [] low /\ ~high -> "AVAILABLE" [] OTHER -> "RESERVED"
  BY DEF SafeMessageTypeInterpretation
<1>6. CASE t = "ACK"
  <2>1. ControlByte[t] = {}
    BY <1>6 DEF ControlByte
  <2>2. bits \cap Low = faulty \cap Low /\ bits \cap High = faulty \cap High
    BY <2>1 DEF SymDiff
  <2> QED BY <1>3, <1>4, <1>5, <1>6, <2>2
<1>7. CASE t = "NACK"
  <2>1. ControlByte[t] = Low
    BY <1>7 DEF ControlByte
  <2>2. bits \cap Low = Low \ faulty /\ bits \cap High = faulty \cap High
    BY <1>1, <2>1 DEF SymDiff
  <2> QED BY <1>3, <1>4, <1>5, <1>7, <2>2
<1>8. CASE t = "AVAILABLE"
  <2>1. ControlByte[t] = High
    BY <1>8 DEF ControlByte
  <2>2. bits \cap Low = faulty \cap Low /\ bits \cap High = High \ faulty
    BY <1>1, <2>1 DEF SymDiff
  <2> QED BY <1>3, <1>4, <1>5, <1>8, <2>2
<1>9. CASE t = "RESERVED"
  <2>1. ControlByte[t] = Low \cup High
    BY <1>9 DEF ControlByte
  <2>2. bits \cap Low = Low \ faulty /\ bits \cap High = High \ faulty
    BY <1>1, <2>1 DEF SymDiff
  <2> QED BY <1>3, <1>4, <1>5, <1>9, <2>2
<1> QED BY <1>2, <1>6, <1>7, <1>8, <1>9

-----------------------------------------------------------------------------
(***************************************************************************)
(* Every step keeps the invariant.                                         *)
(***************************************************************************)
\* A frame is written, or the write fails: no faults yet, nothing read yet.
LEMMA WriteStep ==
    ASSUME \/ \E len \in Lengths : WriteLengthSafe(len) \/ WriteLengthFails(len)
           \/ \E t \in DOMAIN ControlByte : WriteType(t)
           \/ \E data \in Payloads : WritePacket(data)
    PROVE  Inv'
<1> USE DEF Inv, UnreadFrame, LengthFrame, TypeFrame, PacketFrame, LengthSound, TypeRobust,
            ChecksumGuardsItself, NoFrame, Unread
<1>1. ASSUME NEW len \in Lengths, WriteLengthSafe(len)
      PROVE  Inv'
  BY <1>1 DEF WriteLengthSafe
<1>2. ASSUME NEW len \in Lengths, WriteLengthFails(len)
      PROVE  Inv'
  BY <1>2 DEF WriteLengthFails
<1>3. ASSUME NEW t \in DOMAIN ControlByte, WriteType(t)
      PROVE  Inv'
  <2>1. SymDiff(ControlByte[t], {}) = ControlByte[t]
    BY DEF SymDiff
  <2> QED BY <1>3, <2>1 DEF WriteType
<1>4. ASSUME NEW data \in Payloads, WritePacket(data)
      PROVE  Inv'
  <2>1. SymDiff(calc_checksum(data), {}) = calc_checksum(data)
    BY DEF SymDiff
  <2>2. Flipped' = {}
    BY <1>4 DEF WritePacket, Flipped
  <2> QED BY <1>4, <2>1, <2>2 DEF WritePacket
<1> QED BY <1>1, <1>2, <1>3, <1>4

\* A copy of the length is corrupted, or a bit of the type flips.
LEMMA SocketFaultStep ==
    ASSUME Inv,
           \/ \E i \in Copies, v \in Lengths : CorruptCopy(i, v)
           \/ \E b \in Low \cup High : FlipBit(b)
    PROVE  Inv'
<1>1. ASSUME NEW i \in Copies, NEW v \in Lengths, CorruptCopy(i, v)
      PROVE  Inv'
  <2>1. wire.kind = "length" /\ result = Unread /\ result' = Unread /\ sent' = sent
    BY <1>1 DEF CorruptCopy, Inv, UnreadFrame
  <2>2. wire = [kind |-> "length", copies |-> wire.copies]
    BY <2>1 DEF Inv, LengthFrame
  <2>3. wire' = [kind |-> "length", copies |-> [wire.copies EXCEPT ![i] = v]]
    BY <1>1, <2>2 DEF CorruptCopy
  <2>4. wire'.kind = "length" /\ wire'.copies = [wire.copies EXCEPT ![i] = v]
    BY <2>3
  <2>5. LengthFrame'
    <3>1. /\ DOMAIN wire.copies = Copies /\ faults \subseteq Copies
          /\ wire.copies = [k \in Copies |-> wire.copies[k]]
          /\ \A k \in Copies \ faults : wire.copies[k] = sent
      BY <2>1 DEF Inv, LengthFrame
    <3>2. faults' = faults \cup {i}
      BY <1>1 DEF CorruptCopy
    <3>3. \A k \in Copies \ faults' : wire'.copies[k] = sent
      BY <2>4, <3>1, <3>2
    <3>4. DOMAIN wire'.copies = Copies /\ faults' \subseteq Copies
      BY <2>4, <3>1, <3>2
    <3>5. wire'.copies = [k \in Copies |-> wire'.copies[k]]
      BY <2>4, <3>1
    <3> QED BY <2>1, <2>3, <2>4, <3>3, <3>4, <3>5 DEF LengthFrame
  <2> QED BY <2>1, <2>4, <2>5 DEF Inv, UnreadFrame, TypeFrame, PacketFrame,
              LengthSound, TypeRobust, ChecksumGuardsItself, Unread
<1>2. ASSUME NEW b \in Low \cup High, FlipBit(b)
      PROVE  Inv'
  <2>1. wire.kind = "type" /\ result = Unread /\ result' = Unread /\ sent' = sent
    BY <1>2 DEF FlipBit, Inv, UnreadFrame
  <2>2. /\ wire = [kind |-> "type", bits |-> wire.bits]
        /\ sent \in DOMAIN ControlByte /\ faults \subseteq Low \cup High
        /\ wire.bits = SymDiff(ControlByte[sent], faults)
    BY <2>1 DEF Inv, TypeFrame
  <2>3. wire' = [kind |-> "type", bits |-> SymDiff(wire.bits, {b})]
    BY <1>2, <2>2 DEF FlipBit
  <2>4. wire'.kind = "type" /\ wire'.bits = SymDiff(wire.bits, {b})
    BY <2>3
  <2>5. b \notin faults /\ faults' = faults \cup {b}
    BY <1>2 DEF FlipBit
  <2>6. wire'.bits = SymDiff(ControlByte[sent], faults')
    BY <2>2, <2>4, <2>5 DEF SymDiff
  <2>7. TypeFrame'
    BY <2>1, <2>2, <2>3, <2>4, <2>5, <2>6 DEF TypeFrame
  <2> QED BY <2>1, <2>4, <2>7 DEF Inv, UnreadFrame, LengthFrame, PacketFrame,
              LengthSound, TypeRobust, ChecksumGuardsItself, Unread
<1> QED BY <1>1, <1>2

\* A bit of the checksum or of the payload flips.
LEMMA LinkFaultStep ==
    ASSUME Inv,
           \/ \E b \in Word : FlipChecksumBit(b)
           \/ \E j \in 1 .. Len(wire.data), b \in Byte : FlipPayloadBit(j, b)
    PROVE  Inv'
<1>1. /\ wire.kind = "packet" /\ result = Unread /\ result' = Unread /\ sent' = sent
      /\ wire = [kind |-> "packet", data |-> wire.data, crc |-> wire.crc]
      /\ wire.crc = SymDiff(calc_checksum(sent), Flipped)
      /\ \A f \in faults : f[1] # 0 \/ \E b \in Word : f = <<0, b>>
      /\ (\A f \in faults : f[1] = 0) => wire.data = sent
  BY DEF Inv, PacketFrame, UnreadFrame, FlipChecksumBit, FlipPayloadBit
<1>2. SUFFICES ASSUME PacketFrame', wire'.kind = "packet" PROVE Inv'
  <2>1. wire'.kind = "packet"
    BY <1>1 DEF FlipChecksumBit, FlipPayloadBit
  <2>2. ASSUME NEW b \in Word, FlipChecksumBit(b)
        PROVE  PacketFrame'
    <3>1. /\ wire' = [kind |-> "packet", data |-> wire.data, crc |-> SymDiff(wire.crc, {b})]
          /\ <<0, b>> \notin faults /\ faults' = faults \cup {<<0, b>>}
      BY <1>1, <2>2 DEF FlipChecksumBit
    <3>2. wire'.data = wire.data /\ wire'.crc = SymDiff(wire.crc, {b})
      BY <3>1
    <3>3. Flipped' = Flipped \cup {b} /\ b \notin Flipped
      BY <3>1 DEF Flipped
    <3>4. wire'.crc = SymDiff(calc_checksum(sent), Flipped')
      BY <1>1, <3>2, <3>3 DEF SymDiff
    <3>5. \A f \in faults' : f[1] # 0 \/ \E k \in Word : f = <<0, k>>
      BY <1>1, <3>1
    <3>6. ASSUME \A f \in faults' : f[1] = 0 PROVE wire'.data = sent
      <4>1. \A f \in faults : f[1] = 0
        BY <3>1, <3>6
      <4> QED BY <1>1, <3>2, <4>1
    <3> QED BY <1>1, <3>1, <3>2, <3>4, <3>5, <3>6 DEF PacketFrame
  <2>3. ASSUME NEW j \in 1 .. Len(wire.data), NEW b \in Byte, FlipPayloadBit(j, b)
        PROVE  PacketFrame'
    <3>1. wire' = [kind |-> "packet", crc |-> wire.crc,
                   data |-> [wire.data EXCEPT ![j] = SymDiff(wire.data[j], {b})]]
      BY <1>1, <2>3 DEF FlipPayloadBit
    <3>2. wire'.crc = wire.crc
      BY <3>1
    <3>3. faults' = faults \cup {<<j, b>>}
      BY <2>3 DEF FlipPayloadBit
    <3>4. j # 0
      OBVIOUS
    <3>5. \A k \in Word : <<0, k>> # <<j, b>>
      BY <3>4
    <3>6. Flipped' = Flipped
      BY <3>3, <3>5 DEF Flipped
    <3>7. <<j, b>>[1] # 0
      BY <3>4
    <3>8. \A f \in faults' : f[1] # 0 \/ \E k \in Word : f = <<0, k>>
      BY <1>1, <3>3, <3>7
    <3>9. ~ (\A f \in faults' : f[1] = 0)
      BY <3>3, <3>7
    <3>10. wire' = [kind |-> "packet", data |-> wire'.data, crc |-> wire'.crc]
      BY <3>1
    <3> QED BY <1>1, <3>2, <3>6, <3>8, <3>9, <3>10 DEF PacketFrame
  <2> QED BY <2>1, <2>2, <2>3
<1> QED BY <1>1, <1>2 DEF Inv, UnreadFrame, LengthFrame, TypeFrame,
            LengthSound, TypeRobust, ChecksumGuardsItself, Unread

\* A length is read.
LEMMA ReadLengthStep ==
    ASSUME Inv,
           \/ ReadLengthSafe
           \/ \E code \in {"SOCKET_READ", "SOCKET_NO_CONN"} : ReadLengthFails(code)
    PROVE  Inv'
<1>1. wire'.kind = "none" /\ result'.code \notin {"TYPE", "ACCEPTED", "CRC_INVALID"}
  BY DEF ReadLengthSafe, ReadLengthFails, NoFrame
<1>2. LengthSound'
  <2>1. CASE ReadLengthSafe
    BY <2>1, ReadLengthSound
  <2>2. CASE \E code \in {"SOCKET_READ", "SOCKET_NO_CONN"} : ReadLengthFails(code)
    BY <2>2 DEF ReadLengthFails, LengthSound
  <2> QED BY <2>1, <2>2
<1> QED BY <1>1, <1>2 DEF Inv, UnreadFrame, LengthFrame, TypeFrame, PacketFrame,
            TypeRobust, ChecksumGuardsItself

\* A type is read.
LEMMA ReadTypeStep ==
    ASSUME Inv, ReadType
    PROVE  Inv'
<1>1. /\ wire'.kind = "none" /\ result'.code = "TYPE"
      /\ result'.type = SafeMessageTypeInterpretation(wire.bits)
      /\ faults' = faults /\ sent' = sent /\ wire.kind = "type"
  BY DEF ReadType, NoFrame
<1>2. sent \in DOMAIN ControlByte /\ wire.bits = SymDiff(ControlByte[sent], faults)
  BY <1>1 DEF Inv, TypeFrame
<1>3. ASSUME Cardinality(faults \cap Low) <= 1, Cardinality(faults \cap High) <= 1
      PROVE  result'.type = sent
  BY <1>1, <1>2, <1>3, InterpretationRobust
<1>4. TypeRobust'
  BY <1>1, <1>3 DEF TypeRobust
<1> QED BY <1>1, <1>4 DEF Inv, UnreadFrame, LengthFrame, TypeFrame, PacketFrame,
            LengthSound, ChecksumGuardsItself

\* A packet is read: the checksum of an intact payload matches exactly when
\* no bit of the checksum has flipped.
LEMMA ReadPacketStep ==
    ASSUME Inv, ReadPacket
    PROVE  Inv'
<1>1. /\ wire'.kind = "none" /\ wire.kind = "packet"
      /\ faults' = faults /\ sent' = sent
      /\ result' = IF verify_checksum(wire.data, wire.crc)
                   THEN [code |-> "ACCEPTED", data |-> wire.data]
                   ELSE [code |-> "CRC_INVALID"]
  BY DEF ReadPacket, NoFrame
<1>2. /\ wire.crc = SymDiff(calc_checksum(sent), Flipped)
      /\ \A f \in faults : f[1] # 0 \/ \E b \in Word : f = <<0, b>>
      /\ (\A f \in faults : f[1] = 0) => wire.data = sent
  BY <1>1 DEF Inv, PacketFrame
<1>3. ASSUME faults = {} PROVE verify_checksum(wire.data, wire.crc)
  <2>1. wire.data = sent /\ Flipped = {}
    BY <1>2, <1>3 DEF Flipped
  <2>2. wire.crc = calc_checksum(sent)
    BY <1>2, <2>1 DEF SymDiff
  <2> QED BY <2>1, <2>2 DEF verify_checksum
<1>4. ASSUME verify_checksum(wire.data, wire.crc), \A f \in faults : f[1] = 0
      PROVE  faults = {} /\ wire.data = sent
  <2>1. wire.data = sent
    BY <1>2, <1>4
  <2>2. SymDiff(calc_checksum(sent), Flipped) = calc_checksum(sent)
    BY <1>2, <1>4, <2>1 DEF verify_checksum
  <2>3. Flipped = {}
    BY <2>2 DEF SymDiff
  <2>4. \A f \in faults : \E b \in Word : f = <<0, b>>
    BY <1>2, <1>4
  <2>5. faults = {}
    BY <2>3, <2>4 DEF Flipped
  <2> QED BY <2>1, <2>5
<1>5. ChecksumGuardsItself'
  <2>1. CASE verify_checksum(wire.data, wire.crc)
    BY <1>1, <1>4, <2>1 DEF ChecksumGuardsItself
  <2>2. CASE ~ verify_checksum(wire.data, wire.crc)
    BY <1>1, <1>3, <2>2 DEF ChecksumGuardsItself
  <2> QED BY <2>1, <2>2
<1>6. result'.code \in {"ACCEPTED", "CRC_INVALID"}
  BY <1>1
<1> QED BY <1>1, <1>5, <1>6 DEF Inv, UnreadFrame, LengthFrame, TypeFrame, PacketFrame,
            LengthSound, TypeRobust

\* A step that changes nothing.
LEMMA StutterStep == Inv /\ UNCHANGED vars => Inv'
BY DEF vars, Inv, UnreadFrame, LengthFrame, TypeFrame, PacketFrame, Flipped,
       LengthSound, TypeRobust, ChecksumGuardsItself

-----------------------------------------------------------------------------
(***************************************************************************)
(* The theorems.                                                           *)
(***************************************************************************)
\* In every state the frame on the wire differs from what was written by the
\* faults so far, and what was read from it is as sound as the code promises.
THEOREM FrameInvariant == Spec => []Inv
<1>1. Init => Inv
  BY DEF Init, NoFrame, Unread, Inv, UnreadFrame, LengthFrame, TypeFrame, PacketFrame,
         LengthSound, TypeRobust, ChecksumGuardsItself
<1>2. Inv /\ [Next]_vars => Inv'
  BY WriteStep, SocketFaultStep, LinkFaultStep, ReadLengthStep, ReadTypeStep,
     ReadPacketStep, StutterStep DEF Next
<1> QED BY <1>1, <1>2, PTL DEF Spec

\* read_length_safe returns the length written unless two copies were changed
\* to the same wrong value, however many copies are corrupted.
THEOREM LengthVoteSound == Spec => []LengthSound
<1>1. Inv => LengthSound
  BY DEF Inv
<1> QED BY <1>1, FrameInvariant, PTL

\* safeMessageTypeInterpretation reads every type through one flipped bit in
\* each nibble.
THEOREM TypeReadRobust == Spec => []TypeRobust
<1>1. Inv => TypeRobust
  BY DEF Inv
<1> QED BY <1>1, FrameInvariant, PTL

\* handleReceivedPacket accepts every intact packet, and refuses every packet
\* whose checksum alone was damaged, by any number of flipped bits.
THEOREM ChecksumFaultsDetected == Spec => []ChecksumGuardsItself
<1>1. Inv => ChecksumGuardsItself
  BY DEF Inv
<1> QED BY <1>1, FrameInvariant, PTL

-----------------------------------------------------------------------------
(***************************************************************************)
(* The register of calc_checksum.  Induction goes over the least number    *)
(* for which a claim fails.                                                *)
(***************************************************************************)
\* Induction over the naturals, for a set of numbers.
LEMMA SetInduction ==
    ASSUME NEW S \in SUBSET Nat, 0 \in S, \A n \in S : n + 1 \in S
    PROVE  S = Nat
<1> SUFFICES ASSUME Nat \ S # {} PROVE FALSE
  OBVIOUS
<1>1. PICK x \in Nat \ S : \A y \in Nat \ S : ~ (<<y, x>> \in OpToRel(<, Nat))
  <2>1. Nat \ S \subseteq Nat
    OBVIOUS
  <2> QED BY <2>1, NatLessThanWellFounded, WFMin
<1>2. \A y \in Nat \ S : ~ (y < x)
  BY <1>1 DEF OpToRel
<1>3. x \in Nat /\ x # 0 /\ x - 1 \in Nat /\ x - 1 < x /\ (x - 1) + 1 = x
  OBVIOUS
<1>4. x - 1 \in S
  BY <1>2, <1>3
<1> QED BY <1>3, <1>4

\* The same up to a bound.
LEMMA BoundedInduction ==
    ASSUME NEW N \in Nat, NEW S, 0 \in S, \A n \in 0 .. N - 1 : n \in S => n + 1 \in S
    PROVE  0 .. N \subseteq S
<1> DEFINE T == {n \in Nat : n <= N => n \in S}
<1>1. T \in SUBSET Nat /\ 0 \in T
  OBVIOUS
<1>2. ASSUME NEW n \in T PROVE n + 1 \in T
  <2>1. n \in Nat /\ (n <= N => n \in S)
    OBVIOUS
  <2>2. n + 1 <= N => n \in 0 .. N - 1 /\ n <= N
    BY <2>1
  <2> QED BY <2>1, <2>2
<1>3. T = Nat
  <2> HIDE DEF T
  <2> QED BY <1>1, <1>2, SetInduction
<1> QED BY <1>3

\* calc_checksum starts from zero and takes one bit at a time.
LEMMA RegisterIs ==
    ASSUME NEW data, Len(data) \in Nat
    PROVE  /\ Register(data)[0] = {}
           /\ \A k \in 1 .. 8 * Len(data) + 16 :
                Register(data)[k] = ShiftIn(Register(data)[k - 1], BitRead(data, k))
<1> DEFINE N == 8 * Len(data) + 16
           Runs(g, n) == g = [k \in 0 .. n |-> IF k = 0 THEN {}
                                ELSE ShiftIn(g[k - 1], BitRead(data, k))]
           S == {n \in Nat : \E g : Runs(g, n)}
<1>1. 0 \in S
  <2> DEFINE g == [k \in 0 .. 0 |-> {}]
  <2>1. \A k \in 0 .. 0 : k = 0
    OBVIOUS
  <2>2. Runs(g, 0)
    BY <2>1
  <2> QED BY <2>2
<1>2. ASSUME NEW n \in S PROVE n + 1 \in S
  <2>1. n \in Nat
    OBVIOUS
  <2>2. PICK h : Runs(h, n)
    OBVIOUS
  <2> DEFINE g == [k \in 0 .. n + 1 |-> IF k = 0 THEN {}
                                        ELSE ShiftIn(h[k - 1], BitRead(data, k))]
  <2>3. ASSUME NEW k \in 0 .. n PROVE g[k] = h[k]
    <3>1. h[k] = IF k = 0 THEN {} ELSE ShiftIn(h[k - 1], BitRead(data, k))
      BY <2>2, Zenon
    <3>2. k \in 0 .. n + 1
      BY <2>1
    <3> QED BY <3>1, <3>2
  <2>4. ASSUME NEW k \in 0 .. n + 1, k # 0 PROVE g[k - 1] = h[k - 1]
    <3>1. k - 1 \in 0 .. n
      BY <2>1, <2>4
    <3> QED BY <2>3, <3>1
  <2> DEFINE f == [k \in 0 .. n + 1 |-> IF k = 0 THEN {}
                                        ELSE ShiftIn(g[k - 1], BitRead(data, k))]
  <2>5. \A k \in 0 .. n + 1 : g[k] = f[k]
    <3> SUFFICES ASSUME NEW k \in 0 .. n + 1 PROVE g[k] = f[k]
      OBVIOUS
    <3>1. g[k] = IF k = 0 THEN {} ELSE ShiftIn(h[k - 1], BitRead(data, k))
      OBVIOUS
    <3>2. f[k] = IF k = 0 THEN {} ELSE ShiftIn(g[k - 1], BitRead(data, k))
      BY Zenon
    <3> HIDE DEF g, f
    <3> QED BY <2>4, <3>1, <3>2
  <2>6. g = f
    <3>1. g = [k \in 0 .. n + 1 |-> g[k]] /\ f = [k \in 0 .. n + 1 |-> f[k]]
      OBVIOUS
    <3> HIDE DEF g, f
    <3> QED BY <2>5, <3>1
  <2>7. Runs(g, n + 1)
    BY <2>6, Zenon
  <2>8. n + 1 \in Nat
    BY <2>1
  <2> HIDE DEF g, Runs
  <2> QED BY <2>7, <2>8
<1>3. N \in S
  <2>1. S = Nat
    <3>1. S \in SUBSET Nat
      OBVIOUS
    <3> HIDE DEF S
    <3> QED BY <1>1, <1>2, <3>1, SetInduction
  <2>2. N \in Nat
    OBVIOUS
  <2> HIDE DEF S, N
  <2> QED BY <2>1, <2>2
<1>4. Runs(Register(data), N)
  <2>1. \E g : Runs(g, N)
    BY <1>3
  <2>2. Register(data) = CHOOSE g : Runs(g, N)
    BY DEF Register
  <2> QED BY <2>1, <2>2, Zenon
<1>5. \A k \in 0 .. N : Register(data)[k] = IF k = 0 THEN {}
                          ELSE ShiftIn(Register(data)[k - 1], BitRead(data, k))
  BY <1>4, Zenon
<1>6. 0 \in 0 .. N /\ \A k \in 1 .. N : k \in 0 .. N /\ k # 0
  OBVIOUS
<1> HIDE DEF N
<1> QED BY <1>5, <1>6 DEF N

-----------------------------------------------------------------------------
(***************************************************************************)
(* Parity of finite sets.                                                  *)
(***************************************************************************)
\* An odd number of elements
Odd(S) == Cardinality(S) % 2 = 1

\* The parity of a difference.
LEMMA OddDiff ==
    ASSUME NEW A, IsFiniteSet(A), NEW B, IsFiniteSet(B)
    PROVE  /\ IsFiniteSet(SymDiff(A, B))
           /\ Odd(SymDiff(A, B)) <=> (Odd(A) <=> ~ Odd(B))
<1> DEFINE a == Cardinality(A)
           b == Cardinality(B)
           c == Cardinality(A \cap B)
           d == Cardinality(SymDiff(A, B))
<1>1. IsFiniteSet(A \ B) /\ Cardinality(A \ B) = a - c
  BY FS_Difference
<1>2. IsFiniteSet(B \ A) /\ Cardinality(B \ A) = b - c
  <2>1. B \cap A = A \cap B
    OBVIOUS
  <2>2. IsFiniteSet(B \ A) /\ Cardinality(B \ A) = b - Cardinality(B \cap A)
    BY FS_Difference
  <2> QED BY <2>1, <2>2
<1>3. (A \ B) \cap (B \ A) = {} /\ Cardinality({}) = 0
  BY FS_EmptySet
<1>4. /\ IsFiniteSet((A \ B) \cup (B \ A))
      /\ Cardinality((A \ B) \cup (B \ A)) =
           Cardinality(A \ B) + Cardinality(B \ A) - Cardinality((A \ B) \cap (B \ A))
  BY <1>1, <1>2, FS_Union
<1>5. a \in Nat /\ b \in Nat /\ c \in Nat
  <2>1. IsFiniteSet(A \cap B)
    BY FS_Subset
  <2> QED BY <2>1, FS_CardinalityType
<1>6. IsFiniteSet(SymDiff(A, B)) /\ d = (a - c) + (b - c) - 0
  BY <1>1, <1>2, <1>3, <1>4 DEF SymDiff
<1>7. d \in Nat
  BY <1>6, FS_CardinalityType
<1> HIDE DEF a, b, c, d
<1>8. d % 2 = 1 <=> (a % 2 = 1 <=> ~ (b % 2 = 1))
  BY <1>5, <1>6, <1>7
<1> QED BY <1>6, <1>8 DEF Odd, a, b, d

\* One element more or less changes the parity.
LEMMA OddToggle ==
    ASSUME NEW A, IsFiniteSet(A), NEW x
    PROVE  IsFiniteSet(SymDiff(A, {x})) /\ (Odd(SymDiff(A, {x})) <=> ~ Odd(A))
<1>1. IsFiniteSet({x}) /\ Cardinality({x}) = 1
  BY FS_Singleton
<1>2. Odd({x})
  BY <1>1 DEF Odd
<1> QED BY <1>1, <1>2, OddDiff

\* One is odd.
LEMMA OddSingle == ASSUME NEW x PROVE Odd({x})
<1>1. Cardinality({x}) = 1
  BY FS_Singleton
<1> QED BY <1>1 DEF Odd

\* Numbers that are moved together keep their parity.
LEMMA OddImage ==
    ASSUME NEW A, IsFiniteSet(A), NEW B, NEW f \in Bijection(A, B)
    PROVE  IsFiniteSet(B) /\ (Odd(B) <=> Odd(A))
BY FS_Bijection DEF Odd, ExistsBijection

\* A shift keeps the parity.
LEMMA OddShift ==
    ASSUME NEW A \in SUBSET Nat, IsFiniteSet(A)
    PROVE  IsFiniteSet({i + 1 : i \in A}) /\ (Odd({i + 1 : i \in A}) <=> Odd(A))
<1> DEFINE B == {i + 1 : i \in A}
           f == [i \in A |-> i + 1]
<1>1. f \in [A -> B] /\ \A i \in A : f[i] = i + 1
  OBVIOUS
<1>2. \A i, j \in A : f[i] = f[j] => i = j
  BY <1>1
<1>3. \A e \in B : \E i \in A : f[i] = e
  OBVIOUS
<1>4. f \in Bijection(A, B)
  <2> HIDE DEF f, B
  <2> QED BY <1>1, <1>2, <1>3 DEF Bijection, Injection, Surjection, IsInjective
<1> HIDE DEF f, B
<1>5. IsFiniteSet(B) /\ (Odd(B) <=> Odd(A))
  BY <1>4, OddImage
<1> QED BY <1>5 DEF B

-----------------------------------------------------------------------------
(***************************************************************************)
(* Multiples of the generator, and multiplication by x.                    *)
(***************************************************************************)
\* A set of numbers with a bound has a greatest and a least one.
LEMMA Greatest ==
    ASSUME NEW S \in SUBSET Nat, S # {}, NEW n \in Nat, \A y \in S : y <= n
    PROVE  Max(S) \in S /\ \A y \in S : Max(S) >= y
<1> DEFINE U == {u \in Nat : \A y \in S : y <= u}
<1>1. U \subseteq Nat /\ n \in U
  OBVIOUS
<1>2. PICK u \in U : \A v \in U : ~ (<<v, u>> \in OpToRel(<, Nat))
  <2> HIDE DEF U
  <2>1. U # {}
    BY <1>1
  <2> QED BY <1>1, <2>1, NatLessThanWellFounded, WFMin
<1>3. u \in Nat /\ \A y \in S : y <= u
  OBVIOUS
<1>4. \A v \in U : ~ (v < u)
  BY <1>1, <1>2 DEF OpToRel
<1>5. u \in S
  <2> SUFFICES ASSUME u \notin S PROVE FALSE
    OBVIOUS
  <2>1. \A y \in S : y \in Nat /\ y < u
    BY <1>3
  <2>2. u - 1 \in Nat /\ \A y \in S : y <= u - 1
    <3>1. PICK y \in S : TRUE
      OBVIOUS
    <3>2. u > 0
      BY <1>3, <2>1, <3>1
    <3> QED BY <1>3, <2>1, <3>2
  <2>3. u - 1 \in U /\ u - 1 < u
    BY <1>3, <2>2
  <2> QED BY <1>4, <2>3
<1>6. \E x \in S : \A y \in S : x >= y
  BY <1>3, <1>5
<1> QED BY <1>6 DEF Max

\* A set of numbers has a least one.
LEMMA Least ==
    ASSUME NEW S \in SUBSET Nat, S # {}
    PROVE  \E x \in S : \A y \in S : x <= y
<1>1. PICK x \in S : \A y \in S : ~ (<<y, x>> \in OpToRel(<, Nat))
  BY NatLessThanWellFounded, WFMin
<1>2. \A y \in S : ~ (y < x)
  BY <1>1 DEF OpToRel
<1> QED BY <1>2

\* The factors that contribute to a power of the product
Hits(q, e) == {i \in q : \E g \in Generator : i + g = e}

\* Times x
Up(q) == {i + 1 : i \in q}

\* Finitely many factors contribute.
LEMMA HitsFinite ==
    ASSUME NEW n \in Nat, NEW q \in SUBSET (0 .. n), NEW e
    PROVE  IsFiniteSet(q) /\ IsFiniteSet(Hits(q, e)) /\ Hits(q, e) \in SUBSET Nat
<1>1. IsFiniteSet(0 .. n)
  <2>1. 0 \in Int /\ n \in Int
    OBVIOUS
  <2> QED BY <2>1, FS_Interval
<1>2. IsFiniteSet(q)
  BY <1>1, FS_Subset
<1>3. Hits(q, e) \in SUBSET q
  BY DEF Hits
<1>4. IsFiniteSet(Hits(q, e))
  BY <1>2, <1>3, FS_Subset
<1>5. q \in SUBSET Nat
  OBVIOUS
<1> QED BY <1>2, <1>3, <1>4, <1>5

\* The coefficients of a product, without the bound on the powers.
LEMMA ProductIs ==
    ASSUME NEW n \in Nat, NEW q \in SUBSET (0 .. n)
    PROVE  TimesGenerator(q) = {e \in Nat : Odd(Hits(q, e))}
<1> DEFINE m == Max(q \cup {0})
<1>1. m \in Nat /\ \A i \in q : i <= m
  <2>1. q \cup {0} \in SUBSET Nat /\ q \cup {0} # {} /\ \A y \in q \cup {0} : y <= n
    OBVIOUS
  <2>2. m \in q \cup {0} /\ \A y \in q \cup {0} : m >= y
    BY <2>1, Greatest
  <2> HIDE DEF m
  <2> QED BY <2>1, <2>2
<1> HIDE DEF m
<1>2. ASSUME NEW e \in Nat, Odd(Hits(q, e)) PROVE e \in 0 .. m + 16
  <2>1. Hits(q, e) # {}
    <3>1. Cardinality({}) = 0
      BY FS_EmptySet
    <3>2. ~ Odd({})
      BY <3>1 DEF Odd
    <3> QED BY <1>2, <3>2
  <2>2. PICK i \in q, g \in Generator : i + g = e
    BY <2>1 DEF Hits
  <2> QED BY <1>1, <2>2 DEF Generator
<1>3. TimesGenerator(q) = {e \in 0 .. m + 16 : Odd(Hits(q, e))}
  BY DEF TimesGenerator, Odd, Hits, m
<1>4. \A e \in 0 .. m + 16 : e \in Nat
  BY <1>1
<1> QED BY <1>2, <1>3, <1>4

\* The product with zero.
LEMMA ProductEmpty == TimesGenerator({}) = {}
<1>1. \A e : Hits({}, e) = {}
  BY DEF Hits
<1>2. ~ Odd({})
  BY FS_EmptySet DEF Odd
<1>3. 0 \in Nat /\ {} \in SUBSET (0 .. 0)
  OBVIOUS
<1>4. TimesGenerator({}) = {e \in Nat : Odd(Hits({}, e))}
  BY <1>3, ProductIs
<1> QED BY <1>1, <1>2, <1>4

\* The product with x q and with x q + 1.
LEMMA TimesX ==
    ASSUME NEW n \in Nat, NEW q \in SUBSET (0 .. n)
    PROVE  /\ TimesGenerator(Up(q)) = Up(TimesGenerator(q))
           /\ TimesGenerator(Up(q) \cup {0}) = SymDiff(Up(TimesGenerator(q)), Generator)
<1>1. Up(q) \in SUBSET (0 .. n + 1) /\ Up(q) \cup {0} \in SUBSET (0 .. n + 1) /\ 0 \notin Up(q)
  BY DEF Up
<1>2. /\ TimesGenerator(q) = {e \in Nat : Odd(Hits(q, e))}
      /\ TimesGenerator(Up(q)) = {e \in Nat : Odd(Hits(Up(q), e))}
      /\ TimesGenerator(Up(q) \cup {0}) = {e \in Nat : Odd(Hits(Up(q) \cup {0}, e))}
  <2>1. n + 1 \in Nat
    OBVIOUS
  <2> QED BY <1>1, <2>1, ProductIs
<1>3. \A i \in q : i \in Nat
  OBVIOUS
<1>4. ASSUME NEW e \in Nat
      PROVE  Odd(Hits(Up(q), e)) <=> e \in Up(TimesGenerator(q))
  <2>1. CASE e = 0
    <3>1. Hits(Up(q), e) = {}
      BY <1>3, <2>1 DEF Hits, Up, Generator
    <3>2. ~ Odd({})
      BY FS_EmptySet DEF Odd
    <3>3. e \notin Up(TimesGenerator(q))
      BY <1>2, <2>1 DEF Up
    <3> QED BY <3>1, <3>2, <3>3
  <2>2. CASE e # 0
    <3>1. e - 1 \in Nat /\ (e - 1) + 1 = e
      BY <2>2
    <3>2. Hits(Up(q), e) = Up(Hits(q, e - 1))
      <4>1. \A i \in q, g \in Generator : (i + 1) + g = e <=> i + g = e - 1
        BY <1>3, <3>1 DEF Generator
      <4> QED BY <4>1 DEF Hits, Up
    <3>3. Odd(Up(Hits(q, e - 1))) <=> Odd(Hits(q, e - 1))
      <4>1. IsFiniteSet(Hits(q, e - 1)) /\ Hits(q, e - 1) \in SUBSET Nat
        BY HitsFinite
      <4> QED BY <4>1, OddShift DEF Up
    <3>4. e - 1 \in TimesGenerator(q) <=> Odd(Hits(q, e - 1))
      BY <1>2, <3>1
    <3>5. e \in Up(TimesGenerator(q)) <=> e - 1 \in TimesGenerator(q)
      BY <1>2, <3>1 DEF Up
    <3> QED BY <3>2, <3>3, <3>4, <3>5
  <2> QED BY <2>1, <2>2
<1>5. Up(TimesGenerator(q)) \subseteq Nat /\ Generator \subseteq Nat
  BY <1>2 DEF Up, Generator
<1>6. ASSUME NEW e \in Nat
      PROVE  Odd(Hits(Up(q) \cup {0}, e)) <=>
             e \in SymDiff(Up(TimesGenerator(q)), Generator)
  <2>1. CASE e \in Generator
    <3>1. Hits(Up(q) \cup {0}, e) = SymDiff(Hits(Up(q), e), {0})
      BY <1>1, <2>1 DEF Hits, SymDiff, Generator
    <3>2. IsFiniteSet(Hits(Up(q), e))
      <4>1. n + 1 \in Nat
        OBVIOUS
      <4> QED BY <1>1, <4>1, HitsFinite
    <3>3. Odd(Hits(Up(q) \cup {0}, e)) <=> ~ Odd(Hits(Up(q), e))
      BY <3>1, <3>2, OddToggle
    <3> QED BY <1>4, <2>1, <3>3 DEF SymDiff
  <2>2. CASE e \notin Generator
    <3>1. Hits(Up(q) \cup {0}, e) = Hits(Up(q), e)
      BY <1>1, <2>2 DEF Hits, Generator
    <3> QED BY <1>4, <2>2, <3>1 DEF SymDiff
  <2> QED BY <2>1, <2>2
<1>7. TimesGenerator(Up(q)) = Up(TimesGenerator(q))
  BY <1>2, <1>4, <1>5
<1>8. SymDiff(Up(TimesGenerator(q)), Generator) \subseteq Nat
  BY <1>5 DEF SymDiff
<1>9. TimesGenerator(Up(q) \cup {0}) = SymDiff(Up(TimesGenerator(q)), Generator)
  BY <1>2, <1>6, <1>8
<1> QED BY <1>7, <1>9

-----------------------------------------------------------------------------
(***************************************************************************)
(* The register is the remainder of what has been read.                    *)
(***************************************************************************)
\* The polynomial of the first k bits that are read
Prefix(data, k) == {k - j : j \in {i \in 1 .. k : BitRead(data, i)}}

\* Multiplication by x is linear.
LEMMA UpDiff ==
    ASSUME NEW A \in SUBSET Nat, NEW B \in SUBSET Nat
    PROVE  Up(SymDiff(A, B)) = SymDiff(Up(A), Up(B))
<1>1. \A i \in Nat : (i + 1 \in Up(A) <=> i \in A) /\ (i + 1 \in Up(B) <=> i \in B)
  BY DEF Up
<1>2. ASSUME NEW e PROVE e \in Up(SymDiff(A, B)) <=> e \in SymDiff(Up(A), Up(B))
  <2>1. ASSUME NEW i \in Nat, e = i + 1
        PROVE  e \in Up(SymDiff(A, B)) <=> e \in SymDiff(Up(A), Up(B))
    <3>1. e \in Up(SymDiff(A, B)) <=> i \in SymDiff(A, B)
      BY <2>1 DEF Up, SymDiff
    <3> QED BY <1>1, <2>1, <3>1 DEF SymDiff
  <2>2. ASSUME e \in Up(SymDiff(A, B)) \/ e \in SymDiff(Up(A), Up(B))
        PROVE  \E i \in Nat : e = i + 1
    BY <2>2 DEF Up, SymDiff
  <2> QED BY <2>1, <2>2
<1> QED BY <1>2

\* Differences can be taken in any order.
LEMMA DiffAssoc ==
    ASSUME NEW A, NEW B, NEW C
    PROVE  SymDiff(A, SymDiff(B, C)) = SymDiff(SymDiff(A, B), C)
BY DEF SymDiff

\* One turn of the loop multiplies by x, adds the bit and subtracts the
\* generator if the power 16 appears.
LEMMA ShiftInDivides ==
    ASSUME NEW P \in SUBSET Nat, NEW out \in SUBSET Word, NEW bit \in BOOLEAN
    PROVE  LET new == Up(P) \cup (IF bit THEN {0} ELSE {})
           IN  SymDiff(new, ShiftIn(out, bit)) =
                 IF 15 \in out THEN SymDiff(Up(SymDiff(P, out)), Generator)
                               ELSE Up(SymDiff(P, out))
<1> DEFINE last == IF bit THEN {0} ELSE {}
           new == Up(P) \cup last
           low == Up(out \ {15})
           s == Shifted(out, bit)
<1>1. s = low \cup last /\ 0 \notin low /\ 0 \notin Up(P)
  BY DEF Shifted, Up, Word
<1>2. SymDiff(new, s) = SymDiff(Up(P), low)
  <2>1. last = {0} \/ last = {}
    OBVIOUS
  <2> HIDE DEF last, low
  <2> QED BY <1>1, <2>1 DEF SymDiff
<1>3. out \in SUBSET Nat
  BY DEF Word
<1>4. Up(SymDiff(P, out)) = SymDiff(Up(P), Up(out))
  BY <1>3, UpDiff
<1>5. CASE 15 \notin out
  <2>1. Up(out) = low
    <3>1. out \ {15} = out
      BY <1>5
    <3> QED BY <3>1
  <2>2. ShiftIn(out, bit) = s
    BY <1>5 DEF ShiftIn
  <2> HIDE DEF s, new, low
  <2> QED BY <1>2, <1>4, <1>5, <2>1, <2>2 DEF new
<1>6. CASE 15 \in out
  <2>1. Up(out) = low \cup {16} /\ 16 \notin low
    BY <1>3, <1>6 DEF Up, Word
  <2>2. ShiftIn(out, bit) = SymDiff(s, CRC16)
    BY <1>6 DEF ShiftIn
  <2>3. SymDiff(new, ShiftIn(out, bit)) = SymDiff(SymDiff(Up(P), low), CRC16)
    <3> HIDE DEF s, new, low
    <3>1. SymDiff(new, SymDiff(s, CRC16)) = SymDiff(SymDiff(new, s), CRC16)
      BY DiffAssoc
    <3> QED BY <1>2, <2>2, <3>1
  <2>4. Generator = CRC16 \cup {16} /\ 16 \notin CRC16
    BY DEF Generator, CRC16
  <2>5. SymDiff(SymDiff(Up(P), Up(out)), Generator) = SymDiff(SymDiff(Up(P), low), CRC16)
    <3> HIDE DEF low
    <3> QED BY <2>1, <2>4 DEF SymDiff
  <2> HIDE DEF s, new, low
  <2> QED BY <1>4, <1>6, <2>3, <2>5 DEF new
<1> QED BY <1>5, <1>6

\* The register holds no more than 16 bits, and no more than were read.
LEMMA ShiftInBits ==
    ASSUME NEW k \in Nat, NEW out \in SUBSET Word, out \subseteq 0 .. k - 1,
           NEW bit \in BOOLEAN
    PROVE  ShiftIn(out, bit) \in SUBSET Word /\ ShiftIn(out, bit) \subseteq 0 .. k
<1>1. Shifted(out, bit) \subseteq Word /\ Shifted(out, bit) \subseteq 0 .. k
  BY DEF Shifted, Word
<1>2. CASE 15 \notin out
  BY <1>1, <1>2 DEF ShiftIn
<1>3. CASE 15 \in out
  <2>1. k >= 16
    BY <1>3
  <2>2. CRC16 \subseteq Word /\ CRC16 \subseteq 0 .. k
    BY <2>1 DEF CRC16, Word
  <2>3. ShiftIn(out, bit) = SymDiff(Shifted(out, bit), CRC16)
    BY <1>3 DEF ShiftIn
  <2> QED BY <1>1, <2>2, <2>3 DEF SymDiff
<1> QED BY <1>2, <1>3

\* One more bit is read.
LEMMA PrefixStep ==
    ASSUME NEW data, NEW k \in Nat
    PROVE  /\ Prefix(data, k) \in SUBSET Nat
           /\ Prefix(data, k + 1) =
                Up(Prefix(data, k)) \cup (IF BitRead(data, k + 1) THEN {0} ELSE {})
<1>1. Prefix(data, k) \in SUBSET Nat
  BY DEF Prefix
<1>2. ASSUME NEW e
      PROVE  e \in Prefix(data, k + 1) <=>
               e \in Up(Prefix(data, k)) \/ (BitRead(data, k + 1) /\ e = 0)
  <2>1. ASSUME NEW j \in 1 .. k + 1, BitRead(data, j), e = (k + 1) - j
        PROVE  e \in Up(Prefix(data, k)) \/ (BitRead(data, k + 1) /\ e = 0)
    <3>1. CASE j = k + 1
      BY <2>1, <3>1
    <3>2. CASE j # k + 1
      <4>1. j \in 1 .. k /\ e = (k - j) + 1
        BY <2>1, <3>2
      <4>2. k - j \in Prefix(data, k)
        BY <2>1, <4>1 DEF Prefix
      <4> QED BY <4>1, <4>2 DEF Up
    <3> QED BY <3>1, <3>2
  <2>2. ASSUME NEW j \in 1 .. k, BitRead(data, j), e = (k - j) + 1
        PROVE  e \in Prefix(data, k + 1)
    <3>1. j \in 1 .. k + 1 /\ e = (k + 1) - j
      BY <2>2
    <3> QED BY <2>2, <3>1 DEF Prefix
  <2>3. ASSUME BitRead(data, k + 1), e = 0
        PROVE  e \in Prefix(data, k + 1)
    <3>1. k + 1 \in 1 .. k + 1 /\ e = (k + 1) - (k + 1)
      BY <2>3
    <3> QED BY <2>3, <3>1 DEF Prefix
  <2>4. e \in Prefix(data, k + 1) =>
          \E j \in 1 .. k + 1 : BitRead(data, j) /\ e = (k + 1) - j
    BY DEF Prefix
  <2>5. e \in Up(Prefix(data, k)) => \E j \in 1 .. k : BitRead(data, j) /\ e = (k - j) + 1
    BY DEF Prefix, Up
  <2> QED BY <2>1, <2>2, <2>3, <2>4, <2>5
<1> QED BY <1>1, <1>2

\* A bit is set or not.
LEMMA BitReadType == ASSUME NEW data, NEW k PROVE BitRead(data, k) \in BOOLEAN
BY DEF BitRead

\* After k bits the register is the remainder of what was read.
LEMMA RegisterDivides ==
    ASSUME NEW data, Len(data) \in Nat, NEW k \in 0 .. 8 * Len(data) + 16
    PROVE  /\ Register(data)[k] \in SUBSET Word
           /\ \E q \in SUBSET (0 .. k - 17) :
                TimesGenerator(q) = SymDiff(Prefix(data, k), Register(data)[k])
<1> DEFINE N == 8 * Len(data) + 16
           R == Register(data)
           Good(m) == /\ R[m] \in SUBSET Word /\ R[m] \subseteq 0 .. m - 1
                      /\ \E q \in SUBSET (0 .. m - 17) :
                           TimesGenerator(q) = SymDiff(Prefix(data, m), R[m])
           S == {m \in Nat : Good(m)}
<1>0. N \in Nat
  OBVIOUS
<1>1. R[0] = {} /\ \A m \in 1 .. N : R[m] = ShiftIn(R[m - 1], BitRead(data, m))
  BY RegisterIs
<1> HIDE DEF R, N
<1>2. 0 \in S
  <2>1. Prefix(data, 0) = {}
    BY DEF Prefix
  <2>2. TimesGenerator({}) = {}
    BY ProductEmpty
  <2>3. SymDiff({}, {}) = {}
    BY DEF SymDiff
  <2>4. {} \in SUBSET (0 .. 0 - 17) /\ {} \in SUBSET Word /\ {} \subseteq 0 .. 0 - 1
    OBVIOUS
  <2>5. Good(0)
    BY <1>1, <2>1, <2>2, <2>3, <2>4
  <2> QED BY <2>5
<1>3. ASSUME NEW m \in 0 .. N - 1, m \in S PROVE m + 1 \in S
  <2>0. m \in Nat /\ m + 1 \in 1 .. N /\ (m + 1) - 1 = m
    BY <1>0
  <2>1. /\ R[m] \in SUBSET Word /\ R[m] \subseteq 0 .. m - 1
        /\ \E q \in SUBSET (0 .. m - 17) :
             TimesGenerator(q) = SymDiff(Prefix(data, m), R[m])
    BY <1>3
  <2>2. PICK q \in SUBSET (0 .. m - 17) :
          TimesGenerator(q) = SymDiff(Prefix(data, m), R[m])
    BY <2>1
  <2> DEFINE bit == BitRead(data, m + 1)
             P == Prefix(data, m)
             out == R[m]
             next == R[m + 1]
  <2>3. bit \in BOOLEAN
    BY BitReadType
  <2>4. next = ShiftIn(out, bit)
    BY <1>1, <2>0
  <2>5. P \in SUBSET Nat /\ Prefix(data, m + 1) = Up(P) \cup (IF bit THEN {0} ELSE {})
    BY <2>0, PrefixStep
  <2> HIDE DEF bit, P, out, next
  <2>6. SymDiff(Prefix(data, m + 1), next) =
          IF 15 \in out THEN SymDiff(Up(SymDiff(P, out)), Generator)
                        ELSE Up(SymDiff(P, out))
    <3>1. out \in SUBSET Word
      BY <2>1 DEF out
    <3> QED BY <2>3, <2>4, <2>5, <3>1, ShiftInDivides
  <2>7. TimesGenerator(q) = SymDiff(P, out)
    BY <2>2 DEF P, out
  <2>8. q \in SUBSET (0 .. m)
    BY <2>0
  <2>9. /\ TimesGenerator(Up(q)) = Up(SymDiff(P, out))
        /\ TimesGenerator(Up(q) \cup {0}) = SymDiff(Up(SymDiff(P, out)), Generator)
    BY <2>0, <2>7, <2>8, TimesX
  <2>10. Up(q) \in SUBSET (0 .. (m + 1) - 17)
    BY <2>0 DEF Up
  <2>11. 15 \in out => 0 \in 0 .. (m + 1) - 17
    BY <2>0, <2>1 DEF out
  <2>12. \E r \in SUBSET (0 .. (m + 1) - 17) :
           TimesGenerator(r) = SymDiff(Prefix(data, m + 1), next)
    <3>1. CASE 15 \in out
      <4>1. Up(q) \cup {0} \in SUBSET (0 .. (m + 1) - 17)
        BY <2>10, <2>11, <3>1
      <4> QED BY <2>6, <2>9, <3>1, <4>1
    <3>2. CASE 15 \notin out
      BY <2>6, <2>9, <2>10, <3>2
    <3> QED BY <3>1, <3>2
  <2>13. next \in SUBSET Word /\ next \subseteq 0 .. (m + 1) - 1
    <3>1. out \in SUBSET Word /\ out \subseteq 0 .. m - 1
      BY <2>1 DEF out
    <3>2. next \in SUBSET Word /\ next \subseteq 0 .. m
      BY <2>0, <2>3, <2>4, <3>1, ShiftInBits
    <3> QED BY <2>0, <3>2
  <2>14. Good(m + 1)
    BY <2>12, <2>13 DEF next
  <2>15. m + 1 \in Nat
    BY <2>0
  <2> HIDE DEF Good
  <2> QED BY <2>14, <2>15
<1>4. 0 .. N \subseteq S
  <2> HIDE DEF S
  <2> QED BY <1>0, <1>2, <1>3, BoundedInduction
<1>5. k \in S
  BY <1>4 DEF N
<1>6. Good(k)
  <2> HIDE DEF Good
  <2> QED BY <1>5
<1> QED BY <1>6 DEF R

-----------------------------------------------------------------------------
(***************************************************************************)
(* The checksum is the remainder of the payload.                           *)
(***************************************************************************)
\* Behind the data zeros are read, so that all that is read is the data times
\* x^16.
LEMMA PrefixIsPolynomial ==
    ASSUME NEW data, Len(data) \in Nat
    PROVE  Prefix(data, 8 * Len(data) + 16) = {e + 16 : e \in Polynomial(data)}
<1> DEFINE n == 8 * Len(data)
<1>1. n \in Nat
  OBVIOUS
<1>2. \A j : BitRead(data, j) => j <= n
  BY DEF BitRead
<1>3. Prefix(data, n + 16) = {(n + 16) - j : j \in {i \in 1 .. n + 16 : BitRead(data, i)}}
  BY DEF Prefix
<1>4. Polynomial(data) = {n - k : k \in {j \in 1 .. n : BitRead(data, j)}}
  BY DEF Polynomial
<1> HIDE DEF n
<1>5. ASSUME NEW e
      PROVE  e \in Prefix(data, n + 16) <=> e \in {d + 16 : d \in Polynomial(data)}
  <2>1. ASSUME e \in Prefix(data, n + 16)
        PROVE  e \in {d + 16 : d \in Polynomial(data)}
    <3>1. PICK j \in 1 .. n + 16 : BitRead(data, j) /\ e = (n + 16) - j
      BY <1>3, <2>1
    <3>2. j \in 1 .. n /\ e = (n - j) + 16
      BY <1>1, <1>2, <3>1
    <3>3. n - j \in Polynomial(data)
      BY <1>4, <3>1, <3>2
    <3> QED BY <3>2, <3>3
  <2>2. ASSUME e \in {d + 16 : d \in Polynomial(data)}
        PROVE  e \in Prefix(data, n + 16)
    <3>1. PICK j \in 1 .. n : BitRead(data, j) /\ e = (n - j) + 16
      BY <1>4, <2>2
    <3>2. j \in 1 .. n + 16 /\ e = (n + 16) - j
      BY <1>1, <3>1
    <3> QED BY <1>3, <3>1, <3>2
  <2> QED BY <2>1, <2>2
<1> QED BY <1>5 DEF n

\* calc_checksum returns the remainder, with its bits reversed.
LEMMA ChecksumRemainder ==
    ASSUME NEW data, Len(data) \in Nat
    PROVE  /\ calc_checksum(data) \in SUBSET Word
           /\ IsRemainder({15 - i : i \in calc_checksum(data)}, data)
<1> DEFINE N == 8 * Len(data) + 16
           r == Register(data)[N]
<1>1. N \in 0 .. N /\ N \in 0 .. 8 * Len(data) + 16
  OBVIOUS
<1>2. /\ r \in SUBSET Word
      /\ \E q \in SUBSET (0 .. N - 17) : TimesGenerator(q) = SymDiff(Prefix(data, N), r)
  BY <1>1, RegisterDivides
<1>3. N - 17 = 8 * Len(data) - 1
  OBVIOUS
<1>4. Prefix(data, N) = {e + 16 : e \in Polynomial(data)}
  BY PrefixIsPolynomial
<1>5. calc_checksum(data) = {15 - i : i \in r}
  BY DEF calc_checksum
<1> HIDE DEF r, N
<1>6. {15 - i : i \in r} \in SUBSET Word
  BY <1>2 DEF Word
<1>7. {15 - i : i \in {15 - j : j \in r}} = r
  <2>1. \A j \in r : 15 - (15 - j) = j
    BY <1>2 DEF Word
  <2> QED BY <2>1
<1> QED BY <1>2, <1>3, <1>4, <1>5, <1>6, <1>7 DEF IsRemainder

-----------------------------------------------------------------------------
(***************************************************************************)
(* How the multiples of the generator look.                                *)
(***************************************************************************)
\* The product is linear.
LEMMA TimesDiff ==
    ASSUME NEW n \in Nat, NEW p \in SUBSET (0 .. n), NEW q \in SUBSET (0 .. n)
    PROVE  TimesGenerator(SymDiff(p, q)) = SymDiff(TimesGenerator(p), TimesGenerator(q))
<1>1. SymDiff(p, q) \in SUBSET (0 .. n)
  BY DEF SymDiff
<1>2. /\ TimesGenerator(p) = {e \in Nat : Odd(Hits(p, e))}
      /\ TimesGenerator(q) = {e \in Nat : Odd(Hits(q, e))}
      /\ TimesGenerator(SymDiff(p, q)) = {e \in Nat : Odd(Hits(SymDiff(p, q), e))}
  BY <1>1, ProductIs
<1>3. ASSUME NEW e \in Nat
      PROVE  Odd(Hits(SymDiff(p, q), e)) <=> (Odd(Hits(p, e)) <=> ~ Odd(Hits(q, e)))
  <2>1. Hits(SymDiff(p, q), e) = SymDiff(Hits(p, e), Hits(q, e))
    BY DEF Hits, SymDiff
  <2>2. IsFiniteSet(Hits(p, e)) /\ IsFiniteSet(Hits(q, e))
    BY HitsFinite
  <2> QED BY <2>1, <2>2, OddDiff
<1> QED BY <1>2, <1>3 DEF SymDiff

\* A multiple of the generator other than zero has two powers at least 16 apart.
LEMMA ProductSpan ==
    ASSUME NEW n \in Nat, NEW q \in SUBSET (0 .. n), q # {}
    PROVE  \E a, b \in TimesGenerator(q) : b >= a + 16
<1>1. q \in SUBSET Nat /\ \A i \in q : i \in Nat /\ i <= n
  OBVIOUS
<1>2. PICK a \in q : \A i \in q : a <= i
  BY <1>1, Least
<1>3. PICK b \in q : \A i \in q : b >= i
  BY <1>1, Greatest
<1>4. Hits(q, a) = {a}
  <2>1. \A i \in q, g \in Generator : i + g = a => i = a
    BY <1>1, <1>2 DEF Generator
  <2>2. a + 0 = a /\ 0 \in Generator
    BY <1>1 DEF Generator
  <2> QED BY <2>1, <2>2 DEF Hits
<1>5. Hits(q, b + 16) = {b}
  <2>1. \A i \in q, g \in Generator : i + g = b + 16 => i = b
    BY <1>1, <1>3 DEF Generator
  <2>2. 16 \in Generator
    BY DEF Generator
  <2> QED BY <2>1, <2>2 DEF Hits
<1>6. a \in TimesGenerator(q) /\ b + 16 \in TimesGenerator(q)
  <2>1. TimesGenerator(q) = {e \in Nat : Odd(Hits(q, e))}
    BY ProductIs
  <2>2. a \in Nat /\ b + 16 \in Nat
    BY <1>1
  <2> QED BY <1>4, <1>5, <2>1, <2>2, OddSingle
<1>7. b + 16 >= a + 16
  BY <1>1, <1>2
<1> QED BY <1>6, <1>7

\* Every polynomial is x p or x p + 1.
LEMMA Halve ==
    ASSUME NEW n \in Nat, NEW q \in SUBSET (0 .. n + 1)
    PROVE  \E p \in SUBSET (0 .. n) :
             IF 0 \in q THEN q = Up(p) \cup {0} ELSE q = Up(p)
<1> DEFINE p == {i \in 0 .. n : i + 1 \in q}
<1>1. Up(p) = q \ {0}
  <2>1. ASSUME NEW e \in q, e # 0 PROVE e \in Up(p)
    <3>1. e - 1 \in 0 .. n /\ (e - 1) + 1 = e
      BY <2>1
    <3>2. e - 1 \in p
      BY <3>1
    <3> QED BY <3>1, <3>2 DEF Up
  <2>2. \A e \in Up(p) : e \in q /\ e # 0
    BY DEF Up
  <2> HIDE DEF p
  <2> QED BY <2>1, <2>2
<1>2. p \in SUBSET (0 .. n)
  OBVIOUS
<1> HIDE DEF p
<1> QED BY <1>1, <1>2

\* The generator has four powers.
LEMMA GeneratorEven == IsFiniteSet(Generator) /\ ~ Odd(Generator)
<1> DEFINE A == SymDiff({}, {16})
           B == SymDiff(A, {15})
           C == SymDiff(B, {2})
<1>1. Generator = SymDiff(C, {0})
  BY DEF Generator, SymDiff
<1>2. IsFiniteSet({}) /\ ~ Odd({})
  BY FS_EmptySet DEF Odd
<1>3. IsFiniteSet(A) /\ Odd(A)
  BY <1>2, OddToggle
<1> HIDE DEF A
<1>4. IsFiniteSet(B) /\ ~ Odd(B)
  BY <1>3, OddToggle
<1> HIDE DEF B
<1>5. IsFiniteSet(C) /\ Odd(C)
  BY <1>4, OddToggle
<1> HIDE DEF C
<1> QED BY <1>1, <1>5, OddToggle

\* The generator has an even number of powers, and so have its multiples.
LEMMA ProductEven ==
    ASSUME NEW n \in Nat, NEW q \in SUBSET (0 .. n)
    PROVE  IsFiniteSet(TimesGenerator(q)) /\ ~ Odd(TimesGenerator(q))
<1> DEFINE Even(p) == IsFiniteSet(TimesGenerator(p)) /\ ~ Odd(TimesGenerator(p))
           S == {m \in Nat : \A p \in SUBSET (0 .. m - 1) : Even(p)}
<1>1. Even({})
  BY ProductEmpty, FS_EmptySet DEF Odd
<1>2. 0 \in S
  <2>1. \A p \in SUBSET (0 .. 0 - 1) : p = {}
    OBVIOUS
  <2> HIDE DEF Even
  <2> QED BY <1>1, <2>1
<1>3. ASSUME NEW m \in S PROVE m + 1 \in S
  <2>0. m \in Nat /\ m + 1 \in Nat /\ (m + 1) - 1 = m
    OBVIOUS
  <2>1. SUFFICES ASSUME NEW r \in SUBSET (0 .. m) PROVE Even(r)
    <3> HIDE DEF Even
    <3> QED BY <2>0
  <2>2. PICK p \in SUBSET (0 .. m) : /\ Even(p) /\ p \in SUBSET (0 .. m)
                                      /\ IF 0 \in r THEN r = Up(p) \cup {0} ELSE r = Up(p)
    <3>1. CASE m = 0
      <4>1. {} \in SUBSET (0 .. m) /\ IF 0 \in r THEN r = Up({}) \cup {0} ELSE r = Up({})
        <5>1. Up({}) = {}
          BY DEF Up
        <5>2. \A i \in r : i = 0
          BY <3>1
        <5> QED BY <5>1, <5>2
      <4> HIDE DEF Even
      <4> QED BY <1>1, <4>1
    <3>2. CASE m # 0
      <4>1. m - 1 \in Nat /\ (m - 1) + 1 = m
        BY <2>0, <3>2
      <4>2. PICK p \in SUBSET (0 .. m - 1) :
              IF 0 \in r THEN r = Up(p) \cup {0} ELSE r = Up(p)
        BY <4>1, Halve
      <4>3. Even(p)
        <5> HIDE DEF Even
        <5> QED BY <1>3
      <4>4. p \in SUBSET (0 .. m)
        BY <2>0
      <4> HIDE DEF Even
      <4> QED BY <4>2, <4>3, <4>4
    <3> QED BY <3>1, <3>2
  <2> DEFINE T == TimesGenerator(p)
  <2>3. /\ TimesGenerator(Up(p)) = Up(T)
        /\ TimesGenerator(Up(p) \cup {0}) = SymDiff(Up(T), Generator)
    BY <2>0, TimesX
  <2>4. T \in SUBSET Nat
    BY <2>0, ProductIs
  <2>5. IsFiniteSet(T) /\ ~ Odd(T)
    BY <2>2
  <2> HIDE DEF T
  <2>6. IsFiniteSet(Up(T)) /\ ~ Odd(Up(T))
    BY <2>4, <2>5, OddShift DEF Up
  <2>7. IsFiniteSet(SymDiff(Up(T), Generator)) /\ ~ Odd(SymDiff(Up(T), Generator))
    BY <2>6, GeneratorEven, OddDiff
  <2> QED BY <2>2, <2>3, <2>6, <2>7
<1>4. S = Nat
  <2>1. S \in SUBSET Nat
    OBVIOUS
  <2> HIDE DEF S
  <2> QED BY <1>2, <1>3, <2>1, SetInduction
<1>5. n + 1 \in S /\ (n + 1) - 1 = n
  BY <1>4
<1>6. \A p \in SUBSET (0 .. n) : Even(p)
  <2> HIDE DEF Even
  <2> QED BY <1>5
<1> QED BY <1>6

\* A multiple of the generator, by a factor of degree up to n
IsMultiple(n, E) == \E p \in SUBSET (0 .. n) : TimesGenerator(p) = E

\* x does not divide the generator: if x^a (1 + x^d) is a multiple of it, so is
\* 1 + x^d.
LEMMA DivideX ==
    ASSUME NEW n \in Nat, NEW a \in Nat, NEW d \in Nat, IsMultiple(n, {a, a + d})
    PROVE  IsMultiple(n, {0, d})
<1> DEFINE S == {m \in Nat : \A r \in SUBSET (0 .. n) :
                    TimesGenerator(r) = {m, m + d} =>
                      \E p \in SUBSET (0 .. n) : TimesGenerator(p) = {0, d}}
<1>1. 0 \in S
  <2>1. {0, 0 + d} = {0, d}
    OBVIOUS
  <2> QED BY <2>1
<1>2. ASSUME NEW m \in S PROVE m + 1 \in S
  <2>0. m \in Nat /\ m + 1 \in Nat
    OBVIOUS
  <2>1. SUFFICES ASSUME NEW r \in SUBSET (0 .. n),
                        TimesGenerator(r) = {m + 1, (m + 1) + d}
                 PROVE  \E p \in SUBSET (0 .. n) : TimesGenerator(p) = {0, d}
    BY <2>0
  <2>2. 0 \notin r
    <3> SUFFICES ASSUME 0 \in r PROVE FALSE
      OBVIOUS
    <3>1. Hits(r, 0) = {0}
      <4>1. \A i \in r, g \in Generator : i + g = 0 => i = 0
        BY DEF Generator
      <4>2. 0 + 0 = 0 /\ 0 \in Generator
        BY DEF Generator
      <4> QED BY <4>1, <4>2 DEF Hits
    <3>2. TimesGenerator(r) = {e \in Nat : Odd(Hits(r, e))}
      BY ProductIs
    <3>3. 0 \in TimesGenerator(r)
      BY <3>1, <3>2, OddSingle
    <3> QED BY <2>0, <2>1, <3>3
  <2>3. PICK p \in SUBSET (0 .. n) : r = Up(p)
    <3>1. r \in SUBSET (0 .. n + 1)
      OBVIOUS
    <3> QED BY <2>2, <3>1, Halve
  <2>4. TimesGenerator(r) = Up(TimesGenerator(p)) /\ TimesGenerator(p) \in SUBSET Nat
    BY <2>3, TimesX, ProductIs
  <2>5. TimesGenerator(p) = {m, m + d}
    <3> DEFINE T == TimesGenerator(p)
    <3>1. Up(T) = {m + 1, (m + 1) + d} /\ T \in SUBSET Nat
      BY <2>1, <2>4
    <3> HIDE DEF T
    <3>2. \A i \in Nat : i \in T <=> i + 1 \in Up(T)
      BY <3>1 DEF Up
    <3>3. \A i \in Nat : i \in T <=> i = m \/ i = m + d
      BY <2>0, <3>1, <3>2
    <3>4. T = {m, m + d}
      <4>1. m \in Nat /\ m + d \in Nat
        BY <2>0
      <4>2. \A i : i \in T <=> i = m \/ i = m + d
        BY <3>1, <3>3, <4>1
      <4> QED BY <4>2
    <3> QED BY <3>4 DEF T
  <2> QED BY <2>5
<1>3. S = Nat
  <2>1. S \in SUBSET Nat
    OBVIOUS
  <2> HIDE DEF S
  <2> QED BY <1>1, <1>2, <2>1, SetInduction
<1>4. PICK q \in SUBSET (0 .. n) : TimesGenerator(q) = {a, a + d}
  BY DEF IsMultiple
<1>5. \E p \in SUBSET (0 .. n) : TimesGenerator(p) = {0, d}
  BY <1>3, <1>4
<1> QED BY <1>5 DEF IsMultiple

-----------------------------------------------------------------------------
(***************************************************************************)
(* The generator's period.                                                 *)
(***************************************************************************)
\* The register, once the bit is in it, does not become 1 again before n bytes
\* and the checksum are through: the generator's period is longer than that
PeriodExceeds(n) == \A k \in 2 .. 8 * n + 16 : Register(OneBit(n))[k] # {0}

\* Within the period no 1 + x^d is a multiple of the generator.
LEMMA NoTwoPowers ==
    ASSUME NEW n \in Nat, n # 0, PeriodExceeds(n), NEW d \in 1 .. 8 * n + 15,
           NEW m \in Nat, NEW p \in SUBSET (0 .. m), TimesGenerator(p) = {0, d}
    PROVE  FALSE
<1> DEFINE u == OneBit(n)
           k == d + 1
           R == Register(u)[k]
<1>1. Len(u) = n /\ Len(u) \in Nat
  BY DEF OneBit
<1>2. k \in 2 .. 8 * n + 16 /\ k \in 0 .. 8 * Len(u) + 16 /\ k - 17 <= k
  BY <1>1
<1>3. R # {0}
  BY <1>2 DEF PeriodExceeds
<1>4. Prefix(u, k) = {d}
  <2>1. \A i \in 1 .. k : BitRead(u, i) <=> i = 1
    <3> SUFFICES ASSUME NEW i \in 1 .. k PROVE BitRead(u, i) <=> i = 1
      OBVIOUS
    <3>1. CASE i = 1
      <4>1. 1 <= 8 * n /\ (1 - 1) % 8 = 0 /\ (1 - 1) \div 8 + 1 = 1
        OBVIOUS
      <4>2. u[1] = {0}
        BY DEF OneBit
      <4> QED BY <1>1, <3>1, <4>1, <4>2 DEF BitRead
    <3>2. CASE i # 1
      <4>1. SUFFICES ASSUME i <= 8 * n, (i - 1) % 8 \in u[(i - 1) \div 8 + 1] PROVE FALSE
        BY <1>1, <3>2 DEF BitRead
      <4>2. (i - 1) \div 8 + 1 \in 1 .. n /\ i - 1 \in Nat /\ i - 1 # 0
        BY <3>2, <4>1
      <4>3. (i - 1) \div 8 + 1 = 1 /\ (i - 1) % 8 = 0
        BY <4>1, <4>2 DEF OneBit
      <4> QED BY <4>2, <4>3
    <3> QED BY <3>1, <3>2
  <2>2. 1 \in 1 .. k /\ k - 1 = d
    OBVIOUS
  <2> HIDE DEF u, k
  <2> QED BY <2>1, <2>2 DEF Prefix
<1>5. PICK q \in SUBSET (0 .. k - 17) : /\ TimesGenerator(q) = SymDiff(Prefix(u, k), R)
                                         /\ R \in SUBSET Word
  BY <1>1, <1>2, RegisterDivides
<1> HIDE DEF u, R
<1> DEFINE w == m + k
<1>6. w \in Nat /\ p \in SUBSET (0 .. w) /\ q \in SUBSET (0 .. w)
  BY <1>2
<1>7. SymDiff({0, d}, SymDiff({d}, R)) = SymDiff({0}, R)
  BY DEF SymDiff
<1> HIDE DEF w, k
<1>8. TimesGenerator(SymDiff(p, q)) = SymDiff({0}, R)
  <2>1. TimesGenerator(SymDiff(p, q)) = SymDiff(TimesGenerator(p), TimesGenerator(q))
    BY <1>6, TimesDiff
  <2>2. TimesGenerator(q) = SymDiff({d}, R)
    BY <1>4, <1>5
  <2> QED BY <1>7, <2>1, <2>2
<1>9. SymDiff({0}, R) \subseteq 0 .. 15
  BY <1>5 DEF SymDiff, Word
<1>10. SymDiff(p, q) = {}
  <2> SUFFICES ASSUME SymDiff(p, q) # {} PROVE FALSE
    OBVIOUS
  <2>1. SymDiff(p, q) \in SUBSET (0 .. w)
    BY <1>6 DEF SymDiff
  <2>2. \E a, b \in TimesGenerator(SymDiff(p, q)) : b >= a + 16
    BY <1>6, <2>1, ProductSpan
  <2>3. PICK a \in 0 .. 15, b \in 0 .. 15 : b >= a + 16
    BY <1>8, <1>9, <2>2
  <2> QED BY <2>3
<1>11. SymDiff({0}, R) = {}
  BY <1>8, <1>10, ProductEmpty
<1>12. R = {0}
  BY <1>11 DEF SymDiff
<1> QED BY <1>3, <1>12

-----------------------------------------------------------------------------
(***************************************************************************)
(* A packet and its damage as polynomials.                                 *)
(***************************************************************************)
\* A packet as a polynomial: the payload times x^16 and the reversed checksum
Codeword(data, crc) == SymDiff({e + 16 : e \in Polynomial(data)}, {15 - i : i \in crc})

\* A packet whose checksum is right is a multiple of the generator.
LEMMA AcceptedIsMultiple ==
    ASSUME NEW data, Len(data) \in Nat
    PROVE  \E q \in SUBSET (0 .. 8 * Len(data)) :
             TimesGenerator(q) = Codeword(data, calc_checksum(data))
<1>1. PICK q \in SUBSET (0 .. 8 * Len(data) - 1) :
        TimesGenerator(q) = SymDiff({e + 16 : e \in Polynomial(data)},
                                    {15 - i : i \in calc_checksum(data)})
  BY ChecksumRemainder DEF IsRemainder
<1>2. q \in SUBSET (0 .. 8 * Len(data))
  OBVIOUS
<1> QED BY <1>1, <1>2 DEF Codeword

\* The bits that can flip in a packet of n bytes: of the checksum, or of byte j
Bits(n) == ({0} \X Word) \cup ((1 .. n) \X Byte)

\* The power of a bit in the polynomial of the packet, and the bit of a power
Exponent(n, f) == IF f[1] = 0 THEN 15 - f[2] ELSE 8 * (n - f[1]) + 23 - f[2]
Place(n, e) == IF e < 16 THEN <<0, 15 - e>>
               ELSE <<(8 * n + 15 - e) \div 8 + 1, (8 * n + 15 - e) % 8>>

\* Bits and powers correspond one to one.
LEMMA ExponentPlace ==
    ASSUME NEW n \in Nat
    PROVE  /\ \A f \in Bits(n) : Exponent(n, f) \in 0 .. 8 * n + 15 /\ Place(n, Exponent(n, f)) = f
           /\ \A e \in 0 .. 8 * n + 15 : Place(n, e) \in Bits(n) /\ Exponent(n, Place(n, e)) = e
<1>1. ASSUME NEW f \in Bits(n)
      PROVE  Exponent(n, f) \in 0 .. 8 * n + 15 /\ Place(n, Exponent(n, f)) = f
  <2>1. CASE f \in {0} \X Word
    <3>1. PICK b \in 0 .. 15 : f = <<0, b>>
      BY <2>1 DEF Word
    <3>2. Exponent(n, f) = 15 - b
      BY <3>1 DEF Exponent
    <3>3. 15 - b \in 0 .. 8 * n + 15 /\ 15 - b < 16 /\ 15 - (15 - b) = b
      OBVIOUS
    <3> QED BY <3>1, <3>2, <3>3 DEF Place
  <2>2. CASE f \in (1 .. n) \X Byte
    <3>1. PICK j \in 1 .. n, b \in 0 .. 7 : f = <<j, b>>
      BY <2>2 DEF Byte
    <3> DEFINE e == 8 * (n - j) + 23 - b
    <3>2. Exponent(n, f) = e
      BY <3>1 DEF Exponent
    <3>3. e \in 0 .. 8 * n + 15 /\ ~ (e < 16) /\ 8 * n + 15 - e = 8 * (j - 1) + b
      OBVIOUS
    <3>4. (8 * (j - 1) + b) \div 8 = j - 1 /\ (8 * (j - 1) + b) % 8 = b
      OBVIOUS
    <3>5. (j - 1) + 1 = j
      OBVIOUS
    <3> HIDE DEF e
    <3> QED BY <3>1, <3>2, <3>3, <3>4, <3>5 DEF Place
  <2> QED BY <2>1, <2>2 DEF Bits
<1>2. ASSUME NEW e \in 0 .. 8 * n + 15
      PROVE  Place(n, e) \in Bits(n) /\ Exponent(n, Place(n, e)) = e
  <2>1. CASE e < 16
    <3>1. Place(n, e) = <<0, 15 - e>> /\ 15 - e \in Word /\ 15 - (15 - e) = e
      BY <2>1 DEF Place, Word
    <3> QED BY <3>1 DEF Bits, Exponent
  <2>2. CASE ~ (e < 16)
    <3> DEFINE z == 8 * n + 15 - e
               j == z \div 8 + 1
               b == z % 8
    <3>1. z \in 0 .. 8 * n - 1 /\ e = 8 * n + 15 - z
      BY <2>2
    <3>2. j \in 1 .. n /\ b \in Byte /\ z = 8 * (j - 1) + b
      <4> HIDE DEF z
      <4> QED BY <3>1 DEF Byte
    <3>3. Place(n, e) = <<j, b>>
      BY <2>2 DEF Place
    <3> HIDE DEF j, b, z
    <3>4. Exponent(n, <<j, b>>) = 8 * (n - j) + 23 - b
      BY <3>2 DEF Exponent
    <3>5. 8 * (n - j) + 23 - b = e
      BY <3>1, <3>2 DEF Byte
    <3> QED BY <3>2, <3>3, <3>4, <3>5 DEF Bits
  <2> QED BY <2>1, <2>2
<1> QED BY <1>1, <1>2

\* Each power of the packet is one bit of it.
LEMMA CodewordBits ==
    ASSUME NEW data, Len(data) \in Nat, NEW crc \in SUBSET Word
    PROVE  /\ Codeword(data, crc) \subseteq 0 .. 8 * Len(data) + 15
           /\ \A e \in 0 .. 8 * Len(data) + 15 :
                e \in Codeword(data, crc) <=>
                  IF e < 16 THEN 15 - e \in crc
                  ELSE (8 * Len(data) + 15 - e) % 8 \in data[(8 * Len(data) + 15 - e) \div 8 + 1]
<1> DEFINE n == Len(data)
           high == {e + 16 : e \in Polynomial(data)}
           low == {15 - i : i \in crc}
<1>1. low \subseteq 0 .. 15 /\ \A e \in 0 .. 15 : e \in low <=> 15 - e \in crc
  <2>1. \A i \in crc : 15 - i \in 0 .. 15 /\ 15 - (15 - i) = i
    BY DEF Word
  <2>2. \A e \in 0 .. 15 : 15 - (15 - e) = e
    OBVIOUS
  <2> QED BY <2>1, <2>2
<1>2. high \subseteq 16 .. 8 * n + 15
  BY DEF Polynomial
<1>3. ASSUME NEW e \in 16 .. 8 * n + 15
      PROVE  e \in high <=> (8 * n + 15 - e) % 8 \in data[(8 * n + 15 - e) \div 8 + 1]
  <2> DEFINE k == 8 * n + 16 - e
  <2>1. k \in 1 .. 8 * n /\ k - 1 = 8 * n + 15 - e /\ (8 * n - k) + 16 = e
    OBVIOUS
  <2>2. BitRead(data, k) <=> (8 * n + 15 - e) % 8 \in data[(8 * n + 15 - e) \div 8 + 1]
    BY <2>1 DEF BitRead
  <2>3. e \in high <=> \E j \in 1 .. 8 * n : BitRead(data, j) /\ e = (8 * n - j) + 16
    BY DEF Polynomial
  <2>4. \A j \in 1 .. 8 * n : e = (8 * n - j) + 16 => j = k
    OBVIOUS
  <2> HIDE DEF k, high
  <2> QED BY <2>1, <2>2, <2>3, <2>4
<1>4. Codeword(data, crc) = SymDiff(high, low)
  BY DEF Codeword
<1> HIDE DEF high, low
<1>5. SymDiff(high, low) = high \cup low
  <2>1. \A e \in high : e \notin low
    BY <1>1, <1>2
  <2> QED BY <2>1 DEF SymDiff
<1>6. high \cup low \subseteq 0 .. 8 * n + 15
  BY <1>1, <1>2
<1>7. ASSUME NEW e \in 0 .. 8 * n + 15
      PROVE  e \in high \cup low <=>
                  IF e < 16 THEN 15 - e \in crc
                  ELSE (8 * n + 15 - e) % 8 \in data[(8 * n + 15 - e) \div 8 + 1]
  <2>1. CASE e < 16
    <3>1. e \in 0 .. 15 /\ e \notin high
      BY <1>2, <2>1
    <3> QED BY <1>1, <2>1, <3>1
  <2>2. CASE ~ (e < 16)
    <3>1. e \in 16 .. 8 * n + 15 /\ e \notin low
      BY <1>1, <2>2
    <3> QED BY <1>3, <2>2, <3>1
  <2> QED BY <2>1, <2>2
<1> QED BY <1>4, <1>5, <1>6, <1>7

\* Payload and checksum with bits flipped
DamagedData(data, F) ==
    [j \in 1 .. Len(data) |-> SymDiff(data[j], {b \in Byte : <<j, b>> \in F})]
DamagedSum(crc, F) == SymDiff(crc, {b \in Word : <<0, b>> \in F})

\* Flipped bits are added to the polynomial of the packet.
LEMMA CodewordDamage ==
    ASSUME NEW data \in Seq(SUBSET Byte), NEW crc \in SUBSET Word,
           NEW F \in SUBSET Bits(Len(data))
    PROVE  Codeword(DamagedData(data, F), DamagedSum(crc, F)) =
             SymDiff(Codeword(data, crc), {Exponent(Len(data), f) : f \in F})
<1> DEFINE n == Len(data)
           E == {Exponent(n, f) : f \in F}
           data2 == DamagedData(data, F)
           crc2 == DamagedSum(crc, F)
<1>1. n \in Nat
  OBVIOUS
<1>2. Len(data2) = n /\ crc2 \in SUBSET Word
  BY <1>1 DEF SymDiff, DamagedData, DamagedSum
<1>0. /\ data2 = [j \in 1 .. n |-> SymDiff(data[j], {b \in Byte : <<j, b>> \in F})]
      /\ crc2 = SymDiff(crc, {b \in Word : <<0, b>> \in F})
  BY DEF DamagedData, DamagedSum
<1> HIDE DEF data2, crc2
<1>3. E \subseteq 0 .. 8 * n + 15 /\ \A e \in 0 .. 8 * n + 15 : e \in E <=> Place(n, e) \in F
  <2>1. \A f \in F : f \in Bits(n)
    OBVIOUS
  <2> HIDE DEF n
  <2> QED BY <1>1, <2>1, ExponentPlace
<1>4. /\ Codeword(data, crc) \subseteq 0 .. 8 * n + 15
      /\ Codeword(data2, crc2) \subseteq 0 .. 8 * n + 15
  BY <1>1, <1>2, CodewordBits
<1>5. ASSUME NEW e \in 0 .. 8 * n + 15
      PROVE  e \in Codeword(data2, crc2) <=> (e \in Codeword(data, crc) <=> e \notin E)
  <2>1. CASE e < 16
    <3>1. e \in Codeword(data2, crc2) <=> 15 - e \in crc2
      BY <1>1, <1>2, <2>1, CodewordBits
    <3>2. e \in Codeword(data, crc) <=> 15 - e \in crc
      BY <1>1, <2>1, CodewordBits
    <3>3. e \in E <=> <<0, 15 - e>> \in F
      BY <1>3, <2>1 DEF Place
    <3>4. 15 - e \in Word
      BY <2>1 DEF Word
    <3> HIDE DEF E
    <3> QED BY <1>0, <3>1, <3>2, <3>3, <3>4 DEF SymDiff
  <2>2. CASE ~ (e < 16)
    <3> DEFINE z == 8 * n + 15 - e
               j == z \div 8 + 1
               b == z % 8
    <3>1. j \in 1 .. n /\ b \in Byte
      <4>1. z \in 0 .. 8 * n - 1
        BY <1>1, <2>2
      <4> HIDE DEF z, n
      <4> QED BY <1>1, <4>1 DEF Byte
    <3>2. e \in Codeword(data2, crc2) <=> b \in data2[j]
      BY <1>1, <1>2, <2>2, CodewordBits
    <3>3. e \in Codeword(data, crc) <=> b \in data[j]
      BY <1>1, <2>2, CodewordBits
    <3>4. e \in E <=> <<j, b>> \in F
      BY <1>3, <2>2 DEF Place
    <3> HIDE DEF E, j, b
    <3>5. data2[j] = SymDiff(data[j], {c \in Byte : <<j, c>> \in F})
      BY <1>0, <3>1
    <3>6. b \in data2[j] <=> (b \in data[j] <=> <<j, b>> \notin F)
      BY <3>1, <3>5 DEF SymDiff
    <3> QED BY <3>2, <3>3, <3>4, <3>6
  <2> QED BY <2>1, <2>2
<1> HIDE DEF E
<1>6. ASSUME NEW e
      PROVE  e \in Codeword(data2, crc2) <=> e \in SymDiff(Codeword(data, crc), E)
  <2>1. CASE e \in 0 .. 8 * n + 15
    BY <1>5, <2>1 DEF SymDiff
  <2>2. CASE e \notin 0 .. 8 * n + 15
    <3>1. e \notin Codeword(data2, crc2) /\ e \notin Codeword(data, crc) /\ e \notin E
      BY <1>3, <1>4, <2>2
    <3> QED BY <3>1 DEF SymDiff
  <2> QED BY <2>1, <2>2
<1> QED BY <1>6 DEF E, data2, crc2

-----------------------------------------------------------------------------
(***************************************************************************)
(* Damage to a packet.                                                     *)
(***************************************************************************)
\* A packet on its way has exactly the bits flipped that are in faults
PacketBits ==
    wire.kind = "packet" =>
        /\ sent \in Payloads /\ faults \in SUBSET Bits(Len(sent))
        /\ wire.data = DamagedData(sent, faults)

FaultCount == IsFiniteSet(faults) /\ Cardinality(faults) <= MaxFaults

\* The bits in which an accepted packet differs make up a multiple of the generator
AcceptedBits ==
    result.code = "ACCEPTED" =>
        /\ sent \in Payloads /\ faults \in SUBSET Bits(Len(sent))
        /\ \E q \in SUBSET (0 .. 8 * Len(sent)) :
             TimesGenerator(q) = {Exponent(Len(sent), f) : f \in faults}

DamageInv == PacketBits /\ FaultCount /\ AcceptedBits

\* A payload is a sequence of bytes.
LEMMA PayloadType ==
    ASSUME NEW data \in Payloads
    PROVE  data \in Seq(SUBSET Byte) /\ Len(data) \in Nat
BY FramingAssumption

\* A fault is one more of at most MaxFaults.
LEMMA OneMoreFault ==
    ASSUME FaultCount, NEW x, Cardinality(faults) < MaxFaults, faults' = faults \cup {x}
    PROVE  FaultCount'
<1>1. Cardinality(faults) \in Nat /\ MaxFaults \in Nat
  BY FS_CardinalityType, FramingAssumption DEF FaultCount
<1>2. /\ IsFiniteSet(faults \cup {x})
      /\ Cardinality(faults \cup {x}) =
           IF x \in faults THEN Cardinality(faults) ELSE Cardinality(faults) + 1
  BY FS_AddElement DEF FaultCount
<1> QED BY <1>1, <1>2 DEF FaultCount

\* A packet is written, or a bit of it flips.
LEMMA PacketBitsStep ==
    ASSUME Inv, DamageInv,
           \/ \E data \in Payloads : WritePacket(data)
           \/ \E b \in Word : FlipChecksumBit(b)
           \/ wire.kind = "packet" /\ \E j \in 1 .. Len(wire.data), b \in Byte : FlipPayloadBit(j, b)
    PROVE  DamageInv'
<1>1. ASSUME NEW data \in Payloads, WritePacket(data)
      PROVE  DamageInv'
  <2>1. /\ sent' = data /\ faults' = {} /\ result' = Unread
        /\ wire' = [kind |-> "packet", data |-> data, crc |-> calc_checksum(data)]
    BY <1>1 DEF WritePacket
  <2>2. data = [j \in 1 .. Len(data) |-> SymDiff(data[j], {})]
    <3>1. data = [j \in 1 .. Len(data) |-> data[j]]
      BY PayloadType
    <3>2. \A j \in 1 .. Len(data) : SymDiff(data[j], {}) = data[j]
      BY DEF SymDiff
    <3> QED BY <3>1, <3>2
  <2>3. \A j : {b \in Byte : <<j, b>> \in faults'} = {}
    BY <2>1
  <2>4. PacketBits'
    BY <2>1, <2>2, <2>3 DEF PacketBits, DamagedData
  <2>5. FaultCount'
    BY <2>1, FS_EmptySet, FramingAssumption DEF FaultCount
  <2> QED BY <2>1, <2>4, <2>5 DEF DamageInv, AcceptedBits, Unread
<1>2. SUFFICES ASSUME wire.kind = "packet",
                      \/ \E b \in Word : FlipChecksumBit(b)
                      \/ \E j \in 1 .. Len(wire.data), b \in Byte : FlipPayloadBit(j, b)
               PROVE  DamageInv'
  BY <1>1 DEF FlipChecksumBit
<1>3. /\ result' = Unread /\ sent' = sent
      /\ wire = [kind |-> "packet", data |-> wire.data, crc |-> wire.crc]
  BY <1>2 DEF Inv, UnreadFrame, PacketFrame, FlipChecksumBit, FlipPayloadBit
<1>4. AcceptedBits'
  BY <1>3 DEF AcceptedBits, Unread
<1>5. /\ sent \in Payloads /\ faults \in SUBSET Bits(Len(sent))
      /\ wire.data = [j \in 1 .. Len(sent) |->
                         SymDiff(sent[j], {b \in Byte : <<j, b>> \in faults})]
      /\ Len(sent) \in Nat
  BY <1>2, PayloadType DEF DamageInv, PacketBits, DamagedData
<1>6. Len(wire.data) = Len(sent)
  BY <1>5
<1>7. ASSUME NEW b \in Word, FlipChecksumBit(b)
      PROVE  DamageInv'
  <2>1. /\ wire' = [kind |-> "packet", data |-> wire.data, crc |-> SymDiff(wire.crc, {b})]
        /\ faults' = faults \cup {<<0, b>>} /\ Cardinality(faults) < MaxFaults
    BY <1>3, <1>7 DEF FlipChecksumBit
  <2>2. FaultCount'
    BY <2>1, OneMoreFault DEF DamageInv
  <2>3. <<0, b>> \in Bits(Len(sent))
    BY DEF Bits
  <2>4. \A j \in 1 .. Len(sent) :
          {c \in Byte : <<j, c>> \in faults'} = {c \in Byte : <<j, c>> \in faults}
    <3>1. \A j \in 1 .. Len(sent), c \in Byte : <<j, c>> # <<0, b>>
      OBVIOUS
    <3> QED BY <2>1, <3>1
  <2>5. wire'.data = wire.data
    BY <2>1
  <2>6. PacketBits'
    BY <1>3, <1>5, <2>1, <2>3, <2>4, <2>5 DEF PacketBits, DamagedData
  <2> QED BY <1>4, <2>2, <2>6 DEF DamageInv
<1>8. ASSUME NEW j \in 1 .. Len(wire.data), NEW b \in Byte, FlipPayloadBit(j, b)
      PROVE  DamageInv'
  <2>1. /\ wire' = [kind |-> "packet", crc |-> wire.crc,
                    data |-> [wire.data EXCEPT ![j] = SymDiff(wire.data[j], {b})]]
        /\ <<j, b>> \notin faults
        /\ faults' = faults \cup {<<j, b>>} /\ Cardinality(faults) < MaxFaults
    BY <1>3, <1>8 DEF FlipPayloadBit
  <2>2. FaultCount'
    BY <2>1, OneMoreFault DEF DamageInv
  <2>3. j \in 1 .. Len(sent) /\ <<j, b>> \in Bits(Len(sent))
    BY <1>6 DEF Bits
  <2> DEFINE Hit(i) == {c \in Byte : <<i, c>> \in faults}
             Hit2(i) == {c \in Byte : <<i, c>> \in faults'}
  <2>4. \A i \in 1 .. Len(sent) : i # j => Hit2(i) = Hit(i)
    BY <2>1
  <2>5. Hit2(j) = Hit(j) \cup {b} /\ b \notin Hit(j)
    BY <2>1
  <2>6. SymDiff(SymDiff(sent[j], Hit(j)), {b}) = SymDiff(sent[j], Hit2(j))
    <3> HIDE DEF Hit, Hit2
    <3> QED BY <2>5 DEF SymDiff
  <2>7. wire'.data = [wire.data EXCEPT ![j] = SymDiff(wire.data[j], {b})]
    BY <2>1
  <2>8. wire.data = [i \in 1 .. Len(sent) |-> SymDiff(sent[i], Hit(i))]
    BY <1>5
  <2> HIDE DEF Hit, Hit2
  <2>9. wire'.data = [i \in 1 .. Len(sent) |-> SymDiff(sent[i], Hit2(i))]
    <3>1. ASSUME NEW i \in 1 .. Len(sent)
          PROVE  wire'.data[i] = SymDiff(sent[i], Hit2(i))
      <4>1. CASE i = j
        BY <2>3, <2>6, <2>7, <2>8, <4>1
      <4>2. CASE i # j
        BY <2>4, <2>7, <2>8, <4>2
      <4> QED BY <4>1, <4>2
    <3>2. wire'.data = [i \in 1 .. Len(sent) |-> wire'.data[i]]
      BY <2>7, <2>8
    <3> QED BY <3>1, <3>2
  <2>10. PacketBits'
    BY <1>3, <1>5, <2>1, <2>3, <2>9 DEF PacketBits, DamagedData, Hit2
  <2> QED BY <1>4, <2>2, <2>10 DEF DamageInv
<1> QED BY <1>2, <1>7, <1>8

\* A packet is read: both what was sent and what is accepted are multiples of
\* the generator, and so is the difference.
LEMMA AcceptedBitsStep ==
    ASSUME Inv, DamageInv, ReadPacket
    PROVE  DamageInv'
<1>1. /\ wire'.kind = "none" /\ wire.kind = "packet"
      /\ faults' = faults /\ sent' = sent
      /\ result' = IF verify_checksum(wire.data, wire.crc)
                   THEN [code |-> "ACCEPTED", data |-> wire.data]
                   ELSE [code |-> "CRC_INVALID"]
  BY DEF ReadPacket, NoFrame
<1>2. PacketBits' /\ FaultCount'
  BY <1>1 DEF DamageInv, PacketBits, FaultCount
<1> DEFINE n == Len(sent)
           E == {Exponent(n, f) : f \in faults}
<1>3. /\ sent \in Payloads /\ faults \in SUBSET Bits(n)
      /\ sent \in Seq(SUBSET Byte) /\ n \in Nat
      /\ wire.data = DamagedData(sent, faults)
      /\ wire.crc = DamagedSum(calc_checksum(sent), faults)
  BY <1>1, PayloadType DEF DamageInv, PacketBits, Inv, PacketFrame, Flipped, DamagedSum
<1>4. Len(wire.data) = n
  BY <1>3 DEF DamagedData
<1>5. ASSUME verify_checksum(wire.data, wire.crc)
      PROVE  \E q \in SUBSET (0 .. 8 * n) : TimesGenerator(q) = E
  <2> DEFINE A == Codeword(sent, calc_checksum(sent))
             B == Codeword(wire.data, wire.crc)
  <2>1. PICK p \in SUBSET (0 .. 8 * n) : TimesGenerator(p) = A
    BY <1>3, AcceptedIsMultiple
  <2>2. PICK q \in SUBSET (0 .. 8 * n) : TimesGenerator(q) = B
    <3>1. wire.crc = calc_checksum(wire.data)
      BY <1>5 DEF verify_checksum
    <3> QED BY <1>3, <1>4, <3>1, AcceptedIsMultiple
  <2>3. calc_checksum(sent) \in SUBSET Word
    BY <1>3, ChecksumRemainder
  <2>4. B = SymDiff(A, E)
    <3>1. faults \in SUBSET Bits(Len(sent)) /\ sent \in Seq(SUBSET Byte)
      BY <1>3
    <3>2. Codeword(DamagedData(sent, faults), DamagedSum(calc_checksum(sent), faults)) =
            SymDiff(A, E)
      BY <2>3, <3>1, CodewordDamage
    <3> QED BY <1>3, <3>2
  <2>5. SymDiff(A, B) = E
    <3> HIDE DEF A, B, E
    <3> QED BY <2>4 DEF SymDiff
  <2>6. 8 * n \in Nat
    BY <1>3
  <2>7. TimesGenerator(SymDiff(p, q)) = SymDiff(A, B)
    <3> HIDE DEF A, B, n
    <3> QED BY <2>1, <2>2, <2>6, TimesDiff
  <2>8. SymDiff(p, q) \in SUBSET (0 .. 8 * n)
    BY DEF SymDiff
  <2> QED BY <2>5, <2>7, <2>8
<1>6. AcceptedBits'
  <2>1. CASE verify_checksum(wire.data, wire.crc)
    <3>1. sent' \in Payloads /\ faults' \in SUBSET Bits(Len(sent'))
      BY <1>1, <1>3
    <3>2. {Exponent(Len(sent'), f) : f \in faults'} = E /\ Len(sent') = n
      BY <1>1
    <3> QED BY <1>5, <2>1, <3>1, <3>2 DEF AcceptedBits
  <2>2. CASE ~ verify_checksum(wire.data, wire.crc)
    BY <1>1, <2>2 DEF AcceptedBits
  <2> QED BY <2>1, <2>2
<1> QED BY <1>2, <1>6 DEF DamageInv

\* Steps that no packet takes part in.
LEMMA OtherBitsStep ==
    ASSUME Inv, DamageInv,
           \/ \E len \in Lengths : WriteLengthSafe(len) \/ WriteLengthFails(len)
           \/ \E t \in DOMAIN ControlByte : WriteType(t)
           \/ \E i \in Copies, v \in Lengths : CorruptCopy(i, v)
           \/ \E b \in Low \cup High : FlipBit(b)
           \/ ReadLengthSafe
           \/ \E code \in {"SOCKET_READ", "SOCKET_NO_CONN"} : ReadLengthFails(code)
           \/ ReadType
           \/ UNCHANGED vars
    PROVE  DamageInv'
<1>1. CASE \/ \E len \in Lengths : WriteLengthSafe(len) \/ WriteLengthFails(len)
           \/ \E t \in DOMAIN ControlByte : WriteType(t)
  <2>1. faults' = {} /\ wire'.kind # "packet" /\ result'.code # "ACCEPTED"
    BY <1>1 DEF WriteLengthSafe, WriteLengthFails, WriteType, NoFrame, Unread
  <2>2. FaultCount'
    BY <2>1, FS_EmptySet, FramingAssumption DEF FaultCount
  <2> QED BY <2>1, <2>2 DEF DamageInv, PacketBits, AcceptedBits
<1>2. ASSUME NEW i \in Copies, NEW v \in Lengths, CorruptCopy(i, v)
      PROVE  DamageInv'
  <2>1. /\ wire.kind = "length" /\ faults' = faults \cup {i}
        /\ Cardinality(faults) < MaxFaults /\ result' = result
        /\ wire' = [wire EXCEPT !.copies[i] = v]
    BY <1>2 DEF CorruptCopy
  <2>2. wire = [kind |-> "length", copies |-> wire.copies] /\ result = Unread
    BY <2>1 DEF Inv, LengthFrame, UnreadFrame
  <2>3. wire'.kind = "length" /\ result'.code # "ACCEPTED"
    BY <2>1, <2>2 DEF Unread
  <2>4. FaultCount'
    BY <2>1, OneMoreFault DEF DamageInv
  <2> QED BY <2>3, <2>4 DEF DamageInv, PacketBits, AcceptedBits
<1>3. ASSUME NEW b \in Low \cup High, FlipBit(b)
      PROVE  DamageInv'
  <2>1. /\ wire.kind = "type" /\ faults' = faults \cup {b}
        /\ Cardinality(faults) < MaxFaults /\ result' = result
        /\ wire' = [wire EXCEPT !.bits = SymDiff(@, {b})]
    BY <1>3 DEF FlipBit
  <2>2. wire = [kind |-> "type", bits |-> wire.bits] /\ result = Unread
    BY <2>1 DEF Inv, TypeFrame, UnreadFrame
  <2>3. wire'.kind = "type" /\ result'.code # "ACCEPTED"
    BY <2>1, <2>2 DEF Unread
  <2>4. FaultCount'
    BY <2>1, OneMoreFault DEF DamageInv
  <2> QED BY <2>3, <2>4 DEF DamageInv, PacketBits, AcceptedBits
<1>4. CASE \/ ReadLengthSafe
           \/ \E code \in {"SOCKET_READ", "SOCKET_NO_CONN"} : ReadLengthFails(code)
           \/ ReadType
  <2>1. faults' = faults /\ wire'.kind = "none" /\ result'.code # "ACCEPTED"
    BY <1>4 DEF ReadLengthSafe, ReadLengthFails, ReadType, NoFrame
  <2> QED BY <2>1 DEF DamageInv, PacketBits, FaultCount, AcceptedBits
<1>5. CASE UNCHANGED vars
  BY <1>5 DEF vars, DamageInv, PacketBits, FaultCount, AcceptedBits
<1> QED BY <1>1, <1>2, <1>3, <1>4, <1>5

-----------------------------------------------------------------------------
(***************************************************************************)
(* What the multiples of the generator say of the damage.                  *)
(***************************************************************************)
\* Different bits have different powers.
LEMMA ExponentsCount ==
    ASSUME NEW n \in Nat, NEW F \in SUBSET Bits(n), IsFiniteSet(F)
    PROVE  LET E == {Exponent(n, f) : f \in F}
           IN  IsFiniteSet(E) /\ Cardinality(E) = Cardinality(F)
<1> DEFINE E == {Exponent(n, f) : f \in F}
           h == [f \in F |-> Exponent(n, f)]
<1>1. h \in [F -> E] /\ \A f \in F : h[f] = Exponent(n, f)
  OBVIOUS
<1>2. \A f, g \in F : h[f] = h[g] => f = g
  <2> SUFFICES ASSUME NEW f \in F, NEW g \in F, h[f] = h[g] PROVE f = g
    OBVIOUS
  <2>1. Exponent(n, f) = Exponent(n, g)
    BY <1>1
  <2>2. f \in Bits(n) /\ g \in Bits(n)
    OBVIOUS
  <2>3. Place(n, Exponent(n, f)) = f /\ Place(n, Exponent(n, g)) = g
    BY <2>2, ExponentPlace
  <2> QED BY <2>1, <2>3
<1>3. \A e \in E : \E f \in F : h[f] = e
  OBVIOUS
<1> HIDE DEF E, h
<1>4. h \in Bijection(F, E)
  BY <1>1, <1>2, <1>3 DEF Bijection, Injection, Surjection, IsInjective
<1>5. IsFiniteSet(E) /\ Cardinality(E) = Cardinality(F)
  BY <1>4, FS_Bijection DEF ExistsBijection
<1> QED BY <1>5 DEF E

\* handleReceivedPacket refuses every packet in which an odd number of bits of
\* payload and checksum have flipped, whatever the payload.
OddDetected == result.code = "ACCEPTED" => ~ Odd(faults)

\* handleReceivedPacket refuses every packet whose damage is confined to 16
\* successive bits, in the order in which calc_checksum takes them: whenever
\* damage is accepted, two of the flipped bits are at least 16 places apart.
BurstDetected ==
    result.code = "ACCEPTED" /\ faults # {} =>
        \E f, g \in faults : Exponent(Len(sent), f) >= Exponent(Len(sent), g) + 16

\* What is accepted has an even number of flipped bits, and not all within 16.
LEMMA DamageBounds ==
    ASSUME DamageInv
    PROVE  OddDetected /\ BurstDetected
<1> SUFFICES ASSUME result.code = "ACCEPTED"
             PROVE  ~ Odd(faults) /\ (faults # {} =>
                      \E f, g \in faults : Exponent(Len(sent), f) >= Exponent(Len(sent), g) + 16)
  BY DEF OddDetected, BurstDetected
<1> DEFINE n == Len(sent)
           E == {Exponent(n, f) : f \in faults}
<1>1. n \in Nat /\ 8 * n \in Nat /\ faults \in SUBSET Bits(n) /\ IsFiniteSet(faults)
  BY PayloadType DEF DamageInv, AcceptedBits, FaultCount
<1>2. PICK q \in SUBSET (0 .. 8 * n) : TimesGenerator(q) = E
  BY DEF DamageInv, AcceptedBits
<1>3. Cardinality(E) = Cardinality(faults)
  BY <1>1, ExponentsCount
<1> HIDE DEF n
<1>4. ~ Odd(faults)
  <2>1. ~ Odd(E)
    BY <1>1, <1>2, ProductEven
  <2> QED BY <1>3, <2>1 DEF Odd
<1>5. ASSUME faults # {}
      PROVE  \E f, g \in faults : Exponent(n, f) >= Exponent(n, g) + 16
  <2>1. E # {}
    BY <1>5
  <2>2. q # {}
    BY <1>2, <2>1, ProductEmpty
  <2>3. \E a, b \in E : b >= a + 16
    BY <1>1, <1>2, <2>2, ProductSpan
  <2> QED BY <2>3
<1> QED BY <1>4, <1>5 DEF n

\* Up to three flips are none, one, two near each other, two within the
\* generator's period, or three.
LEMMA ThreeFaults ==
    ASSUME Inv, DamageInv, MaxFaults <= 3, NEW L \in Nat \ {0}, PeriodExceeds(L),
           \A data \in Payloads : Len(data) <= L
    PROVE  DamageDetected
<1>1. ASSUME result.code = "ACCEPTED", faults # {}
      PROVE  FALSE
  <2> DEFINE n == Len(sent)
             E == {Exponent(n, f) : f \in faults}
  <2>1. /\ n \in Nat /\ 8 * n \in Nat /\ sent \in Payloads /\ faults \in SUBSET Bits(n)
        /\ IsFiniteSet(faults) /\ Cardinality(faults) <= MaxFaults
    BY <1>1, PayloadType DEF DamageInv, AcceptedBits, FaultCount
  <2>2. PICK q \in SUBSET (0 .. 8 * n) : TimesGenerator(q) = E
    BY <1>1 DEF DamageInv, AcceptedBits
  <2>3. IsFiniteSet(E) /\ Cardinality(E) = Cardinality(faults)
    BY <2>1, ExponentsCount
  <2>4. E \subseteq 0 .. 8 * n + 15
    <3>1. \A f \in faults : f \in Bits(n)
      BY <2>1
    <3> HIDE DEF n
    <3> QED BY <2>1, <3>1, ExponentPlace
  <2>5. n <= L
    BY <2>1
  <2>6. PICK f \in faults, g \in faults : Exponent(n, f) >= Exponent(n, g) + 16
    BY <1>1, DamageBounds DEF BurstDetected
  <2> DEFINE a == Exponent(n, g)
             b == Exponent(n, f)
  <2>7. a \in E /\ b \in E /\ b >= a + 16 /\ a \in 0 .. 8 * n + 15 /\ b \in 0 .. 8 * n + 15
    BY <2>4, <2>6
  <2>8. Cardinality(E) = 2
    <3>1. Cardinality(faults) \in Nat /\ Cardinality(faults) # 0 /\ MaxFaults \in Nat
      BY <1>1, <2>1, FS_CardinalityType, FS_EmptySet, FramingAssumption
    <3>2. Cardinality(faults) % 2 # 1
      BY <1>1, DamageBounds DEF OddDetected, Odd
    <3> HIDE DEF E, n
    <3> QED BY <2>1, <2>3, <3>1, <3>2
  <2> HIDE DEF E, a, b, n
  <2>9. E = {a, b}
    <3>1. IsFiniteSet(E \ {a}) /\ Cardinality(E \ {a}) = 1
      BY <2>3, <2>7, <2>8, FS_RemoveElement
    <3>2. b \in E \ {a}
      BY <2>7
    <3> DEFINE S == E \ {a}
    <3>3. IsFiniteSet(S \ {b}) /\ Cardinality(S \ {b}) = 0
      <4> HIDE DEF S
      <4>1. IsFiniteSet(S) /\ Cardinality(S) = 1 /\ b \in S
        BY <3>1, <3>2 DEF S
      <4> QED BY <4>1, FS_RemoveElement
    <3>4. S \ {b} = {}
      BY <3>3, FS_EmptySet
    <3>5. \A e : e \in E <=> e = a \/ e = b
      BY <2>7, <3>4
    <3> QED BY <3>5
  <2> DEFINE d == b - a
  <2>10. d \in 1 .. 8 * L + 15 /\ d \in Nat /\ a \in Nat /\ a + d = b
    BY <2>1, <2>5, <2>7
  <2> HIDE DEF d
  <2>11. IsMultiple(8 * n, {a, a + d})
    BY <2>2, <2>9, <2>10 DEF IsMultiple
  <2>12. IsMultiple(8 * n, {0, d})
    BY <2>1, <2>10, <2>11, DivideX
  <2>13. PICK p \in SUBSET (0 .. 8 * n) : TimesGenerator(p) = {0, d}
    BY <2>12 DEF IsMultiple
  <2> QED BY <2>1, <2>10, <2>13, NoTwoPowers
<1> QED BY <1>1 DEF Inv, ChecksumGuardsItself, DamageDetected

-----------------------------------------------------------------------------
(***************************************************************************)
(* The theorems on packets.                                                *)
(***************************************************************************)
\* In every state the bits of a packet differ from what was sent exactly where
\* faults say, and damage that is accepted is a multiple of the generator.
THEOREM DamageInvariant == Spec => [](Inv /\ DamageInv)
<1>1. Init => DamageInv
  BY FS_EmptySet, FramingAssumption DEF Init, NoFrame, Unread, DamageInv, PacketBits, FaultCount, AcceptedBits
<1>2. Inv /\ DamageInv /\ [Next]_vars => DamageInv'
  BY PacketBitsStep, AcceptedBitsStep, OtherBitsStep DEF Next
<1> QED BY <1>1, <1>2, FrameInvariant, PTL DEF Spec

\* The checksum that enqueuePacket sends is the reversed remainder of the
\* payload times x^16 by the generator, for every payload of every length.
THEOREM ChecksumCorrect == Spec => []ChecksumIsRemainder
<1>1. Inv /\ DamageInv => ChecksumIsRemainder
  <2> SUFFICES ASSUME Inv, DamageInv, wire.kind = "packet", faults = {}
               PROVE  IsRemainder({15 - i : i \in wire.crc}, wire.data)
    BY DEF ChecksumIsRemainder
  <2>1. wire.data = sent /\ wire.crc = SymDiff(calc_checksum(sent), {})
    BY DEF Inv, PacketFrame, Flipped
  <2>2. wire.crc = calc_checksum(sent)
    BY <2>1 DEF SymDiff
  <2>3. Len(sent) \in Nat
    BY PayloadType DEF DamageInv, PacketBits
  <2> QED BY <2>1, <2>2, <2>3, ChecksumRemainder
<1> QED BY <1>1, DamageInvariant, PTL

\* No packet with an odd number of flipped bits is accepted, for all payloads.
THEOREM OddDamageDetected == Spec => []OddDetected
<1>1. DamageInv => OddDetected
  BY DamageBounds
<1> QED BY <1>1, DamageInvariant, PTL

\* No packet with damage within 16 successive bits is accepted, for all payloads.
THEOREM BurstDamageDetected == Spec => []BurstDetected
<1>1. DamageInv => BurstDetected
  BY DamageBounds
<1> QED BY <1>1, DamageInvariant, PTL

\* No damage of up to three bits is accepted, and no intact packet is refused,
\* for all payloads within the generator's period, which TLC computes: it is
\* longer than a packet of LEN_S3TP_PDU bytes (ChecksumLoop).
THEOREM ThreeFaultsDetected ==
    ASSUME MaxFaults <= 3, NEW L \in Nat \ {0}, PeriodExceeds(L),
           \A data \in Payloads : Len(data) <= L
    PROVE  Spec => []DamageDetected
<1>1. Inv /\ DamageInv => DamageDetected
  BY ThreeFaults
<1> QED BY <1>1, DamageInvariant, PTL
=============================================================================
