------------------------------ MODULE Framing ------------------------------
(***************************************************************************)
(* How what is written is protected against damage.  On the socket between *)
(* application and daemon (core/S3tpShared.cpp) a length is written three  *)
(* times and read by a vote, and a type is a byte of two nibbles, each all *)
(* zeros or all ones, read by counting ones.  On the link between the      *)
(* peers a packet carries the checksum of its payload (enqueuePacket and   *)
(* handleReceivedPacket).  The medium may corrupt copies of the length,    *)
(* bits of the type, of the payload and of the checksum.                   *)
(***************************************************************************)
EXTENDS Checksum

CONSTANTS
    Lengths,    \* lengths written, and contents of corrupted copies
    Payloads,   \* payloads of packets: sequences of bytes
    MaxFaults   \* bound on corrupted copies, or on flipped bits

ASSUME FramingAssumption ==
    /\ Lengths \subseteq Nat /\ MaxFaults \in Nat
    /\ Payloads \subseteq Seq(SUBSET Byte)

VARIABLES
    sent,     \* what the writer wrote last: a length, a type or a payload
    wire,     \* the frame on the socket
    faults,   \* corruptions of the frame so far: copies or bits
    result    \* what the reader returned for the frame

vars == <<sent, wire, faults, result>>

SAFE_TRANSMISSION_COUNT == 3
Copies == 0 .. SAFE_TRANSMISSION_COUNT - 1
Low == 0 .. 3
High == 4 .. 7

\* Bits that are set in the byte of each AppControlMessageType
ControlByte == [ACK |-> {}, NACK |-> Low, AVAILABLE |-> High, RESERVED |-> Low \cup High]

NoFrame == [kind |-> "none"]
Unread == [code |-> "none"]

Init == sent = "none" /\ wire = NoFrame /\ faults = {} /\ result = Unread

-----------------------------------------------------------------------------
(***************************************************************************)
(* Decoding.                                                               *)
(***************************************************************************)
\* The inner loop of read_length_safe: copy i against copies 1, 2, itself too
Matches(c, i) == Cardinality({j \in Copies \ {0} : c[i] = c[j]})

\* The outer loop leaves out the last copy
Count(c) == Max({Matches(c, i) : i \in Copies \ {SAFE_TRANSMISSION_COUNT - 1}})

\* The first copy with the highest count
Voted(c) == c[Min({i \in Copies \ {SAFE_TRANSMISSION_COUNT - 1} :
                     Matches(c, i) = Count(c)})]

\* Mutant of Quorum: one comparison is enough
MutantQuorum(c) == Count(c) >= SAFE_TRANSMISSION_COUNT \div 2

Quorum(c) == Count(c) > SAFE_TRANSMISSION_COUNT \div 2

\* Mutant of SafeMessageTypeInterpretation: a nibble must be exact
MutantExactNibble(bits) ==
    CASE bits \cap Low = {} /\ bits \cap High = {} -> "ACK"
      [] bits \cap Low # {} /\ bits \cap High = {} -> "NACK"
      [] bits \cap Low = {} /\ bits \cap High # {} -> "AVAILABLE"
      [] OTHER -> "RESERVED"

SafeMessageTypeInterpretation(bits) ==
    LET low == Cardinality(bits \cap Low) <= 1
        high == Cardinality(bits \cap High) <= 1
    IN  CASE low /\ high -> "ACK"
          [] high /\ ~low -> "NACK"
          [] low /\ ~high -> "AVAILABLE"
          [] OTHER -> "RESERVED"

-----------------------------------------------------------------------------
(***************************************************************************)
(* Steps of the writer, the medium and the reader.                         *)
(***************************************************************************)
WriteLengthSafe(len) ==
    /\ wire = NoFrame
    /\ sent' = len
    /\ wire' = [kind |-> "length", copies |-> [i \in Copies |-> len]]
    /\ faults' = {} /\ result' = Unread

\* The write of write_length_safe fails
WriteLengthFails(len) ==
    /\ wire = NoFrame
    /\ sent' = len
    /\ faults' = {} /\ result' = [code |-> "SOCKET_WRITE"]
    /\ UNCHANGED wire

\* The type byte of a control message
WriteType(t) ==
    /\ wire = NoFrame
    /\ sent' = t
    /\ wire' = [kind |-> "type", bits |-> ControlByte[t]]
    /\ faults' = {} /\ result' = Unread

\* enqueuePacket computes the checksum of the payload
WritePacket(data) ==
    /\ wire = NoFrame
    /\ sent' = data
    /\ wire' = [kind |-> "packet", data |-> data, crc |-> calc_checksum(data)]
    /\ faults' = {} /\ result' = Unread

\* Fault: one copy of the length gets another value
CorruptCopy(i, v) ==
    /\ wire.kind = "length" /\ i \notin faults /\ Cardinality(faults) < MaxFaults
    /\ v # wire.copies[i]
    /\ wire' = [wire EXCEPT !.copies[i] = v]
    /\ faults' = faults \cup {i}
    /\ UNCHANGED <<sent, result>>

\* Fault: one bit of the type flips
FlipBit(b) ==
    /\ wire.kind = "type" /\ b \notin faults /\ Cardinality(faults) < MaxFaults
    /\ wire' = [wire EXCEPT !.bits = SymDiff(@, {b})]
    /\ faults' = faults \cup {b}
    /\ UNCHANGED <<sent, result>>

\* Fault: bit b of the checksum, or of byte j of the payload, flips
FlipChecksumBit(b) ==
    /\ wire.kind = "packet" /\ <<0, b>> \notin faults /\ Cardinality(faults) < MaxFaults
    /\ wire' = [wire EXCEPT !.crc = SymDiff(@, {b})]
    /\ faults' = faults \cup {<<0, b>>}
    /\ UNCHANGED <<sent, result>>

FlipPayloadBit(j, b) ==
    /\ wire.kind = "packet" /\ <<j, b>> \notin faults /\ Cardinality(faults) < MaxFaults
    /\ wire' = [wire EXCEPT !.data[j] = SymDiff(@, {b})]
    /\ faults' = faults \cup {<<j, b>>}
    /\ UNCHANGED <<sent, result>>

ReadLengthSafe ==
    /\ wire.kind = "length"
    /\ result' = IF Quorum(wire.copies)
                 THEN [code |-> "SUCCESS", len |-> Voted(wire.copies), copies |-> wire.copies]
                 ELSE [code |-> "LENGTH_CORRUPT", len |-> 0, copies |-> wire.copies]
    /\ wire' = NoFrame
    /\ UNCHANGED <<sent, faults>>

\* read fails or finds the end of the stream
ReadLengthFails(code) ==
    /\ wire.kind = "length"
    /\ result' = [code |-> code]
    /\ wire' = NoFrame
    /\ UNCHANGED <<sent, faults>>

ReadType ==
    /\ wire.kind = "type"
    /\ result' = [code |-> "TYPE", type |-> SafeMessageTypeInterpretation(wire.bits)]
    /\ wire' = NoFrame
    /\ UNCHANGED <<sent, faults>>

\* handleReceivedPacket: CODE_ERROR_CRC_INVALID, or the payload is taken
ReadPacket ==
    /\ wire.kind = "packet"
    /\ result' = IF verify_checksum(wire.data, wire.crc)
                 THEN [code |-> "ACCEPTED", data |-> wire.data]
                 ELSE [code |-> "CRC_INVALID"]
    /\ wire' = NoFrame
    /\ UNCHANGED <<sent, faults>>

Next ==
    \/ \E len \in Lengths : WriteLengthSafe(len) \/ WriteLengthFails(len)
    \/ \E t \in DOMAIN ControlByte : WriteType(t)
    \/ \E i \in Copies, v \in Lengths : CorruptCopy(i, v)
    \/ \E b \in Low \cup High : FlipBit(b)
    \/ \E data \in Payloads : WritePacket(data)
    \/ \E b \in Word : FlipChecksumBit(b)
    \/ wire.kind = "packet" /\ \E j \in 1 .. Len(wire.data), b \in Byte : FlipPayloadBit(j, b)
    \/ ReadPacket
    \/ ReadLengthSafe
    \/ \E code \in {"SOCKET_READ", "SOCKET_NO_CONN"} : ReadLengthFails(code)
    \/ ReadType

Spec == Init /\ [][Next]_vars

-----------------------------------------------------------------------------
(***************************************************************************)
(* Properties.                                                             *)
(***************************************************************************)
\* A length that read_length_safe returns with CODE_SUCCESS is the one written,
\* unless two of its copies were changed to the same wrong value.
LengthSound ==
    result.code = "SUCCESS" /\ result.len # sent =>
        Cardinality({i \in faults : result.copies[i] = result.len}) >= 2

\* safeMessageTypeInterpretation returns the type written as long as no more
\* than one bit of each nibble has flipped.
TypeRobust ==
    /\ result.code = "TYPE"
    /\ Cardinality(faults \cap Low) <= 1 /\ Cardinality(faults \cap High) <= 1
    => result.type = sent

\* A packet is accepted exactly when its payload and checksum arrive as they
\* were sent, as long as no more than MaxFaults (three) bits have flipped:
\* verify_checksum misses no error of up to three bits.
DamageDetected ==
    /\ result.code = "ACCEPTED" => faults = {} /\ result.data = sent
    /\ result.code = "CRC_INVALID" => faults # {}

\* The checksum that is sent is, with its bits reversed, the remainder of the
\* payload times x^16 by x^16 + x^15 + x^2 + 1: what calc_checksum computes
\* bit by bit is the cyclic code its detection of errors rests on.
ChecksumIsRemainder ==
    wire.kind = "packet" /\ faults = {} =>
        IsRemainder({15 - i : i \in wire.crc}, wire.data)

\* read_length_safe gives up only when no two copies agree ("No quorum, return
\* error").
CorruptMeansNoQuorum ==
    result.code = "LENGTH_CORRUPT" =>
        \A i, j \in Copies : i # j => result.copies[i] # result.copies[j]
=============================================================================
