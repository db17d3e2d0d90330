---------------------------- MODULE PacketHeader ----------------------------
(***************************************************************************)
(* The header of an S3TP packet (S3TP_HEADER in core/CommonTypes.h): its   *)
(* bit fields share words, and a packet starts as memory that nobody has   *)
(* initialised.  Each setter keeps what it does not write, so the fields   *)
(* are right only in the order in which the constructor of S3TP_PACKET,    *)
(* S3TP::fragmentPayload, TxModule::enqueuePacket and txRoutine call them, *)
(* and for a sync packet the constructor of TxModule.                      *)
(***************************************************************************)
EXTENDS Naturals

CONSTANTS
    Words,     \* 16-bit contents that uninitialised memory may have
    Bytes,     \* 8-bit contents that uninitialised memory may have
    Ports,     \* ports of applications
    Lengths,   \* payload lengths
    Numbers    \* sequence and fragment numbers

Below(b) == {x \in Nat : x < b}

ASSUME HeaderAssumption ==
    /\ Words \subseteq Below(65536) /\ Bytes \subseteq Below(256)
    /\ Ports \subseteq Below(128) /\ Lengths \subseteq Below(16384)
    /\ Numbers \subseteq Below(256)

VARIABLES
    hdr,    \* the header, word by word
    want,   \* ghost: what the sender has set
    pc      \* the last step of the sender

vars == <<hdr, want, pc>>

S3TP_MSG_DATA == 0
S3TP_MSG_SYNC == 3

-----------------------------------------------------------------------------
(***************************************************************************)
(* Getters and setters.                                                    *)
(***************************************************************************)
MoreFragments(h) == (h.port \div 128) % 2
GetPort(h) == h.port % 128
GetGlobalSequence(h) == h.seq \div 256
GetSubSequence(h) == h.seq % 256
GetPduLength(h) == h.pdu_length % 16384
GetMessageType(h) == h.pdu_length \div 16384

SetMoreFragments(h) == [h EXCEPT !.port = (h.port % 128) + 128]

\* Mutant of UnsetMoreFragments: fresh memory is taken to be zero
MutantUnsetSkipped(h) == h

UnsetMoreFragments(h) == [h EXCEPT !.port = h.port % 128]

\* The fragmentation bit is kept, whatever it is
SetPort(h, p) == [h EXCEPT !.port = 128 * MoreFragments(h) + p]

SetGlobalSequence(h, g) == [h EXCEPT !.seq = (h.seq % 256) + 256 * g]
SetSubSequence(h, s) == [h EXCEPT !.seq = 256 * (h.seq \div 256) + s]

\* Bit 14 of the type is kept, bit 15 is not
SetPduLength(h, len) ==
    [h EXCEPT !.pdu_length = 16384 * ((h.pdu_length \div 16384) % 2) + len]

SetMessageType(h, type) ==
    [h EXCEPT !.pdu_length = (h.pdu_length % 16384) + 16384 * type]

-----------------------------------------------------------------------------
Nothing == [type |-> 0, port |-> 0, len |-> 0, sub |-> 0, more |-> 0,
            gseq |-> 0, pseq |-> 0]

Init ==
    /\ hdr \in [seq : Words, pdu_length : Words, seq_port : Bytes, port : Bytes]
    /\ want = Nothing
    /\ pc = "memory"

\* S3TP_PACKET(pdu, pduLen)
Construct(len) ==
    /\ pc = "memory" /\ pc' = "constructed"
    /\ hdr' = SetPduLength(hdr, len)
    /\ want' = [want EXCEPT !.len = len]

\* sendSimplePayload, fragmentPayload
Address(p) ==
    /\ pc = "constructed" /\ pc' = "addressed"
    /\ hdr' = SetPort(hdr, p)
    /\ want' = [want EXCEPT !.port = p]

\* enqueuePacket
Enqueue(sub, more, seq_port) ==
    /\ pc = "addressed" /\ pc' = "enqueued"
    /\ LET h == [SetSubSequence(SetMessageType(hdr, S3TP_MSG_DATA), sub)
                   EXCEPT !.seq_port = seq_port]
       IN  hdr' = IF more = 1 THEN SetMoreFragments(h) ELSE UnsetMoreFragments(h)
    /\ want' = [want EXCEPT !.type = S3TP_MSG_DATA, !.sub = sub, !.more = more,
                            !.pseq = seq_port]

\* txRoutine
Number(g) ==
    /\ pc = "enqueued" /\ pc' = "sent"
    /\ hdr' = SetGlobalSequence(hdr, g)
    /\ want' = [want EXCEPT !.gseq = g]

\* TxModule::TxModule prepares its one sync packet
PrepareSync ==
    /\ pc = "constructed" /\ pc' = "sent"
    /\ LET typed == SetPort(SetMessageType(hdr, S3TP_MSG_SYNC), 0)
           numbered == SetSubSequence(SetGlobalSequence(typed, 0), 0)
       IN  hdr' = [UnsetMoreFragments(numbered) EXCEPT !.seq_port = 0]
    /\ want' = [want EXCEPT !.type = S3TP_MSG_SYNC]

Next ==
    \/ \E len \in Lengths : Construct(len)
    \/ \E p \in Ports : Address(p)
    \/ \E sub, seq_port \in Numbers, more \in {0, 1} :
         Enqueue(sub, more, seq_port)
    \/ \E g \in Numbers : Number(g)
    \/ PrepareSync

Spec == Init /\ [][Next]_vars

-----------------------------------------------------------------------------
(***************************************************************************)
(* Properties.                                                             *)
(***************************************************************************)
\* What the getters of the receiver return
Decoded(h) == [type |-> GetMessageType(h), port |-> GetPort(h),
               len |-> GetPduLength(h), sub |-> GetSubSequence(h),
               more |-> MoreFragments(h), gseq |-> GetGlobalSequence(h),
               pseq |-> h.seq_port]

\* A packet handed to the link layer decodes to what the sender set, whatever
\* the memory of the packet held before (the setters of S3TP_HEADER in the
\* order of their callers).
HeaderIntact == pc = "sent" => Decoded(hdr) = want
=============================================================================
