---------------------------- MODULE PacketQueue ----------------------------
(***************************************************************************)
(* The priority queue of packets (core/PriorityQueue.h) and the uint8_t    *)
(* sequence arithmetic of the two policy actors that order it (TxModule    *)
(* and RxModule).  A queue is a sequence of packets, head first; a packet  *)
(* is any record with a field seq, its 8-bit port sequence number.  The    *)
(* queue's own mutex q_mutex is only ever taken under the buffer_mutex of  *)
(* the Buffer that owns the queue, or for a single read, so each operation *)
(* is one value.                                                           *)
(***************************************************************************)
EXTENDS Naturals, Sequences

CONSTANTS
    SeqMod,            \* 2^8: values of a uint8_t sequence number
    SizeMod,           \* 2^16: values of the uint16_t size of a queue
    MaxQueueCapacity   \* MAX_QUEUE_SIZE / sizeof(S3TP_PACKET)

ASSUME SeqModAssumption == SeqMod \in Nat /\ SeqMod > 1
ASSUME SizeModAssumption == SizeMod \in Nat /\ SizeMod > 1
ASSUME CapacityAssumption == MaxQueueCapacity \in Nat /\ MaxQueueCapacity > 0

SeqNums == 0 .. SeqMod - 1

\* Mutant of Inc: the counter is wider than the field it numbers
MutantIncWide(x) == x + 1

\* x++ on a uint8_t
Inc(x) == IF x = SeqMod - 1 THEN 0 ELSE x + 1

\* (uint8_t)(a - b): the distance of a ahead of b
Rel(a, b) == IF a >= b THEN a - b ELSE (a + SeqMod) - b

\* Mutant of Before: compares the wrapped numbers themselves
MutantBeforeAbsolute(x, y, offset) == x.seq < y.seq

\* comparePriority(x, y) < 0 when `offset` is the next sequence to consume
Before(x, y, offset) == Rel(x.seq, offset) < Rel(y.seq, offset)

\* The uint16_t element count
Size(q) == Len(q) % SizeMod

\* isEmpty() looks at the counter, not at the list
IsEmpty(q) == Size(q) = 0

IsFull(q) == Size(q) >= MaxQueueCapacity

(***************************************************************************)
(* push() walks from the tail to the head and stops behind the first       *)
(* element that goes before the new one: Slot is how many elements stay in *)
(* front of it (0 when the walk reaches the head).  An element of equal    *)
(* priority ends up behind the new one.                                    *)
(***************************************************************************)
Slot(q, e, offset) ==
    CHOOSE k \in 0 .. Len(q) :
        /\ k = 0 \/ Before(q[k], e, offset)
        /\ \A j \in k + 1 .. Len(q) : ~ Before(q[j], e, offset)

InsertAfter(q, k, e) ==
    [i \in 1 .. Len(q) + 1 |->
        IF i <= k THEN q[i] ELSE IF i = k + 1 THEN e ELSE q[i - 1]]

\* A full queue drops the new element: QUEUE_FULL
Push(q, e, offset) ==
    IF IsFull(q) THEN q ELSE InsertAfter(q, Slot(q, e, offset), e)

\* No element goes before one that stands in front of it
Ordered(q, offset) ==
    \A i, j \in 1 .. Len(q) : i < j => ~ Before(q[j], q[i], offset)
=============================================================================
