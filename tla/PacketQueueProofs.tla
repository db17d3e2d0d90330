-------------------------- MODULE PacketQueueProofs --------------------------
(***************************************************************************)
(* What the operations of PacketQueue guarantee for every width: the walk  *)
(* of push finds a place, keeps an ordered queue ordered, and appends a    *)
(* packet that follows all the others.                                     *)
(***************************************************************************)
EXTENDS PacketQueue, WellFoundedInduction, TLAPS

\* Incrementing a uint8_t stays within the uint8_t range.
LEMMA IncType == \A x \in SeqNums : Inc(x) \in SeqNums
BY SeqModAssumption DEF SeqNums, Inc

\* A difference of two uint8_t values is a uint8_t value.
LEMMA RelType == \A x, y \in SeqNums : Rel(x, y) \in SeqNums
BY SeqModAssumption DEF SeqNums, Rel

\* A queue whose 16-bit size is not 0 has a head (isEmpty before peek and pop).
LEMMA NotEmpty == ASSUME NEW S, NEW q \in Seq(S), ~ IsEmpty(q)
                  PROVE  q # << >>
BY SizeModAssumption DEF IsEmpty, Size

\* When the capacity is above what 16 bits count, push never drops a packet.
LEMMA NeverFull == ASSUME NEW S, NEW q \in Seq(S), SizeMod < MaxQueueCapacity
                   PROVE  ~ IsFull(q)
BY SizeModAssumption, CapacityAssumption DEF IsFull, Size

\* The walk of push from the tail always ends: the slot exists and is what
\* the definition says.
LEMMA SlotExists ==
    ASSUME NEW S, NEW q \in Seq(S), NEW e, NEW offset
    PROVE  LET k == Slot(q, e, offset)
           IN  /\ k \in 0 .. Len(q)
               /\ k = 0 \/ Before(q[k], e, offset)
               /\ \A j \in k + 1 .. Len(q) : ~ Before(q[j], e, offset)
<1> DEFINE T == {k \in 0 .. Len(q) :
                   \A j \in k + 1 .. Len(q) : ~ Before(q[j], e, offset)}
<1>1. Len(q) \in T /\ T \subseteq Nat
  OBVIOUS
<1>2. PICK k \in T : \A y \in T : ~ (<<y, k>> \in OpToRel(<, Nat))
  <2> HIDE DEF T
  <2> QED BY <1>1, NatLessThanWellFounded, WFMin
<1>3. \A y \in T : ~ (y < k)
  BY <1>1, <1>2 DEF OpToRel
<1>4. k = 0 \/ Before(q[k], e, offset)
  <2>1. SUFFICES ASSUME k # 0, ~ Before(q[k], e, offset) PROVE FALSE
    OBVIOUS
  <2>2. k - 1 \in T
    BY <2>1
  <2> QED BY <2>1, <2>2, <1>3
<1> QED BY <1>4 DEF Slot

\* Append as a function, the form in which the provers compare sequences.
LEMMA AppendIsFunction ==
    ASSUME NEW S, NEW q \in Seq(S), NEW e \in S
    PROVE  Append(q, e) =
             [i \in 1 .. Len(q) + 1 |-> IF i <= Len(q) THEN q[i] ELSE e]
<1>1. Append(q, e) \in Seq(S) /\ Len(Append(q, e)) = Len(q) + 1
  OBVIOUS
<1>2. DOMAIN Append(q, e) = 1 .. Len(q) + 1
  BY <1>1
<1>3. \A i \in 1 .. Len(q) + 1 :
        Append(q, e)[i] = IF i <= Len(q) THEN q[i] ELSE e
  OBVIOUS
<1> DEFINE f == Append(q, e)
<1>4. f = [i \in 1 .. Len(f) |-> f[i]]
  <2>1. f \in Seq(S)
    BY <1>1
  <2> HIDE DEF f
  <2> QED BY <2>1
<1> QED BY <1>1, <1>3, <1>4

\* The new packet is in the queue, everything else keeps its order.
LEMMA InsertAfterType ==
    ASSUME NEW S, NEW q \in Seq(S), NEW e \in S, NEW k \in 0 .. Len(q)
    PROVE  /\ InsertAfter(q, k, e) \in Seq(S)
           /\ Len(InsertAfter(q, k, e)) = Len(q) + 1
<1>1. InsertAfter(q, k, e) \in [1 .. Len(q) + 1 -> S]
  BY DEF InsertAfter
<1> QED BY <1>1 DEF InsertAfter

\* push keeps a queue a queue.
LEMMA PushType ==
    ASSUME NEW S, NEW q \in Seq(S), NEW e \in S, NEW offset
    PROVE  Push(q, e, offset) \in Seq(S)
BY SlotExists, InsertAfterType DEF Push

\* push keeps the queue ordered by distance from the next sequence number to
\* consume, whatever number the new packet carries: the head is always the
\* packet that comes first (PriorityQueue::push and comparePriority).
THEOREM PushOrdered ==
    ASSUME NEW S, \A x \in S : x.seq \in SeqNums,
           NEW q \in Seq(S), NEW e \in S, NEW offset \in SeqNums,
           Ordered(q, offset)
    PROVE  Ordered(Push(q, e, offset), offset)
<1>1. CASE IsFull(q)
  BY <1>1 DEF Push
<1>2. CASE ~ IsFull(q)
  <2>1. PICK k \in 0 .. Len(q) :
          /\ k = Slot(q, e, offset)
          /\ k = 0 \/ Before(q[k], e, offset)
          /\ \A j \in k + 1 .. Len(q) : ~ Before(q[j], e, offset)
    BY SlotExists
  <2> DEFINE r == InsertAfter(q, k, e)
             a == [i \in 1 .. Len(q) |-> Rel(q[i].seq, offset)]
             b == [i \in 1 .. Len(q) + 1 |-> Rel(r[i].seq, offset)]
             c == Rel(e.seq, offset)
  <2>2. \A i \in 1 .. Len(q) : a[i] \in Int
    <3>1. \A i \in 1 .. Len(q) : q[i].seq \in SeqNums
      OBVIOUS
    <3>2. \A i \in 1 .. Len(q) : Rel(q[i].seq, offset) \in SeqNums
      BY <3>1, RelType
    <3>3. \A x \in SeqNums : x \in Int
      BY SeqModAssumption DEF SeqNums
    <3> QED BY <3>2, <3>3
  <2>3. c \in Int
    <3>1. e.seq \in SeqNums
      OBVIOUS
    <3>2. Rel(e.seq, offset) \in SeqNums
      BY <3>1, RelType
    <3> QED BY <3>2, SeqModAssumption DEF SeqNums
  <2>4. \A i, j \in 1 .. Len(q) : i < j => a[i] <= a[j]
    BY <2>2 DEF Ordered, Before
  <2>5. /\ k = 0 \/ a[k] < c
        /\ \A j \in k + 1 .. Len(q) : c <= a[j]
    BY <2>1, <2>2, <2>3 DEF Before
  <2>6. \A i \in 1 .. k : a[i] <= c
    <3> HIDE DEF a, c
    <3>1. SUFFICES ASSUME NEW i \in 1 .. k PROVE a[i] <= c
      OBVIOUS
    <3>2. k \in 1 .. Len(q) /\ i \in 1 .. Len(q)
      BY <2>1
    <3>3. a[i] <= a[k]
      BY <2>2, <2>4, <3>2
    <3> QED BY <2>2, <2>3, <2>5, <3>2, <3>3
  <2>7. Len(r) = Len(q) + 1
    BY <2>1, InsertAfterType
  <2>8. SUFFICES ASSUME NEW i \in 1 .. Len(q) + 1, NEW j \in 1 .. Len(q) + 1,
                        i < j
                 PROVE  ~ (b[j] < b[i])
    BY <1>2, <2>1, <2>7 DEF Push, Ordered, Before
  <2>9. \A m \in 1 .. Len(q) + 1 :
           b[m] = IF m <= k THEN a[m] ELSE IF m = k + 1 THEN c ELSE a[m - 1]
    <3>1. SUFFICES ASSUME NEW m \in 1 .. Len(q) + 1
                   PROVE  b[m] = IF m <= k THEN a[m]
                                 ELSE IF m = k + 1 THEN c ELSE a[m - 1]
      OBVIOUS
    <3>2. CASE m <= k
      BY <3>2, <2>1 DEF InsertAfter
    <3>3. CASE m = k + 1
      BY <3>3, <2>1 DEF InsertAfter
    <3>4. CASE m > k + 1
      BY <3>4, <2>1 DEF InsertAfter
    <3> QED BY <3>2, <3>3, <3>4, <2>1
  <2> HIDE DEF a, b, c, r
  <2>10. Len(q) \in Nat
    OBVIOUS
  <2>11. /\ b[i] = IF i <= k THEN a[i] ELSE IF i = k + 1 THEN c ELSE a[i - 1]
         /\ b[j] = IF j <= k THEN a[j] ELSE IF j = k + 1 THEN c ELSE a[j - 1]
    BY <2>8, <2>9
  <2>12. CASE j <= k
    <3>1. a[i] <= a[j] /\ a[i] \in Int /\ a[j] \in Int
      BY <2>1, <2>2, <2>4, <2>8, <2>10, <2>12
    <3> QED BY <2>1, <2>8, <2>10, <2>11, <2>12, <3>1
  <2>13. CASE j = k + 1
    <3>1. a[i] <= c /\ a[i] \in Int
      BY <2>1, <2>2, <2>6, <2>8, <2>10, <2>13
    <3> QED BY <2>1, <2>3, <2>8, <2>10, <2>11, <2>13, <3>1
  <2>14. CASE j > k + 1 /\ i <= k
    <3>1. a[i] <= a[j - 1] /\ a[i] \in Int /\ a[j - 1] \in Int
      BY <2>1, <2>2, <2>4, <2>8, <2>10, <2>14
    <3> QED BY <2>1, <2>8, <2>10, <2>11, <2>14, <3>1
  <2>15. CASE j > k + 1 /\ i = k + 1
    <3>1. c <= a[j - 1] /\ a[j - 1] \in Int
      BY <2>1, <2>2, <2>5, <2>8, <2>10, <2>15
    <3> QED BY <2>1, <2>3, <2>8, <2>10, <2>11, <2>15, <3>1
  <2>16. CASE i > k + 1
    <3>1. a[i - 1] <= a[j - 1] /\ a[i - 1] \in Int /\ a[j - 1] \in Int
      BY <2>1, <2>2, <2>4, <2>8, <2>10, <2>16
    <3> QED BY <2>1, <2>8, <2>10, <2>11, <2>16, <3>1
  <2> QED BY <2>1, <2>8, <2>12, <2>13, <2>14, <2>15, <2>16
<1> QED BY <1>1, <1>2

\* A packet that comes after the last one of the queue is appended.
LEMMA PushAppends ==
    ASSUME NEW S, NEW q \in Seq(S), NEW e \in S, NEW offset,
           ~ IsFull(q), q = << >> \/ Before(q[Len(q)], e, offset)
    PROVE  Push(q, e, offset) = Append(q, e)
<1>1. PICK k \in 0 .. Len(q) :
          /\ k = Slot(q, e, offset)
          /\ \A j \in k + 1 .. Len(q) : ~ Before(q[j], e, offset)
  BY SlotExists
<1>2. Len(q) \in Nat
  OBVIOUS
<1>3. k = Len(q)
  <2>1. CASE q = << >>
    BY <1>1, <2>1
  <2>2. CASE q # << >>
    <3>1. Len(q) \notin k + 1 .. Len(q)
      BY <1>1, <2>2
    <3> QED BY <1>1, <1>2, <3>1
  <2> QED BY <2>1, <2>2
<1>4. InsertAfter(q, k, e) = Append(q, e)
  <2>1. InsertAfter(q, k, e) =
          [i \in 1 .. Len(q) + 1 |-> IF i <= Len(q) THEN q[i] ELSE e]
    BY <1>2, <1>3 DEF InsertAfter
  <2>2. Append(q, e) =
          [i \in 1 .. Len(q) + 1 |-> IF i <= Len(q) THEN q[i] ELSE e]
    BY <1>2, AppendIsFunction
  <2> QED BY <2>1, <2>2
<1> QED BY <1>1, <1>4 DEF Push
=============================================================================
