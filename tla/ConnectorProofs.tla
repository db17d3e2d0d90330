-------------------------- MODULE ConnectorProofs --------------------------
(***************************************************************************)
(* Proofs about Connector for every number of messages, refusals, data     *)
(* messages and disturbances.                                              *)
(***************************************************************************)
EXTENDS Connector, FiniteSetTheorems, TLAPS

-----------------------------------------------------------------------------
(***************************************************************************)
(* The inductive invariant of the types.                                   *)
(***************************************************************************)
\* What each daemon thread may still have to write
Writing ==
    /\ pending["client"] \in {<< >>, Control("ACK"), Control("NACK"), <<"ACK">>, <<"NACK">>}
    /\ pending["link"] \in {<< >>, Control("AVAILABLE"), <<"AVAILABLE">>}
    /\ pending["assembly"] \in {<< >>, Data, <<"LENGTH", "PAYLOAD">>, <<"PAYLOAD">>}

Payloads(d) == {i \in 1 .. Len(d) : d[i] = "PAYLOAD"}

\* Payloads read, on the way or about to be written are all of data messages
Counted ==
    received + Cardinality(Payloads(down))
             + (IF pending["assembly"] = << >> THEN 0 ELSE 1) <= dataCount

TypeInv == TypeOK /\ Writing /\ Counted

-----------------------------------------------------------------------------
(***************************************************************************)
(* The inductive invariant of ExactlyOnce: where the answer to the current *)
(* message is while nothing disturbs the connection.                       *)
(***************************************************************************)
Calm == noise = 0 /\ closes = 0 /\ spurious = 0

In(d, t) == \E i \in 1 .. Len(d) : d[i] = t

HasCopy(m) == In(accepted, m)
InDown(t) == In(down, t)
AtClient(t) == pending["client"] \in {Control(t), <<t>>}

AckDue == AtClient("ACK") \/ InDown("ACK")
NackDue == AtClient("NACK") \/ InDown("NACK")
AvailableDue == owed \/ pending["link"] # << >> \/ InDown("AVAILABLE")

Answers == {"ACK", "NACK", "AVAILABLE"}

\* Of two answers on the way the first is a NACK and the second its AVAILABLE
AnswersOrdered(d) ==
    \A i, j \in 1 .. Len(d) :
        i < j /\ d[i] \in Answers /\ d[j] \in Answers =>
            d[i] = "NACK" /\ d[j] = "AVAILABLE"

\* Messages are accepted in the order of sending, each at most once
AcceptedInv ==
    /\ \A i \in 1 .. Len(accepted) : accepted[i] <= message
    /\ \A i, j \in 1 .. Len(accepted) : accepted[i] = accepted[j] => i = j
    /\ \A m \in 1 .. Len(results) : results[m] = "ok" => HasCopy(m)

\* A message on the way to the daemon: nobody owes anything
RequestInv ==
    up # << >> => /\ up = <<message>> /\ sendpc = "wait1" /\ ~ HasCopy(message)
                  /\ ~ AckDue /\ ~ NackDue /\ ~ AvailableDue

\* An answer on the way back: it is the answer to the current message, and an
\* AVAILABLE follows the NACK, never the other way round
AnswerInv ==
    /\ AckDue => /\ sendpc = "wait1" /\ HasCopy(message)
                 /\ ~ NackDue /\ ~ AvailableDue
    /\ NackDue => sendpc = "wait1" /\ ~ HasCopy(message) /\ AvailableDue
    /\ AvailableDue => /\ sendpc \in {"wait1", "woken1", "wait2"}
                       /\ ~ HasCopy(message)
                       /\ sendpc = "wait1" => lstpc = "garbled" \/ NackDue

\* Each answer exists once
OnceInv ==
    /\ \A t \in {"ACK", "NACK"} : AtClient(t) => ~ InDown(t)
    /\ AtClient("NACK") => owed
    /\ owed => pending["link"] = << >> /\ ~ InDown("AVAILABLE")
    /\ pending["link"] # << >> => ~ InDown("AVAILABLE")
    /\ AnswersOrdered(down)

\* What the flags of the connector say when send reads them
FlagInv ==
    /\ s3tpBufferFull => sendpc \in {"woken1", "wait2"}
    /\ sendpc = "woken1" =>
         /\ lastMessageAck => HasCopy(message) /\ ~ AvailableDue /\ ~ s3tpBufferFull
         /\ ~ lastMessageAck => ~ HasCopy(message)
    /\ sendpc \in {"wait2", "woken2"} => ~ HasCopy(message)

CalmInv == /\ connected /\ ~ closed
           /\ AcceptedInv /\ RequestInv /\ AnswerInv /\ OnceInv /\ FlagInv

Inv == TypeInv /\ (Calm => CalmInv)

-----------------------------------------------------------------------------
(***************************************************************************)
(* The writes of the daemon, and counting payloads.                        *)
(***************************************************************************)
\* The two writes of a control message.
LEMMA ControlWrites ==
    ASSUME NEW t
    PROVE  /\ Control(t) # << >> /\ <<t>> # << >>
           /\ Head(Control(t)) = "CONTROL" /\ Tail(Control(t)) = <<t>>
           /\ Head(<<t>>) = t /\ Tail(<<t>>) = << >>
BY DEF Control

\* The three writes of a data message.
LEMMA DataWrites ==
    /\ Data # << >> /\ <<"LENGTH", "PAYLOAD">> # << >> /\ <<"PAYLOAD">> # << >>
    /\ Head(Data) = "DATA" /\ Tail(Data) = <<"LENGTH", "PAYLOAD">>
    /\ Head(<<"LENGTH", "PAYLOAD">>) = "LENGTH"
    /\ Tail(<<"LENGTH", "PAYLOAD">>) = <<"PAYLOAD">>
    /\ Head(<<"PAYLOAD">>) = "PAYLOAD" /\ Tail(<<"PAYLOAD">>) = << >>
BY DEF Data

\* The payloads of a sequence can be counted.
LEMMA PayloadsFinite ==
    ASSUME NEW d \in Seq(Tokens)
    PROVE  IsFiniteSet(Payloads(d)) /\ Cardinality(Payloads(d)) \in Nat
<1>1. IsFiniteSet(1 .. Len(d))
  BY FS_Interval
<1>2. IsFiniteSet(Payloads(d))
  BY <1>1, FS_Subset DEF Payloads
<1> QED BY <1>2, FS_CardinalityType

\* A write adds one to the count if it writes a payload.
LEMMA PayloadsAppend ==
    ASSUME NEW d \in Seq(Tokens), NEW t \in Tokens
    PROVE  Cardinality(Payloads(Append(d, t))) =
             Cardinality(Payloads(d)) + (IF t = "PAYLOAD" THEN 1 ELSE 0)
<1> DEFINE n == Len(d)
<1>1. n \in Nat /\ Len(Append(d, t)) = n + 1 /\ Append(d, t)[n + 1] = t
  OBVIOUS
<1>2. \A i \in 1 .. n : Append(d, t)[i] = d[i]
  OBVIOUS
<1>3. CASE t = "PAYLOAD"
  <2>1. Payloads(Append(d, t)) = Payloads(d) \cup {n + 1}
    BY <1>1, <1>2, <1>3 DEF Payloads
  <2>2. n + 1 \notin Payloads(d)
    BY <1>1 DEF Payloads
  <2>3. Cardinality(Payloads(d) \cup {n + 1}) = Cardinality(Payloads(d)) + 1
    BY <2>2, PayloadsFinite, FS_AddElement
  <2> QED BY <1>3, <2>1, <2>3
<1>4. CASE t # "PAYLOAD"
  <2>1. Payloads(Append(d, t)) = Payloads(d)
    BY <1>1, <1>2, <1>4 DEF Payloads
  <2> QED BY <1>4, <2>1, PayloadsFinite
<1> QED BY <1>3, <1>4

\* A read takes one off the count if it reads a payload.
LEMMA PayloadsTail ==
    ASSUME NEW d \in Seq(Tokens), d # << >>
    PROVE  Cardinality(Payloads(Tail(d))) =
             Cardinality(Payloads(d)) - (IF Head(d) = "PAYLOAD" THEN 1 ELSE 0)
<1> DEFINE S == Payloads(d)  T == Payloads(Tail(d))  f == [i \in T |-> i + 1]
<1>1. /\ Len(d) \in Nat \ {0} /\ Tail(d) \in Seq(Tokens) /\ Len(Tail(d)) = Len(d) - 1
      /\ Head(d) = d[1]
  OBVIOUS
<1>2. \A i \in 1 .. Len(d) - 1 : Tail(d)[i] = d[i + 1]
  OBVIOUS
<1>3. T = {i \in 1 .. Len(d) - 1 : d[i + 1] = "PAYLOAD"}
  BY <1>1, <1>2 DEF Payloads
<1>4. S = {i \in 1 .. Len(d) : d[i] = "PAYLOAD"}
  BY DEF Payloads
<1> HIDE DEF S, T
<1>5. f \in [T -> S \ {1}]
  BY <1>1, <1>3, <1>4
<1>6. \A i, j \in T : f[i] = f[j] => i = j
  BY <1>1, <1>3
<1>7. \A k \in S \ {1} : \E i \in T : f[i] = k
  <2>1. SUFFICES ASSUME NEW k \in S \ {1} PROVE \E i \in T : f[i] = k
    OBVIOUS
  <2>2. k - 1 \in T /\ (k - 1) + 1 = k
    BY <1>1, <1>3, <1>4
  <2> QED BY <2>2
<1>8. f \in Bijection(T, S \ {1})
  <2> HIDE DEF f
  <2> QED BY <1>5, <1>6, <1>7 DEF Bijection, Injection, Surjection, IsInjective
<1>9. IsFiniteSet(T) /\ IsFiniteSet(S) /\ Cardinality(S) \in Nat
  BY <1>1, PayloadsFinite DEF S, T
<1>10. Cardinality(S \ {1}) = Cardinality(T)
  BY <1>8, <1>9, FS_Bijection DEF ExistsBijection
<1>11. Cardinality(S \ {1}) = IF 1 \in S THEN Cardinality(S) - 1 ELSE Cardinality(S)
  BY <1>9, FS_RemoveElement
<1>12. 1 \in S <=> Head(d) = "PAYLOAD"
  BY <1>1, <1>4
<1> QED BY <1>9, <1>10, <1>11, <1>12 DEF S, T

-----------------------------------------------------------------------------
(***************************************************************************)
(* The types.                                                              *)
(***************************************************************************)
\* The bounds are numbers.
LEMMA BoundsNat ==
    /\ MaxSends \in Nat /\ MaxRefusals \in Nat /\ MaxNoise \in Nat /\ MaxData \in Nat
    /\ MaxCloses \in Nat /\ MaxSpurious \in Nat /\ MaxEvents \in Nat
BY ConnectorBounds

Codes == {"ok", "no connection", "write error"}   \* what send returns

\* The types of what is counted and of sequences.
LEMMA TypeFacts ==
    ASSUME TypeOK
    PROVE  /\ message \in Nat /\ message <= MaxSends
           /\ results \in Seq(Codes) /\ Len(results) \in Nat
           /\ sendpc = "idle" => Len(results) = message
           /\ sendpc # "idle" => Len(results) = message - 1 /\ message # 0
           /\ received \in Nat /\ dataCount \in Nat
           /\ down \in Seq(Tokens) /\ pending \in [Writers -> Seq(Tokens)]
           /\ up \in Seq(1 .. MaxSends) /\ accepted \in Seq(1 .. MaxSends)
           /\ Cardinality(Payloads(down)) \in Nat
<1>1. /\ message \in 0 .. MaxSends /\ received \in 0 .. dataCount
      /\ dataCount \in 0 .. MaxData
      /\ down \in Seq(Tokens) /\ pending \in [Writers -> Seq(Tokens)]
      /\ up \in Seq(1 .. MaxSends) /\ accepted \in Seq(1 .. MaxSends)
  BY DEF TypeOK
<1>2. message \in Nat /\ message <= MaxSends /\ received \in Nat /\ dataCount \in Nat
  BY <1>1, BoundsNat
<1>3. results \in Seq(Codes)
  BY DEF TypeOK, Codes
<1>4. Len(results) \in Nat
  BY <1>3
<1>5. /\ sendpc = "idle" => Len(results) = message
      /\ sendpc # "idle" => Len(results) = message - 1
  BY DEF TypeOK
<1>6. sendpc # "idle" => message # 0
  BY <1>2, <1>4, <1>5
<1>7. Cardinality(Payloads(down)) \in Nat
  BY <1>1, PayloadsFinite
<1> QED BY <1>1, <1>2, <1>3, <1>4, <1>5, <1>6, <1>7

\* A return from send adds one result.
LEMMA ReturnType ==
    ASSUME TypeOK, NEW r \in Codes, Return(r)
    PROVE  results' \in Seq(Codes) /\ Len(results') = Len(results) + 1 /\ sendpc' = "idle"
BY TypeFacts DEF Return

\* Steps of send keep the types, and one result for every message but the last.
LEMMA SendTypes ==
    ASSUME TypeInv, Send \/ SendCheck \/ SendRetry
    PROVE  TypeInv'
<1> USE DEF TypeInv
<1>1. /\ UNCHANGED <<connVars, lstpc, down, closed, pending, accepted, owed,
                     received, cutShort, countVars>>
  BY DEF Send, SendCheck, SendRetry, SendRest
<1>2. Writing' /\ Counted'
  BY <1>1 DEF Writing, Counted, countVars, Payloads
<1>3. /\ message \in Nat /\ message <= MaxSends /\ MaxSends \in Nat
      /\ up \in Seq(1 .. MaxSends) /\ Len(results) \in Nat
      /\ sendpc = "idle" => Len(results) = message
      /\ sendpc # "idle" => Len(results) = message - 1 /\ message # 0
  BY TypeFacts, BoundsNat
<1>4. results \in Seq(Codes)
  BY TypeFacts
<1>5. ASSUME NEW r \in Codes, Return(r)
      PROVE  results' \in Seq(Codes) /\ Len(results') = Len(results) + 1 /\ sendpc' = "idle"
  BY <1>5, ReturnType
<1> DEFINE Goal == /\ message' \in 0 .. MaxSends
                   /\ sendpc' \in {"idle", "wait1", "woken1", "wait2", "woken2"}
                   /\ results' \in Seq(Codes)
                   /\ Len(results') = IF sendpc' = "idle" THEN message' ELSE message' - 1
                   /\ up' \in Seq(1 .. MaxSends)
<1>6. CASE Send
  <2>1. message < MaxSends /\ message' = message + 1 /\ sendpc = "idle"
    BY <1>6 DEF Send
  <2>2. message + 1 \in 1 .. MaxSends /\ Len(results) = message
    BY <1>3, <2>1
  <2>3. ASSUME sendpc' = "wait1" /\ up' = Append(up, message + 1) /\ UNCHANGED results
        PROVE  Goal
    <3>1. up' \in Seq(1 .. MaxSends)
      BY <1>3, <2>2, <2>3
    <3>2. Len(results') = message' - 1 /\ message' \in 0 .. MaxSends
      BY <1>3, <2>1, <2>2, <2>3
    <3> QED BY <1>4, <2>3, <3>1, <3>2
  <2>4. ASSUME UNCHANGED up /\ (Return("write error") \/ Return("no connection"))
        PROVE  Goal
    <3>1. results' \in Seq(Codes) /\ sendpc' = "idle" /\ up' = up
      BY <2>1, <1>5, <2>4 DEF Codes
    <3>2. Len(results') = Len(results) + 1
      BY <1>5, <2>4 DEF Codes
    <3>3. Len(results') = message' /\ message' \in 0 .. MaxSends
      BY <1>3, <2>1, <2>2, <3>2
    <3> QED BY <1>3, <3>1, <3>3
  <2>5. Goal
    BY <1>6, <2>3, <2>4 DEF Send, WriteMessage
  <2> QED BY <1>1, <1>2, <2>5 DEF TypeOK, connVars, countVars, Codes
<1>7. CASE SendCheck
  <2>1. UNCHANGED <<message, up>> /\ sendpc = "woken1"
    BY <1>7 DEF SendCheck
  <2>2. ASSUME Return("no connection") \/ Return("ok")
        PROVE  Goal
    <3>1. results' \in Seq(Codes) /\ sendpc' = "idle" /\ up' = up
      BY <2>1, <1>5, <2>2 DEF Codes
    <3>2. Len(results') = Len(results) + 1
      BY <1>5, <2>2 DEF Codes
    <3>3. Len(results') = message' /\ message' \in 0 .. MaxSends
      BY <1>3, <2>1, <3>2
    <3> QED BY <1>3, <3>1, <3>3
  <2>3. ASSUME sendpc' = "wait2" /\ UNCHANGED results
        PROVE  Goal
    BY <1>3, <1>4, <2>1, <2>3
  <2>4. Goal
    BY <1>7, <2>2, <2>3 DEF SendCheck
  <2> QED BY <1>1, <1>2, <2>4 DEF TypeOK, connVars, countVars, Codes
<1>8. CASE SendRetry
  <2>1. UNCHANGED message /\ sendpc = "woken2"
    BY <1>8 DEF SendRetry
  <2>2. message \in 1 .. MaxSends /\ Len(results) = message - 1
    BY <1>3, <2>1
  <2>3. ASSUME sendpc' = "wait1" /\ up' = Append(up, message) /\ UNCHANGED results
        PROVE  Goal
    <3>1. up' \in Seq(1 .. MaxSends) /\ message' \in 0 .. MaxSends
      BY <1>3, <2>1, <2>2, <2>3
    <3> QED BY <1>4, <2>1, <2>2, <2>3, <3>1
  <2>4. ASSUME UNCHANGED up /\ (Return("write error") \/ Return("ok"))
        PROVE  Goal
    <3>1. results' \in Seq(Codes) /\ sendpc' = "idle" /\ up' = up
      BY <2>1, <1>5, <2>4 DEF Codes
    <3>2. Len(results') = Len(results) + 1
      BY <1>5, <2>4 DEF Codes
    <3>3. Len(results') = message' /\ message' \in 0 .. MaxSends
      BY <1>3, <2>1, <2>2, <3>2
    <3> QED BY <1>3, <3>1, <3>3
  <2>5. Goal
    BY <1>8, <2>3, <2>4 DEF SendRetry, WriteMessage
  <2> QED BY <1>1, <1>2, <2>5 DEF TypeOK, connVars, countVars, Codes
<1> QED BY <1>6, <1>7, <1>8

\* A notification leaves send in the same call.
LEMMA NotifiedType ==
    ASSUME TypeOK
    PROVE  /\ Notified \in {"idle", "wait1", "woken1", "wait2", "woken2"}
           /\ Notified = "idle" <=> sendpc = "idle"
BY DEF TypeOK, Notified

\* Steps of the listener keep the types: a payload that is read was counted.
LEMMA ListenTypes ==
    ASSUME TypeInv, ListenerStep
    PROVE  TypeInv'
<1> USE DEF TypeInv
<1>1. ListenRest
  BY DEF ListenerStep, ListenToken, ListenAck, ListenNack, ListenAvailable,
         ListenGarbled, ListenEof, ListenCutShort, ListenStop
<1>2. sendpc' \in {sendpc, Notified}
  BY DEF ListenerStep, ListenToken, ListenAck, ListenNack, ListenAvailable,
         ListenGarbled, ListenEof, ListenCutShort, ListenStop
<1>3. /\ sendpc' \in {"idle", "wait1", "woken1", "wait2", "woken2"}
      /\ sendpc' = "idle" <=> sendpc = "idle"
  BY <1>2, NotifiedType DEF TypeOK
<1>4. lstpc' \in {"type", "control", "length", "payload", "garbled", "done"}
  BY DEF ListenerStep, ListenToken, ListenAck, ListenNack, ListenAvailable,
         ListenGarbled, ListenEof, ListenCutShort, ListenStop, After
<1>5. /\ connected' \in BOOLEAN /\ lastMessageAck' \in BOOLEAN
      /\ s3tpBufferFull' \in BOOLEAN /\ closed' \in BOOLEAN /\ cutShort' \in BOOLEAN
  BY DEF ListenerStep, ListenToken, ListenAck, ListenNack, ListenAvailable,
         ListenGarbled, ListenEof, ListenCutShort, ListenStop, TypeOK, connVars
<1>6. \/ UNCHANGED <<down, received>>
      \/ /\ down # << >> /\ down' = Tail(down)
         /\ \/ UNCHANGED received
            \/ received' = received + 1 /\ Head(down) = "PAYLOAD"
  BY DEF ListenerStep, ListenToken, ListenAck, ListenNack, ListenAvailable,
         ListenGarbled, ListenEof, ListenCutShort, ListenStop
<1>7. /\ down' \in Seq(Tokens) /\ received' \in Nat
      /\ received' + Cardinality(Payloads(down')) <= received + Cardinality(Payloads(down))
  <2>1. down \in Seq(Tokens) /\ received \in Nat /\ Cardinality(Payloads(down)) \in Nat
    BY TypeFacts
  <2>2. CASE UNCHANGED <<down, received>>
    BY <2>1, <2>2
  <2>3. CASE down # << >> /\ down' = Tail(down)
    <3>1. Cardinality(Payloads(Tail(down))) =
            Cardinality(Payloads(down)) - (IF Head(down) = "PAYLOAD" THEN 1 ELSE 0)
      BY <2>1, <2>3, PayloadsTail
    <3>2. Tail(down) \in Seq(Tokens)
      BY <2>1, <2>3
    <3> QED BY <1>6, <2>1, <2>3, <3>1, <3>2
  <2> QED BY <1>6, <2>2, <2>3
<1>8. Cardinality(Payloads(down')) \in Nat /\ Cardinality(Payloads(down)) \in Nat
  BY <1>7, PayloadsFinite, TypeFacts
<1>9. Writing'
  BY <1>1 DEF ListenRest, Writing
<1>10. Counted' /\ received' \in 0 .. dataCount'
  <2> DEFINE left == IF pending["assembly"] = << >> THEN 0 ELSE 1
  <2>1. left \in Nat /\ received \in Nat /\ dataCount \in Nat
    BY TypeFacts
  <2>2. received + Cardinality(Payloads(down)) + left <= dataCount
    BY DEF Counted
  <2>3. pending' = pending /\ dataCount' = dataCount
    BY <1>1 DEF ListenRest, countVars
  <2> HIDE DEF left
  <2>4. /\ received' + Cardinality(Payloads(down')) + left <= dataCount
        /\ received' \in 0 .. dataCount
    BY <1>7, <1>8, <2>1, <2>2
  <2> QED BY <2>3, <2>4 DEF Counted, left, Payloads
<1>11. TypeOK'
  <2>1. /\ message' = message /\ results' = results /\ up' = up /\ pending' = pending
        /\ accepted' = accepted /\ owed' = owed /\ countVars' = countVars
    BY <1>1 DEF ListenRest
  <2>2. Len(results') = IF sendpc' = "idle" THEN message' ELSE message' - 1
    BY <1>3, <2>1 DEF TypeOK
  <2> QED BY <1>3, <1>4, <1>5, <1>7, <1>10, <2>1, <2>2 DEF TypeOK, countVars
<1> QED BY <1>9, <1>10, <1>11

\* A write moves what it writes from the writer to the socket.
LEMMA WriteTypes ==
    ASSUME TypeInv, NEW w \in Writers, WriteNext(w)
    PROVE  TypeInv'
<1> USE DEF TypeInv
<1>1. /\ DaemonRest /\ UNCHANGED <<up, accepted, owed, refusals, noise, dataCount>>
      /\ pending[w] # << >>
  BY DEF WriteNext
<1>2. pending \in [Writers -> Seq(Tokens)] /\ down \in Seq(Tokens)
  BY TypeFacts
<1>3. Head(pending[w]) \in Tokens /\ Tail(pending[w]) \in Seq(Tokens)
  BY <1>1, <1>2
<1>4. down' \in Seq(Tokens) /\ pending' \in [Writers -> Seq(Tokens)]
  <2>1. down' \in {down, Append(down, Head(pending[w]))}
    BY DEF WriteNext
  <2>2. pending' \in {[pending EXCEPT ![w] = Tail(@)], [pending EXCEPT ![w] = << >>]}
    BY DEF WriteNext
  <2>3. down' \in Seq(Tokens)
    BY <1>2, <1>3, <2>1
  <2>4. << >> \in Seq(Tokens)
    OBVIOUS
  <2>5. pending' \in [Writers -> Seq(Tokens)]
    BY <1>2, <1>3, <2>2, <2>4
  <2> QED BY <2>3, <2>5
<1>5. Writing'
  <2>1. pending' \in {[pending EXCEPT ![w] = Tail(@)], [pending EXCEPT ![w] = << >>]}
    BY DEF WriteNext
  <2>2. CASE w = "client"
    <3>1. Tail(pending["client"]) \in {<< >>, <<"ACK">>, <<"NACK">>}
      BY <1>1, <2>2, ControlWrites DEF Writing
    <3>2. pending'["client"] \in {<< >>, <<"ACK">>, <<"NACK">>}
      BY <1>2, <2>1, <2>2, <3>1 DEF Writers
    <3>3. /\ pending'["link"] = pending["link"]
          /\ pending'["assembly"] = pending["assembly"]
      BY <1>2, <2>1, <2>2 DEF Writers
    <3> QED BY <3>2, <3>3 DEF Writing
  <2>3. CASE w = "link"
    BY <1>1, <1>2, <2>1, <2>3, ControlWrites DEF Writing, Writers
  <2>4. CASE w = "assembly"
    BY <1>1, <1>2, <2>1, <2>4, DataWrites DEF Writing, Writers
  <2> QED BY <2>2, <2>3, <2>4 DEF Writers
<1>6. Counted'
  <2> DEFINE left == IF pending["assembly"] = << >> THEN 0 ELSE 1
             left2 == IF pending'["assembly"] = << >> THEN 0 ELSE 1
  <2>1. Cardinality(Payloads(down)) \in Nat
    BY <1>2, PayloadsFinite
  <2>2. Cardinality(Payloads(down')) + left2 <= Cardinality(Payloads(down)) + left
    <3>1. CASE closed /\ pending' = [pending EXCEPT ![w] = << >>] /\ UNCHANGED down
      BY <1>2, <2>1, <3>1 DEF Payloads, Writers
    <3>2. CASE /\ ~ closed /\ down' = Append(down, Head(pending[w]))
               /\ pending' = [pending EXCEPT ![w] = Tail(@)]
      <4>1. Cardinality(Payloads(down')) = Cardinality(Payloads(down))
                + (IF Head(pending[w]) = "PAYLOAD" THEN 1 ELSE 0)
        BY <1>2, <1>3, <3>2, PayloadsAppend
      <4>2. CASE w # "assembly"
        <5>1. Head(pending[w]) # "PAYLOAD"
          BY <1>1, <4>2, ControlWrites DEF Writing, Writers
        <5>2. pending'["assembly"] = pending["assembly"]
          BY <1>2, <3>2, <4>2 DEF Writers
        <5> QED BY <2>1, <4>1, <5>1, <5>2
      <4>3. CASE w = "assembly"
        <5>1. \/ Head(pending[w]) # "PAYLOAD"
              \/ Tail(pending[w]) = << >>
          BY <1>1, <4>3, DataWrites DEF Writing
        <5>2. pending'["assembly"] = Tail(pending[w]) /\ left = 1
          BY <1>1, <1>2, <3>2, <4>3 DEF Writers
        <5> QED BY <2>1, <4>1, <5>1, <5>2
      <4> QED BY <4>2, <4>3
    <3> QED BY <3>1, <3>2 DEF WriteNext
  <2>3. received' = received /\ dataCount' = dataCount /\ received \in Nat /\ dataCount \in Nat
    BY <1>1, TypeFacts DEF DaemonRest
  <2>4. Cardinality(Payloads(down')) \in Nat
    BY <1>4, PayloadsFinite
  <2>5. received + Cardinality(Payloads(down)) + left <= dataCount
    BY DEF Counted
  <2> HIDE DEF left, left2
  <2>6. left \in Nat /\ left2 \in Nat
    BY DEF left, left2
  <2>7. received' + Cardinality(Payloads(down')) + left2 <= dataCount'
    BY <2>1, <2>2, <2>3, <2>4, <2>5, <2>6
  <2> QED BY <2>7 DEF Counted, left2, Payloads
<1>7. TypeOK'
  BY <1>1, <1>4 DEF TypeOK, DaemonRest, connVars
<1> QED BY <1>5, <1>6, <1>7

\* The parts of a sequence have its type.
LEMMA HeadTail == ASSUME NEW S, NEW q \in Seq(S), q # << >>
                  PROVE  Head(q) \in S /\ Tail(q) \in Seq(S)
OBVIOUS

\* The daemon takes up work: an answer, an AVAILABLE or a data message.
LEMMA TakeUpTypes ==
    ASSUME TypeInv, Accept \/ RefuseMessage \/ NotifyOwed \/ NotifyAll \/ SendData
    PROVE  TypeInv'
<1> USE DEF TypeInv
<1>1. /\ DaemonRest /\ UNCHANGED down
      /\ up' = up \/ (up # << >> /\ up' = Tail(up))
      /\ \/ accepted' = accepted
         \/ up # << >> /\ accepted' = Append(accepted, Head(up))
      /\ owed' \in {owed, TRUE, FALSE}
  BY DEF Accept, RefuseMessage, NotifyOwed, NotifyAll, SendData
<1>2. pending \in [Writers -> Seq(Tokens)] /\ Writing
  BY TypeFacts
<1>3. \A t \in {"ACK", "NACK", "AVAILABLE"} : Control(t) \in Seq(Tokens)
  BY DEF Control, Tokens
<1>4. Data \in Seq(Tokens)
  BY DEF Data, Tokens
<1>5. pending' \in {[pending EXCEPT !["client"] = Control("ACK")],
                    [pending EXCEPT !["client"] = Control("NACK")],
                    [pending EXCEPT !["link"] = Control("AVAILABLE")],
                    [pending EXCEPT !["assembly"] = Data]}
  BY DEF Accept, RefuseMessage, NotifyOwed, NotifyAll, SendData
<1>6. pending' \in [Writers -> Seq(Tokens)]
  BY <1>2, <1>3, <1>4, <1>5
<1>7. Writing'
  BY <1>2, <1>5 DEF Writing, Writers
<1>8. up' \in Seq(1 .. MaxSends) /\ accepted' \in Seq(1 .. MaxSends)
  <2>1. up \in Seq(1 .. MaxSends) /\ accepted \in Seq(1 .. MaxSends)
    BY TypeFacts
  <2>2. up # << >> => Head(up) \in 1 .. MaxSends /\ Tail(up) \in Seq(1 .. MaxSends)
    BY <2>1, HeadTail
  <2>3. up' \in Seq(1 .. MaxSends)
    BY <1>1, <2>1, <2>2
  <2>4. up # << >> => Append(accepted, Head(up)) \in Seq(1 .. MaxSends)
    BY <2>1, <2>2
  <2> QED BY <1>1, <2>1, <2>3, <2>4
<1>9. /\ refusals' \in 0 .. MaxRefusals /\ noise' \in 0 .. MaxNoise
  <2>1. refusals \in 0 .. MaxRefusals /\ noise \in 0 .. MaxNoise
    BY DEF TypeOK
  <2>2. /\ refusals' = refusals \/ (refusals < MaxRefusals /\ refusals' = refusals + 1)
        /\ noise' = noise \/ (noise < MaxNoise /\ noise' = noise + 1)
    BY DEF Accept, RefuseMessage, NotifyOwed, NotifyAll, SendData
  <2> QED BY <2>1, <2>2, BoundsNat
<1>10. /\ dataCount' \in 0 .. MaxData /\ received' \in 0 .. dataCount' /\ Counted'
  <2> DEFINE left == IF pending["assembly"] = << >> THEN 0 ELSE 1
             left2 == IF pending'["assembly"] = << >> THEN 0 ELSE 1
  <2>1. dataCount \in 0 .. MaxData /\ received \in 0 .. dataCount
    BY DEF TypeOK
  <2>2. /\ received' = received /\ Payloads(down') = Payloads(down)
        /\ Cardinality(Payloads(down)) \in Nat /\ received \in Nat /\ dataCount \in Nat
    BY <1>1, TypeFacts DEF DaemonRest
  <2>3. received + Cardinality(Payloads(down)) + left <= dataCount
    BY DEF Counted
  <2>4. \/ dataCount' = dataCount /\ pending'["assembly"] = pending["assembly"]
        \/ /\ dataCount' = dataCount + 1 /\ dataCount < MaxData
           /\ pending["assembly"] = << >>
    <3>1. CASE SendData
      BY <3>1 DEF SendData
    <3>2. CASE Accept \/ RefuseMessage \/ NotifyOwed \/ NotifyAll
      BY <1>2, <3>2 DEF Accept, RefuseMessage, NotifyOwed, NotifyAll, Writers
    <3> QED BY <3>1, <3>2
  <2>5. \/ dataCount' = dataCount /\ left2 = left
        \/ dataCount' = dataCount + 1 /\ dataCount < MaxData /\ left = 0 /\ left2 \in {0, 1}
    BY <2>4
  <2>6. left \in Nat
    OBVIOUS
  <2> HIDE DEF left, left2
  <2>7. received + Cardinality(Payloads(down)) + left2 <= dataCount'
    BY <2>2, <2>3, <2>5, <2>6
  <2>8. dataCount' \in 0 .. MaxData /\ received' \in 0 .. dataCount'
    BY <2>1, <2>2, <2>5, BoundsNat
  <2> QED BY <2>2, <2>7, <2>8 DEF Counted, left2, Payloads
<1>11. TypeOK'
  BY <1>1, <1>6, <1>8, <1>9, <1>10 DEF TypeOK, DaemonRest, connVars
<1> QED BY <1>7, <1>10, <1>11

\* The connection is closed, or a wait returns for no reason.
LEMMA DisturbTypes ==
    ASSUME TypeInv, DaemonClose \/ ApplicationClose \/ SpuriousWakeup
    PROVE  TypeInv'
<1> USE DEF TypeInv
<1>1. /\ UNCHANGED <<lastMessageAck, s3tpBufferFull, message, results, lstpc, up, down,
                     pending, accepted, owed, received, cutShort, refusals, noise,
                     dataCount>>
      /\ connected' \in {connected, FALSE} /\ closed' \in {closed, TRUE}
      /\ sendpc' \in {sendpc, Notified}
  BY DEF DaemonClose, ApplicationClose, SpuriousWakeup, CloseRest, connVars
<1>2. closes' \in 0 .. MaxCloses /\ spurious' \in 0 .. MaxSpurious
  <2>1. closes \in 0 .. MaxCloses /\ spurious \in 0 .. MaxSpurious
    BY DEF TypeOK
  <2>2. /\ closes' = closes \/ (closes < MaxCloses /\ closes' = closes + 1)
        /\ spurious' = spurious \/ (spurious < MaxSpurious /\ spurious' = spurious + 1)
    BY DEF DaemonClose, ApplicationClose, SpuriousWakeup, Closing, CloseRest
  <2> QED BY <2>1, <2>2, BoundsNat
<1>3. /\ sendpc' \in {"idle", "wait1", "woken1", "wait2", "woken2"}
      /\ sendpc' = "idle" <=> sendpc = "idle"
  BY <1>1, NotifiedType DEF TypeOK
<1>4. Writing' /\ Counted'
  BY <1>1 DEF Writing, Counted, Payloads
<1>5. Len(results') = IF sendpc' = "idle" THEN message' ELSE message' - 1
  BY <1>1, <1>3 DEF TypeOK
<1> QED BY <1>1, <1>2, <1>3, <1>4, <1>5 DEF TypeOK

\* Every step keeps the types.
LEMMA TypeStep == ASSUME TypeInv, [Next]_vars PROVE TypeInv'
<1>1. CASE UNCHANGED vars
  BY <1>1 DEF TypeInv, TypeOK, Writing, Counted, Payloads, vars, connVars, countVars
<1> QED BY <1>1, SendTypes, ListenTypes, WriteTypes, TakeUpTypes, DisturbTypes
        DEF Next, SenderStep, DaemonStep

-----------------------------------------------------------------------------
(***************************************************************************)
(* What is on the way.                                                     *)
(***************************************************************************)
\* What is in a sequence after a write.
LEMMA InAppend ==
    ASSUME NEW S, NEW d \in Seq(S), NEW x \in S, NEW t
    PROVE  In(Append(d, x), t) <=> In(d, t) \/ t = x
<1>1. /\ Len(Append(d, x)) = Len(d) + 1 /\ Append(d, x)[Len(d) + 1] = x
      /\ Len(d) \in Nat
  OBVIOUS
<1>2. \A i \in 1 .. Len(d) : Append(d, x)[i] = d[i]
  OBVIOUS
<1>3. \A i : i \in 1 .. Len(d) + 1 <=> i \in 1 .. Len(d) \/ i = Len(d) + 1
  BY <1>1
<1> QED BY <1>1, <1>2, <1>3 DEF In

\* What is in a sequence after a read.
LEMMA InTail ==
    ASSUME NEW S, NEW d \in Seq(S), d # << >>, NEW t
    PROVE  /\ In(d, t) <=> In(Tail(d), t) \/ t = Head(d)
<1>1. /\ Len(Tail(d)) = Len(d) - 1 /\ Head(d) = d[1] /\ Len(d) \in Nat \ {0}
  OBVIOUS
<1>2. \A i \in 1 .. Len(d) - 1 : Tail(d)[i] = d[i + 1]
  OBVIOUS
<1>3. ASSUME NEW i \in 1 .. Len(d), d[i] = t, i # 1
      PROVE  In(Tail(d), t)
  <2>1. i - 1 \in 1 .. Len(d) - 1 /\ (i - 1) + 1 = i
    BY <1>1, <1>3
  <2>2. Tail(d)[i - 1] = t
    BY <1>2, <1>3, <2>1
  <2> QED BY <1>1, <2>1, <2>2 DEF In
<1>4. ASSUME NEW i \in 1 .. Len(d) - 1, Tail(d)[i] = t
      PROVE  In(d, t)
  <2>1. i + 1 \in 1 .. Len(d) /\ d[i + 1] = t
    BY <1>1, <1>2, <1>4
  <2> QED BY <2>1 DEF In
<1>5. 1 \in 1 .. Len(d)
  BY <1>1
<1> QED BY <1>1, <1>3, <1>4, <1>5 DEF In

\* Reading keeps the order of answers, and the answer that is read is the first.
LEMMA OrderTail ==
    ASSUME NEW d \in Seq(Tokens), d # << >>, AnswersOrdered(d)
    PROVE  /\ AnswersOrdered(Tail(d))
           /\ Head(d) \in Answers =>
                \A t \in Answers : In(Tail(d), t) => Head(d) = "NACK" /\ t = "AVAILABLE"
<1>1. /\ Len(Tail(d)) = Len(d) - 1 /\ Head(d) = d[1] /\ Len(d) \in Nat \ {0}
  OBVIOUS
<1>2. \A i \in 1 .. Len(d) - 1 : Tail(d)[i] = d[i + 1] /\ i + 1 \in 1 .. Len(d) /\ 1 < i + 1
  BY <1>1
<1>3. AnswersOrdered(Tail(d))
  <2>1. SUFFICES ASSUME NEW i \in 1 .. Len(d) - 1, NEW j \in 1 .. Len(d) - 1, i < j,
                        Tail(d)[i] \in Answers, Tail(d)[j] \in Answers
                 PROVE  Tail(d)[i] = "NACK" /\ Tail(d)[j] = "AVAILABLE"
    BY <1>1 DEF AnswersOrdered
  <2>2. i + 1 < j + 1
    BY <1>1, <2>1
  <2> QED BY <1>2, <2>1, <2>2 DEF AnswersOrdered
<1>4. 1 \in 1 .. Len(d)
  BY <1>1
<1>5. ASSUME NEW t \in Answers, Head(d) \in Answers, In(Tail(d), t)
      PROVE  Head(d) = "NACK" /\ t = "AVAILABLE"
  <2>1. PICK i \in 1 .. Len(d) - 1 : Tail(d)[i] = t
    BY <1>1, <1>5 DEF In
  <2> QED BY <1>1, <1>2, <1>4, <1>5, <2>1 DEF AnswersOrdered
<1> QED BY <1>3, <1>5

\* Writing keeps the order of answers if what is written is no answer, the
\* first answer, or the AVAILABLE after a NACK.
LEMMA OrderAppend ==
    ASSUME NEW d \in Seq(Tokens), NEW x \in Tokens, AnswersOrdered(d),
           \/ x \notin Answers
           \/ \A t \in Answers : ~ In(d, t)
           \/ x = "AVAILABLE" /\ ~ In(d, "ACK") /\ ~ In(d, "AVAILABLE")
    PROVE  AnswersOrdered(Append(d, x))
<1>1. /\ Len(Append(d, x)) = Len(d) + 1 /\ Append(d, x)[Len(d) + 1] = x
      /\ Len(d) \in Nat
  OBVIOUS
<1>2. \A i \in 1 .. Len(d) : Append(d, x)[i] = d[i]
  OBVIOUS
<1>3. SUFFICES ASSUME NEW i \in 1 .. Len(d) + 1, NEW j \in 1 .. Len(d) + 1, i < j,
                      Append(d, x)[i] \in Answers, Append(d, x)[j] \in Answers
               PROVE  Append(d, x)[i] = "NACK" /\ Append(d, x)[j] = "AVAILABLE"
  BY <1>1 DEF AnswersOrdered
<1>4. i \in 1 .. Len(d)
  BY <1>1, <1>3
<1>5. CASE j \in 1 .. Len(d)
  BY <1>2, <1>3, <1>4, <1>5 DEF AnswersOrdered
<1>6. CASE j = Len(d) + 1
  <2>1. In(d, d[i]) /\ d[i] \in Answers /\ x \in Answers
    BY <1>1, <1>2, <1>3, <1>4, <1>6 DEF In
  <2>2. x = "AVAILABLE" /\ d[i] # "ACK" /\ d[i] # "AVAILABLE"
    BY <2>1
  <2> QED BY <1>1, <1>2, <1>4, <1>6, <2>1, <2>2 DEF Answers
<1> QED BY <1>1, <1>3, <1>5, <1>6

\* The states of the thread that answers are different.
LEMMA ClientStates ==
    /\ \A t, u \in {"ACK", "NACK"} :
         /\ Control(t) # << >> /\ <<t>> # << >> /\ Control(t) # <<u>>
         /\ t # u => Control(t) # Control(u) /\ <<t>> # <<u>>
BY DEF Control

-----------------------------------------------------------------------------
(***************************************************************************)
(* Exactly once: each step of an undisturbed connection.                   *)
(***************************************************************************)
\* Types without disturbance.
LEMMA CalmTypes ==
    ASSUME TypeInv
    PROVE  /\ noise \in Nat /\ closes \in Nat /\ spurious \in Nat
           /\ sendpc \in {"idle", "wait1", "woken1", "wait2", "woken2"}
<1>1. /\ noise \in 0 .. MaxNoise /\ closes \in 0 .. MaxCloses
      /\ spurious \in 0 .. MaxSpurious
      /\ sendpc \in {"idle", "wait1", "woken1", "wait2", "woken2"}
  BY DEF TypeInv, TypeOK
<1> QED BY <1>1, BoundsNat

\* send writes its message.
LEMMA CalmWrite ==
    ASSUME TypeInv, CalmInv, Calm, Send \/ SendRetry
    PROVE  CalmInv'
<1> DEFINE m == message'
<1>0. /\ connected /\ ~ closed /\ sendpc \in {"idle", "woken2"}
      /\ AcceptedInv /\ RequestInv /\ AnswerInv /\ OnceInv /\ FlagInv
  BY DEF CalmInv, Send, SendRetry
<1>1. /\ UNCHANGED <<connVars, lstpc, down, closed, pending, accepted, owed>>
      /\ UNCHANGED results /\ sendpc' = "wait1" /\ up' = Append(up, m)
      /\ m = IF sendpc = "idle" THEN message + 1 ELSE message
  BY <1>0 DEF Send, SendRetry, SendRest, WriteMessage
<1>2. up = << >> /\ ~ AckDue /\ ~ NackDue /\ ~ AvailableDue
  BY <1>0 DEF RequestInv, AnswerInv
<1>3. up' = <<m>>
  BY <1>1, <1>2
<1>4. message \in Nat /\ accepted \in Seq(1 .. MaxSends)
  BY TypeFacts DEF TypeInv
<1>5. \A i \in 1 .. Len(accepted) : accepted[i] \in Nat /\ accepted[i] <= message
  BY <1>0, <1>4, BoundsNat DEF AcceptedInv
<1>6. ~ HasCopy(m) /\ \A i \in 1 .. Len(accepted) : accepted[i] <= m
  <2>1. CASE sendpc = "idle"
    BY <1>1, <1>4, <1>5, <2>1 DEF HasCopy, In
  <2>2. CASE sendpc = "woken2"
    BY <1>0, <1>1, <1>5, <2>2 DEF FlagInv
  <2> QED BY <1>0, <2>1, <2>2
<1>7. AcceptedInv'
  BY <1>0, <1>1, <1>6 DEF AcceptedInv, HasCopy
<1>8. ~ AckDue' /\ ~ NackDue' /\ ~ AvailableDue' /\ ~ HasCopy(message)'
  BY <1>1, <1>2, <1>6 DEF AckDue, NackDue, AvailableDue, AtClient, InDown, HasCopy
<1>9. RequestInv' /\ AnswerInv'
  BY <1>1, <1>3, <1>8 DEF RequestInv, AnswerInv
<1>10. OnceInv' /\ FlagInv'
  BY <1>0, <1>1 DEF OnceInv, FlagInv, AtClient, InDown, connVars
<1> QED BY <1>0, <1>1, <1>7, <1>9, <1>10 DEF CalmInv, connVars

\* send reads the flags after its first wait: success means the copy exists.
LEMMA CalmCheck ==
    ASSUME TypeInv, CalmInv, Calm, SendCheck
    PROVE  CalmInv'
<1>0. /\ connected /\ ~ closed /\ sendpc = "woken1"
      /\ AcceptedInv /\ RequestInv /\ AnswerInv /\ OnceInv /\ FlagInv
  BY DEF CalmInv, SendCheck
<1>1. /\ UNCHANGED <<connVars, lstpc, down, closed, pending, accepted, owed, message, up>>
      /\ \/ lastMessageAck /\ ~ s3tpBufferFull /\ Return("ok")
         \/ ~ lastMessageAck /\ sendpc' = "wait2" /\ UNCHANGED results
  BY <1>0 DEF SendCheck, SendRest, FlagInv
<1>2. /\ HasCopy(message)' <=> HasCopy(message)
      /\ AckDue' <=> AckDue
      /\ NackDue' <=> NackDue
      /\ AvailableDue' <=> AvailableDue
  BY <1>1 DEF HasCopy, AckDue, NackDue, AvailableDue, AtClient, InDown
<1>3. AcceptedInv'
  <2>1. CASE UNCHANGED results
    BY <1>0, <1>1, <2>1 DEF AcceptedInv, HasCopy
  <2>2. CASE lastMessageAck /\ Return("ok")
    <3>1. results \in Seq(Codes) /\ Len(results) = message - 1 /\ message \in Nat
      BY <1>0, TypeFacts DEF TypeInv
    <3>2. results' = Append(results, "ok") /\ "ok" \in Codes
      BY <2>2 DEF Return, Codes
    <3>3. Len(results') = message
      BY <3>1, <3>2
    <3>4. \A k \in 1 .. message : k # message => k \in 1 .. Len(results) /\ results'[k] = results[k]
      BY <3>1, <3>2
    <3>5. HasCopy(message)
      BY <1>0, <2>2 DEF FlagInv
    <3>6. \A k \in 1 .. Len(results') : results'[k] = "ok" => HasCopy(k)
      BY <1>0, <3>3, <3>4, <3>5 DEF AcceptedInv
    <3> QED BY <1>0, <1>1, <3>6 DEF AcceptedInv, HasCopy
  <2> QED BY <1>1, <2>1, <2>2
<1>4. ~ AckDue /\ ~ NackDue /\ up = << >>
  BY <1>0 DEF AnswerInv, RequestInv
<1>5. CASE sendpc' = "wait2" /\ ~ lastMessageAck
  <2>1. ~ HasCopy(message)
    BY <1>0, <1>5 DEF FlagInv
  <2>2. RequestInv' /\ AnswerInv'
    BY <1>0, <1>1, <1>2, <1>4, <1>5, <2>1 DEF RequestInv, AnswerInv
  <2>3. OnceInv'
    BY <1>0, <1>1 DEF OnceInv, AtClient, InDown
  <2>4. FlagInv'
    BY <1>0, <1>1, <1>2, <1>5, <2>1 DEF FlagInv, connVars
  <2> QED BY <1>0, <1>1, <1>3, <2>2, <2>3, <2>4 DEF CalmInv, connVars
<1>6. CASE sendpc' = "idle" /\ lastMessageAck /\ ~ s3tpBufferFull
  <2>1. ~ AvailableDue
    BY <1>0, <1>6 DEF FlagInv
  <2>2. RequestInv' /\ AnswerInv'
    BY <1>0, <1>1, <1>2, <1>4, <1>6, <2>1 DEF RequestInv, AnswerInv
  <2>3. OnceInv'
    BY <1>0, <1>1 DEF OnceInv, AtClient, InDown
  <2>4. FlagInv'
    BY <1>0, <1>1, <1>2, <1>6, <2>1 DEF FlagInv, connVars
  <2> QED BY <1>0, <1>1, <1>3, <2>2, <2>3, <2>4 DEF CalmInv, connVars
<1> QED BY <1>1, <1>5, <1>6 DEF Return

\* What the listener reads is no longer on the way; the rest stays as it is.
LEMMA ReadEffect ==
    ASSUME TypeInv, CalmInv, down # << >>, down' = Tail(down), ListenRest
    PROVE  /\ \A t : InDown(t) <=> InDown(t)' \/ t = Head(down)
           /\ \A t \in Answers : InDown(t)' /\ Head(down) \in Answers =>
                Head(down) = "NACK" /\ t = "AVAILABLE"
           /\ \A t : AtClient(t)' <=> AtClient(t)
           /\ owed' = owed /\ pending' = pending /\ up' = up /\ message' = message
           /\ HasCopy(message)' <=> HasCopy(message)
           /\ AcceptedInv' /\ AnswersOrdered(down)'
<1>1. down \in Seq(Tokens) /\ AnswersOrdered(down) /\ AcceptedInv
  BY TypeFacts DEF TypeInv, CalmInv, OnceInv
<1>2. \A t : In(down, t) <=> In(Tail(down), t) \/ t = Head(down)
  BY <1>1, InTail
<1>3. /\ AnswersOrdered(Tail(down))
      /\ Head(down) \in Answers =>
           \A t \in Answers : In(Tail(down), t) => Head(down) = "NACK" /\ t = "AVAILABLE"
  BY <1>1, OrderTail
<1>4. UNCHANGED <<message, results, up, pending, accepted, owed>>
  BY DEF ListenRest
<1>5. AcceptedInv'
  BY <1>1, <1>4 DEF AcceptedInv, HasCopy
<1>6. /\ \A t : AtClient(t)' <=> AtClient(t)
      /\ HasCopy(message)' <=> HasCopy(message)
  BY <1>4 DEF AtClient, HasCopy
<1>7. \A t : InDown(t) <=> InDown(t)' \/ t = Head(down)
  BY <1>2 DEF InDown
<1>8. \A t \in Answers : InDown(t)' /\ Head(down) \in Answers =>
                Head(down) = "NACK" /\ t = "AVAILABLE"
  BY <1>3 DEF InDown
<1>9. AnswersOrdered(down)'
  BY <1>3 DEF AnswersOrdered
<1> QED BY <1>4, <1>5, <1>6, <1>7, <1>8, <1>9

\* A read of other bytes, or of an answer taken for something else.
LEMMA CalmRead ==
    ASSUME TypeInv, CalmInv, ListenToken \/ ListenGarbled
    PROVE  CalmInv'
<1>0. /\ connected /\ ~ closed
      /\ RequestInv /\ AnswerInv /\ OnceInv /\ FlagInv
  BY DEF CalmInv
<1>1. /\ UNCHANGED <<connVars, sendpc, closed>> /\ lstpc # "garbled"
      /\ down # << >> /\ down' = Tail(down) /\ ListenRest
  BY DEF ListenToken, ListenGarbled
<1>2. Head(down) \in Answers => lstpc' = "garbled"
  BY DEF ListenToken, ListenGarbled, Answers, After
<1>3. /\ \A t : InDown(t) <=> InDown(t)' \/ t = Head(down)
      /\ \A t \in Answers : InDown(t)' /\ Head(down) \in Answers =>
           Head(down) = "NACK" /\ t = "AVAILABLE"
      /\ \A t : AtClient(t)' <=> AtClient(t)
      /\ owed' = owed /\ pending' = pending /\ up' = up /\ message' = message
      /\ HasCopy(message)' <=> HasCopy(message)
      /\ AcceptedInv' /\ AnswersOrdered(down)'
  BY <1>1, ReadEffect
<1>4. /\ AckDue' => AckDue
      /\ NackDue' => NackDue
      /\ AvailableDue' => AvailableDue
  BY <1>3 DEF AckDue, NackDue, AvailableDue
<1>5. Head(down) \notin Answers => /\ NackDue => NackDue'
                                   /\ AvailableDue => AvailableDue'
  BY <1>3 DEF NackDue, AvailableDue, Answers
<1>6. NackDue' => AvailableDue'
  <2>1. SUFFICES ASSUME NackDue', Head(down) = "AVAILABLE" PROVE FALSE
    BY <1>0, <1>3, <1>4 DEF AnswerInv, AvailableDue
  <2>2. InDown("AVAILABLE")
    BY <1>3, <2>1
  <2>3. ~ AtClient("NACK")
    BY <1>0, <2>2 DEF OnceInv
  <2>4. InDown("NACK")'
    BY <1>3, <2>1, <2>3 DEF NackDue
  <2> QED BY <1>3, <2>1, <2>4 DEF Answers
<1>7. RequestInv'
  BY <1>0, <1>1, <1>3, <1>4 DEF RequestInv
<1>8. AnswerInv'
  BY <1>0, <1>1, <1>2, <1>3, <1>4, <1>5, <1>6 DEF AnswerInv
<1>9. OnceInv'
  BY <1>0, <1>3 DEF OnceInv
<1>10. FlagInv'
  BY <1>0, <1>1, <1>3, <1>4 DEF FlagInv, connVars
<1> QED BY <1>0, <1>1, <1>3, <1>7, <1>8, <1>9, <1>10 DEF CalmInv, connVars

\* An ACK wakes the send whose message was accepted.
LEMMA CalmAck ==
    ASSUME TypeInv, CalmInv, ListenAck
    PROVE  CalmInv'
<1>0. /\ connected /\ ~ closed
      /\ RequestInv /\ AnswerInv /\ OnceInv /\ FlagInv
  BY DEF CalmInv
<1>1. /\ UNCHANGED <<connected, s3tpBufferFull, closed>> /\ lastMessageAck' = TRUE
      /\ sendpc' = Notified /\ Head(down) = "ACK"
      /\ down # << >> /\ down' = Tail(down) /\ ListenRest
  BY DEF ListenAck
<1>2. /\ \A t : InDown(t) <=> InDown(t)' \/ t = Head(down)
      /\ \A t \in Answers : InDown(t)' /\ Head(down) \in Answers =>
           Head(down) = "NACK" /\ t = "AVAILABLE"
      /\ \A t : AtClient(t)' <=> AtClient(t)
      /\ owed' = owed /\ pending' = pending /\ up' = up /\ message' = message
      /\ HasCopy(message)' <=> HasCopy(message)
      /\ AcceptedInv' /\ AnswersOrdered(down)'
  BY <1>1, ReadEffect
<1>3. InDown("ACK") /\ AckDue
  BY <1>1, <1>2 DEF AckDue
<1>4. /\ sendpc = "wait1" /\ HasCopy(message) /\ ~ NackDue /\ ~ AvailableDue
      /\ ~ s3tpBufferFull /\ up = << >>
  BY <1>0, <1>3 DEF AnswerInv, FlagInv, RequestInv
<1>5. sendpc' = "woken1"
  BY <1>1, <1>4 DEF Notified
<1>6. ~ AckDue' /\ ~ NackDue' /\ ~ AvailableDue'
  <2>1. ~ AtClient("ACK") /\ ~ InDown("ACK")'
    BY <1>0, <1>1, <1>2, <1>3 DEF OnceInv, Answers
  <2> QED BY <1>2, <1>4, <2>1 DEF AckDue, NackDue, AvailableDue
<1>7. RequestInv' /\ AnswerInv'
  BY <1>2, <1>4, <1>6 DEF RequestInv, AnswerInv
<1>8. OnceInv'
  BY <1>0, <1>2 DEF OnceInv
<1>9. FlagInv'
  BY <1>1, <1>2, <1>4, <1>5, <1>6 DEF FlagInv
<1> QED BY <1>0, <1>1, <1>2, <1>7, <1>8, <1>9 DEF CalmInv

\* A NACK wakes the send whose message was refused; AVAILABLE is still due.
LEMMA CalmNack ==
    ASSUME TypeInv, CalmInv, ListenNack
    PROVE  CalmInv'
<1>0. /\ connected /\ ~ closed
      /\ RequestInv /\ AnswerInv /\ OnceInv /\ FlagInv
  BY DEF CalmInv
<1>1. /\ UNCHANGED <<connected, closed>> /\ lastMessageAck' = FALSE
      /\ sendpc' = Notified /\ Head(down) = "NACK"
      /\ down # << >> /\ down' = Tail(down) /\ ListenRest
  BY DEF ListenNack
<1>2. /\ \A t : InDown(t) <=> InDown(t)' \/ t = Head(down)
      /\ \A t \in Answers : InDown(t)' /\ Head(down) \in Answers =>
           Head(down) = "NACK" /\ t = "AVAILABLE"
      /\ \A t : AtClient(t)' <=> AtClient(t)
      /\ owed' = owed /\ pending' = pending /\ up' = up /\ message' = message
      /\ HasCopy(message)' <=> HasCopy(message)
      /\ AcceptedInv' /\ AnswersOrdered(down)'
  BY <1>1, ReadEffect
<1>3. InDown("NACK") /\ NackDue
  BY <1>1, <1>2 DEF NackDue
<1>4. /\ sendpc = "wait1" /\ ~ HasCopy(message) /\ AvailableDue /\ ~ AckDue
      /\ up = << >>
  BY <1>0, <1>3 DEF AnswerInv, RequestInv
<1>5. sendpc' = "woken1"
  BY <1>1, <1>4 DEF Notified
<1>6. ~ AckDue' /\ ~ NackDue'
  <2>1. ~ AtClient("NACK") /\ ~ InDown("NACK")'
    BY <1>0, <1>1, <1>2, <1>3 DEF OnceInv, Answers
  <2> QED BY <1>2, <1>4, <2>1 DEF AckDue, NackDue
<1>7. RequestInv' /\ AnswerInv'
  BY <1>2, <1>4, <1>5, <1>6 DEF RequestInv, AnswerInv
<1>8. OnceInv'
  BY <1>0, <1>2 DEF OnceInv
<1>9. FlagInv'
  BY <1>1, <1>2, <1>4, <1>5 DEF FlagInv
<1> QED BY <1>0, <1>1, <1>2, <1>7, <1>8, <1>9 DEF CalmInv

\* An AVAILABLE comes after the NACK was read: it ends the second wait, or it
\* comes too early for it, but never ends the first wait.
LEMMA CalmAvailable ==
    ASSUME TypeInv, CalmInv, ListenAvailable
    PROVE  CalmInv'
<1>0. /\ connected /\ ~ closed
      /\ RequestInv /\ AnswerInv /\ OnceInv /\ FlagInv
  BY DEF CalmInv
<1>1. /\ UNCHANGED <<connected, lastMessageAck, closed>> /\ s3tpBufferFull' = FALSE
      /\ sendpc' = Notified /\ Head(down) = "AVAILABLE" /\ lstpc = "control"
      /\ down # << >> /\ down' = Tail(down) /\ ListenRest
  BY DEF ListenAvailable
<1>2. /\ \A t : InDown(t) <=> InDown(t)' \/ t = Head(down)
      /\ \A t \in Answers : InDown(t)' /\ Head(down) \in Answers =>
           Head(down) = "NACK" /\ t = "AVAILABLE"
      /\ \A t : AtClient(t)' <=> AtClient(t)
      /\ owed' = owed /\ pending' = pending /\ up' = up /\ message' = message
      /\ HasCopy(message)' <=> HasCopy(message)
      /\ AcceptedInv' /\ AnswersOrdered(down)'
  BY <1>1, ReadEffect
<1>3. InDown("AVAILABLE") /\ AvailableDue
  BY <1>1, <1>2 DEF AvailableDue
<1>4. ~ owed /\ pending["link"] = << >> /\ ~ AtClient("NACK")
  BY <1>0, <1>3 DEF OnceInv
<1>5. \A t \in Answers : ~ InDown(t)'
  BY <1>1, <1>2 DEF Answers
<1>6. ~ NackDue
  BY <1>1, <1>2, <1>4, <1>5 DEF NackDue, Answers
<1>7. /\ sendpc \in {"woken1", "wait2"} /\ ~ HasCopy(message) /\ ~ AckDue /\ up = << >>
  BY <1>0, <1>1, <1>3, <1>6 DEF AnswerInv, RequestInv
<1>8. /\ sendpc' = IF sendpc = "wait2" THEN "woken2" ELSE "woken1"
      /\ sendpc = "woken1" => ~ lastMessageAck
  BY <1>0, <1>1, <1>3, <1>7 DEF Notified, FlagInv
<1>9. ~ AckDue' /\ ~ NackDue' /\ ~ AvailableDue'
  BY <1>2, <1>4, <1>5, <1>7 DEF AckDue, NackDue, AvailableDue, Answers
<1>10. RequestInv' /\ AnswerInv'
  BY <1>2, <1>7, <1>9 DEF RequestInv, AnswerInv
<1>11. OnceInv'
  BY <1>0, <1>2 DEF OnceInv
<1>12. FlagInv'
  BY <1>1, <1>2, <1>7, <1>8 DEF FlagInv
<1> QED BY <1>0, <1>1, <1>2, <1>10, <1>11, <1>12 DEF CalmInv

\* The daemon accepts the message: for the first time, and with one ACK to come.
LEMMA CalmAccept ==
    ASSUME TypeInv, CalmInv, Accept
    PROVE  CalmInv'
<1>0. /\ connected /\ ~ closed
      /\ AcceptedInv /\ RequestInv /\ AnswerInv /\ OnceInv /\ FlagInv
  BY DEF CalmInv
<1>1. /\ UNCHANGED <<connVars, sendpc, message, results, closed, down, owed>>
      /\ up # << >> /\ up' = Tail(up) /\ accepted' = Append(accepted, Head(up))
      /\ pending' = [pending EXCEPT !["client"] = Control("ACK")]
  BY DEF Accept, DaemonRest
<1>2. /\ up = <<message>> /\ sendpc = "wait1" /\ ~ HasCopy(message)
      /\ ~ AckDue /\ ~ NackDue /\ ~ AvailableDue
  BY <1>0, <1>1 DEF RequestInv
<1>3. /\ accepted \in Seq(1 .. MaxSends) /\ message \in 1 .. MaxSends
      /\ pending \in [Writers -> Seq(Tokens)]
  <2>1. /\ accepted \in Seq(1 .. MaxSends) /\ message \in Nat /\ message <= MaxSends
        /\ message # 0 /\ pending \in [Writers -> Seq(Tokens)]
    BY <1>2, TypeFacts DEF TypeInv
  <2> QED BY <2>1, BoundsNat
<1>4. up' = << >> /\ accepted' = Append(accepted, message)
  BY <1>1, <1>2
<1>5. \A k : In(Append(accepted, message), k) <=> In(accepted, k) \/ k = message
  BY <1>3, InAppend
<1>6. HasCopy(message)' /\ \A k : HasCopy(k) => HasCopy(k)'
  BY <1>1, <1>4, <1>5 DEF HasCopy
<1>7. AcceptedInv'
  <2>1. /\ Len(accepted') = Len(accepted) + 1 /\ Len(accepted) \in Nat
        /\ accepted'[Len(accepted) + 1] = message
        /\ \A i \in 1 .. Len(accepted) : accepted'[i] = accepted[i]
    BY <1>3, <1>4
  <2>2. \A i \in 1 .. Len(accepted') : i = Len(accepted) + 1 \/ i \in 1 .. Len(accepted)
    BY <2>1
  <2>3. \A i \in 1 .. Len(accepted) : accepted[i] # message
    BY <1>2 DEF HasCopy, In
  <2>4. \A i \in 1 .. Len(accepted') : accepted'[i] <= message'
    BY <1>0, <1>1, <1>3, <2>1, <2>2 DEF AcceptedInv
  <2>5. \A i, j \in 1 .. Len(accepted') : accepted'[i] = accepted'[j] => i = j
    BY <1>0, <2>1, <2>2, <2>3 DEF AcceptedInv
  <2>6. \A k \in 1 .. Len(results') : results'[k] = "ok" => HasCopy(k)'
    BY <1>0, <1>1, <1>6 DEF AcceptedInv
  <2> QED BY <2>4, <2>5, <2>6 DEF AcceptedInv
<1>8. /\ AtClient("ACK")' /\ ~ AtClient("NACK")' /\ pending'["link"] = pending["link"]
  BY <1>1, <1>3, ClientStates DEF AtClient, Writers
<1>9. /\ AckDue' /\ ~ NackDue' /\ ~ AvailableDue'
  BY <1>1, <1>2, <1>8 DEF AckDue, NackDue, AvailableDue, InDown
<1>10. RequestInv' /\ AnswerInv'
  BY <1>1, <1>2, <1>4, <1>6, <1>9 DEF RequestInv, AnswerInv
<1>11. OnceInv'
  <2>1. ~ InDown("ACK")'
    BY <1>1, <1>2 DEF AckDue, InDown
  <2> QED BY <1>0, <1>1, <1>8, <2>1 DEF OnceInv, InDown
<1>12. FlagInv'
  BY <1>0, <1>1, <1>2 DEF FlagInv, connVars
<1> QED BY <1>0, <1>1, <1>7, <1>10, <1>11, <1>12 DEF CalmInv, connVars

\* The daemon refuses the message: one NACK and then one AVAILABLE to come.
LEMMA CalmRefuse ==
    ASSUME TypeInv, CalmInv, RefuseMessage
    PROVE  CalmInv'
<1>0. /\ connected /\ ~ closed
      /\ AcceptedInv /\ RequestInv /\ AnswerInv /\ OnceInv /\ FlagInv
  BY DEF CalmInv
<1>1. /\ UNCHANGED <<connVars, sendpc, message, results, closed, down, accepted>>
      /\ up # << >> /\ up' = Tail(up) /\ owed' = TRUE
      /\ pending' = [pending EXCEPT !["client"] = Control("NACK")]
  BY DEF RefuseMessage, DaemonRest
<1>2. /\ up = <<message>> /\ sendpc = "wait1" /\ ~ HasCopy(message)
      /\ ~ AckDue /\ ~ NackDue /\ ~ AvailableDue
  BY <1>0, <1>1 DEF RequestInv
<1>3. up' = << >>
  BY <1>1, <1>2
<1>4. pending \in [Writers -> Seq(Tokens)]
  BY TypeFacts DEF TypeInv
<1>5. AtClient("NACK")' /\ ~ AtClient("ACK")' /\ pending'["link"] = pending["link"]
  BY <1>1, <1>4, ClientStates DEF AtClient, Writers
<1>6. /\ NackDue' /\ AvailableDue' /\ ~ AckDue' /\ ~ HasCopy(message)'
      /\ pending'["link"] = << >> /\ ~ InDown("AVAILABLE")' /\ ~ InDown("NACK")'
  BY <1>1, <1>2, <1>5 DEF AckDue, NackDue, AvailableDue, InDown, HasCopy
<1>7. AcceptedInv'
  BY <1>0, <1>1 DEF AcceptedInv, HasCopy
<1>8. RequestInv' /\ AnswerInv'
  BY <1>1, <1>2, <1>3, <1>6 DEF RequestInv, AnswerInv
<1>9. OnceInv'
  BY <1>0, <1>1, <1>5, <1>6 DEF OnceInv
<1>10. FlagInv'
  BY <1>0, <1>1, <1>2 DEF FlagInv, connVars
<1> QED BY <1>0, <1>1, <1>7, <1>8, <1>9, <1>10 DEF CalmInv, connVars

\* Writers move answers without losing or doubling them; data messages do not
\* touch them.
LEMMA CalmMove ==
    ASSUME TypeInv, CalmInv,
           UNCHANGED <<connVars, sendpc, message, results, lstpc, closed, up, accepted>>,
           AckDue' <=> AckDue, NackDue' <=> NackDue, AvailableDue' <=> AvailableDue,
           OnceInv'
    PROVE  CalmInv'
<1>0. /\ connected /\ ~ closed
      /\ AcceptedInv /\ RequestInv /\ AnswerInv /\ FlagInv
  BY DEF CalmInv
<1>1. HasCopy(message)' <=> HasCopy(message)
  BY DEF HasCopy
<1>2. AcceptedInv'
  BY <1>0 DEF AcceptedInv, HasCopy
<1>3. RequestInv' /\ AnswerInv'
  BY <1>0, <1>1 DEF RequestInv, AnswerInv
<1>4. FlagInv'
  BY <1>0, <1>1 DEF FlagInv, connVars
<1> QED BY <1>0, <1>2, <1>3, <1>4 DEF CalmInv, connVars

\* The link thread begins to announce, and the assembly thread to send data.
LEMMA CalmBegin ==
    ASSUME TypeInv, CalmInv, NotifyOwed \/ SendData
    PROVE  CalmInv'
<1>0. OnceInv /\ pending \in [Writers -> Seq(Tokens)]
  BY TypeFacts DEF CalmInv, TypeInv
<1>1. UNCHANGED <<connVars, sendpc, message, results, lstpc, closed, up, accepted, down>>
  BY DEF NotifyOwed, SendData, DaemonRest
<1>2. \A t : InDown(t)' <=> InDown(t)
  BY <1>1 DEF InDown
<1>3. \A t : AtClient(t)' <=> AtClient(t)
  BY <1>0 DEF NotifyOwed, SendData, AtClient, Writers
<1>4. CASE SendData
  <2>1. owed' = owed /\ pending'["link"] = pending["link"]
    BY <1>0, <1>4 DEF SendData, Writers
  <2>2. OnceInv'
    BY <1>0, <1>1, <1>2, <1>3, <2>1 DEF OnceInv
  <2>3. /\ AckDue' <=> AckDue
        /\ NackDue' <=> NackDue
        /\ AvailableDue' <=> AvailableDue
    BY <1>2, <1>3, <2>1 DEF AckDue, NackDue, AvailableDue
  <2> QED BY <1>1, <2>2, <2>3, CalmMove
<1>5. CASE NotifyOwed
  <2>1. /\ owed /\ owed' = FALSE /\ pending'["link"] = Control("AVAILABLE")
        /\ ~ AtClient("ACK") /\ ~ AtClient("NACK")
    BY <1>0, <1>5, ClientStates DEF NotifyOwed, Writers, AtClient
  <2>2. pending'["link"] # << >> /\ AvailableDue /\ AvailableDue'
    BY <2>1, ControlWrites DEF AvailableDue
  <2>3. OnceInv'
    BY <1>0, <1>1, <1>2, <1>3, <2>1 DEF OnceInv
  <2>4. /\ AckDue' <=> AckDue
        /\ NackDue' <=> NackDue
    BY <1>2, <1>3 DEF AckDue, NackDue
  <2> QED BY <1>1, <2>2, <2>3, <2>4, CalmMove
<1> QED BY <1>4, <1>5

\* One write.
LEMMA CalmWriteNext ==
    ASSUME TypeInv, CalmInv, NEW w \in Writers, WriteNext(w)
    PROVE  CalmInv'
<1> DEFINE x == Head(pending[w])
<1>0. /\ OnceInv /\ AnswerInv /\ ~ closed /\ Writing /\ pending[w] # << >>
      /\ pending \in [Writers -> Seq(Tokens)] /\ down \in Seq(Tokens)
  BY TypeFacts DEF CalmInv, TypeInv, WriteNext
<1>1. /\ UNCHANGED <<connVars, sendpc, message, results, lstpc, closed, up, accepted>>
      /\ owed' = owed /\ down' = Append(down, x)
      /\ pending' = [pending EXCEPT ![w] = Tail(@)]
  BY <1>0 DEF WriteNext, DaemonRest
<1>2. x \in Tokens
  BY <1>0, HeadTail
<1>3. \A t : InDown(t)' <=> InDown(t) \/ t = x
  BY <1>0, <1>1, <1>2, InAppend DEF InDown
<1>4. CASE w = "assembly"
  <2>1. x \notin Answers
    BY <1>0, <1>4, DataWrites DEF Writing, Answers
  <2>2. /\ pending'["link"] = pending["link"]
        /\ pending'["client"] = pending["client"]
    BY <1>0, <1>1, <1>4 DEF Writers
  <2>3. AnswersOrdered(down)'
    BY <1>0, <1>1, <1>2, <2>1, OrderAppend DEF OnceInv
  <2>4. /\ \A t : AtClient(t)' <=> AtClient(t)
        /\ \A t \in Answers : InDown(t)' <=> InDown(t)
    BY <1>3, <2>1, <2>2 DEF AtClient
  <2>5. OnceInv'
    BY <1>0, <1>1, <2>2, <2>3, <2>4 DEF OnceInv, Answers
  <2>6. /\ AckDue' <=> AckDue
        /\ NackDue' <=> NackDue
        /\ AvailableDue' <=> AvailableDue
    BY <1>1, <2>2, <2>4 DEF AckDue, NackDue, AvailableDue, Answers
  <2> QED BY <1>1, <2>5, <2>6, CalmMove
<1>5. CASE w = "link"
  <2>1. pending'["client"] = pending["client"] /\ pending["link"] # << >>
    BY <1>0, <1>1, <1>5 DEF Writers
  <2>2. ~ owed /\ ~ InDown("AVAILABLE") /\ ~ InDown("ACK") /\ ~ AtClient("NACK")
    BY <1>0, <2>1 DEF OnceInv, AnswerInv, AvailableDue, AckDue
  <2>3. \A t : AtClient(t)' <=> AtClient(t)
    BY <2>1 DEF AtClient
  <2>4. \/ x = "CONTROL" /\ pending'["link"] # << >>
        \/ x = "AVAILABLE" /\ pending'["link"] = << >>
    <3>1. pending'["link"] = Tail(pending["link"])
      BY <1>0, <1>1, <1>5 DEF Writers
    <3> QED BY <1>0, <1>5, <3>1, ControlWrites DEF Writing
  <2>5. AnswersOrdered(down)'
    <3>1. x \notin Answers \/ (x = "AVAILABLE" /\ ~ In(down, "ACK") /\ ~ In(down, "AVAILABLE"))
      BY <2>2, <2>4 DEF Answers, InDown
    <3> QED BY <1>0, <1>1, <1>2, <3>1, OrderAppend DEF OnceInv
  <2>6. OnceInv'
    BY <1>0, <1>1, <1>3, <2>2, <2>3, <2>4, <2>5 DEF OnceInv
  <2>7. /\ AckDue' <=> AckDue
        /\ NackDue' <=> NackDue
        /\ AvailableDue' <=> AvailableDue
    BY <1>1, <1>3, <2>1, <2>3, <2>4 DEF AckDue, NackDue, AvailableDue
  <2> QED BY <1>1, <2>6, <2>7, CalmMove
<1>6. CASE w = "client"
  <2>1. pending'["link"] = pending["link"]
    BY <1>0, <1>1, <1>6 DEF Writers
  <2>2. PICK t \in {"ACK", "NACK"} : pending["client"] \in {Control(t), <<t>>}
    BY <1>0, <1>6 DEF Writing
  <2>3. AtClient(t) /\ ~ InDown(t)
    BY <1>0, <2>2 DEF AtClient, OnceInv
  <2>4. pending'["client"] = Tail(pending["client"])
    BY <1>0, <1>1, <1>6 DEF Writers
  <2>5. \/ x = "CONTROL" /\ pending'["client"] = <<t>>
        \/ x = t /\ pending'["client"] = << >>
    BY <1>6, <2>2, <2>4, ControlWrites
  <2>6. \A u \in {"ACK", "NACK"} : AtClient(u) <=> u = t
    BY <2>2, ClientStates DEF AtClient
  <2>7. \A u \in {"ACK", "NACK"} : AtClient(u)' <=> u = t /\ x = "CONTROL"
    BY <2>5, ClientStates DEF AtClient
  <2>8. \A u \in Answers : ~ InDown(u)
    BY <1>0, <2>3, <2>6 DEF OnceInv, AnswerInv, AckDue, NackDue, AvailableDue, Answers
  <2>9. AnswersOrdered(down)'
    BY <1>0, <1>1, <1>2, <2>8, OrderAppend DEF OnceInv, InDown
  <2>10. OnceInv'
    BY <1>0, <1>1, <1>3, <2>1, <2>5, <2>6, <2>7, <2>8, <2>9 DEF OnceInv, Answers
  <2>11. /\ AckDue' <=> AckDue
         /\ NackDue' <=> NackDue
         /\ AvailableDue' <=> AvailableDue
    <3>1. /\ x \in {"CONTROL", t}
          /\ \A u \in Answers : InDown(u)' <=> u = x
      BY <1>3, <2>5, <2>8 DEF Answers
    <3>2. \A u \in {"ACK", "NACK"} : AtClient(u)' \/ InDown(u)' <=> AtClient(u) \/ InDown(u)
      BY <2>6, <2>7, <2>8, <3>1 DEF Answers
    <3>3. InDown("AVAILABLE")' <=> InDown("AVAILABLE")
      BY <2>8, <3>1 DEF Answers
    <3> QED BY <1>1, <2>1, <3>2, <3>3 DEF AckDue, NackDue, AvailableDue
  <2> QED BY <1>1, <2>10, <2>11, CalmMove
<1> QED BY <1>4, <1>5, <1>6 DEF Writers

\* Every step keeps the invariant; a disturbance makes it say nothing.
LEMMA CalmStep ==
    ASSUME TypeInv, Calm => CalmInv, [Next]_vars, Calm'
    PROVE  CalmInv'
<1>1. noise \in Nat /\ closes \in Nat /\ spurious \in Nat
  BY CalmTypes
<1>2. ~ NotifyAll /\ ~ DaemonClose /\ ~ ApplicationClose /\ ~ SpuriousWakeup
  BY <1>1 DEF Calm, NotifyAll, DaemonClose, ApplicationClose, SpuriousWakeup, Closing
<1>3. CASE UNCHANGED vars
  <2>1. Calm /\ CalmInv
    BY <1>3 DEF Calm, vars, countVars
  <2>2. /\ UNCHANGED <<connVars, sendpc, message, results, lstpc, closed, up, accepted,
                       down, pending, owed>>
    BY <1>3 DEF vars
  <2>3. /\ AckDue' <=> AckDue
        /\ NackDue' <=> NackDue
        /\ AvailableDue' <=> AvailableDue
    BY <2>2 DEF AckDue, NackDue, AvailableDue, AtClient, InDown
  <2>4. OnceInv'
    BY <2>1, <2>2 DEF CalmInv, OnceInv, AtClient, InDown
  <2> QED BY <2>1, <2>2, <2>3, <2>4, CalmMove
<1>4. CASE Send \/ SenderStep
  <2>1. Calm
    BY <1>4 DEF Calm, Send, SenderStep, SendCheck, SendRetry, SendRest, countVars
  <2> QED BY <1>4, <2>1, CalmWrite, CalmCheck DEF SenderStep
<1>5. CASE ListenerStep
  <2>1. UNCHANGED countVars
    BY <1>5 DEF ListenerStep, ListenToken, ListenAck, ListenNack, ListenAvailable,
                ListenGarbled, ListenEof, ListenCutShort, ListenStop, ListenRest
  <2>2. Calm /\ CalmInv
    BY <2>1 DEF Calm, countVars
  <2>3. ~ ListenEof /\ ~ ListenCutShort /\ ~ ListenStop
    BY <2>2 DEF CalmInv, ListenEof, ListenCutShort, ListenStop
  <2> QED BY <1>5, <2>2, <2>3, CalmRead, CalmAck, CalmNack, CalmAvailable
          DEF ListenerStep
<1>6. CASE DaemonStep \/ SendData
  <2>1. UNCHANGED <<noise, closes, spurious>>
    BY <1>6 DEF DaemonStep, Accept, RefuseMessage, NotifyOwed, WriteNext, SendData,
                DaemonRest
  <2>2. Calm /\ CalmInv
    BY <2>1 DEF Calm
  <2> QED BY <1>6, <2>2, CalmAccept, CalmRefuse, CalmBegin, CalmWriteNext DEF DaemonStep
<1> QED BY <1>2, <1>3, <1>4, <1>5, <1>6 DEF Next

-----------------------------------------------------------------------------
(***************************************************************************)
(* Theorems.                                                               *)
(***************************************************************************)
\* The invariant holds on a fresh connection.
LEMMA InvInit == Init => Inv
<1> SUFFICES ASSUME Init PROVE Inv
  OBVIOUS
<1>1. /\ down = << >> /\ up = << >> /\ accepted = << >> /\ results = << >>
      /\ pending = [w \in Writers |-> << >>] /\ message = 0 /\ received = 0
      /\ dataCount = 0 /\ sendpc = "idle" /\ s3tpBufferFull = FALSE /\ owed = FALSE
      /\ connected = TRUE /\ closed = FALSE
  BY DEF Init
<1>2. Len(down) = 0 /\ Len(accepted) = 0 /\ Len(results) = 0
  BY <1>1
<1>3. /\ pending["client"] = << >> /\ pending["link"] = << >> /\ pending["assembly"] = << >>
  BY <1>1 DEF Writers
<1>4. Payloads(down) = {} /\ \A t : ~ In(down, t) /\ ~ In(accepted, t)
  BY <1>2 DEF Payloads, In
<1>5. Counted
  BY <1>1, <1>3, <1>4, FS_EmptySet DEF Counted
<1>6. Writing
  BY <1>3 DEF Writing
<1>7. TypeOK
  <2>1. << >> \in Seq(Tokens) /\ << >> \in Seq(1 .. MaxSends)
        /\ << >> \in Seq({"ok", "no connection", "write error"})
    OBVIOUS
  <2>2. pending \in [Writers -> Seq(Tokens)]
    BY <1>1, <2>1
  <2>3. /\ message \in 0 .. MaxSends /\ received \in 0 .. dataCount
        /\ refusals \in 0 .. MaxRefusals /\ noise \in 0 .. MaxNoise
        /\ dataCount \in 0 .. MaxData /\ closes \in 0 .. MaxCloses
        /\ spurious \in 0 .. MaxSpurious
    BY BoundsNat DEF Init
  <2>4. {connected, lastMessageAck, s3tpBufferFull, closed, owed, cutShort} \subseteq BOOLEAN
    BY DEF Init
  <2> QED BY <1>1, <1>2, <2>1, <2>2, <2>3, <2>4 DEF Init, TypeOK
<1>8. ~ AckDue /\ ~ NackDue /\ ~ AvailableDue
  BY <1>1, <1>3, <1>4, ClientStates DEF AckDue, NackDue, AvailableDue, AtClient, InDown
<1>9. AcceptedInv /\ RequestInv /\ AnswerInv /\ FlagInv
  BY <1>1, <1>2, <1>8 DEF AcceptedInv, RequestInv, AnswerInv, FlagInv
<1>10. OnceInv
  BY <1>1, <1>2, <1>3, <1>8 DEF OnceInv, AckDue, NackDue, AnswersOrdered
<1> QED BY <1>1, <1>5, <1>6, <1>7, <1>9, <1>10 DEF Inv, TypeInv, CalmInv

\* Every step keeps the invariant.
LEMMA InvStep == Inv /\ [Next]_vars => Inv'
BY TypeStep, CalmStep DEF Inv

\* The inductive invariant is an invariant.
THEOREM ConnectorInvariant == Spec => []Inv
BY InvInit, InvStep, PTL DEF Spec

\* Every variable of the connection keeps its type, send returns once per
\* message, and the application never receives more data messages than the
\* assembly thread has sent.
THEOREM ConnectorTypes == Spec => []TypeOK
<1>1. Inv => TypeOK
  BY DEF Inv, TypeInv
<1> QED BY <1>1, ConnectorInvariant, PTL

\* A send that returned success had its message accepted, and accepted once,
\* however often the daemon refused messages in between (S3tpConnector::send
\* and Client), as long as nothing but the answers ends the waits of send.
THEOREM SendIsExactlyOnce == Spec => []ExactlyOnce
<1>1. Inv => ExactlyOnce
  <2>1. SUFFICES ASSUME Inv, Calm, NEW m \in 1 .. message
                 PROVE  /\ Copies(m) <= 1
                        /\ m <= Len(results) => (results[m] = "ok" => Copies(m) = 1)
    BY DEF ExactlyOnce, Calm
  <2> DEFINE S == {i \in 1 .. Len(accepted) : accepted[i] = m}
  <2>2. /\ \A i, j \in 1 .. Len(accepted) : accepted[i] = accepted[j] => i = j
        /\ \A k \in 1 .. Len(results) : results[k] = "ok" => HasCopy(k)
    BY <2>1 DEF Inv, CalmInv, AcceptedInv
  <2>3. CASE HasCopy(m)
    <3>1. PICK i \in 1 .. Len(accepted) : accepted[i] = m
      BY <2>3 DEF HasCopy, In
    <3>2. S = {i}
      BY <2>2, <3>1
    <3>3. Cardinality(S) = 1
      BY <3>2, FS_Singleton
    <3> QED BY <3>3 DEF Copies
  <2>4. CASE ~ HasCopy(m)
    <3>1. S = {}
      BY <2>4 DEF HasCopy, In
    <3>2. Cardinality(S) = 0
      BY <3>1, FS_EmptySet
    <3>3. m \in Nat /\ m # 0 /\ Len(results) \in Nat
      BY <2>1, TypeFacts DEF Inv, TypeInv
    <3>4. m <= Len(results) => results[m] # "ok"
      BY <2>2, <2>4, <3>3
    <3> QED BY <3>2, <3>4 DEF Copies
  <2> QED BY <2>3, <2>4
<1> QED BY <1>1, ConnectorInvariant, PTL
=============================================================================
