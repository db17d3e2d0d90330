----------------------------- MODULE Connector -----------------------------
(***************************************************************************)
(* An application and the daemon at the two ends of a unix domain socket:  *)
(* S3tpConnector::send with its listener thread (connector/), and the      *)
(* daemon's Client with the three threads that write to its socket         *)
(* (core/Client.cpp): the client thread answers a message with ACK or      *)
(* NACK, the link callback announces AVAILABLE, and the assembly thread    *)
(* hands over received data.                                               *)
(*                                                                         *)
(* Every write() of the daemon is one step, because nothing keeps the      *)
(* writers of a socket apart.  connector_mutex is held by send from its    *)
(* first write until it waits, and by the listener for the handling of one *)
(* control message, so each of these is one step.  Whether the daemon      *)
(* accepts a message is TxModule's business and left open here.  Ghosts:   *)
(* accepted, results, owed, noise and cutShort.                            *)
(***************************************************************************)
EXTENDS Naturals, Sequences, FiniteSets

CONSTANTS
    MaxSends,     \* bound: messages the application sends
    MaxRefusals,  \* bound: messages the daemon refuses
    MaxNoise,     \* bound: AVAILABLE messages that follow no NACK
    MaxData,      \* bound: data messages for the application
    MaxCloses,    \* bound: connections closed by either side
    MaxSpurious,  \* bound: spurious wakeups
    MaxEvents     \* bound: noise, closes and spurious wakeups together

ASSUME ConnectorBounds ==
    {MaxSends, MaxRefusals, MaxNoise, MaxData, MaxCloses, MaxSpurious, MaxEvents}
        \subseteq Nat

VARIABLES
    connected, lastMessageAck, s3tpBufferFull,    \* S3tpConnector
    sendpc, message, results,    \* application thread, its current message
    lstpc,                       \* listener thread: what it reads next
    up, down, closed,            \* the socket, and whether it was shut down
    pending,                     \* per daemon thread, the writes still to do
    accepted, refusals, owed, noise, dataCount, received, closes, spurious,
    cutShort

connVars == <<connected, lastMessageAck, s3tpBufferFull>>
countVars == <<refusals, noise, dataCount, closes, spurious>>
vars == <<connVars, sendpc, message, results, lstpc, up, down, closed, pending,
          accepted, owed, received, cutShort, countVars>>

Writers == {"client", "link", "assembly"}

\* Client::sendControlMessage and Client::send as sequences of write()s
Control(type) == <<"CONTROL", type>>
Data == <<"DATA", "LENGTH", "PAYLOAD">>

Init ==
    /\ connected = TRUE            \* S3tpConnector::init was accepted
    /\ lastMessageAck = FALSE /\ s3tpBufferFull = FALSE
    /\ sendpc = "idle" /\ message = 0 /\ results = << >>
    /\ lstpc = "type"
    /\ up = << >> /\ down = << >> /\ closed = FALSE
    /\ pending = [w \in Writers |-> << >>]
    /\ accepted = << >> /\ owed = FALSE /\ received = 0 /\ cutShort = FALSE
    /\ refusals = 0 /\ noise = 0 /\ dataCount = 0 /\ closes = 0 /\ spurious = 0

EventsLeft == noise + closes + spurious < MaxEvents

\* status_cond.notify_all(): the sender has to take connector_mutex again
Notified == CASE sendpc = "wait1" -> "woken1"
              [] sendpc = "wait2" -> "woken2"
              [] OTHER -> sendpc

-----------------------------------------------------------------------------
(***************************************************************************)
(* S3tpConnector::send.                                                    *)
(***************************************************************************)
SendRest == UNCHANGED <<connVars, lstpc, down, closed, pending, accepted, owed,
                        received, cutShort, countVars>>

Return(result) == /\ sendpc' = "idle"
                  /\ results' = Append(results, result)

\* The three writes of the message, then the first wait
WriteMessage(m) ==
    \/ /\ ~ closed /\ up' = Append(up, m) /\ sendpc' = "wait1"
       /\ UNCHANGED results
    \/ closed /\ Return("write error") /\ UNCHANGED up

Send ==
    /\ sendpc = "idle" /\ message < MaxSends
    /\ message' = message + 1
    /\ \/ connected /\ WriteMessage(message + 1)
       \/ ~ connected /\ Return("no connection") /\ UNCHANGED up
    /\ SendRest

\* After the first wait: an answer, or any other notification
SendCheck ==
    /\ sendpc = "woken1"
    /\ \/ ~ connected /\ Return("no connection")
       \/ connected /\ lastMessageAck /\ ~ s3tpBufferFull /\ Return("ok")
       \/ /\ connected /\ ~ (lastMessageAck /\ ~ s3tpBufferFull)
          /\ sendpc' = "wait2" /\ UNCHANGED results
    /\ UNCHANGED <<message, up>> /\ SendRest

\* Mutant of SendRetry: sends the data of the next message
MutantRetryNext ==
    /\ sendpc = "woken2"
    /\ \/ connected /\ WriteMessage(message + 1)
       \/ ~ connected /\ Return("ok") /\ UNCHANGED up
    /\ UNCHANGED message /\ SendRest

\* After the second wait: while(connected), else the bytes written count
SendRetry ==
    /\ sendpc = "woken2"
    /\ \/ connected /\ WriteMessage(message)
       \/ ~ connected /\ Return("ok") /\ UNCHANGED up
    /\ UNCHANGED message /\ SendRest

SenderStep == SendCheck \/ SendRetry

\* A wait may return without a notification
SpuriousWakeup ==
    /\ sendpc \in {"wait1", "wait2"} /\ sendpc' = Notified
    /\ EventsLeft /\ spurious < MaxSpurious /\ spurious' = spurious + 1
    /\ UNCHANGED <<connVars, message, results, lstpc, up, down, closed, pending,
                   accepted, owed, received, cutShort, refusals, noise,
                   dataCount, closes>>

-----------------------------------------------------------------------------
(***************************************************************************)
(* The listener: asyncListener, receiveControlMessage, receiveDataMessage. *)
(***************************************************************************)
ListenRest == UNCHANGED <<message, results, up, pending, accepted, owed,
                          countVars>>

\* What the listener reads next; "garbled" when the bytes are not what it
\* takes them for
After(pc, token) ==
    CASE pc = "type" /\ token = "CONTROL" -> "control"
      [] pc = "type" /\ token = "DATA" -> "length"
      [] pc = "length" /\ token = "LENGTH" -> "payload"
      [] pc = "payload" /\ token = "PAYLOAD" -> "type"
      [] OTHER -> "garbled"

ListenToken ==
    /\ lstpc \in {"type", "length", "payload"} /\ down # << >>
    /\ lstpc = "type" => connected       \* while (isConnected())
    /\ lstpc' = After(lstpc, Head(down))
    /\ down' = Tail(down)
    /\ received' = IF lstpc = "payload" /\ Head(down) = "PAYLOAD"
                     THEN received + 1 ELSE received   \* onNewMessage
    /\ UNCHANGED <<connVars, sendpc, closed, cutShort>> /\ ListenRest

\* Mutant of ListenNack: the previous acknowledgement stays
MutantNackKeepsAck ==
    /\ lstpc = "control" /\ down # << >> /\ Head(down) = "NACK"
    /\ down' = Tail(down) /\ lstpc' = "type"
    /\ sendpc' = Notified
    /\ UNCHANGED <<connVars, closed, cutShort, received>>
    /\ ListenRest

\* Mutant of ListenAck: receiveControlMessage returns false and ends the loop
MutantAckEndsLoop ==
    /\ lstpc = "control" /\ down # << >> /\ Head(down) = "ACK"
    /\ down' = Tail(down) /\ lstpc' = "done"
    /\ lastMessageAck' = TRUE
    /\ sendpc' = Notified
    /\ UNCHANGED <<connected, s3tpBufferFull, closed, cutShort, received>>
    /\ ListenRest

ListenAck ==
    /\ lstpc = "control" /\ down # << >> /\ Head(down) = "ACK"
    /\ down' = Tail(down) /\ lstpc' = "type"
    /\ lastMessageAck' = TRUE
    /\ sendpc' = Notified
    /\ UNCHANGED <<connected, s3tpBufferFull, closed, cutShort, received>>
    /\ ListenRest

ListenNack ==
    /\ lstpc = "control" /\ down # << >> /\ Head(down) = "NACK"
    /\ down' = Tail(down) /\ lstpc' = "type"
    /\ lastMessageAck' = FALSE /\ s3tpBufferFull' = TRUE
    /\ sendpc' = Notified
    /\ UNCHANGED <<connected, closed, cutShort, received>>
    /\ ListenRest

ListenAvailable ==
    /\ lstpc = "control" /\ down # << >> /\ Head(down) = "AVAILABLE"
    /\ down' = Tail(down) /\ lstpc' = "type"
    /\ s3tpBufferFull' = FALSE
    /\ sendpc' = Notified
    /\ UNCHANGED <<connected, lastMessageAck, closed, cutShort, received>>
    /\ ListenRest

\* A control message that begins with a byte of another message
ListenGarbled ==
    /\ lstpc = "control" /\ down # << >>
    /\ Head(down) \notin {"ACK", "NACK", "AVAILABLE"}
    /\ down' = Tail(down) /\ lstpc' = "garbled"
    /\ UNCHANGED <<connVars, sendpc, closed, cutShort, received>>
    /\ ListenRest

\* Mutant of ListenEof: the connection is marked closed, nobody is notified
MutantEofSilent ==
    /\ lstpc = "type" /\ connected /\ closed /\ down = << >>
    /\ connected' = FALSE /\ lstpc' = "done"
    /\ UNCHANGED <<lastMessageAck, s3tpBufferFull, sendpc, down, closed,
                   cutShort, received>>
    /\ ListenRest

\* End of file between two messages: closeConnection
ListenEof ==
    /\ lstpc = "type" /\ connected /\ closed /\ down = << >>
    /\ connected' = FALSE /\ lstpc' = "done"
    /\ sendpc' = Notified
    /\ UNCHANGED <<lastMessageAck, s3tpBufferFull, down, closed, cutShort,
                   received>>
    /\ ListenRest

\* End of file within a message: only the flag is cleared
ListenCutShort ==
    /\ lstpc \in {"control", "length", "payload"} /\ closed /\ down = << >>
    /\ connected' = FALSE /\ lstpc' = "done" /\ cutShort' = TRUE
    /\ UNCHANGED <<lastMessageAck, s3tpBufferFull, sendpc, down, closed,
                   received>>
    /\ ListenRest

\* The application closed the connection: the loop ends
ListenStop ==
    /\ lstpc = "type" /\ ~ connected /\ lstpc' = "done"
    /\ UNCHANGED <<connVars, sendpc, down, closed, cutShort, received>>
    /\ ListenRest

ListenerStep ==
    \/ ListenToken \/ ListenAck \/ ListenNack \/ ListenAvailable
    \/ ListenGarbled \/ ListenEof \/ ListenCutShort \/ ListenStop

-----------------------------------------------------------------------------
(***************************************************************************)
(* The daemon.                                                             *)
(***************************************************************************)
DaemonRest == UNCHANGED <<connVars, sendpc, message, results, lstpc, closed,
                          received, cutShort, closes, spurious>>

\* clientRoutine reads a message; onApplicationMessage takes it ...
Accept ==
    /\ up # << >> /\ up' = Tail(up) /\ pending["client"] = << >> /\ ~ closed
    /\ accepted' = Append(accepted, Head(up))
    /\ pending' = [pending EXCEPT !["client"] = Control("ACK")]
    /\ UNCHANGED <<down, owed, refusals, noise, dataCount>> /\ DaemonRest

\* ... or refuses it
RefuseMessage ==
    /\ up # << >> /\ up' = Tail(up) /\ pending["client"] = << >> /\ ~ closed
    /\ refusals < MaxRefusals /\ refusals' = refusals + 1
    /\ owed' = TRUE
    /\ pending' = [pending EXCEPT !["client"] = Control("NACK")]
    /\ UNCHANGED <<down, accepted, noise, dataCount>> /\ DaemonRest

\* notifyAvailabilityToClients for a client that has had its NACK ...
NotifyOwed ==
    /\ owed /\ owed' = FALSE /\ ~ closed
    /\ pending["link"] = << >> /\ pending["client"] = << >>
    /\ pending' = [pending EXCEPT !["link"] = Control("AVAILABLE")]
    /\ UNCHANGED <<up, down, accepted, refusals, noise, dataCount>>
    /\ DaemonRest

\* ... and for any client at any time, when the link or its channel comes back
NotifyAll ==
    /\ EventsLeft /\ noise < MaxNoise /\ noise' = noise + 1 /\ ~ closed
    /\ pending["link"] = << >>
    /\ pending' = [pending EXCEPT !["link"] = Control("AVAILABLE")]
    /\ UNCHANGED <<up, down, accepted, owed, refusals, dataCount>> /\ DaemonRest

\* assemblyRoutine hands a message to Client::send
SendData ==
    /\ dataCount < MaxData /\ dataCount' = dataCount + 1 /\ ~ closed
    /\ pending["assembly"] = << >>
    /\ pending' = [pending EXCEPT !["assembly"] = Data]
    /\ UNCHANGED <<up, down, accepted, owed, refusals, noise>> /\ DaemonRest

\* One write(); on a closed socket it fails and the rest is dropped
WriteNext(w) ==
    /\ pending[w] # << >>
    /\ \/ /\ ~ closed /\ down' = Append(down, Head(pending[w]))
          /\ pending' = [pending EXCEPT ![w] = Tail(@)]
       \/ /\ closed /\ pending' = [pending EXCEPT ![w] = << >>]
          /\ UNCHANGED down
    /\ UNCHANGED <<up, accepted, owed, refusals, noise, dataCount>>
    /\ DaemonRest

DaemonStep == Accept \/ RefuseMessage \/ NotifyOwed
              \/ \E w \in Writers : WriteNext(w)

Closing == EventsLeft /\ closes < MaxCloses /\ closes' = closes + 1

CloseRest == UNCHANGED <<lastMessageAck, s3tpBufferFull, message, results, lstpc,
                         up, down, pending, accepted, owed, received, cutShort,
                         refusals, noise, dataCount, spurious>>

\* Client::closeConnection in the daemon; what was written can still be read
DaemonClose ==
    /\ ~ closed /\ closed' = TRUE /\ Closing
    /\ UNCHANGED <<connected, sendpc>> /\ CloseRest

\* S3tpConnector::closeConnection by the application, while its other thread
\* may be in send
ApplicationClose ==
    /\ connected /\ connected' = FALSE /\ closed' = TRUE /\ Closing
    /\ sendpc' = Notified
    /\ CloseRest

Next ==
    \/ Send \/ SenderStep \/ ListenerStep \/ DaemonStep
    \/ NotifyAll \/ SendData
    \/ DaemonClose \/ ApplicationClose \/ SpuriousWakeup

Spec == Init /\ [][Next]_vars

(***************************************************************************)
(* Every thread takes the steps it can take, and S3TP announces AVAILABLE  *)
(* to a client it has refused.                                             *)
(***************************************************************************)
Fairness ==
    /\ WF_vars(SenderStep) /\ WF_vars(ListenerStep)
    /\ WF_vars(Accept \/ RefuseMessage) /\ WF_vars(NotifyOwed)
    /\ \A w \in Writers : WF_vars(WriteNext(w))

FairSpec == Spec /\ Fairness

-----------------------------------------------------------------------------
(***************************************************************************)
(* Properties.                                                             *)
(***************************************************************************)
Tokens == {"CONTROL", "ACK", "NACK", "AVAILABLE", "DATA", "LENGTH", "PAYLOAD"}

\* Every variable has its type, and send has returned once for every message
\* but the one it is still at.
TypeOK ==
    /\ {connected, lastMessageAck, s3tpBufferFull, closed, owed, cutShort}
         \subseteq BOOLEAN
    /\ sendpc \in {"idle", "wait1", "woken1", "wait2", "woken2"}
    /\ lstpc \in {"type", "control", "length", "payload", "garbled", "done"}
    /\ message \in 0 .. MaxSends
    /\ results \in Seq({"ok", "no connection", "write error"})
    /\ Len(results) = IF sendpc = "idle" THEN message ELSE message - 1
    /\ up \in Seq(1 .. MaxSends) /\ accepted \in Seq(1 .. MaxSends)
    /\ down \in Seq(Tokens) /\ pending \in [Writers -> Seq(Tokens)]
    /\ received \in 0 .. dataCount
    /\ refusals \in 0 .. MaxRefusals /\ noise \in 0 .. MaxNoise
    /\ dataCount \in 0 .. MaxData /\ closes \in 0 .. MaxCloses
    /\ spurious \in 0 .. MaxSpurious

Copies(m) == Cardinality({i \in 1 .. Len(accepted) : accepted[i] = m})

\* A send that returned success had its message accepted once, and no message
\* is accepted twice, whatever the daemon refused in between: as long as the
\* waits of send end for an answer or for the AVAILABLE after a NACK only.
ExactlyOnce ==
    noise = 0 /\ closes = 0 /\ spurious = 0 =>
        \A m \in 1 .. message :
            /\ Copies(m) <= 1
            /\ m <= Len(results) => (results[m] = "ok" => Copies(m) = 1)

\* The listener reads a message of the daemon as what it is.
InSync == lstpc # "garbled"

\* Every data message that the assembly thread has begun to write reaches the
\* application, also while answers to its own messages come in between, as
\* long as the connection stays open and the writers did not mix their bytes.
DataArrives == dataCount > received ~> (received = dataCount \/ closed \/ ~ InSync)

\* A closed connection does not leave the application in send: the wait is
\* notified, except when the end of file comes within a message.
CloseUnblocks == ~ connected ~> (sendpc = "idle" \/ cutShort \/ ~ InSync)

-----------------------------------------------------------------------------
(***************************************************************************)
(* What comments of the repository say and the code does not do.           *)
(***************************************************************************)
\* send reports success when the ACK of its message was received.
AckedIsAccepted ==
    \A m \in 1 .. Len(results) : results[m] = "ok" => Copies(m) > 0

\* The control message read is one the daemon wrote: the type and the contents
\* are two writes, and the writes of several threads do not mix.
ControlIsWhole == InSync

\* send goes to its second wait when a NACK was received for this message.
NackWasReceived == [][sendpc = "woken1" /\ sendpc' = "wait2" =>
                        refusals > 0 /\ ~ lastMessageAck]_vars

\* send blocks only until the message could be written: it returns, as the
\* daemon accepts the message in the end and announces AVAILABLE.
SendReturns == sendpc # "idle" ~> (sendpc = "idle" \/ ~ InSync)

\* send does not block on a connection that is gone.
DisconnectedReturns == ~ connected ~> sendpc = "idle"
=============================================================================
