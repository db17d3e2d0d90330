-------------------------- MODULE OrderedDelivery --------------------------
(***************************************************************************)
(* What the transport promises for each port, without buffers, sequence    *)
(* numbers or threads: messages go in at one end and come out at the other *)
(* whole, in order and none twice.  A message is the sequence of the       *)
(* numbers of its packets, which count the packets of the port.  A lossy   *)
(* stage may leave messages out, a lossless one may not.  TxModule (from   *)
(* enqueuePacket to sendFrame) and RxModule (from the peer to the client)  *)
(* are shown to implement it.                                              *)
(***************************************************************************)
EXTENDS Naturals, Sequences

CONSTANTS
    Ports,      \* ports in use
    MaxLength,  \* packets of the longest message
    Lossy       \* whether messages may be left out

VARIABLES
    messages,   \* per port, the messages accepted so far
    handed      \* per port, the messages handed over so far

vars == <<messages, handed>>

\* The number of the last packet of a sequence of messages
LastPacket(s) == IF s = << >> THEN 0 ELSE s[Len(s)][Len(s[Len(s)])]

Init == /\ messages = [p \in Ports |-> << >>]
        /\ handed = [p \in Ports |-> << >>]

Accept(p) ==
    /\ \E k \in 1 .. MaxLength :
         messages' = [messages EXCEPT ![p] =
                        Append(@, [i \in 1 .. k |-> LastPacket(@) + i])]
    /\ UNCHANGED handed

Hand(p) ==
    /\ \E i \in 1 .. Len(messages[p]) :
         LET first == messages[p][i][1]
         IN  /\ first > LastPacket(handed[p])
             /\ Lossy \/ first = LastPacket(handed[p]) + 1
             /\ handed' = [handed EXCEPT ![p] = Append(@, messages[p][i])]
    /\ UNCHANGED messages

Next == \E p \in Ports : Accept(p) \/ Hand(p)

Spec == Init /\ [][Next]_vars
=============================================================================
