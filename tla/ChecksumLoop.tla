---------------------------- MODULE ChecksumLoop ----------------------------
(***************************************************************************)
(* The loops of calc_checksum turn by turn (core/utilities.cpp), over a    *)
(* payload of which only the first bit is set: out runs through the powers *)
(* of x modulo the generator, the values of Register(OneBit(PacketBytes)). *)
(***************************************************************************)
EXTENDS Checksum

CONSTANT PacketBytes  \* length of the payload

ASSUME PacketAssumption == PacketBytes \in Nat \ {0}

VARIABLES
    turn,  \* turns taken: bits read, then bits that push the register out
    out    \* the register

loop == <<turn, out>>

LoopInit == turn = 0 /\ out = {}

Turns == 8 * PacketBytes + 16

Turn ==
    /\ turn < Turns
    /\ out' = ShiftIn(out, BitRead(OneBit(PacketBytes), turn + 1))
    /\ turn' = turn + 1

\* In a packet of PacketBytes bytes two flipped bits never cancel each other:
\* once the bit is in the register of calc_checksum, the register is not 1
\* again before payload and checksum are through.
PeriodNotReached == turn >= 2 => out # {0}
=============================================================================
