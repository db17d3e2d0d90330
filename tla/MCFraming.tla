----------------------------- MODULE MCFraming -----------------------------
(***************************************************************************)
(* Instance of Framing for TLC: no payload, some of one byte and two of    *)
(* two bytes.  Which flipped bits are detected does not depend on the      *)
(* payload, only on its length; for the longest one the checksum's loops   *)
(* are followed turn by turn before the frames are written.                *)
(***************************************************************************)
EXTENDS Framing, ChecksumLoop

MCPayloads == {<< >>, <<{0}>>, <<{7}>>, <<{1, 4, 6}>>, <<{}, Byte>>, <<{1, 4, 6}, {0, 7}>>}

MCInit == Init /\ LoopInit

MCNext == \/ Turn /\ UNCHANGED vars
          \/ turn = Turns /\ Next /\ UNCHANGED loop

MCSpec == MCInit /\ [][MCNext]_<<vars, loop>>
=============================================================================
