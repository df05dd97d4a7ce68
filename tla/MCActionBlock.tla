---------------------------- MODULE MCActionBlock ----------------------------
(* ActionBlock for TLC, with words of 8 bytes. *)
EXTENDS ActionBlock

\* Fields at the beginning, in the middle and at the end of the first and the
\* second word, over their boundary and the end of a packet, and none.
MCRequests ==
  [offset : {0, 4, 7}, size : {2, 4}] \cup [offset : {4, 13}, size : {1}]
  \cup [offset : {10, 13}, size : {4}] \cup {NoPacket.request}
=============================================================================
