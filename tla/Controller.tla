----------------------------- MODULE Controller -----------------------------
(***************************************************************************)
(* NetFPGA-SUME-FB: the controller of FlowBlaze_core.vhd, the state        *)
(* machine that takes a packet in word by word, and the shift registers    *)
(* that carry it through the pipeline: looked up at startd(0), matched at  *)
(* startd(1), flow context and global registers updated at startd(8).      *)
(*                                                                         *)
(* A step is a cycle of S0_AXIS_ACLK.  A packet is the number it arrived   *)
(* under: startd and full_header_d, which shift together, are one sequence *)
(* of packets, index n+1 for the code's n.  Whether a word is handed over  *)
(* ("step", TVALID and int_TREADY) and whether it is the last one is up to *)
(* the environment in every cycle; a packet has at least two words.        *)
(***************************************************************************)
EXTENDS Integers, Sequences

CONSTANT MaxPackets        (* bound: packets that arrive *)
ASSUME PacketsAssumption == MaxPackets \in Nat

None     == 0              \* no packet; the others are numbered from 1
Stages   == 1..12          \* startd(0) to startd(11)
Frames   == 0..11          \* count_frames, which is compared with 5 and 10 only
Updating == 9              \* startd(8)

VARIABLES
  curr_state,
  count_frames,   \* cycles since the last PKT1, see Frames
  start,          \* the packet whose second word was taken in the last cycle
  startd,
  packets,        \* packets whose first word has been taken
  decision        \* the packets whose decision is in match_addr_tcam2, action,
                  \* and the five stages of action_d3
vars == << curr_state, count_frames, start, startd, packets, decision >>

Init ==
  /\ curr_state = "IDLE"
  /\ count_frames = 0
  /\ start = None
  /\ startd = [s \in Stages |-> None]
  /\ packets = 0
  /\ decision = [s \in 1..7 |-> None]

\* Mutant of Decide: a shift register of four stages.
DecideEarly == decision' = [s \in 1..7 |->
  CASE s = 1 -> startd[2] [] s = 7 -> decision[5] [] OTHER -> decision[s - 1]]

\* No enable: the TCAM, the RAM and the shift registers run in every cycle.
Decide == decision' = [s \in 1..7 |-> IF s = 1 THEN startd[2] ELSE decision[s - 1]]

Shift == startd' = [s \in Stages |-> IF s = 1 THEN start ELSE startd[s - 1]]

\* Mutant of Counted: saturates one later.
CountedOneMore == IF count_frames < 12 THEN count_frames + 1 ELSE 12

Counted == IF count_frames < 11 THEN count_frames + 1 ELSE 11

Idle ==
  /\ curr_state = "IDLE"
  /\ start' = None /\ count_frames' = Counted
  /\ \/ UNCHANGED << curr_state, packets >>
     \/ packets < MaxPackets /\ packets' = packets + 1 /\ curr_state' = "PKT1"
  /\ Shift /\ Decide

\* Without a second word the pipeline holds, but what Decide moves does not.
Pkt1Stalled ==
  /\ curr_state = "PKT1"
  /\ start' = None /\ count_frames' = 2
  /\ Decide
  /\ UNCHANGED << curr_state, startd, packets >>

\* Mutant of Pkt1: a packet of two words does not wait.
Pkt1NeverWaits ==
  /\ curr_state = "PKT1"
  /\ start' = packets /\ count_frames' = 2
  /\ curr_state' \in {"PKT2", "IDLE"}
  /\ Shift /\ Decide
  /\ UNCHANGED packets

Pkt1 ==
  /\ curr_state = "PKT1"
  /\ start' = packets /\ count_frames' = 2
  /\ curr_state' \in {"PKT2", "WAIT5"}
  /\ Shift /\ Decide
  /\ UNCHANGED packets

\* Mutant of Pkt2: a packet of five words does not wait.
Pkt2WaitsLess ==
  /\ curr_state = "PKT2"
  /\ start' = None /\ count_frames' = Counted
  /\ curr_state' \in {"PKT2", IF count_frames < 4 THEN "WAIT5" ELSE "IDLE"}
  /\ Shift /\ Decide
  /\ UNCHANGED packets

\* The last word: a packet received in less than five cycles waits.
Pkt2 ==
  /\ curr_state = "PKT2"
  /\ start' = None /\ count_frames' = Counted
  /\ curr_state' \in {"PKT2", IF count_frames < 5 THEN "WAIT5" ELSE "IDLE"}
  /\ Shift /\ Decide
  /\ UNCHANGED packets

\* Mutant of Wait5: the length it had before, see the comment in the code.
Wait5Short ==
  /\ curr_state = "WAIT5"
  /\ start' = None /\ count_frames' = Counted
  /\ curr_state' = IF count_frames > 7 THEN "IDLE" ELSE "WAIT5"
  /\ Shift /\ Decide
  /\ UNCHANGED packets

Wait5 ==
  /\ curr_state = "WAIT5"
  /\ start' = None /\ count_frames' = Counted
  /\ curr_state' = IF count_frames > 10 THEN "IDLE" ELSE "WAIT5"
  /\ Shift /\ Decide
  /\ UNCHANGED packets

Next == Idle \/ Pkt1Stalled \/ Pkt1 \/ Pkt2 \/ Wait5

Spec == Init /\ [][Next]_vars

-----------------------------------------------------------------------------
(* Properties                                                              *)

TypeOK ==
  /\ curr_state \in {"IDLE", "PKT1", "PKT2", "WAIT5"}
  /\ count_frames \in Frames
  /\ packets \in 0..MaxPackets
  /\ start \in 0..MaxPackets
  /\ startd \in [Stages -> 0..MaxPackets]
  /\ decision \in [1..7 -> 0..MaxPackets]

\* Packets keep a distance of six stages in the pipeline, whatever their
\* length and however their words are delayed: their lookups, their matches
\* and the updates of the registers they share never fall together.
SixStagesApart ==
  \A s, t \in Stages : s < t /\ startd[s] # None /\ startd[t] # None => t - s >= 6

\* The key the tables are searched with and the state they miss to are taken
\* from full_header, which belongs to the packet received last: when a packet
\* is looked up and matched, no word of the next one has overwritten it.
HeaderIsOwn == \A s \in 1..2 : startd[s] # None => startd[s] = packets

\* FlowBlaze_core.vhd:1638 "check the length of WAIT": a packet that had to
\* wait has updated its flow, and so have those before it, when the next one
\* may come.
WaitCoversUpdate ==
  [][curr_state = "WAIT5" /\ curr_state' = "IDLE" =>
       \A s \in 1..Updating : startd'[s] = None]_vars

\* docs/FlowBlaze_HW.md:24 "the controller deals with the synchronization of
\* the system flow": a packet is looked up after those before it have updated
\* the flow they may share with it.
LookupSeesUpdates ==
  startd[1] # None => \A s \in 2..Updating : startd[s] = None
=============================================================================
