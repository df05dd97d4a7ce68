----------------------------- MODULE DelayQueue -----------------------------
(***************************************************************************)
(* NetFPGA-SUME-FB: the delay queue (delayer_axi.vhd) beside the pipeline. *)
(* The words of a packet wait here until the packet's action is known: the *)
(* first word should reach the output when the packet is at startd(8) and  *)
(* its action in action_d3.                                                *)
(*                                                                         *)
(* Controller leaves open why no word is taken.  Here, a cycle without the *)
(* output's TREADY (or with a pause, which enable_delay makes the same of) *)
(* takes no word and holds the queue; so does a missing second word.       *)
(***************************************************************************)
EXTENDS Controller

VARIABLES
  delay_line,   \* 10 words or NoWord, the one that came last in front
  output,       \* the word in int_M0_AXIS_*
  pressed,      \* history: packets up to this one were held by the output
  stalled       \* history: packets up to this one were ahead of a stall in PKT1
queue == << delay_line, output >>
dqvars == << vars, queue, pressed, stalled >>

DelayLength == 10
Word(p, first) == [packet |-> p, first |-> first]
NoWord == Word(None, FALSE)

DQInit ==
  /\ Init
  /\ delay_line = [d \in 1..DelayLength |-> NoWord]
  /\ output = NoWord
  /\ pressed = None /\ stalled = None

Accept(word) == delay_line' =
  [d \in 1..DelayLength |-> IF d = 1 THEN word ELSE delay_line[d - 1]]

\* Mutant of Enqueue: three stages less, see the comment in the code.
EnqueueShort(word) ==
  /\ Accept(word)
  /\ output' = delay_line[7]
  /\ UNCHANGED << pressed, stalled >>

Enqueue(word) ==
  /\ Accept(word)
  /\ output' = delay_line[DelayLength]
  /\ UNCHANGED << pressed, stalled >>

\* The output takes nothing, and the packets inside lose their startd.
Press ==
  /\ pressed' = packets
  /\ UNCHANGED << queue, stalled >>

WordTaken ==
  \/ Idle /\ packets' # packets /\ Enqueue(Word(packets + 1, TRUE))
  \/ (Pkt1 \/ Pkt2) /\ Enqueue(Word(packets, FALSE))

NoWordTaken ==
  /\ \/ Idle /\ packets' = packets
     \/ Pkt2 /\ curr_state' = "PKT2"
     \/ Wait5
  /\ Enqueue(NoWord) \/ Press

\* Mutant of Stall: the queue does not know of it (slot_delayer is always 1).
StallShifts ==
  /\ Pkt1Stalled
  /\ Enqueue(NoWord)

\* slot_delayer holds the queue, as startd is held.
Stall ==
  /\ Pkt1Stalled
  /\ stalled' = packets - 1
  /\ UNCHANGED << queue, pressed >>

DQNext == WordTaken \/ NoWordTaken \/ Stall

DQSpec == DQInit /\ [][DQNext]_dqvars

-----------------------------------------------------------------------------
(* Properties                                                              *)

\* The first word of a packet is at the output in the very cycle its startd(8)
\* enables the action block, whatever its length and the stalls in PKT1, unless
\* the output has held it.
WordMeetsStart ==
  \A p \in 1..packets : p > pressed =>
    (output = Word(p, TRUE) <=> startd[Updating] = p)

\* The destination written into the first word is the one decided for it,
\* unless the output has held the packet or one behind it was stalled in PKT1,
\* which action_d3 does not heed.
WordMeetsAction ==
  output.first /\ output.packet > pressed /\ output.packet > stalled =>
    decision[7] = output.packet
=============================================================================
