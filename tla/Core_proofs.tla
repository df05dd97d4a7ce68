---------------------------- MODULE Core_proofs ----------------------------
(***************************************************************************)
(* The core and the firmware that drives it.                               *)
(*                                                                         *)
(* Controller: the spacing of packets in the pipeline, for any number of   *)
(* packets of any length and any stalls.  count_frames, which is reset     *)
(* while the second word is awaited, measures how far the newest packet    *)
(* has come: that is what the conditions on it in PKT2 and WAIT5 rely on.  *)
(*                                                                         *)
(* DelayQueue: the queue and the pipeline move together: the first word of *)
(* a packet is two places behind its startd, at the output with startd(8), *)
(* until the output does not take a word.                                  *)
(*                                                                         *)
(* Firmware: commands and packets, for any tables, lines and numbers of    *)
(* packets.  The core takes no register write that meets a packet at       *)
(* startd(8), not even one to PAUSE.  After the 20 ms the pipeline is      *)
(* either not paused, or empty, or held in PKT1 (Held): what a command     *)
(* writes then is taken as a whole or lost as a whole, and nothing but the *)
(* commands changes the tables, unless a packet is held at startd(8).      *)
(***************************************************************************)
EXTENDS Firmware, DelayQueue, FiniteSetTheorems, FunctionTheorems, TLAPS

-----------------------------------------------------------------------------
(* The controller                                                          *)

\* The newest packet enters one stage before startd(0), and alone.
Entering ==
  start # None => /\ curr_state \in {"PKT2", "WAIT5"}
                  /\ count_frames = 2
                  /\ start = packets
                  /\ \A s \in Stages : startd[s] # None => s >= 6

\* How far every packet in the pipeline has come at least.
Distance ==
  \A s \in Stages : startd[s] # None =>
    /\ curr_state = "IDLE" => s >= 4
    /\ curr_state = "PKT1" => s >= 5
    /\ curr_state \in {"PKT2", "WAIT5"} => s >= count_frames - 2

IInv == TypeOK /\ SixStagesApart /\ HeaderIsOwn /\ Entering /\ Distance

\* Before the first packet nothing is in the pipeline (the process's reset).
LEMMA InitInv == Init => IInv
  BY PacketsAssumption DEF Init, IInv, TypeOK, SixStagesApart, HeaderIsOwn, Entering, Distance,
     None, Stages, Frames

\* Every cycle of the state machine keeps the distances: PKT1 and WAIT5 bound
\* the oldest position count_frames stands for, Shift moves it on.
LEMMA StepInv == IInv /\ [Next]_vars => IInv'
  <1> SUFFICES ASSUME IInv, [Next]_vars PROVE IInv'
    OBVIOUS
  <1> USE PacketsAssumption DEF IInv, TypeOK, None, Stages, Frames
  <1>1. CASE Idle
    BY <1>1 DEF Idle, Shift, Decide, Counted, SixStagesApart, HeaderIsOwn, Entering, Distance
  <1>2. CASE Pkt1Stalled
    BY <1>2 DEF Pkt1Stalled, Decide, SixStagesApart, HeaderIsOwn, Entering, Distance
  <1>3. CASE Pkt1
    BY <1>3 DEF Pkt1, Shift, Decide, SixStagesApart, HeaderIsOwn, Entering, Distance
  <1>4. CASE Pkt2
    BY <1>4 DEF Pkt2, Shift, Decide, Counted, SixStagesApart, HeaderIsOwn, Entering, Distance
  <1>5. CASE Wait5
    BY <1>5 DEF Wait5, Shift, Decide, Counted, SixStagesApart, HeaderIsOwn, Entering, Distance
  <1>6. CASE UNCHANGED vars
    BY <1>6 DEF vars, SixStagesApart, HeaderIsOwn, Entering, Distance
  <1> QED BY <1>1, <1>2, <1>3, <1>4, <1>5, <1>6 DEF Next

\* The cycle that leaves WAIT5 (count_frames > 10) has nothing left to update.
LEMMA WaitCovers == IInv /\ [Next]_vars =>
  (curr_state = "WAIT5" /\ curr_state' = "IDLE" => \A s \in 1..Updating : startd'[s] = None)
  <1> SUFFICES ASSUME IInv, [Next]_vars, curr_state = "WAIT5", curr_state' = "IDLE"
               PROVE  \A s \in 1..Updating : startd'[s] = None
    OBVIOUS
  <1>1. Wait5 /\ count_frames > 10
    BY DEF Next, Idle, Pkt1Stalled, Pkt1, Pkt2, Wait5, vars
  <1>2. \A s \in Stages : startd[s] # None => s >= 9
    BY <1>1 DEF IInv, TypeOK, Distance, Frames, Stages, None
  <1>3. start = None
    BY <1>1 DEF IInv, TypeOK, Entering, Frames, None
  <1> QED BY <1>1, <1>2, <1>3 DEF Wait5, Shift, Stages, Updating, None

\* The invariant holds in every cycle.
LEMMA InvAlways == Spec => []IInv
  BY InitInv, StepInv, PTL DEF Spec

\* Packets are at least six stages apart (PKT2's count_frames < 5), whatever
\* their number, their length and the stalls.
THEOREM PacketsKeepTheirDistance == Spec => []SixStagesApart
  <1>1. IInv => SixStagesApart
    BY DEF IInv
  <1> QED BY InvAlways, <1>1, PTL

\* full_header still holds the packet that is being looked up.
THEOREM LookupUsesTheOwnHeader == Spec => []HeaderIsOwn
  <1>1. IInv => HeaderIsOwn
    BY DEF IInv
  <1> QED BY InvAlways, <1>1, PTL

\* WAIT5 is long enough for startd(8) (count_frames > 10).
THEOREM WaitIsLongEnough == Spec => WaitCoversUpdate
  <1>1. IInv /\ [Next]_vars => [curr_state = "WAIT5" /\ curr_state' = "IDLE" =>
                                 \A s \in 1..Updating : startd'[s] = None]_vars
    BY WaitCovers
  <1> QED BY InvAlways, <1>1, PTL DEF Spec, WaitCoversUpdate

\* The registers of the state machine stay in their ranges, count_frames too,
\* which stops at 11 while the words of a long packet pass.
THEOREM ControllerTypes == Spec => []TypeOK
  <1>1. IInv => TypeOK
    BY DEF IInv
  <1> QED BY InvAlways, <1>1, PTL

-----------------------------------------------------------------------------
(* The delay queue                                                         *)

QueueWords == [packet : 0..MaxPackets, first : BOOLEAN]

\* What the variables range over; a word is of a packet that has arrived.
Shape ==
  /\ curr_state \in {"IDLE", "PKT1", "PKT2", "WAIT5"}
  /\ packets \in 0..MaxPackets
  /\ start \in 0..packets
  /\ startd \in [Stages -> 0..packets]
  /\ decision \in [1..7 -> 0..MaxPackets]
  /\ delay_line \in [1..DelayLength -> QueueWords]
  /\ \A d \in 1..DelayLength : delay_line[d].packet <= packets
  /\ output \in QueueWords /\ output.packet <= packets
  /\ pressed \in 0..packets
  /\ stalled \in 0..packets

\* In PKT1 the packet being received is in no stage yet.
NotYetIn ==
  curr_state = "PKT1" =>
    packets # None /\ start = None /\ \A s \in Stages : startd[s] # packets

\* Where the first word of a packet is, in terms of where the packet is.
Beside(p) ==
  /\ delay_line[1] = Word(p, TRUE) <=> curr_state = "PKT1" /\ packets = p
  /\ delay_line[2] = Word(p, TRUE) <=> start = p
  /\ \A s \in 1..8 : delay_line[s + 2] = Word(p, TRUE) <=> startd[s] = p
  /\ output = Word(p, TRUE) <=> startd[Updating] = p

Aligned == \A p \in 1..packets : p > pressed => Beside(p)

\* The decision of a packet two stages after the match is as far as the packet.
Decided ==
  \A p \in 1..packets : p > stalled =>
    \A s \in 3..Updating : startd[s] = p => decision[s - 2] = p

DQInv == Shape /\ NotYetIn /\ Aligned /\ Decided

\* Reset empties the queue and the pipeline.
LEMMA DQInitInv == DQInit => DQInv
  BY PacketsAssumption DEF DQInit, Init, DQInv, Shape, NotYetIn, Aligned, Decided, Beside,
     QueueWords, Word, NoWord, None, Stages, DelayLength

\* A cycle of the controller that shifts both lines and takes word, or NoWord.
Forwards(word) ==
  /\ Enqueue(word) /\ Shift /\ Decide
  /\ packets' \in packets..MaxPackets
  /\ start' \in 0..packets
  /\ curr_state' \in {"IDLE", "PKT1", "PKT2", "WAIT5"}
  /\ word \in QueueWords /\ word.packet <= packets'
  /\ \A p \in 1..packets' : word = Word(p, TRUE) <=> curr_state' = "PKT1" /\ packets' = p
  /\ \A p \in 1..packets : start' = p <=> curr_state = "PKT1" /\ packets = p
  /\ packets' # packets => start' = None
  /\ curr_state' = "PKT1" => packets' = packets + 1 /\ start' = None

\* In such a cycle PKT1's word becomes start and the others move on.
LEMMA ForwardsKeepsInv == ASSUME DQInv, NEW word, Forwards(word) PROVE DQInv'
  <1> USE PacketsAssumption DEF Forwards, DQInv, Shape, None, Stages, DelayLength, Updating
  <1>1. Shape'
    BY DEF Enqueue, Accept, Shift, Decide, QueueWords
  <1>2. NotYetIn'
    BY DEF Shift, NotYetIn
  <1>3. Aligned'
    <2> SUFFICES ASSUME NEW p \in 1..packets', p > pressed PROVE Beside(p)'
      BY DEF Enqueue, Aligned
    <2>1. CASE p \in 1..packets
      <3>1. Beside(p)
        BY <2>1 DEF Aligned
      <3> QED BY <2>1, <3>1 DEF Beside, Enqueue, Accept, Shift, Word
    <2>2. CASE p \notin 1..packets
      <3>1. p > packets /\ p # 0
        BY <2>2
      <3>2. \A d \in 1..DelayLength : delay_line[d] # Word(p, TRUE)
        BY <3>1 DEF Word, QueueWords
      <3> QED BY <3>1, <3>2 DEF Beside, Enqueue, Accept, Shift, Word
    <2> QED BY <2>1, <2>2
  <1>4. Decided'
    <2> SUFFICES ASSUME NEW p \in 1..packets', p > stalled, NEW s \in 3..Updating, startd'[s] = p
                 PROVE  decision'[s - 2] = p
      BY DEF Enqueue, Decided
    <2>1. startd[s - 1] = p /\ p \in 1..packets
      BY DEF Shift
    <2> QED BY <2>1 DEF Shift, Decide, Decided
  <1> QED BY <1>1, <1>2, <1>3, <1>4

\* A cycle that shifts the pipeline only: all packets inside count as held.
LEMMA PressKeepsInv ==
  ASSUME DQInv, Press, Shift, Decide, packets' = packets, start' = None,
         curr_state' \in {"IDLE", "PKT2", "WAIT5"}
  PROVE  DQInv'
  <1> USE PacketsAssumption DEF DQInv, Shape, None, Stages, DelayLength, Updating
  <1>1. Shape' /\ NotYetIn' /\ Aligned'
    BY DEF Press, queue, Shift, Decide, NotYetIn, Aligned
  <1>2. Decided'
    <2> SUFFICES ASSUME NEW p \in 1..packets, p > stalled, NEW s \in 3..Updating, startd'[s] = p
                 PROVE  decision'[s - 2] = p
      BY DEF Press, Decided
    <2>1. startd[s - 1] = p
      BY DEF Shift
    <2> QED BY <2>1 DEF Decide, Decided
  <1> QED BY <1>1, <1>2

\* A stall in PKT1 shifts only the decisions: those of the packets ahead are lost.
LEMMA StallKeepsInv == ASSUME DQInv, Stall PROVE DQInv'
  <1> USE PacketsAssumption DEF DQInv, Shape, None, Stages, DelayLength, Updating
  <1>1. Shape'
    BY DEF Stall, Pkt1Stalled, Decide, queue, NotYetIn
  <1>2. NotYetIn' /\ Aligned'
    BY DEF Stall, Pkt1Stalled, queue, NotYetIn, Aligned, Beside
  <1>3. Decided'
    BY DEF Stall, Pkt1Stalled, Decided, NotYetIn
  <1> QED BY <1>1, <1>2, <1>3

\* Every cycle, whatever state the controller is in.
LEMMA DQStepInv == DQInv /\ [DQNext]_dqvars => DQInv'
  <1> SUFFICES ASSUME DQInv, [DQNext]_dqvars PROVE DQInv'
    OBVIOUS
  <1>1. CASE Idle /\ packets' # packets /\ Enqueue(Word(packets + 1, TRUE))
    <2> DEFINE word == Word(packets + 1, TRUE)
    <2>1. /\ curr_state = "IDLE" /\ curr_state' = "PKT1" /\ start' = None
          /\ packets < MaxPackets /\ packets' = packets + 1
          /\ Enqueue(word) /\ Shift /\ Decide
      BY <1>1 DEF Idle
    <2>2. word \in QueueWords /\ word.packet = packets + 1
      BY <2>1, PacketsAssumption DEF Word, QueueWords, DQInv, Shape
    <2>3. \A p : word = Word(p, TRUE) <=> p = packets + 1
      BY DEF Word
    <2> HIDE DEF word
    <2>4. packets \in 0..MaxPackets /\ start \in 0..packets
      BY DEF DQInv, Shape
    <2>5. packets' \in packets..MaxPackets /\ start' \in 0..packets /\ word.packet <= packets'
      BY <2>1, <2>2, <2>4, PacketsAssumption DEF None
    <2>6. \A p \in 1..packets : ~(start' = p)
      BY <2>1 DEF None
    <2>7. Forwards(word)
      BY <2>1, <2>2, <2>3, <2>5, <2>6 DEF Forwards
    <2> QED BY <2>7, ForwardsKeepsInv
  <1> DEFINE other == Word(packets, FALSE)
  <1>11. packets \in 0..MaxPackets /\ start \in 0..packets /\ None \in 0..packets
    BY PacketsAssumption DEF DQInv, Shape, None
  <1>12. packets \in packets..MaxPackets /\ packets \in 0..packets
    BY <1>11, PacketsAssumption
  <1>13. other \in QueueWords /\ other.packet <= packets
    BY <1>11 DEF Word, QueueWords
  <1>14. NoWord \in QueueWords /\ NoWord.packet <= packets
    BY <1>11, PacketsAssumption DEF NoWord, Word, QueueWords, None
  <1>15. \A p : other # Word(p, TRUE) /\ NoWord # Word(p, TRUE)
    BY DEF Word, NoWord
  <1>16. \A p \in 1..packets : p # None
    BY <1>11 DEF None
  <1> HIDE DEF other
  <1>2. CASE Pkt1 /\ Enqueue(other)
    <2>1. /\ Shift /\ Decide /\ packets' = packets /\ start' = packets
          /\ curr_state = "PKT1" /\ curr_state' \in {"PKT2", "WAIT5"}
      BY <1>2 DEF Pkt1
    <2>2. Forwards(other)
      BY <1>2, <1>12, <1>13, <1>15, <2>1 DEF Forwards
    <2> QED BY <2>2, ForwardsKeepsInv
  <1>3. CASE Pkt2 /\ Enqueue(other)
    <2>1. /\ Shift /\ Decide /\ packets' = packets /\ start' = None
          /\ curr_state = "PKT2" /\ curr_state' \in {"PKT2", "WAIT5", "IDLE"}
      BY <1>3 DEF Pkt2
    <2>2. Forwards(other)
      BY <1>3, <1>11, <1>12, <1>13, <1>15, <1>16, <2>1 DEF Forwards
    <2> QED BY <2>2, ForwardsKeepsInv
  <1>4. CASE NoWordTaken /\ Enqueue(NoWord)
    <2>1. /\ Shift /\ Decide /\ packets' = packets /\ start' = None
          /\ curr_state # "PKT1" /\ curr_state' \in {"PKT2", "WAIT5", "IDLE"}
      BY <1>4, PacketsAssumption DEF NoWordTaken, Idle, Pkt2, Wait5, DQInv, Shape
    <2>2. Forwards(NoWord)
      BY <1>4, <1>11, <1>12, <1>14, <1>15, <1>16, <2>1 DEF Forwards
    <2> QED BY <2>2, ForwardsKeepsInv
  <1>5. CASE NoWordTaken /\ Press
    <2>1. /\ Shift /\ Decide /\ packets' = packets /\ start' = None
          /\ curr_state' \in {"IDLE", "PKT2", "WAIT5"}
      BY <1>5, PacketsAssumption DEF NoWordTaken, Idle, Pkt2, Wait5, DQInv, Shape
    <2> QED BY <1>5, <2>1, PressKeepsInv
  <1>6. CASE Stall
    BY <1>6, StallKeepsInv
  <1>7. CASE UNCHANGED dqvars
    <2>1. Shape'
      BY <1>7 DEF dqvars, vars, queue, DQInv, Shape
    <2>2. NotYetIn'
      BY <1>7 DEF dqvars, vars, DQInv, NotYetIn
    <2>3. Aligned'
      BY <1>7 DEF dqvars, vars, queue, DQInv, Aligned, Beside
    <2>4. Decided'
      BY <1>7 DEF dqvars, vars, DQInv, Decided
    <2> QED BY <2>1, <2>2, <2>3, <2>4 DEF DQInv
  <1>8. DQNext => WordTaken \/ NoWordTaken \/ Stall
    BY DEF DQNext
  <1>9. NoWordTaken => Enqueue(NoWord) \/ Press
    BY DEF NoWordTaken
  <1>10. WordTaken => \/ Idle /\ packets' # packets /\ Enqueue(Word(packets + 1, TRUE))
                      \/ Pkt1 /\ Enqueue(other)
                      \/ Pkt2 /\ Enqueue(other)
    BY DEF WordTaken, other
  <1> QED BY <1>1, <1>2, <1>3, <1>4, <1>5, <1>6, <1>7, <1>8, <1>9, <1>10

\* The invariant holds in every cycle.
LEMMA DQInvAlways == DQSpec => []DQInv
  BY DQInitInv, DQStepInv, PTL DEF DQSpec

\* The delay line is as long as the pipeline, generic DELAY_LENGHT => 10.
THEOREM FirstWordMeetsItsStart == DQSpec => []WordMeetsStart
  <1>1. DQInv => WordMeetsStart
    BY DEF DQInv, Aligned, Beside, WordMeetsStart
  <1> QED BY DQInvAlways, <1>1, PTL

\* "sync con Res3 .. Res1": five stages of action_d3 are what startd(8) needs.
THEOREM FirstWordMeetsItsAction == DQSpec => []WordMeetsAction
  <1>1. DQInv => WordMeetsAction
    <2> SUFFICES ASSUME DQInv, output.first, output.packet > pressed, output.packet > stalled
                 PROVE  decision[7] = output.packet
      BY DEF WordMeetsAction
    <2> DEFINE p == output.packet
    <2>1. p \in 1..packets
      BY DEF DQInv, Shape, QueueWords
    <2>2. output = Word(p, TRUE)
      BY DEF DQInv, Shape, QueueWords, Word
    <2>3. startd[Updating] = p
      BY <2>1, <2>2 DEF DQInv, Aligned, Beside
    <2> QED BY <2>1, <2>3 DEF DQInv, Decided, Updating
  <1> QED BY DQInvAlways, <1>1, PTL

\* The queue leaves the controller alone: what is proved of it holds here.
THEOREM QueueKeepsController == DQSpec => Spec
  <1>1. DQInit => Init
    BY DEF DQInit
  <1>2. [DQNext]_dqvars => [Next]_vars
    BY DEF DQNext, dqvars, WordTaken, NoWordTaken, Stall, Next, vars
  <1> QED BY <1>1, <1>2, PTL DEF DQSpec, Spec

-----------------------------------------------------------------------------
(* The firmware                                                            *)

\* Accesses to registers, and those a command makes: none writes PAUSE.
Names    == CoreRegisters \cup {"zero", "elsewhere", "TCAM1", "TCAM1_MASK", "TCAM2", "TCAM2_MASK",
              "RAM1", "RAM2", "RAM3", "RAM4", "ETH"} \cup {a[2] : a \in Addresses}
Writes   == [op : {"write"}, base : Nat, name : Names, row : 0..8, word : 1..Words, val : Int]
Reads    == [op : {"read"}, base : Nat, name : Names]
RowReads == [op : {"row"}, base : Nat, name : 1..NumTables, row : 1..HTRows]
Accesses == Writes \cup Reads \cup RowReads
Harmless == {o \in Writes \cup Reads : o.op = "write" /\ o.base = 0 => o.name # "PAUSE"}
At(b)    == {o \in Harmless : o.base = b}
Quiet(b) == {o \in At(b) : o.op = "write" => o.name \notin CoreRegisters}

\* The core: the rows that are written are those of transparent mode.
RowsOf(S) == UNION {[D -> S] : D \in SUBSET (0..8)}
WordsOf   == [1..Words -> Int]
CoreType  == [reg : [CoreRegisters -> Int], data : WordsOf, mask : WordsOf,
              cam : RowsOf([key : WordsOf, mask : WordsOf]), ram2 : RowsOf(Int), ram3 : RowsOf(Int)]
TablesType == [1..NumTables -> SUBSET (1..HTRows)]

\* Arguments are where a line of the loader has them, and digits are numbers.
MsgType(m) ==
  /\ \A i \in 1..MsgLen : (m[i][1] = "arg" => i \in {3, 4}) /\ (IsHex(m[i]) => m[i][2] \in Int)
  /\ m[3][1] = "arg" => m[3][2] \in Addresses
  /\ m[4][1] = "arg" => m[3][1] = "arg" /\ m[4][2] \in Values

CommandType == /\ command.addr \in Addresses \cup {<< 0, "zero" >>, Elsewhere}
               /\ command.value \in Int

-----------------------------------------------------------------------------
(* The core                                                                *)

LEMMA PutType ==
  ASSUME NEW S, NEW f \in RowsOf(S), NEW x \in 0..8, NEW y \in S
  PROVE  Put(f, x, y) \in RowsOf(S)
<1>1. PICK D \in SUBSET (0..8) : f \in [D -> S]
  BY DEF RowsOf
<1>2. Put(f, x, y) \in [D \cup {x} -> S]
  BY <1>1 DEF Put
<1>3. D \cup {x} \in SUBSET (0..8)
  BY <1>1
<1> QED BY <1>2, <1>3 DEF RowsOf

LEMMA PauseIsRegister == "PAUSE" \in CoreRegisters
  BY DEF CoreRegisters

\* What a write of a word does to the core; PAUSE is changed by its own write only.
LEMMA EffectType ==
  ASSUME core \in CoreType, NEW o \in Writes
  PROVE  /\ Effect(o) \in CoreType
         /\ Effect(o).reg["PAUSE"] = IF o.name = "PAUSE" /\ ~Lost THEN o.val ELSE pause
<1> DEFINE collected ==
      CASE Lost -> core
        [] ~Lost /\ o.name \in CoreRegisters -> [core EXCEPT !.reg[o.name] = o.val]
        [] ~Lost /\ o.name \in {"TCAM1", "TCAM2"} -> [core EXCEPT !.data[o.word] = o.val]
        [] ~Lost /\ o.name \in {"TCAM1_MASK", "TCAM2_MASK"} -> [core EXCEPT !.mask[o.word] = o.val]
        [] OTHER -> core
<1>1. o.val \in Int /\ o.word \in 1..Words /\ o.row \in 0..8
  BY DEF Writes
<1>2. /\ collected \in CoreType
      /\ collected.reg["PAUSE"] = IF o.name = "PAUSE" /\ ~Lost THEN o.val ELSE pause
  <2>1. CASE Lost
    BY <2>1 DEF pause
  <2>2. CASE ~Lost /\ o.name \in CoreRegisters
    <3> DEFINE new == [core.reg EXCEPT ![o.name] = o.val]
    <3>1. o.name \notin {"TCAM1", "TCAM2", "TCAM1_MASK", "TCAM2_MASK"}
      BY <2>2 DEF CoreRegisters
    <3>2. new \in [CoreRegisters -> Int] /\ new["PAUSE"] = IF o.name = "PAUSE" THEN o.val ELSE pause
      BY <1>1, <2>2, PauseIsRegister DEF CoreType, pause
    <3>3. collected = [core EXCEPT !.reg = new]
      BY <2>2, <3>1
    <3> HIDE DEF new, collected
    <3> QED BY <2>2, <3>2, <3>3 DEF CoreType
  <2>3. CASE ~Lost /\ o.name \in {"TCAM1", "TCAM2"}
    <3> DEFINE new == [core.data EXCEPT ![o.word] = o.val]
    <3>1. o.name \notin CoreRegisters /\ o.name \notin {"TCAM1_MASK", "TCAM2_MASK"} /\ o.name # "PAUSE"
      BY <2>3 DEF CoreRegisters
    <3>2. new \in WordsOf
      BY <1>1 DEF CoreType, WordsOf
    <3>3. collected = [core EXCEPT !.data = new]
      BY <2>3, <3>1
    <3> HIDE DEF new, collected
    <3> QED BY <3>1, <3>2, <3>3 DEF CoreType, pause
  <2>4. CASE ~Lost /\ o.name \in {"TCAM1_MASK", "TCAM2_MASK"}
    <3> DEFINE new == [core.mask EXCEPT ![o.word] = o.val]
    <3>1. o.name \notin CoreRegisters /\ o.name \notin {"TCAM1", "TCAM2"} /\ o.name # "PAUSE"
      BY <2>4 DEF CoreRegisters
    <3>2. new \in WordsOf
      BY <1>1 DEF CoreType, WordsOf
    <3>3. collected = [core EXCEPT !.mask = new]
      BY <2>4, <3>1
    <3> HIDE DEF new, collected
    <3> QED BY <3>1, <3>2, <3>3 DEF CoreType, pause
  <2>5. CASE ~Lost /\ o.name \notin CoreRegisters /\ o.name \notin {"TCAM1", "TCAM2", "TCAM1_MASK", "TCAM2_MASK"}
    <3>1. collected = core
      BY <2>5
    <3> QED BY <2>5, <3>1, PauseIsRegister DEF pause
  <2> QED BY <2>1, <2>2, <2>3, <2>4, <2>5
<1>3. [key |-> core.data, mask |-> core.mask] \in [key : WordsOf, mask : WordsOf]
  BY DEF CoreType
<1> DEFINE cams == Put(core.cam, o.row, [key |-> core.data, mask |-> core.mask])
           rams2 == Put(core.ram2, o.row, o.val)
           rams3 == Put(core.ram3, o.row, o.val)
<1>4. cams \in RowsOf([key : WordsOf, mask : WordsOf])
  BY <1>1, <1>3, PutType DEF CoreType
<1>5. rams2 \in RowsOf(Int) /\ rams3 \in RowsOf(Int)
  BY <1>1, PutType DEF CoreType
<1>6. Effect(o) = CASE o.name = "TCAM2_MASK" /\ o.word = Words -> [collected EXCEPT !.cam = cams]
                    [] o.name = "RAM2" -> [collected EXCEPT !.ram2 = rams2]
                    [] o.name = "RAM3" -> [collected EXCEPT !.ram3 = rams3]
                    [] OTHER -> collected
  BY DEF Effect
<1> HIDE DEF collected, cams, rams2, rams3
<1>7. Effect(o) \in {collected, [collected EXCEPT !.cam = cams], [collected EXCEPT !.ram2 = rams2],
                     [collected EXCEPT !.ram3 = rams3]}
  BY <1>6
<1> QED BY <1>2, <1>4, <1>5, <1>7 DEF CoreType

-----------------------------------------------------------------------------
(* Lines                                                                   *)

LEMMA DigitsOf ==
  ASSUME NEW m
  PROVE  /\ Digits(m) \in 0..5 /\ \A i \in 1..Digits(m) : m[i][1] = "digit"
         /\ Digits(m) < 5 => m[Digits(m) + 1][1] # "digit"
<1> DEFINE P == {n \in 1..MsgLen : \A i \in 1..n : m[i][1] = "digit"}
<1>1. PICK k \in 0..5 : /\ \A i \in 1..k : m[i][1] = "digit"
                        /\ k < 5 => m[k + 1][1] # "digit"
  <2>1. CASE m[1][1] # "digit"
    BY <2>1
  <2>2. CASE m[1][1] = "digit" /\ m[2][1] # "digit"
    BY <2>2
  <2>3. CASE m[1][1] = "digit" /\ m[2][1] = "digit" /\ m[3][1] # "digit"
    BY <2>3
  <2>4. CASE m[1][1] = "digit" /\ m[2][1] = "digit" /\ m[3][1] = "digit" /\ m[4][1] # "digit"
    BY <2>4
  <2>5. CASE /\ m[1][1] = "digit" /\ m[2][1] = "digit" /\ m[3][1] = "digit" /\ m[4][1] = "digit"
             /\ m[5][1] # "digit"
    BY <2>5
  <2>6. CASE /\ m[1][1] = "digit" /\ m[2][1] = "digit" /\ m[3][1] = "digit" /\ m[4][1] = "digit"
             /\ m[5][1] = "digit"
    BY <2>6
  <2> QED BY <2>1, <2>2, <2>3, <2>4, <2>5, <2>6
<1>2. P = 1..k
  BY <1>1 DEF MsgLen
<1>3. Cardinality(1..k) = k
  <2>1. k \in Int /\ 1 \in Int /\ k >= 0
    BY <1>1
  <2>2. Cardinality(1..k) = IF 1 > k THEN 0 ELSE k - 1 + 1
    BY ONLY <2>1, FS_Interval
  <2> QED BY <2>1, <2>2
<1>4. Digits(m) = k
  BY <1>2, <1>3 DEF Digits
<1> QED BY <1>1, <1>4

\* A line that is taken over keeps the arguments in their places.
LEMMA LineType == ASSUME MsgType(msg), NEW l \in Lines PROVE MsgType(getline(l))
<1> DEFINE g == getline(l)
<1>1. /\ Len(l) \in 0..5 /\ DOMAIN l = 1..Len(l) /\ \A k \in 1..Len(l) : l[k] \in Symbols(k)
  BY LinesAssumption DEF MsgLen
<1>2. \A i \in 1..MsgLen : g[i] = IF i \in 1..Len(l) THEN l[i] ELSE msg[i]
  BY <1>1 DEF getline
<1> HIDE DEF g
<1>3. \A i \in 1..MsgLen : (g[i][1] = "arg" => i \in {3, 4}) /\ (IsHex(g[i]) => g[i][2] \in Int)
  <2>1. ASSUME NEW i \in 1..MsgLen, i \in {1, 2, 5} PROVE g[i][1] # "arg" /\ (IsHex(g[i]) => g[i][2] \in Int)
    BY <1>1, <1>2, <2>1 DEF Symbols, Digit, MsgType, IsHex
  <2>2. ASSUME NEW i \in {3, 4} PROVE IsHex(g[i]) => g[i][2] \in Int
    BY <1>1, <1>2 DEF Symbols, Arg, MsgType, IsHex, MsgLen
  <2> QED BY <2>1, <2>2 DEF MsgLen
<1>4. g[3][1] = "arg" => g[3][2] \in Addresses
  BY <1>1, <1>2 DEF Symbols, Arg, MsgType, MsgLen
<1>5. g[4][1] = "arg" => g[3][1] = "arg" /\ g[4][2] \in Values
  <2>1. CASE 4 \in 1..Len(l)
    BY <1>1, <1>2, <2>1 DEF Symbols, Arg, MsgLen
  <2>2. CASE 4 \notin 1..Len(l) /\ 3 \in 1..Len(l)
    BY <1>1, <1>2, <2>2 DEF Symbols, Arg, MsgLen, MsgType
  <2>3. CASE 4 \notin 1..Len(l) /\ 3 \notin 1..Len(l)
    BY <1>2, <2>3 DEF MsgLen, MsgType
  <2> QED BY <2>1, <2>2, <2>3
<1> QED BY <1>3, <1>4, <1>5 DEF MsgType, g

\* What is scanned from the buffer, whatever is behind the line.
LEMMA ScanType ==
  ASSUME NEW m, MsgType(m)
  PROVE  /\ rsscanf(m).addr \in Addresses \cup {<< 0, "zero" >>, Elsewhere}
         /\ rsscanf(m).value \in Int
<1> DEFINE n == Digits(m)
           IsArg(i) == n > 0 /\ i <= MsgLen /\ m[i][1] = "arg"
           Longer(i) == i < MsgLen /\ IsHex(m[i + 1])
<1>1. n \in 0..5 /\ \A i \in 1..n : m[i][1] = "digit"
  BY DigitsOf
<1>2. /\ rsscanf(m).addr = (IF ~IsArg(n + 1) THEN << 0, "zero" >>
                            ELSE IF Longer(n + 1) THEN Elsewhere ELSE m[n + 1][2])
      /\ rsscanf(m).value = (IF ~(IsArg(n + 1) /\ IsArg(n + 2)) THEN 0
                             ELSE IF Longer(n + 2) THEN 16 * m[n + 2][2] + m[n + 3][2] ELSE m[n + 2][2])
  BY DEF rsscanf
<1> HIDE DEF n
<1>3. IsArg(n + 1) => n = 2 /\ m[3][2] \in Addresses
  <2> SUFFICES ASSUME IsArg(n + 1) PROVE n = 2 /\ m[3][2] \in Addresses
    OBVIOUS
  <2>1. n + 1 \in {3, 4}
    BY <1>1 DEF MsgType, MsgLen
  <2>2. n # 3
    <3> SUFFICES ASSUME n = 3 PROVE FALSE
      OBVIOUS
    <3>1. m[4][1] = "arg" /\ m[3][1] = "digit"
      BY <1>1
    <3> QED BY <3>1 DEF MsgType
  <2>3. n = 2
    BY <1>1, <2>1, <2>2
  <2>4. m[3][1] = "arg"
    BY <2>3
  <2> QED BY <2>3, <2>4 DEF MsgType
<1>4. rsscanf(m).addr \in Addresses \cup {<< 0, "zero" >>, Elsewhere}
  BY <1>2, <1>3
<1>5. rsscanf(m).value \in Int
  <2>1. CASE IsArg(n + 1) /\ IsArg(n + 2)
    <3>1. n = 2 /\ m[4][2] \in Int
      BY <1>3, <2>1, LinesAssumption DEF MsgType
    <3>2. CASE Longer(4)
      <4>1. m[5][2] \in Int
        BY <3>2 DEF MsgType, MsgLen
      <4>2. 16 * m[4][2] + m[5][2] \in Int
        BY <3>1, <4>1
      <4> QED BY <1>2, <2>1, <3>1, <3>2, <4>2
    <3>3. CASE ~Longer(4)
      BY <1>2, <2>1, <3>1, <3>3
    <3> QED BY <3>2, <3>3
  <2>2. CASE ~(IsArg(n + 1) /\ IsArg(n + 2))
    BY <1>2, <2>2
  <2> QED BY <2>1, <2>2
<1> QED BY <1>4, <1>5

-----------------------------------------------------------------------------
(* Commands                                                                *)

LEMMA WriteHarmless ==
  ASSUME NEW b \in Nat, NEW name \in Names \ {"PAUSE"}, NEW row \in 0..8, NEW word \in 1..Words, NEW val \in Int
  PROVE  regwrite(b, name, row, word, val) \in At(b)
  BY DEF regwrite, At, Harmless, Writes

LEMMA ReadHarmless == ASSUME NEW b \in Nat, NEW name \in Names PROVE regread(b, name) \in At(b)
  BY DEF regread, At, Harmless, Reads

LEMMA WordsHarmless ==
  ASSUME NEW b \in Nat, NEW name \in Names \ {"PAUSE"}, NEW row \in 0..8, NEW words \in Seq(Int)
  PROVE  /\ RowWords(b, name, row, words) \in Seq(At(b)) /\ Len(RowWords(b, name, row, words)) = Words
         /\ name \notin CoreRegisters => RowWords(b, name, row, words) \in Seq(Quiet(b))
<1>1. Words \in Nat
  BY FirmwareAssumption
<1>2. \A i \in 1..Words : LET o == regwrite(b, name, row, i, IF i <= Len(words) THEN words[i] ELSE -1)
                          IN  o \in At(b) /\ (name \notin CoreRegisters => o \in Quiet(b))
  <2> TAKE i \in 1..Words
  <2>1. PICK v \in Int : v = IF i <= Len(words) THEN words[i] ELSE -1
    BY <1>1
  <2>2. regwrite(b, name, row, i, v) \in At(b) /\ regwrite(b, name, row, i, v).name = name
    BY WriteHarmless DEF regwrite
  <2> QED BY <2>1, <2>2 DEF Quiet
<1> QED BY <1>1, <1>2 DEF RowWords

\* s of length m and t of length n over S, and c both of them.
AreSeqs(S, s, m, t, n) == m \in Nat /\ n \in Nat /\ s \in Seq(S) /\ Len(s) = m /\ t \in Seq(S) /\ Len(t) = n
IsBoth(S, s, m, t, n, c) ==
  /\ c \in Seq(S) /\ Len(c) = m + n
  /\ \A i \in 1..m : c[i] = s[i]
  /\ \A i \in 1..n : c[m + i] = t[i]

LEMMA Concat ==
  ASSUME NEW S, NEW m, NEW n, NEW s, NEW t, AreSeqs(S, s, m, t, n)
  PROVE  IsBoth(S, s, m, t, n, s \o t)
BY DEF AreSeqs, IsBoth

\* The accesses of a row of TCAM2, in their order.
RowLen == 2 * Words + 3
InOrder(b, row, id) ==
  /\ \A i \in 1..Words :
       /\ PortRow(b, row, id)[i] = RowWords(b, "TCAM2", row, << 255, id >>)[i]
       /\ PortRow(b, row, id)[Words + i] = RowWords(b, "TCAM2_MASK", row, << -1, -256 >>)[i]
  /\ PortRow(b, row, id)[2 * Words + 1] = regwrite(b, "RAM2", row, 1, 10)
  /\ PortRow(b, row, id)[2 * Words + 2] = regwrite(b, "RAM3", row, 1, Forward(id) + HT_REMOVE)
  /\ PortRow(b, row, id)[2 * Words + 3] = regwrite(b, "RAM4", row, 1, 0)

LEMMA RowAccesses ==
  ASSUME NEW b \in Nat, NEW row \in 0..8, NEW id \in Nat
  PROVE  /\ PortRow(b, row, id) \in Seq(At(b)) /\ Len(PortRow(b, row, id)) = RowLen
         /\ InOrder(b, row, id)
<1> DEFINE key  == RowWords(b, "TCAM2", row, << 255, id >>)
           mask == RowWords(b, "TCAM2_MASK", row, << -1, -256 >>)
           rams == << regwrite(b, "RAM2", row, 1, 10), regwrite(b, "RAM3", row, 1, Forward(id) + HT_REMOVE),
                      regwrite(b, "RAM4", row, 1, 0) >>
<1>1. Words \in Nat /\ 1 \in 1..Words
  BY FirmwareAssumption
<1>2. key \in Seq(At(b)) /\ Len(key) = Words /\ mask \in Seq(At(b)) /\ Len(mask) = Words
  <2>1. << 255, id >> \in Seq(Int) /\ << -1, -256 >> \in Seq(Int)
    OBVIOUS
  <2>2. "TCAM2" \in Names \ {"PAUSE"} /\ "TCAM2_MASK" \in Names \ {"PAUSE"}
    BY DEF Names
  <2>3. PICK u \in Seq(Int), v \in Seq(Int) : u = << 255, id >> /\ v = << -1, -256 >>
    BY <2>1
  <2>4. /\ RowWords(b, "TCAM2", row, u) \in Seq(At(b)) /\ Len(RowWords(b, "TCAM2", row, u)) = Words
        /\ RowWords(b, "TCAM2_MASK", row, v) \in Seq(At(b)) /\ Len(RowWords(b, "TCAM2_MASK", row, v)) = Words
    BY <2>2, WordsHarmless
  <2> QED BY ONLY <2>3, <2>4
<1>3. rams \in Seq(At(b)) /\ Len(rams) = 3
  <2>1. "RAM2" \in Names \ {"PAUSE"} /\ "RAM3" \in Names \ {"PAUSE"} /\ "RAM4" \in Names \ {"PAUSE"}
    BY DEF Names
  <2>2. Forward(id) + HT_REMOVE \in Int
    BY DEF Forward, HT_REMOVE
  <2>3. /\ regwrite(b, "RAM2", row, 1, 10) \in At(b)
        /\ regwrite(b, "RAM3", row, 1, Forward(id) + HT_REMOVE) \in At(b)
        /\ regwrite(b, "RAM4", row, 1, 0) \in At(b)
    BY <1>1, <2>1, <2>2, WriteHarmless
  <2> QED BY <2>3
<1>4. PortRow(b, row, id) = (key \o mask) \o rams
  BY DEF PortRow, set_tcamram2
<1>5. rams[1] = regwrite(b, "RAM2", row, 1, 10) /\ rams[3] = regwrite(b, "RAM4", row, 1, 0)
      /\ rams[2] = regwrite(b, "RAM3", row, 1, Forward(id) + HT_REMOVE)
  OBVIOUS
<1> HIDE DEF key, mask, rams
<1>6. /\ key \o mask \in Seq(At(b)) /\ Len(key \o mask) = 2 * Words
      /\ \A i \in 1..Words : (key \o mask)[i] = key[i] /\ (key \o mask)[Words + i] = mask[i]
  BY <1>1, <1>2
<1>7. /\ (key \o mask) \o rams \in Seq(At(b)) /\ Len((key \o mask) \o rams) = 2 * Words + 3
      /\ \A i \in 1..(2 * Words) : ((key \o mask) \o rams)[i] = (key \o mask)[i]
      /\ \A i \in 1..3 : ((key \o mask) \o rams)[2 * Words + i] = rams[i]
  <2> DEFINE front == key \o mask
  <2>1. front \in Seq(At(b)) /\ Len(front) = 2 * Words
    BY <1>6
  <2> HIDE DEF front
  <2>2. /\ front \o rams \in Seq(At(b)) /\ Len(front \o rams) = Len(front) + Len(rams)
        /\ \A i \in 1..Len(front) : (front \o rams)[i] = front[i]
        /\ \A i \in 1..Len(rams) : (front \o rams)[Len(front) + i] = rams[i]
    <3>1. AreSeqs(At(b), front, Len(front), rams, Len(rams))
      BY <1>1, <1>3, <2>1 DEF AreSeqs
    <3>2. IsBoth(At(b), front, Len(front), rams, Len(rams), front \o rams)
      BY <3>1, Concat
    <3> QED BY <3>2 DEF IsBoth
  <2>3. /\ front \o rams \in Seq(At(b)) /\ Len(front \o rams) = 2 * Words + 3
        /\ \A i \in 1..(2 * Words) : (front \o rams)[i] = front[i]
        /\ \A i \in 1..3 : (front \o rams)[2 * Words + i] = rams[i]
    BY ONLY <1>3, <2>1, <2>2
  <2> QED BY <2>3 DEF front
<1>8. \A i \in 1..Words : i \in 1..(2 * Words) /\ Words + i \in 1..(2 * Words)
  BY <1>1
<1> HIDE DEF key, mask, rams
<1>9. \A i \in 1..Words : PortRow(b, row, id)[i] = key[i] /\ PortRow(b, row, id)[Words + i] = mask[i]
  BY <1>4, <1>6, <1>7, <1>8
<1>10. \A i \in 1..3 : PortRow(b, row, id)[2 * Words + i] = rams[i]
  BY <1>4, <1>7
<1>11. PortRow(b, row, id) \in Seq(At(b)) /\ Len(PortRow(b, row, id)) = RowLen
  BY <1>4, <1>7 DEF RowLen
<1>12. /\ PortRow(b, row, id)[2 * Words + 1] = rams[1] /\ PortRow(b, row, id)[2 * Words + 2] = rams[2]
       /\ PortRow(b, row, id)[2 * Words + 3] = rams[3]
  BY <1>10
<1>13. \A i \in 1..Words : /\ PortRow(b, row, id)[i] = RowWords(b, "TCAM2", row, << 255, id >>)[i]
                           /\ PortRow(b, row, id)[Words + i] = RowWords(b, "TCAM2_MASK", row, << -1, -256 >>)[i]
  BY <1>9 DEF key, mask
<1> QED BY ONLY <1>5, <1>11, <1>12, <1>13 DEF InOrder

LEMMA RegistersHarmless ==
  ASSUME NEW b \in Nat, NEW pairs \in Seq((Names \ {"PAUSE"}) \X Int)
  PROVE  Registers(b, pairs) \in Seq(At(b)) /\ Len(Registers(b, pairs)) = Len(pairs)
<1>1. 0 \in 0..8 /\ 1 \in 1..Words
  BY FirmwareAssumption
<1>2. \A i \in DOMAIN pairs : regwrite(b, pairs[i][1], 0, 1, pairs[i][2]) \in At(b)
  <2> TAKE i \in DOMAIN pairs
  <2>1. pairs[i][1] \in Names \ {"PAUSE"} /\ pairs[i][2] \in Int
    OBVIOUS
  <2> QED BY ONLY <1>1, <2>1, WriteHarmless
<1>3. DOMAIN pairs = 1..Len(pairs) /\ Len(pairs) \in Nat
  OBVIOUS
<1> QED BY ONLY <1>2, <1>3 DEF Registers

\* What comes before the rows of transparent mode.
Settings(b) ==
  Registers(b, TransparentSettings) \o scan_extractor(b) \o set_tcamram1(b, 0, << -1 >>, << -1 >>, 255)
SettingsLen == 2 * Words + 15

\* The registers that it sets, each once.
Set == 1..11
NameOf(i) == TransparentSettings[i][1]
ValueOf(i) == TransparentSettings[i][2]

LEMMA SettingsType ==
  /\ TransparentSettings \in Seq((Names \ {"PAUSE"}) \X Int) /\ Len(TransparentSettings) = 11
  /\ \A i \in Set : NameOf(i) \in CoreRegisters \ {"PAUSE", "REGTEST0"}
  /\ \A i, j \in Set : NameOf(i) = NameOf(j) => i = j
<1> DEFINE N == Names \ {"PAUSE"}
           pairs == << << "LOOKUP", 0 >>, << "UPDATE", 0 >>, << "SEL_UPDATE", 0 >>, << "FSM_SCOPE", \h2D >>,
                       << "LOOKUPMASK", -1 >>, << "UPDATEMASK", -1 >>,
                       << "OFF_LEN1", \hE8 >>, << "OFF_LEN2", \hE8 >>, << "OFF_LEN3", \h50 >>,
                       << "GR00", 1 >>, << "GR01", 2 >> >>
<1>1. {"LOOKUP", "UPDATE", "SEL_UPDATE", "FSM_SCOPE", "LOOKUPMASK", "UPDATEMASK",
       "OFF_LEN1", "OFF_LEN2", "OFF_LEN3", "GR00", "GR01"} \subseteq N
  BY DEF Names, CoreRegisters
<1> HIDE DEF N
<1>2. pairs \in Seq(N \X Int) /\ Len(pairs) = 11
  BY <1>1
<1>3. TransparentSettings = pairs
  BY DEF TransparentSettings
<1>4. \A i \in 1..11 : pairs[i][1] \in CoreRegisters \ {"PAUSE", "REGTEST0"}
  BY DEF CoreRegisters
<1>5. \A i, j \in 1..11 : pairs[i][1] = pairs[j][1] => i = j
  OBVIOUS
<1> QED BY <1>2, <1>3, <1>4, <1>5 DEF N, NameOf, ValueOf, Set

LEMMA SettingsAccesses ==
  ASSUME NEW b \in Nat
  PROVE  /\ Settings(b) \in Seq(At(b)) /\ Len(Settings(b)) = SettingsLen
         /\ \A i \in Set : Settings(b)[i] = regwrite(b, NameOf(i), 0, 1, ValueOf(i))
         /\ \A i \in 12..SettingsLen : Settings(b)[i] \in Quiet(b)
<1> DEFINE regs == Registers(b, TransparentSettings)
           scan == scan_extractor(b)
           key  == RowWords(b, "TCAM1", 0, << -1 >>)
           mask == RowWords(b, "TCAM1_MASK", 0, << -1 >>)
           ram  == << regwrite(b, "RAM1", 0, 1, 255) >>
<1>1. Words \in Nat /\ 1 \in 1..Words
  BY FirmwareAssumption
<1>2. /\ regs \in Seq(At(b)) /\ Len(regs) = 11
      /\ \A i \in Set : regs[i] = regwrite(b, NameOf(i), 0, 1, ValueOf(i))
  <2>1. regs \in Seq(At(b)) /\ Len(regs) = 11
    BY SettingsType, RegistersHarmless
  <2>2. DOMAIN TransparentSettings = 1..11
    BY SettingsType
  <2> QED BY <2>1, <2>2 DEF Registers, Set, NameOf, ValueOf
<1>3. scan \in Seq(Quiet(b)) /\ Len(scan) = 3
  <2>1. "LOOKUP" \in Names /\ "UPDATE" \in Names /\ "GR00" \in Names
    BY DEF Names, CoreRegisters
  <2>2. regread(b, "LOOKUP") \in At(b) /\ regread(b, "UPDATE") \in At(b) /\ regread(b, "GR00") \in At(b)
    BY <2>1, ReadHarmless
  <2>3. regread(b, "LOOKUP") \in Quiet(b) /\ regread(b, "UPDATE") \in Quiet(b) /\ regread(b, "GR00") \in Quiet(b)
    BY <2>2 DEF Quiet, regread
  <2> QED BY <2>3 DEF scan_extractor
<1>4. key \in Seq(Quiet(b)) /\ Len(key) = Words /\ mask \in Seq(Quiet(b)) /\ Len(mask) = Words
  <2>1. << -1 >> \in Seq(Int)
    OBVIOUS
  <2>0. 0 \in 0..8
    OBVIOUS
  <2>2. "TCAM1" \in Names \ {"PAUSE"} /\ "TCAM1_MASK" \in Names \ {"PAUSE"}
    BY DEF Names
  <2>3. "TCAM1" \notin CoreRegisters /\ "TCAM1_MASK" \notin CoreRegisters
    BY DEF CoreRegisters
  <2> QED BY <2>0, <2>1, <2>2, <2>3, WordsHarmless
<1>5. ram \in Seq(Quiet(b)) /\ Len(ram) = 1
  <2>1. "RAM1" \in Names \ {"PAUSE"} /\ "RAM1" \notin CoreRegisters
    BY DEF Names, CoreRegisters
  <2>2. regwrite(b, "RAM1", 0, 1, 255) \in At(b)
    BY <1>1, <2>1, WriteHarmless
  <2>3. regwrite(b, "RAM1", 0, 1, 255) \in Quiet(b)
    BY <2>1, <2>2 DEF Quiet, regwrite
  <2> QED BY <2>3
<1>6. Settings(b) = (regs \o scan) \o ((key \o mask) \o ram)
  BY DEF Settings, set_tcamram1
<1> HIDE DEF regs, scan, key, mask, ram
<1> DEFINE front == regs \o scan
           words == key \o mask
           row   == words \o ram
<1>0. \A s : s \in Seq(Quiet(b)) => s \in Seq(At(b))
  BY DEF Quiet
<1>7. /\ front \in Seq(At(b)) /\ Len(front) = 14
      /\ \A i \in 1..11 : front[i] = regs[i]
      /\ \A i \in 1..3 : front[11 + i] = scan[i]
  <2>1. AreSeqs(At(b), regs, 11, scan, 3)
    BY <1>0, <1>2, <1>3 DEF AreSeqs
  <2>2. IsBoth(At(b), regs, 11, scan, 3, front)
    BY <2>1, Concat
  <2> HIDE DEF front
  <2> QED BY <2>2 DEF IsBoth
<1>8. words \in Seq(Quiet(b)) /\ Len(words) = 2 * Words
  BY <1>1, <1>4
<1> HIDE DEF front, words
<1>9. row \in Seq(Quiet(b)) /\ Len(row) = 2 * Words + 1
  <2>1. words \in Seq(Quiet(b)) /\ ram \in Seq(Quiet(b))
    BY <1>5, <1>8
  <2>2. row \in Seq(Quiet(b)) /\ Len(row) = Len(words) + Len(ram)
    BY ONLY <2>1
  <2> QED BY <1>5, <1>8, <2>2
<1> HIDE DEF row
<1> DEFINE all == front \o row
<1>10. /\ all \in Seq(At(b)) /\ Len(all) = 2 * Words + 15
       /\ \A i \in 1..14 : all[i] = front[i]
       /\ \A i \in 1..(2 * Words + 1) : all[14 + i] = row[i]
  <2>1. AreSeqs(At(b), front, 14, row, 2 * Words + 1)
    BY <1>0, <1>1, <1>7, <1>9 DEF AreSeqs
  <2>2. IsBoth(At(b), front, 14, row, 2 * Words + 1, all)
    BY <2>1, Concat
  <2> HIDE DEF all
  <2>3. 14 + (2 * Words + 1) = 2 * Words + 15
    BY <1>1
  <2> QED BY <2>2, <2>3 DEF IsBoth
<1>11. Settings(b) = all
  BY <1>6 DEF front, words, row
<1> HIDE DEF all
<1>12. ASSUME NEW i \in 12..SettingsLen PROVE Settings(b)[i] \in Quiet(b)
  <2>1. CASE i <= 14
    <3>1. PICK j \in 1..3 : i = 11 + j /\ i \in 1..14
      <4>1. i - 11 \in 1..3 /\ i = 11 + (i - 11) /\ i \in 1..14
        BY <2>1
      <4> QED BY <4>1
    <3>2. front[i] = scan[j]
      BY <1>7, <3>1
    <3>3. all[i] = front[i]
      BY <1>10, <3>1
    <3> QED BY <1>3, <1>11, <3>2, <3>3
  <2>2. CASE i > 14
    <3>1. PICK j \in 1..(2 * Words + 1) : i = 14 + j
      <4>1. i - 14 \in 1..(2 * Words + 1) /\ i = 14 + (i - 14)
        BY <1>1, <2>2 DEF SettingsLen
      <4> QED BY <4>1
    <3>2. Settings(b)[i] = row[j]
      BY <1>10, <1>11, <3>1
    <3> QED BY <1>9, <3>1, <3>2
  <2> QED BY <2>1, <2>2
<1>13. \A i \in Set : Settings(b)[i] = regs[i]
  <2>1. \A i \in 1..11 : i \in 1..14 /\ front[i] = regs[i]
    BY <1>7
  <2> QED BY <1>10, <1>11, <2>1 DEF Set
<1> QED BY <1>2, <1>10, <1>11, <1>12, <1>13 DEF SettingsLen

\* A sequence and nine rows of one length behind it.
AreRows(S, s, m, rows, n) == /\ m \in Nat /\ n \in Nat /\ s \in Seq(S) /\ Len(s) = m
                             /\ rows \in [0..8 -> Seq(S)] /\ \A r \in 0..8 : Len(rows[r]) = n
AllRows(s, rows) == s \o rows[0] \o rows[1] \o rows[2] \o rows[3] \o rows[4] \o rows[5]
                      \o rows[6] \o rows[7] \o rows[8]
AreAllRows(S, s, m, rows, n, c) ==
  /\ c \in Seq(S) /\ Len(c) = m + 9 * n
  /\ \A i \in 1..m : c[i] = s[i]
  /\ \A r \in 0..8 : \A i \in 1..n : c[(m + r * n) + i] = rows[r][i]

LEMMA NineRows ==
  ASSUME NEW S, NEW m, NEW n, NEW s, NEW rows, AreRows(S, s, m, rows, n)
  PROVE  AreAllRows(S, s, m, rows, n, AllRows(s, rows))
<1>0. /\ m \in Nat /\ n \in Nat /\ s \in Seq(S) /\ Len(s) = m
      /\ rows \in [0..8 -> Seq(S)] /\ \A r \in 0..8 : Len(rows[r]) = n
  BY DEF AreRows
<1> DEFINE Fits(t, r) == /\ t \in Seq(S) /\ Len(t) = m + r * n
                         /\ \A i \in 1..m : t[i] = s[i]
                         /\ \A q \in 0..8 : q < r => \A i \in 1..n : t[(m + q * n) + i] = rows[q][i]
<1>1. ASSUME NEW t, NEW r \in 0..8, Fits(t, r) PROVE Fits(t \o rows[r], r + 1)
  <2>1. PICK x \in Nat : x = m + r * n /\ m + (r + 1) * n = x + n
    BY <1>0
  <2>2. t \in Seq(S) /\ Len(t) = x
    BY <1>1, <2>1
  <2>3. PICK u \in Seq(S) : u = rows[r] /\ Len(u) = n
    BY <1>0
  <2>4. PICK v : v = t \o u
    OBVIOUS
  <2>5. v \in Seq(S) /\ Len(v) = x + n /\ (\A i \in 1..x : v[i] = t[i]) /\ (\A i \in 1..n : v[x + i] = u[i])
    <3>1. AreSeqs(S, t, x, u, n)
      BY <1>0, <2>1, <2>2, <2>3 DEF AreSeqs
    <3>2. IsBoth(S, t, x, u, n, t \o u)
      BY <3>1, Concat
    <3> QED BY <2>4, <3>2 DEF IsBoth
  <2>6. ASSUME NEW q \in 0..8, q < r + 1, NEW i \in 1..n PROVE v[(m + q * n) + i] = rows[q][i]
    <3>1. CASE q = r
      <4>1. (m + q * n) + i = x + i
        BY <1>0, <2>1, <3>1
      <4> QED BY <2>3, <2>5, <3>1, <4>1
    <3>2. CASE q < r
      <4>1. PICK y \in Nat : y = m + q * n /\ y + n <= x
        <5>1. PICK d \in Nat : r = (q + 1) + d
          <6>1. r - (q + 1) \in Nat /\ r = (q + 1) + (r - (q + 1))
            BY <3>2
          <6> QED BY <6>1
        <5>2. d * n \in Nat /\ q * n \in Nat /\ r * n = (q * n + n) + d * n
          BY <1>0, <5>1
        <5> QED BY <1>0, <2>1, <5>2
      <4>2. y + i \in 1..x
        BY <1>0, <4>1, <2>1
      <4>3. t[(m + q * n) + i] = rows[q][i]
        BY <1>1, <3>2
      <4>4. v[y + i] = t[y + i]
        BY <2>5, <4>2
      <4>5. (m + q * n) + i = y + i
        BY <1>0, <4>1
      <4> QED BY ONLY <4>3, <4>4, <4>5
    <3>3. q = r \/ q < r
      BY <2>6
    <3> QED BY <3>1, <3>2, <3>3
  <2>7. Len(v) = m + (r + 1) * n
    BY <1>0, <2>1, <2>5
  <2>8. \A i \in 1..m : v[i] = s[i]
    <3> TAKE i \in 1..m
    <3>1. x >= m
      <4>1. r * n \in Nat
        BY <1>0
      <4> QED BY <1>0, <2>1, <4>1
    <3>2. i \in 1..x
      BY <1>0, <2>1, <3>1
    <3> QED BY <1>1, <2>5, <3>2
  <2> HIDE <1>1, <2>1, <2>2
  <2> QED BY <2>3, <2>4, <2>5, <2>6, <2>7, <2>8, Zenon
<1>2. Fits(s, 0)
  BY <1>0
<1> HIDE DEF Fits
<1> DEFINE c1 == s \o rows[0]
           c2 == c1 \o rows[1]
           c3 == c2 \o rows[2]
           c4 == c3 \o rows[3]
           c5 == c4 \o rows[4]
           c6 == c5 \o rows[5]
           c7 == c6 \o rows[6]
           c8 == c7 \o rows[7]
           c9 == c8 \o rows[8]
<1>3. Fits(c1, 1)
  <2>1. 0 \in 0..8 /\ 0 + 1 = 1
    OBVIOUS
  <2>2. Fits(s \o rows[0], 0 + 1)
    BY ONLY <1>1, <1>2, <2>1, Zenon
  <2> QED BY ONLY <2>1, <2>2
<1> HIDE DEF c1
<1>4. Fits(c2, 2)
  <2>1. 1 \in 0..8 /\ 1 + 1 = 2
    OBVIOUS
  <2>2. Fits(c1 \o rows[1], 1 + 1)
    BY ONLY <1>1, <1>3, <2>1, Zenon
  <2> QED BY ONLY <2>1, <2>2
<1> HIDE DEF c2
<1>5. Fits(c3, 3)
  <2>1. 2 \in 0..8 /\ 2 + 1 = 3
    OBVIOUS
  <2>2. Fits(c2 \o rows[2], 2 + 1)
    BY ONLY <1>1, <1>4, <2>1, Zenon
  <2> QED BY ONLY <2>1, <2>2
<1> HIDE DEF c3
<1>6. Fits(c4, 4)
  <2>1. 3 \in 0..8 /\ 3 + 1 = 4
    OBVIOUS
  <2>2. Fits(c3 \o rows[3], 3 + 1)
    BY ONLY <1>1, <1>5, <2>1, Zenon
  <2> QED BY ONLY <2>1, <2>2
<1> HIDE DEF c4
<1>7. Fits(c5, 5)
  <2>1. 4 \in 0..8 /\ 4 + 1 = 5
    OBVIOUS
  <2>2. Fits(c4 \o rows[4], 4 + 1)
    BY ONLY <1>1, <1>6, <2>1, Zenon
  <2> QED BY ONLY <2>1, <2>2
<1> HIDE DEF c5
<1>8. Fits(c6, 6)
  <2>1. 5 \in 0..8 /\ 5 + 1 = 6
    OBVIOUS
  <2>2. Fits(c5 \o rows[5], 5 + 1)
    BY ONLY <1>1, <1>7, <2>1, Zenon
  <2> QED BY ONLY <2>1, <2>2
<1> HIDE DEF c6
<1>9. Fits(c7, 7)
  <2>1. 6 \in 0..8 /\ 6 + 1 = 7
    OBVIOUS
  <2>2. Fits(c6 \o rows[6], 6 + 1)
    BY ONLY <1>1, <1>8, <2>1, Zenon
  <2> QED BY ONLY <2>1, <2>2
<1> HIDE DEF c7
<1>10. Fits(c8, 8)
  <2>1. 7 \in 0..8 /\ 7 + 1 = 8
    OBVIOUS
  <2>2. Fits(c7 \o rows[7], 7 + 1)
    BY ONLY <1>1, <1>9, <2>1, Zenon
  <2> QED BY ONLY <2>1, <2>2
<1> HIDE DEF c8
<1>11. Fits(c9, 9)
  <2>1. 8 \in 0..8 /\ 8 + 1 = 9
    OBVIOUS
  <2>2. Fits(c8 \o rows[8], 8 + 1)
    BY ONLY <1>1, <1>10, <2>1, Zenon
  <2> QED BY ONLY <2>1, <2>2
<1> HIDE DEF c9
<1>12. AllRows(s, rows) = c9
  BY DEF AllRows, c1, c2, c3, c4, c5, c6, c7, c8, c9
<1> QED BY <1>11, <1>12 DEF Fits, AreAllRows

\* Transparent mode: the settings, and nine rows in their order.
LEMMA TransparentAccesses ==
  ASSUME NEW b \in Nat
  PROVE  /\ TransparentMode(b) \in Seq(At(b)) /\ Len(TransparentMode(b)) = SettingsLen + 9 * RowLen
         /\ \A r \in 0..8 : \A i \in 1..RowLen :
              TransparentMode(b)[(SettingsLen + r * RowLen) + i] = PortRow(b, r, PortIds[r + 1])[i]
         /\ \A i \in 1..SettingsLen : TransparentMode(b)[i] = Settings(b)[i]
<1> DEFINE rows == [r \in 0..8 |-> PortRow(b, r, PortIds[r + 1])]
<1>1. \A r \in 0..8 : PortIds[r + 1] \in Nat
  BY DEF PortIds, IDPORT, IDFLOODING
<1>2. \A r \in 0..8 : PortRow(b, r, PortIds[r + 1]) \in Seq(At(b)) /\ Len(PortRow(b, r, PortIds[r + 1])) = RowLen
  <2> TAKE r \in 0..8
  <2>1. PICK id \in Nat : id = PortIds[r + 1]
    BY <1>1
  <2>2. PortRow(b, r, id) \in Seq(At(b)) /\ Len(PortRow(b, r, id)) = RowLen
    BY RowAccesses
  <2> QED BY <2>1, <2>2
<1>3. rows \in [0..8 -> Seq(At(b))] /\ \A r \in 0..8 : Len(rows[r]) = RowLen
  BY <1>2
<1>4. \A r \in 0..8 : rows[r] = PortRow(b, r, PortIds[r + 1])
  OBVIOUS
<1>5. TransparentMode(b) = AllRows(Settings(b), rows)
  <2>1. TransparentMode(b) = Settings(b) \o PortRow(b, 0, PortIds[1]) \o PortRow(b, 1, PortIds[2])
          \o PortRow(b, 2, PortIds[3]) \o PortRow(b, 3, PortIds[4]) \o PortRow(b, 4, PortIds[5])
          \o PortRow(b, 5, PortIds[6]) \o PortRow(b, 6, PortIds[7]) \o PortRow(b, 7, PortIds[8])
          \o PortRow(b, 8, PortIds[9])
    BY DEF TransparentMode, Settings
  <2>2. /\ rows[0] = PortRow(b, 0, PortIds[1]) /\ rows[1] = PortRow(b, 1, PortIds[2])
        /\ rows[2] = PortRow(b, 2, PortIds[3]) /\ rows[3] = PortRow(b, 3, PortIds[4])
        /\ rows[4] = PortRow(b, 4, PortIds[5]) /\ rows[5] = PortRow(b, 5, PortIds[6])
        /\ rows[6] = PortRow(b, 6, PortIds[7]) /\ rows[7] = PortRow(b, 7, PortIds[8])
        /\ rows[8] = PortRow(b, 8, PortIds[9])
    BY <1>4
  <2> QED BY <2>1, <2>2 DEF AllRows
<1>6. Settings(b) \in Seq(At(b)) /\ Len(Settings(b)) = SettingsLen /\ SettingsLen \in Nat /\ RowLen \in Nat
  BY SettingsAccesses, FirmwareAssumption DEF SettingsLen, RowLen
<1> HIDE DEF rows
<1>7. AreRows(At(b), Settings(b), SettingsLen, rows, RowLen)
  BY ONLY <1>3, <1>6 DEF AreRows
<1>8. AreAllRows(At(b), Settings(b), SettingsLen, rows, RowLen, TransparentMode(b))
  BY ONLY <1>5, <1>7, NineRows
<1>9. /\ TransparentMode(b) \in Seq(At(b)) /\ Len(TransparentMode(b)) = SettingsLen + 9 * RowLen
      /\ \A i \in 1..SettingsLen : TransparentMode(b)[i] = Settings(b)[i]
      /\ \A r \in 0..8 : \A i \in 1..RowLen : TransparentMode(b)[(SettingsLen + r * RowLen) + i] = rows[r][i]
  BY ONLY <1>8, Zenon DEF AreAllRows
<1>10. \A r \in 0..8 : \A i \in 1..RowLen :
         TransparentMode(b)[(SettingsLen + r * RowLen) + i] = PortRow(b, r, PortIds[r + 1])[i]
  <2> TAKE r \in 0..8
  <2> TAKE i \in 1..RowLen
  <2>1. TransparentMode(b)[(SettingsLen + r * RowLen) + i] = rows[r][i]
    BY <1>9
  <2>2. rows[r] = PortRow(b, r, PortIds[r + 1])
    BY <1>4
  <2> QED BY ONLY <2>1, <2>2
<1> QED BY ONLY <1>9, <1>10, Zenon

\* Rows are numbered one table after the other.
Rows == NumTables * HTRows
LEMMA RowNumbers ==
  /\ Rows \in Nat
  /\ \A n \in 1..Rows : /\ TableOf(n) \in 1..NumTables /\ RowOf(n) \in 1..HTRows
                        /\ n = ((TableOf(n) - 1) * HTRows) + RowOf(n)
<1>1. NumTables \in 1..4 /\ HTRows \in Nat
  BY FirmwareAssumption
<1>2. Rows \in Nat
  BY <1>1 DEF Rows
<1>3. ASSUME NEW n \in 1..Rows
      PROVE  /\ TableOf(n) \in 1..NumTables /\ RowOf(n) \in 1..HTRows
             /\ n = ((TableOf(n) - 1) * HTRows) + RowOf(n)
  <2>1. HTRows > 0
    BY <1>1, <1>3 DEF Rows
  <2>2. PICK q \in Int, k \in Int : q = (n - 1) \div HTRows /\ k = (n - 1) % HTRows
    BY <1>1, <1>2, <2>1
  <2>3. k \in 0..(HTRows - 1) /\ n - 1 = (q * HTRows) + k
    BY <1>1, <1>2, <2>1, <2>2
  <2>4. q >= 0
    <3> SUFFICES ASSUME q <= -1 PROVE FALSE
      BY <2>2
    <3>1. q * HTRows <= -HTRows
      BY <1>1, <2>1
    <3> QED BY <1>1, <2>3, <3>1
  <2>5. q < NumTables
    <3> SUFFICES ASSUME q >= NumTables PROVE FALSE
      BY <1>1, <2>2
    <3>1. q * HTRows >= Rows
      BY <1>1, <2>1 DEF Rows
    <3> QED BY <1>1, <1>2, <2>3, <3>1
  <2> QED BY <1>1, <2>2, <2>3, <2>4, <2>5 DEF TableOf, RowOf
<1> QED BY <1>2, <1>3

\* Accesses that leave what transparent mode sets up alone.
Calm == {o \in Harmless : o.op = "write" /\ o.base = 0 => o.name = "REGTEST0"}

LEMMA CountAccesses ==
  ASSUME NEW b \in Nat
  PROVE  /\ CountTables(b) \in Seq(RowReads) /\ Len(CountTables(b)) = Rows
         /\ \A n \in 1..Rows : CountTables(b)[n] = searchHT_hide(b, TableOf(n), RowOf(n))
         /\ PrintTables(b) = CountTables(b)
<1>1. \A n \in 1..Rows : searchHT_hide(b, TableOf(n), RowOf(n)) \in RowReads
  BY RowNumbers DEF searchHT_hide, RowReads
<1>2. CountTables(b) = [n \in 1..Rows |-> searchHT_hide(b, TableOf(n), RowOf(n))] /\ PrintTables(b) = CountTables(b)
  BY DEF CountTables, PrintTables, Rows, xil_searchHT
<1>3. Rows \in Nat
  BY RowNumbers
<1> QED BY ONLY <1>1, <1>2, <1>3

\* Every command but 3 and 4 makes accesses that do not write PAUSE; only
\* transparent mode at the first stage and 97 and 99 write a table of it.
LEMMA CommandAccesses ==
  ASSUME CommandType, NEW b \in 0..1, command.opcode \notin {3, 4}
  PROVE  /\ Command(command, b) \in Seq(Harmless)
         /\ command.opcode = 7 => Command(command, b) = TransparentMode(b)
         /\ ~(command.opcode = 7 /\ b = 0) /\ ~WritesByHand => Command(command, b) \in Seq(Calm)
<1>1. b \in Nat /\ 1 \in 1..Words /\ 0 \in 0..8 /\ At(b) \subseteq Harmless
  BY FirmwareAssumption DEF At
<1>2. /\ TransparentMode(b) \in Seq(Harmless)
      /\ b # 0 => TransparentMode(b) \in Seq(Calm)
  <2>1. TransparentMode(b) \in Seq(At(b))
    BY <1>1, TransparentAccesses
  <2>2. b # 0 => At(b) \subseteq Calm
    BY DEF At, Calm
  <2>3. ASSUME NEW S, NEW U, NEW s \in Seq(S), S \subseteq U PROVE s \in Seq(U)
    BY <2>3
  <2> QED BY <1>1, <2>1, <2>2, <2>3
<1>3. \A n \in Names : \A a \in Nat : regread(a, n) \in Calm
  BY ReadHarmless DEF At, Calm, regread
<1>4. {"RAM1", "RAM2", "RAM3", "RAM4", "ETH", "zero"} \subseteq Names /\ {a[2] : a \in Addresses} \subseteq Names
  BY DEF Names
<1>5. ScanRam(b) \in Seq(Calm) /\ ScanPorts \in Seq(Calm)
  <2>1. /\ regread(b, "RAM1") \in Calm /\ regread(b, "RAM2") \in Calm /\ regread(b, "RAM3") \in Calm
        /\ regread(b, "RAM4") \in Calm /\ regread(0, "ETH") \in Calm
    BY <1>1, <1>3, <1>4
  <2> QED BY <2>1 DEF ScanRam, ScanPorts
<1>6. /\ command.addr[1] \in Nat /\ command.addr[2] \in Names
      /\ command.addr[1] = 0 => command.addr[2] # "PAUSE"
  <2>1. CASE command.addr = << 0, "zero" >>
    BY <1>4, <2>1
  <2>2. CASE command.addr \in Addresses
    BY <1>4, <2>2, LinesAssumption
  <2>3. CASE command.addr = Elsewhere
    BY <2>3 DEF Elsewhere, Names
  <2> QED BY <2>1, <2>2, <2>3 DEF CommandType
<1> DEFINE o == regwrite(command.addr[1], command.addr[2], 0, 1, command.value)
<1>7. o \in Harmless /\ (command.opcode \in {97, 99} /\ ~WritesByHand => o \in Calm)
  BY <1>1, <1>6 DEF regwrite, Harmless, Writes, Calm, CommandType, WritesByHand
<1>8. regread(command.addr[1], command.addr[2]) \in Calm
  BY <1>3, <1>6
<1>9. Calm \subseteq Harmless
  BY DEF Calm
<1>10. /\ << o >> \in Seq(Harmless) /\ (command.opcode \in {97, 99} /\ ~WritesByHand => << o >> \in Seq(Calm))
       /\ << regread(command.addr[1], command.addr[2]) >> \in Seq(Calm) /\ << >> \in Seq(Calm)
  BY <1>7, <1>8
<1>11. \A s \in Seq(Calm) : s \in Seq(Harmless)
  BY <1>9
<1> HIDE DEF o
<1>12. CASE command.opcode = 7
  <2>1. Command(command, b) = TransparentMode(b)
    BY <1>12 DEF Command
  <2> QED BY <1>2, <1>12, <2>1
<1>13. CASE command.opcode \in {97, 99}
  <2>1. Command(command, b) = << o >>
    BY <1>13 DEF Command, o
  <2> QED BY <1>10, <1>13, <2>1
<1>14. CASE command.opcode \notin {7, 97, 99}
  <2>1. Command(command, b) \in {ScanRam(b), ScanPorts, << regread(command.addr[1], command.addr[2]) >>, << >>}
    BY <1>14 DEF Command
  <2>2. Command(command, b) \in Seq(Calm)
    BY <1>5, <1>10, <2>1
  <2> QED BY <1>11, <1>14, <2>2
<1> QED BY <1>12, <1>13, <1>14

\* The option of command 2 writes a register.
LEMMA OptionAccesses == ASSUME NEW n PROVE SendTo(n) \in Seq(Calm)
<1>1. 1 \in 1..Words /\ 0 \in 0..8 /\ "REGTEST0" \in Names \ {"PAUSE"} /\ "REGTEST0" \in CoreRegisters
  BY FirmwareAssumption DEF Names, CoreRegisters
<1> DEFINE choice == << \h100, IDPORT[1], IDPORT[2], IDPORT[3], IDPORT[4], IDFLOODING, 0 >>
<1>2. \A k \in 0..6 : choice[k + 1] \in Int
  BY DEF IDPORT, IDFLOODING
<1>3. SendTo(n) = IF n \in 0..6 THEN << regwrite(0, "REGTEST0", 0, 1, choice[n + 1]) >> ELSE << >>
  BY DEF SendTo
<1> HIDE DEF choice
<1>4. n \in 0..6 => regwrite(0, "REGTEST0", 0, 1, choice[n + 1]) \in Calm
  BY <1>1, <1>2, WriteHarmless DEF At, Calm, regwrite
<1> QED BY <1>3, <1>4

-----------------------------------------------------------------------------
(* A step of the firmware                                                  *)

\* What the variables may be, and what is still to be accessed.
TypesInv ==
  /\ core \in CoreType /\ pause \in 0..1 /\ ht \in TablesType
  /\ MsgType(msg) /\ CommandType
  /\ lines \in 0..MaxLines /\ stage \in 0..2 /\ base \in 0..1
  /\ pauseLost \in BOOLEAN /\ transparent \in BOOLEAN
  /\ pc \in {"getline", "pause", "usleep", "switch", "option", "body", "unpause", "exit"}

OpsInv ==
  /\ pc = "pause" => ops \in {Pauses, << Pause(1, 1) >>}
  /\ pc = "unpause" => ops \in {Unpauses, << Pause(1, 0) >>}
  /\ pc = "option" => command.opcode = 2
  /\ pc = "body" => IF command.opcode \in {3, 4} THEN ops \in Seq(RowReads)
                    ELSE ops \in Seq(Harmless) /\ (transparent => ops \in Seq(Calm))

LEMMA TwoPauses ==
  /\ Head(Pauses) = Pause(0, 1) /\ Tail(Pauses) = << Pause(1, 1) >> /\ Len(Pauses) = 2 /\ Pauses # << >>
  /\ Head(Unpauses) = Pause(0, 0) /\ Tail(Unpauses) = << Pause(1, 0) >> /\ Len(Unpauses) = 2 /\ Unpauses # << >>
  /\ \A x : Head(<< x >>) = x /\ Tail(<< x >>) = << >> /\ Len(<< x >>) = 1 /\ << x >> # << >>
<1>1. \A x, y : /\ Head(<< x, y >>) = x /\ Tail(<< x, y >>) = << y >>
                /\ Len(<< x, y >>) = 2 /\ << x, y >> # << >>
  OBVIOUS
<1> QED BY <1>1 DEF Pauses, Unpauses

\* PAUSE of the core modelled takes the value unless a packet is at startd(8).
LEMMA AccessPause ==
  ASSUME core \in CoreType, NEW b \in 0..1, NEW on \in 0..1, Access(Pause(b, on))
  PROVE  /\ core' \in CoreType /\ pause' = IF b = 0 /\ ~Lost THEN on ELSE pause
         /\ ht_counter' = ht_counter
<1> DEFINE o == Pause(b, on)
<1>1. o \in Writes /\ o.op = "write" /\ o.base = b /\ o.name = "PAUSE" /\ o.val = on
  BY FirmwareAssumption DEF Pause, regwrite, Writes, Names, CoreRegisters
<1> HIDE DEF o
<1>2. core' = (IF b = 0 THEN Effect(o) ELSE core) /\ ht_counter' = ht_counter
  BY <1>1 DEF Access, o
<1>3. Effect(o) \in CoreType /\ Effect(o).reg["PAUSE"] = IF ~Lost THEN on ELSE pause
  BY <1>1, EffectType
<1> QED BY <1>2, <1>3 DEF pause

LEMMA AccessHarmless ==
  ASSUME core \in CoreType, NEW o \in Harmless, Access(o)
  PROVE  core' \in CoreType /\ pause' = pause /\ ht_counter' = ht_counter
<1>1. core' = (IF o.op = "write" /\ o.base = 0 THEN Effect(o) ELSE core) /\ ht_counter' = ht_counter
  BY DEF Access, Harmless, Writes, Reads
<1>2. CASE o.op = "write" /\ o.base = 0
  <2>1. o \in Writes /\ o.name # "PAUSE"
    BY <1>2 DEF Harmless, Reads
  <2>2. Effect(o) \in CoreType /\ Effect(o).reg["PAUSE"] = pause
    BY <2>1, EffectType
  <2> QED BY <1>1, <1>2, <2>2 DEF pause
<1>3. CASE ~(o.op = "write" /\ o.base = 0)
  BY <1>1, <1>3 DEF pause
<1> QED BY <1>2, <1>3

LEMMA AccessRow ==
  ASSUME NEW o \in RowReads, Access(o)
  PROVE  /\ core' = core /\ pause' = pause
         /\ ht_counter' = IF o.base = 0 /\ o.row \in ht[o.name] THEN ht_counter + 1 ELSE ht_counter
  BY DEF Access, RowReads, pause

\* A row comes or goes only while the pipeline runs, or by a packet at startd(8).
LEMMA TablesStep ==
  ASSUME ht \in TablesType, TableUpdate
  PROVE  ht' \in TablesType /\ (pause # 0 /\ ~Lost => ht' = ht)
<1>1. CASE ht' = ht
  BY <1>1
<1>2. CASE ht' # ht
  <2>1. PICK t \in 1..NumTables, r \in 1..HTRows :
          /\ Lost \/ (pause = 0 /\ r \notin ht[t])
          /\ ht' = [ht EXCEPT ![t] = IF r \in @ THEN @ \ {r} ELSE @ \cup {r}]
    BY <1>2 DEF TableUpdate
  <2> QED BY <2>1 DEF TablesType
<1> QED BY <1>1, <1>2

LEMMA TypesStep ==
  ASSUME TypesInv, OpsInv, TableUpdate, Main \/ Idling
  PROVE  TypesInv' /\ OpsInv'
<1> USE DEF TypesInv
<1>1. ht' \in TablesType
  BY TablesStep
<1>2. ASSUME UNCHANGED << msg, command, lines, stage, base, pauseLost, transparent >>,
             core' \in CoreType, pause' \in 0..1,
             pc' \in {"getline", "pause", "usleep", "switch", "option", "body", "unpause", "exit"}
      PROVE  TypesInv'
  BY <1>1, <1>2 DEF CommandType, MsgType
<1>3. ASSUME core' = core PROVE core' \in CoreType /\ pause' = pause
  BY <1>3 DEF pause
<1>4. CASE GetLine
  <2>1. PICK l \in Lines : msg' = getline(l) /\ command' = rsscanf(msg')
    BY <1>4 DEF GetLine
  <2>2. MsgType(msg')
    BY <2>1, LineType
  <2>3. CommandType'
    BY <2>1, <2>2, ScanType DEF CommandType
  <2>4. lines' \in 0..MaxLines
    BY <1>4, FirmwareAssumption DEF GetLine
  <2>5. TypesInv'
    BY <1>1, <1>3, <1>4, <2>2, <2>3, <2>4 DEF GetLine, MsgType
  <2> QED BY <1>4, <2>5 DEF GetLine, OpsInv
<1>5. CASE WritePause
  <2>1. PICK b \in 0..1 : Head(ops) = Pause(b, 1) /\ Tail(ops) \in {<< >>, << Pause(1, 1) >>}
    <3>1. CASE ops = Pauses
      BY <3>1, TwoPauses
    <3>2. CASE ops = << Pause(1, 1) >>
      <4>1. Head(ops) = Pause(1, 1) /\ Tail(ops) = << >>
        BY <3>2, TwoPauses
      <4> QED BY <4>1
    <3> QED BY <1>5, <3>1, <3>2 DEF WritePause, OpsInv
  <2>2. core' \in CoreType /\ pause' \in 0..1
    BY <1>5, <2>1, AccessPause DEF WritePause
  <2>3. TypesInv'
    <3>1. pauseLost' \in BOOLEAN /\ pc' \in {"pause", "usleep"}
      BY <1>5 DEF WritePause
    <3>2. UNCHANGED << msg, command, lines, stage, base, transparent >>
      BY <1>5 DEF WritePause
    <3> QED BY <1>1, <2>2, <3>1, <3>2 DEF CommandType, MsgType
  <2>4. OpsInv'
    BY <1>5, <2>1 DEF WritePause, OpsInv
  <2> QED BY <2>3, <2>4
<1>6. CASE Usleep
  BY <1>2, <1>3, <1>6 DEF Usleep, OpsInv
<1>7. CASE Switch
  <2>1. core' = core /\ UNCHANGED << msg, command, lines, pauseLost >> /\ pc' \in {"option", "body"}
    BY <1>7 DEF Switch
  <2>2. stage' \in 0..2 /\ base' \in 0..1 /\ transparent' \in BOOLEAN
    BY <1>7 DEF Switch
  <2>3. TypesInv'
    BY <1>1, <1>3, <2>1, <2>2 DEF CommandType, MsgType
  <2>4. CASE command.opcode \in {3, 4}
    <3>1. ops' = CountTables(base) /\ pc' = "body"
      BY <1>7, <2>4, CountAccesses DEF Switch, Command
    <3>2. ops' \in Seq(RowReads)
      BY <3>1, CountAccesses
    <3> QED BY <2>1, <2>3, <2>4, <3>1, <3>2 DEF OpsInv
  <2>5. CASE command.opcode \notin {3, 4}
    <3>1. /\ Command(command, base) \in Seq(Harmless)
          /\ ~(command.opcode = 7 /\ base = 0) /\ ~WritesByHand => Command(command, base) \in Seq(Calm)
      BY <2>5, CommandAccesses
    <3>2. << >> \in Seq(Harmless) /\ << >> \in Seq(Calm)
      OBVIOUS
    <3>3. ops' \in Seq(Harmless) /\ (transparent' => ops' \in Seq(Calm))
      BY <1>7, <3>1, <3>2 DEF Switch
    <3>4. pc' = "option" => command.opcode = 2
      BY <1>7 DEF Switch
    <3> QED BY <2>1, <2>3, <2>5, <3>3, <3>4 DEF OpsInv
  <2> QED BY <2>4, <2>5
<1>8. CASE GetOption
  <2>1. PICK l \in Lines : msg' = getline(l) /\ ops' = SendTo(Decimal(msg'))
    BY <1>8 DEF GetOption
  <2>2. MsgType(msg')
    BY <2>1, LineType
  <2>3. lines' \in 0..MaxLines
    BY <1>8, FirmwareAssumption DEF GetOption
  <2>4. TypesInv'
    BY <1>1, <1>3, <1>8, <2>2, <2>3 DEF GetOption, CommandType, MsgType
  <2>5. ops' \in Seq(Calm)
    BY <2>1, OptionAccesses
  <2>6. ops' \in Seq(Harmless)
    <3>1. Calm \subseteq Harmless
      BY DEF Calm
    <3> QED BY <2>5, <3>1
  <2>7. command' = command /\ command.opcode = 2 /\ pc' = "body"
    BY <1>8 DEF GetOption, OpsInv
  <2> QED BY <2>4, <2>5, <2>6, <2>7 DEF OpsInv
<1>9. CASE Body
  <2>1. ops # << >> /\ Access(Head(ops)) /\ ops' = Tail(ops) /\ pc = "body" /\ pc' = "body"
    BY <1>9 DEF Body
  <2>2. UNCHANGED << msg, command, lines, stage, base, pauseLost, transparent >>
    BY <1>9 DEF Body
  <2>3. CASE command.opcode \in {3, 4}
    <3>1. Head(ops) \in RowReads /\ Tail(ops) \in Seq(RowReads)
      BY <2>1, <2>3 DEF OpsInv
    <3>2. core' = core
      BY <2>1, <3>1, AccessRow
    <3>3. TypesInv'
      BY <1>2, <1>3, <2>1, <2>2, <3>2
    <3> QED BY <2>1, <2>2, <2>3, <3>1, <3>3 DEF OpsInv
  <2>4. CASE command.opcode \notin {3, 4}
    <3>1. /\ Head(ops) \in Harmless /\ Tail(ops) \in Seq(Harmless)
          /\ transparent => Tail(ops) \in Seq(Calm)
      BY <2>1, <2>4 DEF OpsInv
    <3>2. core' \in CoreType /\ pause' = pause
      BY <2>1, <3>1, AccessHarmless
    <3>3. TypesInv'
      BY <1>2, <2>1, <2>2, <3>2
    <3> QED BY <2>1, <2>2, <2>4, <3>1, <3>3 DEF OpsInv
  <2> QED BY <2>3, <2>4
<1>10. CASE BodyDone
  <2>1. core' = core /\ UNCHANGED << msg, command, lines, stage, base, pauseLost >> /\ pc' = "unpause" /\ ops' = Unpauses
    BY <1>10 DEF BodyDone
  <2>2. transparent' \in BOOLEAN
    BY <1>10 DEF BodyDone
  <2>3. TypesInv'
    BY <1>1, <1>3, <2>1, <2>2 DEF CommandType, MsgType
  <2> QED BY <2>1, <2>3 DEF OpsInv
<1>11. CASE Unpause
  <2>1. PICK b \in 0..1 : Head(ops) = Pause(b, 0) /\ Tail(ops) \in {<< >>, << Pause(1, 0) >>}
    <3>1. CASE ops = Unpauses
      BY <3>1, TwoPauses
    <3>2. CASE ops = << Pause(1, 0) >>
      <4>1. Head(ops) = Pause(1, 0) /\ Tail(ops) = << >>
        BY <3>2, TwoPauses
      <4> QED BY <4>1
    <3> QED BY <1>11, <3>1, <3>2 DEF Unpause, OpsInv
  <2>2. core' \in CoreType /\ pause' \in 0..1
    BY <1>11, <2>1, AccessPause DEF Unpause
  <2>3. UNCHANGED << msg, command, lines, stage, base, pauseLost, transparent >> /\ pc' \in {"unpause", "exit", "getline"}
    BY <1>11 DEF Unpause
  <2>4. TypesInv'
    BY <1>2, <2>2, <2>3
  <2>5. OpsInv'
    BY <1>11, <2>1 DEF Unpause, OpsInv
  <2> QED BY <2>4, <2>5
<1>12. CASE Idling
  <2>1. core' = core /\ UNCHANGED << pc, msg, command, lines, stage, base, pauseLost, transparent, ops >>
    BY <1>12 DEF Idling, fw
  <2>2. TypesInv'
    BY <1>2, <1>3, <2>1
  <2> QED BY <1>12, <2>1, <2>2 DEF OpsInv, Idling
<1> QED BY <1>4, <1>5, <1>6, <1>7, <1>8, <1>9, <1>10, <1>11, <1>12 DEF Main

-----------------------------------------------------------------------------
(* The pause                                                               *)

\* The pipeline is empty, or held in PKT1.
Empty == start = None /\ \A s \in Stages : startd[s] = None
Held == Empty \/ curr_state = "PKT1"

\* Where the pause stands: written or lost, and what it finds in the pipeline.
PauseInv ==
  /\ pc \in {"getline", "exit"} => pause = 0 \/ Frozen
  /\ pc = "pause" => \/ ops = Pauses /\ ~pauseLost /\ (pause = 0 \/ Frozen)
                     \/ ops = << Pause(1, 1) >> /\ IF pauseLost THEN pause = 0 \/ Frozen ELSE pause = 1
  /\ pc = "usleep" => IF pauseLost THEN pause = 0 \/ Frozen ELSE pause = 1
  /\ pc \in {"switch", "option", "body"} => (pause = 0 \/ Held) /\ (~pauseLost => pause = 1)
  /\ pc = "unpause" => \/ ops = Unpauses /\ (pause = 0 \/ Held) /\ (~pauseLost => pause = 1)
                       \/ ops = << Pause(1, 0) >> /\ (pause = 0 \/ Frozen)

\* PAUSE takes cycles away from the state machine and adds none.
LEMMA CycleIsNext == ASSUME Cycle PROVE Next
  BY DEF Cycle, PausedCycle, Next

\* What is held stays held, and a frozen packet stays at startd(8).
LEMMA HeldStep ==
  ASSUME Cycle, pause # 0
  PROVE  (Held => Held') /\ (Frozen /\ pause' = pause => Frozen')
<1>1. PausedCycle
  BY DEF Cycle
<1>2. CASE Pkt1Stalled
  BY <1>2 DEF Pkt1Stalled, Held, Frozen, Lost
<1>3. CASE ~Pkt1Stalled
  <2>1. curr_state # "PKT1" /\ start' = None /\ Shift
    BY <1>1, <1>3 DEF PausedCycle, Idle, Pkt2, Wait5
  <2>2. Empty => Empty'
    BY <2>1 DEF Empty, Shift, Stages
  <2> QED BY <2>1, <2>2 DEF Held, Frozen
<1> QED BY <1>2, <1>3

\* What is held and not frozen meets no register write.
LEMMA HeldIsFrozen == ASSUME Held, Lost, pause # 0 PROVE Frozen
  BY DEF Held, Empty, Frozen, Lost, Stages, Updating

LEMMA PauseStep ==
  ASSUME TypesInv, OpsInv, PauseInv, Cycle, Main \/ Idling
  PROVE  PauseInv'
<1>1. pause \in 0..1 /\ core \in CoreType
  BY DEF TypesInv
<1>2. core' = core => pause' = pause
  BY DEF pause
<1>3. /\ pause = 0 /\ pause' = pause => pause' = 0
      /\ (pause = 0 \/ Frozen) /\ pause' = pause => pause' = 0 \/ Frozen'
      /\ (pause = 0 \/ Held) /\ pause' = pause => pause' = 0 \/ Held'
  BY HeldStep
<1>4. CASE GetLine
  BY <1>2, <1>3, <1>4 DEF GetLine, PauseInv
<1>5. CASE WritePause
  <2>1. CASE ops = Pauses /\ ~pauseLost /\ (pause = 0 \/ Frozen)
    <3>1. Head(ops) = Pause(0, 1) /\ ops' = << Pause(1, 1) >> /\ Pause(0, 1).base = 0
      BY <1>5, <2>1, TwoPauses DEF WritePause, Pause, regwrite
    <3>2. pause' = IF ~Lost THEN 1 ELSE pause
      BY <1>1, <1>5, <3>1, AccessPause DEF WritePause
    <3>3. (pauseLost' <=> Lost) /\ pc' = "pause"
      <4>1. ops' # << >>
        BY <3>1, TwoPauses
      <4>2. pauseLost' = (pauseLost \/ (Head(ops).base = 0 /\ Lost)) /\ pc' = IF ops' = << >> THEN "usleep" ELSE "pause"
        BY <1>5 DEF WritePause
      <4> QED BY <2>1, <3>1, <4>1, <4>2
    <3> QED BY <1>3, <2>1, <3>1, <3>2, <3>3 DEF PauseInv
  <2>2. CASE ops = << Pause(1, 1) >> /\ IF pauseLost THEN pause = 0 \/ Frozen ELSE pause = 1
    <3>1. Head(ops) = Pause(1, 1) /\ ops' = << >> /\ Pause(1, 1).base = 1
      BY <1>5, <2>2, TwoPauses DEF WritePause, Pause, regwrite
    <3>2. pause' = pause
      BY <1>1, <1>5, <3>1, AccessPause DEF WritePause
    <3>3. pauseLost' = pauseLost /\ pc' = "usleep"
      BY <1>5, <2>2, <3>1 DEF WritePause, TypesInv
    <3> QED BY <1>3, <2>2, <3>2, <3>3 DEF PauseInv
  <2> QED BY <1>5, <2>1, <2>2 DEF WritePause, PauseInv
<1>6. CASE Usleep
  <2>1. pause' = pause /\ pauseLost' = pauseLost /\ pc = "usleep" /\ pc' = "switch"
    BY <1>2, <1>6 DEF Usleep
  <2>2. pause = 0 \/ Held
    BY <1>6 DEF Usleep, Held, Empty
  <2> QED BY <1>1, <1>3, <2>1, <2>2 DEF PauseInv, Frozen
<1>7. CASE Switch \/ GetOption
  BY <1>2, <1>3, <1>7 DEF Switch, GetOption, PauseInv
<1>8. CASE Body
  <2>1. pause' = pause
    <3>1. Access(Head(ops)) /\ ops # << >> /\ pc = "body"
      BY <1>8 DEF Body
    <3>2. CASE command.opcode \in {3, 4}
      <4>1. Head(ops) \in RowReads
        BY <3>1, <3>2 DEF OpsInv
      <4> QED BY <3>1, <4>1, AccessRow
    <3>3. CASE command.opcode \notin {3, 4}
      <4>1. Head(ops) \in Harmless
        BY <3>1, <3>3 DEF OpsInv
      <4> QED BY <1>1, <3>1, <4>1, AccessHarmless
    <3> QED BY <3>2, <3>3
  <2> QED BY <1>3, <1>8, <2>1 DEF Body, PauseInv
<1>9. CASE BodyDone
  BY <1>2, <1>3, <1>9 DEF BodyDone, PauseInv
<1>10. CASE Unpause
  <2>1. CASE ops = Unpauses /\ (pause = 0 \/ Held)
    <3>1. Head(ops) = Pause(0, 0) /\ ops' = << Pause(1, 0) >>
      BY <1>10, <2>1, TwoPauses DEF Unpause
    <3>2. pause' = IF ~Lost THEN 0 ELSE pause
      BY <1>1, <1>10, <3>1, AccessPause DEF Unpause
    <3>3. pc' = "unpause"
      BY <1>10, <3>1, TwoPauses DEF Unpause
    <3>4. pause = 0 \/ Frozen \/ ~Lost
      BY <2>1, HeldIsFrozen
    <3> QED BY <1>3, <3>1, <3>2, <3>3, <3>4 DEF PauseInv
  <2>2. CASE ops = << Pause(1, 0) >> /\ (pause = 0 \/ Frozen)
    <3>1. Head(ops) = Pause(1, 0) /\ ops' = << >>
      BY <1>10, <2>2, TwoPauses DEF Unpause
    <3>2. pause' = pause
      BY <1>1, <1>10, <3>1, AccessPause DEF Unpause
    <3>3. pc' \in {"getline", "exit"}
      BY <1>10, <3>1 DEF Unpause
    <3> QED BY <1>3, <2>2, <3>2, <3>3 DEF PauseInv
  <2> QED BY <1>10, <2>1, <2>2 DEF Unpause, PauseInv
<1>11. CASE Idling
  <2>1. UNCHANGED << pc, ops, pauseLost >> /\ pause' = pause
    BY <1>2, <1>11 DEF Idling, fw
  <2> QED BY <1>1, <1>3, <2>1 DEF PauseInv
<1> QED BY <1>4, <1>5, <1>6, <1>7, <1>8, <1>9, <1>10, <1>11 DEF Main

-----------------------------------------------------------------------------
(* Lines of the loader                                                     *)

\* A line of the loader is scanned up to its end, unless a hex digit is behind it.
LEMMA FullLine ==
  ASSUME NEW l \in Lines, Len(l) = LoaderLen, NEW m, m = getline(l), ~IsHex(m[MsgLen])
  PROVE  rsscanf(m) = [opcode |-> 10 * l[1][2] + l[2][2], addr |-> l[3][2], value |-> l[4][2]]
<1>1. /\ \A k \in 1..4 : l[k] \in Symbols(k)
  BY LinesAssumption DEF LoaderLen
<1>2. \A i \in 1..4 : m[i] = l[i]
  <2>1. l = [k \in 1..Len(l) |-> l[k]]
    BY LinesAssumption
  <2>2. DOMAIN l = 1..4
    BY <2>1 DEF LoaderLen
  <2> QED BY <2>2 DEF getline, MsgLen
<1>3. /\ m[1][1] = "digit" /\ m[1][2] \in 0..9 /\ m[2][1] = "digit" /\ m[2][2] \in 0..9
      /\ m[3][1] = "arg" /\ m[4][1] = "arg"
  BY <1>1, <1>2 DEF Symbols, Digit, Arg
<1>4. Digits(m) = 2
  <2>1. /\ Digits(m) \in 0..5 /\ \A i \in 1..Digits(m) : m[i][1] = "digit"
        /\ Digits(m) < 5 => m[Digits(m) + 1][1] # "digit"
    BY DigitsOf
  <2>2. Digits(m) # 0 /\ Digits(m) # 1
    BY <1>3, <2>1
  <2>3. Digits(m) <= 2
    BY <1>3, <2>1
  <2> QED BY <2>1, <2>2, <2>3
<1>5. Decimal(m) = 10 * m[1][2] + m[2][2]
  <2> DEFINE weights == << 1, 10, 100, 1000, 10000 >>
             Value(i) == IF i <= Digits(m) THEN m[i][2] * weights[(Digits(m) - i) + 1] ELSE 0
  <2>1. weights[1] = 1 /\ weights[2] = 10
    OBVIOUS
  <2> HIDE DEF weights
  <2>2. Value(1) = 10 * m[1][2] /\ Value(2) = m[2][2] /\ Value(3) = 0 /\ Value(4) = 0 /\ Value(5) = 0
    BY <1>3, <1>4, <2>1
  <2>3. Decimal(m) = Value(1) + Value(2) + Value(3) + Value(4) + Value(5)
    BY DEF Decimal, weights
  <2>4. PICK a \in Int, b \in Int : a = m[1][2] /\ b = m[2][2]
    BY <1>3
  <2> HIDE DEF Value
  <2>5. Value(1) = 10 * a /\ Value(2) = b
    BY <2>2, <2>4
  <2>6. Decimal(m) = 10 * a + b
    BY ONLY <2>2, <2>3, <2>5, a \in Int, b \in Int
  <2> QED BY <2>4, <2>6
<1>6. ~IsHex(m[4]) /\ ~IsHex(m[5])
  BY <1>3 DEF IsHex, MsgLen
<1> QED BY <1>2, <1>3, <1>4, <1>5, <1>6 DEF rsscanf, MsgLen

LEMMA LineStep ==
  ASSUME OpsInv, LoaderLinesObeyed, Main \/ Idling
  PROVE  LoaderLinesObeyed'
<1>1. CASE GetLine
  <2>1. PICK l \in Lines : msg' = getline(l) /\ line' = l /\ command' = rsscanf(msg')
    BY <1>1 DEF GetLine
  <2>2. Len(l) = LoaderLen /\ ~IsHex(msg'[MsgLen]) =>
          command' = [opcode |-> 10 * l[1][2] + l[2][2], addr |-> l[3][2], value |-> l[4][2]]
    BY <2>1, FullLine
  <2> QED BY <2>1, <2>2 DEF LoaderLinesObeyed
<1>2. CASE GetOption
  BY <1>2 DEF GetOption, OpsInv, LoaderLinesObeyed
<1>3. CASE ~GetLine /\ ~GetOption
  <2>1. UNCHANGED << line, command, msg >>
    BY <1>3 DEF Main, Idling, fw, WritePause, Usleep, Switch, Body, BodyDone, Unpause
  <2>2. pc' \notin {"getline", "option"} => pc \notin {"getline", "option"} \/ pc' = pc
    BY <1>3 DEF Main, Idling, fw, WritePause, Usleep, Switch, Body, BodyDone, Unpause
  <2> QED BY <2>1, <2>2 DEF LoaderLinesObeyed
<1> QED BY <1>1, <1>2, <1>3

-----------------------------------------------------------------------------
(* The initial state                                                       *)

LEMMA FirmwareInit == ASSUME FWInit PROVE IInv /\ TypesInv /\ OpsInv /\ PauseInv /\ LoaderLinesObeyed
<1>1. IInv
  BY InitInv DEF FWInit
<1>2. core \in CoreType /\ pause = 0
  <2>1. << >> \in RowsOf([key : WordsOf, mask : WordsOf]) /\ << >> \in RowsOf(Int)
    <3>1. ASSUME NEW S PROVE << >> \in [{} -> S]
      OBVIOUS
    <3>2. {} \in SUBSET (0..8)
      OBVIOUS
    <3> QED BY <3>1, <3>2 DEF RowsOf
  <2>2. core = CoreInit
    BY DEF FWInit
  <2> QED BY <2>1, <2>2, PauseIsRegister DEF CoreInit, CoreType, WordsOf, pause
<1>3. ht \in TablesType
  BY DEF FWInit, TablesType
<1>4. MsgType(msg)
  <2>1. PICK x \in Leftover : msg = [i \in 1..MsgLen |-> x]
    BY DEF FWInit
  <2>2. x[1] # "arg" /\ (IsHex(x) => x[2] \in Int) /\ \A i \in 1..MsgLen : msg[i] = x
    BY <2>1, LinesAssumption
  <2> QED BY <2>2 DEF MsgType, MsgLen
<1>5. TypesInv
  <2>1. CommandType
    BY DEF FWInit, CommandType
  <2>2. lines \in 0..MaxLines /\ stage \in 0..2 /\ base \in 0..1
    BY FirmwareAssumption DEF FWInit
  <2>3. pauseLost \in BOOLEAN /\ transparent \in BOOLEAN
    BY DEF FWInit
  <2>4. pause \in 0..1 /\ pc \in {"getline", "pause", "usleep", "switch", "option", "body", "unpause", "exit"}
    BY <1>2 DEF FWInit
  <2> QED BY ONLY <1>2, <1>3, <1>4, <2>1, <2>2, <2>3, <2>4 DEF TypesInv
<1> QED BY <1>1, <1>2, <1>5 DEF FWInit, OpsInv, PauseInv, LoaderLinesObeyed

-----------------------------------------------------------------------------
(* Counting                                                                *)

\* The rows among the first k that hold an entry.
Entries(h, k) == {n \in 1..k : RowOf(n) \in h[TableOf(n)]}

LEMMA EntriesStep ==
  ASSUME NEW h, NEW k \in Nat
  PROVE  /\ Cardinality(Entries(h, 0)) = 0
         /\ IsFiniteSet(Entries(h, k)) /\ Cardinality(Entries(h, k)) \in Nat
         /\ Cardinality(Entries(h, k + 1)) = IF RowOf(k + 1) \in h[TableOf(k + 1)]
                                             THEN Cardinality(Entries(h, k)) + 1 ELSE Cardinality(Entries(h, k))
<1>1. Entries(h, 0) = {}
  BY DEF Entries
<1>2. IsFiniteSet(Entries(h, k))
  <2>1. IsFiniteSet(1..k)
    BY FS_Interval
  <2>2. Entries(h, k) \subseteq 1..k
    BY DEF Entries
  <2> QED BY <2>1, <2>2, FS_Subset
<1>3. CASE RowOf(k + 1) \in h[TableOf(k + 1)]
  <2>1. Entries(h, k + 1) = Entries(h, k) \cup {k + 1} /\ k + 1 \notin Entries(h, k)
    BY <1>3 DEF Entries
  <2>2. Cardinality(Entries(h, k) \cup {k + 1}) = Cardinality(Entries(h, k)) + 1
    BY <1>2, <2>1, FS_AddElement
  <2> QED BY <1>1, <1>2, <1>3, <2>1, <2>2, FS_EmptySet, FS_CardinalityType
<1>4. CASE RowOf(k + 1) \notin h[TableOf(k + 1)]
  <2>1. Entries(h, k + 1) = Entries(h, k)
    BY <1>4 DEF Entries
  <2> QED BY <1>1, <1>2, <1>4, <2>1, FS_EmptySet, FS_CardinalityType
<1> QED BY <1>3, <1>4

\* The rows have numbers, and each its own.
LEMMA EntriesAreRows ==
  ASSUME NEW h \in TablesType
  PROVE  Cardinality(Entries(h, Rows)) = Cardinality(UNION {{t} \X h[t] : t \in 1..NumTables})
<1> DEFINE E == Entries(h, Rows)
           F == UNION {{t} \X h[t] : t \in 1..NumTables}
           f == [n \in E |-> << TableOf(n), RowOf(n) >>]
<1>1. NumTables \in Nat /\ HTRows \in Nat /\ Rows \in Nat
  BY FirmwareAssumption, RowNumbers
<1>2. \A n \in E : /\ TableOf(n) \in 1..NumTables /\ RowOf(n) \in 1..HTRows /\ RowOf(n) \in h[TableOf(n)]
                   /\ n = ((TableOf(n) - 1) * HTRows) + RowOf(n)
  BY RowNumbers DEF Entries
<1>3. f \in [E -> F]
  BY <1>2
<1>4. \A m, n \in E : f[m] = f[n] => m = n
  BY <1>2
<1>5. ASSUME NEW y \in F PROVE \E n \in E : f[n] = y
  <2>1. PICK t \in 1..NumTables : \E r \in h[t] : y = << t, r >>
    OBVIOUS
  <2>0. PICK r \in h[t] : y = << t, r >>
    BY <2>1
  <2>2. r \in 1..HTRows
    BY DEF TablesType
  <2> DEFINE n == ((t - 1) * HTRows) + r
  <2>3. n \in 1..Rows
    <3>1. (t - 1) * HTRows \in Nat
      BY <1>1
    <3>2. ((t - 1) * HTRows) + HTRows <= Rows
      <4>1. PICK d \in Nat : NumTables = t + d
        <5>1. NumTables - t \in Nat /\ NumTables = t + (NumTables - t)
          BY <1>1
        <5> QED BY <5>1
      <4>2. d * HTRows \in Nat /\ Rows = (t * HTRows) + (d * HTRows)
        BY <1>1, <4>1 DEF Rows
      <4>3. ((t - 1) * HTRows) + HTRows = t * HTRows
        BY <1>1
      <4> QED BY <1>1, <4>2, <4>3
    <3> QED BY <1>1, <2>2, <3>1, <3>2
  <2>4. TableOf(n) = t /\ RowOf(n) = r
    <3>1. n - 1 = ((t - 1) * HTRows) + (r - 1) /\ r - 1 \in 0..(HTRows - 1)
      BY <1>1, <2>2
    <3>2. (n - 1) \div HTRows = t - 1 /\ (n - 1) % HTRows = r - 1
      BY <1>1, <2>2, <2>3, <3>1
    <3> QED BY <1>1, <2>2, <3>2 DEF TableOf, RowOf
  <2> QED BY <2>0, <2>3, <2>4 DEF Entries
<1>6. IsFiniteSet(E)
  BY <1>1, EntriesStep
<1> HIDE DEF E, F, f
<1>7. f \in Bijection(E, F)
  <2>1. \A y \in F : \E n \in E : f[n] = y
    BY <1>5
  <2> QED BY ONLY <1>3, <1>4, <2>1, Fun_IsBij
<1>8. ExistsBijection(E, F)
  BY <1>7 DEF ExistsBijection
<1>9. Cardinality(F) = Cardinality(E)
  BY <1>6, <1>8, FS_Bijection
<1> QED BY <1>9 DEF E, F

\* The rows that are still to be read, and what has been counted of the others.
CountInv ==
  /\ ht_counter \in 0..Rows
  /\ pc \in {"pause", "usleep", "switch", "option"} => ht_counter = 0
  /\ pc = "body" /\ command.opcode \in {3, 4} =>
       \E k \in 0..Rows :
         /\ Len(ops) = Rows - k
         /\ \A n \in 1..(Rows - k) : ops[n] = searchHT_hide(base, TableOf(k + n), RowOf(k + n))
         /\ ht_counter <= k
         /\ base = 0 /\ ~pauseLost /\ ~Frozen => ht_counter = Cardinality(Entries(ht, k))
  /\ pc = "unpause" /\ Len(ops) = 2 /\ command.opcode \in {3, 4} /\ base = 0 /\ ~pauseLost /\ ~Frozen =>
       ht_counter = Cardinality(Entries(ht, Rows))

\* While the tables are paused, and no packet is frozen, they stay as they are.
LEMMA TablesKept ==
  ASSUME TypesInv, TableUpdate, Cycle, Held, pause = 1, pause' = pause, ~Frozen'
  PROVE  ht' = ht /\ ~Frozen
<1>1. ~Frozen
  BY HeldStep
<1>2. ~Lost
  BY <1>1, HeldIsFrozen
<1> QED BY <1>1, <1>2, TablesStep DEF TypesInv

LEMMA CountStep ==
  ASSUME TypesInv, OpsInv, PauseInv, CountInv, Cycle, TableUpdate, Main \/ Idling
  PROVE  CountInv'
<1>0. Rows \in Nat /\ core \in CoreType
  BY RowNumbers DEF TypesInv
<1>1. CASE GetLine
  BY <1>1, <1>0 DEF GetLine, CountInv
<1>2. CASE WritePause
  <2>1. PICK b \in 0..1 : Head(ops) = Pause(b, 1)
    <3>1. CASE ops = Pauses
      BY <3>1, TwoPauses
    <3>2. CASE ops = << Pause(1, 1) >>
      <4>1. Head(ops) = Pause(1, 1)
        BY <3>2, TwoPauses
      <4> QED BY <4>1
    <3> QED BY <1>2, <3>1, <3>2 DEF WritePause, OpsInv
  <2>2. ht_counter' = ht_counter
    BY <1>0, <1>2, <2>1, AccessPause DEF WritePause
  <2> QED BY <1>2, <2>2 DEF WritePause, CountInv
<1>3. CASE Usleep
  BY <1>3 DEF Usleep, CountInv
<1>4. CASE Switch
  <2>1. ht_counter' = 0 /\ pc' \in {"option", "body"} /\ command' = command
    BY <1>4 DEF Switch, CountInv
  <2>2. CASE command.opcode \notin {3, 4}
    BY <1>0, <2>1, <2>2 DEF CountInv
  <2>3. CASE command.opcode \in {3, 4}
    <3>1. ops' = CountTables(base) /\ base' = base
      BY <1>4, <2>3, CountAccesses DEF Switch, Command, TypesInv
    <3>2. base \in Nat
      BY DEF TypesInv
    <3>3. /\ Len(ops') = Rows - 0
          /\ \A n \in 1..(Rows - 0) : ops'[n] = searchHT_hide(base', TableOf(0 + n), RowOf(0 + n))
      BY <1>0, <3>1, <3>2, CountAccesses
    <3>4. Cardinality(Entries(ht', 0)) = 0
      BY EntriesStep
    <3>5. 0 \in 0..Rows
      BY <1>0
    <3> QED BY <2>1, <3>3, <3>4, <3>5 DEF CountInv
  <2> QED BY <2>2, <2>3
<1>5. CASE GetOption
  BY <1>5 DEF GetOption, CountInv, OpsInv
<1>6. CASE Body
  <2>1. Access(Head(ops)) /\ ops # << >> /\ ops' = Tail(ops) /\ pc = "body" /\ pc' = "body"
        /\ UNCHANGED << command, base, pauseLost >>
    BY <1>6 DEF Body
  <2>2. CASE command.opcode \notin {3, 4}
    <3>1. Head(ops) \in Harmless
      BY <2>1, <2>2 DEF OpsInv
    <3>2. ht_counter' = ht_counter
      BY <1>0, <2>1, <3>1, AccessHarmless
    <3> QED BY <2>1, <2>2, <3>2 DEF CountInv
  <2>3. CASE command.opcode \in {3, 4}
    <3>1. ops \in Seq(RowReads)
      BY <2>1, <2>3 DEF OpsInv
    <3>2. PICK k \in 0..Rows :
            /\ Len(ops) = Rows - k
            /\ \A n \in 1..(Rows - k) : ops[n] = searchHT_hide(base, TableOf(k + n), RowOf(k + n))
            /\ ht_counter <= k
            /\ base = 0 /\ ~pauseLost /\ ~Frozen => ht_counter = Cardinality(Entries(ht, k))
      BY <2>1, <2>3 DEF CountInv
    <3>3. k < Rows /\ k + 1 \in 0..Rows
      BY <1>0, <2>1, <3>1, <3>2
    <3>4. Head(ops) = searchHT_hide(base, TableOf(k + 1), RowOf(k + 1)) /\ Head(ops) \in RowReads
      <4>1. Head(ops) = ops[1] /\ Head(ops) \in RowReads
        BY <2>1, <3>1
      <4>2. 1 \in 1..(Rows - k)
        BY <1>0, <3>3
      <4> QED BY <3>2, <4>1, <4>2
    <3>5. ht_counter' = IF base = 0 /\ RowOf(k + 1) \in ht[TableOf(k + 1)] THEN ht_counter + 1 ELSE ht_counter
      BY <2>1, <3>4, AccessRow DEF searchHT_hide
    <3>6. /\ Len(ops') = Rows - (k + 1)
          /\ \A n \in 1..(Rows - (k + 1)) : ops'[n] = searchHT_hide(base', TableOf((k + 1) + n), RowOf((k + 1) + n))
      <4>1. Len(ops') = Len(ops) - 1 /\ \A n \in 1..(Len(ops) - 1) : ops'[n] = ops[n + 1]
        BY <2>1, <3>1
      <4>2. ASSUME NEW n \in 1..(Rows - (k + 1))
            PROVE ops'[n] = searchHT_hide(base', TableOf((k + 1) + n), RowOf((k + 1) + n))
        <5>1. n \in 1..(Len(ops) - 1) /\ n + 1 \in 1..(Rows - k) /\ k + (n + 1) = (k + 1) + n
          BY <1>0, <3>2, <3>3
        <5>2. ops'[n] = ops[n + 1]
          BY <4>1, <5>1
        <5>3. ops[n + 1] = searchHT_hide(base, TableOf(k + (n + 1)), RowOf(k + (n + 1)))
          BY <3>2, <5>1
        <5> QED BY <2>1, <5>1, <5>2, <5>3
      <4> QED BY <1>0, <3>2, <3>3, <4>1, <4>2
    <3>7. ht_counter' <= k + 1 /\ ht_counter' \in 0..Rows
      BY <1>0, <3>2, <3>3, <3>5 DEF CountInv
    <3>8. base' = 0 /\ ~pauseLost' /\ ~Frozen' => ht_counter' = Cardinality(Entries(ht', k + 1))
      <4> SUFFICES ASSUME base = 0, ~pauseLost, ~Frozen' PROVE ht_counter' = Cardinality(Entries(ht', k + 1))
        BY <2>1
      <4>0. pause = 1 /\ Held /\ pause' = pause
        BY <2>1, <3>4, AccessRow DEF PauseInv
      <4>1. ht' = ht /\ ~Frozen
        BY <4>0, TablesKept
      <4>2. k \in Nat
        BY <1>0
      <4>3. Cardinality(Entries(ht, k + 1)) = IF RowOf(k + 1) \in ht[TableOf(k + 1)]
              THEN Cardinality(Entries(ht, k)) + 1 ELSE Cardinality(Entries(ht, k))
        BY <4>2, EntriesStep
      <4> QED BY <3>2, <3>5, <4>1, <4>3
    <3> QED BY <2>1, <3>3, <3>6, <3>7, <3>8 DEF CountInv
  <2> QED BY <2>2, <2>3
<1>7. CASE BodyDone
  <2>1. /\ pc = "body" /\ ops = << >> /\ pc' = "unpause" /\ ops' = Unpauses
        /\ UNCHANGED << command, base, ht_counter, pauseLost >>
    BY <1>7 DEF BodyDone
  <2>2. ASSUME command.opcode \in {3, 4}, base = 0, ~pauseLost, ~Frozen'
        PROVE ht_counter = Cardinality(Entries(ht', Rows))
    <3>0. pause = 1 /\ Held /\ pause' = pause
      BY <1>7, <2>1, <2>2 DEF PauseInv, BodyDone, pause
    <3>3. ht' = ht /\ ~Frozen
      BY <2>2, <3>0, TablesKept
    <3>1. PICK k \in 0..Rows : Len(ops) = Rows - k /\ ht_counter = Cardinality(Entries(ht, k))
      BY <2>1, <2>2, <3>3 DEF CountInv
    <3>2. k = Rows
      BY <1>0, <2>1, <3>1
    <3> QED BY <3>1, <3>2, <3>3
  <2> QED BY <2>1, <2>2 DEF CountInv
<1>8. CASE Unpause
  <2>1. ops' = Tail(ops) /\ ops' \in {<< >>, << Pause(1, 0) >>} /\ \E b \in 0..1 : Head(ops) = Pause(b, 0)
    <3>1. CASE ops = Unpauses
      BY <1>8, <3>1, TwoPauses DEF Unpause
    <3>2. CASE ops = << Pause(1, 0) >>
      <4>1. Head(ops) = Pause(1, 0) /\ Tail(ops) = << >>
        BY <3>2, TwoPauses
      <4> QED BY <1>8, <4>1 DEF Unpause
    <3> QED BY <1>8, <3>1, <3>2 DEF Unpause, OpsInv
  <2>2. ht_counter' = ht_counter
    BY <1>0, <1>8, <2>1, AccessPause DEF Unpause
  <2>3. Len(ops') # 2
    <3>1. Len(<< >>) = 0 /\ Len(<< Pause(1, 0) >>) = 1
      OBVIOUS
    <3>2. CASE ops' = << >>
      BY ONLY <3>1, <3>2
    <3>3. CASE ops' = << Pause(1, 0) >>
      <4>1. Len(ops') = 1
        BY ONLY <3>1, <3>3, Zenon
      <4> QED BY ONLY <4>1
    <3> QED BY <2>1, <3>2, <3>3
  <2> QED BY <1>8, <2>2, <2>3 DEF Unpause, CountInv
<1>9. CASE Idling
  <2>1. UNCHANGED << pc, ops, command, base, ht_counter, pauseLost >> /\ pc \notin {"switch", "body"}
    BY <1>9 DEF Idling, fw
  <2>2. ASSUME pc = "unpause", Len(ops) = 2, ~pauseLost, ~Frozen' PROVE ht' = ht /\ ~Frozen
    <3>1. ops # << Pause(1, 0) >>
      BY <2>2, TwoPauses
    <3>2. pause = 1 /\ Held /\ pause' = pause
      BY <1>9, <2>2, <3>1 DEF PauseInv, Idling, pause
    <3> QED BY <2>2, <3>2, TablesKept
  <2> QED BY <2>1, <2>2 DEF CountInv
<1> QED BY <1>1, <1>2, <1>3, <1>4, <1>5, <1>6, <1>7, <1>8, <1>9 DEF Main

-----------------------------------------------------------------------------
(* Transparent mode                                                        *)

\* What access i of a row does to the words that tell ports apart, to the CAM and
\* to the RAM of actions.
RowEffect(r, id, i, c) ==
  /\ c.data[2] = IF i = 2 THEN id ELSE core.data[2]
  /\ c.mask[2] = IF i = Words + 2 THEN -256 ELSE core.mask[2]
  /\ c.cam = IF i = 2 * Words THEN Put(core.cam, r, [key |-> core.data, mask |-> core.mask]) ELSE core.cam
  /\ c.ram3 = IF i = 2 * Words + 2 THEN Put(core.ram3, r, Forward(id) + HT_REMOVE) ELSE core.ram3
  /\ c.reg = core.reg

LEMMA PortEffect ==
  ASSUME core \in CoreType, ~Lost, NEW r \in 0..8, NEW id \in Nat, NEW i \in 1..RowLen,
         NEW o, o = PortRow(0, r, id)[i]
  PROVE  o.op = "write" /\ o.base = 0 /\ RowEffect(r, id, i, Effect(o))
<1>0. PICK c : c = Effect(o)
  OBVIOUS
<1>1. Words \in Nat /\ Words >= 3 /\ 0 \in Nat
  BY FirmwareAssumption
<1>2. /\ \A j \in 1..Words :
              /\ PortRow(0, r, id)[j] = RowWords(0, "TCAM2", r, << 255, id >>)[j]
              /\ PortRow(0, r, id)[Words + j] = RowWords(0, "TCAM2_MASK", r, << -1, -256 >>)[j]
      /\ PortRow(0, r, id)[2 * Words + 1] = regwrite(0, "RAM2", r, 1, 10)
      /\ PortRow(0, r, id)[2 * Words + 2] = regwrite(0, "RAM3", r, 1, Forward(id) + HT_REMOVE)
      /\ PortRow(0, r, id)[2 * Words + 3] = regwrite(0, "RAM4", r, 1, 0)
  <2>1. InOrder(0, r, id)
    BY <1>1, RowAccesses
  <2> QED BY ONLY <2>1 DEF InOrder
<1>3. core.data \in WordsOf /\ core.mask \in WordsOf
  BY DEF CoreType
<1> SUFFICES o.op = "write" /\ o.base = 0 /\ RowEffect(r, id, i, c)
  BY <1>0
<1>4. CASE i \in 1..Words
  <2>1. PICK v : o = regwrite(0, "TCAM2", r, i, v) /\ (i = 2 => v = id)
    BY <1>1, <1>2, <1>4 DEF RowWords
  <2> DEFINE new == [core.data EXCEPT ![i] = v]
  <2>2. o.op = "write" /\ o.base = 0 /\ o.name = "TCAM2" /\ o.word = i /\ o.val = v
    BY <2>1 DEF regwrite
  <2>3. c = [core EXCEPT !.data = new]
    BY <1>0, <2>2 DEF Effect, CoreRegisters
  <2>4. new[2] = IF i = 2 THEN id ELSE core.data[2]
    BY <1>1, <1>3, <1>4, <2>1 DEF WordsOf
  <2> HIDE DEF new
  <2> QED BY <1>1, <1>4, <2>2, <2>3, <2>4 DEF CoreType, RowEffect
<1>5. CASE i \in (Words + 1)..(2 * Words)
  <2>1. PICK j \in 1..Words : i = Words + j
    <3>1. i - Words \in 1..Words /\ i = Words + (i - Words)
      BY <1>1, <1>5
    <3> QED BY <3>1
  <2>2. PICK v : o = regwrite(0, "TCAM2_MASK", r, j, v) /\ (j = 2 => v = -256)
    BY <1>1, <1>2, <2>1 DEF RowWords
  <2> DEFINE new == [core.mask EXCEPT ![j] = v]
             cams == Put(core.cam, r, [key |-> core.data, mask |-> core.mask])
  <2>3. o.op = "write" /\ o.base = 0 /\ o.name = "TCAM2_MASK" /\ o.word = j /\ o.val = v /\ o.row = r
    BY <2>2 DEF regwrite
  <2>4. c = IF j = Words THEN [[core EXCEPT !.mask = new] EXCEPT !.cam = cams] ELSE [core EXCEPT !.mask = new]
    BY <1>0, <2>3 DEF Effect, CoreRegisters
  <2>5. new[2] = IF j = 2 THEN -256 ELSE core.mask[2]
    BY <1>1, <1>3, <2>1, <2>2 DEF WordsOf
  <2>6. (i = Words + 2 <=> j = 2) /\ (i = 2 * Words <=> j = Words) /\ i # 2 /\ i # 2 * Words + 2
    BY <1>1, <2>1
  <2> HIDE DEF new, cams
  <2>7. /\ c.data = core.data /\ c.mask = new /\ c.ram3 = core.ram3 /\ c.reg = core.reg
        /\ c.cam = IF j = Words THEN cams ELSE core.cam
    BY <2>4 DEF CoreType
  <2> QED BY <2>3, <2>5, <2>6, <2>7 DEF cams, RowEffect
<1>6. CASE i = 2 * Words + 1
  <2>1. o = regwrite(0, "RAM2", r, 1, 10)
    BY <1>2, <1>6
  <2>2. o.op = "write" /\ o.base = 0 /\ o.name = "RAM2"
    BY <2>1 DEF regwrite
  <2>3. \E x : c = [core EXCEPT !.ram2 = x]
    BY <1>0, <2>2 DEF Effect, CoreRegisters
  <2> QED BY <1>1, <1>6, <2>2, <2>3 DEF CoreType, RowEffect
<1>7. CASE i = 2 * Words + 2
  <2>1. o = regwrite(0, "RAM3", r, 1, Forward(id) + HT_REMOVE)
    BY <1>2, <1>7
  <2>2. o.op = "write" /\ o.base = 0 /\ o.name = "RAM3" /\ o.row = r /\ o.val = Forward(id) + HT_REMOVE
    BY <2>1 DEF regwrite
  <2>3. c = [core EXCEPT !.ram3 = Put(core.ram3, r, Forward(id) + HT_REMOVE)]
    BY <1>0, <2>2 DEF Effect, CoreRegisters
  <2> QED BY <1>1, <1>7, <2>2, <2>3 DEF CoreType, RowEffect
<1>8. CASE i = 2 * Words + 3
  <2>1. o = regwrite(0, "RAM4", r, 1, 0)
    BY <1>2, <1>8
  <2>2. o.op = "write" /\ o.base = 0 /\ o.name = "RAM4"
    BY <2>1 DEF regwrite
  <2>3. c = core
    BY <1>0, <2>2 DEF Effect, CoreRegisters
  <2> QED BY <1>1, <1>8, <2>2, <2>3 DEF RowEffect
<1>9. i \in 1..Words \/ i \in (Words + 1)..(2 * Words) \/ i = 2 * Words + 1 \/ i = 2 * Words + 2 \/ i = 2 * Words + 3
  BY <1>1 DEF RowLen
<1> QED BY <1>0, <1>4, <1>5, <1>6, <1>7, <1>8, <1>9

\* Where the accesses of a row begin, and what i of them have set up in core c.
Off(r) == SettingsLen + r * RowLen
CamSet(c, r) == r \in DOMAIN c.cam /\ c.cam[r].key[2] = PortIds[r + 1] /\ c.cam[r].mask[2] = -256
RamSet(c, r) == r \in DOMAIN c.ram3 /\ c.ram3[r] = Forward(PortIds[r + 1]) + HT_REMOVE
RegsSet(c, k) == \A i \in Set : i <= k => c.reg[NameOf(i)] = ValueOf(i)
SetUp(c, r, i) ==
  /\ i \in 2..RowLen => c.data[2] = PortIds[r + 1]
  /\ i \in (Words + 2)..RowLen => c.mask[2] = -256
  /\ i >= 2 * Words => CamSet(c, r)
  /\ i >= 2 * Words + 2 => RamSet(c, r)

LEMMA PutValue ==
  ASSUME NEW f, NEW x, NEW y
  PROVE  /\ x \in DOMAIN Put(f, x, y) /\ Put(f, x, y)[x] = y
         /\ \A z : z \in DOMAIN f /\ z # x => z \in DOMAIN Put(f, x, y) /\ Put(f, x, y)[z] = f[z]
BY DEF Put

\* A row that has not been begun, and one that has been written.
LEMMA SetUpEnds ==
  ASSUME NEW c, NEW r, NEW i \in Int
  PROVE  (i <= 0 => SetUp(c, r, i)) /\ (SetUp(c, r, i) /\ i >= RowLen => CamSet(c, r) /\ RamSet(c, r))
BY FirmwareAssumption DEF SetUp, RowLen

LEMMA SetUpStep ==
  ASSUME core \in CoreType, ~Lost, NEW r \in 0..8, NEW i \in 1..RowLen,
         NEW c, c = Effect(PortRow(0, r, PortIds[r + 1])[i]),
         NEW q \in 0..8, NEW j \in Int, SetUp(core, q, j - 1),
         q = r => j = i, q < r => j > RowLen, q > r => j <= 0
  PROVE  SetUp(c, q, j)
<1>1. Words \in Nat /\ Words >= 3 /\ RowLen = 2 * Words + 3
  BY FirmwareAssumption DEF RowLen
<1>2. PICK id \in Nat : id = PortIds[r + 1]
  BY DEF PortIds, IDPORT, IDFLOODING
<1>3. /\ c.data[2] = IF i = 2 THEN id ELSE core.data[2]
      /\ c.mask[2] = IF i = Words + 2 THEN -256 ELSE core.mask[2]
      /\ c.cam = IF i = 2 * Words THEN Put(core.cam, r, [key |-> core.data, mask |-> core.mask]) ELSE core.cam
      /\ c.ram3 = IF i = 2 * Words + 2 THEN Put(core.ram3, r, Forward(id) + HT_REMOVE) ELSE core.ram3
  <2>1. PICK o : o = PortRow(0, r, id)[i] /\ c = Effect(o)
    BY <1>2
  <2>2. RowEffect(r, id, i, c)
    BY <1>2, <2>1, PortEffect
  <2> QED BY ONLY <2>2 DEF RowEffect
<1>4. CASE q > r
  BY <1>1, <1>4 DEF SetUp
<1>5. CASE q < r
  <2>1. j - 1 >= 2 * Words + 2 /\ j > RowLen
    BY <1>1, <1>5
  <2>2. CamSet(core, q) /\ RamSet(core, q)
    BY <1>1, <2>1 DEF SetUp
  <2>3. q # r
    BY <1>5
  <2>4. CamSet(c, q)
    BY <1>3, <2>2, <2>3, PutValue DEF CamSet
  <2>5. RamSet(c, q)
    BY <1>3, <2>2, <2>3, PutValue DEF RamSet
  <2> QED BY <1>1, <2>1, <2>4, <2>5 DEF SetUp
<1>6. CASE q = r
  <2>1. j = i
    BY <1>6
  <2>2. i \in 2..RowLen => c.data[2] = id
    BY <1>1, <1>2, <1>3, <1>6, <2>1 DEF SetUp
  <2>3. i \in (Words + 2)..RowLen => c.mask[2] = -256
    BY <1>1, <1>3, <1>6, <2>1 DEF SetUp
  <2>4. i >= 2 * Words => CamSet(c, r)
    <3>1. CASE i = 2 * Words
      <4>1. core.data[2] = id /\ core.mask[2] = -256
        BY <1>1, <1>2, <1>6, <2>1, <3>1 DEF SetUp
      <4>2. c.cam = Put(core.cam, r, [key |-> core.data, mask |-> core.mask])
        BY <1>3, <3>1
      <4>3. r \in DOMAIN c.cam /\ c.cam[r] = [key |-> core.data, mask |-> core.mask]
        BY <4>2, PutValue
      <4> QED BY <1>2, <4>1, <4>3 DEF CamSet
    <3>2. CASE i > 2 * Words
      <4>1. c.cam = core.cam /\ CamSet(core, r)
        BY <1>1, <1>3, <1>6, <2>1, <3>2 DEF SetUp
      <4> QED BY <4>1 DEF CamSet
    <3> QED BY <1>1, <3>1, <3>2
  <2>5. i >= 2 * Words + 2 => RamSet(c, r)
    <3>1. CASE i = 2 * Words + 2
      <4>1. c.ram3 = Put(core.ram3, r, Forward(id) + HT_REMOVE)
        BY <1>3, <3>1
      <4> QED BY <1>2, <4>1, PutValue DEF RamSet
    <3>2. CASE i > 2 * Words + 2
      <4>1. c.ram3 = core.ram3 /\ RamSet(core, r)
        BY <1>1, <1>3, <1>6, <2>1, <3>2 DEF SetUp
      <4> QED BY <4>1 DEF RamSet
    <3> QED BY <1>1, <3>1, <3>2
  <2> QED BY <1>2, <1>6, <2>1, <2>2, <2>3, <2>4, <2>5 DEF SetUp
<1> QED BY <1>4, <1>5, <1>6

\* Rows follow each other, and every access behind the settings is in one.
LEMMA Offsets ==
  /\ RowLen \in Nat /\ SettingsLen \in Nat /\ \A r \in 0..8 : Off(r) \in Nat /\ Off(r) >= SettingsLen
  /\ \A q, r \in 0..8 : q < r => Off(q) + RowLen <= Off(r)
  /\ \A n \in 1..(SettingsLen + 9 * RowLen) : n > SettingsLen => \E r \in 0..8 : \E i \in 1..RowLen : n = Off(r) + i
<1>1. RowLen \in Nat /\ SettingsLen \in Nat
  BY FirmwareAssumption DEF RowLen, SettingsLen
<1>2. /\ Off(0) = SettingsLen /\ Off(1) = SettingsLen + RowLen /\ Off(2) = SettingsLen + 2 * RowLen
      /\ Off(3) = SettingsLen + 3 * RowLen /\ Off(4) = SettingsLen + 4 * RowLen /\ Off(5) = SettingsLen + 5 * RowLen
      /\ Off(6) = SettingsLen + 6 * RowLen /\ Off(7) = SettingsLen + 7 * RowLen /\ Off(8) = SettingsLen + 8 * RowLen
  BY <1>1 DEF Off
<1>3. \A r \in 0..8 : Off(r) \in Nat /\ Off(r) >= SettingsLen
  BY <1>1, <1>2
<1>4. \A q, r \in 0..8 : q < r => Off(q) + RowLen <= Off(r)
  BY <1>1, <1>2
<1>5. ASSUME NEW n \in 1..(SettingsLen + 9 * RowLen), n > SettingsLen
      PROVE  \E r \in 0..8 : \E i \in 1..RowLen : n = Off(r) + i
  <2>1. \E r \in 0..8 : Off(r) < n /\ n <= Off(r) + RowLen
    BY <1>1, <1>2, <1>5
  <2>2. PICK r \in 0..8 : Off(r) < n /\ n <= Off(r) + RowLen
    BY <2>1
  <2>3. n - Off(r) \in 1..RowLen /\ n = Off(r) + (n - Off(r))
    BY <1>1, <1>3, <2>2
  <2> QED BY <2>3
<1> QED BY <1>1, <1>3, <1>4, <1>5

\* How far transparent mode has come, and that it lasts.
Length == SettingsLen + 9 * RowLen
AllSet(c) == RegsSet(c, 11) /\ \A r \in 0..8 : CamSet(c, r) /\ RamSet(c, r)
TransInv ==
  /\ pc = "body" /\ command.opcode = 7 /\ base = 0 /\ ~pauseLost /\ ~Frozen =>
       \E k \in 0..Length :
         /\ Len(ops) = Length - k
         /\ \A n \in 1..(Length - k) : ops[n] = TransparentMode(0)[k + n]
         /\ RegsSet(core, k)
         /\ \A r \in 0..8 : SetUp(core, r, k - Off(r))
  /\ transparent => AllSet(core)

\* Accesses to PAUSE and REGTEST0, and all that write nothing, leave it alone.
Same(c) == c.cam = core.cam /\ c.ram3 = core.ram3 /\ \A i \in Set : c.reg[NameOf(i)] = core.reg[NameOf(i)]

LEMMA RowsKept ==
  ASSUME core \in CoreType, NEW o \in Calm \cup {Pause(0, 0), Pause(1, 0), Pause(0, 1), Pause(1, 1)}, Access(o)
  PROVE  Same(core')
<1>1. CASE o.op = "write" /\ o.base = 0
  <2>1. o.name \in {"PAUSE", "REGTEST0"} /\ o.name \in CoreRegisters
    BY <1>1 DEF Calm, Pause, regwrite, CoreRegisters
  <2>2. core' = Effect(o)
    BY <1>1 DEF Access
  <2> DEFINE new == [core.reg EXCEPT ![o.name] = o.val]
  <2>3. Effect(o) = core \/ Effect(o) = [core EXCEPT !.reg = new]
    <3>1. o.name \notin {"TCAM2_MASK", "RAM2", "RAM3", "TCAM1", "TCAM2", "TCAM1_MASK"}
      BY <2>1 DEF CoreRegisters
    <3> QED BY <2>1, <3>1 DEF Effect
  <2>4. \A i \in Set : new[NameOf(i)] = core.reg[NameOf(i)]
    BY <2>1, SettingsType DEF CoreType
  <2> HIDE DEF new
  <2> QED BY <2>2, <2>3, <2>4 DEF CoreType, Same
<1>2. CASE ~(o.op = "write" /\ o.base = 0)
  BY <1>2 DEF Access, Same
<1> QED BY <1>1, <1>2

LEMMA KeptStep ==
  ASSUME transparent => AllSet(core), transparent' => transparent, Same(core')
  PROVE  transparent' => AllSet(core')
BY DEF CamSet, RamSet, RegsSet, AllSet, Same

\* Of the settings, access i sets the register i, and those behind them none.
LEMMA RegsStep ==
  ASSUME core \in CoreType, ~Lost, NEW i \in 1..SettingsLen, RegsSet(core, i - 1),
         NEW o, o = Settings(0)[i], Access(o)
  PROVE  RegsSet(core', i)
<1>1. SettingsLen \in Nat
  BY FirmwareAssumption DEF SettingsLen
<1>2. CASE i \in Set
  <2>1. PICK name, val : name = NameOf(i) /\ val = ValueOf(i)
    OBVIOUS
  <2>2. o = regwrite(0, name, 0, 1, val)
    BY <1>2, <2>1, SettingsAccesses
  <2>3. o.op = "write" /\ o.base = 0 /\ o.name = name /\ o.val = val
    BY <2>2 DEF regwrite
  <2>4. name \in CoreRegisters /\ core' = Effect(o)
    BY <1>2, <2>1, <2>3, SettingsType DEF Access
  <2> DEFINE new == [core.reg EXCEPT ![name] = val]
  <2>5. core' = [core EXCEPT !.reg = new]
    <3>1. name \notin {"TCAM2_MASK", "RAM2", "RAM3", "TCAM1", "TCAM2", "TCAM1_MASK"}
      BY <2>4 DEF CoreRegisters
    <3> QED BY <2>3, <2>4, <3>1 DEF Effect
  <2>6. ASSUME NEW j \in Set, j <= i PROVE new[NameOf(j)] = ValueOf(j)
    <3>1. NameOf(j) \in CoreRegisters
      BY SettingsType
    <3>2. CASE j = i
      BY <2>1, <3>1, <3>2 DEF CoreType
    <3>3. CASE j # i
      <4>1. NameOf(j) # name
        BY <1>2, <2>1, <3>3, SettingsType
      <4>2. j <= i - 1
        BY <1>2, <2>6, <3>3 DEF Set
      <4> QED BY <3>1, <4>1, <4>2 DEF CoreType, RegsSet
    <3> QED BY <3>2, <3>3
  <2> HIDE DEF new
  <2>7. core'.reg = new
    BY <2>5 DEF CoreType
  <2> QED BY <2>6, <2>7 DEF RegsSet
<1>3. CASE i \notin Set
  <2>1. i \in 12..SettingsLen
    BY <1>1, <1>3 DEF Set
  <2>2. o \in Quiet(0)
    BY <2>1, SettingsAccesses
  <2>3. core'.reg = core.reg
    <3>1. CASE o.op = "write"
      <4>1. o.base = 0 /\ o.name \notin CoreRegisters /\ core' = Effect(o)
        BY <2>2, <3>1 DEF Quiet, At, Access
      <4> DEFINE Data == [core EXCEPT !.data[o.word] = o.val]
                 Mask == [core EXCEPT !.mask[o.word] = o.val]
                 Keeps(c) == "reg" \in DOMAIN c /\ c.reg = core.reg
      <4>2. Keeps(core) /\ Keeps(Data) /\ Keeps(Mask)
        BY DEF CoreType
      <4>3. CASE o.name \in {"TCAM1", "TCAM2"}
        <5>1. core' = Data
          BY <4>1, <4>3 DEF Effect
        <5> QED BY <4>2, <5>1
      <4>4. CASE o.name = "TCAM1_MASK"
        <5>1. core' = Mask
          BY <4>1, <4>4 DEF Effect
        <5> QED BY <4>2, <5>1
      <4>5. CASE o.name = "TCAM2_MASK"
        <5>1. CASE o.word # Words
          <6>1. core' = Mask
            BY <4>1, <4>5, <5>1 DEF Effect
          <6> QED BY <4>2, <6>1
        <5>2. CASE o.word = Words
          <6>1. core' = [Mask EXCEPT !.cam = Put(core.cam, o.row, [key |-> core.data, mask |-> core.mask])]
            BY <4>1, <4>5, <5>2 DEF Effect
          <6> HIDE DEF Mask
          <6> QED BY <4>2, <6>1
        <5> QED BY <5>1, <5>2
      <4>6. CASE o.name \notin {"TCAM1", "TCAM2", "TCAM1_MASK", "TCAM2_MASK"}
        <5>1. \/ core' = core
              \/ \E r : core' = [core EXCEPT !.ram2 = r]
              \/ \E r : core' = [core EXCEPT !.ram3 = r]
          BY <4>1, <4>6 DEF Effect
        <5> QED BY <4>2, <5>1
      <4> QED BY <4>3, <4>4, <4>5, <4>6
    <3>2. CASE o.op # "write"
      BY <2>2, <3>2 DEF Access
    <3> QED BY <3>1, <3>2
  <2>4. \A j \in Set : j <= i - 1
    BY <2>1 DEF Set
  <2> QED BY <2>3, <2>4 DEF RegsSet
<1> QED BY <1>2, <1>3

LEMMA TransStep ==
  ASSUME TypesInv, OpsInv, PauseInv, TransInv, Cycle, TableUpdate, Main \/ Idling
  PROVE  TransInv'
<1> DEFINE Rest(k, s) == Len(s) = Length - k /\ \A n \in 1..(Length - k) : s[n] = TransparentMode(0)[k + n]
           Setting == pc = "body" /\ command.opcode = 7 /\ base = 0 /\ ~pauseLost /\ ~Frozen
           Kept == transparent => AllSet(core)
<1>0. /\ Length \in Nat /\ RowLen \in Nat /\ SettingsLen \in Nat /\ \A r \in 0..8 : Off(r) \in Nat /\ Off(r) >= SettingsLen
      /\ RowLen = 2 * Words + 3 /\ Words \in Nat
  BY Offsets, FirmwareAssumption DEF Length, RowLen
<1>1. CASE GetLine \/ Usleep \/ GetOption \/ Idling
  <2>1. core' = core /\ transparent' = transparent
    BY <1>1 DEF GetLine, Usleep, GetOption, Idling, fw
  <2>2. pc' = "body" => command'.opcode = 2
    BY <1>1 DEF GetLine, Usleep, GetOption, Idling, fw, OpsInv
  <2> QED BY <2>1, <2>2 DEF TransInv
<1>2. CASE WritePause \/ Unpause
  <2>1. Access(Head(ops)) /\ transparent' = transparent /\ pc' # "body"
    BY <1>2 DEF WritePause, Unpause
  <2>2. Head(ops) \in {Pause(0, 0), Pause(1, 0), Pause(0, 1), Pause(1, 1)}
    <3>1. CASE ops = Pauses \/ ops = Unpauses
      BY <3>1, TwoPauses
    <3>2. CASE ops = << Pause(1, 1) >>
      <4>1. Head(ops) = Pause(1, 1)
        BY <3>2, TwoPauses
      <4> QED BY <4>1
    <3>3. CASE ops = << Pause(1, 0) >>
      <4>1. Head(ops) = Pause(1, 0)
        BY <3>3, TwoPauses
      <4> QED BY <4>1
    <3> QED BY <1>2, <3>1, <3>2, <3>3 DEF WritePause, Unpause, OpsInv
  <2>3. Same(core')
    BY <2>1, <2>2, RowsKept DEF TypesInv
  <2> QED BY <2>1, <2>3, KeptStep DEF TransInv
<1>3. CASE Switch
  <2>1. core' = core /\ (transparent' => transparent) /\ command' = command
    BY <1>3 DEF Switch
  <2>2. Kept'
    BY <2>1 DEF TransInv
  <2>3. ASSUME command.opcode = 7, base' = 0
        PROVE  Rest(0, ops') /\ 0 \in 0..Length /\ RegsSet(core', 0) /\ \A r \in 0..8 : SetUp(core', r, 0 - Off(r))
    <3>1. ops' = TransparentMode(0)
      BY <1>3, <2>3, CommandAccesses DEF Switch, TypesInv
    <3>2. Len(TransparentMode(0)) = Length
      BY TransparentAccesses DEF Length
    <3>3. \A r \in 0..8 : 0 - Off(r) \in Int /\ 0 - Off(r) <= 0
      BY <1>0
    <3>4. \A r \in 0..8 : SetUp(core', r, 0 - Off(r))
      BY ONLY <3>3, SetUpEnds
    <3>5. RegsSet(core', 0)
      BY DEF RegsSet, Set
    <3> QED BY <1>0, <3>1, <3>2, <3>4, <3>5
  <2> QED BY <2>1, <2>2, <2>3 DEF TransInv
<1>4. CASE Body
  <2>1. /\ Access(Head(ops)) /\ ops # << >> /\ ops' = Tail(ops) /\ pc = "body" /\ pc' = "body"
        /\ UNCHANGED << command, base, pauseLost, transparent >>
    BY <1>4 DEF Body
  <2>2. Kept'
    <3>1. CASE ~transparent
      BY <2>1, <3>1
    <3>2. CASE transparent /\ command.opcode \in {3, 4}
      <4>1. Head(ops) \in RowReads
        BY <2>1, <3>2 DEF OpsInv
      <4>2. core' = core
        BY <2>1, <4>1, AccessRow
      <4> QED BY <2>1, <4>2 DEF TransInv
    <3>3. CASE transparent /\ command.opcode \notin {3, 4}
      <4>1. Head(ops) \in Calm
        BY <2>1, <3>3 DEF OpsInv
      <4>2. Same(core')
        BY <2>1, <4>1, RowsKept DEF TypesInv
      <4> QED BY <2>1, <4>2, KeptStep DEF TransInv
    <3> QED BY <3>1, <3>2, <3>3
  <2>3. ASSUME Setting'
        PROVE  \E k \in 0..Length : Rest(k, ops') /\ RegsSet(core', k) /\ \A q \in 0..8 : SetUp(core', q, k - Off(q))
    <3>1. pause = 1 /\ Held /\ command.opcode = 7 /\ base = 0 /\ ~pauseLost
      BY <2>1, <2>3 DEF PauseInv, TypesInv
    <3>2. ops \in Seq(Harmless) /\ Head(ops) \in Harmless
      BY <2>1, <3>1 DEF OpsInv
    <3>3. pause' = pause
      BY <2>1, <3>2, AccessHarmless DEF TypesInv
    <3>4. ~Frozen
      BY <2>3, <3>1, <3>3, HeldStep
    <3>5. ~Lost
      BY <3>1, <3>4, HeldIsFrozen
    <3>6. PICK k \in 0..Length : Rest(k, ops) /\ RegsSet(core, k) /\ \A r \in 0..8 : SetUp(core, r, k - Off(r))
      BY <2>1, <3>1, <3>4 DEF TransInv
    <3>7. /\ k < Length /\ k + 1 \in 1..Length /\ k + 1 \in 0..Length
          /\ Head(ops) = TransparentMode(0)[k + 1]
      <4>1. Len(ops) > 0 /\ Head(ops) = ops[1]
        BY <2>1, <3>2
      <4>2. k < Length /\ 1 \in 1..(Length - k)
        <5>1. Len(ops) = Length - k /\ k \in 0..Length
          BY <3>6
        <5> HIDE DEF Rest, Setting, Kept
        <5> QED BY ONLY <1>0, <4>1, <5>1
      <4>3. ops[1] = TransparentMode(0)[k + 1]
        BY <3>6, <4>2
      <4>4. k \in 0..Length
        BY <3>6
      <4>5. k + 1 \in 1..Length /\ k + 1 \in 0..Length
        <5> HIDE DEF Rest, Setting, Kept
        <5> QED BY ONLY <1>0, <4>2, <4>4
      <4> QED BY <4>1, <4>2, <4>3, <4>5
    <3>8. Rest(k + 1, ops')
      <4>1. Len(ops') = Len(ops) - 1 /\ \A n \in 1..(Len(ops) - 1) : ops'[n] = ops[n + 1]
        BY <2>1, <3>2
      <4>2. ASSUME NEW n \in 1..(Length - (k + 1)) PROVE ops'[n] = TransparentMode(0)[(k + 1) + n]
        <5>0. k \in Nat /\ Len(ops) = Length - k
          BY <1>0, <3>6
        <5>1. n \in 1..(Len(ops) - 1) /\ n + 1 \in 1..(Length - k) /\ k + (n + 1) = (k + 1) + n
          BY ONLY <1>0, <3>7, <5>0, n \in 1..(Length - (k + 1))
        <5> QED BY <3>6, <4>1, <5>1
      <4>3. Len(ops') = Length - (k + 1)
        <5>0. k \in Nat /\ Len(ops) = Length - k
          BY <1>0, <3>6
        <5> QED BY ONLY <1>0, <4>1, <5>0
      <4> QED BY <4>2, <4>3
    <3>9. RegsSet(core', k + 1) /\ \A q \in 0..8 : SetUp(core', q, (k + 1) - Off(q))
      <4>1. CASE k + 1 <= SettingsLen
        <5>1. \A q \in 0..8 : (k + 1) - Off(q) \in Int /\ (k + 1) - Off(q) <= 0
          BY <1>0, <4>1
        <5>2. \A q \in 0..8 : SetUp(core', q, (k + 1) - Off(q))
          BY ONLY <5>1, SetUpEnds
        <5>3. PICK i \in 1..SettingsLen : i = k + 1 /\ k = i - 1
          BY <1>0, <3>7, <4>1
        <5>4. Head(ops) = Settings(0)[i]
          BY <3>7, <5>3, TransparentAccesses
        <5>5. RegsSet(core, i - 1)
          BY <3>6, <5>3
        <5>6. RegsSet(core', i)
          BY <2>1, <3>5, <5>4, <5>5, RegsStep DEF TypesInv
        <5> QED BY <5>2, <5>3, <5>6
      <4>2. CASE k + 1 > SettingsLen
        <5>1. PICK r \in 0..8 : \E i \in 1..RowLen : k + 1 = Off(r) + i
          BY <3>7, <4>2, Offsets DEF Length
        <5>2. PICK i \in 1..RowLen : k + 1 = Off(r) + i
          BY <5>1
        <5>3. Head(ops) = PortRow(0, r, PortIds[r + 1])[i]
          <6>1. TransparentMode(0)[(SettingsLen + r * RowLen) + i] = PortRow(0, r, PortIds[r + 1])[i]
            BY TransparentAccesses
          <6>2. k + 1 = (SettingsLen + r * RowLen) + i
            BY <5>2 DEF Off
          <6> QED BY ONLY <3>7, <6>1, <6>2
        <5>4. core' = Effect(PortRow(0, r, PortIds[r + 1])[i]) /\ core'.reg = core.reg
          <6>1. PICK id \in Nat : id = PortIds[r + 1]
            BY DEF PortIds, IDPORT, IDFLOODING
          <6>2. PICK o : o = PortRow(0, r, id)[i] /\ o = Head(ops)
            BY <5>3, <6>1
          <6>3. o.op = "write" /\ o.base = 0 /\ Effect(o).reg = core.reg
            <7>1. o.op = "write" /\ o.base = 0 /\ RowEffect(r, id, i, Effect(o))
              BY <3>5, <6>2, PortEffect DEF TypesInv
            <7> QED BY ONLY <7>1 DEF RowEffect
          <6> QED BY <2>1, <6>1, <6>2, <6>3 DEF Access
        <5>9. RegsSet(core', k + 1)
          <6>1. \A i2 \in Set : i2 <= k
            BY <1>0, <4>2 DEF Set, SettingsLen
          <6> QED BY <3>6, <5>4, <6>1 DEF RegsSet
        <5> SUFFICES ASSUME NEW q \in 0..8 PROVE SetUp(core', q, (k + 1) - Off(q))
          BY <5>9
        <5>5. PICK j \in Int : j = (k + 1) - Off(q)
          BY <1>0
        <5>6. SetUp(core, q, j - 1)
          <6>1. j - 1 = k - Off(q)
            BY <1>0, <5>5
          <6> QED BY <3>6, <6>1
        <5>7. (q = r => j = i) /\ (q < r => j > RowLen) /\ (q > r => j <= 0)
          <6>1. q = r => j = i
            BY <1>0, <5>2, <5>5
          <6>2. q < r => j > RowLen
            BY <1>0, <5>2, <5>5, Offsets
          <6>3. q > r => j <= 0
            BY <1>0, <5>2, <5>5, Offsets
          <6> QED BY <6>1, <6>2, <6>3
        <5>8. SetUp(core', q, j)
          BY <3>5, <5>4, <5>6, <5>7, SetUpStep DEF TypesInv
        <5> QED BY <5>5, <5>8
      <4> QED BY <1>0, <4>1, <4>2
    <3> QED BY <3>7, <3>8, <3>9
  <2> QED BY <2>1, <2>2, <2>3 DEF TransInv
<1>5. CASE BodyDone
  <2>1. pc = "body" /\ ops = << >> /\ pc' = "unpause" /\ core' = core
    BY <1>5 DEF BodyDone
  <2>2. CASE command.opcode = 7 /\ base = 0 /\ ~pauseLost /\ ~Frozen
    <3>1. PICK k \in 0..Length : Rest(k, ops) /\ RegsSet(core, k) /\ \A r \in 0..8 : SetUp(core, r, k - Off(r))
      BY <2>1, <2>2 DEF TransInv
    <3>2. k = Length
      BY <1>0, <2>1, <3>1
    <3>3. \A r \in 0..8 : k - Off(r) \in Int /\ k - Off(r) >= RowLen
      <4>1. \A r \in 0..8 : Off(r) + RowLen <= Length
        BY <1>0 DEF Off, Length
      <4> QED BY <1>0, <3>2, <4>1
    <3>4. \A r \in 0..8 : CamSet(core, r) /\ RamSet(core, r)
      BY ONLY <3>1, <3>3, SetUpEnds
    <3>5. RegsSet(core, 11)
      <4>1. 11 <= k
        BY <1>0, <3>2 DEF Length, SettingsLen
      <4> QED BY <3>1, <4>1 DEF RegsSet, Set
    <3> QED BY <2>1, <3>4, <3>5 DEF TransInv, AllSet
  <2>3. CASE ~(command.opcode = 7 /\ base = 0 /\ ~pauseLost /\ ~Frozen)
    <3>1. transparent' => transparent
      BY <1>5, <2>3 DEF BodyDone
    <3> QED BY <2>1, <3>1 DEF TransInv
  <2> QED BY <2>2, <2>3
<1> QED BY <1>1, <1>2, <1>3, <1>4, <1>5 DEF Main

-----------------------------------------------------------------------------
(* The invariant, and what follows from it                                 *)

FWInv == IInv /\ TypesInv /\ OpsInv /\ PauseInv /\ LoaderLinesObeyed /\ CountInv /\ TransInv

LEMMA FWInitInv == FWInit => FWInv
<1> SUFFICES ASSUME FWInit PROVE FWInv
  OBVIOUS
<1>1. CountInv
  BY RowNumbers DEF FWInit, CountInv
<1>2. TransInv
  BY DEF FWInit, TransInv
<1> QED BY <1>1, <1>2, FirmwareInit DEF FWInv

LEMMA FWStepInv == FWInv /\ [FWNext]_fwvars => FWInv'
<1> SUFFICES ASSUME FWInv, [FWNext]_fwvars PROVE FWInv'
  OBVIOUS
<1>1. CASE FWNext
  <2>1. Cycle /\ TableUpdate /\ (Main \/ Idling) /\ Next
    BY <1>1, CycleIsNext DEF FWNext
  <2>2. IInv'
    BY <2>1, StepInv DEF FWInv
  <2>3. TypesInv' /\ OpsInv'
    BY <2>1, TypesStep DEF FWInv
  <2>4. PauseInv'
    BY <2>1, PauseStep DEF FWInv
  <2>5. LoaderLinesObeyed'
    BY <2>1, LineStep DEF FWInv
  <2>6. CountInv'
    BY <2>1, CountStep DEF FWInv
  <2>7. TransInv'
    BY <2>1, TransStep DEF FWInv
  <2> QED BY <2>2, <2>3, <2>4, <2>5, <2>6, <2>7 DEF FWInv
<1>2. CASE UNCHANGED fwvars
  <2>1. UNCHANGED << vars, pc, msg, lines, line, command, stage, base, ops, ht_counter, pauseLost,
                     transparent, core, ht >>
    BY <1>2 DEF fwvars, fw
  <2>2. IInv'
    BY <2>1, StepInv DEF FWInv
  <2>3. UNCHANGED << curr_state, start, startd, pause >>
    BY <2>1 DEF vars, pause
  <2>4. TypesInv' /\ OpsInv'
    BY <2>1, <2>3 DEF FWInv, TypesInv, OpsInv, MsgType, CommandType
  <2>5. PauseInv'
    BY <2>1, <2>3 DEF FWInv, PauseInv, Frozen, Lost, Held, Empty
  <2>6. LoaderLinesObeyed' /\ CountInv'
    BY <2>1, <2>3 DEF FWInv, LoaderLinesObeyed, CountInv, Entries, Frozen, Lost
  <2>7. TransInv'
    BY <2>1, <2>3 DEF FWInv, TransInv, Frozen, Lost, SetUp, AllSet, RegsSet, CamSet, RamSet
  <2> QED BY <2>2, <2>4, <2>5, <2>6, <2>7 DEF FWInv
<1> QED BY <1>1, <1>2

LEMMA FWInvAlways == FWSpec => []FWInv
  BY FWInitInv, FWStepInv, PTL DEF FWSpec

\* The firmware takes cycles away from the controller and adds none, so that what
\* holds of Controller holds of the core under its commands.
THEOREM PauseIsNoNewCycle == FWSpec => Spec
<1>1. FWInit => Init
  BY DEF FWInit
<1>2. [FWNext]_fwvars => [Next]_vars
  BY CycleIsNext DEF FWNext, fwvars
<1> QED BY <1>1, <1>2, PTL DEF FWSpec, Spec

\* Counters, stages and PAUSE keep to their ranges.
THEOREM FirmwareTypes == FWSpec => []FWTypeOK
<1>1. FWInv => FWTypeOK
  BY DEF FWInv, IInv, TypesInv, CountInv, FWTypeOK, Rows
<1> QED BY FWInvAlways, <1>1, PTL

\* While a command reads or writes the tables no packet is looked up or matched:
\* behind a pause that was written, 20 ms leave at most a packet that is held in
\* PKT1, and Distance has taken those before it past startd(1).
THEOREM CommandsAreUnseen == FWSpec => []TablesUnseen
<1>1. FWInv => TablesUnseen
  <2> SUFFICES ASSUME FWInv, pc = "body", ~pauseLost PROVE startd[1] = None /\ startd[2] = None
    BY DEF TablesUnseen
  <2>1. Held
    BY DEF FWInv, PauseInv
  <2>2. 1 \in Stages /\ 2 \in Stages
    BY DEF Stages
  <2>3. CASE curr_state = "PKT1"
    BY <2>2, <2>3 DEF FWInv, IInv, Distance
  <2> QED BY <2>1, <2>2, <2>3 DEF Held, Empty
<1> QED BY FWInvAlways, <1>1, PTL

\* A command leaves the pipeline running, unless a packet was frozen at startd(8).
THEOREM PipelineComesBack == FWSpec => []RunsBetweenCommands
<1>1. FWInv => RunsBetweenCommands
  BY DEF FWInv, PauseInv, RunsBetweenCommands
<1> QED BY FWInvAlways, <1>1, PTL

\* The loader's lines are executed as they were sent, whatever lines came before
\* and whatever was on the stack, unless a hex digit is right behind them.
THEOREM LoaderIsObeyed == FWSpec => []LoaderLinesObeyed
<1>1. FWInv => LoaderLinesObeyed
  BY DEF FWInv
<1> QED BY FWInvAlways, <1>1, PTL

\* The count is that of the rows in the tables: none comes or goes meanwhile, as
\* long as no packet is frozen where it updates them.
THEOREM CountIsOfTheTables == FWSpec => []CountExact
<1>1. FWInv => CountExact
  <2> SUFFICES ASSUME FWInv, pc = "unpause", Len(ops) = 2, command.opcode \in {3, 4}, base = 0, ~pauseLost, ~Frozen
               PROVE  ht_counter = Cardinality(UNION {{t} \X ht[t] : t \in 1..NumTables})
    BY DEF CountExact
  <2>1. ht_counter = Cardinality(Entries(ht, Rows))
    BY DEF FWInv, CountInv
  <2> QED BY <2>1, EntriesAreRows DEF FWInv, TypesInv
<1> QED BY FWInvAlways, <1>1, PTL

\* Transparent mode is set up to the last word, and stays until it is written over:
\* the pipeline is empty or held in PKT1 when its words are sent, and no packet at
\* startd(8) can take one away.
THEOREM ModeIsSetUp == FWSpec => []ModeAsSent
<1>1. FWInv => ModeAsSent
  <2> SUFFICES ASSUME FWInv, transparent PROVE ModeAsSent
    BY DEF ModeAsSent
  <2>1. RegsSet(core, 11) /\ \A r \in 0..8 : CamSet(core, r) /\ RamSet(core, r)
    BY DEF FWInv, TransInv, AllSet
  <2>2. \A i \in DOMAIN TransparentSettings : core.reg[TransparentSettings[i][1]] = TransparentSettings[i][2]
    <3>1. DOMAIN TransparentSettings = 1..11
      BY SettingsType
    <3> QED BY <2>1, <3>1 DEF RegsSet, Set, NameOf, ValueOf
  <2>3. ASSUME NEW p \in DOMAIN PortIds
        PROVE  /\ p - 1 \in DOMAIN core.cam /\ core.cam[p - 1].key[2] = PortIds[p] /\ core.cam[p - 1].mask[2] = -256
               /\ p - 1 \in DOMAIN core.ram3 /\ core.ram3[p - 1] = Forward(PortIds[p]) + HT_REMOVE
    <3>1. p \in 1..9
      BY DEF PortIds
    <3>2. PICK r \in 0..8 : r = p - 1 /\ r + 1 = p
      <4>1. p - 1 \in 0..8 /\ (p - 1) + 1 = p
        BY <3>1
      <4> QED BY <4>1
    <3> QED BY <2>1, <3>2 DEF CamSet, RamSet
  <2> QED BY <2>2, <2>3 DEF ModeAsSent
<1> QED BY FWInvAlways, <1>1, PTL
=============================================================================
