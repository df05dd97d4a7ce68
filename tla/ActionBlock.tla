---------------------------- MODULE ActionBlock ----------------------------
(***************************************************************************)
(* NetFPGA-SUME-FB: behind the delay queue, add_field (write_field.vhd)    *)
(* inserts a field of one, two or four bytes into a packet, modify_field   *)
(* overwrites one, and FlowBlaze_core.vhd sends what the action asks for.  *)
(* Both see every packet, whatever its action is.                          *)
(*                                                                         *)
(* A cycle takes the word at the input, or holds it, or there is none.     *)
(* Byte i of a packet is the number i; the field has its own bytes.        *)
(*                                                                         *)
(* The action of a packet is there with its first word, see DelayQueue,    *)
(* and for that cycle only: action_d3 is the action RAM's output of five   *)
(* cycles before, whatever the pipeline was looking up, so that the words  *)
(* behind the first may be sent by another block than the packet's.        *)
(***************************************************************************)
EXTENDS Integers, Sequences

CONSTANTS
  W,              \* bytes of a word, 32 in the code
  Lengths,        \* of packets
  Requests,       \* [offset, size]: what action_value can ask for; size in bytes
  Directly,       \* words a packet needs for the next one to follow directly
  MaxPackets,     \* bound: packets
  MaxHolds        \* bound: cycles in which a packet under way does not move
ASSUME ActionBlockAssumption ==
  /\ W \in Nat \ {0} /\ W % 8 = 0
  /\ Lengths \subseteq {l \in Nat : l > W}
  /\ \A r \in Requests : r.offset \in Nat /\ r.size \in {0, 1, 2, 4}

Field(j) == -1 - j
Unknown  == -9
Kinds    == {"write", "modify", "none"}   \* enable_write, enable_modify, neither
Packets  == [len : Lengths, kind : Kinds, request : Requests]
NoPacket == [len |-> 0, kind |-> "none", request |-> [offset |-> 0, size |-> 0]]

VARIABLES
  packet, word,           \* the packet at the input, and which of its words
  offered, fresh,         \* TVALID; startd(8), in the word's first cycle only
  gap,                    \* a cycle without a word has passed since the last packet
  state, counter, reg, temp, byte_count,   \* add_field
  mcounter, mreg,         \* modify_field, IDLE when its counter is 0
  out, position,          \* the word that has left in the last cycle, and where it ends
  packets, holds,         \* history: packets that came, cycles held, for the bounds
  lasts,                  \* history: TLASTs that have left since the packet came
  late, broken, crowded, switched   \* history: see the properties
input == << packet, word, offered, fresh, gap, packets >>
adder == << state, counter, reg, temp, byte_count >>
modifier == << mcounter, mreg >>
output == << out, position, lasts >>
history == << holds, late, broken, crowded >>
vars == << input, adder, modifier, output, history, switched >>

Words(p) == (p.len + W - 1) \div W
Rest(p)  == p.len - W * (Words(p) - 1)     \* bytes of the last word
Last    == word = Words(packet) - 1
Done    == word = Words(packet)
Tdata   == [i \in 0..W - 1 |-> IF word * W + i < packet.len THEN word * W + i ELSE Unknown]
Tkeep   == IF Last THEN packet.len - word * W ELSE W
Nothing == [bytes |-> << >>, last |-> FALSE]

Init ==
  /\ packet = NoPacket /\ word = 0 /\ offered = FALSE /\ fresh = FALSE /\ gap = TRUE
  /\ state = "IDLE" /\ counter = 0 /\ byte_count = 0
  /\ reg = NoPacket.request /\ mreg = NoPacket.request /\ mcounter = 0
  /\ temp = [i \in 0..3 |-> 0]
  /\ out = Nothing /\ position = 0
  /\ packets = 0 /\ lasts = 0 /\ holds = 0
  /\ late = FALSE /\ broken = FALSE /\ crowded = FALSE /\ switched = FALSE

-----------------------------------------------------------------------------
(* The words: operators on the input, without state of their own.          *)

\* Mutant of Carry: the first bytes of temp_tdata.
CarryFirst(i, c) == temp[i]

\* The last c bytes of the word before.
Carry(i, c) == temp[4 - c + i]

\* Byte i of the word in which the field begins, `rel` bytes into it.
FieldWord(rel, n, i) ==
  IF i < rel \/ (0 < rel /\ rel < W - n /\ i < n) THEN Tdata[i]
  ELSE IF i < rel + n THEN Field(i - rel) ELSE Tdata[i - n]

\* Byte i of a word behind: what is left of the field, c bytes that the word
\* before has lost to it (two instead of one for half a field of two), and its own.
CarryWord(rel, n, i) ==
  LET sent == IF rel <= -n THEN n ELSE -rel
      left == n - sent
      c    == IF n = 2 /\ rel = -1 THEN 2 ELSE sent
  IN IF i < left THEN Field(sent + i)
     ELSE IF i < left + c THEN Carry(i - left, c) ELSE Tdata[i - left - c]

\* Byte i of a word of add_field, the field being rel bytes ahead or behind.
Inserted(rel, n, i) ==
  IF n = 0 \/ rel >= W THEN Tdata[i]
  ELSE IF rel >= 0 THEN FieldWord(rel, n, i) ELSE CarryWord(rel, n, i)

\* The bytes modify_field writes: not the end of a field of one or two bytes at
\* the end of the word, nor what is in the word's first n bytes.
Writes(rel, n) ==
  {i \in 0..W - 1 : /\ i \in rel..rel + n - 1
                    /\ ~ (0 < rel /\ rel < W - n /\ i < n)
                    /\ ~ (rel = W - n /\ n < 4)}

\* Byte i of a word of modify_field, which at 0 moves the others on.
Overwritten(rel, n, i) ==
  CASE i \in Writes(rel, n)             -> Field(i - rel)
    [] rel = 0 /\ i \notin Writes(0, n) -> Tdata[i - n]
    [] OTHER                            -> Tdata[i]

AddRequest    == IF fresh THEN packet.request ELSE reg
ModifyRequest == IF fresh THEN packet.request ELSE mreg

AddKeep ==
  CASE Last /\ state = "WAIT_EOP" /\ Tkeep + AddRequest.size <= W -> Tkeep + AddRequest.size
    [] Last /\ state # "WAIT_EOP"                                 -> Tkeep
    [] OTHER                                                      -> W

\* Mutant of AddLast: TLAST is not kept back for the extra slot.
AddLastTwice == Last

AddLast == Last /\ state # "WAIT_EXTRA_SLOT"

AddWord == [bytes |-> [i \in 1..AddKeep |->
                         Inserted(AddRequest.offset - counter, AddRequest.size, i - 1)],
            last  |-> AddLast]

\* The first bytes of temp_tdata; with byte_count 0, TKEEP is whatever is at the input.
ExtraWord == [bytes |-> IF byte_count = 0 THEN << Unknown >>
                        ELSE [i \in 1..byte_count |-> temp[i - 1]],
              last  |-> TRUE]

ModifyWord == [bytes |-> [i \in 1..Tkeep |->
                            Overwritten(ModifyRequest.offset - mcounter, ModifyRequest.size, i - 1)],
               last  |-> Last]

PlainWord == [bytes |-> [i \in 1..Tkeep |-> Tdata[i - 1]], last |-> Last]

-----------------------------------------------------------------------------
(* A cycle: `ready` is M0_AXIS_TREADY.                                     *)

\* in_offset, in_size and in_field are the packet's in its first cycle.
In == IF fresh THEN {packet.request} ELSE Requests

\* resto is taken from TUSER, which only the first word is sure to have.
Resto == IF word = 0 THEN {Rest(packet)} ELSE 1..W

AddIdle(ready) ==
  /\ state = "IDLE"
  /\ IF offered /\ ready
     THEN \E in \in In, resto \in Resto :
            /\ reg' = in
            /\ IF resto + in.size > W - 1
               THEN state' = "WAIT_EXTRA_SLOT" /\ byte_count' = (resto + in.size) % 8
               ELSE state' = "WAIT_EOP" /\ UNCHANGED byte_count
     ELSE UNCHANGED << state, reg, byte_count >>

AddWaits(ready) ==
  /\ state \in {"WAIT_EXTRA_SLOT", "WAIT_EOP"}
  /\ state' = IF ~ (offered /\ ready /\ Last) THEN state
              ELSE IF state = "WAIT_EOP" THEN "IDLE" ELSE "EXTRA_SLOT"
  /\ UNCHANGED << reg, byte_count >>

AddExtraSlot(ready) ==
  /\ state = "EXTRA_SLOT"
  /\ state' = IF ready THEN "IDLE" ELSE state
  /\ UNCHANGED << reg, byte_count >>

\* temp_tdata follows the input in every cycle, whether the word moves or not.
Add(ready) ==
  /\ AddIdle(ready) \/ AddWaits(ready) \/ AddExtraSlot(ready)
  /\ counter' = IF (offered /\ ready /\ Last) \/ state = "EXTRA_SLOT" THEN 0
                ELSE IF offered /\ ready THEN counter + W ELSE counter
  /\ temp' = [i \in 0..3 |-> IF offered THEN Tdata[W - 4 + i] ELSE Unknown]

\* Mutant of Modify: the counter is not reset.
ModifyKeepsCounter(ready) ==
  IF offered /\ ready
  THEN IF mcounter = 0 THEN mcounter' = W /\ mreg' \in In
       ELSE mcounter' = mcounter + W /\ UNCHANGED mreg
  ELSE UNCHANGED modifier

\* The counter goes on in IDLE only.
Modify(ready) ==
  IF offered /\ ready
  THEN IF mcounter = 0 THEN mcounter' = W /\ mreg' \in In
       ELSE mcounter' = (IF Last THEN 0 ELSE mcounter) /\ UNCHANGED mreg
  ELSE UNCHANGED modifier

Emit(w) ==
  /\ out' = w
  /\ position' = position + Len(w.bytes)
  /\ lasts' = IF w.last THEN lasts + 1 ELSE lasts
Silent == out' = Nothing /\ UNCHANGED << position, lasts >>

\* enable_write and enable_modify in this cycle.
Chosen == IF fresh THEN {packet.kind} ELSE Kinds

\* add_field's extra slot is at the output, instead of a word.
Extra(chosen) == chosen = "write" /\ state = "EXTRA_SLOT"

\* For `switched`: the output is not the one the packet's action asks for.
Switches(chosen) == switched' = (switched \/ chosen # packet.kind)
SwitchesSlot(chosen) == switched' = (switched \/ ~(Extra(chosen) <=> Extra(packet.kind)))

\* For the bound and `broken`: the packet is not over and does not move.
Pause(over) ==
  IF over THEN UNCHANGED << holds, broken >>
  ELSE holds < MaxHolds /\ holds' = holds + 1 /\ broken' = TRUE

\* The delay queue brings the next word of the packet, or a packet's first.
Offer ==
  /\ ~offered /\ offered' = TRUE
  /\ \/ packet # NoPacket /\ ~Done
        /\ fresh' = FALSE
        /\ UNCHANGED << packet, word, gap, packets, position, lasts, late, broken, switched >>
     \/ /\ packets < MaxPackets /\ packets' = packets + 1
        /\ packet = NoPacket \/ (Done /\ (gap \/ Words(packet) >= Directly))
        /\ packet' \in Packets
        /\ word' = 0 /\ fresh' = TRUE /\ gap' = FALSE
        /\ position' = 0 /\ lasts' = 0 /\ late' = FALSE /\ broken' = FALSE /\ switched' = FALSE
  /\ crowded' = (crowded \/ state = "EXTRA_SLOT")
  /\ out' = Nothing
  /\ UNCHANGED << adder, modifier, holds >>

Taken ==
  /\ offered
  /\ Add(TRUE) /\ Modify(TRUE)
  /\ \E chosen \in Chosen :
       /\ ~Extra(chosen)
       /\ Emit(CASE chosen = "write"  -> AddWord
                 [] chosen = "modify" -> ModifyWord
                 [] OTHER             -> PlainWord)
       /\ Switches(chosen)
  /\ offered' = FALSE /\ word' = word + 1 /\ fresh' = FALSE
  /\ UNCHANGED << packet, gap, packets, history >>

\* The output is not ready, or an extra slot is sent.
Held ==
  /\ offered
  /\ \/ /\ Add(TRUE) /\ Modify(TRUE)
        /\ \E chosen \in Chosen :
             Extra(chosen) /\ Emit(ExtraWord) /\ SwitchesSlot(chosen)
        /\ UNCHANGED holds
     \/ /\ Add(FALSE) /\ Modify(FALSE) /\ Silent
        /\ holds < MaxHolds /\ holds' = holds + 1 /\ UNCHANGED switched
  /\ fresh' = FALSE /\ late' = (late \/ word = 0) /\ broken' = TRUE
  /\ UNCHANGED << packet, word, offered, gap, packets, crowded >>

\* No word at the input: between packets, or within one.
Bubble ==
  /\ ~offered /\ packet # NoPacket
  /\ \/ /\ Add(TRUE) /\ Modify(TRUE)
        /\ \E chosen \in Kinds :
             /\ IF Extra(chosen) THEN Emit(ExtraWord) ELSE Silent
             /\ SwitchesSlot(chosen)
        /\ Pause(Done)
     \/ /\ Add(FALSE) /\ Modify(FALSE) /\ Silent /\ UNCHANGED switched
        /\ Pause(Done /\ state # "EXTRA_SLOT")
  /\ gap' = Done
  /\ UNCHANGED << packet, word, offered, fresh, packets, late, crowded >>

Next == Offer \/ Taken \/ Held \/ Bubble

Spec == Init /\ [][Next]_vars

-----------------------------------------------------------------------------
(* Properties                                                              *)
(* late: the output did not take the packet's first word at once, so that  *)
(* its startd(8) was lost.  broken: the packet did not move in some cycle. *)
(* crowded: a packet followed one whose extra slot was not over.           *)
(* switched: a word or the extra slot of the packet was sent by another    *)
(* block than its action's; nothing in the core keeps this from happening  *)
(* behind the first word.                                                  *)

\* A packet leaves with one TLAST, however long it grows and whatever holds it,
\* unless the output is switched in it, or a packet comes upon the extra slot of
\* the one before.
FramesMatch ==
  Done /\ packet # NoPacket /\ state # "EXTRA_SLOT" /\ ~crowded /\ ~switched => lasts = 1

\* What leaves is the packet with byte i replaced by byte(i), `length` bytes.
Leaves(byte(_), length) ==
  LET first == position - Len(out.bytes) IN
  /\ \A i \in 1..Len(out.bytes) : out.bytes[i] = byte(first + i - 1)
  /\ out.last => position = length

\* The fields that can be inserted: not less than their size into a word, unless
\* at its beginning; and the last word has room, or is full, the field has as many
\* bytes as the extra slot is made for and none of them is left to that slot, which
\* sends the packet's last four bytes.
Insertable(p) ==
  LET n == p.request.size
      o == p.request.offset % W IN
  /\ p.request.offset < p.len
  /\ o = 0 \/ o >= n
  /\ ~ (n = 2 /\ o = W - 1)
  /\ \/ Rest(p) + n < W
     \/ n = 4 /\ Rest(p) = W /\ p.request.offset + n <= p.len

\* docs/FlowBlaze_HW.md "Add_field adds a new field in the packet": all bytes of
\* the packet leave, with the field between them, whatever word boundaries are
\* crossed by the field or by what it moves, as far as the output has not been
\* switched.
FieldIsAdded ==
  packet.kind = "write" /\ Insertable(packet) /\ ~broken /\ ~crowded /\ ~switched =>
    LET r == packet.request
        byte(i) == IF i < r.offset THEN i
                   ELSE IF i < r.offset + r.size THEN Field(i - r.offset)
                   ELSE i - r.size
    IN Leaves(byte, packet.len + r.size)

\* The fields that can be overwritten: in the first word, or in two words.
Overwritable(p) ==
  LET n == p.request.size
      o == p.request.offset % W IN
  /\ p.request.offset + n <= p.len
  /\ o >= n /\ ~ (n < 4 /\ o = W - n)
  /\ Words(p) = 2 \/ p.request.offset + n <= W

\* docs/FlowBlaze_HW.md "the modify_field changes a field already present": the
\* bytes of the field and no other, as far as the output has not been switched,
\* also if it holds the packet behind its first word, or add_field is still in
\* its extra slot.
FieldIsModified ==
  packet.kind = "modify" /\ Overwritable(packet) /\ ~late /\ ~switched =>
    LET r == packet.request
        byte(i) == IF i \in r.offset..r.offset + r.size - 1 THEN Field(i - r.offset) ELSE i
    IN Leaves(byte, packet.len)
=============================================================================
