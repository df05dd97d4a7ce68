------------------------- MODULE ActionBlock_proofs -------------------------
(***************************************************************************)
(* add_field and modify_field for words of any width, packets of any       *)
(* length, any fields and any number of packets.                           *)
(*                                                                         *)
(* BlockInv is inductive.  modify_field counts with the packet whatever    *)
(* add_field does (ModifierOK), add_field as long as no packet meets an    *)
(* extra slot (AdderOK), both whatever output is selected; a packet that   *)
(* has moved in every cycle finds its own request and the end of the word  *)
(* before (AddedOK).  What has left of a packet is known as long as the    *)
(* output was not switched in it (FramesOK, and the positions).            *)
(* What a word then becomes is arithmetic on the field's place in it:      *)
(* InsertedIs, OverwrittenIs.                                              *)
(***************************************************************************)
EXTENDS ActionBlock, TLAPS

\* W is a multiple of 8, and not 0.
LEMMA Width == W \in Nat /\ W >= 8
  BY ActionBlockAssumption

-----------------------------------------------------------------------------
(* Words and bytes: the products and quotients by W                        *)

\* Multiples of W.
LEMMA Times ==
  ASSUME NEW k \in Nat
  PROVE  /\ W * k \in Nat /\ k * W = W * k
         /\ W * (k + 1) = W * k + W
         /\ k >= 1 => W * (k - 1) = W * k - W
         /\ W * 0 = 0
  BY Width

\* The word before ends before the next one begins.
LEMMA Ordered ==
  ASSUME NEW j \in Int, NEW k \in Int, j < k
  PROVE  W * j + W <= W * k
<1>1. PICK d \in Nat : k = j + 1 + d
  <2>1. k - j - 1 \in Nat /\ k = j + 1 + (k - j - 1)
    OBVIOUS
  <2> QED BY <2>1
<1>2. W * k = W * j + W + W * d
  BY <1>1, Width
<1>3. W * d >= 0
  BY Width
<1> QED BY <1>2, <1>3, Width

\* Quotient and remainder are what they are taken for.
LEMMA Divided ==
  ASSUME NEW k \in Int, NEW r \in 0..W-1
  PROVE  (W * k + r) % W = r /\ (W * k + r) \div W = k
<1>1. PICK x \in Int : x = W * k + r
  BY Width
<1>2. PICK q \in Int : q = x \div W
  BY Width
<1>3. PICK m \in Int : m = x % W
  BY Width
<1>4. x = W * q + m /\ 0 <= m /\ m < W
  BY <1>2, <1>3, Width
<1>5. q = k
  <2>1. ~ (q < k)
    <3> SUFFICES ASSUME q < k PROVE FALSE
      OBVIOUS
    <3>1. W * q + W <= W * k
      BY Ordered
    <3> QED BY <1>1, <1>4, <3>1, Width
  <2>2. ~ (k < q)
    <3> SUFFICES ASSUME k < q PROVE FALSE
      OBVIOUS
    <3>1. W * k + W <= W * q
      BY Ordered
    <3> QED BY <1>1, <1>4, <3>1, Width
  <2> QED BY <2>1, <2>2
<1>6. m = r
  BY <1>1, <1>4, <1>5, Width
<1> QED BY <1>1, <1>2, <1>3, <1>5, <1>6

\* A packet has two words or more, and its last one some bytes.
LEMMA WordsOf ==
  ASSUME NEW p \in Packets
  PROVE  /\ p.len \in Nat /\ Words(p) \in Nat /\ Words(p) >= 2
         /\ W * (Words(p) - 1) < p.len /\ p.len <= W * Words(p)
         /\ Rest(p) \in 1..W /\ Rest(p) = p.len - W * (Words(p) - 1)
<1>1. PICK l \in Nat : l = p.len /\ l > W
  BY ActionBlockAssumption DEF Packets
<1>2. PICK x \in Nat : x = l + W - 1 /\ x >= 2 * W
  <2>1. l + W - 1 \in Nat /\ l + W - 1 >= 2 * W
    BY <1>1, Width
  <2> QED BY <2>1
<1>3. PICK q \in Int : q = x \div W
  BY Width
<1>4. PICK m \in Int : m = x % W
  BY Width
<1>5. x = W * q + m /\ 0 <= m /\ m < W
  BY <1>3, <1>4, Width
<1>6. q >= 2
  <2> SUFFICES ASSUME q < 2 PROVE FALSE
    OBVIOUS
  <2>1. W * q + W <= W * 2
    BY Ordered
  <2> QED BY <1>2, <1>5, <2>1, Width
<1>7. W * (q - 1) = W * q - W
  BY Width
<1>8. Words(p) = q
  BY <1>1, <1>2, <1>3 DEF Words
<1>9. W * (q - 1) < l /\ l <= W * q
  BY <1>1, <1>2, <1>5, <1>7, Width
<1>10. W * q \in Int /\ W * (q - 1) \in Int
  BY Width
<1>11. l - W * (q - 1) \in 1..W
  BY <1>7, <1>9, <1>10, Width
<1> QED BY <1>1, <1>6, <1>8, <1>9, <1>11 DEF Rest

-----------------------------------------------------------------------------
(* Where the parts stand                                                   *)

Under == packet # NoPacket
Body  == 1..(Words(packet) - 1)     \* words behind the first, as word counts them

InputOK ==
  /\ packet \in Packets \cup {NoPacket} /\ word \in Nat
  /\ ~Under => ~offered /\ word = 0
  /\ Under => word <= Words(packet) /\ (offered => word < Words(packet)) /\ (word = 0 => offered)
  /\ fresh => offered /\ word = 0

\* add_field moves with the packet, as long as no packet meets an extra slot.
AdderOK == ~crowded =>
  /\ ~Under => state = "IDLE" /\ counter = 0
  /\ Under =>
       /\ word = 0 => state = "IDLE" /\ counter = 0
       /\ word \in Body => state \in {"WAIT_EXTRA_SLOT", "WAIT_EOP"} /\ counter = W * word
       /\ Done => state \in {"IDLE", "EXTRA_SLOT"} /\ counter = 0

\* The TLAST of a packet that its own block has sent.
Own == Extra(packet.kind)
FramesOK == Under /\ ~crowded /\ ~switched => lasts = IF ~Done \/ Own THEN 0 ELSE 1

\* What add_field knows of a packet that has moved in every cycle.
AddedOK == Under /\ packet.kind = "write" /\ ~broken /\ ~crowded =>
  LET size == packet.request.size
  IN  /\ word = 0 => fresh
      /\ ~switched =>
           /\ ~Done => position = W * word
           /\ Done /\ state = "EXTRA_SLOT" => position = packet.len
      /\ word \in Body \/ (Done /\ state = "EXTRA_SLOT") =>
           /\ reg = packet.request
           /\ state # "WAIT_EOP" => Rest(packet) + size > W - 1 /\ byte_count = (Rest(packet) + size) % 8
           /\ state = "WAIT_EOP" => Rest(packet) + size <= W - 1
           /\ \A k \in 0..3 : temp[k] = IF W * word - 4 + k < packet.len THEN W * word - 4 + k ELSE Unknown

\* modify_field counts whatever add_field does: only the extra slot of the packet
\* before disturbs it, which holds the packet's first word (late).
ModifierOK ==
  /\ ~Under => mcounter = 0 /\ state = "IDLE"
  /\ Under =>
       /\ word = 0 => mcounter = 0 \/ (mcounter = W /\ late)
       /\ word \in Body => mcounter = W
       /\ Done => mcounter = 0
       /\ state = "EXTRA_SLOT" => word = 0 \/ Done
       /\ packet.kind = "modify" /\ ~switched => position = IF Done THEN packet.len ELSE W * word
       /\ packet.kind = "modify" /\ ~late => /\ word = 0 => fresh
                                             /\ word \in Body => mreg = packet.request

StateOK == state \in {"IDLE", "WAIT_EXTRA_SLOT", "WAIT_EOP", "EXTRA_SLOT"}
BlockInv == InputOK /\ StateOK /\ AdderOK /\ FramesOK /\ AddedOK /\ ModifierOK

\* Nothing is under way at first.
LEMMA InitBlock == Init => BlockInv
  BY DEF Init, BlockInv, InputOK, StateOK, AdderOK, FramesOK, AddedOK, ModifierOK, Under

\* The numbers of the packet under way.
LEMMA PacketOf ==
  ASSUME InputOK, Under
  PROVE  /\ packet \in Packets /\ word \in Nat /\ word <= Words(packet) /\ (offered => word < Words(packet))
         /\ packet.request \in Requests /\ packet.request.offset \in Nat /\ packet.request.size \in {0, 1, 2, 4}
         /\ packet.kind \in Kinds
  BY ActionBlockAssumption DEF InputOK, Under, Packets

\* A packet is not no packet.
LEMMA NewPacket == \A p \in Packets : p # NoPacket
<1>1. \A p \in Packets : p.len # 0
  BY Width, ActionBlockAssumption DEF Packets
<1> QED BY <1>1 DEF NoPacket

\* The next word, or the first one of a packet, which finds add_field at rest or
\* in the extra slot of the packet before (crowded).
LEMMA OfferKeeps == ASSUME BlockInv, Offer PROVE BlockInv'
<1>1. /\ ~offered /\ offered' = TRUE /\ crowded' = (crowded \/ state = "EXTRA_SLOT")
      /\ UNCHANGED << state, counter, reg, temp, byte_count, mcounter, mreg >>
  BY DEF Offer, adder, modifier
<1>2. CASE /\ Under /\ ~Done /\ fresh' = FALSE
           /\ UNCHANGED << packet, word, gap, packets, position, lasts, late, broken, switched >>
  <2>1. packet \in Packets /\ word \in Nat /\ word <= Words(packet) /\ Words(packet) \in Nat /\ Words(packet) >= 2
    BY <1>2, PacketOf, WordsOf DEF BlockInv
  <2>2. word # 0 /\ word \in Body
    BY <1>1, <1>2, <2>1 DEF BlockInv, InputOK, Done, Body
  <2>3. state # "EXTRA_SLOT" /\ (crowded' <=> crowded)
    BY <1>1, <1>2, <2>2 DEF BlockInv, ModifierOK
  <2>4. InputOK'
    BY <1>1, <1>2, <2>1, <2>2 DEF BlockInv, InputOK, Under, Done
  <2>5. AdderOK' /\ FramesOK'
    BY <1>1, <1>2, <2>2, <2>3 DEF BlockInv, AdderOK, FramesOK, Under, Done, Body, Own, Extra
  <2>6. AddedOK'
    BY <1>1, <1>2, <2>2, <2>3 DEF BlockInv, AddedOK, Under, Done, Body
  <2>7. ModifierOK'
    BY <1>1, <1>2, <2>2, <2>3 DEF BlockInv, ModifierOK, Under, Done, Body
  <2> QED BY <1>1, <2>4, <2>5, <2>6, <2>7 DEF BlockInv, StateOK
<1>3. CASE /\ packet = NoPacket \/ Done
           /\ packet' \in Packets /\ word' = 0 /\ fresh' = TRUE
           /\ position' = 0 /\ lasts' = 0 /\ late' = FALSE /\ broken' = FALSE /\ switched' = FALSE
  <2>1. packet' # NoPacket /\ Words(packet') \in Nat /\ Words(packet') >= 2
    BY <1>3, NewPacket, WordsOf
  <2>2. InputOK'
    BY <1>1, <1>3, <2>1 DEF BlockInv, InputOK, Under
  <2>3. W * 0 = 0
    BY Times
  <2>4. AdderOK'
    <3> SUFFICES ASSUME ~crowded' PROVE AdderOK'
      BY DEF AdderOK
    <3>1. ~crowded /\ state # "EXTRA_SLOT"
      BY <1>1
    <3>2. state = "IDLE" /\ counter = 0
      BY <1>3, <3>1 DEF BlockInv, AdderOK, Under
    <3> QED BY <1>1, <1>3, <2>1, <3>2 DEF AdderOK, Under, Body, Done
  <2>5. AddedOK' /\ FramesOK'
    BY <1>1, <1>3, <2>1, <2>3 DEF AddedOK, FramesOK, Done, Body
  <2>6. ModifierOK'
    BY <1>1, <1>3, <2>1, <2>3 DEF BlockInv, ModifierOK, Under, Done, Body
  <2> QED BY <1>1, <2>2, <2>4, <2>5, <2>6 DEF BlockInv, StateOK
<1> QED BY <1>2, <1>3 DEF Offer, Under

\* A cycle in which the output holds the word, or takes the extra slot instead.
LEMMA HeldKeeps == ASSUME BlockInv, Held PROVE BlockInv'
<1>1. /\ offered /\ fresh' = FALSE /\ late' = (late \/ word = 0) /\ broken' = TRUE
      /\ UNCHANGED << packet, word, offered, packets, crowded >>
  BY DEF Held
<1>2. Under /\ packet \in Packets /\ word \in Nat /\ word < Words(packet) /\ Words(packet) \in Nat
  BY <1>1, PacketOf, WordsOf DEF BlockInv, InputOK
<1>3. ~Done /\ word \in {0} \cup Body
  BY <1>2 DEF Done, Body
<1>4. InputOK' /\ AddedOK'
  BY <1>1 DEF BlockInv, InputOK, AddedOK, Under
<1>5. CASE state = "EXTRA_SLOT" /\ Add(TRUE) /\ Modify(TRUE) /\ switched' = (switched \/ packet.kind # "write")
  <2>1. state' = "IDLE" /\ crowded
    BY <1>2, <1>3, <1>5 DEF BlockInv, AdderOK, Add, AddIdle, AddWaits, AddExtraSlot
  <2>2. word = 0
    BY <1>2, <1>3, <1>5 DEF BlockInv, ModifierOK
  <2>3. ~Last
    BY <1>2, <2>2, WordsOf DEF Last
  <2>4. mcounter' = W
    BY <1>1, <1>2, <1>5, <2>2, <2>3, Width DEF BlockInv, ModifierOK, Modify
  <2>5. ModifierOK'
    BY <1>1, <1>2, <1>3, <1>5, <2>1, <2>2, <2>4 DEF ModifierOK, Under, Done, Body
  <2> QED BY <1>1, <1>4, <2>1, <2>5 DEF BlockInv, StateOK, AdderOK, FramesOK
<1>6. CASE Add(FALSE) /\ Modify(FALSE) /\ Silent /\ switched' = switched
  <2>1. state' = state /\ (state # "EXTRA_SLOT" => counter' = counter) /\ UNCHANGED << position, lasts, mcounter, mreg >>
    BY <1>6 DEF Add, AddIdle, AddWaits, AddExtraSlot, Modify, modifier, Silent
  <2>2. ModifierOK'
    BY <1>1, <1>6, <2>1 DEF BlockInv, ModifierOK, Under, Done, Body
  <2>3. ~crowded => state # "EXTRA_SLOT"
    BY <1>2, <1>3 DEF BlockInv, AdderOK
  <2>4. AdderOK' /\ FramesOK'
    <3> SUFFICES ASSUME ~crowded PROVE AdderOK' /\ FramesOK'
      BY <1>1 DEF AdderOK, FramesOK
    <3>1. UNCHANGED << state, counter, lasts, packet, word, switched >>
      BY <1>1, <1>6, <2>1, <2>3
    <3>2. (Own' <=> Own) /\ (Done' <=> Done) /\ Body' = Body /\ (Under' <=> Under)
      BY <3>1 DEF Own, Extra, Done, Body, Under
    <3> QED BY <1>1, <3>1, <3>2 DEF BlockInv, AdderOK, FramesOK
  <2> QED BY <1>4, <2>1, <2>2, <2>4 DEF BlockInv, StateOK
<1>7. ASSUME Add(TRUE), Modify(TRUE), NEW chosen \in Chosen, Extra(chosen), SwitchesSlot(chosen)
      PROVE  state = "EXTRA_SLOT" /\ switched' = (switched \/ packet.kind # "write")
  BY <1>7 DEF Extra, SwitchesSlot
<1> QED BY <1>5, <1>6, <1>7 DEF Held

\* A cycle without a word.
LEMMA BubbleKeeps == ASSUME BlockInv, Bubble PROVE BlockInv'
<1>1. /\ ~offered /\ Under /\ UNCHANGED << packet, word, offered, fresh, packets, late, crowded >>
  BY DEF Bubble, Under
<1>2. PICK ready \in BOOLEAN, chosen \in Kinds :
        /\ Add(ready) /\ Modify(ready)
        /\ IF Extra(chosen) /\ ready THEN Emit(ExtraWord) ELSE Silent
        /\ IF ready THEN SwitchesSlot(chosen) ELSE switched' = switched
        /\ IF Done /\ (ready \/ state # "EXTRA_SLOT") THEN broken' = broken ELSE broken' = TRUE
  <2>1. "none" \in Kinds
    BY DEF Kinds
  <2>2. CASE /\ Add(TRUE) /\ Modify(TRUE) /\ Pause(Done)
             /\ \E chosen \in Kinds :
                  /\ IF Extra(chosen) THEN Emit(ExtraWord) ELSE Silent
                  /\ SwitchesSlot(chosen)
    BY <2>2 DEF Pause
  <2>3. CASE Add(FALSE) /\ Modify(FALSE) /\ Silent /\ switched' = switched /\ Pause(Done /\ state # "EXTRA_SLOT")
    BY <2>1, <2>3 DEF Pause
  <2> QED BY <2>2, <2>3 DEF Bubble
<1>3. packet \in Packets /\ word \in Nat /\ word <= Words(packet) /\ Words(packet) \in Nat /\ word # 0 /\ ~fresh
  BY <1>1, PacketOf, WordsOf DEF BlockInv, InputOK
<1>4. Done \/ word \in Body
  BY <1>3 DEF Done, Body
<1>5. UNCHANGED << mcounter, mreg >>
  BY <1>1, <1>2 DEF Modify, modifier
<1>6. CASE state # "EXTRA_SLOT"
  <2>1. ~Extra(chosen) /\ ~Own /\ UNCHANGED << state, counter, reg, byte_count, position, lasts >>
    BY <1>1, <1>2, <1>6 DEF Own, Extra, Add, AddIdle, AddWaits, AddExtraSlot, Silent
  <2>2. InputOK' /\ StateOK' /\ (switched' <=> switched)
    BY <1>1, <1>2, <2>1 DEF BlockInv, InputOK, StateOK, Under, SwitchesSlot, Own
  <2>3. AdderOK' /\ FramesOK'
    BY <1>1, <2>1, <2>2 DEF BlockInv, AdderOK, FramesOK, Under, Done, Body, Own, Extra
  <2>4. ModifierOK'
    BY <1>1, <1>5, <2>1, <2>2 DEF BlockInv, ModifierOK, Under, Done, Body
  <2>5. word \in Body => broken' /\ ~Done
    BY <1>2, <1>3 DEF Done, Body
  <2>6. AddedOK'
    BY <1>1, <1>3, <1>4, <1>6, <2>1, <2>5 DEF AddedOK, Under, Done, Body
  <2> QED BY <2>2, <2>3, <2>4, <2>6 DEF BlockInv
<1>7. CASE state = "EXTRA_SLOT"
  <2>1. Done
    BY <1>1, <1>3, <1>7 DEF BlockInv, ModifierOK
  <2>2. counter' = 0 /\ state' = IF ready THEN "IDLE" ELSE "EXTRA_SLOT"
    BY <1>2, <1>7 DEF Add, AddIdle, AddWaits, AddExtraSlot
  <2>3. InputOK'
    BY <1>1 DEF BlockInv, InputOK, Under
  <2>4. ~switched' => ~switched /\ lasts' = IF Own /\ ready THEN lasts + 1 ELSE lasts
    <3>1. ready /\ ~switched' => ~switched /\ (Extra(chosen) <=> Own)
      BY <1>2 DEF SwitchesSlot, Own
    <3> QED BY <1>2, <3>1 DEF Emit, Silent, ExtraWord
  <2>5. AdderOK' /\ FramesOK'
    <3> SUFFICES ASSUME ~crowded PROVE AdderOK' /\ FramesOK'
      BY <1>1 DEF AdderOK, FramesOK
    <3>1. Own' <=> Own /\ ~ready
      BY <1>1, <1>7, <2>2 DEF Own, Extra
    <3>2. ~switched' => lasts = IF Own THEN 0 ELSE 1
      BY <1>1, <2>1, <2>4 DEF BlockInv, FramesOK
    <3>3. ~switched' => lasts' = IF Own' THEN 0 ELSE 1
      BY <2>4, <3>1, <3>2
    <3> QED BY <1>1, <1>3, <2>1, <2>2, <3>3 DEF AdderOK, FramesOK, Under, Done, Body
  <2>6. AddedOK'
    <3>1. ~ready => position' = position /\ switched' = switched
      BY <1>2 DEF Silent
    <3> QED BY <1>1, <1>2, <1>3, <1>7, <2>1, <2>2, <3>1 DEF BlockInv, AddedOK, Under, Done, Body
  <2>7. packet.kind = "modify" /\ ~switched' => position' = position /\ ~switched
    <3> SUFFICES ASSUME packet.kind = "modify", ~switched' PROVE position' = position /\ ~switched
      OBVIOUS
    <3>1. ~Own
      BY DEF Own, Extra
    <3>2. ready => ~Extra(chosen) /\ ~switched
      BY <1>2, <3>1 DEF SwitchesSlot, Own
    <3> QED BY <1>2, <3>2 DEF Silent
  <2>8. ModifierOK'
    BY <1>1, <1>3, <1>5, <2>1, <2>2, <2>7 DEF BlockInv, ModifierOK, Under, Done, Body
  <2> QED BY <2>2, <2>3, <2>5, <2>6, <2>8 DEF BlockInv, StateOK
<1> QED BY <1>6, <1>7

-----------------------------------------------------------------------------
(* A word is taken                                                         *)

\* The word at the input, and what moves with it.
LEMMA TakenIs ==
  ASSUME BlockInv, Taken
  PROVE  /\ offered /\ Under /\ ~Done /\ word' = word + 1 /\ ~offered' /\ ~fresh' /\ Under'
         /\ UNCHANGED << packet, gap, packets, holds, late, broken, crowded >>
         /\ packet \in Packets /\ word \in Nat /\ Words(packet) \in Nat /\ Words(packet) >= 2 /\ word < Words(packet)
         /\ word = 0 \/ word \in Body
         /\ Last => word \in Body /\ Done' /\ Rest(packet) = packet.len - W * word /\ Tkeep = Rest(packet)
         /\ ~Last => word' \in Body' /\ ~Done' /\ Tkeep = W
         /\ W * word \in Nat /\ W * word' = W * word + W
<1>1. offered /\ word' = word + 1 /\ ~offered' /\ ~fresh'
      /\ UNCHANGED << packet, gap, packets, holds, late, broken, crowded >>
  BY DEF Taken, history
<1>2. Under /\ packet \in Packets /\ word \in Nat /\ Words(packet) \in Nat /\ Words(packet) >= 2 /\ word < Words(packet)
  BY <1>1, PacketOf, WordsOf DEF BlockInv, InputOK
<1>3. Under' /\ ~Done /\ (word = 0 \/ word \in Body)
  BY <1>1, <1>2 DEF Under, Done, Body
<1>4. Last => word \in Body /\ Done' /\ Rest(packet) = packet.len - W * word /\ Tkeep = Rest(packet)
  <2> SUFFICES ASSUME Last PROVE word \in Body /\ Done' /\ Rest(packet) = packet.len - W * word /\ Tkeep = Rest(packet)
    OBVIOUS
  <2>1. word = Words(packet) - 1
    BY DEF Last
  <2>2. Rest(packet) = packet.len - W * word /\ word * W = W * word
    BY <1>2, <2>1, WordsOf, Times
  <2> QED BY <1>1, <1>2, <2>1, <2>2 DEF Body, Done, Tkeep
<1>5. ~Last => word' \in Body' /\ ~Done' /\ Tkeep = W
  BY <1>1, <1>2 DEF Last, Body, Done, Tkeep
<1> QED BY <1>1, <1>2, <1>3, <1>4, <1>5, Times

\* modify_field counts the word whatever add_field does.
LEMMA TakenCounts ==
  ASSUME BlockInv, Taken
  PROVE  /\ ~Last => mcounter' = W
         /\ Last => mcounter' = 0
         /\ state' = "EXTRA_SLOT" => Last
         /\ StateOK'
<1>1. offered /\ Add(TRUE) /\ Modify(TRUE)
  BY DEF Taken
<1>2. Under /\ (word = 0 \/ word \in Body) /\ (Last => word \in Body) /\ W >= 8
  BY TakenIs, Width
<1>3. (~Last => mcounter' = W) /\ (Last => mcounter' = 0)
  BY <1>1, <1>2 DEF BlockInv, ModifierOK, Modify
<1>4. state' = "EXTRA_SLOT" => Last
  BY <1>1 DEF Add, AddIdle, AddWaits, AddExtraSlot
<1>5. StateOK'
  BY <1>1 DEF BlockInv, StateOK, Add, AddIdle, AddWaits, AddExtraSlot
<1> QED BY <1>3, <1>4, <1>5

\* Where add_field is when a word is taken, if no packet met an extra slot.
LEMMA TakenAdds ==
  ASSUME BlockInv, Taken, ~crowded
  PROVE  /\ counter = W * word
         /\ IF word = 0 THEN state = "IDLE" /\ state' \in {"WAIT_EXTRA_SLOT", "WAIT_EOP"}
            ELSE /\ state \in {"WAIT_EXTRA_SLOT", "WAIT_EOP"}
                 /\ state' = IF ~Last THEN state ELSE IF state = "WAIT_EOP" THEN "IDLE" ELSE "EXTRA_SLOT"
                 /\ UNCHANGED << reg, byte_count >>
         /\ counter' = IF Last THEN 0 ELSE W * word'
<1>1. offered /\ Add(TRUE) /\ Under /\ (word = 0 \/ word \in Body) /\ W * word' = W * word + W /\ word \in Nat
  BY TakenIs DEF Taken
<1>2. word = 0 => state = "IDLE" /\ counter = W * word
  BY <1>1, Times DEF BlockInv, AdderOK
<1>3. word # 0 => state \in {"WAIT_EXTRA_SLOT", "WAIT_EOP"} /\ counter = W * word
  BY <1>1 DEF BlockInv, AdderOK
<1>4. counter' = IF Last THEN 0 ELSE W * word'
  BY <1>1, <1>2, <1>3 DEF Add
<1>5. word = 0 => state' \in {"WAIT_EXTRA_SLOT", "WAIT_EOP"}
  BY <1>1, <1>2 DEF Add, AddIdle, AddWaits, AddExtraSlot
<1>6. word # 0 => /\ state' = IF ~Last THEN state ELSE IF state = "WAIT_EOP" THEN "IDLE" ELSE "EXTRA_SLOT"
                  /\ UNCHANGED << reg, byte_count >>
  BY <1>1, <1>3 DEF Add, AddIdle, AddWaits, AddExtraSlot
<1> QED BY <1>2, <1>3, <1>4, <1>5, <1>6

\* The word that leaves, if the output is not switched.
LEMMA TakenSends ==
  ASSUME BlockInv, Taken, ~switched'
  PROVE  /\ packet.kind = "write"  => Emit(AddWord)
         /\ packet.kind = "modify" => Emit(ModifyWord)
         /\ packet.kind = "none"   => Emit(PlainWord)
         /\ packet.kind \in Kinds /\ ~switched
<1>1. PICK chosen \in Chosen :
        /\ Emit(CASE chosen = "write"  -> AddWord
                  [] chosen = "modify" -> ModifyWord
                  [] OTHER             -> PlainWord)
        /\ Switches(chosen)
  BY DEF Taken
<1>2. chosen = packet.kind /\ ~switched
  BY <1>1 DEF Switches
<1>3. packet.kind \in Kinds
  BY TakenIs, PacketOf DEF BlockInv
<1> QED BY <1>1, <1>2, <1>3 DEF Kinds

\* One TLAST per packet: add_field keeps it back for the extra slot.
LEMMA TakenFrames ==
  ASSUME BlockInv, Taken, ~crowded, ~switched'
  PROVE  lasts' = IF ~Done' \/ Own' THEN 0 ELSE 1
<1>1. lasts' = IF (IF packet.kind = "write" THEN AddLast ELSE Last) THEN lasts + 1 ELSE lasts
  <2>1. AddWord.last = AddLast /\ ModifyWord.last = Last /\ PlainWord.last = Last
    BY DEF AddWord, ModifyWord, PlainWord
  <2> QED BY <2>1, TakenSends DEF Kinds, Emit
<1>2. lasts = 0
  BY TakenIs, TakenSends DEF BlockInv, FramesOK
<1>3. CASE ~Last
  BY <1>1, <1>2, <1>3, TakenIs DEF AddLast
<1>4. CASE Last
  <2>1. Done' /\ word # 0 /\ packet' = packet
    BY <1>4, TakenIs DEF Body
  <2>2. state \in {"WAIT_EXTRA_SLOT", "WAIT_EOP"} /\ state' = IF state = "WAIT_EOP" THEN "IDLE" ELSE "EXTRA_SLOT"
    BY <1>4, <2>1, TakenAdds
  <2>3. Own' <=> packet.kind = "write" /\ state = "WAIT_EXTRA_SLOT"
    BY <2>1, <2>2 DEF Own, Extra
  <2>4. AddLast <=> state # "WAIT_EXTRA_SLOT"
    BY <1>4 DEF AddLast
  <2> QED BY <1>1, <1>2, <1>4, <2>1, <2>3, <2>4
<1> QED BY <1>3, <1>4

\* How many bytes leave.
LEMMA ModifyMoves ==
  ASSUME BlockInv, Taken, packet.kind = "modify", ~switched'
  PROVE  /\ position = W * word /\ position' = W * word + Tkeep
         /\ out' = ModifyWord /\ DOMAIN ModifyWord.bytes = 1..Tkeep /\ Len(ModifyWord.bytes) = Tkeep
         /\ Tkeep \in Nat
<1>1. Tkeep \in Nat
  BY TakenIs, WordsOf, Width
<1>2. PICK k \in Nat : k = Tkeep
  BY <1>1
<1>3. ModifyWord.bytes = [i \in 1..k |-> Overwritten(ModifyRequest.offset - mcounter, ModifyRequest.size, i - 1)]
  BY <1>2 DEF ModifyWord
<1>4. Len(ModifyWord.bytes) = k /\ DOMAIN ModifyWord.bytes = 1..k
  BY <1>2, <1>3
<1>5. position = W * word
  BY TakenIs, TakenSends DEF BlockInv, ModifierOK
<1> QED BY <1>1, <1>2, <1>4, <1>5, TakenSends DEF Emit

\* The request add_field goes by, and what it makes of the last word.
LEMMA AddGoesBy ==
  ASSUME BlockInv, Taken, packet.kind = "write", ~broken, ~crowded
  PROVE  /\ AddRequest = packet.request
         /\ word # 0 => /\ state # "WAIT_EOP" => Rest(packet) + packet.request.size > W - 1
                        /\ state = "WAIT_EOP" => Rest(packet) + packet.request.size <= W - 1
         /\ AddKeep = IF Last /\ state = "WAIT_EOP" THEN Tkeep + packet.request.size ELSE Tkeep
         /\ AddKeep \in Nat
<1>1. Under /\ (word = 0 \/ word \in Body) /\ word \in Nat /\ ~Done
  BY TakenIs
<1>2. AddRequest = packet.request
  <2>1. word = 0 => fresh
    BY <1>1 DEF BlockInv, AddedOK
  <2>2. word # 0 => ~fresh /\ reg = packet.request
    BY <1>1 DEF BlockInv, InputOK, AddedOK
  <2> QED BY <2>1, <2>2 DEF AddRequest
<1>3. word # 0 => /\ state # "WAIT_EOP" => Rest(packet) + packet.request.size > W - 1
                  /\ state = "WAIT_EOP" => Rest(packet) + packet.request.size <= W - 1
  BY <1>1 DEF BlockInv, AddedOK
<1>4. packet.request.size \in {0, 1, 2, 4} /\ Rest(packet) \in 1..W /\ W \in Nat
  BY TakenIs, PacketOf, WordsOf, Width DEF BlockInv
<1>5. CASE Last
  <2>1. word # 0 /\ Tkeep = Rest(packet)
    BY <1>5, TakenIs DEF Body
  <2>2. state \in {"WAIT_EXTRA_SLOT", "WAIT_EOP"}
    BY <2>1, TakenAdds
  <2>3. CASE state = "WAIT_EOP"
    <3>1. Tkeep + packet.request.size <= W /\ Tkeep + packet.request.size \in Nat
      BY <1>3, <1>4, <2>1, <2>3
    <3>2. AddKeep = Tkeep + packet.request.size
      BY <1>2, <1>5, <2>3, <3>1 DEF AddKeep
    <3> QED BY <1>2, <1>3, <1>5, <2>3, <3>1, <3>2
  <2>4. CASE state = "WAIT_EXTRA_SLOT"
    <3>1. AddKeep = Tkeep /\ Tkeep \in Nat
      BY <1>4, <1>5, <2>1, <2>4 DEF AddKeep
    <3> QED BY <1>2, <1>3, <2>4, <3>1
  <2> QED BY <2>2, <2>3, <2>4
<1>6. CASE ~Last
  <2>1. AddKeep = W /\ Tkeep = W
    BY <1>6, TakenIs DEF AddKeep
  <2> QED BY <1>2, <1>3, <1>4, <1>6, <2>1
<1> QED BY <1>5, <1>6

\* The word of add_field leaves behind those before it.
LEMMA AddMoves ==
  ASSUME BlockInv, Taken, packet.kind = "write", ~broken, ~crowded, ~switched'
  PROVE  /\ position = W * word /\ position' = W * word + AddKeep
         /\ out' = AddWord /\ DOMAIN AddWord.bytes = 1..AddKeep /\ Len(AddWord.bytes) = AddKeep
<1>2. PICK k \in Nat : k = AddKeep
  BY AddGoesBy
<1>3. AddWord.bytes = [i \in 1..k |-> Inserted(AddRequest.offset - counter, AddRequest.size, i - 1)]
  BY <1>2 DEF AddWord
<1>4. Len(AddWord.bytes) = k /\ DOMAIN AddWord.bytes = 1..k
  BY <1>2, <1>3
<1>5. position = W * word
  BY TakenIs, TakenSends DEF BlockInv, AddedOK
<1> QED BY <1>2, <1>4, <1>5, TakenSends DEF Emit

\* The request stays selected, and temp_tdata holds the end of the word.
LEMMA TakenAdded == ASSUME BlockInv, Taken PROVE AddedOK'
<1> SUFFICES ASSUME packet.kind = "write", ~broken, ~crowded PROVE AddedOK'
  BY TakenIs DEF AddedOK
<1>1. /\ Under /\ word \in Nat /\ packet' = packet /\ word' = word + 1 /\ offered /\ packet \in Packets
      /\ W * word' = W * word + W /\ W * word \in Nat /\ (word = 0 \/ word \in Body)
  BY TakenIs
<1>2. packet.request.size \in {0, 1, 2, 4} /\ Rest(packet) \in 1..W /\ W \in Nat /\ packet.len \in Nat
  BY <1>1, PacketOf, WordsOf, Width DEF BlockInv
<1>3. ~switched' => (~Done' => position' = W * word') /\ (Done' /\ state' = "EXTRA_SLOT" => position' = packet.len)
  <2> SUFFICES ASSUME ~switched'
               PROVE  (~Done' => position' = W * word') /\ (Done' /\ state' = "EXTRA_SLOT" => position' = packet.len)
    OBVIOUS
  <2>1. ~Done' => ~Last
    BY TakenIs
  <2>2. ~Last => AddKeep = W
    BY TakenIs, AddGoesBy
  <2>3. Done' => Last
    BY TakenIs
  <2>4. ASSUME Last, state' = "EXTRA_SLOT" PROVE position' = packet.len
    <3>1. word # 0 /\ Rest(packet) = packet.len - W * word /\ Tkeep = Rest(packet)
      BY <2>4, TakenIs DEF Body
    <3>2. state # "WAIT_EOP"
      BY <2>4, <3>1, TakenAdds
    <3>3. AddKeep = packet.len - W * word
      BY <3>1, <3>2, AddGoesBy
    <3> QED BY <1>1, <1>2, <3>3, AddMoves
  <2> QED BY <1>1, <2>1, <2>2, <2>3, <2>4, AddMoves
<1>4. /\ reg' = packet.request
      /\ state' \in {"WAIT_EXTRA_SLOT", "EXTRA_SLOT"} =>
           Rest(packet) + packet.request.size > W - 1 /\ byte_count' = (Rest(packet) + packet.request.size) % 8
      /\ state' = "WAIT_EOP" => Rest(packet) + packet.request.size <= W - 1
  <2>1. CASE word = 0
    <3>1. fresh /\ state = "IDLE" /\ Add(TRUE)
      BY <2>1, TakenIs, TakenAdds DEF Taken, BlockInv, AddedOK
    <3>2. In = {packet.request} /\ Resto = {Rest(packet)}
      BY <2>1, <3>1 DEF In, Resto
    <3>3. AddIdle(TRUE)
      BY <3>1 DEF Add, AddWaits, AddExtraSlot
    <3>4. /\ reg' = packet.request
          /\ IF Rest(packet) + packet.request.size > W - 1
             THEN state' = "WAIT_EXTRA_SLOT" /\ byte_count' = (Rest(packet) + packet.request.size) % 8
             ELSE state' = "WAIT_EOP"
      BY <1>1, <3>2, <3>3 DEF AddIdle
    <3> QED BY <1>2, <3>4
  <2>2. CASE word # 0
    <3>1. reg' = reg /\ byte_count' = byte_count /\ state \in {"WAIT_EXTRA_SLOT", "WAIT_EOP"}
          /\ (state' \in {"WAIT_EXTRA_SLOT", "EXTRA_SLOT"} => state # "WAIT_EOP")
          /\ (state' = "WAIT_EOP" => state = "WAIT_EOP")
      BY <2>2, TakenAdds
    <3> QED BY <1>1, <2>2, <3>1 DEF BlockInv, AddedOK
  <2> QED BY <2>1, <2>2
<1>5. \A k \in 0..3 : temp'[k] = IF W * word' - 4 + k < packet.len THEN W * word' - 4 + k ELSE Unknown
  <2>1. temp' = [k \in 0..3 |-> Tdata[W - 4 + k]]
    BY <1>1 DEF Taken, Add
  <2>2. PICK x \in Nat : x = W * word /\ word * W = x
    BY <1>1, Times
  <2>3. \A k \in 0..3 : W - 4 + k \in 0..W-1 /\ x + (W - 4 + k) = x + W - 4 + k
    BY <2>2, Width
  <2>4. Tdata = [i \in 0..W - 1 |-> IF x + i < packet.len THEN x + i ELSE Unknown]
    BY <2>2 DEF Tdata
  <2>5. \A k \in 0..3 : temp'[k] = IF x + W - 4 + k < packet.len THEN x + W - 4 + k ELSE Unknown
    BY <2>1, <2>3, <2>4
  <2>6. \A k \in 0..3 : W * word' - 4 + k = x + W - 4 + k
    BY <1>1, <2>2, Width
  <2> QED BY <2>5, <2>6
<1>6. word' # 0
  BY <1>1
<1>7. word' \in Body' \/ (Done' /\ state' = "EXTRA_SLOT") => state' \in {"WAIT_EXTRA_SLOT", "WAIT_EOP", "EXTRA_SLOT"}
  <2>1. word = 0 => state' \in {"WAIT_EXTRA_SLOT", "WAIT_EOP"}
    BY TakenAdds
  <2>2. word # 0 /\ ~Last => state' \in {"WAIT_EXTRA_SLOT", "WAIT_EOP"}
    BY TakenAdds
  <2>3. Last => Done' /\ word # 0
    BY TakenIs DEF Body
  <2>4. word' \in Body' => ~Done'
    BY <1>1, WordsOf DEF Body, Done
  <2> QED BY <2>1, <2>2, <2>3, <2>4
<1> QED BY <1>1, <1>3, <1>4, <1>5, <1>6, <1>7 DEF AddedOK

\* A word that is taken.
LEMMA TakenKeeps == ASSUME BlockInv, Taken PROVE BlockInv'
<1>1. InputOK'
  BY TakenIs DEF BlockInv, InputOK
<1>2. AdderOK' /\ FramesOK'
  <2> SUFFICES ASSUME ~crowded PROVE AdderOK' /\ FramesOK'
    BY TakenIs DEF AdderOK, FramesOK
  <2>1. Under' /\ word' # 0 /\ (Done' => Last) /\ (word' \in Body' => ~Last) /\ (Last => word # 0)
    BY TakenIs DEF Body, Done
  <2>2. Last => state' \in {"IDLE", "EXTRA_SLOT"} /\ counter' = 0
    BY <2>1, TakenAdds
  <2>3. ~Last => state' \in {"WAIT_EXTRA_SLOT", "WAIT_EOP"} /\ counter' = W * word'
    BY TakenAdds
  <2>4. FramesOK'
    BY TakenFrames DEF FramesOK
  <2> QED BY <2>1, <2>2, <2>3, <2>4 DEF AdderOK
<1>3. ModifierOK'
  <2>1. packet.kind = "modify" /\ ~switched' => position' = IF Done' THEN packet.len ELSE W * word'
    <3> SUFFICES ASSUME packet.kind = "modify", ~switched' PROVE position' = IF Done' THEN packet.len ELSE W * word'
      OBVIOUS
    <3>1. position' = W * word + Tkeep
      BY ModifyMoves
    <3>2. ~Last => ~Done' /\ Tkeep = W /\ W * word' = W * word + W
      BY TakenIs
    <3>3. Last => Done' /\ Tkeep = packet.len - W * word
      BY TakenIs
    <3>4. packet.len \in Nat /\ W * word \in Nat
      BY TakenIs, WordsOf
    <3> QED BY <3>1, <3>2, <3>3, <3>4
  <2>2. packet.kind = "modify" /\ ~late => mreg' = packet.request
    <3> SUFFICES ASSUME packet.kind = "modify", ~late PROVE mreg' = packet.request
      OBVIOUS
    <3>1. Modify(TRUE) /\ offered /\ Under /\ (word = 0 \/ word \in Body)
      BY TakenIs DEF Taken
    <3>2. CASE word = 0
      BY <3>1, <3>2 DEF Modify, In, BlockInv, ModifierOK
    <3>3. CASE word \in Body
      BY <3>1, <3>3, Width DEF Modify, BlockInv, ModifierOK
    <3> QED BY <3>1, <3>2, <3>3
  <2>3. Under' /\ word' # 0 /\ (Done' => Last) /\ (word' \in Body' => ~Last) /\ (Last => Done') /\ packet' = packet /\ late' = late
    BY TakenIs DEF Body, Done
  <2> QED BY <2>1, <2>2, <2>3, TakenCounts DEF ModifierOK
<1> QED BY <1>1, <1>2, <1>3, TakenAdded, TakenCounts DEF BlockInv

\* BlockInv is inductive.
LEMMA StepKeepsBlock == ASSUME BlockInv, [Next]_vars PROVE BlockInv'
<1>1. CASE UNCHANGED vars
  BY <1>1 DEF vars, input, adder, modifier, output, history, BlockInv, InputOK, StateOK, AdderOK, FramesOK, AddedOK, ModifierOK,
              Under, Done, Body, Own, Extra
<1> QED BY <1>1, OfferKeeps, TakenKeeps, HeldKeeps, BubbleKeeps DEF Next

\* BlockInv is an invariant.
LEMMA BlockSafe == Spec => []BlockInv
<1>1. BlockInv /\ [Next]_vars => BlockInv'
  BY StepKeepsBlock
<1> QED BY <1>1, InitBlock, PTL DEF Spec

\* A packet leaves with one TLAST, for words and packets of any length, any fields
\* and any stalls, as long as the output is not switched in it and no packet meets
\* an extra slot (write_field.vhd:302): TLAST is kept back by one word where a slot
\* follows.
THEOREM FramesAreWhole == Spec => []FramesMatch
<1>1. BlockInv => FramesMatch
  <2> SUFFICES ASSUME BlockInv, Done, Under, state # "EXTRA_SLOT", ~crowded, ~switched PROVE lasts = 1
    BY DEF FramesMatch, Under
  <2> QED BY DEF BlockInv, FramesOK, Own, Extra
<1> QED BY <1>1, BlockSafe, PTL

-----------------------------------------------------------------------------
(* modify_field                                                            *)

\* Byte i of the word at the input.
LEMMA Data ==
  ASSUME word \in Nat, NEW i \in 0..W-1, packet.len \in Nat
  PROVE  Tdata[i] = IF W * word + i < packet.len THEN W * word + i ELSE Unknown
<1>1. PICK x \in Nat : x = W * word /\ word * W = x
  BY Times
<1> QED BY <1>1 DEF Tdata

\* A field that can be overwritten lies in the first word, or in two words.
LEMMA OverwritableIn ==
  ASSUME NEW p \in Packets, Overwritable(p), p.request.offset \in Nat,
         p.request.size \in {1, 2, 4}
  PROVE  /\ p.request.offset + p.request.size <= p.len
         /\ Words(p) = 2 \/ p.request.offset + p.request.size <= W
         /\ p.request.offset < W =>
              /\ p.request.offset >= p.request.size
              /\ ~ (p.request.size < 4 /\ p.request.offset = W - p.request.size)
         /\ p.request.offset >= W =>
              /\ Words(p) = 2 /\ p.request.offset - W < W /\ p.request.offset - W >= p.request.size
              /\ ~ (p.request.size < 4 /\ p.request.offset - W = W - p.request.size)
<1>1. PICK n \in {1, 2, 4} : n = p.request.size
  OBVIOUS
<1>2. PICK o \in Nat : o = p.request.offset
  OBVIOUS
<1>3. /\ o + n <= p.len /\ o % W >= n /\ ~ (n < 4 /\ o % W = W - n)
      /\ Words(p) = 2 \/ o + n <= W
  BY <1>1, <1>2 DEF Overwritable
<1>4. o < W => o % W = o
  <2>1. o < W => o \in 0..W-1 /\ W * 0 + o = o
    BY Width
  <2> QED BY <2>1, Divided
<1>5. o >= W => Words(p) = 2 /\ o - W < W /\ o % W = o - W
  <2> SUFFICES ASSUME o >= W PROVE Words(p) = 2 /\ o - W < W /\ o % W = o - W
    OBVIOUS
  <2>1. Words(p) = 2
    BY <1>3, Width
  <2>2. p.len \in Nat /\ p.len <= 2 * W
    BY <2>1, WordsOf, Width
  <2>3. o - W \in 0..W-1 /\ W * 1 + (o - W) = o
    BY <1>3, <2>2, Width
  <2>4. o % W = o - W
    BY <2>3, Divided
  <2>5. o - W < W
    BY <2>3, Width
  <2> QED BY <2>1, <2>4, <2>5
<1>6. W \in Nat
  BY Width
<1> QED BY <1>1, <1>2, <1>3, <1>4, <1>5, <1>6

\* The bytes of a word in which, or behind which, the field is.
LEMMA OverwrittenIs ==
  ASSUME packet \in Packets, word \in Nat, word < Words(packet), Overwritable(packet),
         packet.request.offset \in Nat, packet.request.size \in {0, 1, 2, 4},
         NEW c, c = (IF word = 0 THEN 0 ELSE W), NEW i \in 0..W-1, W * word + i < packet.len
  PROVE  Overwritten(packet.request.offset - c, packet.request.size, i) =
           IF W * word + i \in packet.request.offset..packet.request.offset + packet.request.size - 1
           THEN Field(W * word + i - packet.request.offset) ELSE W * word + i
<1>1. PICK n \in {0, 1, 2, 4} : n = packet.request.size
  OBVIOUS
<1>2. PICK o \in Nat : o = packet.request.offset
  OBVIOUS
<1>3. PICK x \in Nat : x = W * word
  BY Times
<1>4. PICK rel \in Int : rel = o - c
  BY Width
<1>5. Tdata[i] = x + i
  BY <1>3, WordsOf, Data
<1>6. (word = 0 => x = 0) /\ (word = 1 => x = W) /\ (word # 0 => x >= W)
  <2>1. W * 0 = 0 /\ W * 1 = W
    BY Width
  <2>2. word # 0 => W * 0 + W <= x
    BY <1>3, Ordered
  <2> QED BY <1>3, <2>1, <2>2, Width
<1>7. i \in Writes(rel, n) <=> /\ i \in rel..rel + n - 1
                               /\ ~ (0 < rel /\ rel < W - n /\ i < n)
                               /\ ~ (rel = W - n /\ n < 4)
  BY DEF Writes
<1>8. Overwritten(rel, n, i) = IF i \in Writes(rel, n) THEN Field(i - rel)
                               ELSE IF rel = 0 THEN Tdata[i - n] ELSE Tdata[i]
  BY DEF Overwritten
<1>9. CASE n = 0
  <2>1. i \notin Writes(rel, n) /\ i - n = i /\ ~ (x + i \in o..o + n - 1)
    BY <1>4, <1>7, <1>9
  <2> QED BY <1>1, <1>2, <1>3, <1>4, <1>5, <1>8, <2>1
<1>10. CASE n # 0 /\ o < W
  <2>1. o >= n /\ ~ (n < 4 /\ o = W - n) /\ (Words(packet) = 2 \/ o + n <= W)
    BY <1>1, <1>2, <1>10, OverwritableIn
  <2>2. rel # 0 /\ (x + i \in o..o + n - 1 <=> i \in Writes(rel, n)) /\ (i \in Writes(rel, n) => i - rel = x + i - o)
    <3>1. CASE word = 0
      BY <1>4, <1>6, <1>7, <1>10, <2>1, <3>1, Width
    <3>2. CASE word # 0 /\ Words(packet) = 2
      <4>1. word = 1
        BY <3>2
      <4> QED BY <1>4, <1>6, <1>7, <1>10, <2>1, <4>1, Width
    <3>3. CASE word # 0 /\ o + n <= W
      BY <1>4, <1>6, <1>7, <1>10, <2>1, <3>3, Width
    <3> QED BY <2>1, <3>1, <3>2, <3>3
  <2> QED BY <1>1, <1>2, <1>3, <1>4, <1>5, <1>8, <2>2
<1>11. CASE n # 0 /\ o >= W
  <2>1. Words(packet) = 2 /\ o - W < W /\ o - W >= n /\ ~ (n < 4 /\ o - W = W - n)
    BY <1>1, <1>2, <1>11, OverwritableIn
  <2>2. rel # 0 /\ (x + i \in o..o + n - 1 <=> i \in Writes(rel, n)) /\ (i \in Writes(rel, n) => i - rel = x + i - o)
    <3>1. CASE word = 0
      BY <1>4, <1>6, <1>7, <1>11, <2>1, <3>1, Width
    <3>2. CASE word = 1
      BY <1>4, <1>6, <1>7, <1>11, <2>1, <3>2, Width
    <3> QED BY <2>1, <3>1, <3>2
  <2> QED BY <1>1, <1>2, <1>3, <1>4, <1>5, <1>8, <2>2
<1> QED BY <1>9, <1>10, <1>11, Width

\* A word that modify_field has rewritten leaves.
LEMMA ModifiedByTaken == ASSUME BlockInv, Taken PROVE FieldIsModified'
<1> SUFFICES ASSUME packet.kind = "modify", Overwritable(packet), ~late, ~switched'
             PROVE  FieldIsModified'
  <2>1. packet' = packet /\ late' = late
    BY TakenIs
  <2> QED BY <2>1 DEF FieldIsModified, Overwritable, Words
<1>1. PICK o \in Nat, n \in {0, 1, 2, 4} : o = packet.request.offset /\ n = packet.request.size
  BY TakenIs, PacketOf DEF BlockInv
<1>2. PICK x \in Nat : x = W * word
  BY TakenIs
<1>3. PICK t \in Nat : t = Tkeep /\ t <= W
  BY ModifyMoves, TakenIs, WordsOf, Width
<1>4. position' = x + t /\ out' = ModifyWord /\ Len(ModifyWord.bytes) = t
  BY <1>2, <1>3, ModifyMoves
<1>5. PICK c : c = mcounter
  OBVIOUS
<1>6. c = (IF word = 0 THEN 0 ELSE W) /\ ModifyRequest = packet.request
  <2>1. Under /\ (word = 0 \/ word \in Body)
    BY TakenIs
  <2>2. word = 0 => mcounter = 0 /\ fresh
    BY <2>1 DEF BlockInv, ModifierOK
  <2>3. word # 0 => mcounter = W /\ mreg = packet.request /\ ~fresh
    BY <2>1 DEF BlockInv, ModifierOK, InputOK
  <2> QED BY <1>5, <2>2, <2>3 DEF ModifyRequest
<1>7. \A i \in 1..t : ModifyWord.bytes[i] = Overwritten(o - c, n, i - 1)
  BY <1>1, <1>3, <1>5, <1>6 DEF ModifyWord
<1>8. x + t <= packet.len /\ packet.len \in Nat /\ (Last => x + t = packet.len)
  <2>1. packet.len \in Nat /\ W * (Words(packet) - 1) < packet.len
    BY TakenIs, WordsOf
  <2>2. CASE Last
    BY <1>2, <1>3, <2>1, <2>2, TakenIs
  <2>3. CASE ~Last
    <3>1. t = W /\ word < Words(packet) - 1 /\ Words(packet) - 1 \in Int
      <4>1. word \in Nat /\ Words(packet) \in Nat /\ word < Words(packet) /\ word # Words(packet) - 1
        BY <2>3, TakenIs DEF Last
      <4>2. t = W
        BY <1>3, <2>3, TakenIs
      <4> QED BY <4>1, <4>2
    <3>2. x + W <= W * (Words(packet) - 1)
      BY <1>2, <3>1, TakenIs, Ordered
    <3> QED BY <2>1, <2>3, <3>1, <3>2, Width
  <2> QED BY <2>2, <2>3
<1>9. \A i \in 1..t : ModifyWord.bytes[i] = IF x + i - 1 \in o..o + n - 1 THEN Field(x + i - 1 - o) ELSE x + i - 1
  <2> TAKE i \in 1..t
  <2>1. PICK j \in 0..W-1 : j = i - 1
    <3>1. i - 1 \in 0..W-1
      BY <1>3, Width
    <3> QED BY <3>1
  <2>2. x + j < packet.len
    BY <1>8, <2>1
  <2>3. Overwritten(o - c, n, j) = IF x + j \in o..o + n - 1 THEN Field(x + j - o) ELSE x + j
    BY <1>1, <1>2, <1>6, <2>2, TakenIs, OverwrittenIs
  <2>4. x + i - 1 = x + j
    BY <2>1
  <2> QED BY <1>7, <2>1, <2>3, <2>4
<1>10. ModifyWord.last => x + t = packet.len
  BY <1>8 DEF ModifyWord
<1>11. packet'.request.offset = o /\ packet'.request.size = n /\ packet'.len = packet.len
  BY <1>1, TakenIs
<1>12. x + t - t = x
  OBVIOUS
<1> QED BY <1>4, <1>9, <1>10, <1>11, <1>12 DEF FieldIsModified, Leaves

\* In a cycle in which no word leaves nothing is claimed.
LEMMA NothingModified == ASSUME out' = Nothing \/ packet'.kind # "modify" PROVE FieldIsModified'
<1> SUFFICES ASSUME out' = Nothing PROVE FieldIsModified'
  BY DEF FieldIsModified
<1>1. Len(out'.bytes) = 0 /\ ~out'.last
  BY DEF Nothing
<1>2. 1..Len(out'.bytes) = {}
  BY <1>1
<1> QED BY <1>1, <1>2 DEF FieldIsModified, Leaves

\* Words leave when they are taken, and as extra slots, of packets to be written
\* if the output is not switched.
LEMMA OthersSend ==
  ASSUME Offer \/ Held \/ Bubble, ~switched'
  PROVE  out' = Nothing \/ (packet' = packet /\ ~switched /\ Own /\ Emit(ExtraWord))
<1>1. CASE Offer
  BY <1>1 DEF Offer
<1>2. CASE Held
  BY <1>2 DEF Held, Silent, SwitchesSlot, Own
<1>3. CASE Bubble
  BY <1>3 DEF Bubble, Silent, SwitchesSlot, Own
<1> QED BY <1>1, <1>2, <1>3

\* The bytes of the field and no others are overwritten, in every packet to which
\* modify_field is applied whose startd was not lost, whatever add_field is
\* doing, as far as modify_field stays selected: where the field is in the first
\* word, or the packet has two words.
THEOREM FieldIsOverwritten == Spec => []FieldIsModified
<1>1. Init => FieldIsModified
  BY DEF Init, NoPacket, FieldIsModified
<1>2. BlockInv /\ FieldIsModified /\ [Next]_vars => FieldIsModified'
  <2>1. CASE UNCHANGED vars
    BY <2>1 DEF vars, input, output, history, FieldIsModified, Overwritable, Words, Leaves
  <2>2. ASSUME Offer \/ Held \/ Bubble PROVE FieldIsModified'
    <3> SUFFICES ASSUME ~switched' PROVE FieldIsModified'
      BY DEF FieldIsModified
    <3> QED BY <2>2, OthersSend, NothingModified DEF Own, Extra
  <2> QED BY <2>1, <2>2, ModifiedByTaken DEF Next
<1> QED BY <1>1, <1>2, BlockSafe, PTL DEF Spec

-----------------------------------------------------------------------------
(* add_field                                                               *)

\* Byte j of the packet with the field in it.
Grown(p, j) ==
  IF j < p.request.offset THEN j
  ELSE IF j < p.request.offset + p.request.size THEN Field(j - p.request.offset)
  ELSE j - p.request.size

\* The bytes of a word before the field, with it, and behind it, where what the
\* word before has lost to the field comes first.
LEMMA InsertedIs ==
  ASSUME packet \in Packets, word \in Nat, W * word < packet.len, Insertable(packet),
         packet.request.offset \in Nat, packet.request.size \in {0, 1, 2, 4},
         word # 0 => \A k \in 0..3 : temp[k] = W * word - 4 + k,
         NEW i \in 0..W-1, W * word + i < packet.len + packet.request.size
  PROVE  Inserted(packet.request.offset - W * word, packet.request.size, i) = Grown(packet, W * word + i)
<1>1. PICK n \in {0, 1, 2, 4} : n = packet.request.size
  OBVIOUS
<1>2. PICK o \in Nat : o = packet.request.offset
  OBVIOUS
<1>3. PICK x \in Nat : x = W * word
  BY Times
<1>4. PICK len \in Nat : len = packet.len
  BY WordsOf
<1>5. PICK rel \in Int : rel = o - x
  OBVIOUS
<1>6. \A k \in 0..W-1 : x + k < len => Tdata[k] = x + k
  BY <1>3, <1>4, Data
<1>7. Grown(packet, x + i) = IF x + i < o THEN x + i ELSE IF x + i < o + n THEN Field(x + i - o) ELSE x + i - n
  BY <1>1, <1>2 DEF Grown
<1>8. o < len /\ x < len /\ x + i < len + n
  BY <1>1, <1>2, <1>3, <1>4 DEF Insertable
<1>9. CASE n = 0 \/ rel >= W
  <2>1. Inserted(rel, n, i) = Tdata[i]
    BY <1>9 DEF Inserted
  <2>2. Tdata[i] = x + i
    <3>1. x + i < len
      BY <1>5, <1>8, <1>9, Width
    <3> QED BY <1>6, <3>1
  <2>3. Grown(packet, x + i) = x + i
    BY <1>5, <1>7, <1>9, Width
  <2> QED BY <1>1, <1>2, <1>3, <1>5, <2>1, <2>2, <2>3
<1>10. CASE n # 0 /\ rel \in 0..W-1
  <2>1. rel = 0 \/ rel >= n
    <3>1. o = W * word + rel
      BY <1>3, <1>5
    <3>2. o % W = rel
      BY <1>10, <3>1, Divided
    <3> QED BY <1>1, <1>2, <3>2 DEF Insertable
  <2>2. Inserted(rel, n, i) = FieldWord(rel, n, i)
    BY <1>10, Width DEF Inserted
  <2>3. CASE i < rel
    <3>1. FieldWord(rel, n, i) = Tdata[i]
      BY <2>3 DEF FieldWord
    <3>2. x + i < len /\ x + i < o
      BY <1>5, <1>8, <2>3, Width
    <3> QED BY <1>1, <1>2, <1>3, <1>5, <1>6, <1>7, <2>2, <3>1, <3>2
  <2>4. CASE i >= rel /\ i < rel + n
    <3>1. FieldWord(rel, n, i) = Field(i - rel)
      <4>1. ~ (i < rel) /\ ~ (0 < rel /\ i < n) /\ i < rel + n
        BY <1>10, <2>1, <2>4
      <4> QED BY <4>1 DEF FieldWord
    <3>2. ~ (x + i < o) /\ x + i < o + n /\ x + i - o = i - rel
      BY <1>5, <2>4, Width
    <3> QED BY <1>1, <1>2, <1>3, <1>5, <1>7, <2>2, <3>1, <3>2
  <2>5. CASE i >= rel + n
    <3>1. FieldWord(rel, n, i) = Tdata[i - n]
      <4>1. ~ (i < rel) /\ ~ (0 < rel /\ i < n) /\ ~ (i < rel + n)
        BY <1>10, <2>1, <2>5
      <4> QED BY <4>1 DEF FieldWord
    <3>2. ~ (x + i < o) /\ ~ (x + i < o + n) /\ i - n \in 0..W-1 /\ x + (i - n) < len /\ x + (i - n) = x + i - n
      BY <1>5, <1>8, <1>10, <2>5, Width
    <3> QED BY <1>1, <1>2, <1>3, <1>5, <1>6, <1>7, <2>2, <3>1, <3>2
  <2> QED BY <1>10, <2>3, <2>4, <2>5, Width
<1>11. CASE n # 0 /\ rel < 0
  <2>1. word # 0 /\ \A k \in 0..3 : temp[k] = x - 4 + k
    <3>1. word # 0
      BY <1>3, <1>5, <1>11, Times
    <3> QED BY <1>3, <3>1
  <2>2. ~ (n = 2 /\ rel = -1)
    <3> SUFFICES ASSUME n = 2, rel = -1 PROVE FALSE
      OBVIOUS
    <3>1. W * (word - 1) = x - W
      BY <1>3, <2>1, Times
    <3>2. W - 1 \in 0..W-1 /\ o = W * (word - 1) + (W - 1)
      BY <1>5, <3>1, Width
    <3>3. o % W = W - 1
      BY <3>2, Divided
    <3> QED BY <1>1, <1>2, <3>3 DEF Insertable
  <2>3. PICK sent \in 1..4 : sent = IF rel <= -n THEN n ELSE -rel
    <3>1. rel <= -n => n \in 1..4
      BY <1>11
    <3>2. ~ (rel <= -n) => -rel \in 1..4
      BY <1>11
    <3> QED BY <3>1, <3>2
  <2>4. PICK left \in 0..3 : left = n - sent
    BY <1>11, <2>3
  <2>5. CarryWord(rel, n, i) =
          IF i < left THEN Field(sent + i)
          ELSE IF i < left + sent THEN Carry(i - left, sent) ELSE Tdata[i - left - sent]
    <3>1. (IF rel <= -n THEN n ELSE -rel) = sent /\ (IF n = 2 /\ rel = -1 THEN 2 ELSE sent) = sent
      BY <2>2, <2>3
    <3> QED BY <2>4, <3>1 DEF CarryWord
  <2>6. Inserted(rel, n, i) = CarryWord(rel, n, i)
    BY <1>11, Width DEF Inserted
  <2>7. CASE i < left
    <3>1. CarryWord(rel, n, i) = Field(sent + i)
      BY <2>5, <2>7
    <3>2. ~ (x + i < o) /\ x + i < o + n /\ x + i - o = sent + i
      BY <1>5, <1>11, <2>3, <2>4, <2>7
    <3> QED BY <1>1, <1>2, <1>3, <1>5, <1>7, <2>6, <3>1, <3>2
  <2>8. CASE i >= left /\ i < n
    <3>1. CarryWord(rel, n, i) = Carry(i - left, sent)
      BY <2>4, <2>5, <2>8
    <3>2. Carry(i - left, sent) = temp[4 - n + i]
      <4>1. 4 - sent + (i - left) = 4 - n + i
        BY <2>4
      <4> QED BY <4>1 DEF Carry
    <3>3. 4 - n + i \in 0..3 /\ x - 4 + (4 - n + i) = x + i - n
      BY <2>8
    <3>4. ~ (x + i < o) /\ ~ (x + i < o + n)
      BY <1>5, <1>11, <2>3, <2>4, <2>8
    <3> QED BY <1>1, <1>2, <1>3, <1>5, <1>7, <2>1, <2>6, <3>1, <3>2, <3>3, <3>4
  <2>9. CASE i >= n
    <3>1. CarryWord(rel, n, i) = Tdata[i - n]
      <4>1. ~ (i < left) /\ ~ (i < left + sent) /\ i - left - sent = i - n
        BY <2>3, <2>4, <2>9
      <4> QED BY <2>5, <4>1
    <3>2. ~ (x + i < o) /\ ~ (x + i < o + n) /\ i - n \in 0..W-1 /\ x + (i - n) < len /\ x + (i - n) = x + i - n
      BY <1>5, <1>8, <1>11, <2>9, Width
    <3> QED BY <1>1, <1>2, <1>3, <1>5, <1>6, <1>7, <2>6, <3>1, <3>2
  <2> QED BY <2>7, <2>8, <2>9
<1> QED BY <1>5, <1>9, <1>10, <1>11, Width

\* A word that add_field has rewritten leaves, up to the new end of the packet.
LEMMA AddedByTaken == ASSUME BlockInv, Taken PROVE FieldIsAdded'
<1> SUFFICES ASSUME packet.kind = "write", Insertable(packet), ~broken, ~crowded, ~switched'
             PROVE  FieldIsAdded'
  <2>1. packet' = packet /\ broken' = broken /\ crowded' = crowded
    BY TakenIs
  <2> QED BY <2>1 DEF FieldIsAdded, Insertable, Words, Rest
<1>1. PICK o \in Nat, n \in {0, 1, 2, 4} : o = packet.request.offset /\ n = packet.request.size
  BY TakenIs, PacketOf DEF BlockInv
<1>2. PICK x \in Nat : x = W * word
  BY TakenIs
<1>3. PICK len \in Nat : len = packet.len
  BY TakenIs, WordsOf
<1>4. x < len /\ (~Last => x + W <= len)
  <2>1. W * (Words(packet) - 1) < len
    BY <1>3, TakenIs, WordsOf
  <2>2. Last => x < len
    BY <1>2, <2>1 DEF Last
  <2>3. ASSUME ~Last PROVE x + W <= len
    <3>1. word \in Nat /\ Words(packet) \in Nat /\ word < Words(packet) - 1
      <4>1. word \in Nat /\ Words(packet) \in Nat /\ word < Words(packet) /\ word # Words(packet) - 1
        BY <2>3, TakenIs DEF Last
      <4> QED BY <4>1
    <3>2. x + W <= W * (Words(packet) - 1) /\ W * (Words(packet) - 1) \in Int
      BY <1>2, <3>1, Ordered, Width
    <3> QED BY <2>1, <3>2, Width
  <2> QED BY <2>2, <2>3, Width
<1>5. PICK t \in Nat : t = AddKeep
  BY AddGoesBy
<1>6. t <= W /\ x + t <= len + n /\ (Last /\ state # "WAIT_EXTRA_SLOT" => x + t = len + n)
  <2>1. CASE ~Last
    <3>1. t = W
      BY <1>5, <2>1, AddGoesBy, TakenIs
    <3> QED BY <1>4, <2>1, <3>1, Width
  <2>2. CASE Last
    <3>1. word # 0 /\ Tkeep = len - x /\ Rest(packet) = len - x /\ len - x \in 1..W
      BY <1>2, <1>3, <2>2, TakenIs, WordsOf DEF Body
    <3>2. CASE state = "WAIT_EOP"
      <4>1. t = len - x + n /\ len - x + n <= W - 1
        BY <1>1, <1>5, <2>2, <3>1, <3>2, AddGoesBy
      <4> QED BY <3>1, <4>1, Width
    <3>3. CASE state # "WAIT_EOP"
      <4>1. t = len - x
        BY <1>5, <2>2, <3>1, <3>3, AddGoesBy
      <4>2. state = "WAIT_EXTRA_SLOT"
        BY <3>1, <3>3, TakenAdds
      <4> QED BY <3>1, <4>1, <4>2, Width
    <3> QED BY <3>2, <3>3
  <2> QED BY <2>1, <2>2
<1>7. position' = x + t /\ out' = AddWord /\ Len(AddWord.bytes) = t
  BY <1>2, <1>5, AddMoves
<1>8. \A i \in 1..t : AddWord.bytes[i] = Inserted(o - x, n, i - 1)
  BY <1>1, <1>2, <1>5, AddGoesBy, TakenAdds DEF AddWord
<1>9. word # 0 => \A k \in 0..3 : temp[k] = W * word - 4 + k
  <2> SUFFICES ASSUME word # 0, NEW k \in 0..3 PROVE temp[k] = W * word - 4 + k
    OBVIOUS
  <2>1. temp[k] = IF x - 4 + k < len THEN x - 4 + k ELSE Unknown
    BY <1>2, <1>3, TakenIs DEF BlockInv, AddedOK
  <2>2. x - 4 + k < len
    BY <1>4
  <2> QED BY <1>2, <2>1, <2>2
<1>10. \A i \in 1..t : AddWord.bytes[i] = Grown(packet, x + i - 1)
  <2> TAKE i \in 1..t
  <2>1. PICK j \in 0..W-1 : j = i - 1
    <3>1. i - 1 \in 0..W-1
      BY <1>6, Width
    <3> QED BY <3>1
  <2>2. x + j < len + n /\ x + i - 1 = x + j
    BY <1>6, <2>1
  <2>3. packet \in Packets /\ word \in Nat
    BY TakenIs
  <2>4. Inserted(o - x, n, j) = Grown(packet, x + j)
    BY <1>1, <1>2, <1>3, <1>4, <1>9, <2>2, <2>3, InsertedIs
  <2> QED BY <1>8, <2>1, <2>2, <2>4
<1>11. AddWord.last => x + t = len + n
  BY <1>6 DEF AddWord, AddLast
<1>12. packet' = packet /\ x + t - t = x
  BY TakenIs
<1>13. \A i \in 1..t : AddWord.bytes[i] = IF x + i - 1 < o THEN x + i - 1
                        ELSE IF x + i - 1 < o + n THEN Field(x + i - 1 - o) ELSE x + i - 1 - n
  BY <1>1, <1>10 DEF Grown
<1>14. packet'.request.offset = o /\ packet'.request.size = n /\ packet'.len = len
  BY <1>1, <1>3, <1>12
<1> QED BY <1>7, <1>11, <1>12, <1>13, <1>14 DEF FieldIsAdded, Leaves

\* The extra slot: the last four bytes, behind a last word that was full.
LEMMA AddedBySlot ==
  ASSUME BlockInv, Bubble, Own, Emit(ExtraWord), packet' = packet, ~switched
  PROVE  FieldIsAdded'
<1> SUFFICES ASSUME packet.kind = "write", Insertable(packet), ~broken', ~crowded'
             PROVE  FieldIsAdded'
  BY DEF FieldIsAdded, Insertable, Words, Rest
<1>1. Under /\ state = "EXTRA_SLOT" /\ ~crowded /\ word' = word /\ ~offered
  BY DEF Bubble, Under, Own, Extra
<1>2. packet \in Packets /\ word \in Nat /\ word <= Words(packet) /\ Words(packet) \in Nat
  BY <1>1, PacketOf, WordsOf DEF BlockInv
<1>3. Done /\ ~broken
  BY <1>1, <1>2 DEF Bubble, Pause, BlockInv, AdderOK, InputOK, Done, Body
<1>4. PICK o \in Nat, n \in {0, 1, 2, 4} : o = packet.request.offset /\ n = packet.request.size
  BY <1>1, PacketOf DEF BlockInv
<1>5. PICK len \in Nat : len = packet.len
  BY <1>2, WordsOf
<1>6. /\ position = len /\ Rest(packet) + n > W - 1 /\ byte_count = (Rest(packet) + n) % 8
      /\ \A k \in 0..3 : temp[k] = IF W * word - 4 + k < len THEN W * word - 4 + k ELSE Unknown
  BY <1>1, <1>3, <1>4, <1>5 DEF BlockInv, AddedOK
<1>7. n = 4 /\ Rest(packet) = W /\ o + 4 <= len
  <2>1. Rest(packet) \in 1..W
    BY <1>2, WordsOf
  <2> QED BY <1>4, <1>5, <1>6, <2>1, Width DEF Insertable
<1>8. len = W * word
  <2>1. W = len - W * (Words(packet) - 1) /\ word = Words(packet)
    BY <1>2, <1>3, <1>5, <1>7, WordsOf DEF Done
  <2>2. word # 0
    BY <1>2, <2>1, WordsOf
  <2>3. W * (word - 1) = W * word - W
    BY <1>2, <2>2, Times
  <2> QED BY <1>2, <2>1, <2>3, Times, Width
<1>9. byte_count = 4
  <2>1. W \in Nat /\ W % 8 = 0
    BY ActionBlockAssumption
  <2>2. (W + 4) % 8 = 4
    BY <2>1
  <2> QED BY <1>6, <1>7, <2>2
<1>10. ExtraWord.bytes = [i \in 1..4 |-> temp[i - 1]] /\ ExtraWord.last
  BY <1>9 DEF ExtraWord
<1>11. Len(ExtraWord.bytes) = 4 /\ \A i \in 1..4 : ExtraWord.bytes[i] = temp[i - 1]
  BY <1>10
<1>12. out' = ExtraWord /\ position' = len + 4
  BY <1>6, <1>11 DEF Emit
<1>13. \A i \in 1..4 : ExtraWord.bytes[i] = IF len + i - 1 < o THEN len + i - 1
                        ELSE IF len + i - 1 < o + n THEN Field(len + i - 1 - o) ELSE len + i - 1 - n
  <2> TAKE i \in 1..4
  <2>1. i - 1 \in 0..3 /\ len - 4 + (i - 1) < len /\ len - 4 + (i - 1) = len + i - 1 - 4
    OBVIOUS
  <2>2. temp[i - 1] = len + i - 1 - 4
    BY <1>6, <1>8, <2>1
  <2>3. ~ (len + i - 1 < o) /\ ~ (len + i - 1 < o + n)
    BY <1>7
  <2> QED BY <1>7, <1>11, <2>2, <2>3
<1>14. packet'.request.offset = o /\ packet'.request.size = n /\ packet'.len = len
  BY <1>4, <1>5
<1>15. Len(ExtraWord.bytes) = n /\ position' = len + n /\ len + n - n = len
       /\ \A i \in 1..n : ExtraWord.bytes[i] = IF len + i - 1 < o THEN len + i - 1
                        ELSE IF len + i - 1 < o + n THEN Field(len + i - 1 - o) ELSE len + i - 1 - n
  BY <1>7, <1>11, <1>12, <1>13
<1> QED BY <1>12, <1>14, <1>15 DEF FieldIsAdded, Leaves

\* Every packet to which add_field is applied leaves with the field inserted and
\* all its bytes behind it, for every width of the words, every length, offset
\* and size that are Insertable, as far as add_field stays selected, if the packet
\* moves in every cycle and meets no extra slot: what a word loses to the field is in temp_tdata for the next one.
THEOREM FieldIsInserted == Spec => []FieldIsAdded
<1>1. Init => FieldIsAdded
  <2>1. Init => packet.kind = "none"
    BY DEF Init, NoPacket
  <2> QED BY <2>1 DEF FieldIsAdded
<1>2. BlockInv /\ FieldIsAdded /\ [Next]_vars => FieldIsAdded'
  <2>1. CASE UNCHANGED vars
    BY <2>1 DEF vars, input, output, history, FieldIsAdded, Insertable, Words, Rest, Leaves
  <2>2. ASSUME out' = Nothing PROVE FieldIsAdded'
    <3>1. Len(out'.bytes) = 0 /\ ~out'.last
      BY <2>2 DEF Nothing
    <3>2. 1..Len(out'.bytes) = {}
      BY <3>1
    <3> QED BY <3>1, <3>2 DEF FieldIsAdded, Leaves
  <2>3. ASSUME BlockInv, Offer \/ Held \/ Bubble, ~switched' PROVE FieldIsAdded'
    <3>1. CASE out' = Nothing
      BY <2>2, <3>1
    <3>2. CASE packet' = packet /\ ~switched /\ Own /\ Emit(ExtraWord) /\ out' # Nothing
      <4>1. Offer => out' = Nothing
        BY DEF Offer
      <4>2. Held => FieldIsAdded'
        <5>1. Held => broken'
          BY DEF Held
        <5> QED BY <5>1 DEF FieldIsAdded
      <4>3. Bubble => FieldIsAdded'
        BY <2>3, <3>2, AddedBySlot
      <4> QED BY <2>3, <3>2, <4>1, <4>2, <4>3
    <3> QED BY <2>3, <3>1, <3>2, OthersSend
  <2>4. switched' => FieldIsAdded'
    BY DEF FieldIsAdded
  <2> QED BY <2>1, <2>3, <2>4, AddedByTaken DEF Next
<1> QED BY <1>1, <1>2, BlockSafe, PTL DEF Spec
=============================================================================
