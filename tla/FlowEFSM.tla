------------------------------ MODULE FlowEFSM ------------------------------
(***************************************************************************)
(* What FlowBlaze promises to a program: one extended finite state machine *)
(* per flow, with its own state and registers, plus the global registers   *)
(* they share.  A packet drives the machine of the flow it belongs to and  *)
(* of no other; a flow starts in the initial state, with zero registers,   *)
(* and starts over when a row destroys its instance.                       *)
(***************************************************************************)
EXTENDS Xfsm

CONSTANTS Rows, Conditions,        (* the program's table                      *)
          LookupKey,               (* header fields the flow key is made of    *)
          InitialState,
          Packets,                 (* [proto, val: field |-> value]            *)
          FkSlots, NumRegisters, NumGlobalRegisters,
          NoPacket

VARIABLES flow,     (* flow key |-> [state, registers]    *)
          gregs,    (* the global registers               *)
          current,  (* the packet in hand, or NoPacket    *)
          out       (* ports it has been sent to          *)
vars == << flow, gregs, current, out >>

ZeroKey == [i \in 1..FkSlots |-> 0]
FlowOf(p) == KeyExtract(ZeroKey, LookupKey, OwnHeader(p))
Flows == {FlowOf(p) : p \in Packets}

NewInstance == [state     |-> InitialState,
                registers |-> [r \in 0..NumRegisters-1 |-> 0]]

\* The first row, in program order, for the flow's state or for any state.
RowFor(p) ==
  LET inst    == flow[FlowOf(p)]
      results == EvaluateConditions(Conditions, inst.registers, gregs, OwnHeader(p))
  IN  SelectInSeq(Rows, LAMBDA row : /\ row.state \in {inst.state, STATE_NULL}
                                     /\ \A c \in DOMAIN results :
                                          row.results[c] \in {"DONT_CARE", results[c]})

Init == /\ flow = [k \in Flows |-> NewInstance]
        /\ gregs = [r \in 0..NumGlobalRegisters-1 |-> 0]
        /\ current = NoPacket
        /\ out = << >>

Arrive(p) == /\ current = NoPacket
             /\ current' = p
             /\ out' = << >>
             /\ UNCHANGED << flow, gregs >>

\* No row applies: the packet is dropped and nothing is remembered of it.
Drop == /\ current # NoPacket
        /\ RowFor(current) = 0
        /\ current' = NoPacket
        /\ UNCHANGED << flow, gregs, out >>

Transition ==
  /\ current # NoPacket
  /\ RowFor(current) # 0
  /\ LET row == Rows[RowFor(current)]
         k   == FlowOf(current)
         m   == ExecuteActions(row, flow[k].registers, gregs, OwnHeader(current))
     IN  /\ ~m.trap
         /\ flow' = [flow EXCEPT ![k] =
                       IF m.destroy THEN NewInstance
                       ELSE [state |-> IF row.next_state = STATE_NULL THEN @.state
                                       ELSE row.next_state,
                             registers |-> m.regs]]
         /\ gregs' = m.gregs
         /\ out' = m.sent
  /\ current' = NoPacket

Next == (\E p \in Packets : Arrive(p)) \/ Drop \/ Transition

Spec == Init /\ [][Next]_vars
=============================================================================
