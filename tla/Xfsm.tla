-------------------------------- MODULE Xfsm --------------------------------
(***************************************************************************)
(* The pure part of SW-FB/xfsm.c and SW-FB/pkt-parser.c: how a program's   *)
(* rows are grouped by state when a table is created, how conditions and   *)
(* rows are matched, how actions are executed, how header fields are       *)
(* located and how a flow key is extracted.  No variables: XfsmWorker      *)
(* applies these operators to its state, FlowEFSM states what they are     *)
(* for.  64-bit registers are integers: no program of the repository comes *)
(* near the wrap-around.  A field's width and byte order are left out: a   *)
(* field that is written is read back as the value it was given.           *)
(***************************************************************************)
EXTENDS Integers, Sequences, FiniteSets, SequencesExt

CONSTANTS Missing,                 (* "Packet field not found": get_hdr_value < 0 *)
          MaxEntriesForeachState   (* MAX_ENTRIES_FOREACH_STATE                   *)

STATE_NULL == 255      \* XL's state "any"
NULL_STAGE == 255      \* no further stage

-----------------------------------------------------------------------------
(* xfsm_table_create: grouping the rows by state                           *)

\* The list starts with one node for state 0, before any row is seen.
EmptyKeyList == << [key |-> 0, entries |-> << >>] >>

SearchKey(list, state) == \E n \in DOMAIN list : list[n].key = state

\* A node is appended, except for STATE_NULL, which takes over the head node.
InsertKey(list, state) ==
  IF state = STATE_NULL
  THEN [list EXCEPT ![1].key = state]
  ELSE Append(list, [key |-> state, entries |-> << >>])

InsertEntry(list, id, state) ==
  LET n == SelectInSeq(list, LAMBDA node : node.key = state)
  IN  [list EXCEPT ![n].entries = Append(@, id)]

AddRow(rows, list, id) ==
  LET state == rows[id].state
  IN  InsertEntry(IF SearchKey(list, state) THEN list ELSE InsertKey(list, state), id, state)

\* Rows enter the list in program order.
KeyList(rows) ==
  LET list[i \in 0..Len(rows)] ==
        IF i = 0 THEN EmptyKeyList ELSE AddRow(rows, list[i - 1], i)
  IN  list[Len(rows)]

\* The nodes that found room in entries_hmap: state |-> rows, in program order.
\* The copying loop stops at the first node that does not fit.
EntriesDb(rows) ==
  LET list == KeyList(rows)
      kept == SubSeq(list, 1, IF Len(list) < MaxEntriesForeachState
                              THEN Len(list) ELSE MaxEntriesForeachState)
  IN  [s \in {kept[n].key : n \in DOMAIN kept} |->
         kept[SelectInSeq(kept, LAMBDA node : node.key = s)].entries]

-----------------------------------------------------------------------------
(* Matching                                                                *)

\* A row agrees with the evaluated conditions.  With no condition at all the
\* code's inner loop never reaches its "return match".
RowMatches(row, results) ==
  /\ results # << >>
  /\ \A c \in DOMAIN results : row.results[c] \in {"DONT_CARE", results[c]}

\* xfsm_table_lookup: index of the matching row, 0 if there is none.
XfsmTableLookup(rows, db, state, results) ==
  IF state \in DOMAIN db
  THEN LET n == SelectInSeq(db[state], LAMBDA id : RowMatches(rows[id], results))
       IN  IF n = 0 THEN 0 ELSE db[state][n]
  ELSE 0

Compare(type, a, b) ==
  CASE type = "LESS"       -> a < b
    [] type = "LESS_EQ"    -> a <= b
    [] type = "GREATER"    -> a > b
    [] type = "GREATER_EQ" -> a >= b
    [] type = "EQUAL"      -> a = b
    [] type = "NOT_EQUAL"  -> a # b

\* The value of an operand; prev stands when the field is not in the packet.
Operand(o, prev, regs, gregs, hdr) ==
  CASE o.type = "REGISTER"        -> regs[o.value]
    [] o.type = "GLOBAL_REGISTER" -> gregs[o.value]
    [] o.type = "CONSTANT"        -> o.value
    [] o.type = "HDR_FIELD"       -> IF hdr[o.value] = Missing THEN prev ELSE hdr[o.value]

EvaluateCondition(cond, regs, gregs, hdr) ==
  IF Compare(cond.type, Operand(cond.op1, 0, regs, gregs, hdr),
                        Operand(cond.op2, 0, regs, gregs, hdr))
  THEN "TRUE" ELSE "FALSE"

EvaluateConditions(conds, regs, gregs, hdr) ==
  [c \in DOMAIN conds |-> EvaluateCondition(conds[c], regs, gregs, hdr)]

-----------------------------------------------------------------------------
(* Actions                                                                 *)

\* C's division truncates towards zero.
Quotient(a, b) ==
  LET abs(x) == IF x < 0 THEN -x ELSE x
      q == abs(a) \div abs(b)
  IN  IF (a < 0) = (b < 0) THEN q ELSE -q

Update(opcode, a, b) ==
  CASE opcode = "SUM"      -> a + b
    [] opcode = "MINUS"    -> a - b
    [] opcode = "MULTIPLY" -> a * b
    [] opcode = "DIVIDE"   -> IF b = 0 THEN a ELSE Quotient(a, b)
    [] opcode = "MODULO"   -> a - b * Quotient(a, b)     \* b # 0, see ExecuteAction
    [] opcode = "MAX"      -> IF a > b THEN a ELSE b
    [] opcode = "MIN"      -> IF a < b THEN a ELSE b

\* The machine xfsm_execute_actions runs the actions of a row on: the three
\* parameters outlive an action, so a missing field leaves an older value.
ActionMachine(regs, gregs, hdr) ==
  [r1 |-> 0, r2 |-> 0, r3 |-> 0, regs |-> regs, gregs |-> gregs, hdr |-> hdr,
   sent |-> << >>, destroy |-> FALSE, trap |-> FALSE]

ExecuteAction(m, act) ==
  LET Fetch(o, prev) == Operand(o, prev, m.regs, m.gregs, m.hdr)
      r1 == IF act.type = "SETFIELD" /\ act.op1.type = "HDR_FIELD"
            THEN act.op1.value ELSE Fetch(act.op1, m.r1)
      r2 == IF act.type = "SENDPKT" THEN act.op2.value ELSE Fetch(act.op2, m.r2)
      r3 == Fetch(act.op3, m.r3)
      f  == [m EXCEPT !.r1 = r1, !.r2 = r2, !.r3 = r3]
      trapped == act.type = "UPDATE" /\ act.opcode = "MODULO" /\ r2 = 0
      updates == act.type = "UPDATE" /\ ~trapped
  IN  IF m.trap THEN m ELSE
      CASE trapped -> [f EXCEPT !.trap = TRUE]
        [] updates /\ act.out.type = "REGISTER" ->
             [f EXCEPT !.regs[act.out.value] = Update(act.opcode, r1, r2)]
        [] updates /\ act.out.type # "REGISTER" ->
             [f EXCEPT !.gregs[act.out.value] = Update(act.opcode, r1, r2)]
        [] act.type = "SENDPKT" ->        \* port 0 is "drop"
             IF r2 = 0 THEN f ELSE [f EXCEPT !.sent = Append(@, r2)]
        [] act.type = "SETFIELD" ->       \* nothing to write through a NULL pointer
             IF m.hdr[r1] = Missing THEN f ELSE [f EXCEPT !.hdr[r1] = r3]
        [] act.type = "DESTROY" -> [f EXCEPT !.destroy = TRUE]

ExecuteActions(row, regs, gregs, hdr) ==
  LET m[i \in 0..Len(row.actions)] ==
        IF i = 0 THEN ActionMachine(regs, gregs, hdr)
                 ELSE ExecuteAction(m[i - 1], row.actions[i])
  IN  m[Len(row.actions)]

-----------------------------------------------------------------------------
(* Header fields and flow keys                                             *)

\* GTP carries an inner packet: gtp_tcp, gtp_udp, or neither.
Protocols == {"tcp", "udp", "gtp", "gtp_tcp", "gtp_udp", "icmp", "other"}

\* Header fields that parse_pkt_header sets and clears together.
FieldGroups == {"base", "metadata", "tcp", "udp", "icmp", "gtp", "inner_tcp", "inner_udp"}
GroupOf(field) ==
  CASE field \in {"TCP_SPORT", "TCP_DPORT"}             -> "tcp"
    [] field \in {"UDP_SPORT", "UDP_DPORT"}             -> "udp"
    [] field \in {"ICMP_TYPE", "ICMP_CODE", "ICMP_ID", "ICMP_SEQ", "ICMP_PAYLOAD"} -> "icmp"
    [] field \in {"GTP_TEID", "INNER_IPv4_SRC", "INNER_IPv4_DST", "INNER_IPv4_PROTO"} -> "gtp"
    [] field \in {"INNER_TCP_SPORT", "INNER_TCP_DPORT"} -> "inner_tcp"
    [] field \in {"INNER_UDP_SPORT", "INNER_UDP_DPORT"} -> "inner_udp"
    [] field \in {"XFSM_METADATA0", "XFSM_METADATA1"}   -> "metadata"
    [] OTHER -> "base"      \* Ethernet, IPv4, in_port, timestamp

\* The groups whose pointers a packet of this protocol sets, and clears: metadata
\* always, as nothing assigns a packet's userdata.
SetBy(proto) ==
  {"base"} \cup CASE proto = "tcp"     -> {"tcp"}
                  [] proto = "udp"     -> {"udp"}
                  [] proto = "gtp"     -> {"udp", "gtp"}
                  [] proto = "gtp_tcp" -> {"udp", "gtp", "inner_tcp"}
                  [] proto = "gtp_udp" -> {"udp", "gtp", "inner_udp"}
                  [] proto = "icmp"    -> {"icmp"}
                  [] proto = "other"   -> {}
\* Mutant of ClearedBy: a UDP packet leaves the TCP pointers alone.
ClearedByForgetsTcp(proto) == {"metadata", IF proto = "tcp" THEN "udp" ELSE "gtp"}

ClearedBy(proto) ==
  {"metadata"} \cup CASE proto = "tcp"     -> {"udp"}
                      [] proto = "udp"     -> {"tcp", "gtp", "inner_tcp", "inner_udp"}
                      [] proto = "gtp"     -> {"tcp"}
                      [] proto = "gtp_tcp" -> {"tcp", "inner_udp"}
                      [] proto = "gtp_udp" -> {"tcp", "inner_tcp"}
                      [] proto = "icmp"    -> {"udp", "tcp"}
                      [] proto = "other"   -> {}

\* parse_pkt_header: the pointers of a group are NULL, point into this packet
\* or still point into the buffer of an earlier one.
ParsePktHeader(pkt_fields, proto) ==
  [g \in FieldGroups |-> IF g \in SetBy(proto) THEN "this"
                         ELSE IF g \in ClearedBy(proto) THEN "null"
                         ELSE pkt_fields[g]]

\* With the next packet, the pointers that are set lead to a freed buffer.
AgePointers(pkt_fields) ==
  [g \in FieldGroups |-> IF pkt_fields[g] = "null" THEN "null" ELSE "stale"]

\* The inner addresses and protocol of a GTP packet are looked for in the outer
\* IPv4 header.
PointsAt(field) ==
  CASE field = "INNER_IPv4_SRC"   -> "IPv4_SRC"
    [] field = "INNER_IPv4_DST"   -> "IPv4_DST"
    [] field = "INNER_IPv4_PROTO" -> "IPv4_PROTO"
    [] OTHER -> field

\* get_hdr_value for every field: a stale pointer reads whatever is there.
HeaderValues(pkt_fields, val, stale) ==
  [f \in DOMAIN val |-> CASE pkt_fields[GroupOf(f)] = "null"  -> Missing
                          [] pkt_fields[GroupOf(f)] = "this"  -> val[PointsAt(f)]
                          [] pkt_fields[GroupOf(f)] = "stale" -> stale]

\* What a packet really holds, seen through its own protocol only.
OwnHeader(p) ==
  [f \in DOMAIN p.val |-> IF GroupOf(f) \in SetBy(p.proto) THEN p.val[f] ELSE Missing]

\* key_extract writes the 64-bit value of each field over its 32-bit slot and
\* the next one, field after field; a field that is missing writes nothing.
KeyExtract(fk, lookup_key, hdr) ==
  LET found(i) == i \in DOMAIN lookup_key /\ hdr[lookup_key[i]] # Missing
  IN  [i \in DOMAIN fk |-> IF found(i) THEN hdr[lookup_key[i]]
                           ELSE IF found(i - 1) THEN 0 ELSE fk[i]]

\* biflow: each of the first biflow_no pairs of slots is put in order.
Biflow(fk, biflow_no) ==
  LET Low(i)  == IF i % 2 = 1 THEN i ELSE i - 1
      Swap(i) == Low(i) <= 2 * biflow_no /\ fk[Low(i)] > fk[Low(i) + 1]
  IN  [i \in DOMAIN fk |-> IF (i % 2 = 1 /\ i = Len(fk)) \/ ~Swap(i) THEN fk[i]
                           ELSE IF i % 2 = 1 THEN fk[i + 1] ELSE fk[i - 1]]
=============================================================================
