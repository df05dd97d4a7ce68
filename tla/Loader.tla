------------------------------- MODULE Loader -------------------------------
(***************************************************************************)
(* SW-FB/loader.c: json_to_table makes a table of a parsed program.  The   *)
(* loops take their steps one element at a time; a malformed element ends  *)
(* the process ("exit").                                                   *)
(*                                                                         *)
(* What the code does not check is kept: a write past an array, or a read  *)
(* of a pointer or of an operand that was never set, makes the rest of the *)
(* run arbitrary ("undefined"), a value that has fewer bits than the text  *)
(* loses the upper ones, and get_out_operand returns anything.  The number *)
(* of conditions is one byte and is written as four: what the other three  *)
(* belong to is the compiler's choice, and if it is anything that lives    *)
(* (the pointer to the conditions, a saved register) the run is arbitrary  *)
(* from there on ("clobbered"), for every program.                         *)
(*                                                                         *)
(* A text of the program is << "num", hi, lo >>, a number that unsigned    *)
(* long holds, in two halves that are signed; << "huge" >>, one that it    *)
(* does not; << "word", w >>; or << "none" >>, a member that is missing or *)
(* is no string.  The tree of cJSON is only read; that its nodes are freed *)
(* one by one and its texts never is left out, and malloc succeeds.        *)
(***************************************************************************)
EXTENDS Xfsm

CONSTANTS Programs,       (* tables of programs, as cJSON has parsed them    *)
          MaxConditions,  (* MAX_CONDITIONS, 16                             *)
          MaxActions,     (* MAX_ACTIONS, 32                                *)
          LookupKeySize,  (* LOOKUP_KEY_SIZE, 8                             *)
          Garbage         (* what memory may hold that was never written    *)

\* The loops over the results of a row count to 16 themselves.
ASSUME LoaderAssumption == /\ MaxConditions = 16
                           /\ MaxActions \in Nat /\ LookupKeySize \in Nat /\ MaxEntriesForeachState \in Nat

-----------------------------------------------------------------------------
(* Texts and programs                                                      *)

Texts == ({"num"} \X Int \X Int) \cup {<< "huge" >>} \cup ({"word"} \X STRING) \cup {<< "none" >>}

OperandsRead   == [type : Texts, name : Texts, value : Texts]
ConditionsRead == [id : Texts, opcode : Texts, op0 : OperandsRead, op1 : OperandsRead]
ActionsRead    == [opcode : Texts, op0 : OperandsRead, op1 : OperandsRead, op2 : OperandsRead]
RowsRead       == [state : Texts, condition_results : Seq([id : Texts, result : Texts]),
                   actions : Seq(ActionsRead), next_state : Texts, next_stage : Texts]

\* Any list may have any length, and any text may be anything.
ASSUME ProgramsAssumption ==
  \A p \in Programs : p \in [conditions : Seq(ConditionsRead), initial_state : Texts,
                             table_rows : Seq(RowsRead), flow_key : Seq(Texts)]

IsNumber(s) == s[1] \in {"num", "huge"}
IsWord(s) == s[1] = "word"
IsString(s) == s[1] # "none"

\* strtoul gives ULONG_MAX for a number that is too large.  With errno set, the
\* value is compared with LONG_MAX and LONG_MIN, cut to the size of the result:
\* for 64 bits none of them is ULONG_MAX.
str_to_uint64(s) == CASE s[1] = "num"  -> [ok |-> TRUE, val |-> << s[2], s[3] >>]
                      [] s[1] = "huge" -> [ok |-> TRUE, val |-> << -1, -1 >>]
                      [] OTHER         -> [ok |-> FALSE, val |-> << 0, 0 >>]

str_to_uint32(s) == IF s[1] = "num" THEN [ok |-> TRUE, val |-> s[3]] ELSE [ok |-> FALSE, val |-> 0]

str_to_uint8(s) == IF s[1] = "num" THEN [ok |-> TRUE, val |-> s[3] % 256] ELSE [ok |-> FALSE, val |-> 0]

-----------------------------------------------------------------------------
(* Names                                                                   *)

str_to_condition_type ==
  [s \in {"XTRA_LESS", "XTRA_LESS_EQ", "XTRA_GREATER", "XTRA_GREATER_EQ", "XTRA_EQUAL", "XTRA_NOT_EQUAL"} |->
     CASE s = "XTRA_LESS"       -> "LESS"
       [] s = "XTRA_LESS_EQ"    -> "LESS_EQ"
       [] s = "XTRA_GREATER"    -> "GREATER"
       [] s = "XTRA_GREATER_EQ" -> "GREATER_EQ"
       [] s = "XTRA_EQUAL"      -> "EQUAL"
       [] s = "XTRA_NOT_EQUAL"  -> "NOT_EQUAL"]

str_to_event_field == [s \in {"XTRA_PKT_RCVD_PORT"} |-> "XFSM_IN_PORT"]

str_to_header_field ==
  [s \in {"eth.src", "eth.dst", "eth.type", "ipv4.src", "ipv4.dst", "ipv4.proto", "ipv4.tos",
          "tcp.sport", "tcp.dport", "udp.sport", "udp.dport", "XTRA_TIMESTAMP"} |->
     CASE s = "eth.src"    -> "SRC_MAC"
       [] s = "eth.dst"    -> "DST_MAC"
       [] s = "eth.type"   -> "ETH_TYPE"
       [] s = "ipv4.src"   -> "IPv4_SRC"
       [] s = "ipv4.dst"   -> "IPv4_DST"
       [] s = "ipv4.proto" -> "IPv4_PROTO"
       [] s = "ipv4.tos"   -> "IPv4_TOS"
       [] s = "tcp.sport"  -> "TCP_SPORT"
       [] s = "tcp.dport"  -> "TCP_DPORT"
       [] s = "udp.sport"  -> "UDP_SPORT"
       [] s = "udp.dport"  -> "UDP_DPORT"
       [] s = "XTRA_TIMESTAMP" -> "XFSM_TIMESTAMP"]

str_to_result == [s \in {"XTRA_TRUE", "XTRA_FALSE", "XTRA_DONT_CARE"} |->
                    CASE s = "XTRA_TRUE"  -> "TRUE"
                      [] s = "XTRA_FALSE" -> "FALSE"
                      [] s = "XTRA_DONT_CARE" -> "DONT_CARE"]

str_to_value_type ==
  [s \in {"XTRA_LOCAL_REGISTER", "XTRA_GLOBAL_REGISTER", "XTRA_INTEGER_CONST",
          "XTRA_PKT_FIELD", "XTRA_EVENT_FIELD", "XTRA_READ_ONLY_REGISTER"} |->
     CASE s = "XTRA_LOCAL_REGISTER"  -> "REGISTER"
       [] s = "XTRA_GLOBAL_REGISTER" -> "GLOBAL_REGISTER"
       [] s = "XTRA_INTEGER_CONST"   -> "CONSTANT"
       [] s \in {"XTRA_PKT_FIELD", "XTRA_EVENT_FIELD", "XTRA_READ_ONLY_REGISTER"} -> "HDR_FIELD"]

Arithmetic == {"XTRA_SUM", "XTRA_MINUS", "XTRA_MULTIPLY", "XTRA_DIVIDE", "XTRA_MODULO", "XTRA_MAX", "XTRA_MIN"}

str_to_action_type ==
  [s \in Arithmetic \cup {"XTRA_SENDPKT", "XTRA_SETFIELD", "XTRA_DELETEINST"} |->
     CASE s \in Arithmetic        -> "UPDATE"
       [] s = "XTRA_SENDPKT"    -> "SENDPKT"
       [] s = "XTRA_SETFIELD"   -> "SETFIELD"
       [] s = "XTRA_DELETEINST" -> "DESTROY"]

\* What a name stands for, if it is one of the names of the table.
Known(s, table) == IsWord(s) /\ s[2] \in DOMAIN table
Meant(s, table) == table[s[2]]

-----------------------------------------------------------------------------
(* Operands: the set of what the code may return                           *)

RETURN_ERROR == [type |-> "RETURN_ERROR", value |-> << 0, 0 >>]

\* Nothing is returned where the register was read: the caller may see an error.
get_out_operand(o) ==
  IF /\ Known(o.type, str_to_value_type)
     /\ Meant(o.type, str_to_value_type) \in {"REGISTER", "GLOBAL_REGISTER"}
     /\ str_to_uint8(o.name).ok
  THEN {RETURN_ERROR,
        [type |-> Meant(o.type, str_to_value_type), value |-> << 0, str_to_uint8(o.name).val >>]}
  ELSE {RETURN_ERROR}

Field(s) == IF Known(s, str_to_event_field) THEN Meant(s, str_to_event_field)
            ELSE Meant(s, str_to_header_field)

\* Mutant of get_operand: registers and constants are read alike.
get_operandByName(o) ==
  IF ~Known(o.type, str_to_value_type) THEN {RETURN_ERROR}
  ELSE {[type |-> Meant(o.type, str_to_value_type), value |-> str_to_uint64(o.name).val]}

\* A header field is written to a pointer that was cast: the upper half of the
\* value is what malloc has left there.
get_operand(o) ==
  LET type == Meant(o.type, str_to_value_type)
      text == IF type \in {"REGISTER", "GLOBAL_REGISTER"} \/ (type = "HDR_FIELD" /\ ~IsString(o.value))
                THEN o.name ELSE o.value
  IN  CASE ~Known(o.type, str_to_value_type) -> {RETURN_ERROR}
        [] Known(o.type, str_to_value_type) /\ type # "HDR_FIELD" /\ str_to_uint64(text).ok ->
             {[type |-> type, value |-> str_to_uint64(text).val]}
        [] Known(o.type, str_to_value_type) /\ type = "HDR_FIELD"
           /\ (Known(text, str_to_event_field) \/ Known(text, str_to_header_field)) ->
             {[type |-> type, value |-> << hi, Field(text) >>] : hi \in Garbage}
        [] OTHER -> {RETURN_ERROR}

Failed(r) == r.type = "RETURN_ERROR"

-----------------------------------------------------------------------------
VARIABLES
  pc, program,
  n, a,               \* positions in the list that is read, and in a row's actions
  conditions,         \* per id: << >> until it is set, << condition >> then
  initial_state, table_size, table_entries,
  actions,            \* of the row that is read
  lookup_key,         \* the fields found so far
  xfsm                \* the table: << >> until it is created

vars == << pc, program, n, a, conditions, initial_state, table_size, table_entries, actions, lookup_key, xfsm >>
made == << conditions, initial_state, table_size, table_entries, actions, lookup_key, xfsm >>

Init ==
  /\ program \in Programs /\ pc = "conditions" /\ n = 1 /\ a = 1
  /\ conditions = << >> /\ initial_state = 0 /\ table_size = 0
  /\ table_entries = << >> /\ actions = << >> /\ lookup_key = << >> /\ xfsm = << >>

Stop(where) == pc' = where /\ UNCHANGED << program, n, a, made >>
Exit == Stop("exit")
Undefined == Stop("undefined")
Clobbered == Stop("clobbered")

\* The message of a refusal quotes the text that was refused; where the member is
\* missing, there is nothing to take the text from.
ExitNaming(text) == Exit \/ (~IsString(text) /\ Undefined)

Goto(where) == pc' = where /\ n' = 1 /\ a' = 1 /\ UNCHANGED program
NextElement == n' = n + 1 /\ UNCHANGED << pc, program, a >>

-----------------------------------------------------------------------------
(* json_to_conditions                                                      *)

\* Mutant of CountConditions: as many as a table has room for are too many.
CountConditionsAtLimit ==
  /\ pc = "conditions"
  /\ \/ Clobbered
     \/ Len(program.conditions) >= MaxConditions /\ Exit
     \/ /\ Len(program.conditions) < MaxConditions
        /\ conditions' = [id \in 0..(Len(program.conditions) - 1) |-> << >>]
        /\ Goto("condition")
        /\ UNCHANGED << initial_state, table_size, table_entries, actions, lookup_key, xfsm >>

\* Mutant of CountConditions: the ids are taken to start at 1.
CountConditionsFromOne ==
  /\ pc = "conditions"
  /\ \/ Clobbered
     \/ Len(program.conditions) >= 255 /\ Exit
     \/ /\ Len(program.conditions) < 255
        /\ conditions' = [id \in 1..Len(program.conditions) |-> << >>]
        /\ Goto("condition")
        /\ UNCHANGED << initial_state, table_size, table_entries, actions, lookup_key, xfsm >>

\* json_to_table passes the address of its uint8_t as that of an int.  Below 255
\* the byte holds the number all the same, and the zeros go over three more.
CountConditions ==
  /\ pc = "conditions"
  /\ \/ Clobbered
     \/ Len(program.conditions) >= 255 /\ Exit
     \/ /\ Len(program.conditions) < 255
        /\ conditions' = [id \in 0..(Len(program.conditions) - 1) |-> << >>]
        /\ Goto("condition")
        /\ UNCHANGED << initial_state, table_size, table_entries, actions, lookup_key, xfsm >>

\* The id is the index, checked against nothing.
Condition ==
  /\ pc = "condition" /\ n <= Len(program.conditions)
  /\ LET c  == program.conditions[n]
         id == str_to_uint32(c.id)
     IN  CASE ~id.ok -> Exit
           [] id.ok /\ id.val \notin DOMAIN conditions -> Undefined
           [] OTHER ->
                \E op0 \in get_operand(c.op0), op1 \in get_operand(c.op1) :
                  IF ~Known(c.opcode, str_to_condition_type) \/ Failed(op0) \/ Failed(op1)
                  THEN Exit
                  ELSE /\ conditions' = [conditions EXCEPT ![id.val] =
                            << [type |-> Meant(c.opcode, str_to_condition_type), op1 |-> op0, op2 |-> op1] >>]
                       /\ NextElement
                       /\ UNCHANGED << initial_state, table_size, table_entries, actions, lookup_key, xfsm >>

-----------------------------------------------------------------------------
(* json_to_table                                                           *)

InitialState ==
  /\ pc = "condition" /\ n > Len(program.conditions)
  /\ IF ~str_to_uint8(program.initial_state).ok THEN Exit
     ELSE /\ initial_state' = str_to_uint8(program.initial_state).val
          /\ Goto("count_rows")
          /\ UNCHANGED << conditions, table_size, table_entries, actions, lookup_key, xfsm >>

CountRows ==
  /\ pc = "count_rows"
  /\ table_size' = Len(program.table_rows) % 256 /\ Goto("row")
  /\ UNCHANGED << conditions, initial_state, table_entries, actions, lookup_key, xfsm >>

-----------------------------------------------------------------------------
(* json_to_table_entry, for a row                                          *)

Row == program.table_rows[n]

\* A row with a result too many, for an id that does not exist or of another name.
ResultsMalformed ==
  LET rs == Row.condition_results
  IN  \/ Len(rs) > 16
      \/ \E r \in DOMAIN rs : \/ ~str_to_uint32(rs[r].id).ok
                              \/ str_to_uint32(rs[r].id).val \notin 0..15
                              \/ ~Known(rs[r].result, str_to_result)

BeginRow ==
  /\ pc = "row" /\ n <= Len(program.table_rows)
  /\ IF \/ ~str_to_uint32(Row.state).ok \/ ~str_to_uint32(Row.next_state).ok
        \/ ~str_to_uint8(Row.next_stage).ok \/ ResultsMalformed
     THEN Exit
     ELSE /\ pc' = "action" /\ a' = 1 /\ actions' = << >>
          /\ UNCHANGED << program, n, conditions, initial_state, table_size, table_entries, lookup_key, xfsm >>

\* Of two results for one condition the last one counts.
Results ==
  LET rs == Row.condition_results
      given(c) == {r \in DOMAIN rs : str_to_uint32(rs[r].id).val + 1 = c}
  IN  [c \in 1..16 |-> IF given(c) = {} THEN "DONT_CARE"
                       ELSE Meant(rs[Max(given(c))].result, str_to_result)]

\* The operands that an action of a type reads; the others are never set.
OperandsOf == [UPDATE |-> << "op0", "op1" >>, SENDPKT |-> << "op0", "op1" >>,
               SETFIELD |-> << "op0", "op1", "op2" >>]

\* json_to_actions, for an action.  XTRA_DELETEINST is read and then refused.
Action ==
  /\ pc = "action" /\ a <= Len(Row.actions)
  /\ LET act  == Row.actions[a]
         type == Meant(act.opcode, str_to_action_type)
     IN  IF ~Known(act.opcode, str_to_action_type) THEN ExitNaming(act.opcode)
         ELSE IF type = "DESTROY" THEN Exit
         ELSE \E op0 \in get_operand(act.op0), op1 \in get_operand(act.op1) :
              \E op2 \in IF type = "SETFIELD" THEN get_operand(act.op2)
                         ELSE IF type = "UPDATE" THEN get_out_operand(act.op2) ELSE {op1} :
                IF Failed(op0) \/ Failed(op1) \/ (Failed(op2) /\ type = "UPDATE") THEN Exit
                ELSE IF Failed(op2) THEN ExitNaming(act.op2.type)
                ELSE /\ actions' = Append(actions,
                          CASE type = "SETFIELD" ->
                                 [type |-> type, opcode |-> act.opcode[2], op1 |-> op0, op2 |-> op1, op3 |-> op2]
                            [] type = "UPDATE" ->
                                 [type |-> type, opcode |-> act.opcode[2], op1 |-> op0, op2 |-> op1, out |-> op2]
                            [] type = "SENDPKT" ->
                                 [type |-> type, opcode |-> act.opcode[2], op1 |-> op0, op2 |-> op1])
                     /\ a' = a + 1
                     /\ UNCHANGED << pc, program, n, conditions, initial_state, table_size, table_entries,
                                     lookup_key, xfsm >>

\* The actions are copied to the entry's, and the entry is put into the array
\* that has table_size places.
EndRow ==
  /\ pc = "action" /\ a > Len(Row.actions)
  /\ IF Len(actions) > MaxActions \/ n > table_size THEN Undefined
     ELSE /\ table_entries' = Append(table_entries,
               [state |-> str_to_uint32(Row.state).val, next_state |-> str_to_uint32(Row.next_state).val,
                next_stage |-> str_to_uint8(Row.next_stage).val, results |-> Results, actions |-> actions])
          /\ pc' = "row" /\ n' = n + 1 /\ a' = 1
          /\ UNCHANGED << program, conditions, initial_state, table_size, actions, lookup_key, xfsm >>

-----------------------------------------------------------------------------
(* json_to_lookup_key, and the end of json_to_table                        *)

BeginKey ==
  /\ pc = "row" /\ n > Len(program.table_rows)
  /\ Goto("flow_key") /\ UNCHANGED made

KeyField ==
  /\ pc = "flow_key" /\ n <= Len(program.flow_key)
  /\ LET value == program.flow_key[n]
     IN  CASE ~IsString(value) -> Undefined
           [] IsString(value) /\ ~Known(value, str_to_header_field) -> Exit
           [] IsString(value) /\ Known(value, str_to_header_field) /\ n > LookupKeySize -> Undefined
           [] OTHER -> /\ lookup_key' = Append(lookup_key, Meant(value, str_to_header_field))
                       /\ NextElement
                       /\ UNCHANGED << conditions, initial_state, table_size, table_entries, actions, xfsm >>

\* The conditions are copied to the array that xfsm_table_create takes.
CopyConditions ==
  /\ pc = "flow_key" /\ n > Len(program.flow_key)
  /\ IF Cardinality(DOMAIN conditions) > MaxConditions \/ \E id \in DOMAIN conditions : conditions[id] = << >>
     THEN Undefined
     ELSE Goto("create") /\ UNCHANGED made

\* xfsm_table_create, which groups the rows by state: a node has room for as
\* many rows as there may be states, and the pool for one node per row.
Overrun == LET list == KeyList(table_entries)
           IN  \/ \E k \in DOMAIN list : Len(list[k].entries) > MaxEntriesForeachState
               \/ Cardinality(DOMAIN EntriesDb(table_entries)) > table_size

\* Mutant of Create: the last row is left out.
CreateButLast ==
  /\ pc = "create"
  /\ IF Overrun THEN Undefined
     ELSE \E biflow_no \in Garbage :
          /\ xfsm' = << [conditions |-> [c \in 1..Cardinality(DOMAIN conditions) |-> conditions[c - 1][1]],
                         rows |-> table_entries, entries |-> EntriesDb(Front(table_entries)),
                         default_state |-> initial_state, lookup_key |-> lookup_key, biflow_no |-> biflow_no] >>
          /\ Goto("done")
          /\ UNCHANGED << conditions, initial_state, table_size, table_entries, actions, lookup_key >>

Create ==
  /\ pc = "create"
  /\ IF Overrun THEN Undefined
     ELSE \E biflow_no \in Garbage :
          /\ xfsm' = << [conditions |-> [c \in 1..Cardinality(DOMAIN conditions) |-> conditions[c - 1][1]],
                         rows |-> table_entries, entries |-> EntriesDb(table_entries),
                         default_state |-> initial_state, lookup_key |-> lookup_key, biflow_no |-> biflow_no] >>
          /\ Goto("done")
          /\ UNCHANGED << conditions, initial_state, table_size, table_entries, actions, lookup_key >>

Next == \/ CountConditions \/ Condition \/ InitialState \/ CountRows
        \/ BeginRow \/ Action \/ EndRow \/ BeginKey \/ KeyField \/ CopyConditions \/ Create

Spec == Init /\ [][Next]_vars

-----------------------------------------------------------------------------
(* What a program says, and what the loader has room for                   *)

IsSmall(s) == s[1] = "num" /\ s[2] = 0 /\ s[3] \in 0..255
IsInt32(s) == s[1] = "num" /\ s[2] = 0
IsId(s, count) == s[1] = "num" /\ s[2] = 0 /\ s[3] \in 0..(count - 1)

\* A register's number is in name, a constant in value, a field's name in either.
WellFormedOperand(o) ==
  /\ IsWord(o.type)
  /\ \/ o.type[2] \in {"XTRA_LOCAL_REGISTER", "XTRA_GLOBAL_REGISTER"} /\ IsSmall(o.name)
     \/ o.type[2] = "XTRA_INTEGER_CONST" /\ IsNumber(o.value)
     \/ /\ o.type[2] \in {"XTRA_PKT_FIELD", "XTRA_EVENT_FIELD", "XTRA_READ_ONLY_REGISTER"}
        /\ \E s \in {o.name, o.value} : /\ IsWord(s) /\ (s = o.name => ~IsString(o.value))
                                        /\ s[2] \in DOMAIN str_to_header_field \cup {"XTRA_PKT_RCVD_PORT"}

WellFormedAction(act) ==
  LET type == Meant(act.opcode, str_to_action_type)
  IN  /\ Known(act.opcode, str_to_action_type) /\ type \in DOMAIN OperandsOf
      /\ \A k \in DOMAIN OperandsOf[type] : WellFormedOperand(act[OperandsOf[type][k]])
      /\ type = "UPDATE" => /\ act.op2.type[2] \in {"XTRA_LOCAL_REGISTER", "XTRA_GLOBAL_REGISTER"}
                            /\ IsSmall(act.op2.name)

\* A program that keeps to the names and the numbers the loader can hold.
WellFormed(p) ==
  /\ IsSmall(p.initial_state)
  /\ \A c \in DOMAIN p.conditions :
       /\ Known(p.conditions[c].opcode, str_to_condition_type)
       /\ WellFormedOperand(p.conditions[c].op0) /\ WellFormedOperand(p.conditions[c].op1)
  /\ \A r \in DOMAIN p.table_rows :
       LET row == p.table_rows[r]
       IN  /\ IsInt32(row.state) /\ IsInt32(row.next_state) /\ IsSmall(row.next_stage)
           /\ \A k \in DOMAIN row.condition_results :
                /\ IsId(row.condition_results[k].id, Len(p.conditions))
                /\ Known(row.condition_results[k].result, str_to_result)
           /\ \A k \in DOMAIN row.actions : WellFormedAction(row.actions[k])
  /\ \A k \in DOMAIN p.flow_key : Known(p.flow_key[k], str_to_header_field)

StatesOf(p) == {p.table_rows[r].state[3] : r \in DOMAIN p.table_rows}
RowsOf(p, state) == {r \in DOMAIN p.table_rows : p.table_rows[r].state[3] = state}

\* The keys xfsm_table_create makes a node for: state 0 has one although no row is
\* for it, unless state any takes that one over.
NodesOf(p) == StatesOf(p) \cup (IF STATE_NULL \in StatesOf(p) THEN {} ELSE {0})

\* The limits: 16 conditions numbered from 0, 255 rows, 32 actions, a key of 8
\* fields, ten rows for a state, those of state 0 and of state any together, and
\* no more nodes than rows.
Fits(p) ==
  /\ Len(p.conditions) <= MaxConditions
  /\ \A id \in 0..(Len(p.conditions) - 1) : \E c \in DOMAIN p.conditions : p.conditions[c].id = << "num", 0, id >>
  /\ Len(p.table_rows) <= 255 /\ Len(p.flow_key) <= LookupKeySize
  /\ \A r \in DOMAIN p.table_rows : /\ Len(p.table_rows[r].actions) <= MaxActions
                                    /\ Len(p.table_rows[r].condition_results) <= 16
  /\ \A s \in StatesOf(p) : Cardinality(RowsOf(p, s)) <= MaxEntriesForeachState
  /\ Cardinality(RowsOf(p, 0) \cup RowsOf(p, STATE_NULL)) <= MaxEntriesForeachState
  /\ Cardinality(NodesOf(p)) <= Len(p.table_rows) \/ MaxEntriesForeachState <= Len(p.table_rows)

HasUpdate(p) == \E r \in DOMAIN p.table_rows : \E k \in DOMAIN p.table_rows[r].actions :
                  Meant(p.table_rows[r].actions[k].opcode, str_to_action_type) = "UPDATE"

-----------------------------------------------------------------------------
(* Properties                                                              *)

\* What the loader makes of names, operands, conditions, actions and rows.
HeaderFields == {str_to_header_field[s] : s \in DOMAIN str_to_header_field}
EventFields  == {str_to_event_field[s] : s \in DOMAIN str_to_event_field}
Comparisons  == {str_to_condition_type[s] : s \in DOMAIN str_to_condition_type}
Opcodes      == DOMAIN str_to_action_type

OperandsMade   == [type : {"REGISTER", "GLOBAL_REGISTER", "CONSTANT"}, value : Int \X Int]
                  \cup [type : {"HDR_FIELD"}, value : Garbage \X (HeaderFields \cup EventFields)]
ConditionsMade == [type : Comparisons, op1 : OperandsMade, op2 : OperandsMade]
ActionsMade    == [type : {"SENDPKT"}, opcode : Opcodes, op1 : OperandsMade, op2 : OperandsMade]
                  \cup [type : {"UPDATE"}, opcode : Opcodes, op1 : OperandsMade, op2 : OperandsMade, out : OperandsMade]
                  \cup [type : {"SETFIELD"}, opcode : Opcodes, op1 : OperandsMade, op2 : OperandsMade, op3 : OperandsMade]
EntriesMade    == [state : Int, next_state : Int, next_stage : 0..255,
                   results : [1..16 -> {"TRUE", "FALSE", "DONT_CARE"}], actions : Seq(ActionsMade)]

\* Every variable has its type, for malformed programs too; what was set where
\* nothing belongs does not get here, "undefined" ends the run.
TypeOK ==
  /\ pc \in {"conditions", "condition", "count_rows", "row", "action", "flow_key", "create", "done",
            "exit", "undefined", "clobbered"}
  /\ program \in Programs /\ n \in Nat \ {0} /\ a \in Nat \ {0}
  /\ conditions \in [DOMAIN conditions -> Seq(ConditionsMade)]
  /\ initial_state \in 0..255 /\ table_size \in 0..255
  /\ table_entries \in Seq(EntriesMade) /\ actions \in Seq(ActionsMade)
  /\ lookup_key \in Seq(HeaderFields) /\ Len(lookup_key) <= LookupKeySize
  /\ xfsm = << >> <=> pc # "done"

\* What an operand of a program stands for; the half of a header field's value
\* that get_operand leaves unwritten is not looked at.
Stands(o, loaded) ==
  CASE loaded.type \in {"REGISTER", "GLOBAL_REGISTER"} ->
         /\ o.type[2] = IF loaded.type = "REGISTER" THEN "XTRA_LOCAL_REGISTER" ELSE "XTRA_GLOBAL_REGISTER"
         /\ loaded.value = << 0, o.name[3] >>
    [] loaded.type = "CONSTANT" ->
         /\ o.type[2] = "XTRA_INTEGER_CONST"
         /\ loaded.value = IF o.value[1] = "huge" THEN << -1, -1 >> ELSE << o.value[2], o.value[3] >>
    [] loaded.type = "HDR_FIELD" ->
         LET s == IF IsString(o.value) THEN o.value ELSE o.name
         IN  IF s[2] = "XTRA_PKT_RCVD_PORT" THEN loaded.value[2] = "XFSM_IN_PORT"
             ELSE loaded.value[2] = str_to_header_field[s[2]]

\* XL's name of a comparison, and of a result.
ComparisonName == [LESS |-> "XTRA_LESS", LESS_EQ |-> "XTRA_LESS_EQ", GREATER |-> "XTRA_GREATER",
                   GREATER_EQ |-> "XTRA_GREATER_EQ", EQUAL |-> "XTRA_EQUAL", NOT_EQUAL |-> "XTRA_NOT_EQUAL"]
ResultName == [TRUE |-> "XTRA_TRUE", FALSE |-> "XTRA_FALSE", DONT_CARE |-> "XTRA_DONT_CARE"]

ConditionAsWritten(cond, got) == /\ cond.opcode[2] = ComparisonName[got.type]
                                 /\ Stands(cond.op0, got.op1) /\ Stands(cond.op1, got.op2)

ActionAsWritten(act, got) == /\ got.opcode = act.opcode[2]
                             /\ Stands(act.op0, got.op1) /\ Stands(act.op1, got.op2)
                             /\ got.type = "UPDATE" => Stands(act.op2, got.out)
                             /\ got.type = "SETFIELD" => Stands(act.op2, got.op3)

\* A result that no later one for the same condition overrides.
LastFor(results, k) == \A j \in (k + 1)..Len(results) : results[j].id # results[k].id

RowAsWritten(row, got) ==
  /\ << got.state, got.next_state, got.next_stage >> = << row.state[3], row.next_state[3], row.next_stage[3] >>
  /\ Len(got.actions) = Len(row.actions)
  /\ \A k \in DOMAIN row.actions : ActionAsWritten(row.actions[k], got.actions[k])
  /\ \A k \in DOMAIN row.condition_results :
       LastFor(row.condition_results, k) =>
         ResultName[got.results[row.condition_results[k].id[3] + 1]] = row.condition_results[k].result[2]

\* A program within the loader's limits is loaded as it is written: every
\* condition under its id, in whatever order they come, every row with its
\* results and all of its actions, and the fields of the key.
LoadedAsWritten ==
  pc = "done" /\ WellFormed(program) /\ Fits(program) =>
    LET t == xfsm[1]
    IN  /\ Len(t.conditions) = Len(program.conditions) /\ Len(t.rows) = Len(program.table_rows)
        /\ t.default_state = program.initial_state[3]
        /\ \A c \in DOMAIN program.conditions :
             LET cond == program.conditions[c]
             IN  ConditionAsWritten(cond, t.conditions[cond.id[3] + 1])
        /\ \A r \in DOMAIN program.table_rows : RowAsWritten(program.table_rows[r], t.rows[r])
        /\ t.lookup_key = [k \in DOMAIN program.flow_key |-> str_to_header_field[program.flow_key[k][2]]]

\* Within the limits, and apart from the three bytes behind the number of
\* conditions ("clobbered", which no program avoids), nothing is written past its
\* end or read unset: no other check than the loader's own few stands between a
\* program and the heap.
NothingWild == WellFormed(program) /\ Fits(program) => pc # "undefined"

\* A program within the limits is refused only where get_out_operand returns
\* nothing (XTRA_SUM and the like); DELETEINST, which json_to_actions refuses
\* though str_to_action_type knows it, is not well-formed here.
RefusedOnlyIfMalformed ==
  pc = "exit" => ~WellFormed(program) \/ ~Fits(program) \/ HasUpdate(program)

\* Once loaded, every row can be reached from its state, in the order of the
\* program, if there are no more than ten states and not both state 0 and any.
RowsReachable ==
  /\ pc = "done" /\ WellFormed(program) /\ Fits(program)
  /\ Cardinality(StatesOf(program) \cup {0}) <= MaxEntriesForeachState
  /\ ~({0, STATE_NULL} \subseteq StatesOf(program))
  => \A s \in StatesOf(program) :
       /\ s \in DOMAIN xfsm[1].entries
       /\ LET rows == xfsm[1].entries[s]
          IN  /\ {rows[k] : k \in DOMAIN rows} = RowsOf(program, s)
              /\ \A j, k \in DOMAIN rows : j < k => rows[j] < rows[k]
=============================================================================
