--------------------------- MODULE Loader_proofs ---------------------------
(***************************************************************************)
(* The loader, for any program, however long and however malformed, and    *)
(* any sizes of its arrays.  It checks almost nothing, so what it makes of *)
(* a program depends on what the program keeps to.  For one that is        *)
(* WellFormed and Fits: the conditions' ids, as many as there are          *)
(* conditions and none left out, are each the id of one condition, so that *)
(* no condition is written beside the array or over another; then nothing  *)
(* is refused, nothing goes wild, the table says what the program says,    *)
(* and every row can be found under its state.                             *)
(***************************************************************************)
EXTENDS Loader, Xfsm_proofs

-----------------------------------------------------------------------------
(* Texts, operands and results                                             *)

LEMMA TextKinds ==
  ASSUME NEW s \in Texts
  PROVE  /\ s[1] \in {"num", "huge", "word", "none"}
         /\ s[1] = "num" => s[2] \in Int /\ s[3] \in Int
         /\ s[1] = "word" => s[2] \in STRING
<1>1. CASE s \in {"num"} \X Int \X Int
  BY <1>1
<1>2. CASE s = << "huge" >>
  BY <1>2
<1>3. CASE s \in {"word"} \X STRING
  BY <1>3
<1>4. CASE s = << "none" >>
  BY <1>4
<1> QED BY <1>1, <1>2, <1>3, <1>4 DEF Texts

\* The names of the tables, and what they stand for.
LEMMA NameTables ==
  /\ \A s \in DOMAIN str_to_condition_type : ComparisonName[str_to_condition_type[s]] = s
  /\ \A s \in DOMAIN str_to_result : /\ str_to_result[s] \in {"TRUE", "FALSE", "DONT_CARE"}
                                     /\ ResultName[str_to_result[s]] = s
  /\ \A s \in DOMAIN str_to_action_type : str_to_action_type[s] \in {"UPDATE", "SENDPKT", "SETFIELD", "DESTROY"}
<1>1. \A s \in DOMAIN str_to_condition_type : ComparisonName[str_to_condition_type[s]] = s
  BY DEF str_to_condition_type, ComparisonName
<1>2. \A s \in DOMAIN str_to_result : /\ str_to_result[s] \in {"TRUE", "FALSE", "DONT_CARE"}
                                      /\ ResultName[str_to_result[s]] = s
  BY DEF str_to_result, ResultName
<1>3. \A s \in DOMAIN str_to_action_type : str_to_action_type[s] \in {"UPDATE", "SENDPKT", "SETFIELD", "DESTROY"}
  BY DEF str_to_action_type, Arithmetic
<1> QED BY <1>1, <1>2, <1>3

LEMMA ValueTypes ==
  /\ DOMAIN str_to_value_type = {"XTRA_LOCAL_REGISTER", "XTRA_GLOBAL_REGISTER", "XTRA_INTEGER_CONST",
                                 "XTRA_PKT_FIELD", "XTRA_EVENT_FIELD", "XTRA_READ_ONLY_REGISTER"}
  /\ str_to_value_type["XTRA_LOCAL_REGISTER"] = "REGISTER"
  /\ str_to_value_type["XTRA_GLOBAL_REGISTER"] = "GLOBAL_REGISTER"
  /\ str_to_value_type["XTRA_INTEGER_CONST"] = "CONSTANT"
  /\ \A s \in {"XTRA_PKT_FIELD", "XTRA_EVENT_FIELD", "XTRA_READ_ONLY_REGISTER"} : str_to_value_type[s] = "HDR_FIELD"
  BY DEF str_to_value_type

\* The numbers str_to_uint64 and str_to_uint8 give.
LEMMA NumberTypes ==
  ASSUME NEW s \in Texts
  PROVE  /\ str_to_uint64(s).ok => str_to_uint64(s).val \in Int \X Int
         /\ str_to_uint32(s).ok => str_to_uint32(s).val \in Int
         /\ str_to_uint8(s).ok => str_to_uint8(s).val \in 0..255
<1>1. /\ s[1] \in {"num", "huge", "word", "none"}
      /\ s[1] = "num" => s[2] \in Int /\ s[3] \in Int
  BY TextKinds
<1>2. str_to_uint64(s).ok => str_to_uint64(s).val \in Int \X Int
  BY <1>1 DEF str_to_uint64
<1>3. str_to_uint32(s).ok => str_to_uint32(s).val \in Int
  BY <1>1 DEF str_to_uint32
<1>4. str_to_uint8(s).ok => str_to_uint8(s).val \in 0..255
  BY <1>1 DEF str_to_uint8
<1> QED BY <1>2, <1>3, <1>4

\* What get_operand returns without an error is an operand.
LEMMA OperandType ==
  ASSUME NEW o \in OperandsRead, NEW r \in get_operand(o), ~Failed(r)
  PROVE  r \in OperandsMade
<1> DEFINE type == Meant(o.type, str_to_value_type)
           text == IF type \in {"REGISTER", "GLOBAL_REGISTER"} \/ (type = "HDR_FIELD" /\ ~IsString(o.value))
                     THEN o.name ELSE o.value
<1>1. r # RETURN_ERROR
  BY DEF Failed, RETURN_ERROR
<1>2. Known(o.type, str_to_value_type) /\ type \in {"REGISTER", "GLOBAL_REGISTER", "CONSTANT", "HDR_FIELD"}
  <2>1. Known(o.type, str_to_value_type)
    BY <1>1 DEF get_operand
  <2> QED BY <2>1, ValueTypes DEF Known, Meant
<1>3. text \in Texts
  BY DEF OperandsRead
<1> HIDE DEF text
<1>4. CASE type # "HDR_FIELD"
  <2>1. str_to_uint64(text).ok /\ r = [type |-> type, value |-> str_to_uint64(text).val]
    BY <1>1, <1>2, <1>4 DEF get_operand, text
  <2>2. str_to_uint64(text).val \in Int \X Int
    BY <1>3, <2>1, NumberTypes
  <2> QED BY <1>2, <1>4, <2>1, <2>2 DEF OperandsMade
<1>5. CASE type = "HDR_FIELD"
  <2>1. Known(text, str_to_event_field) \/ Known(text, str_to_header_field)
    BY <1>1, <1>2, <1>5 DEF get_operand, text
  <2>2. PICK hi \in Garbage : r = [type |-> type, value |-> << hi, Field(text) >>]
    BY <1>1, <1>2, <1>5 DEF get_operand, text
  <2>3. Field(text) \in HeaderFields \cup EventFields
    BY <2>1 DEF Field, Known, Meant, HeaderFields, EventFields
  <2> QED BY <1>5, <2>2, <2>3 DEF OperandsMade
<1> QED BY <1>4, <1>5

LEMMA OutOperandType ==
  ASSUME NEW o \in OperandsRead, NEW r \in get_out_operand(o), ~Failed(r)
  PROVE  r \in OperandsMade
<1>1. r # RETURN_ERROR
  BY DEF Failed, RETURN_ERROR
<1>2. /\ Meant(o.type, str_to_value_type) \in {"REGISTER", "GLOBAL_REGISTER"}
      /\ str_to_uint8(o.name).ok
      /\ r = [type |-> Meant(o.type, str_to_value_type), value |-> << 0, str_to_uint8(o.name).val >>]
  BY <1>1 DEF get_out_operand
<1>3. o.name \in Texts
  BY DEF OperandsRead
<1>4. str_to_uint8(o.name).val \in Int
  BY <1>2, <1>3, NumberTypes
<1> QED BY <1>2, <1>4 DEF OperandsMade

\* An action of the program, read without an error.
LEMMA ActionType ==
  ASSUME NEW act \in ActionsRead, NEW type, type = Meant(act.opcode, str_to_action_type),
         Known(act.opcode, str_to_action_type), type # "DESTROY",
         NEW op0 \in get_operand(act.op0), NEW op1 \in get_operand(act.op1),
         NEW op2 \in IF type = "SETFIELD" THEN get_operand(act.op2)
                     ELSE IF type = "UPDATE" THEN get_out_operand(act.op2) ELSE {op1},
         ~Failed(op0), ~Failed(op1), ~Failed(op2)
  PROVE  /\ op0 \in OperandsMade /\ op1 \in OperandsMade /\ op2 \in OperandsMade
         /\ act.opcode[2] \in Opcodes /\ type \in {"SENDPKT", "UPDATE", "SETFIELD"}
<1>1. act.op0 \in OperandsRead /\ act.op1 \in OperandsRead /\ act.op2 \in OperandsRead
  BY DEF ActionsRead
<1>2. op0 \in OperandsMade /\ op1 \in OperandsMade
  BY <1>1, OperandType
<1>3. op2 \in OperandsMade
  <2>1. CASE type = "SETFIELD"
    BY <1>1, <2>1, OperandType
  <2>2. CASE type = "UPDATE"
    BY <1>1, <2>2, OutOperandType
  <2>3. CASE type \notin {"SETFIELD", "UPDATE"}
    BY <1>2, <2>3
  <2> QED BY <2>1, <2>2, <2>3
<1>4. act.opcode[2] \in Opcodes /\ type \in {"UPDATE", "SENDPKT", "SETFIELD", "DESTROY"}
  BY NameTables DEF Known, Meant, Opcodes
<1> QED BY <1>2, <1>3, <1>4

\* The record that is made of it.
Record(type, opcode, op0, op1, op2) ==
  CASE type = "SETFIELD" -> [type |-> type, opcode |-> opcode, op1 |-> op0, op2 |-> op1, op3 |-> op2]
    [] type = "UPDATE"   -> [type |-> type, opcode |-> opcode, op1 |-> op0, op2 |-> op1, out |-> op2]
    [] type = "SENDPKT"  -> [type |-> type, opcode |-> opcode, op1 |-> op0, op2 |-> op1]

LEMMA RecordType ==
  ASSUME NEW type \in {"SENDPKT", "UPDATE", "SETFIELD"}, NEW opcode \in Opcodes,
         NEW op0 \in OperandsMade, NEW op1 \in OperandsMade, NEW op2 \in OperandsMade
  PROVE  Record(type, opcode, op0, op1, op2) \in ActionsMade
<1>1. CASE type = "SETFIELD"
  BY <1>1 DEF Record, ActionsMade
<1>2. CASE type = "UPDATE"
  BY <1>2 DEF Record, ActionsMade
<1>3. CASE type = "SENDPKT"
  BY <1>3 DEF Record, ActionsMade
<1> QED BY <1>1, <1>2, <1>3

\* The results of a row, of a row that is not malformed.
LEMMA ResultsType ==
  ASSUME Row \in RowsRead, ~ResultsMalformed
  PROVE  Results \in [1..16 -> {"TRUE", "FALSE", "DONT_CARE"}]
<1> DEFINE rs == Row.condition_results
           given(c) == {r \in DOMAIN rs : str_to_uint32(rs[r].id).val + 1 = c}
<1>1. rs \in Seq([id : Texts, result : Texts])
  BY DEF RowsRead
<1>2. ASSUME NEW c \in 1..16, given(c) # {}
      PROVE  Max(given(c)) \in given(c)
  <2>1. given(c) \subseteq 1..Len(rs) /\ Len(rs) \in Nat
    BY <1>1
  <2> HIDE DEF given
  <2> QED BY <1>2, <2>1, MaxOf
<1>3. ASSUME NEW r \in DOMAIN rs
      PROVE  Meant(rs[r].result, str_to_result) \in {"TRUE", "FALSE", "DONT_CARE"}
  <2>1. Known(rs[r].result, str_to_result)
    BY DEF ResultsMalformed
  <2> QED BY <2>1, NameTables DEF Known, Meant
<1>4. ASSUME NEW c \in 1..16
      PROVE  (IF given(c) = {} THEN "DONT_CARE" ELSE Meant(rs[Max(given(c))].result, str_to_result))
               \in {"TRUE", "FALSE", "DONT_CARE"}
  <2>1. CASE given(c) = {}
    BY <2>1
  <2>2. CASE given(c) # {}
    <3>1. Max(given(c)) \in DOMAIN rs
      BY <1>2, <2>2
    <3> HIDE DEF given
    <3> QED BY <1>3, <2>2, <3>1
  <2> QED BY <2>1, <2>2
<1> HIDE DEF given
<1>5. Results = [c \in 1..16 |-> IF given(c) = {} THEN "DONT_CARE"
                                 ELSE Meant(rs[Max(given(c))].result, str_to_result)]
  BY DEF Results, given
<1> QED BY <1>4, <1>5

-----------------------------------------------------------------------------
(* Types, for any program                                                  *)

LEMMA ProgramShape ==
  ASSUME program \in Programs
  PROVE  /\ program.conditions \in Seq(ConditionsRead) /\ program.initial_state \in Texts
         /\ program.table_rows \in Seq(RowsRead) /\ program.flow_key \in Seq(Texts)
  BY ProgramsAssumption

LEMMA RowShape ==
  ASSUME program \in Programs, n \in 1..Len(program.table_rows)
  PROVE  Row \in RowsRead /\ Row.actions \in Seq(ActionsRead) /\ Len(Row.actions) \in Nat
<1>1. program.table_rows \in Seq(RowsRead)
  BY ProgramShape
<1>2. Row \in RowsRead
  BY <1>1 DEF Row
<1> QED BY <1>2 DEF RowsRead

\* A row whose actions are read has the form of one, and what belongs to the
\* end of a program is set when it comes.
TypeInv ==
  /\ TypeOK
  /\ pc = "action" => n <= Len(program.table_rows) /\ ~ResultsMalformed
  /\ pc = "flow_key" => Len(lookup_key) = n - 1
  /\ pc \in {"conditions", "condition", "count_rows", "row", "action"} => lookup_key = << >>

LEMMA TypeInit == Init => TypeInv
<1> SUFFICES ASSUME Init PROVE TypeInv
  OBVIOUS
<1>1. program \in Programs /\ pc = "conditions" /\ n = 1 /\ a = 1 /\ conditions = << >> /\ initial_state = 0
      /\ table_size = 0 /\ table_entries = << >> /\ actions = << >> /\ lookup_key = << >> /\ xfsm = << >>
  BY DEF Init
<1>2. << >> \in [DOMAIN << >> -> Seq(ConditionsMade)] /\ << >> \in Seq(EntriesMade) /\ << >> \in Seq(ActionsMade)
      /\ << >> \in Seq(HeaderFields) /\ Len(<< >>) = 0
  OBVIOUS
<1>3. 0 \in 0..255 /\ 1 \in Nat \ {0} /\ 0 <= LookupKeySize
  BY LoaderAssumption
<1>4. TypeOK
  BY <1>1, <1>2, <1>3 DEF TypeOK
<1> QED BY <1>1, <1>4 DEF TypeInv

\* A run that is over keeps what it has made.
LEMMA StopTypes ==
  ASSUME TypeInv, NEW where \in {"exit", "undefined", "clobbered"}, Stop(where), pc # "done"
  PROVE  TypeInv'
<1>1. pc' = where /\ UNCHANGED << program, n, a, conditions, initial_state, table_size, table_entries,
                                  actions, lookup_key, xfsm >>
  BY DEF Stop, made
<1>2. TypeOK'
  BY <1>1 DEF TypeOK, TypeInv
<1> QED BY <1>1, <1>2 DEF TypeInv

LEMMA ConditionsTypes ==
  ASSUME TypeInv, CountConditions \/ Condition \/ InitialState \/ CountRows
  PROVE  TypeInv'
<1>0. TypeOK /\ program \in Programs
  BY DEF TypeInv, TypeOK
<1>1. /\ program.conditions \in Seq(ConditionsRead) /\ program.initial_state \in Texts
      /\ program.table_rows \in Seq(RowsRead)
  BY <1>0, ProgramShape
<1>2. CASE CountConditions
  <2>1. CASE Exit
    BY <1>2, <2>1, StopTypes DEF Exit, CountConditions
  <2>4. CASE Clobbered
    BY <1>2, <2>4, StopTypes DEF Clobbered, CountConditions
  <2>2. CASE ~Exit /\ ~Clobbered
    <3>1. /\ conditions' = [id \in 0..(Len(program.conditions) - 1) |-> << >>]
          /\ pc = "conditions" /\ pc' = "condition" /\ n' = 1 /\ a' = 1
          /\ UNCHANGED << program, initial_state, table_size, table_entries, actions, lookup_key, xfsm >>
      BY <1>2, <2>2 DEF CountConditions, Goto
    <3>2. conditions' \in [DOMAIN conditions' -> Seq(ConditionsMade)]
      <4>1. << >> \in Seq(ConditionsMade)
        OBVIOUS
      <4> QED BY <3>1, <4>1
    <3>3. TypeOK'
      BY <1>0, <3>1, <3>2 DEF TypeOK
    <3> QED BY <3>1, <3>3 DEF TypeInv
  <2> QED BY <2>1, <2>2, <2>4
<1>3. CASE Condition
  <2> DEFINE c == program.conditions[n]
             id == str_to_uint32(c.id)
  <2>0. pc = "condition" /\ n <= Len(program.conditions) /\ c \in ConditionsRead
    BY <1>0, <1>1, <1>3 DEF Condition, TypeOK
  <2>1. CASE Exit \/ Undefined
    BY <2>0, <2>1, StopTypes DEF Exit, Undefined
  <2>2. CASE ~(Exit \/ Undefined)
    <3>1. PICK op0 \in get_operand(c.op0), op1 \in get_operand(c.op1) :
            /\ Known(c.opcode, str_to_condition_type) /\ ~Failed(op0) /\ ~Failed(op1)
            /\ conditions' = [conditions EXCEPT ![id.val] =
                     << [type |-> Meant(c.opcode, str_to_condition_type), op1 |-> op0, op2 |-> op1] >>]
            /\ NextElement
            /\ UNCHANGED << initial_state, table_size, table_entries, actions, lookup_key, xfsm >>
      BY <1>3, <2>2 DEF Condition
    <3>2. op0 \in OperandsMade /\ op1 \in OperandsMade
      BY <2>0, <3>1, OperandType DEF ConditionsRead
    <3>3. Meant(c.opcode, str_to_condition_type) \in Comparisons
      BY <3>1 DEF Known, Meant, Comparisons
    <3>4. PICK x \in ConditionsMade :
            x = [type |-> Meant(c.opcode, str_to_condition_type), op1 |-> op0, op2 |-> op1]
      BY <3>2, <3>3 DEF ConditionsMade
    <3>5. << x >> \in Seq(ConditionsMade) /\ conditions' = [conditions EXCEPT ![id.val] = << x >>]
      BY <3>1, <3>4
    <3>6. conditions' \in [DOMAIN conditions' -> Seq(ConditionsMade)]
      <4>1. conditions \in [DOMAIN conditions -> Seq(ConditionsMade)]
        BY <1>0 DEF TypeOK
      <4> QED BY <3>5, <4>1
    <3>7. /\ n' = n + 1
          /\ UNCHANGED << pc, program, a, initial_state, table_size, table_entries, actions, lookup_key, xfsm >>
      BY <3>1 DEF NextElement
    <3>8. TypeOK'
      BY <1>0, <3>6, <3>7 DEF TypeOK
    <3> QED BY <2>0, <3>7, <3>8 DEF TypeInv
  <2> QED BY <2>1, <2>2
<1>4. CASE InitialState
  <2>1. CASE Exit
    BY <1>4, <2>1, StopTypes DEF Exit, InitialState
  <2>2. CASE ~Exit
    <3>1. /\ pc = "condition" /\ str_to_uint8(program.initial_state).ok
          /\ initial_state' = str_to_uint8(program.initial_state).val
          /\ pc' = "count_rows" /\ n' = 1 /\ a' = 1
          /\ UNCHANGED << program, conditions, table_size, table_entries, actions, lookup_key, xfsm >>
      BY <1>4, <2>2 DEF InitialState, Goto
    <3>2. initial_state' \in 0..255
      BY <1>1, <3>1, NumberTypes
    <3>3. TypeOK'
      BY <1>0, <3>1, <3>2 DEF TypeOK
    <3> QED BY <3>1, <3>3 DEF TypeInv
  <2> QED BY <2>1, <2>2
<1>5. CASE CountRows
  <2>1. /\ pc = "count_rows" /\ pc' = "row" /\ n' = 1 /\ a' = 1
        /\ table_size' = Len(program.table_rows) % 256
        /\ UNCHANGED << program, conditions, initial_state, table_entries, actions, lookup_key, xfsm >>
    BY <1>5 DEF CountRows, Goto
  <2>2. table_size' \in 0..255
    <3>1. PICK k \in Nat : k = Len(program.table_rows)
      BY <1>1
    <3>2. k % 256 \in 0..255
      OBVIOUS
    <3> QED BY ONLY <2>1, <3>1, <3>2
  <2>3. TypeOK'
    <3>1. PICK size \in 0..255 : table_size' = size
      BY <2>2
    <3>2. /\ pc' = "row" /\ pc # "done" /\ n' = 1 /\ a' = 1
          /\ UNCHANGED << program, conditions, initial_state, table_entries, actions, lookup_key, xfsm >>
      BY <2>1
    <3> QED BY ONLY <1>0, <3>1, <3>2 DEF TypeOK
  <2> QED BY <2>1, <2>3 DEF TypeInv
<1> QED BY <1>2, <1>3, <1>4, <1>5

LEMMA RowTypes ==
  ASSUME TypeInv, BeginRow \/ Action \/ EndRow
  PROVE  TypeInv'
<1>0. TypeOK /\ program \in Programs /\ n \in Nat \ {0} /\ a \in Nat \ {0}
  BY DEF TypeInv, TypeOK
<1>1. program.table_rows \in Seq(RowsRead)
  BY <1>0, ProgramShape
<1>2. n <= Len(program.table_rows)
  BY DEF BeginRow, Action, EndRow, TypeInv
<1>3. Row \in RowsRead /\ Row.actions \in Seq(ActionsRead) /\ Len(Row.actions) \in Nat
  <2>1. n \in 1..Len(program.table_rows)
    BY <1>0, <1>1, <1>2
  <2> QED BY <1>0, <2>1, RowShape
<1>4. CASE BeginRow
  <2>1. CASE Exit
    BY <1>4, <2>1, StopTypes DEF Exit, BeginRow
  <2>2. CASE ~Exit
    <3>1. /\ pc = "row" /\ pc' = "action" /\ a' = 1 /\ actions' = << >> /\ ~ResultsMalformed
          /\ UNCHANGED << program, n, conditions, initial_state, table_size, table_entries, lookup_key, xfsm >>
      BY <1>4, <2>2 DEF BeginRow
    <3>2. ~ResultsMalformed'
      BY <3>1 DEF ResultsMalformed, Row
    <3>3. << >> \in Seq(ActionsMade)
      OBVIOUS
    <3>4. TypeOK'
      BY <1>0, <3>1, <3>3 DEF TypeOK
    <3> QED BY <1>2, <3>1, <3>2, <3>4 DEF TypeInv
  <2> QED BY <2>1, <2>2
<1>5. CASE Action
  <2> DEFINE act  == Row.actions[a]
             type == Meant(act.opcode, str_to_action_type)
  <2>0. pc = "action" /\ a <= Len(Row.actions) /\ act \in ActionsRead
    BY <1>0, <1>3, <1>5 DEF Action
  <2>1. CASE Exit
    BY <2>0, <2>1, StopTypes DEF Exit
  <2>4. CASE Undefined
    BY <2>0, <2>4, StopTypes DEF Undefined
  <2>2. CASE ~Exit /\ ~Undefined
    <3>1. Known(act.opcode, str_to_action_type) /\ type # "DESTROY"
      BY <1>5, <2>2 DEF Action, ExitNaming
    <3>2. PICK op0 \in get_operand(act.op0), op1 \in get_operand(act.op1) :
          \E op2 \in IF type = "SETFIELD" THEN get_operand(act.op2)
                     ELSE IF type = "UPDATE" THEN get_out_operand(act.op2) ELSE {op1} :
             /\ ~Failed(op0) /\ ~Failed(op1) /\ ~Failed(op2)
             /\ actions' = Append(actions, Record(type, act.opcode[2], op0, op1, op2))
             /\ a' = a + 1
             /\ UNCHANGED << pc, program, n, conditions, initial_state, table_size, table_entries,
                             lookup_key, xfsm >>
      BY <1>5, <2>2, <3>1 DEF Action, ExitNaming, Record
    <3>3. PICK op2 \in IF type = "SETFIELD" THEN get_operand(act.op2)
                       ELSE IF type = "UPDATE" THEN get_out_operand(act.op2) ELSE {op1} :
             /\ ~Failed(op0) /\ ~Failed(op1) /\ ~Failed(op2)
             /\ actions' = Append(actions, Record(type, act.opcode[2], op0, op1, op2))
             /\ a' = a + 1
             /\ UNCHANGED << pc, program, n, conditions, initial_state, table_size, table_entries,
                             lookup_key, xfsm >>
      BY <3>2
    <3> HIDE DEF act, type
    <3>4. /\ op0 \in OperandsMade /\ op1 \in OperandsMade /\ op2 \in OperandsMade
          /\ act.opcode[2] \in Opcodes /\ type \in {"SENDPKT", "UPDATE", "SETFIELD"}
      BY <2>0, <3>1, <3>3, ActionType DEF type
    <3>5. PICK x \in ActionsMade : x = Record(type, act.opcode[2], op0, op1, op2)
      BY <3>4, RecordType
    <3>6. actions' \in Seq(ActionsMade)
      <4>1. actions \in Seq(ActionsMade) /\ actions' = Append(actions, x)
        BY <1>0, <3>3, <3>5 DEF TypeOK
      <4> QED BY <4>1
    <3>7. TypeOK'
      BY <1>0, <3>3, <3>6 DEF TypeOK
    <3>8. ~ResultsMalformed'
      <4>1. ~ResultsMalformed
        BY <2>0 DEF TypeInv
      <4> QED BY <3>3, <4>1 DEF ResultsMalformed, Row
    <3> QED BY <1>2, <2>0, <3>3, <3>7, <3>8 DEF TypeInv
  <2> QED BY <2>1, <2>2, <2>4
<1>6. CASE EndRow
  <2>0. pc = "action" /\ ~ResultsMalformed
    BY <1>6 DEF EndRow, TypeInv
  <2>1. CASE Undefined
    BY <2>0, <2>1, StopTypes DEF Undefined
  <2>2. CASE ~Undefined
    <3> DEFINE row == [state |-> str_to_uint32(Row.state).val, next_state |-> str_to_uint32(Row.next_state).val,
                       next_stage |-> str_to_uint8(Row.next_stage).val, results |-> Results, actions |-> actions]
    <3>1. /\ table_entries' = Append(table_entries, row)
          /\ pc' = "row" /\ n' = n + 1 /\ a' = 1
          /\ UNCHANGED << program, conditions, initial_state, table_size, actions, lookup_key, xfsm >>
      BY <1>6, <2>2 DEF EndRow
    <3>2. row \in EntriesMade
      <4>1. Row.state \in Texts /\ Row.next_state \in Texts /\ Row.next_stage \in Texts
        BY <1>3 DEF RowsRead
      <4>2. /\ str_to_uint32(Row.state).val \in Int /\ str_to_uint32(Row.next_state).val \in Int
            /\ str_to_uint8(Row.next_stage).val \in 0..255
        <5>1. ASSUME NEW s \in Texts PROVE str_to_uint32(s).val \in Int /\ str_to_uint8(s).val \in 0..255
          <6>1. s[1] = "num" => s[3] \in Int
            BY TextKinds
          <6> QED BY <6>1 DEF str_to_uint32, str_to_uint8
        <5> QED BY <4>1, <5>1
      <4>3. Results \in [1..16 -> {"TRUE", "FALSE", "DONT_CARE"}]
        BY <1>3, <2>0, ResultsType
      <4>4. actions \in Seq(ActionsMade)
        BY <1>0 DEF TypeOK
      <4> HIDE DEF Row, Results
      <4> QED BY <4>2, <4>3, <4>4 DEF EntriesMade
    <3> HIDE DEF row
    <3>3. table_entries' \in Seq(EntriesMade)
      <4>1. table_entries \in Seq(EntriesMade)
        BY <1>0 DEF TypeOK
      <4> QED BY <3>1, <3>2, <4>1
    <3>4. TypeOK'
      BY <1>0, <2>0, <3>1, <3>3 DEF TypeOK
    <3> QED BY <2>0, <3>1, <3>4 DEF TypeInv
  <2> QED BY <2>1, <2>2
<1> QED BY <1>4, <1>5, <1>6

LEMMA KeyTypes ==
  ASSUME TypeInv, BeginKey \/ KeyField \/ CopyConditions \/ Create
  PROVE  TypeInv'
<1>0. TypeOK /\ program \in Programs /\ n \in Nat \ {0}
  BY DEF TypeInv, TypeOK
<1>1. CASE BeginKey
  <2>1. /\ pc = "row" /\ pc' = "flow_key" /\ n' = 1 /\ a' = 1
        /\ UNCHANGED << program, conditions, initial_state, table_size, table_entries, actions, lookup_key, xfsm >>
    BY <1>1 DEF BeginKey, Goto, made
  <2>2. TypeOK'
    BY <1>0, <2>1 DEF TypeOK
  <2>3. Len(lookup_key') = n' - 1
    <3>1. lookup_key = << >>
      BY <2>1 DEF TypeInv
    <3> QED BY <2>1, <3>1
  <2> QED BY <2>1, <2>2, <2>3 DEF TypeInv
<1>2. CASE KeyField
  <2> DEFINE value == program.flow_key[n]
  <2>0. pc = "flow_key" /\ Len(lookup_key) = n - 1 /\ lookup_key \in Seq(HeaderFields)
    BY <1>2 DEF KeyField, TypeInv, TypeOK
  <2>1. CASE Exit \/ Undefined
    BY <2>0, <2>1, StopTypes DEF Exit, Undefined
  <2>2. CASE ~(Exit \/ Undefined)
    <3>1. /\ IsString(value) /\ Known(value, str_to_header_field) /\ n <= LookupKeySize
          /\ lookup_key' = Append(lookup_key, Meant(value, str_to_header_field))
          /\ n' = n + 1
          /\ UNCHANGED << pc, program, a, conditions, initial_state, table_size, table_entries, actions, xfsm >>
      <4>1. IsString(value) /\ Known(value, str_to_header_field) /\ ~(n > LookupKeySize)
        BY <1>2, <2>2 DEF KeyField
      <4>2. n <= LookupKeySize
        BY <1>0, <4>1, LoaderAssumption
      <4> QED BY <1>2, <2>2, <4>1, <4>2 DEF KeyField, NextElement
    <3>2. PICK x \in HeaderFields : x = Meant(value, str_to_header_field)
      BY <3>1 DEF Known, Meant, HeaderFields
    <3>3. lookup_key' \in Seq(HeaderFields) /\ Len(lookup_key') = n
      BY <1>0, <2>0, <3>1, <3>2
    <3>4. TypeOK'
      BY <1>0, <3>1, <3>3 DEF TypeOK
    <3> QED BY <2>0, <3>1, <3>3, <3>4, <1>0 DEF TypeInv
  <2> QED BY <2>1, <2>2
<1>3. CASE CopyConditions
  <2>1. CASE Undefined
    BY <1>3, <2>1, StopTypes DEF CopyConditions, Undefined
  <2>2. CASE ~Undefined
    <3>1. /\ pc = "flow_key" /\ pc' = "create" /\ n' = 1 /\ a' = 1
          /\ UNCHANGED << program, conditions, initial_state, table_size, table_entries, actions, lookup_key, xfsm >>
      BY <1>3, <2>2 DEF CopyConditions, Goto, made
    <3>2. TypeOK'
      BY <1>0, <3>1 DEF TypeOK
    <3> QED BY <3>1, <3>2 DEF TypeInv
  <2> QED BY <2>1, <2>2
<1>4. CASE Create
  <2>1. CASE Undefined
    BY <1>4, <2>1, StopTypes DEF Create, Undefined
  <2>2. CASE ~Undefined
    <3>1. PICK table : /\ xfsm' = << table >> /\ pc = "create" /\ pc' = "done" /\ n' = 1 /\ a' = 1
                       /\ UNCHANGED << program, conditions, initial_state, table_size, table_entries, actions, lookup_key >>
      BY <1>4, <2>2 DEF Create, Goto
    <3>2. << table >> # << >>
      OBVIOUS
    <3>3. TypeOK'
      BY <1>0, <3>1, <3>2 DEF TypeOK
    <3> QED BY <3>1, <3>3 DEF TypeInv
  <2> QED BY <2>1, <2>2
<1> QED BY <1>1, <1>2, <1>3, <1>4

LEMMA TypeStep == TypeInv /\ [Next]_vars => TypeInv'
<1> SUFFICES ASSUME TypeInv, [Next]_vars PROVE TypeInv'
  OBVIOUS
<1>1. CASE UNCHANGED vars
  <2>1. UNCHANGED << pc, program, n, a, conditions, initial_state, table_size, table_entries, actions,
                     lookup_key, xfsm >>
    BY <1>1 DEF vars
  <2>2. TypeOK' /\ (ResultsMalformed' <=> ResultsMalformed)
    BY <2>1 DEF TypeOK, TypeInv, ResultsMalformed, Row
  <2> QED BY <2>1, <2>2 DEF TypeInv
<1>2. CASE Next
  BY <1>2, ConditionsTypes, RowTypes, KeyTypes DEF Next
<1> QED BY <1>1, <1>2

\* Every variable has its type, whatever the program: what is put into the table
\* comes from the tables of names, and numbers have the size of their fields.
THEOREM LoaderTypes == Spec => []TypeOK
<1>1. TypeInv => TypeOK
  BY DEF TypeInv
<1> QED BY <1>1, TypeInit, TypeStep, PTL DEF Spec

-----------------------------------------------------------------------------
(* What a well-formed program's texts are read as                          *)

LEMMA SmallNumbers ==
  ASSUME NEW s, IsSmall(s)
  PROVE  str_to_uint8(s).ok /\ str_to_uint8(s).val = s[3] /\ str_to_uint64(s) = [ok |-> TRUE, val |-> << 0, s[3] >>]
  BY DEF IsSmall, str_to_uint8, str_to_uint64

\* An operand of a well-formed program is read, as what it stands for.
LEMMA OperandStands ==
  ASSUME NEW o \in OperandsRead, WellFormedOperand(o), NEW r \in get_operand(o)
  PROVE  ~Failed(r) /\ Stands(o, r)
<1> DEFINE type == Meant(o.type, str_to_value_type)
           text == IF type \in {"REGISTER", "GLOBAL_REGISTER"} \/ (type = "HDR_FIELD" /\ ~IsString(o.value))
                     THEN o.name ELSE o.value
<1>1. IsWord(o.type)
  BY DEF WellFormedOperand
<1>2. CASE o.type[2] \in {"XTRA_LOCAL_REGISTER", "XTRA_GLOBAL_REGISTER"} /\ IsSmall(o.name)
  <2>1. /\ Known(o.type, str_to_value_type)
        /\ type = IF o.type[2] = "XTRA_LOCAL_REGISTER" THEN "REGISTER" ELSE "GLOBAL_REGISTER"
    BY <1>1, <1>2, ValueTypes DEF Known, Meant
  <2>2. text = o.name /\ type # "HDR_FIELD"
    BY <2>1
  <2>3. str_to_uint64(text).ok /\ str_to_uint64(text).val = << 0, o.name[3] >>
    BY <1>2, <2>2, SmallNumbers
  <2> HIDE DEF text, type
  <2>4. get_operand(o) = {[type |-> type, value |-> str_to_uint64(text).val]}
    BY <2>1, <2>2, <2>3 DEF get_operand, text, type
  <2>5. r.type = type /\ r.value = << 0, o.name[3] >>
    BY <2>3, <2>4
  <2> QED BY <1>2, <2>1, <2>5 DEF Failed, Stands
<1>3. CASE o.type[2] = "XTRA_INTEGER_CONST" /\ IsNumber(o.value)
  <2>1. Known(o.type, str_to_value_type) /\ type = "CONSTANT"
    BY <1>1, <1>3, ValueTypes DEF Known, Meant
  <2>2. text = o.value /\ type # "HDR_FIELD"
    BY <2>1
  <2>3. /\ str_to_uint64(text).ok
        /\ str_to_uint64(text).val = IF o.value[1] = "huge" THEN << -1, -1 >> ELSE << o.value[2], o.value[3] >>
    BY <1>3, <2>2 DEF IsNumber, str_to_uint64
  <2> HIDE DEF text, type
  <2>4. get_operand(o) = {[type |-> type, value |-> str_to_uint64(text).val]}
    BY <2>1, <2>2, <2>3 DEF get_operand, text, type
  <2>5. r.type = "CONSTANT" /\ r.value = str_to_uint64(text).val
    BY <2>1, <2>4
  <2> QED BY <1>3, <2>3, <2>5 DEF Failed, Stands
<1>4. CASE /\ o.type[2] \in {"XTRA_PKT_FIELD", "XTRA_EVENT_FIELD", "XTRA_READ_ONLY_REGISTER"}
           /\ \E s \in {o.name, o.value} : /\ IsWord(s) /\ (s = o.name => ~IsString(o.value))
                                           /\ s[2] \in DOMAIN str_to_header_field \cup {"XTRA_PKT_RCVD_PORT"}
  <2>1. Known(o.type, str_to_value_type) /\ type = "HDR_FIELD"
    BY <1>1, <1>4, ValueTypes DEF Known, Meant
  <2>2. PICK s : /\ s \in {o.name, o.value} /\ IsWord(s) /\ (s = o.name => ~IsString(o.value))
                 /\ s[2] \in DOMAIN str_to_header_field \cup {"XTRA_PKT_RCVD_PORT"}
    BY <1>4
  <2>3. text = s /\ s = IF IsString(o.value) THEN o.value ELSE o.name
    BY <2>1, <2>2 DEF IsString, IsWord
  <2>4. Known(text, str_to_event_field) \/ Known(text, str_to_header_field)
    BY <2>2, <2>3 DEF Known, str_to_event_field
  <2>5. Field(s) = IF s[2] = "XTRA_PKT_RCVD_PORT" THEN "XFSM_IN_PORT" ELSE str_to_header_field[s[2]]
    BY <2>2 DEF Field, Known, Meant, str_to_event_field
  <2> HIDE DEF text, type
  <2>6. get_operand(o) = {[type |-> type, value |-> << hi, Field(text) >>] : hi \in Garbage}
    BY <2>1, <2>4 DEF get_operand, text, type
  <2>7. r.type = "HDR_FIELD" /\ r.value[2] = Field(s)
    BY <2>1, <2>3, <2>6
  <2> QED BY <2>3, <2>5, <2>7 DEF Failed, Stands
<1> QED BY <1>2, <1>3, <1>4 DEF WellFormedOperand

\* So is the register an update writes to, where anything is returned for it.
LEMMA OutStands ==
  ASSUME NEW o, o.type[2] \in {"XTRA_LOCAL_REGISTER", "XTRA_GLOBAL_REGISTER"}, IsSmall(o.name),
         NEW r \in get_out_operand(o), ~Failed(r)
  PROVE  Stands(o, r)
<1>1. r # RETURN_ERROR
  BY DEF Failed, RETURN_ERROR
<1>2. r = [type |-> Meant(o.type, str_to_value_type), value |-> << 0, str_to_uint8(o.name).val >>]
  BY <1>1 DEF get_out_operand
<1>3. Meant(o.type, str_to_value_type)
        = IF o.type[2] = "XTRA_LOCAL_REGISTER" THEN "REGISTER" ELSE "GLOBAL_REGISTER"
  BY ValueTypes DEF Meant
<1>4. str_to_uint8(o.name).val = o.name[3]
  BY SmallNumbers
<1>5. r.type = (IF o.type[2] = "XTRA_LOCAL_REGISTER" THEN "REGISTER" ELSE "GLOBAL_REGISTER")
      /\ r.value = << 0, o.name[3] >>
  BY <1>2, <1>3, <1>4
<1> QED BY <1>5 DEF Stands

\* An action of a well-formed program is refused only where an update's result
\* goes to nothing, and otherwise becomes what it says.
LEMMA ActionStands ==
  ASSUME NEW act \in ActionsRead, WellFormedAction(act), NEW type, type = Meant(act.opcode, str_to_action_type),
         NEW op0 \in get_operand(act.op0), NEW op1 \in get_operand(act.op1),
         NEW op2 \in IF type = "SETFIELD" THEN get_operand(act.op2)
                     ELSE IF type = "UPDATE" THEN get_out_operand(act.op2) ELSE {op1}
  PROVE  /\ type \in {"UPDATE", "SENDPKT", "SETFIELD"}
         /\ ~Failed(op0) /\ ~Failed(op1) /\ (type # "UPDATE" => ~Failed(op2))
         /\ ~Failed(op2) => ActionAsWritten(act, Record(type, act.opcode[2], op0, op1, op2))
<1>1. type \in {"UPDATE", "SENDPKT", "SETFIELD"}
  BY DEF WellFormedAction, OperandsOf
<1>2. act.op0 \in OperandsRead /\ act.op1 \in OperandsRead /\ act.op2 \in OperandsRead
  BY DEF ActionsRead
<1>3. /\ WellFormedOperand(act.op0) /\ WellFormedOperand(act.op1)
      /\ type = "SETFIELD" => WellFormedOperand(act.op2)
  <2>0. \A k \in DOMAIN OperandsOf[type] : WellFormedOperand(act[OperandsOf[type][k]])
    BY DEF WellFormedAction
  <2>1. CASE type = "SETFIELD"
    <3>1. OperandsOf[type] = << "op0", "op1", "op2" >>
      BY <2>1 DEF OperandsOf
    <3>2. 1 \in DOMAIN OperandsOf[type] /\ 2 \in DOMAIN OperandsOf[type] /\ 3 \in DOMAIN OperandsOf[type]
      BY <3>1
    <3> QED BY <2>0, <3>1, <3>2
  <2>2. CASE type # "SETFIELD"
    <3>1. OperandsOf[type] = << "op0", "op1" >>
      BY <1>1, <2>2 DEF OperandsOf
    <3>2. 1 \in DOMAIN OperandsOf[type] /\ 2 \in DOMAIN OperandsOf[type]
      BY <3>1
    <3> QED BY <2>0, <2>2, <3>1, <3>2
  <2> QED BY <2>1, <2>2
<1>4. ~Failed(op0) /\ Stands(act.op0, op0) /\ ~Failed(op1) /\ Stands(act.op1, op1)
  BY <1>2, <1>3, OperandStands
<1>5. type = "SETFIELD" => ~Failed(op2) /\ Stands(act.op2, op2)
  BY <1>2, <1>3, OperandStands
<1>6. type = "SENDPKT" => ~Failed(op2)
  BY <1>4
<1>7. ASSUME type = "UPDATE", ~Failed(op2) PROVE Stands(act.op2, op2)
  <2>1. act.op2.type[2] \in {"XTRA_LOCAL_REGISTER", "XTRA_GLOBAL_REGISTER"} /\ IsSmall(act.op2.name)
    BY <1>7 DEF WellFormedAction
  <2>2. op2 \in get_out_operand(act.op2)
    BY <1>7
  <2> QED BY <1>7, <2>1, <2>2, OutStands
<1>8. ASSUME ~Failed(op2) PROVE ActionAsWritten(act, Record(type, act.opcode[2], op0, op1, op2))
  <2>1. CASE type = "SETFIELD"
    BY <1>4, <1>5, <2>1 DEF ActionAsWritten, Record
  <2>2. CASE type = "UPDATE"
    BY <1>4, <1>7, <1>8, <2>2 DEF ActionAsWritten, Record
  <2>3. CASE type = "SENDPKT"
    BY <1>4, <2>3 DEF ActionAsWritten, Record
  <2> QED BY <1>1, <2>1, <2>2, <2>3
<1> QED BY <1>1, <1>4, <1>5, <1>6, <1>8

-----------------------------------------------------------------------------
(* The inductive invariant                                                 *)

\* Where the loader is with a program that keeps to its limits: what it has
\* read so far is what the program says.
ConditionsDone(m) ==
  /\ DOMAIN conditions = 0..(Len(program.conditions) - 1)
  /\ \A c \in 1..m : LET cond == program.conditions[c]
                     IN  /\ Len(conditions[cond.id[3]]) = 1
                         /\ ConditionAsWritten(cond, conditions[cond.id[3]][1])

HeadDone == /\ ConditionsDone(Len(program.conditions))
            /\ initial_state = program.initial_state[3]

RowsDone(m) == /\ table_size = Len(program.table_rows) /\ Len(table_entries) = m
               /\ \A r \in 1..m : RowAsWritten(program.table_rows[r], table_entries[r])

ActionsDone(m) == /\ Len(actions) = m
                  /\ \A k \in 1..m : ActionAsWritten(Row.actions[k], actions[k])

KeyDone(m) == lookup_key = [k \in 1..m |-> str_to_header_field[program.flow_key[k][2]]]

\* The table that is created.
Table(biflow_no) == [conditions |-> [c \in 1..Cardinality(DOMAIN conditions) |-> conditions[c - 1][1]],
                     rows |-> table_entries, entries |-> EntriesDb(table_entries),
                     default_state |-> initial_state, lookup_key |-> lookup_key, biflow_no |-> biflow_no]

Progress ==
  /\ pc = "conditions" => table_entries = << >> /\ lookup_key = << >>
  /\ pc = "condition"  => /\ n <= Len(program.conditions) + 1 /\ ConditionsDone(n - 1)
                          /\ table_entries = << >> /\ lookup_key = << >>
  /\ pc = "count_rows" => HeadDone /\ table_entries = << >> /\ lookup_key = << >>
  /\ pc = "row"        => /\ HeadDone /\ n <= Len(program.table_rows) + 1 /\ RowsDone(n - 1)
                          /\ lookup_key = << >>
  /\ pc = "action"     => /\ HeadDone /\ n <= Len(program.table_rows) /\ RowsDone(n - 1)
                          /\ a <= Len(Row.actions) + 1 /\ ActionsDone(a - 1) /\ lookup_key = << >>
  /\ pc = "flow_key"   => /\ HeadDone /\ RowsDone(Len(program.table_rows))
                          /\ n <= Len(program.flow_key) + 1 /\ KeyDone(n - 1)
  /\ pc \in {"create", "done"} => /\ HeadDone /\ RowsDone(Len(program.table_rows))
                                  /\ KeyDone(Len(program.flow_key))
  /\ pc = "done" => \E biflow_no \in Garbage : xfsm = << Table(biflow_no) >>

Good == WellFormed(program) /\ Fits(program)

Loading == pc # "undefined" /\ (pc = "exit" => HasUpdate(program)) /\ Progress

LoadInv == TypeInv /\ (Good => Loading)

-----------------------------------------------------------------------------
(* The ids of the conditions, and the results of a row                     *)

LEMMA NumberIs == ASSUME NEW s \in Texts, s[1] = "num" PROVE s = << "num", s[2], s[3] >>
<1>1. CASE s \in {"num"} \X Int \X Int
  BY <1>1
<1>2. CASE s \notin {"num"} \X Int \X Int
  BY <1>2 DEF Texts
<1> QED BY <1>1, <1>2

LEMMA CountFromZero ==
  ASSUME NEW N \in Nat
  PROVE  IsFiniteSet(0..(N - 1)) /\ Cardinality(0..(N - 1)) = N /\ IsFiniteSet(1..N) /\ Cardinality(1..N) = N
<1>1. N - 1 \in Int /\ N \in Int /\ 0 \in Int /\ 1 \in Int
  OBVIOUS
<1>2. IsFiniteSet(0..(N - 1)) /\ Cardinality(0..(N - 1)) = IF 0 > N - 1 THEN 0 ELSE (N - 1) - 0 + 1
  BY <1>1, FS_Interval
<1>3. IsFiniteSet(1..N) /\ Cardinality(1..N) = IF 1 > N THEN 0 ELSE N - 1 + 1
  BY <1>1, FS_Interval
<1> QED BY <1>2, <1>3

\* Each of the ids from 0 is given to a condition; there are as many conditions
\* as ids, so that none is left that has another id, or one a second time.
LEMMA IdsAreIndices ==
  ASSUME program \in Programs, Good
  PROVE  LET N == Len(program.conditions)
             cond == program.conditions
         IN  /\ N \in 0..16
             /\ \A c \in 1..N : /\ str_to_uint32(cond[c].id) = [ok |-> TRUE, val |-> cond[c].id[3]]
                                /\ cond[c].id[3] \in 0..(N - 1)
             /\ \A c, d \in 1..N : cond[c].id[3] = cond[d].id[3] => c = d
             /\ \A id \in 0..(N - 1) : \E c \in 1..N : cond[c].id[3] = id
<1> DEFINE cond == program.conditions
<1>1. PICK N : N = Len(cond)
  OBVIOUS
<1>2. cond \in Seq(ConditionsRead) /\ N \in Nat /\ DOMAIN cond = 1..N
  BY <1>1, ProgramShape
<1>3. N \in 0..16 /\ \A id \in 0..(N - 1) : \E c \in 1..N : cond[c].id = << "num", 0, id >>
  <2>1. Len(cond) <= MaxConditions
    BY DEF Good, Fits
  <2>2. N \in 0..16
    <3>1. N <= MaxConditions /\ N \in Nat /\ MaxConditions = 16
      BY <1>1, <1>2, <2>1, LoaderAssumption
    <3> QED BY ONLY <3>1
  <2>3. \A id \in 0..(Len(cond) - 1) : \E c \in DOMAIN cond : cond[c].id = << "num", 0, id >>
    BY DEF Good, Fits
  <2> QED BY <1>1, <1>2, <2>2, <2>3
<1> DEFINE f == [id \in 0..(N - 1) |-> CHOOSE c \in 1..N : cond[c].id = << "num", 0, id >>]
<1>4. \A id \in 0..(N - 1) : f[id] \in 1..N /\ cond[f[id]].id = << "num", 0, id >>
  BY <1>3
<1>5. f \in Injection(0..(N - 1), 1..N)
  <2>1. f \in [0..(N - 1) -> 1..N]
    BY <1>4
  <2>2. \A x, y \in 0..(N - 1) : f[x] = f[y] => x = y
    <3> SUFFICES ASSUME NEW x \in 0..(N - 1), NEW y \in 0..(N - 1), f[x] = f[y] PROVE x = y
      OBVIOUS
    <3>1. << "num", 0, x >> = << "num", 0, y >>
      BY <1>4
    <3> QED BY ONLY <3>1
  <2> HIDE DEF f
  <2> QED BY <2>1, <2>2 DEF Injection, IsInjective
<1> HIDE DEF f
<1>6. /\ IsFiniteSet(0..(N - 1)) /\ IsFiniteSet(1..N)
      /\ Cardinality(0..(N - 1)) = N /\ Cardinality(1..N) = N
  BY <1>2, CountFromZero
<1>7. f \in Surjection(0..(N - 1), 1..N)
  BY ONLY <1>5, <1>6, FS_Injection
<1>8. \A c \in 1..N : \E id \in 0..(N - 1) : f[id] = c /\ cond[c].id = << "num", 0, id >>
  BY <1>4, <1>7 DEF Surjection
<1>9. \A c \in 1..N : /\ str_to_uint32(cond[c].id) = [ok |-> TRUE, val |-> cond[c].id[3]]
                      /\ cond[c].id[3] \in 0..(N - 1) /\ f[cond[c].id[3]] = c
  <2> TAKE c \in 1..N
  <2>1. PICK id \in 0..(N - 1) : f[id] = c /\ cond[c].id = << "num", 0, id >>
    BY <1>8
  <2> QED BY <2>1 DEF str_to_uint32
<1>10. \A c, d \in 1..N : cond[c].id[3] = cond[d].id[3] => c = d
  BY <1>9
<1>11. \A id \in 0..(N - 1) : \E c \in 1..N : cond[c].id[3] = id
  BY <1>4
<1> QED BY <1>1, <1>3, <1>9, <1>10, <1>11

\* What a row of a well-formed program has read.
LEMMA RowNumbers ==
  ASSUME program \in Programs, Good, n \in 1..Len(program.table_rows)
  PROVE  /\ str_to_uint32(Row.state) = [ok |-> TRUE, val |-> Row.state[3]]
         /\ str_to_uint32(Row.next_state) = [ok |-> TRUE, val |-> Row.next_state[3]]
         /\ str_to_uint8(Row.next_stage).ok /\ str_to_uint8(Row.next_stage).val = Row.next_stage[3]
         /\ ~ResultsMalformed
         /\ \A k \in DOMAIN Row.actions : WellFormedAction(Row.actions[k])
         /\ Len(Row.actions) <= MaxActions
         /\ \A k \in DOMAIN Row.condition_results :
              /\ Row.condition_results[k].id[1] = "num" /\ Row.condition_results[k].id[2] = 0
              /\ Row.condition_results[k].id[3] \in 0..15
              /\ Known(Row.condition_results[k].result, str_to_result)
<1>1. n \in DOMAIN program.table_rows
  BY ProgramShape
<1>2. /\ IsInt32(Row.state) /\ IsInt32(Row.next_state) /\ IsSmall(Row.next_stage)
      /\ \A k \in DOMAIN Row.condition_results :
           /\ IsId(Row.condition_results[k].id, Len(program.conditions))
           /\ Known(Row.condition_results[k].result, str_to_result)
      /\ \A k \in DOMAIN Row.actions : WellFormedAction(Row.actions[k])
  BY <1>1 DEF Good, WellFormed, Row
<1>3. Len(Row.actions) <= MaxActions /\ Len(Row.condition_results) <= 16
  BY <1>1 DEF Good, Fits, Row
<1>4. PICK N \in 0..16 : N = Len(program.conditions)
  BY IdsAreIndices
<1>5. \A k \in DOMAIN Row.condition_results :
              /\ Row.condition_results[k].id[1] = "num" /\ Row.condition_results[k].id[2] = 0
              /\ Row.condition_results[k].id[3] \in 0..15
  <2> TAKE k \in DOMAIN Row.condition_results
  <2>1. IsId(Row.condition_results[k].id, N)
    BY <1>2, <1>4
  <2>2. \A x \in 0..(N - 1) : x \in 0..15
    OBVIOUS
  <2> QED BY <2>1, <2>2 DEF IsId
<1>6. Row.condition_results \in Seq([id : Texts, result : Texts])
  BY RowShape DEF RowsRead
<1>7. ~ResultsMalformed
  <2>1. ~(Len(Row.condition_results) > 16)
    BY <1>3, <1>6
  <2>2. \A k \in DOMAIN Row.condition_results :
          /\ str_to_uint32(Row.condition_results[k].id).ok
          /\ str_to_uint32(Row.condition_results[k].id).val \in 0..15
    BY <1>5 DEF str_to_uint32
  <2> QED BY <1>2, <2>1, <2>2 DEF ResultsMalformed
<1>8. /\ str_to_uint32(Row.state) = [ok |-> TRUE, val |-> Row.state[3]]
      /\ str_to_uint32(Row.next_state) = [ok |-> TRUE, val |-> Row.next_state[3]]
  BY <1>2 DEF IsInt32, str_to_uint32
<1>9. str_to_uint8(Row.next_stage).ok /\ str_to_uint8(Row.next_stage).val = Row.next_stage[3]
  BY <1>2, SmallNumbers
<1> QED BY <1>2, <1>3, <1>5, <1>7, <1>8, <1>9

\* The last result for a condition is the one that counts.
LEMMA ResultsAsWritten ==
  ASSUME program \in Programs, Good, n \in 1..Len(program.table_rows),
         NEW k \in DOMAIN Row.condition_results, LastFor(Row.condition_results, k)
  PROVE  ResultName[Results[Row.condition_results[k].id[3] + 1]] = Row.condition_results[k].result[2]
<1> DEFINE rs == Row.condition_results
           given(c) == {r \in DOMAIN rs : str_to_uint32(rs[r].id).val + 1 = c}
<1>1. rs \in Seq([id : Texts, result : Texts]) /\ Len(rs) \in Nat /\ DOMAIN rs = 1..Len(rs)
  BY RowShape DEF RowsRead
<1>2. \A r \in DOMAIN rs : /\ rs[r].id = << "num", 0, rs[r].id[3] >> /\ rs[r].id[3] \in 0..15
                           /\ str_to_uint32(rs[r].id).val = rs[r].id[3]
                           /\ Known(rs[r].result, str_to_result)
  <2> TAKE r \in DOMAIN rs
  <2>1. rs[r].id \in Texts
    <3> HIDE DEF rs
    <3>1. rs[r] \in [id : Texts, result : Texts]
      BY <1>1, Elements
    <3> QED BY <3>1
  <2>2. /\ rs[r].id[1] = "num" /\ rs[r].id[2] = 0 /\ rs[r].id[3] \in 0..15
        /\ Known(rs[r].result, str_to_result)
    BY RowNumbers
  <2> HIDE DEF rs
  <2>3. rs[r].id = << "num", 0, rs[r].id[3] >>
    BY <2>1, <2>2, NumberIs
  <2> QED BY <2>2, <2>3 DEF str_to_uint32
<1>3. PICK c \in 1..16 : c = rs[k].id[3] + 1
  <2>1. PICK v \in 0..15 : v = rs[k].id[3]
    BY <1>2
  <2>2. v + 1 \in 1..16
    OBVIOUS
  <2> QED BY <2>1, <2>2
<1>4. k \in given(c) /\ given(c) \in SUBSET Nat
  BY <1>1, <1>2, <1>3
<1>5. \A y \in given(c) : y <= k
  <2> SUFFICES ASSUME NEW y \in given(c), ~(y <= k) PROVE FALSE
    OBVIOUS
  <2>1. y \in DOMAIN rs /\ y \in (k + 1)..Len(rs)
    BY <1>1
  <2>2. rs[y].id[3] = rs[k].id[3]
    <3>1. str_to_uint32(rs[y].id).val + 1 = c
      OBVIOUS
    <3>2. PICK v \in 0..15 : v = rs[y].id[3] /\ v + 1 = c
      BY <1>2, <2>1, <3>1
    <3>3. PICK w \in 0..15 : w = rs[k].id[3] /\ w + 1 = c
      BY <1>2, <1>3
    <3> QED BY ONLY <3>2, <3>3
  <2>3. rs[y].id = rs[k].id
    BY <1>2, <2>1, <2>2
  <2> QED BY <2>1, <2>3 DEF LastFor
<1> HIDE DEF given
<1>6. Max(given(c)) = k
  BY <1>4, <1>5, MaxIs
<1>7. Results = [d \in 1..16 |-> IF given(d) = {} THEN "DONT_CARE"
                                 ELSE Meant(rs[Max(given(d))].result, str_to_result)]
  BY DEF Results, given
<1>8. Results[c] = Meant(rs[k].result, str_to_result)
  BY <1>4, <1>6, <1>7
<1> QED BY <1>2, <1>3, <1>8, NameTables DEF Known, Meant

-----------------------------------------------------------------------------
(* The table that is created                                               *)

\* The rows that were read have the states of the program's.
LEMMA LoadedStates ==
  ASSUME TypeInv, RowsDone(Len(program.table_rows))
  PROVE  /\ Len(table_entries) \in Nat /\ Len(table_entries) = Len(program.table_rows)
         /\ DOMAIN program.table_rows = 1..Len(table_entries)
         /\ \A r \in 1..Len(table_entries) : table_entries[r].state = program.table_rows[r].state[3]
         /\ RowStates(table_entries, Len(table_entries)) = StatesOf(program)
         /\ Keys(table_entries, Len(table_entries)) = NodesOf(program)
         /\ IsFiniteSet(NodesOf(program)) /\ IsFiniteSet(StatesOf(program))
<1>1. program.table_rows \in Seq(RowsRead)
  BY ProgramShape DEF TypeInv, TypeOK
<1>2. /\ Len(table_entries) \in Nat /\ Len(table_entries) = Len(program.table_rows)
      /\ DOMAIN program.table_rows = 1..Len(table_entries)
  BY <1>1 DEF RowsDone
<1>3. ASSUME NEW r \in 1..Len(table_entries)
      PROVE  table_entries[r].state = program.table_rows[r].state[3]
  <2>1. RowAsWritten(program.table_rows[r], table_entries[r])
    BY <1>2 DEF RowsDone
  <2> QED BY <2>1 DEF RowAsWritten
<1>4. RowStates(table_entries, Len(table_entries)) = StatesOf(program)
  BY <1>2, <1>3 DEF RowStates, StatesOf
<1>5. Keys(table_entries, Len(table_entries)) = NodesOf(program)
  BY <1>4 DEF Keys, NodesOf
<1>6. IsFiniteSet(StatesOf(program))
  BY <1>2, <1>4, FiniteStates
<1>7. IsFiniteSet(NodesOf(program))
  <2>1. IsFiniteSet(StatesOf(program) \cup {0})
    BY <1>6, FS_AddElement
  <2>2. NodesOf(program) \subseteq StatesOf(program) \cup {0}
    BY DEF NodesOf
  <2> QED BY <2>1, <2>2, FS_Subset
<1> QED BY <1>2, <1>3, <1>4, <1>5, <1>6, <1>7

\* xfsm_table_create has room for the rows of every node and for every node.
LEMMA NoOverrun ==
  ASSUME TypeInv, Good, RowsDone(Len(program.table_rows))
  PROVE  ~Overrun
<1>0. PICK rows : rows = table_entries
  OBVIOUS
<1>1. PICK N \in Nat : N = Len(rows) /\ N = Len(program.table_rows) /\ DOMAIN program.table_rows = 1..N
  BY <1>0, LoadedStates
<1>2. /\ \A r \in 1..N : rows[r].state = program.table_rows[r].state[3]
      /\ RowStates(rows, N) = StatesOf(program) /\ Keys(rows, N) = NodesOf(program)
      /\ IsFiniteSet(NodesOf(program))
  BY <1>0, <1>1, LoadedStates
<1>3. Filed(rows, KeyList(rows), N, N)
  BY <1>1, KeyListFiled
<1>4. /\ \A s \in StatesOf(program) : Cardinality(RowsOf(program, s)) <= MaxEntriesForeachState
      /\ Cardinality(RowsOf(program, 0) \cup RowsOf(program, STATE_NULL)) <= MaxEntriesForeachState
      /\ Cardinality(NodesOf(program)) <= N \/ MaxEntriesForeachState <= N
  BY <1>1 DEF Good, Fits
<1>5. IsFiniteSet(1..N) /\ \A s : RowsOf(program, s) \subseteq 1..N
  BY <1>1, FS_Interval DEF RowsOf
<1>6. \A s : IsFiniteSet(RowsOf(program, s)) /\ Cardinality(RowsOf(program, s)) \in Nat
  <2> TAKE s
  <2>1. IsFiniteSet(RowsOf(program, s))
    BY <1>5, FS_Subset
  <2> QED BY <2>1, FS_CardinalityType
<1>7. ASSUME NEW k \in DOMAIN KeyList(rows)
      PROVE  Len(KeyList(rows)[k].entries) <= MaxEntriesForeachState
  <2>1. PICK key : key = KeyList(rows)[k].key
    OBVIOUS
  <2>2. PICK entries : entries = KeyList(rows)[k].entries
    OBVIOUS
  <2>3. Holds(rows, key, entries, N) /\ key \in NodesOf(program)
    BY <1>2, <1>3, <2>1, <2>2 DEF Filed
  <2>4. Len(entries) \in Nat
    BY <2>3 DEF Holds
  <2>5. CASE key = STATE_NULL
    <3> DEFINE T == RowsOf(program, 0) \cup RowsOf(program, STATE_NULL)
    <3>1. T \subseteq 1..N /\ T \subseteq Nat
      BY <1>5
    <3>2. IsFiniteSet(T)
      BY <1>5, <3>1, FS_Subset
    <3>3. \A i \in 1..N : MayHold(rows, key, i) => i \in T
      BY <1>1, <1>2, <2>5 DEF MayHold, RowsOf
    <3>4. Cardinality(T) <= MaxEntriesForeachState /\ Cardinality(T) \in Nat
      BY <1>4, <3>2, FS_CardinalityType
    <3> HIDE DEF T
    <3>5. Len(entries) <= Cardinality(T)
      BY <1>1, <2>3, <3>1, <3>2, <3>3, FewEntries
    <3> QED BY <2>2, <2>4, <3>4, <3>5, LoaderAssumption
  <2>6. CASE key # STATE_NULL
    <3> DEFINE T == RowsOf(program, key)
    <3>1. T \subseteq Nat /\ IsFiniteSet(T) /\ Cardinality(T) \in Nat
      BY <1>5, <1>6
    <3>2. \A i \in 1..N : MayHold(rows, key, i) => i \in T
      BY <1>1, <1>2, <2>6 DEF MayHold, RowsOf
    <3>3. Cardinality(T) <= MaxEntriesForeachState
      <4>1. CASE key \in StatesOf(program)
        BY <1>4, <4>1
      <4>2. CASE key \notin StatesOf(program)
        <5>1. T = {}
          BY <4>2 DEF RowsOf, StatesOf
        <5>2. Cardinality(T) = 0
          BY <5>1, FS_EmptySet
        <5> QED BY <5>2, LoaderAssumption
      <4> QED BY <4>1, <4>2
    <3> HIDE DEF T
    <3>4. Len(entries) <= Cardinality(T)
      BY <1>1, <2>3, <3>1, <3>2, FewEntries
    <3> QED BY <2>2, <2>4, <3>1, <3>3, <3>4, LoaderAssumption
  <2> QED BY <2>5, <2>6
<1>8. Cardinality(DOMAIN EntriesDb(rows)) <= N
  <2>1. /\ DOMAIN EntriesDb(rows) \subseteq NodesOf(program)
        /\ Cardinality(DOMAIN EntriesDb(rows)) \in Nat
        /\ Cardinality(DOMAIN EntriesDb(rows)) <= MaxEntriesForeachState
    BY <1>1, <1>2, FewStates, LoaderAssumption
  <2>2. /\ Cardinality(DOMAIN EntriesDb(rows)) <= Cardinality(NodesOf(program))
        /\ Cardinality(NodesOf(program)) \in Nat
    BY <1>2, <2>1, FS_Subset, FS_CardinalityType
  <2> QED BY <1>4, <2>1, <2>2, LoaderAssumption
<1>9. table_size = N
  BY <1>1 DEF RowsDone
<1>10. ~(Cardinality(DOMAIN EntriesDb(rows)) > table_size)
  <2>1. Cardinality(DOMAIN EntriesDb(rows)) \in Nat
    BY <1>1, FewStates, LoaderAssumption
  <2> QED BY <1>8, <1>9, <2>1
<1>11. \A k \in DOMAIN KeyList(rows) : ~(Len(KeyList(rows)[k].entries) > MaxEntriesForeachState)
  <2> TAKE k \in DOMAIN KeyList(rows)
  <2>1. PICK entries : entries = KeyList(rows)[k].entries
    OBVIOUS
  <2>2. Len(entries) \in Nat
    BY <1>3, <2>1 DEF Filed, Holds
  <2>3. Len(entries) <= MaxEntriesForeachState
    BY <1>7, <2>1
  <2> QED BY <2>1, <2>2, <2>3, LoaderAssumption
<1> QED BY <1>0, <1>10, <1>11 DEF Overrun

-----------------------------------------------------------------------------
(* Every step keeps to the program                                         *)

LEMMA LoadInit == Init => LoadInv
<1> SUFFICES ASSUME Init PROVE LoadInv
  OBVIOUS
<1>1. pc = "conditions" /\ table_entries = << >> /\ lookup_key = << >>
  BY DEF Init
<1>2. Loading
  BY <1>1 DEF Loading, Progress
<1> QED BY <1>2, TypeInit DEF LoadInv

LEMMA ConditionsLoad ==
  ASSUME TypeInv, Good, Loading, CountConditions \/ Condition \/ InitialState \/ CountRows
  PROVE  Loading'
<1> DEFINE cond == program.conditions
<1>0. program \in Programs /\ Len(program.table_rows) \in Nat /\ n \in Nat \ {0}
  BY ProgramShape DEF TypeInv, TypeOK
<1>1. PICK N \in 0..16 : N = Len(cond)
  BY <1>0, IdsAreIndices
<1>2. /\ \A c \in 1..N : /\ str_to_uint32(cond[c].id) = [ok |-> TRUE, val |-> cond[c].id[3]]
                         /\ cond[c].id[3] \in 0..(N - 1)
      /\ \A c, d \in 1..N : cond[c].id[3] = cond[d].id[3] => c = d
  BY <1>0, <1>1, IdsAreIndices
<1>3. CASE CountConditions
  <2>1. ~(Len(program.conditions) >= 255)
    <3>1. ~(N >= 255)
      OBVIOUS
    <3> QED BY <1>1, <3>1
  <2>0. CASE Clobbered
    <3>1. pc' = "clobbered"
      BY <2>0 DEF Clobbered, Stop
    <3>2. Progress'
      BY <3>1 DEF Progress
    <3> QED BY <3>1, <3>2 DEF Loading
  <2> SUFFICES ASSUME ~Clobbered PROVE Loading'
    BY <2>0
  <2>2. /\ pc = "conditions" /\ pc' = "condition" /\ n' = 1
        /\ conditions' = [id \in 0..(Len(program.conditions) - 1) |-> << >>]
        /\ UNCHANGED << program, table_entries, lookup_key >>
    BY <1>3, <2>1 DEF CountConditions, Goto
  <2>3. table_entries = << >> /\ lookup_key = << >>
    BY <2>2 DEF Loading, Progress
  <2>4. n' <= Len(program'.conditions) + 1 /\ n' - 1 = 0
    BY <1>1, <2>2
  <2>5. ConditionsDone(n - 1)'
    <3>1. DOMAIN conditions' = 0..(Len(program'.conditions) - 1)
      BY <2>2
    <3>2. 1..(n' - 1) = {}
      BY <2>4
    <3> QED BY <3>1, <3>2 DEF ConditionsDone
  <2>6. Progress'
    BY <2>2, <2>3, <2>4, <2>5 DEF Progress
  <2> QED BY <2>2, <2>6 DEF Loading
<1>4. CASE Condition
  <2>1. pc = "condition" /\ n \in 1..N /\ n - 1 \in Nat /\ n - 1 <= N
    BY <1>0, <1>1, <1>4 DEF Condition
  <2>2. ConditionsDone(n - 1) /\ table_entries = << >> /\ lookup_key = << >>
    BY <2>1 DEF Loading, Progress
  <2>3. n \in DOMAIN cond /\ cond[n] \in ConditionsRead
    <3>1. cond \in Seq(ConditionsRead)
      BY <1>0, ProgramShape
    <3> QED BY <1>1, <2>1, <3>1
  <2>4. PICK c : c = cond[n]
    OBVIOUS
  <2>5. /\ Known(c.opcode, str_to_condition_type)
        /\ WellFormedOperand(c.op0) /\ WellFormedOperand(c.op1)
    BY <2>3, <2>4 DEF Good, WellFormed
  <2>6. PICK id \in 0..(N - 1) : id = c.id[3] /\ str_to_uint32(c.id) = [ok |-> TRUE, val |-> id]
    BY <1>2, <2>1, <2>4
  <2>7. \A op0 \in get_operand(c.op0), op1 \in get_operand(c.op1) :
          /\ ~Failed(op0) /\ ~Failed(op1) /\ Stands(c.op0, op0) /\ Stands(c.op1, op1)
    <3>1. c.op0 \in OperandsRead /\ c.op1 \in OperandsRead
      BY <2>3, <2>4 DEF ConditionsRead
    <3> QED BY <2>5, <3>1, OperandStands
  <2>8. id \in DOMAIN conditions /\ DOMAIN conditions = 0..(N - 1)
    BY <1>1, <2>2 DEF ConditionsDone
  <2>9. PICK op0 \in get_operand(c.op0), op1 \in get_operand(c.op1) :
          /\ conditions' = [conditions EXCEPT ![id] =
                   << [type |-> Meant(c.opcode, str_to_condition_type), op1 |-> op0, op2 |-> op1] >>]
          /\ NextElement
          /\ UNCHANGED << initial_state, table_size, table_entries, actions, lookup_key, xfsm >>
    <3>1. str_to_uint32(c.id).ok /\ str_to_uint32(c.id).val = id
      BY <2>6
    <3> QED BY <1>4, <2>4, <2>5, <2>7, <2>8, <3>1 DEF Condition
  <2>10. PICK x : x = [type |-> Meant(c.opcode, str_to_condition_type), op1 |-> op0, op2 |-> op1]
    OBVIOUS
  <2>11. ConditionAsWritten(c, x)
    <3>1. ComparisonName[Meant(c.opcode, str_to_condition_type)] = c.opcode[2]
      BY <2>5, NameTables DEF Known, Meant
    <3> QED BY <2>7, <2>9, <2>10, <3>1 DEF ConditionAsWritten
  <2>12. conditions' = [conditions EXCEPT ![id] = << x >>] /\ n' = n + 1 /\ UNCHANGED << pc, program, table_entries, lookup_key >>
    BY <2>9, <2>10 DEF NextElement
  <2>13. n' <= Len(program'.conditions) + 1 /\ n' - 1 = n
    BY <1>1, <2>1, <2>12
  <2>14. ConditionsDone(n - 1)'
    <3>1. DOMAIN conditions' = 0..(Len(program'.conditions) - 1)
      BY <1>1, <2>8, <2>12
    <3>2. ASSUME NEW d \in 1..n
          PROVE  /\ Len(conditions'[cond[d].id[3]]) = 1
                 /\ ConditionAsWritten(cond[d], conditions'[cond[d].id[3]][1])
      <4>1. CASE d = n
        <5>1. conditions'[id] = << x >> /\ Len(<< x >>) = 1 /\ << x >>[1] = x
          BY <2>8, <2>12
        <5> QED BY <2>4, <2>6, <2>11, <4>1, <5>1
      <4>2. CASE d # n
        <5>1. d \in 1..(n - 1) /\ d \in 1..N
          BY <2>1, <4>2
        <5>2. cond[d].id[3] # id /\ cond[d].id[3] \in DOMAIN conditions
          BY <1>2, <2>1, <2>4, <2>6, <2>8, <4>2, <5>1
        <5>3. conditions'[cond[d].id[3]] = conditions[cond[d].id[3]]
          BY <2>12, <5>2
        <5>4. /\ Len(conditions[cond[d].id[3]]) = 1
              /\ ConditionAsWritten(cond[d], conditions[cond[d].id[3]][1])
          BY <2>2, <5>1 DEF ConditionsDone
        <5> QED BY <5>3, <5>4
      <4> QED BY <4>1, <4>2
    <3> QED BY <2>12, <2>13, <3>1, <3>2 DEF ConditionsDone
  <2>15. Progress'
    BY <2>1, <2>2, <2>12, <2>13, <2>14 DEF Progress
  <2> QED BY <2>1, <2>12, <2>15 DEF Loading
<1>5. CASE InitialState
  <2>1. IsSmall(program.initial_state)
    BY DEF Good, WellFormed
  <2>2. str_to_uint8(program.initial_state).ok /\ str_to_uint8(program.initial_state).val = program.initial_state[3]
    BY <2>1, SmallNumbers
  <2>3. /\ pc = "condition" /\ n > N /\ pc' = "count_rows" /\ initial_state' = program.initial_state[3]
        /\ UNCHANGED << program, conditions, table_entries, lookup_key >>
    BY <1>1, <1>5, <2>2 DEF InitialState, Goto
  <2>4. n <= N + 1 /\ ConditionsDone(n - 1) /\ table_entries = << >> /\ lookup_key = << >>
    BY <1>1, <2>3 DEF Loading, Progress
  <2>5. n - 1 = N
    BY <1>0, <2>3, <2>4
  <2>6. HeadDone'
    BY <1>1, <2>3, <2>4, <2>5 DEF HeadDone, ConditionsDone
  <2>7. Progress'
    BY <2>3, <2>4, <2>6 DEF Progress
  <2> QED BY <2>3, <2>7 DEF Loading
<1>6. CASE CountRows
  <2>1. /\ pc = "count_rows" /\ pc' = "row" /\ n' = 1 /\ table_size' = Len(program.table_rows) % 256
        /\ UNCHANGED << program, conditions, initial_state, table_entries, lookup_key >>
    BY <1>6 DEF CountRows, Goto
  <2>2. HeadDone /\ table_entries = << >> /\ lookup_key = << >>
    BY <2>1 DEF Loading, Progress
  <2>3. table_size' = Len(program.table_rows)
    <3>1. PICK k \in Nat : k = Len(program.table_rows) /\ k <= 255
      BY <1>0 DEF Good, Fits
    <3>2. k \in Nat /\ k <= 255
      BY <3>1
    <3>3. k % 256 = k
      BY ONLY <3>2
    <3> QED BY ONLY <2>1, <3>1, <3>3
  <2>4. RowsDone(n - 1)'
    <3>1. n' - 1 = 0 /\ 1..0 = {} /\ Len(<< >>) = 0
      BY <2>1
    <3> QED BY <2>1, <2>2, <2>3, <3>1 DEF RowsDone
  <2>5. HeadDone'
    BY <2>1, <2>2 DEF HeadDone, ConditionsDone
  <2>6. n' <= Len(program'.table_rows) + 1 /\ n' - 1 = 0
    BY <1>0, <2>1
  <2>7. Progress'
    BY <2>1, <2>2, <2>4, <2>5, <2>6 DEF Progress
  <2> QED BY <2>1, <2>7 DEF Loading
<1> QED BY <1>3, <1>4, <1>5, <1>6

LEMMA RowsLoad ==
  ASSUME TypeInv, Good, Loading, BeginRow \/ Action \/ EndRow
  PROVE  Loading'
<1>0. /\ program \in Programs /\ n \in Nat \ {0} /\ a \in Nat \ {0}
      /\ table_entries \in Seq(EntriesMade) /\ actions \in Seq(ActionsMade)
  BY DEF TypeInv, TypeOK
<1>1. PICK N \in Nat : N = Len(program.table_rows)
  BY <1>0, ProgramShape
<1>2. n <= N
  BY <1>1 DEF BeginRow, Action, EndRow, TypeInv
<1>3. n \in 1..N /\ n \in 1..Len(program.table_rows)
  BY <1>0, <1>1, <1>2
<1>4. Row \in RowsRead /\ Row.actions \in Seq(ActionsRead)
  BY <1>0, <1>3, RowShape
<1>5. PICK K \in Nat : K = Len(Row.actions)
  BY <1>0, <1>3, RowShape
<1>6. DOMAIN Row.actions = 1..K
  BY <1>4, <1>5
<1>7. CASE BeginRow
  <2>1. /\ pc = "row" /\ pc' = "action" /\ a' = 1 /\ actions' = << >>
        /\ UNCHANGED << program, n, conditions, initial_state, table_size, table_entries, lookup_key >>
    <3>1. /\ str_to_uint32(Row.state).ok /\ str_to_uint32(Row.next_state).ok
          /\ str_to_uint8(Row.next_stage).ok /\ ~ResultsMalformed
      BY <1>0, <1>3, RowNumbers
    <3> QED BY <1>7, <3>1 DEF BeginRow
  <2>2. HeadDone /\ RowsDone(n - 1) /\ lookup_key = << >>
    BY <2>1 DEF Loading, Progress
  <2>3. HeadDone'
    BY <2>1, <2>2 DEF HeadDone, ConditionsDone
  <2>4. RowsDone(n - 1)'
    BY <2>1, <2>2 DEF RowsDone
  <2>5. ActionsDone(a - 1)'
    <3>1. a' - 1 = 0 /\ 1..0 = {} /\ Len(<< >>) = 0
      BY <2>1
    <3> QED BY <2>1, <3>1 DEF ActionsDone
  <2>6. n' <= Len(program'.table_rows) /\ a' <= Len(Row'.actions) + 1
    <3>1. Row' = Row
      BY <2>1 DEF Row
    <3>2. 1 <= K + 1
      OBVIOUS
    <3> QED BY <1>1, <1>2, <1>5, <2>1, <3>1, <3>2
  <2>7. Progress'
    BY <2>1, <2>2, <2>3, <2>4, <2>5, <2>6 DEF Progress
  <2> QED BY <2>1, <2>7 DEF Loading
<1>8. CASE Action
  <2> DEFINE act  == Row.actions[a]
             type == Meant(act.opcode, str_to_action_type)
  <2>1. pc = "action" /\ a \in 1..K /\ a <= K /\ act \in ActionsRead
    <3>1. pc = "action" /\ a <= K
      BY <1>5, <1>8 DEF Action
    <3>2. a \in 1..K
      BY <1>0, <3>1
    <3> QED BY <1>4, <1>6, <3>1, <3>2, Elements
  <2>2. WellFormedAction(act)
    BY <1>0, <1>3, <1>6, <2>1, RowNumbers
  <2>3. HeadDone /\ RowsDone(n - 1) /\ ActionsDone(a - 1) /\ lookup_key = << >>
    BY <2>1 DEF Loading, Progress
  <2>6. Known(act.opcode, str_to_action_type) /\ type # "DESTROY"
        /\ \A op0 \in get_operand(act.op0), op1 \in get_operand(act.op1) :
             ~Failed(op0) /\ ~Failed(op1)
             /\ (type = "SETFIELD" => \A op2 \in get_operand(act.op2) : ~Failed(op2))
    <3>1. Known(act.opcode, str_to_action_type) /\ type \in {"UPDATE", "SENDPKT", "SETFIELD"}
      BY <2>2 DEF WellFormedAction, OperandsOf
    <3>2. act.op0 \in OperandsRead /\ act.op1 \in OperandsRead /\ act.op2 \in OperandsRead
      BY <2>1 DEF ActionsRead
    <3>3. WellFormedOperand(act.op0) /\ WellFormedOperand(act.op1)
      BY <2>2, <3>1 DEF WellFormedAction, OperandsOf
    <3>4. type = "SETFIELD" => WellFormedOperand(act.op2)
      BY <2>2, <3>1 DEF WellFormedAction, OperandsOf
    <3>5. \A op0 \in get_operand(act.op0) : ~Failed(op0)
      BY <3>2, <3>3, OperandStands
    <3>6. \A op1 \in get_operand(act.op1) : ~Failed(op1)
      BY <3>2, <3>3, OperandStands
    <3>7. type = "SETFIELD" => \A op2 \in get_operand(act.op2) : ~Failed(op2)
      BY <3>2, <3>4, OperandStands
    <3> HIDE DEF act, type
    <3> QED BY <3>1, <3>5, <3>6, <3>7
  <2>7. ~Undefined
    <3> SUFFICES ASSUME Undefined PROVE FALSE
      OBVIOUS
    <3>1. pc' = "undefined" /\ pc' # "exit" /\ pc' # pc
      BY <2>1 DEF Undefined, Stop
    <3> QED BY <1>8, <2>6, <3>1 DEF Action, Exit, Stop, ExitNaming
  <2>4. CASE Exit
    <3>1. type = "UPDATE"
      <4> SUFFICES ASSUME type # "UPDATE" PROVE FALSE
        OBVIOUS
      <4>1. pc' = "exit" /\ pc # "exit"
        BY <2>1, <2>4 DEF Exit, Stop
      <4>2. Known(act.opcode, str_to_action_type) /\ type \in {"SENDPKT", "SETFIELD"}
        <5>1. type \in {"UPDATE", "SENDPKT", "SETFIELD"}
          BY <2>2 DEF WellFormedAction, OperandsOf
        <5> QED BY <2>2, <5>1 DEF WellFormedAction
      <4>3. PICK op0 \in get_operand(act.op0), op1 \in get_operand(act.op1) :
            \E op2 \in IF type = "SETFIELD" THEN get_operand(act.op2)
                       ELSE IF type = "UPDATE" THEN get_out_operand(act.op2) ELSE {op1} :
              Failed(op0) \/ Failed(op1) \/ Failed(op2)
        BY <1>8, <4>1, <4>2 DEF Action
      <4>4. PICK op2 \in IF type = "SETFIELD" THEN get_operand(act.op2)
                         ELSE IF type = "UPDATE" THEN get_out_operand(act.op2) ELSE {op1} :
              Failed(op0) \/ Failed(op1) \/ Failed(op2)
        BY <4>3
      <4> HIDE DEF act, type
      <4>5. ~Failed(op0) /\ ~Failed(op1) /\ ~Failed(op2)
        BY <2>1, <2>2, ActionStands DEF type
      <4> QED BY <4>4, <4>5
    <3>2. HasUpdate(program)
      <4>1. n \in DOMAIN program.table_rows /\ a \in DOMAIN program.table_rows[n].actions
        <5>1. program.table_rows \in Seq(RowsRead)
          BY <1>0, ProgramShape
        <5>2. n \in DOMAIN program.table_rows
          BY <1>3, <5>1
        <5> QED BY <1>6, <2>1, <5>2 DEF Row
      <4> QED BY <3>1, <4>1 DEF HasUpdate, Row
    <3>3. pc' = "exit" /\ program' = program
      BY <2>4 DEF Exit, Stop
    <3> QED BY <3>2, <3>3 DEF Loading, Progress
  <2>5. CASE ~Exit
    <3>1. Known(act.opcode, str_to_action_type) /\ type # "DESTROY"
      BY <2>6
    <3>2. PICK op0 \in get_operand(act.op0), op1 \in get_operand(act.op1) :
          \E op2 \in IF type = "SETFIELD" THEN get_operand(act.op2)
                     ELSE IF type = "UPDATE" THEN get_out_operand(act.op2) ELSE {op1} :
             /\ ~Failed(op0) /\ ~Failed(op1) /\ ~Failed(op2)
             /\ actions' = Append(actions, Record(type, act.opcode[2], op0, op1, op2))
             /\ a' = a + 1
             /\ UNCHANGED << pc, program, n, conditions, initial_state, table_size, table_entries,
                             lookup_key, xfsm >>
      BY <1>8, <2>5, <2>7, <3>1 DEF Action, ExitNaming, Record
    <3>3. PICK op2 \in IF type = "SETFIELD" THEN get_operand(act.op2)
                       ELSE IF type = "UPDATE" THEN get_out_operand(act.op2) ELSE {op1} :
             /\ ~Failed(op0) /\ ~Failed(op1) /\ ~Failed(op2)
             /\ actions' = Append(actions, Record(type, act.opcode[2], op0, op1, op2))
             /\ a' = a + 1
             /\ UNCHANGED << pc, program, n, conditions, initial_state, table_size, table_entries,
                             lookup_key, xfsm >>
      BY <3>2
    <3> HIDE DEF act, type
    <3>4. PICK x : x = Record(type, act.opcode[2], op0, op1, op2)
      OBVIOUS
    <3>5. ActionAsWritten(act, x)
      BY <2>1, <2>2, <3>3, <3>4, ActionStands DEF type
    <3>6. ActionsDone(a - 1)'
      <4>1. Row' = Row /\ a' - 1 = a
        BY <1>0, <3>3 DEF Row
      <4>2. PICK m \in Nat : m = a - 1 /\ m + 1 = a
        BY <1>0
      <4>3. Len(actions) = m /\ \A k \in 1..m : ActionAsWritten(Row.actions[k], actions[k])
        BY <2>3, <4>2 DEF ActionsDone
      <4>4. /\ Len(actions') = m + 1 /\ actions'[m + 1] = x
            /\ \A k \in 1..m : actions'[k] = actions[k]
        BY <1>0, <3>3, <3>4, <4>3
      <4>5. \A k \in 1..a : ActionAsWritten(Row.actions[k], actions'[k])
        <5> TAKE k \in 1..a
        <5>1. CASE k = a
          BY <3>5, <4>2, <4>4, <5>1 DEF act
        <5>2. CASE k # a
          <6>1. k \in 1..m
            BY <4>2, <5>2
          <6> QED BY <4>3, <4>4, <6>1
        <5> QED BY <5>1, <5>2
      <4>6. Len(actions') = a
        BY <4>2, <4>4
      <4> QED BY <4>1, <4>5, <4>6 DEF ActionsDone
    <3>7. HeadDone' /\ RowsDone(n - 1)'
      BY <2>3, <3>3 DEF HeadDone, ConditionsDone, RowsDone
    <3>8. n' <= Len(program'.table_rows) /\ a' <= Len(Row'.actions) + 1
      <4>1. Row' = Row
        BY <3>3 DEF Row
      <4>2. a + 1 <= K + 1
        BY <2>1
      <4> QED BY <1>1, <1>2, <1>5, <3>3, <4>1, <4>2
    <3>9. Progress'
      BY <2>1, <2>3, <3>3, <3>6, <3>7, <3>8 DEF Progress
    <3> QED BY <2>1, <3>3, <3>9 DEF Loading
  <2> QED BY <2>4, <2>5
<1>9. CASE EndRow
  <2>1. pc = "action" /\ a > K
    BY <1>5, <1>9 DEF EndRow
  <2>2. HeadDone /\ RowsDone(n - 1) /\ ActionsDone(a - 1) /\ lookup_key = << >> /\ a <= K + 1
    BY <1>5, <2>1 DEF Loading, Progress
  <2>3. a - 1 = K
    BY <1>0, <2>1, <2>2
  <2>4. /\ Len(actions) = K
        /\ \A k \in 1..K : ActionAsWritten(Row.actions[k], actions[k])
    BY <2>2, <2>3 DEF ActionsDone
  <2>5. ~(Len(actions) > MaxActions) /\ ~(n > table_size)
    <3>1. K <= MaxActions
      BY <1>0, <1>3, <1>5, RowNumbers
    <3>2. ~(K > MaxActions)
      BY <3>1, LoaderAssumption
    <3>3. table_size = N
      BY <1>1, <2>2 DEF RowsDone
    <3>4. ~(n > N)
      BY <1>3
    <3> QED BY <2>4, <3>2, <3>3, <3>4
  <2>6. PICK x : x = [state |-> str_to_uint32(Row.state).val, next_state |-> str_to_uint32(Row.next_state).val,
                      next_stage |-> str_to_uint8(Row.next_stage).val, results |-> Results, actions |-> actions]
    OBVIOUS
  <2>7. /\ table_entries' = Append(table_entries, x) /\ pc' = "row" /\ n' = n + 1
        /\ UNCHANGED << program, conditions, initial_state, table_size, lookup_key >>
    BY <1>9, <2>5, <2>6 DEF EndRow
  <2>8. RowAsWritten(Row, x)
    <3>1. /\ x.state = Row.state[3] /\ x.next_state = Row.next_state[3] /\ x.next_stage = Row.next_stage[3]
      <4>1. /\ str_to_uint32(Row.state).val = Row.state[3] /\ str_to_uint32(Row.next_state).val = Row.next_state[3]
            /\ str_to_uint8(Row.next_stage).val = Row.next_stage[3]
        BY <1>0, <1>3, RowNumbers
      <4> QED BY <2>6, <4>1
    <3>2. x.actions = actions /\ x.results = Results
      BY <2>6
    <3>3. \A k \in DOMAIN Row.condition_results :
            LastFor(Row.condition_results, k) =>
              ResultName[Results[Row.condition_results[k].id[3] + 1]] = Row.condition_results[k].result[2]
      BY <1>0, <1>3, ResultsAsWritten
    <3> HIDE DEF Row, Results
    <3> QED BY <1>5, <1>6, <2>4, <3>1, <3>2, <3>3 DEF RowAsWritten
  <2>9. RowsDone(n - 1)'
    <3>1. n' - 1 = n
      BY <1>0, <2>7
    <3>2. PICK m \in Nat : m = n - 1 /\ m + 1 = n
      BY <1>0
    <3>3. /\ table_size = Len(program.table_rows) /\ Len(table_entries) = m
          /\ \A r \in 1..m : RowAsWritten(program.table_rows[r], table_entries[r])
      BY <2>2, <3>2 DEF RowsDone
    <3>4. /\ Len(table_entries') = m + 1 /\ table_entries'[m + 1] = x
          /\ \A r \in 1..m : table_entries'[r] = table_entries[r]
      BY <1>0, <2>7, <3>3
    <3>5. \A r \in 1..n : RowAsWritten(program.table_rows[r], table_entries'[r])
      <4> TAKE r \in 1..n
      <4>1. CASE r = n
        BY <2>8, <3>2, <3>4, <4>1 DEF Row
      <4>2. CASE r # n
        <5>1. r \in 1..m
          BY <3>2, <4>2
        <5> QED BY <3>3, <3>4, <5>1
      <4> QED BY <4>1, <4>2
    <3>6. Len(table_entries') = n
      BY <3>2, <3>4
    <3> QED BY <2>7, <3>1, <3>3, <3>5, <3>6 DEF RowsDone
  <2>10. HeadDone'
    BY <2>2, <2>7 DEF HeadDone, ConditionsDone
  <2>11. n' <= Len(program'.table_rows) + 1
    <3>1. n + 1 <= N + 1
      BY <1>3
    <3> QED BY <1>1, <2>7, <3>1
  <2>12. Progress'
    BY <2>2, <2>7, <2>9, <2>10, <2>11 DEF Progress
  <2> QED BY <2>7, <2>12 DEF Loading
<1> QED BY <1>7, <1>8, <1>9

LEMMA KeyLoads ==
  ASSUME TypeInv, Good, Loading, BeginKey \/ KeyField \/ CopyConditions \/ Create
  PROVE  Loading'
<1>0. program \in Programs /\ n \in Nat \ {0} /\ lookup_key \in Seq(HeaderFields)
  BY DEF TypeInv, TypeOK
<1>1. PICK M \in Nat : M = Len(program.flow_key)
  BY <1>0, ProgramShape
<1>2. DOMAIN program.flow_key = 1..M
  BY <1>0, <1>1, ProgramShape
<1>3. CASE BeginKey
  <2>1. /\ pc = "row" /\ n > Len(program.table_rows) /\ pc' = "flow_key" /\ n' = 1
        /\ UNCHANGED << program, conditions, initial_state, table_size, table_entries, lookup_key >>
    BY <1>3 DEF BeginKey, Goto, made
  <2>2. HeadDone /\ RowsDone(n - 1) /\ lookup_key = << >> /\ n <= Len(program.table_rows) + 1
    BY <2>1 DEF Loading, Progress
  <2>3. HeadDone'
    BY <2>1, <2>2 DEF HeadDone, ConditionsDone
  <2>4. RowsDone(Len(program.table_rows))'
    <3>1. PICK N \in Nat : N = Len(program.table_rows)
      BY <1>0, ProgramShape
    <3>2. n - 1 = N
      <4>1. n > N /\ n <= N + 1
        BY <2>1, <2>2, <3>1
      <4> QED BY <1>0, <4>1
    <3>3. RowsDone(N)
      BY <2>2, <3>2
    <3> QED BY <2>1, <3>1, <3>3 DEF RowsDone
  <2>5. KeyDone(n - 1)'
    <3>1. n' - 1 = 0 /\ 1..0 = {}
      BY <2>1
    <3>2. [k \in {} |-> str_to_header_field[program.flow_key[k][2]]] = << >>
      OBVIOUS
    <3> QED BY <2>1, <2>2, <3>1, <3>2 DEF KeyDone
  <2>6. n' <= Len(program'.flow_key) + 1
    <3>1. 1 <= M + 1
      OBVIOUS
    <3> QED BY <1>1, <2>1, <3>1
  <2>7. Progress'
    BY <2>1, <2>3, <2>4, <2>5, <2>6 DEF Progress
  <2> QED BY <2>1, <2>7 DEF Loading
<1>4. CASE KeyField
  <2>1. pc = "flow_key" /\ n <= M
    BY <1>1, <1>4 DEF KeyField
  <2>2. n \in 1..M
    BY <1>0, <2>1
  <2>3. HeadDone /\ RowsDone(Len(program.table_rows)) /\ KeyDone(n - 1)
    BY <2>1 DEF Loading, Progress
  <2>4. Known(program.flow_key[n], str_to_header_field) /\ IsString(program.flow_key[n])
    <3>1. Known(program.flow_key[n], str_to_header_field)
      BY <1>2, <2>2 DEF Good, WellFormed
    <3> QED BY <3>1 DEF Known, IsWord, IsString
  <2>5. ~(n > LookupKeySize)
    <3>1. M <= LookupKeySize
      BY <1>1 DEF Good, Fits
    <3> QED BY <2>2, <3>1, LoaderAssumption
  <2>6. /\ lookup_key' = Append(lookup_key, str_to_header_field[program.flow_key[n][2]]) /\ n' = n + 1
        /\ UNCHANGED << pc, program, conditions, initial_state, table_size, table_entries >>
    BY <1>4, <2>4, <2>5 DEF KeyField, NextElement, Meant
  <2>7. KeyDone(n - 1)'
    <3> DEFINE e(k) == str_to_header_field[program.flow_key[k][2]]
    <3>1. PICK m \in Nat : m = n - 1 /\ m + 1 = n
      BY <1>0
    <3>2. lookup_key = [k \in 1..m |-> e(k)]
      BY <2>3, <3>1 DEF KeyDone
    <3>3. lookup_key' = Append(lookup_key, e(n))
      BY <2>6
    <3> HIDE DEF e
    <3>4. lookup_key' = [k \in 1..(m + 1) |-> e(k)]
      BY <3>1, <3>2, <3>3
    <3>5. n' - 1 = m + 1
      BY <2>6, <3>1
    <3> QED BY <2>6, <3>4, <3>5 DEF KeyDone, e
  <2>8. HeadDone' /\ RowsDone(Len(program.table_rows))'
    BY <2>3, <2>6 DEF HeadDone, ConditionsDone, RowsDone
  <2>9. n' <= Len(program'.flow_key) + 1
    <3>1. n + 1 <= M + 1
      BY <2>2
    <3> QED BY <1>1, <2>6, <3>1
  <2>10. Progress'
    BY <2>1, <2>6, <2>7, <2>8, <2>9 DEF Progress
  <2> QED BY <2>1, <2>6, <2>10 DEF Loading
<1>5. CASE CopyConditions
  <2>1. pc = "flow_key" /\ n > M
    BY <1>1, <1>5 DEF CopyConditions
  <2>2. /\ HeadDone /\ RowsDone(Len(program.table_rows)) /\ KeyDone(n - 1) /\ n <= M + 1
    BY <1>1, <2>1 DEF Loading, Progress
  <2>3. n - 1 = M
    BY <1>0, <2>1, <2>2
  <2>4. PICK N \in 0..16 : N = Len(program.conditions)
    BY <1>0, IdsAreIndices
  <2>5. /\ DOMAIN conditions = 0..(N - 1)
        /\ \A c \in 1..N : Len(conditions[program.conditions[c].id[3]]) = 1
    BY <2>2, <2>4 DEF HeadDone, ConditionsDone
  <2>6. ~(Cardinality(DOMAIN conditions) > MaxConditions)
    <3>1. Cardinality(0..(N - 1)) = N
      BY CountFromZero
    <3>2. ~(N > 16)
      OBVIOUS
    <3> QED BY <2>5, <3>1, <3>2, LoaderAssumption
  <2>7. ~ \E id \in DOMAIN conditions : conditions[id] = << >>
    <3> SUFFICES ASSUME NEW id \in 0..(N - 1), conditions[id] = << >> PROVE FALSE
      BY <2>5
    <3>1. PICK c \in 1..N : program.conditions[c].id[3] = id
      BY <1>0, <2>4, IdsAreIndices
    <3>2. Len(<< >>) = 1
      BY <2>5, <3>1
    <3> QED BY ONLY <3>2
  <2>8. /\ pc' = "create"
        /\ UNCHANGED << program, conditions, initial_state, table_size, table_entries, lookup_key >>
    BY <1>5, <2>6, <2>7 DEF CopyConditions, Goto, made
  <2>9. HeadDone' /\ RowsDone(Len(program.table_rows))' /\ KeyDone(Len(program.flow_key))'
    BY <1>1, <2>2, <2>3, <2>8 DEF HeadDone, ConditionsDone, RowsDone, KeyDone
  <2>10. Progress'
    BY <2>8, <2>9 DEF Progress
  <2> QED BY <2>8, <2>10 DEF Loading
<1>6. CASE Create
  <2>1. pc = "create"
    BY <1>6 DEF Create
  <2>2. HeadDone /\ RowsDone(Len(program.table_rows)) /\ KeyDone(Len(program.flow_key))
    BY <2>1 DEF Loading, Progress
  <2>3. ~Overrun
    BY <2>2, NoOverrun
  <2>4. PICK biflow_no \in Garbage :
          /\ xfsm' = << Table(biflow_no) >> /\ pc' = "done"
          /\ UNCHANGED << program, conditions, initial_state, table_size, table_entries, lookup_key >>
    BY <1>6, <2>3 DEF Create, Goto, Table
  <2>5. HeadDone' /\ RowsDone(Len(program.table_rows))' /\ KeyDone(Len(program.flow_key))'
    BY <2>2, <2>4 DEF HeadDone, ConditionsDone, RowsDone, KeyDone
  <2>6. xfsm' = << Table(biflow_no)' >>
    BY <2>4 DEF Table
  <2>7. Progress'
    BY <2>4, <2>5, <2>6 DEF Progress
  <2> QED BY <2>4, <2>7 DEF Loading
<1> QED BY <1>3, <1>4, <1>5, <1>6

LEMMA LoadStep == LoadInv /\ [Next]_vars => LoadInv'
<1> SUFFICES ASSUME LoadInv, [Next]_vars PROVE LoadInv'
  OBVIOUS
<1>1. TypeInv /\ TypeInv'
  BY TypeStep DEF LoadInv
<1>2. program' = program
  BY DEF Next, vars, made, CountConditions, Condition, InitialState, CountRows, BeginRow, Action, EndRow,
         BeginKey, KeyField, CopyConditions, Create, ExitNaming, Exit, Undefined, Clobbered, Stop, Goto,
         NextElement
<1>3. Good' <=> Good
  BY <1>2 DEF Good
<1>4. ASSUME Good PROVE Loading'
  <2>1. Loading
    BY <1>4 DEF LoadInv
  <2>2. CASE UNCHANGED vars
    <3>1. UNCHANGED << pc, program, n, a, conditions, initial_state, table_size, table_entries, actions,
                       lookup_key, xfsm >>
      BY <2>2 DEF vars
    <3>2. Progress'
      BY <2>1, <3>1 DEF Loading, Progress, HeadDone, ConditionsDone, RowsDone, ActionsDone, KeyDone, Row, Table
    <3> QED BY <2>1, <3>1, <3>2 DEF Loading
  <2>3. CASE Next
    BY <1>1, <1>4, <2>1, <2>3, ConditionsLoad, RowsLoad, KeyLoads DEF Next
  <2> QED BY <2>2, <2>3
<1> QED BY <1>1, <1>3, <1>4 DEF LoadInv

LEMMA LoadInvariant == Spec => []LoadInv
  BY LoadInit, LoadStep, PTL DEF Spec

-----------------------------------------------------------------------------
(* The theorems                                                            *)

\* json_to_table refuses no program that is well formed and fits, except where
\* get_out_operand returns nothing for the result of an update.
THEOREM RefusalsAreJustified == Spec => []RefusedOnlyIfMalformed
<1>1. LoadInv => RefusedOnlyIfMalformed
  BY DEF LoadInv, Loading, Good, RefusedOnlyIfMalformed
<1> QED BY <1>1, LoadInvariant, PTL

\* With such a program, and where the three bytes behind the number of conditions
\* are nobody's, no array is written past its end, by the conditions, the actions,
\* the rows, the key or xfsm_table_create's nodes, and nothing that was never set
\* is read: the other checks the loader does not make are not needed.
THEOREM NothingGoesWild == Spec => []NothingWild
<1>1. LoadInv => NothingWild
  BY DEF LoadInv, Loading, Good, NothingWild
<1> QED BY <1>1, LoadInvariant, PTL

\* The table that is created.
LEMMA TableLoaded ==
  ASSUME LoadInv, pc = "done", Good
  PROVE  /\ HeadDone /\ RowsDone(Len(program.table_rows)) /\ KeyDone(Len(program.flow_key))
         /\ xfsm[1].conditions = [c \in 1..Len(program.conditions) |-> conditions[c - 1][1]]
         /\ xfsm[1].rows = table_entries /\ xfsm[1].entries = EntriesDb(table_entries)
         /\ xfsm[1].default_state = initial_state /\ xfsm[1].lookup_key = lookup_key
<1>1. HeadDone /\ RowsDone(Len(program.table_rows)) /\ KeyDone(Len(program.flow_key))
  BY DEF LoadInv, Loading, Progress
<1>2. PICK biflow_no \in Garbage : xfsm = << Table(biflow_no) >>
  BY DEF LoadInv, Loading, Progress
<1>3. Cardinality(DOMAIN conditions) = Len(program.conditions)
  <2>1. PICK N \in 0..16 : N = Len(program.conditions)
    BY IdsAreIndices DEF LoadInv, TypeInv, TypeOK
  <2>2. DOMAIN conditions = 0..(N - 1)
    BY <1>1, <2>1 DEF HeadDone, ConditionsDone
  <2>3. Cardinality(0..(N - 1)) = N
    BY CountFromZero
  <2> QED BY <2>1, <2>2, <2>3
<1>4. xfsm[1] = Table(biflow_no)
  BY <1>2
<1> QED BY <1>1, <1>3, <1>4 DEF Table

\* The table a well-formed program of the loader's size becomes is the program.
LEMMA DoneAsWritten == LoadInv => LoadedAsWritten
<1> SUFFICES ASSUME LoadInv, pc = "done", Good
             PROVE  LET t == xfsm[1]
                    IN  /\ Len(t.conditions) = Len(program.conditions) /\ Len(t.rows) = Len(program.table_rows)
                        /\ t.default_state = program.initial_state[3]
                        /\ \A c \in DOMAIN program.conditions :
                             LET cond == program.conditions[c]
                             IN  ConditionAsWritten(cond, t.conditions[cond.id[3] + 1])
                        /\ \A r \in DOMAIN program.table_rows : RowAsWritten(program.table_rows[r], t.rows[r])
                        /\ t.lookup_key = [k \in DOMAIN program.flow_key |->
                                             str_to_header_field[program.flow_key[k][2]]]
  BY DEF LoadedAsWritten, Good
<1> DEFINE t == xfsm[1]
<1>0. program \in Programs
  BY DEF LoadInv, TypeInv, TypeOK
<1>1. /\ HeadDone /\ RowsDone(Len(program.table_rows)) /\ KeyDone(Len(program.flow_key))
      /\ t.conditions = [c \in 1..Len(program.conditions) |-> conditions[c - 1][1]]
      /\ t.rows = table_entries /\ t.default_state = initial_state /\ t.lookup_key = lookup_key
  BY TableLoaded
<1> HIDE DEF t
<1>2. PICK N \in 0..16 : N = Len(program.conditions)
  BY <1>0, IdsAreIndices
<1>3. Len(t.conditions) = N
  BY <1>1, <1>2
<1>4. DOMAIN program.conditions = 1..N
  BY <1>0, <1>2, ProgramShape
<1>5. ASSUME NEW c \in 1..N
      PROVE  ConditionAsWritten(program.conditions[c], t.conditions[program.conditions[c].id[3] + 1])
  <2>1. PICK id \in 0..(N - 1) : id = program.conditions[c].id[3]
    BY <1>0, <1>2, IdsAreIndices
  <2>2. id + 1 \in 1..N /\ (id + 1) - 1 = id
    OBVIOUS
  <2>3. t.conditions[id + 1] = conditions[id][1]
    BY <1>1, <1>2, <2>2
  <2>4. ConditionAsWritten(program.conditions[c], conditions[id][1])
    BY <1>1, <1>2, <2>1 DEF HeadDone, ConditionsDone
  <2> QED BY <2>1, <2>3, <2>4
<1>6. DOMAIN program.table_rows = 1..Len(program.table_rows) /\ DOMAIN program.flow_key = 1..Len(program.flow_key)
  BY <1>0, ProgramShape
<1>7. /\ Len(t.rows) = Len(program.table_rows)
      /\ \A r \in DOMAIN program.table_rows : RowAsWritten(program.table_rows[r], t.rows[r])
  BY <1>1, <1>6 DEF RowsDone
<1>8. t.default_state = program.initial_state[3]
  BY <1>1 DEF HeadDone
<1>9. t.lookup_key = [k \in DOMAIN program.flow_key |-> str_to_header_field[program.flow_key[k][2]]]
  BY <1>1, <1>6 DEF KeyDone
<1> QED BY <1>2, <1>3, <1>4, <1>5, <1>7, <1>8, <1>9 DEF t

\* json_to_table makes of a well-formed program that fits the table it says:
\* the conditions under their ids, in whatever order they come, the rows in
\* theirs, with the last result for each condition and all actions, and the key.
THEOREM ProgramIsLoaded == Spec => []LoadedAsWritten
  BY DoneAsWritten, LoadInvariant, PTL

LEMMA DoneReachable == LoadInv => RowsReachable
<1> SUFFICES ASSUME LoadInv, pc = "done", Good,
                    Cardinality(StatesOf(program) \cup {0}) <= MaxEntriesForeachState,
                    ~({0, STATE_NULL} \subseteq StatesOf(program)),
                    NEW s \in StatesOf(program)
             PROVE  /\ s \in DOMAIN xfsm[1].entries
                    /\ LET rows == xfsm[1].entries[s]
                       IN  /\ {rows[k] : k \in DOMAIN rows} = RowsOf(program, s)
                           /\ \A j, k \in DOMAIN rows : j < k => rows[j] < rows[k]
  BY DEF RowsReachable, Good
<1>0. TypeInv
  BY DEF LoadInv
<1>1. RowsDone(Len(program.table_rows)) /\ xfsm[1].entries = EntriesDb(table_entries)
  BY TableLoaded
<1>2. PICK rows : rows = table_entries
  OBVIOUS
<1>3. PICK N \in Nat : N = Len(rows) /\ DOMAIN program.table_rows = 1..N
  BY <1>0, <1>1, <1>2, LoadedStates
<1>4. /\ \A r \in 1..N : rows[r].state = program.table_rows[r].state[3]
      /\ RowStates(rows, N) = StatesOf(program) /\ Keys(rows, N) = NodesOf(program)
      /\ IsFiniteSet(StatesOf(program))
  BY <1>0, <1>1, <1>2, <1>3, LoadedStates
<1> DEFINE T == StatesOf(program) \cup {0}
<1>5. IsFiniteSet(T) /\ Keys(rows, N) \subseteq T
  BY <1>4, FS_AddElement DEF NodesOf
<1> HIDE DEF T
<1>6. Cardinality(T) <= MaxEntriesForeachState
  BY DEF T
<1>7. /\ \A x \in DOMAIN EntriesDb(rows) : Holds(rows, x, EntriesDb(rows)[x], N)
      /\ \A i \in 1..N : rows[i].state # 0 \/ STATE_NULL \notin RowStates(rows, N)
                         => rows[i].state \in DOMAIN EntriesDb(rows)
  BY <1>3, <1>5, <1>6, EntriesHold, LoaderAssumption
<1>8. PICK i \in 1..N : rows[i].state = s
  BY <1>3, <1>4 DEF StatesOf
<1>9. s = 0 => STATE_NULL \notin StatesOf(program)
  OBVIOUS
<1>10. s \in DOMAIN EntriesDb(rows)
  BY <1>4, <1>7, <1>8, <1>9
<1>11. PICK e : e = EntriesDb(rows)[s]
  OBVIOUS
<1>12. Holds(rows, s, e, N)
  BY <1>7, <1>10, <1>11
<1>13. \A k \in DOMAIN e : e[k] \in 1..N
  BY <1>3, <1>12, Elements DEF Holds
<1>14. ASSUME NEW k \in DOMAIN e PROVE e[k] \in RowsOf(program, s)
  <2>1. rows[e[k]].state = s \/ (s = STATE_NULL /\ rows[e[k]].state = 0)
    BY <1>12 DEF Holds, MayHold
  <2>2. ~(s = STATE_NULL /\ rows[e[k]].state = 0)
    <3> SUFFICES ASSUME s = STATE_NULL, rows[e[k]].state = 0 PROVE FALSE
      OBVIOUS
    <3>1. 0 \in StatesOf(program)
      BY <1>3, <1>4, <1>13 DEF StatesOf
    <3> QED BY <3>1
  <2> QED BY <1>3, <1>4, <1>13, <2>1, <2>2 DEF RowsOf
<1>15. ASSUME NEW r \in RowsOf(program, s) PROVE \E k \in DOMAIN e : e[k] = r
  <2>1. r \in 1..N /\ rows[r].state = s
    BY <1>3, <1>4 DEF RowsOf
  <2>2. MustHold(rows, s, r, N)
    BY <1>4, <1>9, <2>1 DEF MustHold
  <2> QED BY <1>12, <2>1, <2>2 DEF Holds
<1>16. {e[k] : k \in DOMAIN e} = RowsOf(program, s)
  BY <1>14, <1>15
<1>17. \A j, k \in DOMAIN e : j < k => e[j] < e[k]
  BY <1>12 DEF Holds
<1> QED BY <1>1, <1>2, <1>10, <1>11, <1>16, <1>17

\* Every row of such a program is found under its state, in the program's
\* order, as long as ten states are enough and state any does not share the
\* head node with state 0.
THEOREM RowsAreReachable == Spec => []RowsReachable
  BY DoneReachable, LoadInvariant, PTL
=============================================================================
