------------------------------ MODULE MCLoader ------------------------------
(***************************************************************************)
(* Programs for model checking Loader: ordinary ones, and one at each side *)
(* of every limit.                                                         *)
(***************************************************************************)
EXTENDS Loader

None == << "none" >>
Num(k) == << "num", 0, k >>
Word(w) == << "word", w >>

Reg(r)   == [type |-> Word("XTRA_LOCAL_REGISTER"), name |-> Num(r), value |-> None]
Greg(r)  == [type |-> Word("XTRA_GLOBAL_REGISTER"), name |-> Num(r), value |-> None]
Const(s) == [type |-> Word("XTRA_INTEGER_CONST"), name |-> None, value |-> s]
Hdr(f)   == [type |-> Word("XTRA_PKT_FIELD"), name |-> None, value |-> Word(f)]
Event    == [type |-> Word("XTRA_EVENT_FIELD"), name |-> None, value |-> Word("XTRA_PKT_RCVD_PORT")]
Stamp    == [type |-> Word("XTRA_READ_ONLY_REGISTER"), name |-> Word("XTRA_TIMESTAMP"), value |-> None]
NoOp     == [type |-> None, name |-> None, value |-> None]

Cond(id, opcode, x, y) == [id |-> id, opcode |-> Word(opcode), op0 |-> x, op1 |-> y]
Act(opcode, x, y, z) == [opcode |-> Word(opcode), op0 |-> x, op1 |-> y, op2 |-> z]
Send(port) == Act("XTRA_SENDPKT", Const(Num(255)), Const(Num(port)), NoOp)
Inc == Act("XTRA_SUM", Reg(0), Const(Num(1)), Reg(0))
Keep == Act("XTRA_MAX", Greg(1), Stamp, Greg(1))
SetTos == Act("XTRA_SETFIELD", Hdr("ipv4.tos"), Const(Num(255)), Reg(1))

Res(pairs) == [k \in DOMAIN pairs |-> [id |-> Num(pairs[k][1]), result |-> Word(pairs[k][2])]]
Rule(state, results, acts, next) ==
  [state |-> Num(state), condition_results |-> results, actions |-> acts,
   next_state |-> Num(next), next_stage |-> Num(255)]

Conds == << Cond(Num(0), "XTRA_LESS", Reg(0), Const(Num(5))), Cond(Num(1), "XTRA_EQUAL", Event, Const(Num(1))) >>
T(c) == Res(<< << c, "XTRA_TRUE" >> >>)
F(c) == Res(<< << c, "XTRA_FALSE" >> >>)

Basic == [conditions |-> Conds, initial_state |-> Num(0), flow_key |-> << Word("ipv4.src"), Word("tcp.dport") >>,
          table_rows |-> << Rule(0, F(0), << Send(1) >>, 1), Rule(1, T(1), << Send(2), SetTos >>, 1),
                            Rule(1, F(1), << >>, 0) >>]

Rows(count, row) == [Basic EXCEPT !.table_rows = [r \in 1..count |-> row]]
Ladder(count, width) == [Basic EXCEPT !.table_rows = [r \in 1..count |-> Rule((r - 1) \div width, T(0), << >>, 0)]]
With(conds) == [Basic EXCEPT !.conditions = conds]
Acts(acts) == [Basic EXCEPT !.table_rows[1].actions = acts]

Ordinary == { Basic, Acts(<< Inc, Keep, Send(1) >>), Acts(<< SetTos, Inc >>),
              With(<< Conds[2], Conds[1] >> ),
              With(<< Cond(Num(1), "XTRA_LESS_EQ", Stamp, Const(<< "huge" >>)),
                      Cond(Num(0), "XTRA_GREATER", Hdr("eth.src"), Const(<< "num", 7, -1 >>)) >>),
              [Basic EXCEPT !.table_rows[1].state = Num(255)],
              [Basic EXCEPT !.table_rows[1].condition_results =
                 Res(<< << 0, "XTRA_TRUE" >>, << 1, "XTRA_FALSE" >>, << 0, "XTRA_DONT_CARE" >> >>)],
              [Basic EXCEPT !.table_rows = << Rule(0, << >>, << Send(1) >>, 0) >>, !.conditions = << >>] }

\* Rows of four states in any order, and conditions that come in any order or twice.
Orders == { [Basic EXCEPT !.table_rows = [r \in 1..5 |-> IF r = 1 THEN Rule(0, T(0), << >>, 1)
                                                         ELSE Rule(states[r - 1], F(1), << Send(r) >>, r)]]
              : states \in [1..4 -> {0, 1, 2}] }
          \cup { [Basic EXCEPT !.table_rows = [r \in 1..3 |-> Rule(states[r], F(1), << Send(r) >>, r)]]
                : states \in [1..3 -> {0, 1, 2, 255}] }
          \cup { With([c \in 1..3 |-> Cond(Num(ids[c]), "XTRA_GREATER_EQ", Reg(c), Greg(ids[c]))])
                : ids \in [1..3 -> 0..2] }

\* Inside the limit, and one beyond.
Edges == { With([c \in 1..k |-> Cond(Num(c - 1), "XTRA_NOT_EQUAL", Greg(c), Reg(c))]) : k \in {16, 17, 254, 255} }
         \cup { Ladder(count, 10) : count \in {90, 100, 110, 255, 256, 257} }
         \cup { Ladder(11, 11), Ladder(4, 1) }
         \cup { [Basic EXCEPT !.table_rows = [r \in 1..count |-> Rule(IF r = count THEN 255 ELSE 0, T(0), << >>, 0)]]
                : count \in {10, 11} }
         \cup { [Basic EXCEPT !.table_rows = << Rule(s, T(0), << >>, 0) >>] : s \in {0, 1, 255} }
         \cup { Acts([k \in 1..count |-> Send(k)]) : count \in {32, 33} }
         \cup { [Basic EXCEPT !.flow_key = [k \in 1..count |-> Word("ipv4.dst")]] : count \in {8, 9} }
         \cup { [Basic EXCEPT !.table_rows[2].next_stage = s] : s \in {Num(256), << "num", -1, -1 >>, << "num", 1, 0 >>} }

\* What is refused, and what should be.
Malformed == { [Basic EXCEPT !.initial_state = s] : s \in {Word("start"), None, << "huge" >>, Num(256)} }
             \cup { With(<< Conds[1], Cond(id, "XTRA_EQUAL", Reg(0), Reg(1)) >>)
                    : id \in {Num(0), Num(2), << "num", -1, -1 >>, None} }
             \cup { With(<< Cond(Num(0), "XTRA_LIKE", Reg(0), Reg(1)) >>),
                    With(<< Cond(Num(0), "XTRA_LESS", Hdr("gtp.teid"), Reg(1)) >>),
                    With(<< Cond(Num(0), "XTRA_LESS", NoOp, Reg(1)) >>) }
             \cup { [Basic EXCEPT !.table_rows[1].condition_results =
                       << [id |-> id, result |-> Word("XTRA_TRUE")] >>] : id \in {Num(15), Num(16), Word("x")} }
             \cup { [Basic EXCEPT !.table_rows[1].condition_results[1].result = Word("XTRA_MAYBE")] }
             \cup { Acts(<< Act("XTRA_DELETEINST", NoOp, NoOp, NoOp) >>),
                    Acts(<< Act("XTRA_SUM", Reg(0), Reg(0), Const(Num(1))) >>),
                    Acts(<< Act("XTRA_JUMP", NoOp, NoOp, NoOp) >>),
                    Acts(<< [Inc EXCEPT !.opcode = None] >>),
                    Acts(<< Act("XTRA_SETFIELD", Reg(0), Reg(1), NoOp) >>),
                    Acts(<< Act("XTRA_SETFIELD", Reg(0), Reg(1), Hdr("gtp.teid")) >>) }
             \cup { [Basic EXCEPT !.flow_key = << Word("ipv4.src"), f >>] : f \in {None, Word("ipv6.src")} }

AllPrograms == Ordinary \cup Orders \cup Edges \cup Malformed
=============================================================================
