---------------------------- MODULE MCXfsmWorker ----------------------------
(***************************************************************************)
(* Programs and packets for model checking XfsmWorker.                     *)
(***************************************************************************)
EXTENDS XfsmWorker

Reg(r)   == [type |-> "REGISTER", value |-> r]
Greg(r)  == [type |-> "GLOBAL_REGISTER", value |-> r]
Const(c) == [type |-> "CONSTANT", value |-> c]
Hdr(f)   == [type |-> "HDR_FIELD", value |-> f]

Cond(a, t, b) == [type |-> t, op1 |-> a, op2 |-> b]
Set(out, a, opcode, b) == [type |-> "UPDATE", opcode |-> opcode, op1 |-> a, op2 |-> b,
                           op3 |-> Const(0), out |-> out]
Send(port) == [type |-> "SENDPKT", opcode |-> "SUM", op1 |-> Const(255), op2 |-> Const(port),
               op3 |-> Const(0), out |-> Reg(0)]
SetField(f, v) == [type |-> "SETFIELD", opcode |-> "SUM", op1 |-> Hdr(f), op2 |-> Const(255),
                   op3 |-> v, out |-> Reg(0)]
Destroy == [type |-> "DESTROY", opcode |-> "SUM", op1 |-> Const(0), op2 |-> Const(0),
            op3 |-> Const(0), out |-> Reg(0)]

\* results: the conditions a row names, all others are "don't care".
Row(state, nc, results, actions, next) ==
  [state |-> state, results |-> [c \in 1..nc |-> IF c \in DOMAIN results THEN results[c]
                                                 ELSE "DONT_CARE"],
   actions |-> actions, next_state |-> next, next_stage |-> NULL_STAGE]
T(c) == c :> "TRUE"
F(c) == c :> "FALSE"

-----------------------------------------------------------------------------
\* SW-FB/simple-test/table_def.h, with 2 in place of 5 and the table's last
\* stage explicit: count to the limit, then subtract it; port depends on in_port.
SimpleConds == << Cond(Reg(0), "GREATER_EQ", Const(2)),
                  Cond(Hdr("XFSM_IN_PORT"), "EQUAL", Const(1)) >>
Inc == Set(Reg(0), Reg(0), "SUM", Const(1))
Sub == Set(Reg(0), Reg(0), "MINUS", Const(2))
SimpleRows == << Row(0, 2, F(2),         << Inc, Send(1) >>, 1),
                 Row(1, 2, F(1) @@ F(2), << Inc, Send(1) >>, 1),
                 Row(1, 2, T(1) @@ F(2), << Sub, Send(1) >>, 1),
                 Row(0, 2, T(2),         << Inc, Send(2) >>, 1),
                 Row(1, 2, F(1) @@ T(2), << Inc, Send(2) >>, 1),
                 Row(1, 2, T(1) @@ T(2), << Sub, Send(2) >>, 1) >>

\* A connection tracker: the first packet opens the connection, the next one
\* counts, one to port 2 closes it and destroys the instance.  A packet of an
\* open connection from port 2 takes a remainder by a register that is 0, one
\* from port 3 goes on to a stage that does not exist.
ConnConds == << Cond(Hdr("TCP_DPORT"), "EQUAL", Const(2)),
                Cond(Reg(0), "LESS", Const(2)),
                Cond(Hdr("XFSM_IN_PORT"), "EQUAL", Const(2)),
                Cond(Hdr("XFSM_IN_PORT"), "EQUAL", Const(3)) >>
ConnRows ==
  << Row(0, 4, F(1), << Inc, Set(Greg(0), Reg(0), "MAX", Greg(0)), Send(1) >>, 2),
     Row(2, 4, T(1), << Send(1), Destroy >>, 2),
     Row(2, 4, T(3), << Set(Reg(0), Const(7), "MODULO", Greg(1)), Send(1) >>, 2),
     [Row(2, 4, T(4), << Inc, Send(2) >>, 2) EXCEPT !.next_stage = 1],
     Row(2, 4, T(2), << Inc, SetField("IPv4_TOS", Reg(0)), Send(1) >>, 2),
     Row(2, 4, F(2), << >>, 2) >>
\* UseCases/port_knocking_firewall.xl as xlc compiles it.
Knocks == << 2570, 2827, 3084, 5555 >>
Allowed == 4
KnockConds == [c \in 1..4 |-> Cond(Hdr("TCP_DPORT"), "EQUAL", Const(Knocks[c]))]
              \o << Cond(Hdr("TCP_DPORT"), "EQUAL", Const(22)),
                    Cond(Hdr("XFSM_IN_PORT"), "EQUAL", Const(2)) >>
KnockRows == [s \in 1..4 |-> Row(s - 1, 6, T(s), << >>, s)]
             \o << Row(Allowed, 6, T(5), << Send(2) >>, Allowed) >>
KnockRowsWithAny == Append(KnockRows, Row(STATE_NULL, 6, T(6), << Send(1) >>, STATE_NULL))

-----------------------------------------------------------------------------
(* Packets                                                                 *)

Pkt(proto, src, l4, port) ==
  [proto |-> proto,
   val |-> [f \in {"IPv4_SRC", "IPv4_TOS", "INNER_IPv4_SRC", "TCP_DPORT", "UDP_DPORT",
                   "XFSM_IN_PORT"} |->
              CASE f = "IPv4_SRC"       -> src
                [] f = "INNER_IPv4_SRC" -> 3 - src
                [] f = "XFSM_IN_PORT"   -> port
                [] f = "IPv4_TOS"       -> 0
                [] OTHER                -> l4]]

SrcKey   == << "IPv4_SRC" >>
FlowKey  == << "IPv4_SRC", "TCP_DPORT" >>

SimplePackets == {Pkt("tcp", src, 1, src) : src \in {1, 2}} \cup {Pkt("udp", 1, 1, 2)}
TcpPackets    == {Pkt("tcp", src, l4, 1) : src \in {1, 2}, l4 \in {1, 2}}
ConnPackets   == TcpPackets \cup {Pkt("tcp", 3, 1, 1), Pkt("tcp", 2, 1, 2), Pkt("tcp", 1, 1, 3)}
MixedPackets  == TcpPackets \cup {Pkt("other", 1, 1, 1)}
KnockPackets  == {Pkt("tcp", 1, Knocks[n], 1) : n \in 1..4}
                 \cup {Pkt("tcp", 1, 22, 1), Pkt("tcp", 1, 7, 1)}

-----------------------------------------------------------------------------
(* A property of a use case                                                *)

\* UseCases/README.md:21 "each correctly knocked port will cause a transition":
\* the next knock a host owes always finds a row.
EachKnockMatches ==
  [][(/\ pc = "match"
      /\ pool[match_inst].state < Allowed
      /\ hdr["TCP_DPORT"] = Knocks[pool[match_inst].state + 1]) => match' # 0]_vars
=============================================================================
