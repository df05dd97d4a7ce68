----------------------------- MODULE MCPacketIO -----------------------------
(***************************************************************************)
(* Programs, lcores and ports for model checking PacketIO.                 *)
(***************************************************************************)
EXTENDS PacketIO

OnePort  == << "p0" >>
TwoPorts == << "p0", "p1" >>

Setup(program, lcore, ports) == [program |-> program, lcore |-> lcore, ports |-> ports]

\* -l 2 with one port.
Alone == { Setup("flowblaze", << 2 >>, 1) }

\* -l 0-1, with a port for each queue and with a port less; and -l 2-3, whose
\* numbers main does not configure.
Pairs == { Setup("flowblaze", << 2, 3 >>, 1), Setup("rss_test", << 2, 3 >>, 1),
           Setup("rss_test", << 0, 1 >>, 2), Setup("rss_test", << 0, 1 >>, 1) }

OneHash == [f \in {"f0"} |-> 0]
TwoHashes == [f \in {"f0", "f1"} |-> IF f = "f0" THEN 4 ELSE 7]
=============================================================================
