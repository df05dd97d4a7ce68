------------------------------ MODULE PacketIO ------------------------------
(***************************************************************************)
(* SW-FB: who owns a packet buffer, and who handles a flow, from the start *)
(* of the lcores to the closing of the ports.  Every lcore runs            *)
(* fb_worker_main_loop: it takes a burst from one queue of one port after  *)
(* another, lets the program send each packet and gives the buffer back to *)
(* the pool.  What the program decides is XfsmWorker's business; here it   *)
(* may send a packet to any port, more than once, or drop it.              *)
(*                                                                         *)
(* Of the three programs, flowblaze and simple_test let every lcore poll   *)
(* queue 0; rss_test gives each a queue, over which the port spreads the   *)
(* flows (receive-side scaling).                                           *)
(*                                                                         *)
(* DPDK is external: the buffer pool, the receive ring (read, then         *)
(* advance: a burst is not safe against another lcore on the same queue)   *)
(* and the transmit ring, which owns a buffer until the packet has left    *)
(* and returns it to the pool at the next burst on that port.              *)
(*                                                                         *)
(* With one or two ports, the fields that the cast of the tx_buffer array  *)
(* makes of its unused pointers are zero: every packet is sent at once,    *)
(* and what a full ring refuses is handed to an error callback that is no  *)
(* function.  The drain flushes the real buffers, which are always empty.  *)
(***************************************************************************)
EXTENDS Integers, Sequences, FiniteSets, SequencesExt

CONSTANTS Setups,       (* [program, lcore, ports]: what runs, on which lcores, *)
                        (* with how many of the ports                           *)
          NumWorkers,   (* nb_lcores                                        *)
          Ports,        (* a sequence                                       *)
          Flows, Hash,  (* what the port computes of a packet's addresses   *)
          MbufsPerPort, (* of the pool                                      *)
          NumPackets,   (* bound: packets that arrive                       *)
          Posted,       (* receive descriptors of a queue                   *)
          TxDesc,       (* transmit descriptors of a port                   *)
          MaxPktBurst,
          MaxSends,     (* bound: sendPacket actions in a row               *)
          NoPkt

Workers == 1..NumWorkers

ASSUME PortsAssumption ==
  /\ Ports \in Seq(Range(Ports)) /\ Len(Ports) \in {1, 2}
  /\ \A j, k \in DOMAIN Ports : Ports[j] = Ports[k] => j = k
  /\ NumWorkers \in Nat \ {0} /\ Posted \in Nat /\ MbufsPerPort \in Nat
  /\ NumWorkers * Posted <= MbufsPerPort /\ MaxPktBurst \in Nat \ {0}

\* Lcores have different numbers.
ASSUME SetupsAssumption ==
  Hash \in [Flows -> Nat] /\
  \A s \in Setups : /\ s.ports \in 1..Len(Ports) /\ s.lcore \in [Workers -> Nat]
                    /\ \A v, w \in Workers : s.lcore[v] = s.lcore[w] => v = w

Queues == 0..(NumWorkers - 1)

VARIABLES
  setup,     \* one of Setups
  force_quit,
  crashed,   \* the process has ended with a fault
  open,      \* ports that are not closed
  arrived,   \* packets that have arrived
  content,   \* packet in each buffer
  pool,      \* how often each buffer is in the pool
  posted,    \* per port and queue: empty buffers the device may fill
  rx,        \* per port and queue: buffers filled so far
  tail,      \* per port and queue: how many of them have been taken
  tx,        \* per port: [mbuf, packet] to transmit, the packet it was when sent
  done,      \* per port: buffers transmitted and not yet returned
  tables,    \* per flow: the workers whose table has an instance of it
  pc, i, base, burst, sends,     \* per worker: where it is, its port, its burst
  overwritten  \* history: a packet came into a buffer that a worker had not done with

dev    == << posted, rx, tail, tx, done, arrived, content, overwritten >>
main   == << setup, force_quit, crashed, open >>
worker == << tables, pc, i, base, burst, sends >>
vars   == << main, dev, worker, pool >>

PortId(p) == (CHOOSE k \in DOMAIN Ports : Ports[k] = p) - 1
PortSet == {Ports[k] : k \in 1..setup.ports}
Mbufs == 1..(setup.ports * MbufsPerPort)
Rings == Range(Ports) \X Queues

\* The ports are configured one after the other; each queue starts with its
\* own buffers posted, and the pool has the others.
Init ==
  /\ setup \in Setups /\ open = PortSet /\ force_quit = FALSE /\ crashed = FALSE
  /\ arrived = 0 /\ content = [m \in Mbufs |-> NoPkt]
  /\ posted = [r \in Rings |->
                 IF PortId(r[1]) >= setup.ports THEN << >>
                 ELSE [d \in 1..Posted |-> (PortId(r[1]) * NumWorkers + r[2]) * Posted + d]]
  /\ pool = [m \in Mbufs |-> IF m <= setup.ports * NumWorkers * Posted THEN 0 ELSE 1]
  /\ rx = [r \in Rings |-> << >>] /\ tail = [r \in Rings |-> 0]
  /\ tx = [p \in Range(Ports) |-> << >>] /\ done = [p \in Range(Ports) |-> << >>]
  /\ tables = [f \in Flows |-> {}]
  /\ pc = [w \in Workers |-> "top"] /\ i = [w \in Workers |-> 1]
  /\ base = [w \in Workers |-> 0] /\ burst = [w \in Workers |-> << >>]
  /\ sends = [w \in Workers |-> 0] /\ overwritten = FALSE

-----------------------------------------------------------------------------
(* The queues                                                              *)

\* main fills lcore_queue_conf from 0 to nb_lcores - 1, and a worker of rss_test
\* looks under its lcore's number: beyond that all is 0.
Configured(w) == setup.lcore[w] < NumWorkers
QueueId(w) == IF setup.program = "rss_test" /\ Configured(w) THEN setup.lcore[w] ELSE 0

\* Mutant of RxQueue: the hash key is not symmetric, the two directions of a
\* flow differ.
RxQueueByDirection(f, p) ==
  IF setup.program = "rss_test" THEN (Hash[f] + PortId(p)) % NumWorkers ELSE 0

\* The symmetric key gives both directions of a flow, which come in on
\* different ports, the same queue.  Without scaling all goes to queue 0.
RxQueue(f, p) == IF setup.program = "rss_test" THEN Hash[f] % NumWorkers ELSE 0

-----------------------------------------------------------------------------
(* The device                                                              *)

Waiting(r) == {rx[r][k] : k \in (tail[r] + 1)..Len(rx[r])}
Pending(r) == Len(rx[r]) - tail[r]
Unread(m) == (\E r \in Rings : m \in Waiting(r)) \/ \E w \in Workers : m \in Range(burst[w])

\* A buffer that the pool has twice may be posted twice, and filled again while
\* a worker has not come to the packet in it.
NicReceive(p, f) ==
  LET r == << p, RxQueue(f, p) >>
      m == Head(posted[r])
  IN  /\ p \in open /\ arrived < NumPackets /\ posted[r] # << >>
      /\ content' = [content EXCEPT ![m] = [id |-> arrived + 1, flow |-> f]]
      /\ rx' = [rx EXCEPT ![r] = Append(@, m)]
      /\ posted' = [posted EXCEPT ![r] = Tail(@)]
      /\ arrived' = arrived + 1 /\ overwritten' = (overwritten \/ Unread(m))
      /\ UNCHANGED << main, tail, tx, done, worker, pool >>

NicTransmit(p) ==
  /\ p \in open /\ tx[p] # << >>
  /\ done' = [done EXCEPT ![p] = Append(@, Head(tx[p]).mbuf)]
  /\ tx' = [tx EXCEPT ![p] = Tail(@)]
  /\ UNCHANGED << main, posted, rx, tail, arrived, content, overwritten, worker, pool >>

-----------------------------------------------------------------------------
(* A worker                                                                *)

At(w, where) == ~crashed /\ pc[w] = where
Goto(w, where) == pc' = [pc EXCEPT ![w] = where]

Ring(w) == << Ports[i[w]], QueueId(w) >>

Crash == crashed' = TRUE /\ UNCHANGED << setup, force_quit, open >>

\* Mutant of Top: the flag is looked at only by the master lcore.
TopOfMaster(w) ==
  /\ At(w, "top")
  /\ IF force_quit /\ w = 1 THEN Goto(w, "left") /\ UNCHANGED main
     ELSE Goto(w, "poll") /\ UNCHANGED main
  /\ UNCHANGED << tables, i, base, burst, sends, dev, pool >>

\* Once round the ports, a worker looks whether it has to leave and flushes its
\* buffers; rss_test takes that of the port with its queue's number, NULL if
\* there is no such port.
Top(w) ==
  /\ At(w, "top")
  /\ IF force_quit THEN Goto(w, "left") /\ UNCHANGED main
     ELSE IF setup.program = "rss_test" /\ Configured(w) /\ QueueId(w) >= setup.ports
     THEN Crash /\ UNCHANGED pc
     ELSE Goto(w, "poll") /\ UNCHANGED main
  /\ UNCHANGED << tables, i, base, burst, sends, dev, pool >>

NextPort(w) == IF i[w] < setup.ports
               THEN i' = [i EXCEPT ![w] = @ + 1] /\ Goto(w, "poll")
               ELSE i' = [i EXCEPT ![w] = 1] /\ Goto(w, "top")

\* rte_eth_rx_burst, first half: what is in the ring.
RxRead(w) ==
  LET n == IF Pending(Ring(w)) < MaxPktBurst THEN Pending(Ring(w)) ELSE MaxPktBurst
      t == tail[Ring(w)]
  IN  /\ At(w, "poll")
      /\ IF n = 0
         THEN NextPort(w) /\ UNCHANGED << base, burst >>
         ELSE /\ base' = [base EXCEPT ![w] = t]
              /\ burst' = [burst EXCEPT ![w] = SubSeq(rx[Ring(w)], t + 1, t + n)]
              /\ Goto(w, "advance") /\ UNCHANGED i
      /\ UNCHANGED << main, dev, tables, sends, pool >>

\* Second half: the ring is advanced, and new buffers are posted in the place
\* of those taken, as far as the pool has any.
RxAdvance(w) ==
  /\ At(w, "advance")
  /\ tail' = [tail EXCEPT ![Ring(w)] = base[w] + Len(burst[w])]
  /\ base' = [base EXCEPT ![w] = 0]
  /\ LET free == {m \in Mbufs : pool[m] > 0}
         n    == IF Cardinality(free) < Len(burst[w]) THEN Cardinality(free) ELSE Len(burst[w])
     IN  \E new \in [1..n -> free] :
           /\ \A a, b \in 1..n : a # b => new[a] # new[b]
           /\ pool' = [m \in Mbufs |-> pool[m] - Cardinality({a \in 1..n : new[a] = m})]
           /\ posted' = [posted EXCEPT ![Ring(w)] = @ \o new]
  /\ Goto(w, "packet")
  /\ UNCHANGED << main, rx, tx, done, arrived, content, overwritten, tables, i, burst, sends >>

\* The packet goes through this worker's own table.
Lookup(w) ==
  /\ At(w, "packet")
  /\ tables' = [tables EXCEPT ![content[Head(burst[w])].flow] = @ \cup {w}]
  /\ Goto(w, "actions")
  /\ UNCHANGED << main, dev, i, base, burst, sends, pool >>

\* XFSM_SENDPKT: rte_eth_tx_buffer sends at once; the burst first returns the
\* buffers of the packets that have left.
Send(w, p) ==
  /\ At(w, "actions") /\ sends[w] < MaxSends
  /\ pool' = [m \in Mbufs |-> pool[m] + Cardinality({a \in DOMAIN done[p] : done[p][a] = m})]
  /\ done' = [done EXCEPT ![p] = << >>]
  /\ IF Len(tx[p]) < TxDesc
     THEN /\ tx' = [tx EXCEPT ![p] = Append(@, [mbuf   |-> Head(burst[w]),
                                                packet |-> content[Head(burst[w])]])]
          /\ sends' = [sends EXCEPT ![w] = @ + 1]
          /\ UNCHANGED main
     ELSE Crash /\ UNCHANGED << tx, sends >>     \* the error callback
  /\ UNCHANGED << posted, rx, tail, arrived, content, overwritten, tables, pc, i, base, burst >>

NextInBurst(w) ==
  /\ burst' = [burst EXCEPT ![w] = Tail(@)] /\ sends' = [sends EXCEPT ![w] = 0]
  /\ IF burst'[w] = << >> THEN NextPort(w) ELSE Goto(w, "packet") /\ UNCHANGED i
  /\ UNCHANGED << main, dev, tables, base >>

\* Mutant of FreePacket: a packet that no action sent is forgotten.
FreePacketIfSent(w) ==
  /\ At(w, "actions")
  /\ pool' = IF sends[w] = 0 THEN pool ELSE [pool EXCEPT ![Head(burst[w])] = @ + 1]
  /\ NextInBurst(w)

\* Mutant of FreePacket: a packet no action sent is not left behind, but tried
\* again.
FreePacketStays(w) ==
  /\ At(w, "actions")
  /\ IF sends[w] = 0
     THEN Goto(w, "packet") /\ UNCHANGED << main, dev, tables, i, base, burst, sends, pool >>
     ELSE /\ pool' = [pool EXCEPT ![Head(burst[w])] = @ + 1]
          /\ NextInBurst(w)

\* rte_pktmbuf_free, whether the packet was sent or not.
FreePacket(w) ==
  /\ At(w, "actions")
  /\ pool' = [pool EXCEPT ![Head(burst[w])] = @ + 1]
  /\ NextInBurst(w)

-----------------------------------------------------------------------------
(* main                                                                    *)

\* signal_handler, for SIGINT and SIGTERM.
Signal == ~crashed /\ ~force_quit /\ force_quit' = TRUE
          /\ UNCHANGED << setup, crashed, open, dev, worker, pool >>

\* main is a worker itself, on the master lcore; then it waits for the others,
\* and stops and closes one port after the other.
ClosePort ==
  /\ ~crashed /\ open # {} /\ \A w \in Workers : pc[w] = "left"
  /\ open' = open \ {Ports[setup.ports + 1 - Cardinality(open)]}
  /\ UNCHANGED << setup, force_quit, crashed, dev, worker, pool >>

Work(w) == Top(w) \/ RxRead(w) \/ RxAdvance(w) \/ Lookup(w) \/ FreePacket(w)

Next == \/ \E p \in PortSet : NicTransmit(p) \/ \E f \in Flows : NicReceive(p, f)
        \/ \E w \in Workers : Work(w) \/ \E p \in PortSet : Send(w, p)
        \/ Signal \/ ClosePort

\* A worker never pauses, nor does main; nothing is assumed of the device, the
\* program or the user.
Spec == Init /\ [][Next]_vars /\ (\A w \in Workers : WF_vars(Work(w))) /\ WF_vars(ClosePort)

-----------------------------------------------------------------------------
(* Properties                                                              *)

\* No buffer is lost, whether its packet was sent, dropped or is under way: it
\* is in the pool, on a ring or in a worker's burst.
Held(m) ==
  \/ pool[m] > 0
  \/ \E r \in Rings : m \in Range(posted[r]) \cup Waiting(r)
  \/ \E p \in Range(Ports) : m \in Range(done[p]) \/ \E d \in DOMAIN tx[p] : tx[p][d].mbuf = m
  \/ \E w \in Workers : m \in Range(burst[w])
NoBufferLost == \A m \in Mbufs : Held(m)

\* With rss_test on lcores 0, 1, ..., all packets of a flow, of both directions
\* and on whatever port, go through one worker's table: its state is in one
\* place.  With the other programs, or other lcores, it need not be; nor when a
\* buffer that was freed too early is filled a second time under a worker's hands.
Scaled == setup.program = "rss_test" /\ \A w \in Workers : Configured(w)
OneTablePerFlow ==
  Scaled /\ ~overwritten
  => \A f \in Flows : Cardinality(tables[f]) <= 1

\* What waits in a queue that is polled is taken, however packets keep arriving
\* elsewhere and rows send or drop: each burst is worked off, and each port
\* comes round again.  The ways out are the crash and the signal.
PacketsTaken ==
  \A r \in Rings : (Pending(r) > 0 /\ \E w \in Workers : QueueId(w) = r[2])
                   ~> (Pending(r) <= 0 \/ crashed \/ force_quit)

\* After the signal every worker finishes its bursts and leaves, and the ports
\* are closed: no lcore waits for another.
StopEnds == force_quit ~> (open = {} \/ crashed)

\* UseCases/README.md:12 "all the remaining packets for that flow should be
\* forwarded to that same web server": what a port has to transmit is still the
\* packet the program sent to it.
SentIsWhatLeaves ==
  \A p \in open : \A d \in DOMAIN tx[p] : content[tx[p][d].mbuf] = tx[p][d].packet
=============================================================================
