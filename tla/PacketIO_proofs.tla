--------------------------- MODULE PacketIO_proofs ---------------------------
(***************************************************************************)
(* With receive-side scaling, the packets of a flow go through one         *)
(* worker's table, for any number of workers, ports, flows and buffers.    *)
(*                                                                         *)
(* A worker is the only one on its queue, so what it has read is still the *)
(* next in the ring when it advances it: the ring is never taken back over *)
(* packets whose buffers were filled again.  What waits in a queue, or is  *)
(* in a worker's burst, is therefore of a flow that the port's hash sends  *)
(* there, as long as no buffer is filled while a packet in it still waits. *)
(*                                                                         *)
(* And with any of the programs, also where lcores share a queue and take  *)
(* the ring back over each other's packets, no buffer is lost.             *)
(***************************************************************************)
EXTENDS PacketIO, FiniteSetTheorems, SequenceTheorems, TLAPS

Types ==
  /\ setup \in Setups
  /\ posted \in [Rings -> Seq(Mbufs)] /\ rx \in [Rings -> Seq(Mbufs)]
  /\ tail \in [Rings -> Nat] /\ content = [m \in Mbufs |-> content[m]]
  /\ burst \in [Workers -> Seq(Mbufs)] /\ base \in [Workers -> Nat]
  /\ i \in [Workers -> 1..setup.ports] /\ pc = [w \in Workers |-> pc[w]]
  /\ tables = [f \in Flows |-> tables[f]]

\* What a worker has read is in the ring, and comes next in a ring of its own.
ReadInRing(w) ==
  /\ pc[w] \in {"advance", "packet", "actions"} => burst[w] # << >>
  /\ pc[w] = "advance" => base[w] + Len(burst[w]) <= Len(rx[Ring(w)])
ReadIsNext(w) == Scaled /\ pc[w] = "advance" => base[w] = tail[Ring(w)]
RingsOwned == /\ \A r \in Rings : tail[r] <= Len(rx[r])
              /\ \A w \in Workers : ReadInRing(w) /\ ReadIsNext(w)

\* The queue of a flow.
QueueOf(f) == Hash[f] % NumWorkers

FlowsInPlace ==
  /\ \A r \in Rings : \A m \in Waiting(r) : QueueOf(content[m].flow) = r[2]
  /\ \A w \in Workers : \A m \in Range(burst[w]) : QueueOf(content[m].flow) = QueueId(w)
  /\ \A f \in Flows : \A w \in tables[f] : w \in Workers /\ QueueOf(f) = QueueId(w)

FlowInv == Types /\ RingsOwned /\ (Scaled /\ ~overwritten => FlowsInPlace)

-----------------------------------------------------------------------------
(* Queues                                                                  *)

LEMMA PortsInRange == Types => PortSet \subseteq Range(Ports) /\ \A w \in Workers : Ports[i[w]] \in Range(Ports)
<1> SUFFICES ASSUME Types PROVE PortSet \subseteq Range(Ports) /\ \A w \in Workers : Ports[i[w]] \in Range(Ports)
  OBVIOUS
<1>1. setup.ports \in 1..Len(Ports) /\ DOMAIN Ports = 1..Len(Ports) /\ Len(Ports) \in Nat
  BY PortsAssumption, SetupsAssumption DEF Types
<1>2. \A k \in 1..setup.ports : k \in DOMAIN Ports
  BY <1>1
<1>3. \A k \in DOMAIN Ports : Ports[k] \in Range(Ports)
  BY DEF Range
<1>4. \A w \in Workers : i[w] \in 1..setup.ports
  BY DEF Types
<1> QED BY <1>2, <1>3, <1>4 DEF PortSet

LEMMA OwnRing == Types => \A w \in Workers : QueueId(w) \in Queues /\ Ring(w) \in Rings
<1> SUFFICES ASSUME Types, NEW w \in Workers PROVE QueueId(w) \in Queues /\ Ring(w) \in Rings
  OBVIOUS
<1>1. Ports[i[w]] \in Range(Ports)
  BY PortsInRange
<1>2. setup.lcore[w] \in Nat
  BY SetupsAssumption DEF Types
<1>3. QueueId(w) \in Queues
  BY <1>2, PortsAssumption DEF QueueId, Queues, Configured
<1> QED BY <1>1, <1>3 DEF Ring, Rings

\* Two workers never poll the same queue.
LEMMA OwnQueue == Types /\ Scaled => \A v, w \in Workers : QueueId(v) = QueueId(w) => v = w
  BY SetupsAssumption DEF Types, Scaled, QueueId, Configured

\* As numbers of buffers: the last queue of the last port starts within the pool.
LEMMA InitialBuffers ==
  ASSUME NEW n \in Nat, NEW k \in 0..(n - 1), NEW q \in Queues, NEW d \in 1..Posted
  PROVE  (k * NumWorkers + q) * Posted + d \in 1..(n * MbufsPerPort)
<1> DEFINE slot == k * NumWorkers + q
<1>1. k \in Nat /\ k + 1 <= n /\ NumWorkers \in Nat /\ q \in Nat /\ Posted \in Nat
  BY PortsAssumption DEF Queues
<1>2. k * NumWorkers \in Nat /\ (k + 1) * NumWorkers \in Nat /\ n * NumWorkers \in Nat
  BY <1>1
<1>3. k * NumWorkers + NumWorkers = (k + 1) * NumWorkers
  BY <1>1
<1>4. slot \in Nat /\ slot + 1 <= (k + 1) * NumWorkers
  BY <1>1, <1>2, <1>3 DEF Queues
<1>5. (k + 1) * NumWorkers <= n * NumWorkers
  BY <1>1
<1>6. slot + 1 <= n * NumWorkers
  BY <1>2, <1>4, <1>5
<1>7. (slot + 1) * Posted <= (n * NumWorkers) * Posted
  BY <1>1, <1>2, <1>4, <1>6
<1>8. (n * NumWorkers) * Posted = n * (NumWorkers * Posted)
  BY <1>1
<1>9. n * (NumWorkers * Posted) <= n * MbufsPerPort
  BY PortsAssumption
<1>10. slot * Posted + Posted = (slot + 1) * Posted /\ slot * Posted \in Nat
  BY <1>1, <1>4
<1>11. n * MbufsPerPort \in Nat
  BY PortsAssumption
<1> HIDE DEF slot
<1>12. slot * Posted + d \in 1..(n * MbufsPerPort)
  <2> DEFINE a == slot * Posted
             b == (slot + 1) * Posted
             c == (n * NumWorkers) * Posted
             e == n * MbufsPerPort
  <2>1. a \in Nat /\ e \in Nat /\ a + Posted = b /\ b <= c /\ c <= e /\ c \in Nat
    BY <1>1, <1>2, <1>7, <1>8, <1>9, <1>10, <1>11
  <2> HIDE DEF a, b, c, e
  <2>2. a + d \in 1..e
    BY <2>1, <1>1
  <2> QED BY <2>2 DEF a, e
<1> QED BY <1>12 DEF slot

LEMMA InitFlow == Init => FlowInv
<1> SUFFICES ASSUME Init PROVE FlowInv
  OBVIOUS
<1>1. Types
  <2>1. setup \in Setups /\ setup.ports \in Nat
    BY SetupsAssumption, PortsAssumption DEF Init
  <2>2. ASSUME NEW r \in Rings PROVE posted[r] \in Seq(Mbufs)
    <3>1. PortId(r[1]) \in Nat /\ r[2] \in Queues
      <4>1. r[2] \in Queues /\ \E k \in DOMAIN Ports : Ports[k] = r[1]
        BY <2>2 DEF Rings, Range
      <4>2. DOMAIN Ports = 1..Len(Ports) /\ Len(Ports) \in Nat
        BY PortsAssumption
      <4>3. PortId(r[1]) + 1 \in DOMAIN Ports
        BY <4>1, <4>2 DEF PortId
      <4>4. PortId(r[1]) \in Int
        BY <4>1, <4>2 DEF PortId
      <4> QED BY <4>1, <4>2, <4>3, <4>4
    <3>2. CASE PortId(r[1]) >= setup.ports
      <4>1. posted[r] = << >>
        BY <2>2, <3>2, Zenon DEF Init
      <4> QED BY <4>1
    <3>3. CASE ~(PortId(r[1]) >= setup.ports)
      <4>1. \A d \in 1..Posted : (PortId(r[1]) * NumWorkers + r[2]) * Posted + d \in Mbufs
        BY <2>1, <3>1, <3>3, InitialBuffers DEF Mbufs
      <4>2. [d \in 1..Posted |-> (PortId(r[1]) * NumWorkers + r[2]) * Posted + d] \in [1..Posted -> Mbufs]
        BY <4>1
      <4>3. posted[r] \in [1..Posted -> Mbufs]
        BY <2>2, <3>3, <4>2, Zenon DEF Init
      <4> QED BY <4>3, PortsAssumption
    <3> QED BY <3>2, <3>3
  <2>3. posted \in [Rings -> Seq(Mbufs)]
    BY <2>2 DEF Init
  <2>4. i \in [Workers -> 1..setup.ports]
    BY <2>1, SetupsAssumption DEF Init
  <2>5. /\ setup \in Setups /\ rx = [r \in Rings |-> << >>] /\ tail = [r \in Rings |-> 0]
        /\ content = [m \in Mbufs |-> NoPkt] /\ burst = [w \in Workers |-> << >>]
        /\ base = [w \in Workers |-> 0] /\ pc = [w \in Workers |-> "top"]
        /\ tables = [f \in Flows |-> {}]
    BY DEF Init
  <2> QED BY <2>3, <2>4, <2>5 DEF Types
<1>2. RingsOwned
  BY DEF Init, RingsOwned, ReadInRing, ReadIsNext
<1>3. FlowsInPlace
  BY DEF Init, FlowsInPlace, Waiting, Range
<1> QED BY <1>1, <1>2, <1>3 DEF FlowInv

-----------------------------------------------------------------------------
(* Steps                                                                   *)

LEMMA NextPortStep ==
  ASSUME Types, NEW w \in Workers, NextPort(w)
  PROVE  /\ i' \in [Workers -> 1..setup.ports] /\ pc' = [v \in Workers |-> pc'[v]]
         /\ pc'[w] \in {"poll", "top"} /\ \A v \in Workers \ {w} : pc'[v] = pc[v] /\ i'[v] = i[v]
<1>1. setup.ports \in Nat /\ i[w] \in 1..setup.ports /\ setup.ports >= 1
  BY SetupsAssumption, PortsAssumption DEF Types
<1>2. CASE i[w] < setup.ports
  <2>1. i' = [i EXCEPT ![w] = i[w] + 1] /\ pc' = [pc EXCEPT ![w] = "poll"]
    BY <1>2 DEF NextPort, Goto
  <2>2. i[w] + 1 \in 1..setup.ports
    BY <1>1, <1>2
  <2> QED BY <2>1, <2>2 DEF Types
<1>3. CASE ~(i[w] < setup.ports)
  <2>1. i' = [i EXCEPT ![w] = 1] /\ pc' = [pc EXCEPT ![w] = "top"]
    BY <1>3 DEF NextPort, Goto
  <2>2. 1 \in 1..setup.ports
    BY <1>1
  <2> QED BY <2>1, <2>2 DEF Types
<1> QED BY <1>2, <1>3

\* Steps that leave the queues and the bursts alone.
LEMMA QuietStep ==
  ASSUME FlowInv,
         UNCHANGED << setup, posted, rx, tail, content, burst, base, tables, overwritten >>,
         i' \in [Workers -> 1..setup.ports], pc' = [w \in Workers |-> pc'[w]],
         \A w \in Workers : pc'[w] \in {"advance", "packet", "actions"} => pc'[w] = pc[w] /\ i'[w] = i[w]
  PROVE  FlowInv'
<1>1. Types'
  BY DEF FlowInv, Types, Mbufs
<1>2. RingsOwned'
  <2>0. Scaled' = Scaled
    BY DEF Scaled, Configured
  <2>1. \A r \in Rings : tail'[r] <= Len(rx'[r])
    BY DEF FlowInv, RingsOwned
  <2>2. ASSUME NEW w \in Workers PROVE ReadInRing(w)' /\ ReadIsNext(w)'
    BY <2>0 DEF FlowInv, RingsOwned, ReadInRing, ReadIsNext, Ring, QueueId, Configured
  <2> QED BY <2>1, <2>2 DEF RingsOwned
<1>3. (Scaled /\ ~overwritten => FlowsInPlace)'
  BY DEF FlowInv, Scaled, Configured, FlowsInPlace, Waiting, QueueId
<1> QED BY <1>1, <1>2, <1>3 DEF FlowInv

\* A buffer is filled: the packets that were in place still are, since the
\* buffer was none of theirs, and the new one is in the queue of its flow.
LEMMA ReceiveStep ==
  ASSUME FlowInv, NEW p \in PortSet, NEW f \in Flows, NicReceive(p, f)
  PROVE  FlowInv'
<1> DEFINE r == << p, RxQueue(f, p) >>
           m == Head(posted[r])
           packet == [id |-> arrived + 1, flow |-> f]
<1>1. Types /\ setup' = setup /\ tail' = tail /\ burst' = burst /\ base' = base /\ i' = i /\ pc' = pc
      /\ tables' = tables /\ Mbufs' = Mbufs
  BY DEF FlowInv, NicReceive, main, worker, Mbufs
<1>2. /\ posted[r] # << >> /\ rx' = [rx EXCEPT ![r] = Append(@, m)] /\ posted' = [posted EXCEPT ![r] = Tail(@)]
      /\ content' = [content EXCEPT ![m] = packet]
      /\ overwritten' = (overwritten \/ Unread(m))
  BY DEF NicReceive
<1>3. p \in Range(Ports)
  BY <1>1, PortsInRange
<1>4. RxQueue(f, p) \in Queues
  <2>1. Hash[f] \in Nat /\ NumWorkers \in Nat \ {0}
    BY SetupsAssumption, PortsAssumption
  <2>2. Hash[f] % NumWorkers \in 0..(NumWorkers - 1) /\ 0 \in 0..(NumWorkers - 1)
    BY <2>1
  <2> QED BY <2>2 DEF RxQueue, Queues
<1>5. r \in Rings
  BY <1>3, <1>4 DEF Rings
<1>6. m \in Mbufs /\ posted[r] \in Seq(Mbufs) /\ rx[r] \in Seq(Mbufs) /\ Tail(posted[r]) \in Seq(Mbufs)
  BY <1>1, <1>2, <1>5 DEF Types
<1> HIDE DEF r, m, packet
<1>7. Append(rx[r], m) \in Seq(Mbufs) /\ Len(Append(rx[r], m)) = Len(rx[r]) + 1
      /\ \A k \in 1..Len(rx[r]) : Append(rx[r], m)[k] = rx[r][k]
      /\ Append(rx[r], m)[Len(rx[r]) + 1] = m
  BY <1>6
<1>8. Types'
  BY <1>1, <1>2, <1>6, <1>7 DEF Types
<1>9. RingsOwned'
  <2>0. Scaled' = Scaled
    BY <1>1 DEF Scaled, Configured
  <2>1. RingsOwned /\ \A q \in Rings : tail[q] \in Nat /\ Len(rx[q]) \in Nat /\ Len(rx'[q]) \in Nat /\ Len(rx'[q]) >= Len(rx[q])
    BY <1>1, <1>2, <1>5, <1>6, <1>7, <1>8 DEF FlowInv, Types
  <2>2. \A q \in Rings : tail'[q] <= Len(rx'[q])
    BY <1>1, <2>1 DEF RingsOwned
  <2>3. ASSUME NEW w \in Workers PROVE ReadInRing(w)' /\ ReadIsNext(w)'
    <3>1. Ring(w) \in Rings /\ Ring(w)' = Ring(w)
      BY <1>1, OwnRing DEF Ring, QueueId, Configured
    <3>2. base[w] \in Nat /\ Len(burst[w]) \in Nat
      BY <1>1 DEF Types
    <3>3. ReadInRing(w) /\ ReadIsNext(w)
      BY <2>1 DEF RingsOwned
    <3> QED BY <1>1, <2>0, <2>1, <3>1, <3>2, <3>3 DEF ReadInRing, ReadIsNext
  <2> QED BY <2>2, <2>3 DEF RingsOwned
<1>10. (Scaled /\ ~overwritten => FlowsInPlace)'
  <2> SUFFICES ASSUME Scaled, ~overwritten' PROVE FlowsInPlace'
    BY <1>1 DEF Scaled, Configured
  <2>1. FlowsInPlace /\ RingsOwned /\ ~Unread(m)
    BY <1>2 DEF FlowInv
  <2>2. \A n \in Mbufs \ {m} : content'[n] = content[n]
    BY <1>1, <1>2 DEF Types
  <2>3. content'[m].flow = f /\ QueueOf(f) = r[2]
    BY <1>1, <1>2, <1>6 DEF Types, packet, Scaled, RxQueue, QueueOf, r
  <2>4. ASSUME NEW q \in Rings, NEW k \in (tail[q] + 1)..Len(rx'[q]) PROVE QueueOf(content'[rx'[q][k]].flow) = q[2]
    <3>1. tail[q] \in Nat /\ Len(rx[q]) \in Nat
      BY <1>1 DEF Types
    <3>2. CASE k \in 1..Len(rx[q])
      <4>1. rx'[q][k] = rx[q][k]
        BY <1>1, <1>2, <1>5, <1>7, <3>2 DEF Types
      <4>2. rx[q][k] \in Waiting(q)
        BY <2>4, <3>1, <3>2 DEF Waiting
      <4>3. rx[q][k] \in Mbufs \ {m}
        BY <1>1, <2>1, <3>2, <4>2 DEF Types, Unread
      <4> QED BY <2>1, <2>2, <4>1, <4>2, <4>3 DEF FlowsInPlace
    <3>3. CASE k \notin 1..Len(rx[q])
      <4>1. q = r
        BY <1>1, <1>2, <3>1, <3>3, <2>4 DEF Types
      <4>2. k = Len(rx[r]) + 1
        BY <1>1, <1>2, <1>5, <1>7, <3>1, <3>3, <2>4, <4>1 DEF Types
      <4>3. rx'[q][k] = m
        BY <1>1, <1>2, <1>5, <1>7, <4>1, <4>2 DEF Types
      <4> QED BY <2>3, <4>1, <4>3
    <3> QED BY <3>2, <3>3
  <2>5. \A q \in Rings : \A n \in Waiting(q)' : QueueOf(content'[n].flow) = q[2]
    BY <1>1, <2>4 DEF Waiting
  <2>6. \A w \in Workers : \A n \in Range(burst[w]) : n \in Mbufs \ {m}
    BY <1>1, <2>1 DEF Types, Unread, Range
  <2>7. \A w \in Workers : \A n \in Range(burst'[w]) : QueueOf(content'[n].flow) = QueueId(w)'
    BY <1>1, <2>1, <2>2, <2>6 DEF FlowsInPlace, QueueId, Configured
  <2>8. \A g \in Flows : \A w \in tables'[g] : w \in Workers /\ QueueOf(g) = QueueId(w)'
    BY <1>1, <2>1 DEF FlowsInPlace, QueueId, Configured
  <2> QED BY <2>5, <2>7, <2>8 DEF FlowsInPlace, QueueOf
<1> QED BY <1>8, <1>9, <1>10 DEF FlowInv

LEMMA Slice ==
  ASSUME NEW S, NEW s \in Seq(S), NEW t \in Nat, NEW n \in Int, t + n <= Len(s)
  PROVE  /\ SubSeq(s, t + 1, t + n) \in Seq(S)
         /\ Len(SubSeq(s, t + 1, t + n)) = IF n >= 1 THEN n ELSE 0
         /\ \A k \in 1..n : SubSeq(s, t + 1, t + n)[k] = s[t + k]
<1> DEFINE g == SubSeq(s, t + 1, t + n)
<1>1. \A k \in (t + 1)..(t + n) : s[k] \in S
  OBVIOUS
<1>2. t + 1 \in Int /\ t + n \in Int
  OBVIOUS
<1>3. /\ g \in Seq(S)
      /\ Len(g) = IF t + 1 <= t + n THEN (t + n) - (t + 1) + 1 ELSE 0
      /\ \A k \in 1..((t + n) - (t + 1) + 1) : g[k] = s[t + 1 + k - 1]
  BY <1>1, <1>2, SubSeqProperties
<1> HIDE DEF g
<1>4. (t + 1 <= t + n) = (n >= 1) /\ (t + n) - (t + 1) + 1 = n
  OBVIOUS
<1>5. Len(g) = IF n >= 1 THEN n ELSE 0
  BY <1>3, <1>4
<1>6. \A k \in 1..n : g[k] = s[t + k]
  <2> TAKE k \in 1..n
  <2>1. g[k] = s[t + 1 + k - 1] /\ t + 1 + k - 1 = t + k
    BY <1>3, <1>4
  <2> QED BY <2>1
<1> QED BY <1>3, <1>5, <1>6 DEF g

\* What a worker reads is what waits in its queue; it has not moved the ring yet.
LEMMA ReadStep == ASSUME FlowInv, NEW w \in Workers, RxRead(w) PROVE FlowInv'
<1> DEFINE q == Ring(w)
           n == IF Pending(q) < MaxPktBurst THEN Pending(q) ELSE MaxPktBurst
<1>1. Types
  BY DEF FlowInv
<1>2. CASE n = 0
  <2>1. NextPort(w) /\ UNCHANGED << base, burst >> /\ UNCHANGED << main, dev, tables, sends, pool >>
    BY <1>2 DEF RxRead
  <2>2. /\ i' \in [Workers -> 1..setup.ports] /\ pc' = [v \in Workers |-> pc'[v]]
        /\ \A v \in Workers : pc'[v] \in {"advance", "packet", "actions"} => pc'[v] = pc[v] /\ i'[v] = i[v]
    BY <1>1, <2>1, NextPortStep
  <2> QED BY <2>1, <2>2, QuietStep DEF main, dev
<1>3. CASE n # 0
  <2>1. /\ base' = [base EXCEPT ![w] = tail[q]]
        /\ burst' = [burst EXCEPT ![w] = SubSeq(rx[q], tail[q] + 1, tail[q] + n)]
        /\ pc' = [pc EXCEPT ![w] = "advance"] /\ i' = i
        /\ setup' = setup /\ posted' = posted /\ rx' = rx /\ tail' = tail /\ content' = content
        /\ tables' = tables /\ overwritten' = overwritten
    BY <1>3 DEF RxRead, Goto, main, dev
  <2>2. q \in Rings /\ rx[q] \in Seq(Mbufs) /\ tail[q] \in Nat
    BY <1>1, OwnRing DEF Types
  <2>3. n \in Int /\ n <= Len(rx[q]) - tail[q] /\ (Len(rx[q]) >= tail[q] => n >= 1)
    BY <1>3, <2>2, PortsAssumption DEF Pending
  <2> HIDE DEF q, n
  <2> DEFINE got == SubSeq(rx[q], tail[q] + 1, tail[q] + n)
  <2>4. got \in Seq(Mbufs) /\ Len(got) = (IF n >= 1 THEN n ELSE 0)
        /\ \A k \in 1..Len(got) : got[k] = rx[q][tail[q] + k]
    <3>1. tail[q] + n <= Len(rx[q])
      BY <2>2, <2>3
    <3>2. /\ got \in Seq(Mbufs) /\ Len(got) = (IF n >= 1 THEN n ELSE 0)
          /\ \A k \in 1..n : got[k] = rx[q][tail[q] + k]
      <4>1. /\ SubSeq(rx[q], tail[q] + 1, tail[q] + n) \in Seq(Mbufs)
            /\ Len(SubSeq(rx[q], tail[q] + 1, tail[q] + n)) = (IF n >= 1 THEN n ELSE 0)
            /\ \A k \in 1..n : SubSeq(rx[q], tail[q] + 1, tail[q] + n)[k] = rx[q][tail[q] + k]
        <5>1. rx[q] \in Seq(Mbufs) /\ tail[q] \in Nat /\ n \in Int
          BY <2>2, <2>3
        <5> QED BY ONLY <5>1, <3>1, Slice, Zenon
      <4> QED BY <4>1
    <3> QED BY <2>3, <3>2
  <2> HIDE DEF got
  <2>5. Types'
    BY <1>1, <2>1, <2>2, <2>4 DEF Types, Mbufs, got
  <2>6. RingsOwned'
    <3>0. Scaled' = Scaled
      BY <2>1 DEF Scaled, Configured
    <3>1. RingsOwned
      BY DEF FlowInv
    <3>2. tail[q] <= Len(rx[q])
      BY <2>2, <3>1 DEF RingsOwned
    <3>3. ASSUME NEW v \in Workers PROVE ReadInRing(v)' /\ ReadIsNext(v)'
      <4>1. Ring(v)' = Ring(v)
        BY <2>1 DEF Ring, QueueId, Configured
      <4>2. CASE v = w
        <5>1. pc'[v] = "advance" /\ burst'[v] = got /\ base'[v] = tail[q]
          BY <1>1, <2>1, <4>2 DEF Types, got
        <5>2. Len(got) >= 1 /\ tail[q] + Len(got) <= Len(rx[q])
          BY <2>2, <2>3, <2>4, <3>2
        <5>3. Ring(v)' = q /\ Len(burst'[v]) >= 1 /\ burst'[v] # << >>
          BY <2>4, <4>1, <4>2, <5>1, <5>2 DEF q
        <5> QED BY <2>1, <5>1, <5>2, <5>3 DEF ReadInRing, ReadIsNext
      <4>3. CASE v # w
        BY <1>1, <2>1, <3>0, <3>1, <4>1, <4>3 DEF Types, RingsOwned, ReadInRing, ReadIsNext
      <4> QED BY <4>2, <4>3
    <3> QED BY <2>1, <3>1, <3>3 DEF RingsOwned
  <2>7. (Scaled /\ ~overwritten => FlowsInPlace)'
    <3> SUFFICES ASSUME Scaled, ~overwritten PROVE FlowsInPlace'
      BY <2>1 DEF Scaled, Configured
    <3>1. FlowsInPlace
      BY DEF FlowInv
    <3>2. \A m \in Range(got) : m \in Waiting(q)
      <4>1. \A k \in DOMAIN got : k \in Nat /\ got[k] = rx[q][tail[q] + k] /\ tail[q] + k \in (tail[q] + 1)..Len(rx[q])
        BY <2>2, <2>3, <2>4
      <4> QED BY <4>1 DEF Waiting, Range
    <3>3. q[2] = QueueId(w)
      BY DEF q, Ring
    <3>4. \A v \in Workers : \A m \in Range(burst'[v]) : QueueOf(content[m].flow) = QueueId(v)
      BY <1>1, <2>1, <2>2, <3>1, <3>2, <3>3 DEF Types, FlowsInPlace, got
    <3> QED BY <2>1, <3>1, <3>4 DEF FlowsInPlace, Waiting, QueueId, Configured, QueueOf
  <2> QED BY <2>5, <2>6, <2>7 DEF FlowInv
<1> QED BY <1>2, <1>3

\* The ring is advanced over what was read, which is still what comes next: no
\* other worker moves it.
LEMMA AdvanceStep == ASSUME FlowInv, NEW w \in Workers, RxAdvance(w) PROVE FlowInv'
<1> DEFINE q == Ring(w)
           free == {m \in Mbufs : pool[m] > 0}
           n == IF Cardinality(free) < Len(burst[w]) THEN Cardinality(free) ELSE Len(burst[w])
<1>1. Types
  BY DEF FlowInv
<1>2. /\ tail' = [tail EXCEPT ![q] = base[w] + Len(burst[w])]
      /\ base' = [base EXCEPT ![w] = 0] /\ pc' = [pc EXCEPT ![w] = "packet"]
      /\ setup' = setup /\ rx' = rx /\ content' = content /\ tables' = tables
      /\ overwritten' = overwritten /\ i' = i /\ burst' = burst /\ pc[w] = "advance"
  BY DEF RxAdvance, Goto, At, main
<1>3. PICK new \in [1..n -> free] : posted' = [posted EXCEPT ![q] = @ \o new]
  BY DEF RxAdvance
<1>4. q \in Rings /\ posted[q] \in Seq(Mbufs)
  BY <1>1, OwnRing DEF Types
<1>5. n \in Nat
  <2>1. setup.ports \in Nat /\ MbufsPerPort \in Nat /\ setup.ports * MbufsPerPort \in Nat
    BY <1>1, PortsAssumption, SetupsAssumption DEF Types
  <2>2. IsFiniteSet(Mbufs)
    BY <2>1, FS_Interval DEF Mbufs
  <2>3. IsFiniteSet(free)
    BY <2>2, FS_Subset
  <2>4. Cardinality(free) \in Nat /\ Len(burst[w]) \in Nat
    BY <1>1, <2>3, FS_CardinalityType DEF Types
  <2> QED BY <2>4
<1>6. new \in Seq(Mbufs)
  <2>1. new \in [1..n -> Mbufs]
    BY <1>3
  <2> HIDE DEF n
  <2> QED BY <1>5, <2>1
<1> HIDE DEF q, n, free
<1>7. Types'
  <2>1. posted[q] \o new \in Seq(Mbufs)
    BY <1>4, <1>6
  <2>2. posted' \in [Rings -> Seq(Mbufs)]
    BY <1>1, <1>3, <2>1 DEF Types
  <2>3. base[w] + Len(burst[w]) \in Nat
    BY <1>1 DEF Types
  <2> QED BY <1>1, <1>2, <2>2, <2>3 DEF Types, Mbufs
<1>8. RingsOwned' /\ (Scaled => \A r \in Rings : Waiting(r)' \subseteq Waiting(r))
  <2>0. Scaled' = Scaled
    BY <1>2 DEF Scaled, Configured
  <2>1. RingsOwned
    BY DEF FlowInv
  <2>2. burst[w] # << >> /\ base[w] + Len(burst[w]) <= Len(rx[q]) /\ (Scaled => base[w] = tail[q])
    BY <1>2, <2>1 DEF RingsOwned, ReadInRing, ReadIsNext, q
  <2>3. \A r \in Rings : /\ tail'[r] \in Nat /\ tail[r] \in Nat /\ Len(rx[r]) \in Nat
                         /\ tail'[r] <= Len(rx[r]) /\ (Scaled => tail[r] <= tail'[r])
    <3>1. base[w] \in Nat /\ Len(burst[w]) \in Nat
      BY <1>1 DEF Types
    <3> QED BY <1>1, <1>2, <1>4, <1>7, <2>1, <2>2, <3>1 DEF Types, RingsOwned
  <2>4. ASSUME NEW v \in Workers PROVE ReadInRing(v)' /\ ReadIsNext(v)'
    <3>1. Ring(v)' = Ring(v) /\ Ring(v) \in Rings /\ ReadInRing(v) /\ ReadIsNext(v)
      BY <1>1, <1>2, <2>1, OwnRing DEF Ring, QueueId, Configured, RingsOwned
    <3>2. CASE v = w
      BY <1>1, <1>2, <2>2, <3>2 DEF Types, ReadInRing, ReadIsNext
    <3>3. CASE v # w
      <4>1. Scaled => Ring(v) # q
        BY <1>1, <3>3, OwnQueue DEF Ring, q
      <4>2. pc'[v] = pc[v] /\ base'[v] = base[v] /\ burst'[v] = burst[v] /\ (Scaled => tail'[Ring(v)] = tail[Ring(v)])
        BY <1>1, <1>2, <3>1, <3>3, <4>1 DEF Types
      <4> QED BY <1>2, <2>0, <3>1, <4>2 DEF ReadInRing, ReadIsNext
    <3> QED BY <3>2, <3>3
  <2>5. Scaled => \A r \in Rings : Waiting(r)' \subseteq Waiting(r)
    BY <1>2, <2>3 DEF Waiting
  <2> QED BY <1>2, <2>3, <2>4, <2>5 DEF RingsOwned
<1>9. (Scaled /\ ~overwritten => FlowsInPlace)'
  <2> SUFFICES ASSUME Scaled, ~overwritten PROVE FlowsInPlace'
    BY <1>2 DEF Scaled, Configured
  <2>1. FlowsInPlace /\ \A r \in Rings : Waiting(r)' \subseteq Waiting(r)
    BY <1>8 DEF FlowInv
  <2> QED BY <1>2, <2>1 DEF FlowsInPlace, QueueId, Configured, QueueOf
<1> QED BY <1>7, <1>8, <1>9 DEF FlowInv

\* The packet at the head of the burst is of a flow of the worker's queue.
LEMMA LookupStep == ASSUME FlowInv, NEW w \in Workers, Lookup(w) PROVE FlowInv'
<1> DEFINE f == content[Head(burst[w])].flow
<1>1. /\ tables' = [tables EXCEPT ![f] = @ \cup {w}] /\ pc' = [pc EXCEPT ![w] = "actions"]
      /\ setup' = setup /\ posted' = posted /\ rx' = rx /\ tail' = tail /\ content' = content
      /\ burst' = burst /\ base' = base /\ i' = i /\ overwritten' = overwritten /\ pc[w] = "packet"
  BY DEF Lookup, Goto, At, main, dev
<1>2. Types
  BY DEF FlowInv
<1> HIDE DEF f
<1>3. Types'
  BY <1>1, <1>2 DEF Types, Mbufs
<1>4. RingsOwned'
  <2>0. Scaled' = Scaled
    BY <1>1 DEF Scaled, Configured
  <2>1. RingsOwned
    BY DEF FlowInv
  <2>2. \A v \in Workers : ReadInRing(v)' /\ ReadIsNext(v)'
    BY <1>1, <1>2, <2>0, <2>1 DEF Types, RingsOwned, ReadInRing, ReadIsNext, Ring, QueueId, Configured
  <2> QED BY <1>1, <2>1, <2>2 DEF RingsOwned
<1>5. (Scaled /\ ~overwritten => FlowsInPlace)'
  <2> SUFFICES ASSUME Scaled, ~overwritten PROVE FlowsInPlace'
    BY <1>1 DEF Scaled, Configured
  <2>1. FlowsInPlace /\ burst[w] # << >>
    BY <1>1 DEF FlowInv, RingsOwned, ReadInRing
  <2>2. Head(burst[w]) \in Range(burst[w])
    BY <1>2, <2>1 DEF Types, Range
  <2>3. QueueOf(f) = QueueId(w)
    BY <2>1, <2>2 DEF FlowsInPlace, f
  <2>4. \A g \in Flows : \A v \in tables'[g] : v \in Workers /\ QueueOf(g) = QueueId(v)
    BY <1>1, <1>2, <2>1, <2>3 DEF Types, FlowsInPlace
  <2> QED BY <1>1, <2>1, <2>4 DEF FlowsInPlace, Waiting, QueueId, Configured, QueueOf
<1> QED BY <1>3, <1>4, <1>5 DEF FlowInv

LEMMA FreeStep == ASSUME FlowInv, NEW w \in Workers, FreePacket(w) PROVE FlowInv'
<1>1. /\ burst' = [burst EXCEPT ![w] = Tail(@)]
      /\ IF burst'[w] = << >> THEN NextPort(w) ELSE pc' = [pc EXCEPT ![w] = "packet"] /\ i' = i
      /\ setup' = setup /\ posted' = posted /\ rx' = rx /\ tail' = tail /\ content' = content
      /\ tables' = tables /\ base' = base /\ overwritten' = overwritten /\ pc[w] = "actions"
  BY DEF FreePacket, NextInBurst, Goto, At, main, dev
<1>2. Types
  BY DEF FlowInv
<1>3. burst[w] # << >> /\ RingsOwned
  BY <1>1 DEF FlowInv, RingsOwned, ReadInRing
<1>4. /\ i' \in [Workers -> 1..setup.ports] /\ pc' = [v \in Workers |-> pc'[v]]
      /\ \A v \in Workers \ {w} : pc'[v] = pc[v] /\ i'[v] = i[v]
      /\ pc'[w] # "advance" /\ (pc'[w] \in {"packet", "actions"} => burst'[w] # << >>)
  <2>1. CASE burst'[w] = << >>
    BY <1>1, <1>2, <2>1, NextPortStep
  <2>2. CASE burst'[w] # << >>
    BY <1>1, <1>2, <2>2 DEF Types
  <2> QED BY <2>1, <2>2
<1>5. Tail(burst[w]) \in Seq(Mbufs) /\ Range(Tail(burst[w])) \subseteq Range(burst[w])
  <2>1. burst[w] \in Seq(Mbufs)
    BY <1>2 DEF Types
  <2> QED BY <1>3, <2>1 DEF Range
<1>6. Types'
  BY <1>1, <1>2, <1>4, <1>5 DEF Types, Mbufs
<1>7. RingsOwned'
  <2>0. Scaled' = Scaled
    BY <1>1 DEF Scaled, Configured
  <2>1. ASSUME NEW v \in Workers PROVE ReadInRing(v)' /\ ReadIsNext(v)'
    <3>1. CASE v = w
      BY <1>4, <3>1 DEF ReadInRing, ReadIsNext
    <3>2. CASE v # w
      <4>1. pc'[v] = pc[v] /\ i'[v] = i[v] /\ burst'[v] = burst[v]
        BY <1>1, <1>2, <1>4, <3>2 DEF Types
      <4>2. Ring(v)' = Ring(v)
        BY <1>1, <4>1 DEF Ring, QueueId, Configured
      <4> QED BY <1>1, <1>3, <2>0, <4>1, <4>2 DEF RingsOwned, ReadInRing, ReadIsNext
    <3> QED BY <3>1, <3>2
  <2> QED BY <1>1, <1>3, <2>1 DEF RingsOwned
<1>8. (Scaled /\ ~overwritten => FlowsInPlace)'
  <2> SUFFICES ASSUME Scaled, ~overwritten PROVE FlowsInPlace'
    BY <1>1 DEF Scaled, Configured
  <2>1. FlowsInPlace
    BY DEF FlowInv
  <2>2. \A v \in Workers : Range(burst'[v]) \subseteq Range(burst[v])
    BY <1>1, <1>2, <1>5 DEF Types
  <2> QED BY <1>1, <2>1, <2>2 DEF FlowsInPlace, Waiting, QueueId, Configured, QueueOf
<1> QED BY <1>6, <1>7, <1>8 DEF FlowInv

-----------------------------------------------------------------------------
\* The invariant holds along every behaviour.
THEOREM FlowsStayInPlace == Spec => []FlowInv
<1>1. FlowInv /\ [Next]_vars => FlowInv'
  <2> SUFFICES ASSUME FlowInv, [Next]_vars PROVE FlowInv'
    OBVIOUS
  <2>0. i \in [Workers -> 1..setup.ports] /\ pc = [w \in Workers |-> pc[w]]
    BY DEF FlowInv, Types
  <2>1. ASSUME NEW p \in PortSet, NicTransmit(p) PROVE FlowInv'
    BY <2>0, <2>1, QuietStep DEF NicTransmit, main, worker
  <2>2. ASSUME NEW w \in Workers, Top(w) PROVE FlowInv'
    <3>1. pc' = [v \in Workers |-> pc'[v]] /\ \A v \in Workers : pc'[v] = pc[v] \/ pc'[v] \in {"left", "poll"}
      BY <2>0, <2>2 DEF Top, Goto
    <3> QED BY <2>0, <2>2, <3>1, QuietStep DEF Top, main, dev, Crash
  <2>3. ASSUME NEW w \in Workers, NEW p \in PortSet, Send(w, p) PROVE FlowInv'
    BY <2>0, <2>3, QuietStep DEF Send, main, Crash
  <2>4. CASE Signal
    BY <2>0, <2>4, QuietStep DEF Signal, dev, worker
  <2>5. CASE ClosePort
    BY <2>0, <2>5, QuietStep DEF ClosePort, dev, worker
  <2>6. CASE UNCHANGED vars
    BY <2>0, <2>6, QuietStep DEF vars, main, dev, worker
  <2>7. ASSUME NEW w \in Workers, Work(w) PROVE FlowInv'
    BY <2>2, <2>7, ReadStep, AdvanceStep, LookupStep, FreeStep DEF Work
  <2> QED BY <2>1, <2>3, <2>4, <2>5, <2>6, <2>7, ReceiveStep DEF Next
<1> QED BY <1>1, InitFlow, PTL DEF Spec

\* Under receive-side scaling, the packets of a flow, of both directions and
\* from every port, reach one worker's table only.
THEOREM FlowHasOneTable == Spec => []OneTablePerFlow
<1>1. FlowInv => OneTablePerFlow
  <2> SUFFICES ASSUME FlowInv, Scaled, ~overwritten, NEW f \in Flows PROVE Cardinality(tables[f]) <= 1
    BY DEF OneTablePerFlow
  <2>1. \A v, w \in tables[f] : v = w
    BY OwnQueue DEF FlowInv, FlowsInPlace
  <2>2. CASE tables[f] = {}
    BY <2>2, FS_EmptySet
  <2>3. CASE tables[f] # {}
    <3>1. PICK w \in tables[f] : tables[f] = {w}
      BY <2>1, <2>3
    <3>2. Cardinality({w}) = 1
      BY ONLY FS_Singleton
    <3> QED BY ONLY <3>1, <3>2
  <2> QED BY <2>2, <2>3
<1> QED BY <1>1, FlowsStayInPlace, PTL

-----------------------------------------------------------------------------
(* No buffer is lost                                                       *)
(*                                                                         *)
(* Several lcores may poll one queue, read the same burst and take the     *)
(* ring back over what another has taken since.  What waits in the ring    *)
(* beyond the furthest point H[r] it was ever advanced to is in nobody's   *)
(* hands; what was taken before is, or was given back.  Kept says so.      *)

Kept(m, H) ==
  \/ pool[m] > 0
  \/ \E r \in Rings : m \in Range(posted[r])
  \/ \E r \in Rings : \E k \in (H[r] + 1)..Len(rx[r]) : rx[r][k] = m
  \/ \E p \in Range(Ports) : m \in Range(done[p])
  \/ \E p \in Range(Ports) : \E d \in DOMAIN tx[p] : tx[p][d].mbuf = m
  \/ \E w \in Workers : pc[w] \in {"packet", "actions"} /\ m \in Range(burst[w])

\* A worker that is to advance the ring has read it from no further than H.
ReadFrom(w, H) ==
  /\ pc[w] = "advance" =>
       /\ base[w] <= H[Ring(w)] /\ base[w] + Len(burst[w]) <= Len(rx[Ring(w)])
       /\ \A k \in 1..Len(burst[w]) : burst[w][k] = rx[Ring(w)][base[w] + k]
  /\ pc[w] \in {"top", "poll", "left"} => burst[w] = << >>

Furthest(H) == \A r \in Rings : tail[r] <= H[r] /\ H[r] <= Len(rx[r])

BufferInv(H) == /\ Furthest(H) /\ (\A w \in Workers : ReadFrom(w, H))
                /\ \A m \in Mbufs : Kept(m, H)

Packets == [id : Nat, flow : Flows] \cup {NoPkt}
BufferTypes == /\ pool \in [Mbufs -> Nat] /\ arrived \in Nat /\ content \in [Mbufs -> Packets]
               /\ done \in [Range(Ports) -> Seq(Mbufs)]
               /\ tx \in [Range(Ports) -> Seq([mbuf : Mbufs, packet : Packets])]

-----------------------------------------------------------------------------
(* Sequences of buffers                                                    *)

LEMMA HeadOrTail ==
  ASSUME NEW S, NEW s \in Seq(S), s # << >>, NEW x \in Range(s)
  PROVE  x = Head(s) \/ x \in Range(Tail(s))
<1>1. PICK k \in DOMAIN s : s[k] = x
  BY DEF Range
<1>2. k \in 1..Len(s) /\ Len(s) \in Nat
  BY <1>1
<1>3. CASE k = 1
  BY <1>1, <1>3
<1>4. CASE k # 1
  <2>1. k - 1 \in DOMAIN Tail(s) /\ Tail(s)[k - 1] = s[k]
    BY <1>2, <1>4
  <2> QED BY <1>1, <2>1 DEF Range
<1> QED BY <1>3, <1>4

LEMMA HeadAndTail ==
  ASSUME NEW S, NEW s \in Seq(S), s # << >>
  PROVE  Head(s) \in S /\ Tail(s) \in Seq(S)
OBVIOUS

LEMMA Appended ==
  ASSUME NEW S, NEW s \in Seq(S), NEW x \in S
  PROVE  Append(s, x) \in Seq(S) /\ x \in Range(Append(s, x)) /\ Range(s) \subseteq Range(Append(s, x))
<1>1. /\ Append(s, x) \in Seq(S) /\ Len(s) \in Nat /\ DOMAIN s = 1..Len(s)
      /\ DOMAIN Append(s, x) = 1..(Len(s) + 1)
      /\ Append(s, x)[Len(s) + 1] = x /\ \A k \in 1..Len(s) : Append(s, x)[k] = s[k]
  OBVIOUS
<1>2. Len(s) + 1 \in DOMAIN Append(s, x) /\ DOMAIN s \subseteq DOMAIN Append(s, x)
  BY <1>1
<1> QED BY <1>1, <1>2 DEF Range

LEMMA Joined ==
  ASSUME NEW S, NEW s \in Seq(S), NEW t \in Seq(S)
  PROVE  Range(s) \subseteq Range(s \o t) /\ Range(t) \subseteq Range(s \o t)
<1>1. /\ Len(s) \in Nat /\ Len(t) \in Nat /\ DOMAIN s = 1..Len(s) /\ DOMAIN t = 1..Len(t)
      /\ DOMAIN (s \o t) = 1..(Len(s) + Len(t))
      /\ \A k \in 1..Len(s) : (s \o t)[k] = s[k]
      /\ \A k \in 1..Len(t) : (s \o t)[Len(s) + k] = t[k]
  OBVIOUS
<1>2. \A k \in 1..Len(s) : k \in DOMAIN (s \o t)
  BY <1>1
<1>3. \A k \in 1..Len(t) : Len(s) + k \in DOMAIN (s \o t)
  BY <1>1
<1>4. Range(s) \subseteq Range(s \o t)
  BY <1>1, <1>2 DEF Range
<1>5. Range(t) \subseteq Range(s \o t)
  BY <1>1, <1>3 DEF Range
<1> QED BY <1>4, <1>5

LEMMA Division ==
  ASSUME NEW x \in Nat, NEW b \in Nat \ {0}
  PROVE  x \div b \in Nat /\ x % b \in 0..(b - 1) /\ x = (x \div b) * b + (x % b)
OBVIOUS

LEMMA Quotient ==
  ASSUME NEW k \in Nat, NEW d \in Nat, NEW b \in Nat \ {0}, NEW n \in Nat, k * b + d < n * b
  PROVE  k < n
<1> SUFFICES ASSUME n <= k PROVE FALSE
  OBVIOUS
<1>1. n * b <= k * b
  OBVIOUS
<1> QED BY <1>1

\* How often a buffer is in a sequence.
LEMMA Occurrences ==
  ASSUME NEW S, NEW s \in Seq(S), NEW x
  PROVE  /\ Cardinality({a \in DOMAIN s : s[a] = x}) \in Nat
         /\ x \in Range(s) => Cardinality({a \in DOMAIN s : s[a] = x}) > 0
<1> DEFINE O == {a \in DOMAIN s : s[a] = x}
<1>1. DOMAIN s = 1..Len(s) /\ Len(s) \in Nat
  OBVIOUS
<1>2. IsFiniteSet(1..Len(s))
  BY <1>1, FS_Interval
<1>3. O \subseteq 1..Len(s)
  BY <1>1
<1>4. IsFiniteSet(O)
  BY ONLY <1>2, <1>3, FS_Subset
<1>5. Cardinality(O) \in Nat /\ (Cardinality(O) = 0 <=> O = {})
  BY ONLY <1>4, FS_CardinalityType, FS_EmptySet
<1>6. x \in Range(s) => O # {}
  BY DEF Range
<1> QED BY <1>5, <1>6

\* A buffer that is taken at most once, and by nobody if it is not chosen.
LEMMA TakenOnce ==
  ASSUME NEW n \in Nat, NEW S, NEW new \in [1..n -> S], NEW x,
         \A a, b \in 1..n : a # b => new[a] # new[b]
  PROVE  LET c == Cardinality({a \in 1..n : new[a] = x})
         IN  c \in {0, 1} /\ (c = 1 => x \in Range(new))
<1> DEFINE O == {a \in 1..n : new[a] = x}
<1>1. CASE O = {}
  <2>1. Cardinality(O) = 0
    BY ONLY <1>1, FS_EmptySet
  <2> QED BY <2>1
<1>2. CASE O # {}
  <2>1. PICK a \in 1..n : new[a] = x
    BY <1>2
  <2>2. O = {a}
    BY <2>1
  <2>3. Cardinality(O) = 1
    BY ONLY <2>2, FS_Singleton
  <2>4. x \in Range(new)
    BY <2>1 DEF Range
  <2> QED BY <2>3, <2>4
<1> QED BY <1>1, <1>2

-----------------------------------------------------------------------------
(* Steps                                                                   *)

LEMMA RingKept == ASSUME NEW w \in Workers, setup' = setup, i'[w] = i[w] PROVE Ring(w)' = Ring(w)
  BY DEF Ring, QueueId, Configured

\* Steps that leave the buffers where they are.
LEMMA QuietBuffers ==
  ASSUME BufferTypes, NEW H \in [Rings -> Nat], BufferInv(H),
         UNCHANGED << setup, posted, rx, tail, tx, done, content, arrived, burst, base, pool >>,
         \A w \in Workers : \/ pc'[w] = pc[w] /\ i'[w] = i[w]
                            \/ pc[w] \in {"top", "poll", "left"} /\ pc'[w] \in {"top", "poll", "left"}
                            \/ pc[w] \in {"packet", "actions"} /\ pc'[w] \in {"packet", "actions"}
  PROVE  BufferTypes' /\ BufferInv(H)'
<1>1. BufferTypes' /\ Mbufs' = Mbufs
  BY DEF BufferTypes, Mbufs, Packets
<1>2. Furthest(H)'
  BY DEF BufferInv, Furthest
<1>3. ASSUME NEW w \in Workers PROVE ReadFrom(w, H)'
  <2>1. ReadFrom(w, H)
    BY DEF BufferInv
  <2>2. CASE pc'[w] = pc[w] /\ i'[w] = i[w]
    BY <2>1, <2>2, RingKept DEF ReadFrom
  <2>3. CASE pc[w] \in {"top", "poll", "left"} /\ pc'[w] \in {"top", "poll", "left"}
    BY <2>1, <2>3 DEF ReadFrom
  <2>4. CASE pc[w] \in {"packet", "actions"} /\ pc'[w] \in {"packet", "actions"}
    BY <2>4 DEF ReadFrom
  <2> QED BY <2>2, <2>3, <2>4
<1>4. ASSUME NEW m \in Mbufs PROVE Kept(m, H)'
  <2>1. Kept(m, H)
    BY DEF BufferInv
  <2>2. \A w \in Workers : pc[w] \in {"packet", "actions"} => pc'[w] \in {"packet", "actions"}
    OBVIOUS
  <2> QED BY <2>1, <2>2 DEF Kept
<1> QED BY <1>1, <1>2, <1>3, <1>4 DEF BufferInv

\* A buffer that is filled goes from the posted ones to the end of the ring.
LEMMA ReceiveBuffers ==
  ASSUME FlowInv, BufferTypes, NEW H \in [Rings -> Nat], BufferInv(H),
         NEW p \in PortSet, NEW f \in Flows, NicReceive(p, f)
  PROVE  BufferTypes' /\ BufferInv(H)'
<1> DEFINE r == << p, RxQueue(f, p) >>
           b == Head(posted[r])
<1>1. Types /\ UNCHANGED << setup, tail, tx, done, burst, base, pool, pc, i >>
  BY DEF FlowInv, NicReceive, main, worker
<1>2. /\ posted[r] # << >> /\ rx' = [rx EXCEPT ![r] = Append(@, b)] /\ posted' = [posted EXCEPT ![r] = Tail(@)]
      /\ content' = [content EXCEPT ![b] = [id |-> arrived + 1, flow |-> f]] /\ arrived' = arrived + 1
  BY DEF NicReceive
<1>3. r \in Rings
  <2>1. p \in Range(Ports)
    BY <1>1, PortsInRange
  <2>2. Hash[f] \in Nat /\ NumWorkers \in Nat \ {0}
    BY SetupsAssumption, PortsAssumption
  <2>3. Hash[f] % NumWorkers \in 0..(NumWorkers - 1) /\ 0 \in 0..(NumWorkers - 1)
    BY <2>2
  <2> QED BY <2>1, <2>3 DEF Rings, RxQueue, Queues
<1>4. b \in Mbufs /\ posted[r] \in Seq(Mbufs) /\ rx[r] \in Seq(Mbufs)
  BY <1>1, <1>2, <1>3 DEF Types
<1> HIDE DEF r, b
<1>5. Mbufs' = Mbufs
  BY <1>1 DEF Mbufs
<1>6. BufferTypes'
  <2>1. [id |-> arrived + 1, flow |-> f] \in Packets /\ arrived + 1 \in Nat
    BY DEF BufferTypes, Packets
  <2>2. content' \in [Mbufs -> Packets]
    BY <1>2, <2>1 DEF BufferTypes
  <2> QED BY <1>1, <1>2, <1>5, <2>1, <2>2 DEF BufferTypes, Packets
<1>7. \A q \in Rings : /\ Len(rx[q]) \in Nat /\ Len(rx'[q]) \in Nat /\ Len(rx[q]) <= Len(rx'[q])
                       /\ \A k \in 1..Len(rx[q]) : rx'[q][k] = rx[q][k]
  <2>1. /\ Len(rx[r]) \in Nat /\ Len(Append(rx[r], b)) = Len(rx[r]) + 1
        /\ \A k \in 1..Len(rx[r]) : Append(rx[r], b)[k] = rx[r][k]
    BY <1>4
  <2>2. \A q \in Rings : Len(rx[q]) \in Nat
    BY <1>1 DEF Types
  <2> QED BY <1>1, <1>2, <2>1, <2>2 DEF Types
<1>8. Len(rx[r]) + 1 = Len(rx'[r]) /\ rx'[r][Len(rx[r]) + 1] = b
  BY <1>1, <1>2, <1>3, <1>4 DEF Types
<1>9. Furthest(H)'
  BY <1>1, <1>7 DEF BufferInv, Furthest
<1>10. ASSUME NEW w \in Workers PROVE ReadFrom(w, H)'
  <2>1. ReadFrom(w, H) /\ Ring(w)' = Ring(w) /\ Ring(w) \in Rings
    BY <1>1, RingKept, OwnRing DEF BufferInv
  <2>2. base[w] \in Nat /\ Len(burst[w]) \in Nat
    BY <1>1 DEF Types
  <2>3. CASE pc[w] = "advance"
    <3>1. \A k \in 1..Len(burst[w]) : base[w] + k \in 1..Len(rx[Ring(w)])
      BY <1>7, <2>1, <2>2, <2>3 DEF ReadFrom
    <3>2. \A k \in 1..Len(burst[w]) : rx'[Ring(w)][base[w] + k] = rx[Ring(w)][base[w] + k]
      BY <1>7, <2>1, <3>1
    <3>3. Len(rx[Ring(w)]) \in Nat /\ Len(rx'[Ring(w)]) \in Nat /\ Len(rx[Ring(w)]) <= Len(rx'[Ring(w)])
      BY <1>7, <2>1
    <3>4. base[w] + Len(burst[w]) <= Len(rx'[Ring(w)])
      BY <2>1, <2>2, <2>3, <3>3 DEF ReadFrom
    <3> QED BY <1>1, <2>1, <2>3, <3>2, <3>4 DEF ReadFrom
  <2>4. CASE pc[w] # "advance"
    BY <1>1, <2>1, <2>4 DEF ReadFrom
  <2> QED BY <2>3, <2>4
<1>11. ASSUME NEW m \in Mbufs PROVE Kept(m, H)'
  <2>1. Kept(m, H) /\ \A q \in Rings : H[q] \in Nat /\ H[q] <= Len(rx[q])
    BY DEF BufferInv, Furthest
  <2>2. ASSUME NEW q \in Rings, m \in Range(posted[q]) PROVE Kept(m, H)'
    <3>1. CASE q = r /\ m = b
      <4>1. Len(rx[r]) + 1 \in (H[r] + 1)..Len(rx'[r])
        BY <1>3, <1>7, <1>8, <2>1
      <4> QED BY <1>3, <1>8, <3>1, <4>1 DEF Kept
    <3>2. CASE q = r /\ m # b
      <4>1. m \in Range(Tail(posted[r]))
        BY <1>2, <1>4, <2>2, <3>2, HeadOrTail DEF b
      <4>2. posted'[r] = Tail(posted[r])
        BY <1>1, <1>2, <1>3 DEF Types
      <4> QED BY <1>3, <4>1, <4>2 DEF Kept
    <3>3. CASE q # r
      <4>1. posted'[q] = posted[q]
        BY <1>1, <1>2, <3>3 DEF Types
      <4> QED BY <2>2, <4>1 DEF Kept
    <3> QED BY <3>1, <3>2, <3>3
  <2>3. ASSUME NEW q \in Rings, NEW k \in (H[q] + 1)..Len(rx[q]), rx[q][k] = m PROVE Kept(m, H)'
    <3>1. k \in (H[q] + 1)..Len(rx'[q]) /\ rx'[q][k] = m
      BY <1>7, <2>1, <2>3
    <3> QED BY <3>1 DEF Kept
  <2> QED BY <1>1, <2>1, <2>2, <2>3 DEF Kept
<1> QED BY <1>5, <1>6, <1>9, <1>10, <1>11 DEF BufferInv

\* A buffer whose packet has left goes from the transmit ring to those to return.
LEMMA TransmitBuffers ==
  ASSUME FlowInv, BufferTypes, NEW H \in [Rings -> Nat], BufferInv(H),
         NEW p \in PortSet, NicTransmit(p)
  PROVE  BufferTypes' /\ BufferInv(H)'
<1>1. /\ UNCHANGED << setup, posted, rx, tail, content, arrived, burst, base, pool, pc, i >> /\ tx[p] # << >>
      /\ done' = [done EXCEPT ![p] = Append(@, Head(tx[p]).mbuf)] /\ tx' = [tx EXCEPT ![p] = Tail(@)]
  BY DEF NicTransmit, main, worker
<1>2. p \in Range(Ports) /\ Mbufs' = Mbufs
  BY <1>1, PortsInRange DEF FlowInv, Mbufs
<1>3. tx[p] \in Seq([mbuf : Mbufs, packet : Packets]) /\ done[p] \in Seq(Mbufs)
  BY <1>2 DEF BufferTypes
<1> DEFINE e == Head(tx[p])
<1>4. e \in [mbuf : Mbufs, packet : Packets] /\ e.mbuf \in Mbufs /\ Tail(tx[p]) \in Seq([mbuf : Mbufs, packet : Packets])
  <2>1. e \in [mbuf : Mbufs, packet : Packets] /\ Tail(tx[p]) \in Seq([mbuf : Mbufs, packet : Packets])
    BY <1>1, <1>3, HeadAndTail
  <2> QED BY <2>1
<1> HIDE DEF e
<1>5. /\ Append(done[p], e.mbuf) \in Seq(Mbufs) /\ e.mbuf \in Range(Append(done[p], e.mbuf))
      /\ Range(done[p]) \subseteq Range(Append(done[p], e.mbuf))
  BY ONLY <1>3, <1>4, Appended
<1>6. /\ done'[p] = Append(done[p], e.mbuf) /\ tx'[p] = Tail(tx[p])
      /\ \A q \in Range(Ports) \ {p} : done'[q] = done[q] /\ tx'[q] = tx[q]
  BY <1>1, <1>2 DEF BufferTypes, e
<1>7. BufferTypes'
  <2>1. done' \in [Range(Ports) -> Seq(Mbufs)]
    BY <1>1, <1>5 DEF BufferTypes, e
  <2>2. tx' \in [Range(Ports) -> Seq([mbuf : Mbufs, packet : Packets])]
    BY <1>1, <1>4 DEF BufferTypes
  <2> QED BY <1>1, <1>2, <2>1, <2>2 DEF BufferTypes, Packets
<1>8. Furthest(H)' /\ \A w \in Workers : ReadFrom(w, H)'
  <2>1. \A w \in Workers : ReadFrom(w, H) /\ Ring(w)' = Ring(w)
    BY <1>1, RingKept DEF BufferInv
  <2> QED BY <1>1, <2>1 DEF BufferInv, Furthest, ReadFrom
<1>9. ASSUME NEW m \in Mbufs PROVE Kept(m, H)'
  <2>1. Kept(m, H)
    BY DEF BufferInv
  <2>2. ASSUME NEW q \in Range(Ports), m \in Range(done[q]) PROVE Kept(m, H)'
    <3>1. m \in Range(done'[q])
      BY <1>5, <1>6, <2>2
    <3> QED BY <3>1 DEF Kept
  <2>3. ASSUME NEW q \in Range(Ports), NEW d \in DOMAIN tx[q], tx[q][d].mbuf = m PROVE Kept(m, H)'
    <3>1. CASE q = p
      <4>1. tx[p][d] \in Range(tx[p])
        BY <2>3, <3>1 DEF Range
      <4>2. tx[p][d] = e \/ tx[p][d] \in Range(Tail(tx[p]))
        BY <1>1, <1>3, <4>1, HeadOrTail DEF e
      <4>3. CASE tx[p][d] = e
        BY <1>2, <1>5, <1>6, <2>3, <3>1, <4>3 DEF Kept
      <4>4. CASE tx[p][d] \in Range(Tail(tx[p]))
        <5>1. PICK c \in DOMAIN tx'[p] : tx'[p][c] = tx[p][d]
          BY <1>6, <4>4 DEF Range
        <5> QED BY <1>2, <2>3, <3>1, <5>1 DEF Kept
      <4> QED BY <4>2, <4>3, <4>4
    <3>2. CASE q # p
      <4>1. tx'[q] = tx[q]
        BY <1>6, <3>2
      <4> QED BY <2>3, <4>1 DEF Kept
    <3> QED BY <3>1, <3>2
  <2> QED BY <1>1, <2>1, <2>2, <2>3 DEF Kept
<1> QED BY <1>2, <1>7, <1>8, <1>9 DEF BufferInv

\* What a worker reads stays in the ring.
LEMMA ReadBuffers ==
  ASSUME FlowInv, BufferTypes, NEW H \in [Rings -> Nat], BufferInv(H),
         NEW w \in Workers, RxRead(w)
  PROVE  BufferTypes' /\ BufferInv(H)'
<1> DEFINE q == Ring(w)
           n == IF Pending(q) < MaxPktBurst THEN Pending(q) ELSE MaxPktBurst
           got == SubSeq(rx[q], tail[q] + 1, tail[q] + n)
<1>1. Types /\ pc[w] = "poll" /\ UNCHANGED << setup, posted, rx, tail, tx, done, content, arrived, pool >>
  BY DEF FlowInv, RxRead, At, main, dev
<1>2. CASE n = 0
  <2>1. NextPort(w) /\ UNCHANGED << base, burst >>
    BY <1>2 DEF RxRead
  <2>2. \A v \in Workers : \/ pc'[v] = pc[v] /\ i'[v] = i[v]
                           \/ pc[v] \in {"top", "poll", "left"} /\ pc'[v] \in {"top", "poll", "left"}
    BY <1>1, <2>1, NextPortStep
  <2> QED BY <1>1, <2>1, <2>2, QuietBuffers
<1>3. CASE n # 0
  <2>1. /\ base' = [base EXCEPT ![w] = tail[q]] /\ burst' = [burst EXCEPT ![w] = got]
        /\ pc' = [pc EXCEPT ![w] = "advance"] /\ i' = i
    BY <1>3 DEF RxRead, Goto
  <2>2. q \in Rings /\ rx[q] \in Seq(Mbufs) /\ tail[q] \in Nat /\ Len(rx[q]) \in Nat
    BY <1>1, OwnRing DEF Types
  <2>3. tail[q] <= H[q] /\ H[q] <= Len(rx[q]) /\ H[q] \in Nat
    BY <2>2 DEF BufferInv, Furthest
  <2>4. n \in Nat /\ n >= 1 /\ tail[q] + n <= Len(rx[q])
    BY <1>3, <2>2, <2>3, PortsAssumption DEF Pending
  <2> HIDE DEF q, n
  <2>5. got \in Seq(Mbufs) /\ Len(got) = n /\ \A k \in 1..n : got[k] = rx[q][tail[q] + k]
    <3>1. rx[q] \in Seq(Mbufs) /\ tail[q] \in Nat /\ n \in Int
      BY <2>2, <2>4
    <3>0. tail[q] + n <= Len(rx[q])
      BY <2>4
    <3>2. /\ SubSeq(rx[q], tail[q] + 1, tail[q] + n) \in Seq(Mbufs)
          /\ Len(SubSeq(rx[q], tail[q] + 1, tail[q] + n)) = (IF n >= 1 THEN n ELSE 0)
          /\ \A k \in 1..n : SubSeq(rx[q], tail[q] + 1, tail[q] + n)[k] = rx[q][tail[q] + k]
      BY ONLY <3>0, <3>1, Slice, Zenon
    <3> QED BY <2>4, <3>2
  <2> HIDE DEF got
  <2>6. BufferTypes' /\ Mbufs' = Mbufs
    BY <1>1 DEF BufferTypes, Mbufs, Packets
  <2>7. Furthest(H)'
    BY <1>1 DEF BufferInv, Furthest
  <2>8. ASSUME NEW v \in Workers PROVE ReadFrom(v, H)'
    <3>1. ReadFrom(v, H) /\ Ring(v)' = Ring(v)
      BY <1>1, <2>1, RingKept DEF BufferInv
    <3>2. CASE v = w
      <4>1. Ring(v)' = q /\ pc'[v] = "advance" /\ base'[v] = tail[q] /\ burst'[v] = got
        BY <1>1, <2>1, <3>1, <3>2 DEF Types, q
      <4> QED BY <1>1, <2>2, <2>3, <2>4, <2>5, <4>1 DEF ReadFrom
    <3>3. CASE v # w
      <4>1. pc'[v] = pc[v] /\ base'[v] = base[v] /\ burst'[v] = burst[v]
        BY <1>1, <2>1, <3>3 DEF Types
      <4> QED BY <1>1, <3>1, <4>1 DEF ReadFrom
    <3> QED BY <3>2, <3>3
  <2>9. ASSUME NEW m \in Mbufs PROVE Kept(m, H)'
    <3>1. Kept(m, H)
      BY DEF BufferInv
    <3>2. \A v \in Workers : pc[v] \in {"packet", "actions"} => pc'[v] = pc[v] /\ burst'[v] = burst[v]
      BY <1>1, <2>1 DEF Types
    <3> QED BY <1>1, <3>1, <3>2 DEF Kept
  <2> QED BY <2>6, <2>7, <2>8, <2>9 DEF BufferInv
<1> QED BY <1>2, <1>3

\* A worker that advances the ring takes what it has read, and posts buffers of
\* the pool instead; what another worker has taken meanwhile was not in the ring.
LEMMA AdvanceBuffers ==
  ASSUME FlowInv, BufferTypes, NEW H \in [Rings -> Nat], BufferInv(H),
         NEW w \in Workers, RxAdvance(w)
  PROVE  BufferTypes' /\ \E G \in [Rings -> Nat] : BufferInv(G)'
<1> DEFINE q == Ring(w)
           end == base[w] + Len(burst[w])
           free == {m \in Mbufs : pool[m] > 0}
           n == IF Cardinality(free) < Len(burst[w]) THEN Cardinality(free) ELSE Len(burst[w])
<1>1. Types /\ UNCHANGED << setup, rx, tx, done, content, arrived, i, burst >>
  BY DEF FlowInv, RxAdvance, main
<1>2. /\ tail' = [tail EXCEPT ![q] = end] /\ base' = [base EXCEPT ![w] = 0]
      /\ pc[w] = "advance" /\ pc' = [pc EXCEPT ![w] = "packet"]
  BY DEF RxAdvance, At, Goto
<1>3. PICK new \in [1..n -> free] :
         /\ \A a, b \in 1..n : a # b => new[a] # new[b]
         /\ pool' = [m \in Mbufs |-> pool[m] - Cardinality({a \in 1..n : new[a] = m})]
         /\ posted' = [posted EXCEPT ![q] = @ \o new]
  BY DEF RxAdvance
<1>4. q \in Rings /\ posted[q] \in Seq(Mbufs) /\ Mbufs' = Mbufs
  BY <1>1, OwnRing DEF Types, Mbufs
<1>5. n \in Nat /\ free \subseteq Mbufs
  <2>1. setup.ports \in Nat /\ MbufsPerPort \in Nat /\ setup.ports * MbufsPerPort \in Nat
    BY <1>1, PortsAssumption, SetupsAssumption DEF Types
  <2>2. IsFiniteSet(Mbufs)
    BY <2>1, FS_Interval DEF Mbufs
  <2>3. IsFiniteSet(free)
    BY <2>2, FS_Subset
  <2>4. Cardinality(free) \in Nat /\ Len(burst[w]) \in Nat
    BY <1>1, <2>3, FS_CardinalityType DEF Types
  <2> QED BY <2>4
<1>6. end \in Nat /\ H[q] \in Nat /\ Len(rx[q]) \in Nat /\ end <= Len(rx[q]) /\ base[w] <= H[q]
  BY <1>1, <1>2, <1>4 DEF Types, BufferInv, ReadFrom
<1>7. ASSUME NEW m \in Mbufs
      PROVE  LET c == Cardinality({a \in 1..n : new[a] = m}) IN c \in {0, 1} /\ (c = 1 => m \in Range(new))
  <2> HIDE DEF n
  <2> QED BY ONLY <1>3, <1>5, TakenOnce
<1>8. new \in Seq(Mbufs) /\ \A m \in Range(new) : pool[m] > 0
  <2>1. \A a \in 1..n : new[a] \in free
    BY <1>3
  <2> HIDE DEF n
  <2>2. new \in Seq(Mbufs)
    BY <1>3, <1>5
  <2>3. DOMAIN new = 1..n
    BY <1>3
  <2> QED BY <2>1, <2>2, <2>3 DEF Range
<1> HIDE DEF q, n
<1>9. posted[q] \o new \in Seq(Mbufs) /\ Range(posted[q]) \subseteq Range(posted[q] \o new)
      /\ Range(new) \subseteq Range(posted[q] \o new)
  <2>1. posted[q] \o new \in Seq(Mbufs)
    BY <1>4, <1>8
  <2>2. Range(posted[q]) \subseteq Range(posted[q] \o new) /\ Range(new) \subseteq Range(posted[q] \o new)
    BY ONLY <1>4, <1>8, Joined
  <2> QED BY <2>1, <2>2
<1>10. posted'[q] = posted[q] \o new /\ \A r \in Rings \ {q} : posted'[r] = posted[r]
  BY <1>1, <1>3, <1>4 DEF Types
<1>11. \A m \in Mbufs : /\ pool'[m] \in Nat /\ pool[m] \in Nat
                        /\ (pool[m] > 0 => pool'[m] > 0 \/ m \in Range(new))
  <2> TAKE m \in Mbufs
  <2> DEFINE c == Cardinality({a \in 1..n : new[a] = m})
  <2>1. pool'[m] = pool[m] - c /\ pool[m] \in Nat
    BY <1>3 DEF BufferTypes
  <2>2. c \in {0, 1} /\ (c = 1 => m \in Range(new))
    BY <1>7
  <2> HIDE DEF c
  <2> QED BY <1>8, <2>1, <2>2
<1>12. BufferTypes'
  <2>1. pool' \in [Mbufs -> Nat]
    BY <1>3, <1>11
  <2> QED BY <1>1, <1>4, <2>1 DEF BufferTypes, Packets
<1> HIDE DEF end
<1>13. PICK G \in [Rings -> Nat] : /\ \A r \in Rings : H[r] <= G[r] /\ (r # q => G[r] = H[r])
                                   /\ G[q] = IF end > H[q] THEN end ELSE H[q]
  <2> DEFINE g == [H EXCEPT ![q] = IF end > @ THEN end ELSE @]
  <2>1. /\ g \in [Rings -> Nat] /\ \A r \in Rings : H[r] <= g[r] /\ (r # q => g[r] = H[r])
        /\ g[q] = IF end > H[q] THEN end ELSE H[q]
    BY <1>4, <1>6
  <2> QED BY <2>1
<1>14. Furthest(G)'
  <2>1. ASSUME NEW r \in Rings PROVE tail'[r] <= G[r] /\ G[r] <= Len(rx'[r])
    <3>1. tail[r] <= H[r] /\ H[r] <= Len(rx[r])
      BY DEF BufferInv, Furthest
    <3>2. CASE r = q
      BY <1>1, <1>2, <1>4, <1>6, <1>13, <3>1, <3>2 DEF Types
    <3>3. CASE r # q
      BY <1>1, <1>2, <1>13, <3>1, <3>3 DEF Types
    <3> QED BY <3>2, <3>3
  <2> QED BY <2>1 DEF Furthest
<1>15. ASSUME NEW v \in Workers PROVE ReadFrom(v, G)'
  <2>1. ReadFrom(v, H) /\ Ring(v)' = Ring(v) /\ Ring(v) \in Rings
    BY <1>1, RingKept, OwnRing DEF BufferInv
  <2>2. CASE v = w
    BY <1>1, <1>2, <2>2 DEF Types, ReadFrom
  <2>3. CASE v # w
    <3>1. pc'[v] = pc[v] /\ base'[v] = base[v] /\ burst'[v] = burst[v] /\ base[v] \in Nat
      BY <1>1, <1>2, <2>3 DEF Types
    <3>2. H[Ring(v)] \in Nat /\ G[Ring(v)] \in Nat /\ H[Ring(v)] <= G[Ring(v)]
      BY <1>13, <2>1
    <3> QED BY <1>1, <2>1, <3>1, <3>2 DEF ReadFrom
  <2> QED BY <2>2, <2>3
<1>16. ASSUME NEW m \in Mbufs PROVE Kept(m, G)'
  <2>1. Kept(m, H)
    BY DEF BufferInv
  <2>2. CASE m \in Range(new)
    BY <1>4, <1>9, <1>10, <2>2 DEF Kept
  <2>3. CASE pool[m] > 0
    BY <1>11, <2>2, <2>3 DEF Kept
  <2>4. ASSUME NEW r \in Rings, m \in Range(posted[r]) PROVE Kept(m, G)'
    <3>1. m \in Range(posted'[r])
      BY <1>9, <1>10, <2>4
    <3> QED BY <3>1 DEF Kept
  <2>5. ASSUME NEW r \in Rings, NEW k \in (H[r] + 1)..Len(rx[r]), rx[r][k] = m PROVE Kept(m, G)'
    <3>1. H[r] \in Nat /\ G[r] \in Nat /\ Len(rx[r]) \in Nat
      BY <1>1, <1>13 DEF Types
    <3>2. CASE k > G[r]
      <4>1. k \in (G[r] + 1)..Len(rx'[r])
        BY <1>1, <2>5, <3>1, <3>2
      <4> QED BY <1>1, <2>5, <4>1 DEF Kept
    <3>3. CASE k <= G[r]
      <4>1. r = q /\ k <= end /\ base[w] < k
        <5>1. r = q
          BY <1>13, <2>5, <3>1, <3>3
        <5>2. base[w] \in Nat
          BY <1>1 DEF Types
        <5> QED BY <1>6, <1>13, <2>5, <3>1, <3>3, <5>1, <5>2
      <4>2. k - base[w] \in 1..Len(burst[w]) /\ base[w] + (k - base[w]) = k
        BY <1>1, <1>6, <2>5, <4>1 DEF Types, end
      <4>3. burst[w][k - base[w]] = m
        BY <1>2, <2>5, <4>1, <4>2 DEF BufferInv, ReadFrom, q
      <4>4. m \in Range(burst'[w]) /\ pc'[w] = "packet"
        <5>1. DOMAIN burst[w] = 1..Len(burst[w])
          BY <1>1 DEF Types
        <5> QED BY <1>1, <1>2, <4>2, <4>3, <5>1 DEF Types, Range
      <4> QED BY <4>4 DEF Kept
    <3> QED BY <2>5, <3>1, <3>2, <3>3
  <2>6. ASSUME NEW v \in Workers, pc[v] \in {"packet", "actions"}, m \in Range(burst[v]) PROVE Kept(m, G)'
    <3>1. pc'[v] \in {"packet", "actions"} /\ burst'[v] = burst[v]
      BY <1>1, <1>2, <2>6 DEF Types
    <3> QED BY <2>6, <3>1 DEF Kept
  <2>7. CASE \E p \in Range(Ports) : m \in Range(done[p]) \/ \E d \in DOMAIN tx[p] : tx[p][d].mbuf = m
    BY <1>1, <2>7 DEF Kept
  <2> QED BY <2>1, <2>2, <2>3, <2>4, <2>5, <2>6, <2>7 DEF Kept
<1>17. BufferInv(G)'
  BY <1>4, <1>14, <1>15, <1>16 DEF BufferInv
<1> QED BY <1>12, <1>13, <1>17

\* The buffers of the packets that have left go back to the pool; the one that is
\* sent is on the transmit ring, and still in the burst.
LEMMA SendBuffers ==
  ASSUME FlowInv, BufferTypes, NEW H \in [Rings -> Nat], BufferInv(H),
         NEW w \in Workers, NEW p \in PortSet, Send(w, p)
  PROVE  BufferTypes' /\ BufferInv(H)'
<1> DEFINE back(m) == Cardinality({a \in DOMAIN done[p] : done[p][a] = m})
           e == [mbuf |-> Head(burst[w]), packet |-> content[Head(burst[w])]]
<1>1. /\ UNCHANGED << setup, posted, rx, tail, content, arrived, pc, i, base, burst >> /\ pc[w] = "actions"
      /\ pool' = [m \in Mbufs |-> pool[m] + back(m)] /\ done' = [done EXCEPT ![p] = << >>]
      /\ tx' = [tx EXCEPT ![p] = Append(@, e)] \/ tx' = tx
  BY DEF Send, At, Crash, main
<1>2. Types /\ p \in Range(Ports) /\ Mbufs' = Mbufs
  BY <1>1, PortsInRange DEF FlowInv, Mbufs
<1>3. done[p] \in Seq(Mbufs) /\ tx[p] \in Seq([mbuf : Mbufs, packet : Packets])
  BY <1>2 DEF BufferTypes
<1>4. ASSUME NEW m \in Mbufs PROVE back(m) \in Nat /\ (m \in Range(done[p]) => back(m) > 0)
  BY ONLY <1>3, Occurrences
<1> HIDE DEF back
<1>5. \A m \in Mbufs : pool'[m] \in Nat /\ pool'[m] >= pool[m] /\ (m \in Range(done[p]) => pool'[m] > 0)
  BY <1>1, <1>4 DEF BufferTypes
<1>6. burst[w] # << >> /\ burst[w] \in Seq(Mbufs)
  BY <1>1, <1>2 DEF FlowInv, Types, RingsOwned, ReadInRing
<1>7. Head(burst[w]) \in Mbufs
  BY ONLY <1>6, HeadAndTail
<1>8. e \in [mbuf : Mbufs, packet : Packets]
  BY <1>7 DEF BufferTypes
<1> HIDE DEF e
<1>9. /\ Append(tx[p], e) \in Seq([mbuf : Mbufs, packet : Packets])
      /\ Range(tx[p]) \subseteq Range(Append(tx[p], e))
  BY ONLY <1>3, <1>8, Appended
<1>10. BufferTypes'
  <2>1. pool' \in [Mbufs -> Nat]
    BY <1>1, <1>5
  <2>2. done' \in [Range(Ports) -> Seq(Mbufs)]
    BY <1>1, <1>2 DEF BufferTypes
  <2>3. tx' \in [Range(Ports) -> Seq([mbuf : Mbufs, packet : Packets])]
    BY <1>1, <1>2, <1>9 DEF BufferTypes
  <2> QED BY <1>1, <1>2, <2>1, <2>2, <2>3 DEF BufferTypes, Packets
<1>11. Furthest(H)' /\ \A v \in Workers : ReadFrom(v, H)'
  <2>1. \A v \in Workers : ReadFrom(v, H) /\ Ring(v)' = Ring(v)
    BY <1>1, RingKept DEF BufferInv
  <2> QED BY <1>1, <2>1 DEF BufferInv, Furthest, ReadFrom
<1>12. ASSUME NEW m \in Mbufs PROVE Kept(m, H)'
  <2>1. Kept(m, H) /\ pool[m] \in Nat
    BY DEF BufferInv, BufferTypes
  <2>2. CASE pool[m] > 0
    BY <1>5, <2>1, <2>2 DEF Kept
  <2>3. ASSUME NEW q \in Range(Ports), m \in Range(done[q]) PROVE Kept(m, H)'
    <3>1. CASE q = p
      BY <1>5, <2>3, <3>1 DEF Kept
    <3>2. CASE q # p
      <4>1. done'[q] = done[q]
        BY <1>1, <3>2 DEF BufferTypes
      <4> QED BY <2>3, <4>1 DEF Kept
    <3> QED BY <3>1, <3>2
  <2>4. ASSUME NEW q \in Range(Ports), NEW d \in DOMAIN tx[q], tx[q][d].mbuf = m PROVE Kept(m, H)'
    <3>1. Range(tx[q]) \subseteq Range(tx'[q])
      <4>1. CASE tx' = tx
        BY <4>1
      <4>2. CASE tx' = [tx EXCEPT ![p] = Append(@, e)]
        BY <1>9, <4>2 DEF BufferTypes
      <4> QED BY <1>1, <4>1, <4>2
    <3>2. PICK c \in DOMAIN tx'[q] : tx'[q][c] = tx[q][d]
      BY <3>1 DEF Range
    <3> QED BY <2>4, <3>2 DEF Kept
  <2>5. CASE \/ \E r \in Rings : m \in Range(posted[r])
             \/ \E r \in Rings : \E k \in (H[r] + 1)..Len(rx[r]) : rx[r][k] = m
             \/ \E v \in Workers : pc[v] \in {"packet", "actions"} /\ m \in Range(burst[v])
    BY <1>1, <2>5 DEF Kept
  <2> QED BY <2>1, <2>2, <2>3, <2>4, <2>5 DEF Kept
<1> QED BY <1>2, <1>10, <1>11, <1>12 DEF BufferInv

\* The first buffer of the burst goes to the pool, the others stay with the worker.
LEMMA FreeBuffers ==
  ASSUME FlowInv, BufferTypes, NEW H \in [Rings -> Nat], BufferInv(H),
         NEW w \in Workers, FreePacket(w)
  PROVE  BufferTypes' /\ BufferInv(H)'
<1> DEFINE b == Head(burst[w])
<1>1. /\ burst' = [burst EXCEPT ![w] = Tail(@)] /\ pool' = [pool EXCEPT ![b] = @ + 1]
      /\ IF burst'[w] = << >> THEN NextPort(w) ELSE pc' = [pc EXCEPT ![w] = "packet"] /\ i' = i
      /\ UNCHANGED << setup, posted, rx, tail, tx, done, content, arrived, base >> /\ pc[w] = "actions"
  BY DEF FreePacket, NextInBurst, Goto, At, main, dev
<1>2. Types /\ Mbufs' = Mbufs
  BY <1>1 DEF FlowInv, Mbufs
<1>3. burst[w] # << >> /\ burst[w] \in Seq(Mbufs)
  BY <1>1, <1>2 DEF FlowInv, Types, RingsOwned, ReadInRing
<1>4. b \in Mbufs
  BY ONLY <1>3, HeadAndTail
<1> HIDE DEF b
<1>5. /\ \A v \in Workers \ {w} : pc'[v] = pc[v] /\ i'[v] = i[v] /\ burst'[v] = burst[v]
      /\ burst'[w] = Tail(burst[w])
      /\ (pc'[w] \in {"poll", "top"} /\ burst'[w] = << >>) \/ pc'[w] = "packet"
  <2>1. burst'[w] = Tail(burst[w]) /\ \A v \in Workers \ {w} : burst'[v] = burst[v]
    BY <1>1, <1>2 DEF Types
  <2>2. CASE burst'[w] = << >>
    BY <1>1, <1>2, <2>1, <2>2, NextPortStep
  <2>3. CASE burst'[w] # << >>
    BY <1>1, <1>2, <2>1, <2>3 DEF Types
  <2> QED BY <2>2, <2>3
<1>6. BufferTypes'
  <2>1. pool' \in [Mbufs -> Nat]
    BY <1>1, <1>4 DEF BufferTypes
  <2> QED BY <1>1, <1>2, <2>1 DEF BufferTypes, Packets
<1>7. Furthest(H)'
  BY <1>1 DEF BufferInv, Furthest
<1>8. ASSUME NEW v \in Workers PROVE ReadFrom(v, H)'
  <2>1. CASE v = w
    BY <1>5, <2>1 DEF ReadFrom
  <2>2. CASE v # w
    <3>1. ReadFrom(v, H) /\ Ring(v)' = Ring(v)
      BY <1>1, <1>5, <2>2, RingKept DEF BufferInv
    <3> QED BY <1>1, <1>5, <2>2, <3>1 DEF ReadFrom
  <2> QED BY <2>1, <2>2
<1>9. ASSUME NEW m \in Mbufs PROVE Kept(m, H)'
  <2>1. Kept(m, H)
    BY DEF BufferInv
  <2>2. pool[m] \in Nat /\ pool'[m] = IF m = b THEN pool[m] + 1 ELSE pool[m]
    BY <1>1 DEF BufferTypes
  <2>3. CASE m = b \/ pool[m] > 0
    <3>1. pool'[m] > 0
      BY <2>2, <2>3
    <3> QED BY <3>1 DEF Kept
  <2>4. ASSUME NEW v \in Workers, pc[v] \in {"packet", "actions"}, m \in Range(burst[v]), m # b
        PROVE  Kept(m, H)'
    <3>1. CASE v # w
      BY <1>5, <2>4, <3>1 DEF Kept
    <3>2. CASE v = w
      <4>1. m \in Range(Tail(burst[w]))
        BY <1>3, <2>4, <3>2, HeadOrTail DEF b
      <4>2. Tail(burst[w]) # << >>
        BY <4>1 DEF Range
      <4> QED BY <1>5, <4>1, <4>2 DEF Kept
    <3> QED BY <3>1, <3>2
  <2> QED BY <1>1, <2>1, <2>3, <2>4 DEF Kept
<1> QED BY <1>2, <1>6, <1>7, <1>8, <1>9 DEF BufferInv

\* At the start every buffer is posted on the ring of its port and queue, or is
\* in the pool.
LEMMA InitBuffers == Init => BufferTypes /\ \E H \in [Rings -> Nat] : BufferInv(H)
<1> SUFFICES ASSUME Init PROVE BufferTypes /\ \E H \in [Rings -> Nat] : BufferInv(H)
  OBVIOUS
<1>1. BufferTypes
  <2>1. << >> \in Seq(Mbufs) /\ << >> \in Seq([mbuf : Mbufs, packet : Packets])
    OBVIOUS
  <2> QED BY <2>1 DEF Init, BufferTypes, Packets
<1>2. PICK H \in [Rings -> Nat] : \A r \in Rings : H[r] = 0
  <2>1. [r \in Rings |-> 0] \in [Rings -> Nat] /\ \A r \in Rings : [s \in Rings |-> 0][r] = 0
    OBVIOUS
  <2> QED BY <2>1, Zenon
<1>3. Furthest(H) /\ \A w \in Workers : ReadFrom(w, H)
  BY <1>2 DEF Init, Furthest, ReadFrom
<1>4. ASSUME NEW m \in Mbufs PROVE Kept(m, H)
  <2>1. CASE ~(m <= setup.ports * NumWorkers * Posted)
    BY <2>1 DEF Init, Kept
  <2>2. CASE m <= setup.ports * NumWorkers * Posted
    <3> DEFINE n == setup.ports
               slot == (m - 1) \div Posted
               d == (m - 1) % Posted
               k == slot \div NumWorkers
               q == slot % NumWorkers
    <3>1. setup.ports \in 1..Len(Ports) /\ Len(Ports) \in Nat /\ n \in Nat
      BY PortsAssumption, SetupsAssumption DEF Init
    <3>2. m \in Nat /\ m >= 1 /\ MbufsPerPort \in Nat
      BY <3>1, PortsAssumption DEF Mbufs
    <3>3. NumWorkers \in Nat \ {0} /\ Posted \in Nat \ {0}
      <4>1. Posted # 0
        <5>1. n * NumWorkers * 0 = 0
          BY <3>1, PortsAssumption
        <5> QED BY <2>2, <3>2, <5>1
      <4> QED BY <4>1, PortsAssumption
    <3>4. slot \in Nat /\ d \in 0..(Posted - 1) /\ m - 1 = slot * Posted + d
      <4>1. m - 1 \in Nat
        BY <3>2
      <4> QED BY <3>3, <4>1, Division
    <3>5. slot < n * NumWorkers
      <4>1. n * NumWorkers \in Nat /\ slot * Posted + d < (n * NumWorkers) * Posted
        BY <2>2, <3>1, <3>2, <3>3, <3>4
      <4>2. d \in Nat
        BY <3>3, <3>4
      <4> HIDE DEF slot, d, n
      <4> QED BY ONLY <3>3, <3>4, <4>1, <4>2, Quotient
    <3>6. k \in Nat /\ q \in 0..(NumWorkers - 1) /\ slot = k * NumWorkers + q
      <4> HIDE DEF slot
      <4> QED BY <3>3, <3>4, Division
    <3>7. k < n
      <4>1. q \in Nat /\ k * NumWorkers + q < n * NumWorkers
        BY <3>3, <3>5, <3>6
      <4> HIDE DEF slot, k, q, n
      <4> QED BY ONLY <3>1, <3>3, <3>6, <4>1, Quotient
    <3> HIDE DEF k, q, slot, d
    <3> DEFINE p == Ports[k + 1]
               r == << p, q >>
    <3>8. k + 1 \in DOMAIN Ports /\ DOMAIN Ports = 1..Len(Ports)
      <4>1. DOMAIN Ports = 1..Len(Ports)
        BY PortsAssumption
      <4> QED BY <3>1, <3>6, <3>7, <4>1
    <3>9. PortId(p) = k
      <4>1. \A j \in DOMAIN Ports : Ports[j] = p <=> j = k + 1
        BY <3>8, PortsAssumption
      <4>2. (CHOOSE j \in DOMAIN Ports : Ports[j] = p) = k + 1
        BY <3>8, <4>1
      <4> HIDE DEF p
      <4>3. PortId(p) = (CHOOSE j \in DOMAIN Ports : Ports[j] = p) - 1
        BY DEF PortId
      <4>4. PortId(p) = (k + 1) - 1
        BY ONLY <4>2, <4>3
      <4> QED BY <3>6, <4>4
    <3>10. r \in Rings
      BY <3>6, <3>8 DEF Rings, Range, Queues
    <3>11. posted[r] = [c \in 1..Posted |-> (k * NumWorkers + q) * Posted + c]
      <4>1. ~(PortId(r[1]) >= setup.ports) /\ r[2] = q /\ PortId(r[1]) = k
        BY <3>1, <3>6, <3>7, <3>9
      <4>2. posted = [s \in Rings |->
                        IF PortId(s[1]) >= setup.ports THEN << >>
                        ELSE [c \in 1..Posted |-> (PortId(s[1]) * NumWorkers + s[2]) * Posted + c]]
        BY DEF Init
      <4> HIDE DEF r
      <4>3. posted[r] = IF PortId(r[1]) >= setup.ports THEN << >>
                        ELSE [c \in 1..Posted |-> (PortId(r[1]) * NumWorkers + r[2]) * Posted + c]
        BY <3>10, <4>2, Zenon
      <4> QED BY ONLY <4>1, <4>3
    <3>12. d + 1 \in 1..Posted /\ slot * Posted + (d + 1) = m
      <4>1. slot * Posted \in Nat
        BY <3>3, <3>4
      <4> QED BY <3>2, <3>3, <3>4, <4>1
    <3>13. posted[r][d + 1] = m /\ d + 1 \in DOMAIN posted[r]
      BY <3>6, <3>11, <3>12
    <3>14. m \in Range(posted[r])
      BY <3>13 DEF Range
    <3> QED BY <3>10, <3>14 DEF Kept
  <2> QED BY <2>1, <2>2
<1> QED BY <1>1, <1>2, <1>3, <1>4 DEF BufferInv

\* Where the buffers are, along every behaviour.
THEOREM BuffersAreAccountedFor == Spec => [](BufferTypes /\ \E H \in [Rings -> Nat] : BufferInv(H))
<1> DEFINE Inv == BufferTypes /\ \E H \in [Rings -> Nat] : BufferInv(H)
<1>1. FlowInv /\ Inv /\ [Next]_vars => Inv'
  <2> SUFFICES ASSUME FlowInv, BufferTypes, NEW H \in [Rings -> Nat], BufferInv(H), [Next]_vars
               PROVE  Inv'
    OBVIOUS
  <2>1. ASSUME NEW p \in PortSet, NicTransmit(p) PROVE Inv'
    BY <2>1, TransmitBuffers
  <2>2. ASSUME NEW p \in PortSet, NEW f \in Flows, NicReceive(p, f) PROVE Inv'
    BY <2>2, ReceiveBuffers
  <2>3. ASSUME NEW w \in Workers, NEW p \in PortSet, Send(w, p) PROVE Inv'
    BY <2>3, SendBuffers
  <2>4. ASSUME NEW w \in Workers, Top(w) PROVE Inv'
    <3>1. \A v \in Workers : \/ pc'[v] = pc[v] /\ i'[v] = i[v]
                             \/ pc[v] \in {"top", "poll", "left"} /\ pc'[v] \in {"top", "poll", "left"}
      BY <2>4 DEF Top, Goto, At, FlowInv, Types
    <3> QED BY <2>4, <3>1, QuietBuffers DEF Top, main, dev, Crash
  <2>5. ASSUME NEW w \in Workers, Lookup(w) PROVE Inv'
    <3>1. \A v \in Workers : \/ pc'[v] = pc[v] /\ i'[v] = i[v]
                             \/ pc[v] \in {"packet", "actions"} /\ pc'[v] \in {"packet", "actions"}
      BY <2>5 DEF Lookup, Goto, At, FlowInv, Types
    <3> QED BY <2>5, <3>1, QuietBuffers DEF Lookup, main, dev
  <2>6. ASSUME NEW w \in Workers, Work(w) PROVE Inv'
    BY <2>4, <2>5, <2>6, ReadBuffers, AdvanceBuffers, FreeBuffers DEF Work
  <2>7. CASE Signal \/ ClosePort \/ UNCHANGED vars
    BY <2>7, QuietBuffers DEF Signal, ClosePort, vars, main, dev, worker
  <2> QED BY <2>1, <2>2, <2>3, <2>6, <2>7 DEF Next
<1>2. Init => Inv
  BY InitBuffers
<1> HIDE DEF Inv
<1>3. Spec => []Inv
  BY <1>1, <1>2, FlowsStayInPlace, PTL DEF Spec
<1> QED BY <1>3 DEF Inv

\* No buffer is lost, however many lcores share a queue and however its packet
\* fares: it is in the pool, on a ring or in a worker's burst.
THEOREM BuffersAreKept == Spec => []NoBufferLost
<1>1. BufferTypes /\ (\E H \in [Rings -> Nat] : BufferInv(H)) /\ FlowInv => NoBufferLost
  <2> SUFFICES ASSUME FlowInv, NEW H \in [Rings -> Nat], BufferInv(H), NEW m \in Mbufs PROVE Held(m)
    BY DEF NoBufferLost
  <2>1. Kept(m, H) /\ Furthest(H)
    BY DEF BufferInv
  <2>2. ASSUME NEW r \in Rings, NEW k \in (H[r] + 1)..Len(rx[r]), rx[r][k] = m PROVE m \in Waiting(r)
    <3>1. tail[r] \in Nat /\ H[r] \in Nat /\ Len(rx[r]) \in Nat /\ tail[r] <= H[r]
      BY <2>1 DEF FlowInv, Types, Furthest
    <3>2. k \in (tail[r] + 1)..Len(rx[r])
      BY <2>2, <3>1
    <3> QED BY <2>2, <3>2 DEF Waiting
  <2> QED BY <2>1, <2>2 DEF Kept, Held
<1> QED BY <1>1, BuffersAreAccountedFor, FlowsStayInPlace, PTL
=============================================================================
