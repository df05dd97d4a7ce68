----------------------- MODULE FlowContextTable_proofs -----------------------
(***************************************************************************)
(* The flow context table is right for any number of tables, keys and      *)
(* packets and for any hash functions, as long as no entry is kicked out   *)
(* of the hash table and no packet is held at stage 8: a packet finds what *)
(* those eleven cycles ahead of it, or more, have left of its flow, and    *)
(* of the closer ones nothing.                                             *)
(*                                                                         *)
(* Packets are six cycles apart.  So the buckets that are read for one at  *)
(* stage 8 are those of the cycle in which they decide which table is      *)
(* written, since nothing else is written then; and the buckets read for a *)
(* lookup are those of before the write of that cycle, if there is one,    *)
(* which is what before remembers.                                         *)
(***************************************************************************)
EXTENDS FlowContextTable, FiniteSetTheorems, WellFoundedInduction, TLAPS

Seat(t, k) == mem[t][Hash[t][k]]
Found(k) == {t \in Tables : Holds(Seat(t, k), k)}

\* What some buckets say of a flow, once: the context v, or nothing of a new one.
FiledIn(dout, k, v) ==
  LET hits == {t \in Tables : Holds(dout[t], k)}
  IN  /\ \A t, u \in hits : t = u
      /\ \A t \in hits : dout[t].value = v
      /\ hits = {} => v = Fresh

\* What the tables say of it: the same, with the buckets it is searched in.
FiledAs(k, v) == /\ \A t, u \in Found(k) : t = u
                 /\ \A t \in Found(k) : Seat(t, k).value = v
                 /\ Found(k) = {} => v = Fresh
Filed(k) == FiledAs(k, latest[k])

Places == /\ pkt \in Packet /\ ahead \in Packet
          /\ ahead.at >= pkt.at + 6 \/ ahead.at = 12
Types ==
  /\ mem \in [Tables -> [Buckets -> Entry \cup {Empty}]]
  /\ latest \in [Keys -> Contexts \cup {Fresh}]

\* The stash takes no part while it is empty.
StashQuiet == stash = [s \in Seats |-> Empty] /\ stash_out = Missed

\* A packet has just passed stage 8, and may have made a request; the tables are
\* those it was decided on, and hold what was before.
Updated == pkt.at = 9 \/ ahead.at = 9
InHand == req # NoRequest
RequestOK ==
  /\ InHand => /\ Updated
               /\ req.op \in {"insert", "remove"} /\ req.key \in Keys /\ req.value \in Contexts
               /\ \A t \in Tables : req.dout[t] = Seat(t, req.key)
               /\ latest[req.key] = IF req.op = "insert" THEN req.value ELSE Fresh
               /\ \A t, u \in Found(req.key) : t = u
  /\ \A k \in Keys : (InHand /\ k = req.key) \/ Filed(k)
  /\ Updated => \A k \in Keys : FiledAs(k, before[k])

\* What the packet is to find, while it is at stage 0 or 1.
Expected == (IF ahead.at \in 9..(10 + pkt.at) THEN before ELSE latest)[pkt.key]
LookupOK ==
  /\ pkt.at = 0 => query.key = pkt.key /\ FiledIn(query.dout, pkt.key, Expected)
  /\ pkt.at = 1 => FlowContext = Expected

Calm == ~spilled /\ ~repeated
TableInv == Calm => Places /\ Types /\ StashQuiet /\ RequestOK /\ LookupOK

-----------------------------------------------------------------------------
(* Least and greatest elements                                             *)

LEMMA MinOf == ASSUME NEW S \in SUBSET Nat, S # {} PROVE Min(S) \in S
<1> DEFINE R == OpToRel(<, Nat)
<1>1. IsWellFoundedOn(R, Nat)
  BY NatLessThanWellFounded, Zenon
<1>2. \A x, y \in Nat : << y, x >> \in R <=> y < x
  BY DEF OpToRel
<1> HIDE DEF R
<1>3. \E x \in S : \A y \in S : ~(<< y, x >> \in R)
  BY <1>1, WFMin, Zenon
<1>4. \E x \in S : \A y \in S : x <= y
  <2>1. PICK x \in S : \A y \in S : ~(<< y, x >> \in R)
    BY <1>3
  <2>2. \A y \in S : x \in Nat /\ y \in Nat /\ ~(y < x)
    BY <1>2, <2>1
  <2> QED BY <2>2
<1> QED BY <1>4 DEF Min

LEMMA OnlyOne == ASSUME NEW t \in Nat PROVE Min({t}) = t /\ Max({t}) = t
  BY DEF Min, Max
-----------------------------------------------------------------------------
(* Steps, as long as nothing is kicked out                                 *)

LEMMA Entries == \A k \in Keys, v \in Contexts : /\ [key |-> k, value |-> v] \in Entry
                                                 /\ [key |-> k, value |-> v] # Empty
  BY EntriesAssumption DEF Entry

LEMMA BucketOf == \A t \in Tables, k \in Keys : Hash[t][k] \in Buckets
  BY DEF Buckets

LEMMA LaterOf ==
  \A p \in Packet : /\ Later(p) \in Packet /\ Later(p).key = p.key
                    /\ Later(p).at = IF p.at = 12 THEN 12 ELSE p.at + 1
  BY DEF Packet, Later

\* Of the packets a step leaves in the pipeline.
LEMMA PacketsStay ==
  ASSUME pkt \in Packet, ahead \in Packet, Arrive \/ Hold \/ Proceed
  PROVE  pkt' \in Packet /\ ahead' \in Packet
<1>1. CASE Arrive
  <2>1. PICK s \in Scopes : pkt' = [key |-> s[1], update_key |-> s[2], at |-> -1]
    BY <1>1 DEF Arrive
  <2>2. s[1] \in Keys /\ s[2] \in Keys
    BY EntriesAssumption
  <2> QED BY <1>1, <2>1, <2>2, LaterOf DEF Arrive, Packet
<1>2. CASE Hold
  BY <1>2, LaterOf DEF Hold
<1>3. CASE Proceed
  BY <1>3, LaterOf DEF Proceed
<1> QED BY <1>1, <1>2, <1>3

LEMMA StillCalm == Calm' /\ (Arrive \/ Hold \/ Proceed) => ~repeated /\ ~repeated' /\ ~spilled'
<1> SUFFICES ASSUME ~repeated', Arrive \/ Hold \/ Proceed PROVE ~repeated
  BY DEF Calm
<1>1. repeated' = repeated \/ repeated' = (repeated \/ pkt.at = 8)
  BY DEF Arrive, Hold, Proceed
<1> QED BY <1>1, Zenon

\* How the packets move: one that leaves stage 8 is at 9, and no other is then.
LEMMA Moves ==
  ASSUME Places, Arrive \/ Hold \/ Proceed, ~repeated'
  PROVE  /\ Places' /\ ~repeated
         /\ Updated' <=> Updating
         /\ Updating => ~Updated
         /\ pkt'.at \in {0, 1} => /\ pkt'.at = pkt.at + 1 /\ pkt'.key = pkt.key
                                  /\ ahead'.at = IF ahead.at = 12 THEN 12 ELSE ahead.at + 1
<1>1. Gap \in Nat /\ Gap >= 6
  BY GapAssumption
<1>2. PICK p \in -1..12, a \in -1..12 : p = pkt.at /\ a = ahead.at /\ (a >= p + 6 \/ a = 12)
  BY DEF Places, Packet
<1>3. PICK p1 \in -1..12, a1 \in -1..12 : p1 = pkt'.at /\ a1 = ahead'.at
  BY PacketsStay DEF Places, Packet
<1>4. pkt' \in Packet /\ ahead' \in Packet
  BY PacketsStay DEF Places
<1>5. CASE Arrive
  <2>1. p >= 4 /\ p1 = -1 /\ a1 = IF p = 12 THEN 12 ELSE p + 1
    BY <1>1, <1>2, <1>3, <1>5, LaterOf DEF Arrive, Places
  <2>2. repeated' = repeated
    BY <1>5 DEF Arrive
  <2> QED BY <1>2, <1>3, <1>4, <2>1, <2>2 DEF Places, Updated, Updating
<1>6. CASE Hold
  <2>1. p >= 4 /\ p <= 8 /\ pkt' = pkt /\ a1 = (IF a = 12 THEN 12 ELSE a + 1) /\ repeated' = (repeated \/ p = 8)
    BY <1>1, <1>2, <1>3, <1>6, LaterOf DEF Hold, Places
  <2>2. p1 = p /\ ~repeated /\ p # 8
    BY <1>2, <1>3, <2>1
  <2> QED BY <1>2, <1>3, <1>4, <2>1, <2>2 DEF Places, Updated, Updating
<1>7. CASE Proceed
  <2>1. /\ p1 = (IF p = 12 THEN 12 ELSE p + 1) /\ pkt'.key = pkt.key
        /\ a1 = (IF a = 12 THEN 12 ELSE a + 1) /\ repeated' = repeated
    BY <1>2, <1>3, <1>7, LaterOf DEF Proceed, Places
  <2> QED BY <1>2, <1>3, <1>4, <2>1 DEF Places, Updated, Updating
<1> QED BY <1>5, <1>6, <1>7

\* What is decided, and for which flow.
LEMMA Decided ==
  ASSUME NEW decided \in Decisions
  PROVE  /\ decided.op \in {"none", "remove", "insert"} /\ decided.value \in Contexts
         /\ decided.op # "none" => Updating
         /\ decided.op = "none" => decided = NoUpdate
  BY EntriesAssumption DEF Decisions, NoUpdate, Removal

LEMMA UpdateKey == pkt \in Packet /\ ahead \in Packet => pkt.key \in Keys /\ update_key \in Keys
  BY DEF Packet, update_key

\* The bucket of k in table t0 had k or nothing, and is given k or nothing: the
\* other flows see no difference.
LEMMA WriteOne ==
  ASSUME Types, NEW t0 \in Tables, NEW k \in Keys, NEW e \in Entry \cup {Empty},
         e = Empty \/ e.key = k, Seat(t0, k) = Empty \/ Holds(Seat(t0, k), k),
         mem' = [mem EXCEPT ![t0] = [mem[t0] EXCEPT ![Hash[t0][k]] = e]],
         latest' = latest
  PROVE  /\ mem' \in [Tables -> [Buckets -> Entry \cup {Empty}]]
         /\ \A j \in Keys \ {k} : Filed(j) => Filed(j)'
         /\ \A t \in Tables \ {t0} : Seat(t, k)' = Seat(t, k)
         /\ Seat(t0, k)' = e
<1>1. mem' \in [Tables -> [Buckets -> Entry \cup {Empty}]]
  BY BucketOf DEF Types
<1>2. \A t \in Tables \ {t0} : \A j \in Keys : Seat(t, j)' = Seat(t, j)
  BY DEF Types, Seat
<1>3. Seat(t0, k)' = e
  BY BucketOf DEF Types, Seat
<1>4. ASSUME NEW j \in Keys \ {k}, Filed(j) PROVE Filed(j)'
  <2>1. CASE Hash[t0][j] = Hash[t0][k]
    <3>1. Seat(t0, j) = Seat(t0, k) /\ Seat(t0, j)' = e
      BY <1>3, <2>1 DEF Seat
    <3>2. ~Holds(Seat(t0, j), j) /\ ~Holds(Seat(t0, j)', j)
      BY <3>1 DEF Holds
    <3>3. Found(j)' = Found(j)
      BY <1>2, <3>2 DEF Found
    <3>4. t0 \notin Found(j)
      BY <3>2 DEF Found
    <3> QED BY <1>2, <1>4, <3>3, <3>4 DEF Filed, FiledAs, Found
  <2>2. CASE Hash[t0][j] # Hash[t0][k]
    <3>1. Seat(t0, j)' = Seat(t0, j)
      BY <2>2, BucketOf DEF Types, Seat
    <3>2. \A t \in Tables : Seat(t, j)' = Seat(t, j)
      BY <1>2, <3>1
    <3>3. Found(j)' = Found(j)
      BY <3>2 DEF Found
    <3> QED BY <1>4, <3>2, <3>3 DEF Filed, FiledAs, Found
  <2> QED BY <2>1, <2>2
<1> QED BY <1>1, <1>2, <1>3, <1>4

\* Only one table is written for a request, where the flow is or where nothing is.
LEMMA WrittenOne ==
  ASSUME Types, RequestOK, InHand, NEW kick \in Tables, Kicked(kick) = Empty,
         ~(req.op = "remove" /\ Found(req.key) = {})
  PROVE  \E t0 \in Tables :
           /\ Written(kick) = {t0}
           /\ Seat(t0, req.key) = Empty \/ Holds(Seat(t0, req.key), req.key)
           /\ Seat(t0, req.key) = Empty <=> Found(req.key) = {}
           /\ Found(req.key) \subseteq {t0}
           /\ CountItemNext = CASE req.op = "remove"  -> count_item - 1
                                [] req.op = "insert" /\ Found(req.key) = {} -> count_item + 1
                                [] OTHER -> count_item
<1> DEFINE k == req.key
<1>1. req.op \in {"insert", "remove"} /\ \A t \in Tables : req.dout[t] = Seat(t, k)
  BY DEF RequestOK
<1>2. Present = Found(k) /\ Vacant = {t \in Tables : Seat(t, k) = Empty}
  BY <1>1 DEF Present, Vacant, Found
<1>3. Tables \subseteq Nat
  BY EntriesAssumption DEF Tables
<1>4. CASE Found(k) # {}
  <2>1. PICK t0 \in Found(k) : Found(k) = {t0}
    BY <1>4 DEF RequestOK
  <2>2. t0 \in Tables /\ Holds(Seat(t0, k), k) /\ Min({t0}) = t0 /\ Seat(t0, k) # Empty
    BY <1>3, <2>1, OnlyOne DEF Found, Holds
  <2>3. Written(kick) = {t0}
    BY <1>1, <1>2, <2>1, <2>2 DEF Written
  <2>4. CountItemNext = IF req.op = "remove" THEN count_item - 1 ELSE count_item
    BY <1>1, <1>2, <1>4 DEF CountItemNext
  <2> QED BY <1>1, <1>4, <2>1, <2>2, <2>3, <2>4
<1>5. CASE Found(k) = {}
  <2>1. req.op = "insert" /\ Present = {}
    BY <1>1, <1>2, <1>5
  <2>2. Vacant # {}
    BY <1>1, <2>1 DEF Kicked, Vacant
  <2>3. Min(Vacant) \in Vacant
    BY <1>3, <2>2, MinOf DEF Vacant
  <2>4. Written(kick) = {Min(Vacant)} /\ CountItemNext = count_item + 1
    BY <2>1, <2>2 DEF Written, CountItemNext
  <2> QED BY <1>2, <1>5, <2>1, <2>3, <2>4
<1> QED BY <1>4, <1>5

WriteOf(kick) ==
  [t \in Tables |->
     IF t \in Written(kick)
     THEN [mem[t] EXCEPT ![Hash[t][req.key]] = IF req.op = "remove" THEN Empty
                                               ELSE [key |-> req.key, value |-> req.value]]
     ELSE mem[t]]

\* The request is carried out on the buckets it was decided on.
LEMMA WriteStep ==
  ASSUME Types, RequestOK, InHand, NEW kick \in Tables, Kicked(kick) = Empty,
         mem' = WriteOf(kick), latest' = latest
  PROVE  /\ mem' \in [Tables -> [Buckets -> Entry \cup {Empty}]]
         /\ \A k \in Keys : Filed(k)'
<1>1. PICK k \in Keys, op \in {"insert", "remove"}, v \in Contexts :
        k = req.key /\ op = req.op /\ v = req.value /\ \A t \in Tables : req.dout[t] = Seat(t, k)
  BY DEF RequestOK
<1> DEFINE e == IF op = "remove" THEN Empty ELSE [key |-> k, value |-> v]
<1>2. e \in Entry \cup {Empty} /\ (e = Empty \/ e.key = k)
  BY Entries
<1>3. Present = Found(k) /\ Vacant = {t \in Tables : Seat(t, k) = Empty}
  BY <1>1 DEF Present, Vacant, Found
<1>4. \A j \in Keys \ {k} : Filed(j)
  BY <1>1 DEF RequestOK
<1>5. /\ \A t, u \in Found(k) : t = u
      /\ latest[k] = IF op = "insert" THEN v ELSE Fresh
  BY <1>1 DEF RequestOK
<1>6. CASE op = "remove" /\ Found(k) = {}
  <2>1. Written(kick) = {}
    BY <1>1, <1>3, <1>6 DEF Written
  <2>2. mem' = mem
    BY <2>1 DEF Types, WriteOf
  <2>3. Filed(k)
    BY <1>5, <1>6 DEF Filed, FiledAs
  <2>4. ASSUME NEW j \in Keys PROVE Filed(j)'
    <3>1. Filed(j) /\ Found(j)' = Found(j) /\ \A t \in Tables : Seat(t, j)' = Seat(t, j)
      BY <1>4, <2>2, <2>3 DEF Found, Seat
    <3> QED BY <3>1 DEF Filed, FiledAs, Found
  <2> QED BY <2>2, <2>4 DEF Types
<1>7. CASE ~(op = "remove" /\ Found(k) = {})
  <2>1. PICK t0 \in Tables : /\ Written(kick) = {t0}
                             /\ Seat(t0, k) = Empty \/ Holds(Seat(t0, k), k)
                             /\ Found(k) \subseteq {t0}
    BY <1>1, <1>7, WrittenOne
  <2>2. mem' = [mem EXCEPT ![t0] = [mem[t0] EXCEPT ![Hash[t0][k]] = e]]
    BY <1>1, <2>1 DEF Types, WriteOf
  <2>3. /\ mem' \in [Tables -> [Buckets -> Entry \cup {Empty}]]
        /\ \A j \in Keys \ {k} : Filed(j)'
        /\ \A t \in Tables \ {t0} : Seat(t, k)' = Seat(t, k)
        /\ Seat(t0, k)' = e
    <3> HIDE DEF e
    <3> QED BY <1>2, <1>4, <2>1, <2>2, WriteOne
  <2>4. \A t \in Tables \ {t0} : ~Holds(Seat(t, k)', k)
    BY <2>1, <2>3 DEF Found
  <2>5. Filed(k)'
    <3>1. CASE op = "remove"
      <4>1. Found(k)' = {}
        BY <2>3, <2>4, <3>1 DEF Found, Holds
      <4> QED BY <1>5, <3>1, <4>1 DEF Filed, FiledAs
    <3>2. CASE op = "insert"
      <4>1. e = [key |-> k, value |-> v] /\ Holds(e, k) /\ e.value = v
        BY <3>2, Entries DEF Holds
      <4>2. Found(k)' = {t0}
        BY <2>3, <2>4, <4>1 DEF Found
      <4> QED BY <1>5, <2>3, <3>2, <4>1, <4>2 DEF Filed, FiledAs
    <3> QED BY <3>1, <3>2
  <2> QED BY <2>3, <2>5
<1> QED BY <1>6, <1>7

\* What a step does while nothing is kicked out: the stash stays empty and nothing
\* is flushed.
LEMMA QuietSignals ==
  ASSUME TableInv, ~repeated, ~spilled', NEW kick \in Tables, NEW decided \in Decisions, NEW search_key,
         HashTable(kick, decided), Stash(kick, decided, search_key)
  PROVE  /\ ~spilled /\ Kicked(kick) = Empty /\ StashQuiet'
         /\ mem' = WriteOf(kick)
         /\ req' = IF decided.op = "none" THEN NoRequest
                   ELSE [op |-> decided.op, key |-> update_key, value |-> decided.value,
                         dout |-> [t \in Tables |->
                                     mem[t][Hash[t][IF Written(kick) # {} THEN req.key ELSE update_key]]]]
         /\ query' = [key |-> pkt.key, dout |-> [t \in Tables |-> Seat(t, pkt.key)]]
<1>1. ~spilled /\ Kicked(kick) = Empty
  BY DEF Stash
<1>2. Types /\ StashQuiet
  BY <1>1 DEF TableInv, Calm
<1>3. \A s \in Seats : stash[s] = Empty
  BY <1>2 DEF StashQuiet
<1>4. ~Flush(kick, decided)
  BY <1>3 DEF Flush
<1>5. StashQuiet'
  <2> DEFINE key == IF Flush(kick, decided) THEN Top.key ELSE search_key
  <2>1. {s \in Seats : Holds(stash[s], key)} = {}
    BY <1>3 DEF Holds
  <2> HIDE DEF key
  <2>2. stash' = [s \in Seats |-> Empty]
    BY <1>1, <1>3, <2>1 DEF Stash, key
  <2>3. stash_out' = Missed
    BY <2>1 DEF Stash, key
  <2> QED BY <2>2, <2>3 DEF StashQuiet
<1>6. KeyFSM(kick, decided) = update_key
  BY <1>4 DEF KeyFSM
<1>7. HashedInsert(kick, decided) = IF Written(kick) # {} THEN req.key ELSE update_key
  BY <1>6 DEF HashedInsert
<1>8. mem' = WriteOf(kick)
  BY DEF HashTable, HashedInsert, WriteOf
<1>9. req' = IF decided.op = "none" THEN NoRequest
              ELSE [op |-> decided.op, key |-> update_key, value |-> decided.value,
                    dout |-> [t \in Tables |-> mem[t][Hash[t][HashedInsert(kick, decided)]]]]
  BY <1>4, <1>6 DEF HashTable
<1>10. query' = [key |-> pkt.key, dout |-> [t \in Tables |-> Seat(t, pkt.key)]]
  BY DEF HashTable, Seat
<1> QED BY <1>1, <1>5, <1>7, <1>8, <1>9, <1>10

\* The answer at stage 0 is what the buckets that were read hold.
LEMMA AnswerStep ==
  ASSUME StashQuiet, pkt.at = 0, NEW decided, Answer(decided), NEW v,
         FiledIn(query.dout, query.key, v)
  PROVE  (IF out'.hit THEN out'.value ELSE Fresh) = v
<1> DEFINE hits == {t \in Tables : Holds(query.dout[t], query.key)}
<1>1. out'.hit = HtHit /\ out'.value = IF HtHit THEN HtValue ELSE Zero
  <2>1. stash_out.hit = FALSE
    BY DEF StashQuiet, Missed
  <2>2. out'.hit = HtHit
    <3>1. out'.hit = (stash_out.hit \/ HtHit)
      BY DEF Answer
    <3> QED BY <2>1, <3>1, Zenon DEF HtHit
  <2>3. out'.value = IF HtHit THEN HtValue ELSE Zero
    <3>1. out'.value = IF HtHit THEN HtValue ELSE IF Search /\ stash_out.hit THEN stash_out.value ELSE Zero
      BY DEF Answer
    <3> QED BY <2>1, <3>1
  <2> QED BY <2>2, <2>3
<1>2. CASE hits = {}
  <2>1. ~HtHit
    BY <1>2 DEF HtHit
  <2> QED BY <1>1, <1>2, <2>1 DEF FiledIn
<1>3. CASE hits # {}
  <2>1. PICK t \in hits : hits = {t}
    BY <1>3 DEF FiledIn
  <2>2. t \in Nat
    BY <2>1, EntriesAssumption DEF Tables
  <2>3. Max(hits) = t
    BY <2>1, <2>2, OnlyOne
  <2>4. HtValue = v
    BY <2>1, <2>3 DEF HtValue, FiledIn
  <2>5. HtHit
    BY <1>3 DEF HtHit, Search
  <2> QED BY <1>1, <2>4, <2>5
<1> QED BY <1>2, <1>3

\* What is read of the tables is what they hold.
LEMMA ReadOf == ASSUME NEW k, NEW v, NEW dout, \A t \in Tables : dout[t] = Seat(t, k)
                PROVE  FiledIn(dout, k, v) <=> FiledAs(k, v)
<1>1. {t \in Tables : Holds(dout[t], k)} = Found(k)
  BY DEF Found
<1>2. Found(k) \subseteq Tables
  BY DEF Found
<1> QED BY <1>1, <1>2 DEF FiledIn, FiledAs

\* What a lookup is to find changes only with an update, while its answer is on
\* the way.
LEMMA ExpectedStep ==
  ASSUME Places, RequestOK, NEW decided \in Decisions, Intend(decided), Arrive \/ Hold \/ Proceed, ~repeated',
         pkt'.at \in {0, 1}
  PROVE  /\ pkt'.at = 0 => FiledAs(pkt.key, Expected')
         /\ pkt'.at = 1 => Expected' = Expected
<1>1. PICK p \in -1..12, a \in -1..12 : p = pkt.at /\ a = ahead.at /\ (a >= p + 6 \/ a = 12)
  BY DEF Places, Packet
<1>2. /\ pkt'.at = p + 1 /\ pkt'.key = pkt.key /\ ahead'.at = (IF a = 12 THEN 12 ELSE a + 1)
      /\ p \in {-1, 0}
  BY <1>1, Moves
<1>3. pkt.key \in Keys
  BY DEF Places, Packet
<1>4. Updating <=> a = 8
  BY <1>1, <1>2 DEF Updating
<1>5. Updated <=> a = 9
  BY <1>1, <1>2 DEF Updated
<1>6. before' = IF a = 8 THEN latest ELSE before
  BY <1>4 DEF Intend
<1>7. a # 8 => latest' = latest
  <2> HAVE a # 8
  <2>1. decided = NoUpdate
    BY <1>4, Decided
  <2> QED BY <2>1 DEF Intend, NoUpdate
<1>8. CASE p = -1
  <2>1. Expected' = (IF a \in {8, 9} THEN before' ELSE latest')[pkt.key]
    BY <1>1, <1>2, <1>8 DEF Expected
  <2>2. CASE a = 8
    <3>1. Filed(pkt.key)
      BY <1>3, <1>5, <2>2 DEF RequestOK
    <3> QED BY <1>2, <1>6, <1>8, <2>1, <2>2, <3>1 DEF Filed
  <2>3. CASE a = 9
    <3>1. FiledAs(pkt.key, before[pkt.key])
      BY <1>3, <1>5, <2>3 DEF RequestOK
    <3> QED BY <1>2, <1>6, <1>8, <2>1, <2>3, <3>1
  <2>4. CASE a \notin {8, 9}
    <3>1. Filed(pkt.key)
      BY <1>3, <1>5, <2>4 DEF RequestOK
    <3> QED BY <1>2, <1>7, <1>8, <2>1, <2>4, <3>1 DEF Filed
  <2> QED BY <2>2, <2>3, <2>4
<1>9. CASE p = 0
  <2>1. Expected = (IF a \in {9, 10} THEN before ELSE latest)[pkt.key]
    BY <1>1, <1>9 DEF Expected
  <2>2. Expected' = (IF a \in {8, 9, 10} THEN before' ELSE latest')[pkt.key]
    BY <1>1, <1>2, <1>9 DEF Expected
  <2>3. Expected' = Expected
    BY <1>6, <1>7, <2>1, <2>2
  <2> QED BY <1>2, <1>9, <2>3
<1> QED BY <1>2, <1>8, <1>9

\* A step that makes no request leaves the tables as they are, or writes what was
\* requested; a packet that leaves stage 8 may make one.
LEMMA RequestStep ==
  ASSUME TableInv, Calm', NEW kick \in Tables, NEW decided \in Decisions, NEW search_key,
         HashTable(kick, decided), Stash(kick, decided, search_key), Intend(decided),
         Arrive \/ Hold \/ Proceed
  PROVE  Types' /\ RequestOK'
<1>1. ~repeated /\ ~repeated' /\ ~spilled'
  BY StillCalm
<1>2. ~spilled /\ Kicked(kick) = Empty /\ mem' = WriteOf(kick)
  BY <1>1, QuietSignals
<1>3. Places /\ Types /\ StashQuiet /\ RequestOK
  BY <1>1, <1>2 DEF TableInv, Calm
<1>4. (Updated' <=> Updating) /\ (Updating => ~Updated)
  BY <1>1, <1>3, Moves
<1>5. before' = IF Updating THEN latest ELSE before
  BY DEF Intend
<1>6. pkt.key \in Keys /\ update_key \in Keys
  BY <1>3, UpdateKey DEF Places
<1>7. CASE InHand
  <2>1. ~Updating
    BY <1>3, <1>4, <1>7 DEF RequestOK
  <2>2. decided.op = "none" /\ decided = NoUpdate
    BY <2>1, Decided
  <2>3. latest' = latest
    BY <2>2 DEF Intend
  <2>4. req' = NoRequest
    BY <1>1, <2>2, QuietSignals
  <2>5. mem' \in [Tables -> [Buckets -> Entry \cup {Empty}]] /\ \A k \in Keys : Filed(k)'
    BY <1>2, <1>3, <1>7, <2>3, WriteStep
  <2>6. Types'
    BY <1>3, <2>3, <2>5 DEF Types
  <2> QED BY <1>4, <2>1, <2>4, <2>5, <2>6 DEF RequestOK, InHand
<1>8. CASE ~InHand
  <2>1. req = NoRequest /\ Written(kick) = {} /\ \A k \in Keys : Filed(k)
    BY <1>3, <1>8 DEF RequestOK, InHand, Written, NoRequest
  <2>2. mem' = mem
    BY <1>2, <1>3, <2>1 DEF Types, WriteOf
  <2>3. req' = IF decided.op = "none" THEN NoRequest
               ELSE [op |-> decided.op, key |-> update_key, value |-> decided.value,
                     dout |-> [t \in Tables |-> Seat(t, update_key)]]
    BY <1>1, <2>1, QuietSignals DEF Seat
  <2>4. \A k \in Keys : Found(k)' = Found(k) /\ \A t \in Tables : Seat(t, k)' = Seat(t, k)
    BY <2>2 DEF Found, Seat
  <2>5. Updated' => \A k \in Keys : FiledAs(k, before[k])'
    <3> SUFFICES ASSUME Updating, NEW k \in Keys PROVE FiledAs(k, before[k])'
      BY <1>4
    <3>1. before'[k] = latest[k] /\ FiledAs(k, latest[k])
      BY <1>5, <2>1 DEF Filed
    <3> QED BY <2>4, <3>1 DEF FiledAs, Found
  <2>6. CASE decided.op = "none"
    <3>1. latest' = latest /\ req' = NoRequest
      BY <2>3, <2>6 DEF Intend
    <3>2. \A k \in Keys : Filed(k)'
      BY <2>1, <2>4, <3>1 DEF Filed, FiledAs, Found
    <3> QED BY <1>3, <2>2, <2>5, <3>1, <3>2 DEF Types, RequestOK, InHand
  <2>7. CASE decided.op # "none"
    <3>1. PICK op \in {"insert", "remove"}, v \in Contexts, u \in Keys :
            op = decided.op /\ v = decided.value /\ u = update_key
      BY <1>6, <2>7, Decided
    <3>2. Updated'
      BY <1>4, <2>7, Decided
    <3>3. latest' = [latest EXCEPT ![u] = IF op = "insert" THEN v ELSE Fresh]
      BY <3>1 DEF Intend
    <3>4. Types'
      BY <1>3, <2>2, <3>3 DEF Types
    <3>5. \A k \in Keys : k # u => Filed(k)'
      <4> TAKE k \in Keys
      <4> HAVE k # u
      <4>1. latest'[k] = latest[k]
        BY <1>3, <3>3 DEF Types
      <4> QED BY <2>1, <2>4, <4>1 DEF Filed, FiledAs, Found
    <3>6. latest'[u] = IF op = "insert" THEN v ELSE Fresh
      BY <1>3, <3>3 DEF Types
    <3>7. \A t, s \in Found(u)' : t = s
      BY <2>1, <2>4 DEF Filed, FiledAs
    <3>8. req' = [op |-> op, key |-> u, value |-> v, dout |-> [t \in Tables |-> Seat(t, u)]]
      BY <2>3, <2>7, <3>1
    <3>9. \A t \in Tables : req'.dout[t] = Seat(t, u)'
      BY <2>4, <3>8
    <3>10. req'.op = op /\ req'.key = u /\ req'.value = v
      BY <3>8
    <3>11. InHand'
      BY <3>10 DEF InHand, NoRequest
    <3>12. \A t, s \in Found(req.key)' : t = s
      BY <3>7, <3>10 DEF Found, Seat
    <3>13. \A t \in Tables : req'.dout[t] = Seat(t, req.key)'
      BY <3>9, <3>10 DEF Seat
    <3>14. \A k \in Keys : (InHand' /\ k = req'.key) \/ Filed(k)'
      BY <3>5, <3>10, <3>11
    <3>15. RequestOK'
      BY <2>5, <3>2, <3>6, <3>10, <3>12, <3>13, <3>14 DEF RequestOK
    <3> QED BY <3>4, <3>15
  <2> QED BY <2>6, <2>7
<1> QED BY <1>7, <1>8

LEMMA LookupStep ==
  ASSUME TableInv, Calm', NEW kick \in Tables, NEW decided \in Decisions, NEW search_key,
         HashTable(kick, decided), Stash(kick, decided, search_key), Answer(decided), Intend(decided),
         Arrive \/ Hold \/ Proceed
  PROVE  LookupOK'
<1>1. ~repeated /\ ~repeated' /\ ~spilled'
  BY StillCalm
<1>2. ~spilled /\ query' = [key |-> pkt.key, dout |-> [t \in Tables |-> Seat(t, pkt.key)]]
  BY <1>1, QuietSignals
<1>3. Places /\ StashQuiet /\ RequestOK /\ LookupOK
  BY <1>1, <1>2 DEF TableInv, Calm
<1>4. pkt'.at \in {0, 1} => pkt'.at = pkt.at + 1 /\ pkt'.key = pkt.key /\ pkt.at \in -1..12
  BY <1>1, <1>3, Moves DEF Places, Packet
<1>5. ASSUME pkt'.at = 0 PROVE query'.key = pkt'.key /\ FiledIn(query'.dout, pkt'.key, Expected')
  <2>1. FiledAs(pkt.key, Expected')
    BY <1>1, <1>3, <1>5, ExpectedStep
  <2>2. \A t \in Tables : query'.dout[t] = Seat(t, pkt.key)
    BY <1>2
  <2>3. FiledIn(query'.dout, pkt.key, Expected')
    BY <2>1, <2>2, ReadOf
  <2> QED BY <1>2, <1>4, <1>5, <2>3
<1>6. ASSUME pkt'.at = 1 PROVE FlowContext' = Expected'
  <2>1. pkt.at = 0
    BY <1>4, <1>6
  <2>2. Expected' = Expected
    BY <1>1, <1>3, <1>6, ExpectedStep
  <2>3. FiledIn(query.dout, query.key, Expected)
    BY <1>3, <2>1 DEF LookupOK
  <2>4. (IF out'.hit THEN out'.value ELSE Fresh) = Expected
    BY <1>3, <2>1, <2>3, AnswerStep
  <2> QED BY <2>2, <2>4 DEF FlowContext
<1> QED BY <1>5, <1>6 DEF LookupOK, FiledIn

LEMMA TableStep == TableInv /\ [Next]_vars => TableInv'
<1> SUFFICES ASSUME TableInv, [Next]_vars, Calm' PROVE (Places /\ Types /\ StashQuiet /\ RequestOK /\ LookupOK)'
  BY DEF TableInv
<1>1. CASE UNCHANGED vars
  <2>1. /\ mem' = mem /\ latest' = latest /\ before' = before /\ pkt' = pkt /\ ahead' = ahead
        /\ stash' = stash /\ stash_out' = stash_out /\ req' = req /\ query' = query /\ out' = out
        /\ spilled' = spilled /\ repeated' = repeated
    BY <1>1 DEF vars, hash_table, pipeline
  <2>2. Places /\ Types /\ StashQuiet /\ RequestOK /\ LookupOK
    BY <2>1 DEF TableInv, Calm
  <2>3. Places' /\ Types' /\ StashQuiet'
    BY <2>1, <2>2 DEF Places, Types, StashQuiet
  <2>4. RequestOK'
    BY <2>1, <2>2 DEF RequestOK, InHand, Updated, Filed, FiledAs, Found, Seat
  <2>5. LookupOK'
    BY <2>1, <2>2 DEF LookupOK, Expected, FlowContext, FiledIn
  <2> QED BY <2>3, <2>4, <2>5
<1>2. ASSUME NEW kick \in Tables, NEW decided \in Decisions, NEW search_key,
             HashTable(kick, decided), Stash(kick, decided, search_key), Answer(decided), Intend(decided),
             Arrive \/ Hold \/ Proceed
      PROVE  (Places /\ Types /\ StashQuiet /\ RequestOK /\ LookupOK)'
  <2>1. ~repeated /\ ~repeated' /\ ~spilled'
    BY <1>2, StillCalm
  <2>2. ~spilled /\ StashQuiet'
    BY <1>2, <2>1, QuietSignals
  <2>3. Places'
    BY <1>2, <2>1, <2>2, Moves DEF TableInv, Calm
  <2> QED BY <1>2, <2>2, <2>3, RequestStep, LookupStep
<1> QED BY <1>1, <1>2 DEF Next

LEMMA TableInit == Init => TableInv
<1> SUFFICES ASSUME Init PROVE Places /\ Types /\ StashQuiet /\ RequestOK /\ LookupOK
  BY DEF TableInv
<1>1. pkt \in Packet /\ ahead = pkt /\ pkt.at = 12
  BY DEF Init, Packet
<1>2. Places /\ Types
  BY <1>1 DEF Init, Types, Places
<1>3. \A k \in Keys : \A t \in Tables : Seat(t, k) = Empty
  BY BucketOf DEF Init, Seat
<1>4. \A k \in Keys : Filed(k)
  BY <1>3 DEF Init, Filed, FiledAs, Found, Holds
<1>5. RequestOK
  BY <1>1, <1>4 DEF Init, RequestOK, InHand, Updated
<1> QED BY <1>1, <1>2, <1>5 DEF Init, StashQuiet, LookupOK

\* A packet finds what those eleven cycles ahead of it, or more, have left of its
\* flow, and what a closer one does is not seen, as long as the hash table has a
\* place for every flow and no packet was held at stage 8.
THEOREM LookupIsRight == Spec => []LookupIsLatest
<1>1. TableInv => LookupIsLatest
  BY DEF TableInv, Calm, LookupOK, Expected, LookupIsLatest
<1> QED BY <1>1, TableInit, TableStep, PTL DEF Spec

-----------------------------------------------------------------------------
(* Filing, whatever is kicked out                                          *)

TablesAre == mem = [t \in Tables |-> [b \in Buckets |-> mem[t][b]]]

\* An entry is in the bucket its key is searched in, also when entries are kicked
\* out and flushed back.
THEOREM EntriesStayFiled == Spec => []EntriesFiled
<1>1. Init => TablesAre /\ EntriesFiled
  BY DEF Init, TablesAre, EntriesFiled
<1>2. TablesAre /\ EntriesFiled /\ [Next]_vars => (TablesAre /\ EntriesFiled)'
  <2> SUFFICES ASSUME TablesAre, EntriesFiled, [Next]_vars PROVE (TablesAre /\ EntriesFiled)'
    OBVIOUS
  <2>1. CASE UNCHANGED vars
    BY <2>1 DEF vars, hash_table, TablesAre, EntriesFiled
  <2>2. ASSUME NEW kick \in Tables, NEW decided \in Decisions, HashTable(kick, decided)
       PROVE  (TablesAre /\ EntriesFiled)'
    <3>1. mem' = [t \in Tables |->
                    IF t \in Written(kick)
                    THEN [mem[t] EXCEPT ![Hash[t][req.key]] =
                            IF req.op = "remove" THEN Empty
                            ELSE [key |-> req.key, value |-> req.value]]
                    ELSE mem[t]]
      BY <2>2 DEF HashTable, HashedInsert
    <3>2. TablesAre'
      BY <3>1 DEF TablesAre
    <3>3. ASSUME NEW t \in Tables, NEW b \in Buckets, mem'[t][b] # Empty PROVE Hash[t][mem'[t][b].key] = b
      <4>1. CASE t \notin Written(kick)
        BY <3>1, <3>3, <4>1 DEF EntriesFiled
      <4>2. CASE t \in Written(kick)
        <5> DEFINE c == Hash[t][req.key]
                   e == IF req.op = "remove" THEN Empty ELSE [key |-> req.key, value |-> req.value]
        <5>1. mem'[t] = [mem[t] EXCEPT ![c] = e]
          BY <3>1, <4>2
        <5>2. mem[t] = [d \in Buckets |-> mem[t][d]]
          BY DEF TablesAre
        <5>3. e # Empty => e.key = req.key
          OBVIOUS
        <5> HIDE DEF c, e
        <5>4. CASE b = c /\ c \in DOMAIN mem[t]
          <6>1. mem'[t][b] = e
            BY <5>1, <5>2, <5>4
          <6> QED BY <3>3, <5>3, <5>4, <6>1 DEF c
        <5>5. CASE ~(b = c /\ c \in DOMAIN mem[t])
          <6>1. mem'[t][b] = mem[t][b] \/ b \notin DOMAIN mem[t]
            BY <5>1, <5>2, <5>5
          <6>2. DOMAIN mem[t] = Buckets
            BY DEF TablesAre
          <6> QED BY <3>3, <6>1, <6>2 DEF EntriesFiled
        <5> QED BY <5>4, <5>5
      <4> QED BY <4>1, <4>2
    <3> QED BY <3>2, <3>3 DEF EntriesFiled
  <2> QED BY <2>1, <2>2 DEF Next
<1> QED BY <1>1, <1>2, PTL DEF Spec

-----------------------------------------------------------------------------
(* The number of entries                                                   *)

Full == {e \in Tables \X Buckets : mem[e[1]][e[2]] # Empty}

LEMMA FullIsFinite == IsFiniteSet(Full) /\ Cardinality(Full) \in 0..NumTables * Cardinality(Buckets)
<1>1. IsFiniteSet(Tables) /\ Cardinality(Tables) = NumTables
  BY EntriesAssumption, FS_Interval DEF Tables
<1>2. /\ IsFiniteSet(Tables \X Buckets)
      /\ Cardinality(Tables \X Buckets) = NumTables * Cardinality(Buckets)
  BY <1>1, BucketsAssumption, FS_Product
<1>3. Full \subseteq Tables \X Buckets
  BY DEF Full
<1>4. IsFiniteSet(Full) /\ Cardinality(Full) <= Cardinality(Tables \X Buckets)
  BY <1>2, <1>3, FS_Subset
<1>5. Cardinality(Full) \in Nat /\ Cardinality(Tables \X Buckets) \in Nat
  BY <1>2, <1>4, FS_CardinalityType
<1> QED BY <1>2, <1>4, <1>5

\* The entries after one place is written.
LEMMA WrittenFull ==
  ASSUME Types, NEW t0 \in Tables, NEW b0 \in Buckets, NEW e,
         mem' = [mem EXCEPT ![t0] = [mem[t0] EXCEPT ![b0] = e]]
  PROVE  Full' = IF e = Empty THEN Full \ {<< t0, b0 >>} ELSE Full \cup {<< t0, b0 >>}
<1>1. \A t \in Tables, b \in Buckets :
        mem'[t][b] = IF t = t0 /\ b = b0 THEN e ELSE mem[t][b]
  BY DEF Types
<1>2. \A c \in Tables \X Buckets :
        /\ c[1] \in Tables /\ c[2] \in Buckets
        /\ (c = << t0, b0 >>) <=> (c[1] = t0 /\ c[2] = b0)
  OBVIOUS
<1>3. \A c \in Tables \X Buckets :
        mem'[c[1]][c[2]] = IF c = << t0, b0 >> THEN e ELSE mem[c[1]][c[2]]
  BY <1>1, <1>2
<1>4. << t0, b0 >> \in Tables \X Buckets
  OBVIOUS
<1>5. Full' = {c \in Tables \X Buckets : mem'[c[1]][c[2]] # Empty}
  BY DEF Full
<1>6. \A c : c \in Full' <=> c \in Tables \X Buckets /\ (IF c = << t0, b0 >> THEN e ELSE mem[c[1]][c[2]]) # Empty
  BY <1>3, <1>5
<1>7. \A c : c \in Full <=> c \in Tables \X Buckets /\ mem[c[1]][c[2]] # Empty
  BY DEF Full
<1>8. CASE e = Empty
  BY <1>6, <1>7, <1>8
<1>9. CASE e # Empty
  BY <1>4, <1>6, <1>7, <1>9
<1> QED BY <1>8, <1>9

CountInv == TableInv /\ (Calm => count_item = Cardinality(Full))

LEMMA CountStep == CountInv /\ [Next]_vars => CountInv'
<1> SUFFICES ASSUME CountInv, [Next]_vars, Calm'
             PROVE  count_item' = Cardinality(Full')
  BY TableStep DEF CountInv
<1>1. CASE UNCHANGED vars
  BY <1>1 DEF vars, hash_table, pipeline, CountInv, Calm, Full
<1>2. ASSUME NEW kick \in Tables, NEW decided \in Decisions, NEW search_key,
             HashTable(kick, decided), Stash(kick, decided, search_key), Arrive \/ Hold \/ Proceed
      PROVE  count_item' = Cardinality(Full')
  <2>0. ~repeated /\ ~repeated' /\ ~spilled'
    BY <1>2, StillCalm
  <2>1. ~spilled /\ Kicked(kick) = Empty /\ mem' = WriteOf(kick)
    BY <1>2, <2>0, QuietSignals DEF CountInv
  <2>2. Types /\ StashQuiet /\ RequestOK /\ count_item = Cardinality(Full)
    BY <2>0, <2>1 DEF CountInv, TableInv, Calm
  <2>3. count_item' = CountItemNext
    BY <1>2 DEF HashTable
  <2>5. CASE Written(kick) = {} /\ CountItemNext = count_item
    <3>1. mem' = mem
      BY <2>1, <2>2, <2>5 DEF Types, WriteOf
    <3>2. Full' = Full
      BY <3>1 DEF Full
    <3> QED BY <2>2, <2>3, <2>5, <3>2
  <2>6. CASE ~InHand
    <3>1. Written(kick) = {} /\ CountItemNext = count_item
      BY <2>6 DEF InHand, Written, NoRequest, CountItemNext
    <3> QED BY <2>5, <3>1
  <2>7. CASE InHand
    <3>1. PICK k \in Keys, op \in {"insert", "remove"}, v \in Contexts :
            k = req.key /\ op = req.op /\ v = req.value /\ \A t \in Tables : req.dout[t] = Seat(t, k)
      BY <2>2, <2>7 DEF RequestOK
    <3>4. CASE op = "remove" /\ Found(k) = {}
      <4>1. Present = {}
        BY <3>1, <3>4 DEF Present, Found
      <4>2. Written(kick) = {} /\ CountItemNext = count_item
        BY <3>1, <3>4, <4>1 DEF Written, CountItemNext
      <4> QED BY <2>5, <4>2
    <3>5. CASE ~(op = "remove" /\ Found(k) = {})
      <4> DEFINE e == IF op = "remove" THEN Empty ELSE [key |-> k, value |-> v]
      <4>1. PICK t0 \in Tables :
              /\ Written(kick) = {t0}
              /\ Seat(t0, k) = Empty <=> Found(k) = {}
              /\ CountItemNext = CASE op = "remove"  -> count_item - 1
                                   [] op = "insert" /\ Found(k) = {} -> count_item + 1
                                   [] OTHER -> count_item
        BY <2>1, <2>2, <2>7, <3>1, <3>5, WrittenOne
      <4>2. PICK b0 \in Buckets : b0 = Hash[t0][k]
        BY BucketOf
      <4>3. mem' = [mem EXCEPT ![t0] = [mem[t0] EXCEPT ![b0] = e]]
        BY <2>1, <2>2, <3>1, <4>1, <4>2 DEF Types, WriteOf
      <4>4. e = Empty <=> op = "remove"
        BY <3>1, Entries
      <4> HIDE DEF e
      <4>5. Full' = IF e = Empty THEN Full \ {<< t0, b0 >>} ELSE Full \cup {<< t0, b0 >>}
        BY <2>2, <4>3, WrittenFull
      <4>6. << t0, b0 >> \in Full <=> Found(k) # {}
        BY <4>1, <4>2 DEF Full, Seat
      <4>7. IsFiniteSet(Full) /\ Cardinality(Full) \in Nat
        BY FullIsFinite, FS_CardinalityType
      <4>8. CASE op = "remove"
        <5>1. Cardinality(Full \ {<< t0, b0 >>}) = Cardinality(Full) - 1
          BY <3>5, <4>6, <4>7, <4>8, FS_RemoveElement
        <5> QED BY <2>2, <2>3, <4>1, <4>4, <4>5, <4>8, <5>1
      <4>9. CASE op = "insert" /\ Found(k) = {}
        <5>1. Cardinality(Full \cup {<< t0, b0 >>}) = Cardinality(Full) + 1
          BY <4>6, <4>7, <4>9, FS_AddElement
        <5> QED BY <2>2, <2>3, <4>1, <4>4, <4>5, <4>9, <5>1
      <4>10. CASE op = "insert" /\ Found(k) # {}
        <5>1. Full' = Full
          BY <4>4, <4>5, <4>6, <4>10
        <5> QED BY <2>2, <2>3, <4>1, <4>10, <5>1
      <4> QED BY <4>8, <4>9, <4>10
    <3> QED BY <3>4, <3>5
  <2> QED BY <2>6, <2>7
<1> QED BY <1>1, <1>2 DEF Next

LEMMA CountInit == Init => CountInv
<1> SUFFICES ASSUME Init PROVE count_item = Cardinality(Full)
  BY TableInit DEF CountInv
<1>1. Full = {}
  BY DEF Init, Full
<1> QED BY <1>1, FS_EmptySet DEF Init

\* count_item is the number of entries in the hash table, and no flow has two
\* of them, as long as no entry has been kicked out and no packet held at stage 8.
THEOREM CountOfEntries == Spec => []CountIsExact
<1>1. CountInv /\ EntriesFiled => CountIsExact
  <2> SUFFICES ASSUME CountInv, EntriesFiled, Calm PROVE
        /\ count_item = Cardinality(Full)
        /\ \A d, e \in Full : mem[d[1]][d[2]].key = mem[e[1]][e[2]].key => d = e
    BY DEF CountIsExact, Full, Calm
  <2>1. Types /\ RequestOK /\ count_item = Cardinality(Full)
    BY DEF CountInv, TableInv
  <2>2. ASSUME NEW d \in Full, NEW e \in Full, mem[d[1]][d[2]].key = mem[e[1]][e[2]].key
        PROVE  d = e
    <3>1. PICK t \in Tables, b \in Buckets : d = << t, b >> /\ mem[t][b] # Empty
      BY DEF Full
    <3>2. PICK u \in Tables, c \in Buckets : e = << u, c >> /\ mem[u][c] # Empty
      BY DEF Full
    <3>3. PICK k \in Keys : mem[t][b].key = k /\ mem[u][c].key = k
      BY <2>1, <2>2, <3>1, <3>2 DEF Types, Entry
    <3>4. Hash[t][k] = b /\ Hash[u][k] = c
      BY <3>1, <3>2, <3>3 DEF EntriesFiled
    <3>5. t \in Found(k) /\ u \in Found(k)
      BY <3>1, <3>2, <3>3, <3>4 DEF Found, Seat, Holds
    <3>6. t = u
      BY <2>1, <3>5 DEF RequestOK, Filed, FiledAs
    <3> QED BY <3>1, <3>2, <3>4, <3>6
  <2> QED BY <2>1, <2>2
<1> QED BY <1>1, CountInit, CountStep, EntriesStayFiled, PTL DEF Spec

-----------------------------------------------------------------------------
(* The registers, whatever is kicked out                                   *)

LEMMA MaxOf == ASSUME NEW N \in Nat, NEW S \in SUBSET (1..N), S # {} PROVE Max(S) \in S
<1> DEFINE R == {N - s : s \in S}
<1>1. R \in SUBSET Nat /\ R # {}
  <2>1. \A s \in S : N - s \in Nat
    OBVIOUS
  <2> QED BY <2>1
<1>2. Min(R) \in R
  BY <1>1, MinOf, Zenon
<1> HIDE DEF R
<1>3. \A y \in R : Min(R) <= y
  <2>1. \E x \in R : \A y \in R : x <= y
    <3>1. IsWellFoundedOn(OpToRel(<, Nat), Nat)
      BY NatLessThanWellFounded, Zenon
    <3>2. PICK x \in R : \A y \in R : ~(<< y, x >> \in OpToRel(<, Nat))
      BY <1>1, <3>1, WFMin, Zenon
    <3>3. \A y \in R : x \in Nat /\ y \in Nat /\ ~(y < x)
      BY <1>1, <3>2 DEF OpToRel
    <3> QED BY <3>3
  <2> QED BY <2>1 DEF Min
<1>4. PICK s \in S : N - s = Min(R)
  BY <1>2 DEF R
<1>5. \A y \in S : s >= y
  <2> TAKE y \in S
  <2>1. N - y \in R
    BY DEF R
  <2>2. N - s <= N - y
    BY <1>3, <1>4, <2>1
  <2> QED BY <2>2
<1> QED BY <1>5 DEF Max

Slot == Entry \cup {Empty}
Request == [op : {"insert", "remove"}, key : Keys, value : Contexts, dout : [Tables -> Slot]]

RegInv == /\ pkt \in Packet /\ ahead \in Packet
          /\ packets \in 0..MaxPackets /\ held \in 0..MaxHolds
          /\ free_counter \in 0..FlushPeriod-1
          /\ latest \in [Keys -> Contexts \cup {Fresh}]
          /\ req \in Request \cup {NoRequest}
          /\ mem \in [Tables -> [Buckets -> Slot]] /\ stash \in [Seats -> Slot]

\* What the hash table and the stash drive in a cycle.
LEMMA Driven ==
  ASSUME RegInv, NEW kick \in Tables, NEW decided \in Decisions
  PROVE  /\ Kicked(kick) \in Slot
         /\ Flush(kick, decided) => Top \in Entry
         /\ KeyFSM(kick, decided) \in Keys /\ HashedInsert(kick, decided) \in Keys
         /\ Written(kick) # {} => req \in Request
<1>1. Written(kick) # {} \/ Kicked(kick) # Empty => req \in Request
  <2>1. req = NoRequest => Written(kick) = {} /\ Kicked(kick) = Empty
    BY DEF NoRequest, Written, Kicked
  <2> QED BY <2>1 DEF RegInv
<1>2. Kicked(kick) \in Slot
  <2>1. CASE Kicked(kick) = Empty
    BY <2>1 DEF Slot
  <2>2. CASE Kicked(kick) # Empty
    BY <1>1, <2>2 DEF Kicked, Request
  <2> QED BY <2>1, <2>2
<1>3. Flush(kick, decided) => Top \in Entry
  <2> HAVE Flush(kick, decided)
  <2> DEFINE T == {s \in Seats : stash[s] # Empty}
  <2>1. T \in SUBSET (1..StashDepth) /\ T # {}
    BY DEF Flush, Seats
  <2>2. Max(T) \in T
    BY <2>1, MaxOf, SizesAssumption
  <2> QED BY <2>2 DEF Top, RegInv, Slot
<1>4. KeyFSM(kick, decided) \in Keys
  <2>1. Flush(kick, decided) => Top.key \in Keys
    BY <1>3 DEF Entry
  <2> QED BY <2>1, UpdateKey DEF KeyFSM, RegInv
<1>5. req \in Request => req.key \in Keys
  BY DEF Request
<1> QED BY <1>1, <1>2, <1>3, <1>4, <1>5 DEF HashedInsert

LEMMA MemStep ==
  ASSUME RegInv, NEW kick \in Tables, NEW decided \in Decisions, HashTable(kick, decided)
  PROVE  mem' \in [Tables -> [Buckets -> Slot]]
<1> DEFINE e == IF req.op = "remove" THEN Empty ELSE [key |-> req.key, value |-> req.value]
           b == HashedInsert(kick, decided)
<1>1. Written(kick) # {} => e \in Slot
  BY Driven DEF Request, Slot, Entry
<1>2. b \in Keys
  BY Driven
<1>3. mem' = [t \in Tables |-> IF t \in Written(kick) THEN [mem[t] EXCEPT ![Hash[t][b]] = e] ELSE mem[t]]
  BY DEF HashTable
<1> HIDE DEF e, b
<1>4. \A t \in Tables : Hash[t][b] \in Buckets /\ mem[t] \in [Buckets -> Slot]
  BY <1>2, BucketOf DEF RegInv
<1> QED BY <1>1, <1>3, <1>4

LEMMA ReqStep ==
  ASSUME RegInv, NEW kick \in Tables, NEW decided \in Decisions, HashTable(kick, decided)
  PROVE  req' \in Request \cup {NoRequest}
<1> DEFINE op == IF Flush(kick, decided) THEN "insert" ELSE decided.op
           value == IF Flush(kick, decided) THEN Top.value ELSE decided.value
           dout == [t \in Tables |-> mem[t][Hash[t][HashedInsert(kick, decided)]]]
<1>1. req' = IF op = "none" THEN NoRequest
             ELSE [op |-> op, key |-> KeyFSM(kick, decided), value |-> value, dout |-> dout]
  BY DEF HashTable
<1>2. dout \in [Tables -> Slot]
  <2>1. \A t \in Tables : mem[t][Hash[t][HashedInsert(kick, decided)]] \in Slot
    BY Driven, BucketOf DEF RegInv
  <2> QED BY <2>1
<1>3. op \in {"none", "insert", "remove"}
  BY Decided
<1>4. value \in Contexts
  BY Decided, Driven DEF Entry
<1> HIDE DEF op, value, dout
<1> QED BY <1>1, <1>2, <1>3, <1>4, Driven DEF Request

LEMMA SeatsStep ==
  ASSUME RegInv, NEW kick \in Tables, NEW decided \in Decisions, NEW search_key,
         Stash(kick, decided, search_key)
  PROVE  stash' \in [Seats -> Slot]
<1> DEFINE in    == Kicked(kick)
           key   == IF Flush(kick, decided) THEN Top.key ELSE search_key
           free  == {s \in Seats : stash[s] = Empty}
           found == {s \in Seats : Holds(stash[s], key)}
           gone  == Flush(kick, decided) \/ decided.op = "remove"
           seat(s) == CASE in # Empty /\ free # {} /\ s = Min(free) -> in
                        [] s \in found /\ gone  -> Empty
                        [] s \in found /\ decided.op = "insert" -> [stash[s] EXCEPT !.value =
                                                       IF in = Empty THEN Zero ELSE in.value]
                        [] OTHER -> stash[s]
<1>1. stash' = [s \in Seats |-> seat(s)]
  BY DEF Stash
<1>2. ASSUME NEW s \in Seats PROVE seat(s) \in Slot
  <2>1. in \in Slot /\ stash[s] \in Slot /\ Empty \in Slot
    BY Driven DEF RegInv, Slot
  <2>2. (IF in = Empty THEN Zero ELSE in.value) \in Contexts
    BY <2>1, EntriesAssumption DEF Slot, Entry
  <2>3. s \in found => [stash[s] EXCEPT !.value = IF in = Empty THEN Zero ELSE in.value] \in Slot
    <3> HAVE s \in found
    <3>1. stash[s] \in Entry
      BY <2>1 DEF Holds, Slot
    <3> HIDE DEF in
    <3> QED BY <2>2, <3>1 DEF Slot, Entry
  <2> HIDE DEF in, found, free, gone
  <2> QED BY <2>1, <2>3
<1> HIDE DEF seat
<1> QED BY <1>1, <1>2

LEMMA RegStep == RegInv /\ [Next]_vars => RegInv'
<1> SUFFICES ASSUME RegInv, [Next]_vars PROVE RegInv'
  OBVIOUS
<1>1. CASE UNCHANGED vars
  BY <1>1 DEF vars, hash_table, pipeline, RegInv
<1>2. ASSUME NEW kick \in Tables, NEW decided \in Decisions, NEW search_key,
             HashTable(kick, decided), Stash(kick, decided, search_key), Intend(decided),
             Arrive \/ Hold \/ Proceed
      PROVE  RegInv'
  <2>1. pkt' \in Packet /\ ahead' \in Packet
    BY <1>2, PacketsStay DEF RegInv
  <2>2. packets' \in 0..MaxPackets /\ held' \in 0..MaxHolds
    <3>1. MaxPackets \in Nat /\ MaxHolds \in Nat /\ packets \in Nat /\ held \in Nat
      BY SizesAssumption DEF RegInv
    <3> QED BY <1>2, <3>1 DEF RegInv, Arrive, Hold, Proceed
  <2>3. free_counter' \in 0..FlushPeriod-1
    <3>1. FlushPeriod \in Nat \ {0} /\ free_counter \in Nat /\ free_counter' = (free_counter + 1) % FlushPeriod
      BY <1>2, SizesAssumption DEF RegInv, Stash
    <3> QED BY <3>1
  <2>4. latest' \in [Keys -> Contexts \cup {Fresh}]
    BY <1>2, Decided DEF RegInv, Intend
  <2> QED BY <1>2, <2>1, <2>2, <2>3, <2>4, MemStep, ReqStep, SeatsStep DEF RegInv
<1> QED BY <1>1, <1>2 DEF Next

LEMMA RegInit == Init => RegInv
<1> SUFFICES ASSUME Init PROVE RegInv
  OBVIOUS
<1>1. Empty \in Slot /\ NoRequest \in {NoRequest}
  BY DEF Slot
<1>2. pkt \in Packet /\ ahead \in Packet
  BY DEF Init, Packet
<1>3. packets \in 0..MaxPackets /\ held \in 0..MaxHolds /\ free_counter \in 0..FlushPeriod-1
  BY SizesAssumption DEF Init
<1> QED BY <1>1, <1>2, <1>3 DEF Init, RegInv

\* The memories, the stash, the request and the packets keep their ranges, also
\* while entries are kicked out and flushed back; count_item keeps that of the
\* number of places as long as none is, and no packet is held at stage 8.
THEOREM TableTypes == Spec => []TypeOK
<1>1. RegInv /\ CountInv => TypeOK
  <2> SUFFICES ASSUME RegInv, CountInv PROVE TypeOK
    OBVIOUS
  <2>1. ~spilled /\ ~repeated => count_item \in 0..NumTables * Cardinality(Buckets)
    BY FullIsFinite DEF CountInv, Calm
  <2>2. req # NoRequest => req.key \in Keys
    BY DEF RegInv, Request
  <2> QED BY <2>1, <2>2 DEF RegInv, Slot, TypeOK
<1> QED BY <1>1, RegInit, RegStep, CountInit, CountStep, PTL DEF Spec
=============================================================================
