-------------------------- MODULE FlowContextTable --------------------------
(***************************************************************************)
(* NetFPGA-SUME-FB: the flow context table, cuckoo.vhd with its hash table *)
(* (ht128dp.vhd) and its stash (stash.vhd), under the packets the pipeline *)
(* of FlowBlaze_core.vhd brings.  A step is a clock cycle: every register  *)
(* is assigned from the values all of them had before it.                  *)
(*                                                                         *)
(* A packet goes through the stages start = -1, startd(0) = 0, ...: it is  *)
(* looked up at 0, what was found is used at 1, and at 8 a flow is         *)
(* inserted, removed or left alone, which need not be the one looked up:   *)
(* the two keys are taken from the header by scopes and masks of their     *)
(* own.  What the program decides, and the context it makes, is up to the  *)
(* environment.  Packets follow each other at Gap cycles or more; the next *)
(* one, when its second word is late, holds startd but not the tables.     *)
(*                                                                         *)
(* The counter that selects the table to kick an entry out of is scrambled *)
(* in every cycle: here, any table.  The host's own reads and writes of    *)
(* the memories are left out, and so is the pause that stops the flushing. *)
(***************************************************************************)
EXTENDS Integers, FiniteSets, FiniteSetsExt

CONSTANTS Keys, Contexts,
          Zero, Fresh,           (* the context of zeros; that of a new flow *)
          Scopes,                (* << key looked up, key updated >> of the
                                    packets that may come                *)
          NumTables, Hash,       (* table |-> [key |-> bucket]           *)
          StashDepth, FlushPeriod,
          Gap,                   (* cycles from a packet to the next one *)
          MaxPackets, MaxHolds,  (* bounds: packets that arrive, cycles
                                    that the second word of one is late  *)
          Empty                  (* an entry without its "present" bit   *)

\* Six cycles is what the controller gives (Controller!SixStagesApart), eleven
\* are needed for a packet to find what the one before it has left.
ASSUME GapAssumption == Gap \in Nat /\ Gap >= 6
ASSUME EntriesAssumption == /\ Keys # {} /\ Scopes \subseteq Keys \X Keys /\ NumTables \in Nat \ {0}
                            /\ Zero \in Contexts /\ Fresh \notin Contexts
                            /\ Empty \notin [key : Keys, value : Contexts]

ASSUME SizesAssumption == /\ StashDepth \in Nat /\ FlushPeriod \in Nat \ {0}
                          /\ MaxPackets \in Nat /\ MaxHolds \in Nat

Tables  == 1..NumTables
Buckets == {Hash[t][k] : t \in Tables, k \in Keys}
Seats   == 1..StashDepth

ASSUME BucketsAssumption == IsFiniteSet(Buckets)

VARIABLES
  mem,            \* ht_mem1 to ht_mem4: table |-> [bucket |-> entry]
  query,          \* search_d, dout_query: the key searched, what its buckets held
  req,            \* insert_d or remove_d, key_d, value_d and dout_insert
  insert_d,       \* the cuckoo's: a packet inserted in the last cycle
  count_item,     \* a negative number is one that has wrapped around
  stash, free_counter,
  stash_out,      \* the stash's registers hit and search_value
  out,            \* the cuckoo's
  pkt,            \* the last packet: its keys, and the stage it is at, which
  ahead,          \* counts cycles behind 8, up to 12; and the one before it
  held,           \* cycles the next packet has waited for its second word
  packets,
  latest,         \* history: the context each flow should have
  before,         \* history: latest, before the last time a packet was at stage 8
  spilled,        \* history: the hash table has kicked an entry out
  repeated        \* history: a packet was held at stage 8
hash_table == << mem, query, req, count_item >>
pipeline == << pkt, ahead, held, packets, repeated >>
vars == << hash_table, insert_d, stash, free_counter, stash_out, out, pipeline, latest, before, spilled >>

Entry == [key : Keys, value : Contexts]
Packet == [key : Keys, update_key : Keys, at : -1..12]
NoRequest == [op |-> "none"]
Missed == [hit |-> FALSE, value |-> Zero]

Init ==
  /\ mem = [t \in Tables |-> [b \in Buckets |-> Empty]]
  /\ query = [key |-> Empty, dout |-> [t \in Tables |-> Empty]]
  /\ req = NoRequest /\ insert_d = FALSE /\ count_item = 0
  /\ stash = [s \in Seats |-> Empty] /\ free_counter = 0
  /\ stash_out = Missed /\ out = Missed
  /\ \E k \in Keys : pkt = [key |-> k, update_key |-> k, at |-> 12] /\ ahead = pkt
  /\ held = 0 /\ packets = 0
  /\ latest = [k \in Keys |-> Fresh] /\ before = latest /\ spilled = FALSE /\ repeated = FALSE

Holds(entry, key) == entry # Empty /\ entry.key = key

-----------------------------------------------------------------------------
(* The signals of a cycle                                                  *)

\* Mutant of Search: a cycle late.
SearchLate == pkt.at = 1

Search == pkt.at = 0
PreInsert == pkt.at = 2

\* update_key is that of the header that is at stage 8.
Updating == ahead.at = 8 \/ pkt.at = 8
update_key == IF ahead.at = 8 THEN ahead.update_key ELSE pkt.update_key

\* What action_d3 and the ALU hold for the packet at stage 8, if there is one.
\* They move on while startd is held: each cycle of it has a decision of its own.
NoUpdate == [op |-> "none", value |-> Zero]
Removal  == [op |-> "remove", value |-> Zero]
Decisions == IF Updating THEN {NoUpdate, Removal} \cup [op : {"insert"}, value : Contexts] ELSE {NoUpdate}

\* The answer of the hash table: of several, that of the last table.
HtHit == Search /\ \E t \in Tables : Holds(query.dout[t], query.key)
HtValue == query.dout[Max({t \in Tables : Holds(query.dout[t], query.key)})].value

\* Control logic of ht128dp for the registered request: the tables that are
\* written, and the entry that loses its place if table kick is chosen for it.
Present == {t \in Tables : Holds(req.dout[t], req.key)}
Vacant  == {t \in Tables : req.dout[t] = Empty}

\* Mutant of Written: a free place is taken before the key is looked for.
WrittenVacantFirst(kick) ==
  CASE req.op = "none"                    -> {}
    [] req.op = "remove" /\ Present = {}  -> {}
    [] req.op = "remove" /\ Present # {}  -> {Min(Present)}
    [] req.op = "insert" /\ Vacant # {}   -> {Min(Vacant)}
    [] req.op = "insert" /\ Present # {}  -> Present
    [] OTHER                              -> {kick}

Written(kick) ==
  CASE req.op = "none"                    -> {}
    [] req.op = "remove" /\ Present = {}  -> {}
    [] req.op = "remove" /\ Present # {}  -> {Min(Present)}
    [] req.op = "insert" /\ Present # {}  -> Present
    [] req.op = "insert" /\ Present = {} /\ Vacant # {} -> {Min(Vacant)}
    [] OTHER                              -> {kick}
Kicked(kick) ==
  IF req.op = "insert" /\ Present = {} /\ Vacant = {} THEN req.dout[kick] ELSE Empty

\* The stash asks for a place in the hash table when nothing else happens.
Top == stash[Max({s \in Seats : stash[s] # Empty})]
Flush(kick, decided) ==
  /\ free_counter = 0
  /\ \E s \in Seats : stash[s] # Empty
  /\ ~Search /\ ~PreInsert /\ decided = NoUpdate /\ ~insert_d
  /\ Kicked(kick) = Empty

-----------------------------------------------------------------------------
(* The registers                                                           *)

\* key_FSM: the flushed entry's, or else that of the packet at stage 8.
KeyFSM(kick, decided) == IF Flush(kick, decided) THEN Top.key ELSE update_key

\* Mutant of HashedInsert: the address is always that of the new request.
HashedInsertCurrent(kick, decided) == KeyFSM(kick, decided)

\* Port B of the memories has one address, that of the write if there is one.
HashedInsert(kick, decided) == IF Written(kick) # {} THEN req.key ELSE KeyFSM(kick, decided)

\* Mutant of CountItemNext: a removal that finds nothing counts, too.
CountItemNextUnasked ==
  CASE req.op = "remove"                                -> count_item - 1
    [] req.op = "insert" /\ Present = {} /\ Vacant # {} -> count_item + 1
    [] OTHER                                            -> count_item

CountItemNext ==
  CASE req.op = "remove" /\ Present # {}                -> count_item - 1
    [] req.op = "insert" /\ Present = {} /\ Vacant # {} -> count_item + 1
    [] OTHER                                            -> count_item

\* A read returns what was there before the write of the same cycle.  What is
\* read for a key while no packet is looked up is not used.
HashTable(kick, decided) ==
  LET value == IF Flush(kick, decided) THEN Top.value ELSE decided.value
      op    == IF Flush(kick, decided) THEN "insert" ELSE decided.op
      bucket(t) == Hash[t][HashedInsert(kick, decided)]
  IN  /\ mem' = [t \in Tables |->
                   IF t \in Written(kick)
                   THEN [mem[t] EXCEPT ![bucket(t)] =
                           IF req.op = "remove" THEN Empty
                           ELSE [key |-> req.key, value |-> req.value]]
                   ELSE mem[t]]
      /\ req' = IF op = "none" THEN NoRequest
                ELSE [op |-> op, key |-> KeyFSM(kick, decided), value |-> value,
                      dout |-> [t \in Tables |-> mem[t][bucket(t)]]]
      /\ query' = [key |-> pkt.key, dout |-> [t \in Tables |-> mem[t][Hash[t][pkt.key]]]]
      /\ count_item' = CountItemNext

\* full_header is that of the last packet until words of the next one come in.
SearchKeys == IF pkt.at < Gap - 2 THEN {pkt.key} ELSE Keys

\* An entry kicked out takes the first free seat, or is evicted.  The stash has
\* one key to search for, update and remove: a packet at stage 8 meets the copy
\* of the flow that full_header gives then, whose value becomes that of the
\* input, the kicked entry's.
Stash(kick, decided, search_key) ==
  LET in    == Kicked(kick)
      key   == IF Flush(kick, decided) THEN Top.key ELSE search_key
      free  == {s \in Seats : stash[s] = Empty}
      found == {s \in Seats : Holds(stash[s], key)}
  IN  /\ stash' = [s \in Seats |->
           CASE in # Empty /\ free # {} /\ s = Min(free) -> in
             [] s \in found /\ (Flush(kick, decided) \/ decided.op = "remove") -> Empty
             [] s \in found /\ decided.op = "insert" -> [stash[s] EXCEPT !.value =
                                                 IF in = Empty THEN Zero ELSE in.value]
             [] OTHER -> stash[s]]
      /\ stash_out' = IF Search /\ found # {}
                      THEN [hit |-> TRUE, value |-> stash[Max(found)].value] ELSE Missed
      /\ free_counter' = (free_counter + 1) % FlushPeriod
      /\ spilled' = (spilled \/ in # Empty)

\* The stash answers a cycle after the hash table, when search is over.
Answer(decided) ==
  /\ out' = [hit   |-> stash_out.hit \/ HtHit,
             value |-> IF HtHit THEN HtValue
                       ELSE IF Search /\ stash_out.hit THEN stash_out.value ELSE Zero]
  /\ insert_d' = (decided.op = "insert")

\* flow_context, if there is a hit when it is used.
FlowContext == IF out.hit THEN out.value ELSE Fresh

Intend(decided) ==
  /\ latest' = CASE decided.op = "insert" -> [latest EXCEPT ![update_key] = decided.value]
                 [] decided.op = "remove" -> [latest EXCEPT ![update_key] = Fresh]
                 [] OTHER -> latest
  /\ before' = IF Updating THEN latest ELSE before

-----------------------------------------------------------------------------
(* The pipeline                                                            *)

Later(p) == [p EXCEPT !.at = IF p.at = 12 THEN 12 ELSE p.at + 1]

\* The second word of the next packet is taken.
Arrive ==
  /\ pkt.at >= Gap - 2 /\ packets < MaxPackets
  /\ \E s \in Scopes : pkt' = [key |-> s[1], update_key |-> s[2], at |-> -1]
  /\ ahead' = Later(pkt) /\ held' = 0 /\ packets' = packets + 1
  /\ UNCHANGED repeated

\* It is late: startd stays as it is.
Hold ==
  /\ pkt.at \in (Gap - 2)..8 /\ packets < MaxPackets /\ held < MaxHolds
  /\ held' = held + 1 /\ ahead' = Later(ahead)
  /\ repeated' = (repeated \/ pkt.at = 8)
  /\ UNCHANGED << pkt, packets >>

Proceed ==
  /\ held = 0
  /\ pkt' = Later(pkt) /\ ahead' = Later(ahead)
  /\ UNCHANGED << held, packets, repeated >>

Next == \E kick \in Tables, decided \in Decisions, search_key \in SearchKeys :
          /\ HashTable(kick, decided) /\ Stash(kick, decided, search_key)
          /\ Answer(decided) /\ Intend(decided)
          /\ (Arrive \/ Hold \/ Proceed)

Spec == Init /\ [][Next]_vars

-----------------------------------------------------------------------------
(* Properties                                                              *)

TypeOK ==
  /\ mem \in [Tables -> [Buckets -> Entry \cup {Empty}]]
  /\ stash \in [Seats -> Entry \cup {Empty}]
  /\ free_counter \in 0..FlushPeriod-1
  /\ ~spilled /\ ~repeated => count_item \in 0..NumTables * Cardinality(Buckets)
  /\ pkt \in Packet /\ ahead \in Packet /\ packets \in 0..MaxPackets /\ held \in 0..MaxHolds
  /\ req # NoRequest => req.key \in Keys
  /\ latest \in [Keys -> Contexts \cup {Fresh}]

\* An entry is in the bucket its key is searched in, though the address of the
\* memories is shared by the read for one request and the write for another.
EntriesFiled ==
  \A t \in Tables, b \in Buckets : mem[t][b] # Empty => Hash[t][mem[t][b].key] = b

\* ht128dp.vhd:239 "OUTPUT logic: select the query answer": as long as the
\* hash table has a place for every flow, a packet finds what the packets eleven
\* cycles ahead of it, or more, have left of its flow, and nothing if that was
\* removed.  One that is closer is not seen yet, whether it is before stage 8 at
\* the lookup or behind it.  A packet that was held at stage 8 has updated its
\* flow in every cycle, deciding on what was there before.
LookupIsLatest ==
  ~spilled /\ ~repeated /\ pkt.at = 1 =>
    FlowContext = (IF ahead.at \in 9..11 THEN before ELSE latest)[pkt.key]

\* count_item, which the host reads, counts the entries of the hash table, and
\* no flow has two of them.
CountIsExact ==
  LET entries == {e \in Tables \X Buckets : mem[e[1]][e[2]] # Empty}
  IN  ~spilled /\ ~repeated =>
         /\ count_item = Cardinality(entries)
         /\ \A d, e \in entries : mem[d[1]][d[2]].key = mem[e[1]][e[2]].key => d = e

\* docs/FlowBlaze_HW.md:37 "logic that moves the entries between the two
\* subsystems": no entry is lost on the way, unless the stash was full.
FlowsKept ==
  \A k \in Keys : latest[k] # Fresh =>
    \/ \E t \in Tables : Holds(mem[t][Hash[t][k]], k)
    \/ \E s \in Seats : Holds(stash[s], k)
    \/ req # NoRequest /\ req.key = k
    \/ \A s \in Seats : stash[s] # Empty
=============================================================================
