-------------------------- MODULE XfsmWorker_proofs --------------------------
(***************************************************************************)
(* SW-FB's worker, for every program, every packet and every size of the   *)
(* pool.  First its instance store: the three store invariants of          *)
(* XfsmWorker hold together or not at all.  A row's actions write into the *)
(* slot the lookup found: free slots stay clean only because that slot is  *)
(* still in use (InstanceOfTheKey); it is given back under the right key   *)
(* only because the instance remembers the key it is filed under           *)
(* (StoreConsistent).  StoreInv adds the types these arguments need.       *)
(*                                                                         *)
(* Then, for programs and packets the code gets right (Supported): the     *)
(* table finds the first row that applies, a packet is filed under its own *)
(* key, and the worker implements one machine per flow (FlowEFSM).         *)
(***************************************************************************)
EXTENDS XfsmWorker, Xfsm_proofs

\* The pool is a function over the slots, whatever its values are: what the
\* actions compute is not needed here.
StoreType ==
  /\ flow_key = [s \in Slots |-> flow_key[s]]
  /\ pool = [s \in Slots |-> pool[s]]
  /\ \A k \in DOMAIN hmap : hmap[k] \in Slots
  /\ pc = "load" => DOMAIN hmap = {}

StoreInv == StoreType /\ StoreConsistent /\ FreeSlotsClean /\ InstanceOfTheKey

-----------------------------------------------------------------------------
\* The zeroed pool of a program that is not loaded yet.
LEMMA InitStore == Init => StoreInv
  BY DEF Init, StoreInv, StoreType, StoreConsistent, FreeSlotsClean, InstanceOfTheKey,
         InitInstance, Free

\* Steps of the worker that leave the store alone and do not enter the match.
LEMMA QuietStep ==
  ASSUME StoreInv, UNCHANGED << hmap, flow_key, pool >>,
         pc # "load", pc' # "load",
         pc' \in {"match", "actions"} => /\ pc \in {"match", "actions"}
                                         /\ UNCHANGED << fk, match_inst >>
  PROVE  StoreInv'
<1>1. hmap' = hmap /\ flow_key' = flow_key /\ pool' = pool
  OBVIOUS
<1>2. StoreType' /\ StoreConsistent'
  BY <1>1 DEF StoreInv, StoreType, StoreConsistent
<1>3. FreeSlotsClean'
  BY <1>1 DEF StoreInv, FreeSlotsClean, Free
<1>4. InstanceOfTheKey'
  BY <1>1 DEF StoreInv, InstanceOfTheKey
<1> QED BY <1>2, <1>3, <1>4 DEF StoreInv

\* Loading (xfsm_table_create) initialises every slot again.
LEMMA LoadKeepsStore == StoreInv /\ (CreateTable \/ CreateNextTable) => StoreInv'
<1>1. ASSUME StoreInv, CreateTable PROVE StoreInv'
  <2>1. pc' \in {"rx", "load_next"} /\ UNCHANGED hmap /\ DOMAIN hmap = {}
    BY <1>1 DEF CreateTable, StoreInv, StoreType
  <2>2. \A s \in Slots : pool'[s] = InitInstance(0)
    BY <1>1 DEF CreateTable
  <2>3. StoreType'
    BY <1>1, <2>1 DEF CreateTable, StoreType
  <2>4. FreeSlotsClean'
    BY <2>2 DEF FreeSlotsClean, Free, InitInstance
  <2> QED BY <2>1, <2>3, <2>4 DEF StoreInv, StoreConsistent, InstanceOfTheKey
<1>2. ASSUME StoreInv, CreateNextTable PROVE StoreInv'
  BY <1>2, QuietStep DEF CreateNextTable, store
<1> QED BY <1>1, <1>2

\* lookup_instance finds the key: its instance becomes the one in hand.
LEMMA FoundKeepsStore == StoreInv /\ LookupFound => StoreInv'
<1> SUFFICES ASSUME StoreInv, LookupFound PROVE StoreInv'
  OBVIOUS
<1>1. UNCHANGED << hmap, flow_key, pool, fk >> /\ pc' = "match"
  BY DEF LookupFound, store
<1>2. StoreType' /\ StoreConsistent'
  BY <1>1 DEF StoreInv, StoreType, StoreConsistent
<1>3. FreeSlotsClean'
  BY <1>1 DEF StoreInv, FreeSlotsClean, Free
<1>4. InstanceOfTheKey'
  BY <1>1 DEF LookupFound, InstanceOfTheKey
<1> QED BY <1>2, <1>3, <1>4 DEF StoreInv

\* insert_instance files the key under a free slot: no key had that slot, and
\* every other key keeps its own.
LEMMA InsertKeepsStore == StoreInv /\ LookupInserted => StoreInv'
<1> SUFFICES ASSUME StoreInv, LookupInserted PROVE StoreInv'
  OBVIOUS
<1>1. PICK slot \in Free : InsertInstance(slot) /\ match_inst' = slot
  BY DEF LookupInserted
<1>2. slot \in Slots /\ \A k \in DOMAIN hmap : hmap[k] # slot
  BY <1>1 DEF Free
<1>3. fk \notin DOMAIN hmap /\ UNCHANGED << fk, pool >> /\ pc' = "match"
  BY <1>1 DEF LookupInserted, InsertInstance
<1>4. /\ DOMAIN hmap' = DOMAIN hmap \cup {fk}
      /\ hmap'[fk] = slot
      /\ \A k \in DOMAIN hmap : hmap'[k] = hmap[k]
  BY <1>1, <1>3 DEF InsertInstance
<1>5. /\ flow_key'[slot] = fk
      /\ \A s \in Slots \ {slot} : flow_key'[s] = flow_key[s]
      /\ flow_key' = [s \in Slots |-> flow_key'[s]]
  BY <1>1, <1>2 DEF InsertInstance, StoreInv, StoreType
<1>6. StoreType'
  BY <1>2, <1>3, <1>4, <1>5 DEF StoreInv, StoreType
<1>7. StoreConsistent'
  <2>1. ASSUME NEW k \in DOMAIN hmap' PROVE flow_key'[hmap'[k]] = k
    <3>1. CASE k = fk
      BY <3>1, <1>4, <1>5
    <3>2. CASE k \in DOMAIN hmap
      BY <3>2, <1>2, <1>4, <1>5 DEF StoreInv, StoreType, StoreConsistent
    <3> QED BY <1>4, <3>1, <3>2
  <2>2. ASSUME NEW k \in DOMAIN hmap', NEW l \in DOMAIN hmap', hmap'[l] = hmap'[k]
        PROVE  l = k
    BY <2>1, <2>2
  <2> QED BY <2>1, <2>2 DEF StoreConsistent
<1>8. Free' \subseteq Free
  BY <1>4 DEF Free
<1>9. FreeSlotsClean'
  BY <1>3, <1>8 DEF StoreInv, FreeSlotsClean
<1>10. InstanceOfTheKey'
  BY <1>1, <1>3, <1>4 DEF InstanceOfTheKey
<1> QED BY <1>6, <1>7, <1>9, <1>10 DEF StoreInv

\* The actions write into the instance of the packet's key, which is in use.
LEMMA TransitionKeepsStore == StoreInv /\ ActionsTransition => StoreInv'
<1> SUFFICES ASSUME StoreInv, ActionsTransition PROVE StoreInv'
  OBVIOUS
<1>1. /\ match_inst \in Slots
      /\ match_inst \notin Free
  BY DEF ActionsTransition, StoreInv, StoreType, InstanceOfTheKey, Free
<1>2. UNCHANGED << hmap, flow_key >> /\ pc' \in {"free", "parse"}
  BY DEF ActionsTransition
<1>3. /\ pool' = [s \in Slots |-> pool'[s]]
      /\ \A s \in Slots \ {match_inst} : pool'[s] = pool[s]
  BY <1>1 DEF ActionsTransition, StoreInv, StoreType
<1>4. StoreType' /\ StoreConsistent' /\ InstanceOfTheKey'
  BY <1>2, <1>3 DEF StoreInv, StoreType, StoreConsistent, InstanceOfTheKey
<1>5. Free' = Free /\ Free \subseteq Slots
  BY <1>2 DEF Free
<1>6. FreeSlotsClean'
  BY <1>1, <1>3, <1>5 DEF StoreInv, FreeSlotsClean
<1> QED BY <1>4, <1>6 DEF StoreInv

\* destroy_instance: the instance remembers the key it is filed under, so that
\* key is removed, and the slot it frees has just been initialised.
LEMMA DestroyKeepsStore == StoreInv /\ ActionsDestroy => StoreInv'
<1> SUFFICES ASSUME StoreInv, ActionsDestroy PROVE StoreInv'
  OBVIOUS
<1>1. fk \in DOMAIN hmap /\ hmap[fk] = match_inst /\ flow_key[match_inst] = fk
  BY DEF ActionsDestroy, StoreInv, StoreConsistent, InstanceOfTheKey
<1>2. match_inst \in Slots /\ pc' = "free"
  BY <1>1 DEF ActionsDestroy, StoreInv, StoreType
<1>3. /\ hmap' = [k \in DOMAIN hmap \ {fk} |-> hmap[k]]
      /\ flow_key' = [flow_key EXCEPT ![match_inst] = ZeroKey]
      /\ pool' = [pool EXCEPT ![match_inst] = InitInstance(InitialState)]
  BY <1>1 DEF ActionsDestroy, DestroyInstance
<1>4. \A k \in DOMAIN hmap' : /\ k \in DOMAIN hmap /\ hmap'[k] = hmap[k]
                              /\ hmap[k] # match_inst
  BY <1>1, <1>3 DEF StoreInv, StoreConsistent
<1>5. /\ flow_key' = [s \in Slots |-> flow_key'[s]] /\ pool' = [s \in Slots |-> pool'[s]]
      /\ \A s \in Slots \ {match_inst} : flow_key'[s] = flow_key[s] /\ pool'[s] = pool[s]
      /\ pool'[match_inst] = InitInstance(InitialState)
  BY <1>2, <1>3 DEF StoreInv, StoreType
<1>6. StoreType' /\ StoreConsistent' /\ InstanceOfTheKey'
  <2>1. StoreType'
    BY <1>2, <1>4, <1>5 DEF ActionsDestroy, StoreInv, StoreType
  <2>2. ASSUME NEW k \in DOMAIN hmap' PROVE flow_key'[hmap'[k]] = k
    BY <1>4, <1>5, <2>2 DEF StoreInv, StoreType, StoreConsistent
  <2>3. ASSUME NEW k \in DOMAIN hmap', NEW l \in DOMAIN hmap', hmap'[l] = hmap'[k]
        PROVE  l = k
    BY <2>2, <2>3
  <2> QED BY <1>2, <2>1, <2>2, <2>3 DEF StoreConsistent, InstanceOfTheKey
<1>7. Free' \subseteq Free \cup {match_inst} /\ Free' \subseteq Slots
  BY <1>1, <1>3 DEF Free
<1>8. FreeSlotsClean'
  BY <1>5, <1>7 DEF StoreInv, FreeSlotsClean, InitInstance
<1> QED BY <1>6, <1>8 DEF StoreInv

\* Every step of the worker keeps the store's invariant.
LEMMA StepKeepsStore == StoreInv /\ [Next]_vars => StoreInv'
<1> SUFFICES ASSUME StoreInv, [Next]_vars PROVE StoreInv'
  OBVIOUS
<1>1. CASE CreateTable \/ CreateNextTable
  BY <1>1, LoadKeepsStore
<1>2. ASSUME NEW p \in Packets, Receive(p) PROVE StoreInv'
  BY <1>2, QuietStep DEF Receive, store
<1>3. CASE ParseAndExtract
  BY <1>3, QuietStep DEF ParseAndExtract, store
<1>4. CASE LookupFound
  BY <1>4, FoundKeepsStore
<1>5. CASE LookupInserted
  BY <1>5, InsertKeepsStore
<1>6. CASE MatchRow
  BY <1>6, QuietStep DEF MatchRow, store
<1>7. CASE ActionsDestroy
  BY <1>7, DestroyKeepsStore
<1>8. CASE ActionsTransition
  BY <1>8, TransitionKeepsStore
<1>9. CASE FreePacket
  BY <1>9, QuietStep DEF FreePacket, store
<1>10. CASE Crash
  BY <1>10, QuietStep DEF Crash, NoSuchTable, LookupFailed, ActionTrap, store
<1>11. CASE UNCHANGED vars
  BY <1>11, SMTT(30) DEF vars, work, store, StoreInv, StoreType, StoreConsistent, FreeSlotsClean,
               InstanceOfTheKey, Free
<1> QED BY <1>1, <1>2, <1>3, <1>4, <1>5, <1>6, <1>7, <1>8, <1>9, <1>10, <1>11
           DEF Next, Process

\* The store's invariant holds throughout a run of the worker.
LEMMA StoreSafe == Spec => []StoreInv
  BY InitStore, StepKeepsStore, PTL DEF Spec

-----------------------------------------------------------------------------
\* insert_instance and destroy_instance never let two flows share an instance,
\* and an instance in use always holds the key it is filed under.
THEOREM StoreIsConsistent == Spec => []StoreConsistent
  BY StoreSafe, PTL DEF StoreInv

\* A slot handed to a new flow holds nothing of the flow that had it before,
\* although insert_instance does not initialise it.
THEOREM RecycledSlotsAreClean == Spec => []FreeSlotsClean
  BY StoreSafe, PTL DEF StoreInv

\* From the lookup to the actions, the instance in hand is the packet's own.
THEOREM ActionsHitTheOwnInstance == Spec => []InstanceOfTheKey
  BY StoreSafe, PTL DEF StoreInv

-----------------------------------------------------------------------------
(* The rows xfsm_table_create groups and xfsm_table_lookup searches        *)

NumRows == Len(Rows)

\* What the table of a program needs to mean what the program says: states of
\* its own (none is "any", Rows[i].state = STATE_NULL), no more of them than the
\* hash map holds and no more rows of one than a node holds, a condition to
\* test, the initial state 0 that a zeroed instance has, and transitions to
\* states of the program, not back to the first stage with the same packet.
ProgramOK ==
  /\ NumRows \in Nat /\ DOMAIN Rows = 1..NumRows
  /\ MaxEntriesForeachState \in Nat
  /\ Cardinality({0} \cup {Rows[i].state : i \in 1..NumRows}) <= MaxEntriesForeachState
  /\ \A s \in {Rows[i].state : i \in 1..NumRows} :
       Cardinality({i \in 1..NumRows : Rows[i].state = s}) <= MaxEntriesForeachState
  /\ DOMAIN Conditions # {}
  /\ InitialState = 0
  /\ \A i \in 1..NumRows : /\ Rows[i].state # STATE_NULL
                           /\ Rows[i].next_state # STATE_NULL
                           /\ Rows[i].next_stage # 0

\* entries are the rows of the state among the first upto, in program order.
InOrder(entries, state, upto) ==
  /\ entries \in Seq(1..NumRows)
  /\ \A a, b \in DOMAIN entries : a < b => entries[a] < entries[b]
  /\ \A i \in 1..NumRows :
       (\E a \in DOMAIN entries : entries[a] = i) <=> i <= upto /\ Rows[i].state = state

\* The rows for a state that agree with the results of the conditions, and the
\* first of them.
Agreeing(state, results) ==
  {i \in 1..NumRows : /\ Rows[i].state = state
                      /\ \A c \in DOMAIN results : Rows[i].results[c] \in {"DONT_CARE", results[c]}}
Leading(state, results) ==
  IF Agreeing(state, results) = {} THEN 0 ELSE Min(Agreeing(state, results))

\* The table of a program: the rows of every state, in program order.
LEMMA EntriesInOrder ==
  ASSUME ProgramOK
  PROVE  /\ \A s \in DOMAIN Entries : InOrder(Entries[s], s, NumRows)
         /\ \A i \in 1..NumRows : Rows[i].state \in DOMAIN Entries
<1> DEFINE T == {Rows[i].state : i \in 1..NumRows}
<1>1. NumRows \in Nat /\ NumRows = Len(Rows) /\ MaxEntriesForeachState \in Nat
  BY DEF ProgramOK, NumRows
<1>2. T = RowStates(Rows, Len(Rows)) /\ STATE_NULL \notin T
  BY <1>1 DEF ProgramOK, RowStates
<1>3. Keys(Rows, Len(Rows)) = T \cup {0}
  BY <1>2 DEF Keys
<1>4. Cardinality(T \cup {0}) <= MaxEntriesForeachState
  <2>1. {0} \cup T = T \cup {0}
    OBVIOUS
  <2> QED BY <2>1 DEF ProgramOK
<1>5. IsFiniteSet(T \cup {0})
  BY <1>1, <1>2, FiniteStates, FS_AddElement
<1> HIDE DEF T
<1>6. /\ \A s \in DOMAIN Entries : Holds(Rows, s, Entries[s], Len(Rows))
      /\ \A i \in 1..Len(Rows) : Rows[i].state \in DOMAIN Entries
  BY <1>1, <1>2, <1>3, <1>4, <1>5, EntriesHold DEF Entries
<1>7. ASSUME NEW s \in DOMAIN Entries PROVE InOrder(Entries[s], s, NumRows)
  <2>1. PICK e : e = Entries[s]
    OBVIOUS
  <2>2. Holds(Rows, s, e, Len(Rows))
    BY <1>6, <2>1
  <2>3. e \in Seq(1..NumRows) /\ \A a, b \in DOMAIN e : a < b => e[a] < e[b]
    BY <1>1, <2>2 DEF Holds
  <2>4. \A a \in DOMAIN e : e[a] \in 1..NumRows
    BY <2>3, Elements
  <2>5. s # STATE_NULL
    BY <1>1, <1>2, <1>3, FewStates DEF Entries, STATE_NULL
  <2>6. \A a \in DOMAIN e : Rows[e[a]].state = s
    BY <2>2, <2>5 DEF Holds, MayHold
  <2>7. \A i \in 1..NumRows : Rows[i].state = s => \E a \in DOMAIN e : e[a] = i
    BY <1>1, <1>2, <2>2 DEF Holds, MustHold
  <2>8. \A i \in 1..NumRows : i <= NumRows
    BY <1>1
  <2> QED BY <2>1, <2>3, <2>4, <2>6, <2>7, <2>8 DEF InOrder
<1> QED BY <1>1, <1>6, <1>7

\* xfsm_table_lookup, on the table xfsm_table_create has built of a program that
\* fits, finds the first row in program order that is for the state and agrees
\* with the results of the conditions.
THEOREM TableFindsTheFirstRow ==
  ASSUME ProgramOK, NEW state, NEW results, results # << >>
  PROVE  /\ XfsmTableLookup(Rows, Entries, state, results) = Leading(state, results)
         /\ Leading(state, results) \in 0..NumRows
<1>1. NumRows \in Nat
  BY DEF ProgramOK
<1> DEFINE G == Agreeing(state, results)
<1>2. G \in SUBSET (1..NumRows) /\ G \in SUBSET Nat
  BY <1>1 DEF Agreeing
<1>3. \A i \in 1..NumRows : i \in G <=> Rows[i].state = state /\ RowMatches(Rows[i], results)
  BY DEF Agreeing, RowMatches
<1> HIDE DEF G
<1>4. CASE state \notin DOMAIN Entries
  <2>1. G = {}
    BY <1>2, <1>3, <1>4, EntriesInOrder
  <2> QED BY <1>1, <1>4, <2>1 DEF XfsmTableLookup, Leading, G
<1>5. CASE state \in DOMAIN Entries
  <2>1. PICK e : e = Entries[state]
    OBVIOUS
  <2>2. InOrder(e, state, NumRows)
    BY <1>5, <2>1, EntriesInOrder
  <2>3. PICK n : n = Len(e)
    OBVIOUS
  <2>4. e \in Seq(1..NumRows) /\ n \in Nat /\ DOMAIN e = 1..n /\ \A a \in 1..n : e[a] \in 1..NumRows
    <3>1. e \in Seq(1..NumRows)
      BY <2>2 DEF InOrder
    <3>2. n \in Nat /\ DOMAIN e = 1..n
      BY <2>3, <3>1
    <3>3. \A a \in DOMAIN e : e[a] \in 1..NumRows
      BY ONLY <3>1, Elements
    <3> QED BY <3>1, <3>2, <3>3
  <2>5. PICK I : I = {a \in 1..n : RowMatches(Rows[e[a]], results)}
    OBVIOUS
  <2>6. XfsmTableLookup(Rows, Entries, state, results) = IF I # {} THEN e[Min(I)] ELSE 0
    <3>1. SelectInSeq(e, LAMBDA id : RowMatches(Rows[id], results)) = IF I # {} THEN Min(I) ELSE 0
      BY <2>3, <2>5 DEF SelectInSeq
    <3>2. I # {} => Min(I) # 0
      <4>1. I \in SUBSET Nat /\ I \subseteq 1..n
        BY <2>4, <2>5
      <4>2. I # {} => Min(I) \in I
        BY <4>1, MinOf
      <4> QED BY <2>4, <4>1, <4>2
    <3> QED BY <1>5, <2>1, <3>1, <3>2 DEF XfsmTableLookup
  <2>7. \A i \in 1..NumRows : Rows[i].state = state <=> \E a \in 1..n : e[a] = i
    <3>1. \A i \in 1..NumRows : i <= NumRows
      BY <1>1
    <3> QED BY <2>2, <2>4, <3>1 DEF InOrder
  <2>8. G = {e[a] : a \in I}
    <3>1. \A a \in I : e[a] \in G
      BY <1>3, <2>4, <2>5, <2>7
    <3>2. ASSUME NEW i \in G PROVE \E a \in I : e[a] = i
      <4>1. i \in 1..NumRows /\ Rows[i].state = state /\ RowMatches(Rows[i], results)
        BY <1>2, <1>3
      <4>2. PICK a \in 1..n : e[a] = i
        BY <2>7, <4>1
      <4> QED BY <2>5, <4>1, <4>2
    <3> QED BY ONLY <3>1, <3>2
  <2>9. CASE I = {}
    <3>1. G = {}
      BY <2>8, <2>9
    <3> QED BY <1>1, <2>6, <2>9, <3>1 DEF Leading, G
  <2>10. CASE I # {}
    <3>1. I \in SUBSET Nat /\ I \subseteq 1..n
      BY <2>4, <2>5
    <3>2. PICK a \in I : a = Min(I) /\ \A b \in I : a <= b
      BY <2>10, <3>1, MinOf
    <3>3. \A b \in I : e[a] <= e[b]
      <4> TAKE b \in I
      <4>1. a = b \/ a < b
        BY <3>1, <3>2
      <4>2. a \in 1..n /\ b \in 1..n /\ e[a] \in Nat /\ e[b] \in Nat
        BY <1>1, <2>4, <3>1
      <4>3. a < b => e[a] < e[b]
        BY <2>2, <2>4, <4>2 DEF InOrder
      <4> QED BY <4>1, <4>2, <4>3
    <3>4. e[a] \in G /\ \A i \in G : e[a] <= i
      BY <2>8, <3>3
    <3>5. Min(G) = e[a]
      BY <1>2, <3>4, MinIs
    <3>6. e[a] \in 0..NumRows
      <4>1. e[a] \in 1..NumRows
        BY <1>2, <3>4
      <4> QED BY <1>1, <4>1
    <3> QED BY <2>6, <2>10, <3>2, <3>4, <3>5, <3>6 DEF Leading, G
  <2> QED BY <2>9, <2>10
<1> QED BY <1>4, <1>5

-----------------------------------------------------------------------------
(* The header and the key of a packet                                      *)

\* What the packets must be like for the pointers and the key buffer, which
\* outlive a packet, to tell about the packet in hand only: a field's pointer
\* is set or cleared by every packet, unless no packet sets it (an ICMP field is
\* set by ICMP packets and cleared by none), and is not that of an inner address
\* or protocol; a key field that is missing follows one that is not,
\* whose 64 bits cover its slot.  The loader leaves biflow_no at 0.
Has(p, i) == i \in DOMAIN LookupKey /\ OwnHeader(p)[LookupKey[i]] # Missing
PacketsOK ==
  /\ NoPacket \notin Packets
  /\ \A p \in Packets : \A f \in DOMAIN p.val :
       /\ GroupOf(f) \in SetBy(p.proto) => PointsAt(f) = f
       /\ \/ GroupOf(f) \in SetBy(p.proto) \cup ClearedBy(p.proto)
          \/ \A q \in Packets : GroupOf(f) \notin SetBy(q.proto)
  /\ FkSlots \in Nat /\ BiflowNos = {0}
  /\ \A p \in Packets : \A i \in DOMAIN LookupKey : Has(p, i) \/ Has(p, i - 1)

Supported == ProgramOK /\ PacketsOK

\* A pointer that is set was set by some packet.
PointersOK ==
  /\ pkt_fields \in [FieldGroups -> {"null", "this", "stale"}]
  /\ \A g \in FieldGroups : pkt_fields[g] # "null" => \E q \in Packets : g \in SetBy(q.proto)
KeyBufferOK ==
  /\ fk = [i \in 1..FkSlots |-> fk[i]]
  /\ \A i \in (1..FkSlots) \ DOMAIN LookupKey : fk[i] = 0
  /\ biflow_no = 0

LEMMA GroupsOf == \A f : GroupOf(f) \in FieldGroups
  BY DEF GroupOf, FieldGroups

\* get_hdr_value gives the packet's own fields.
LEMMA OwnHeaderRead ==
  ASSUME PacketsOK, PointersOK, NEW p \in Packets, NEW st
  PROVE  HeaderValues(ParsePktHeader(pkt_fields, p.proto), p.val, st) = OwnHeader(p)
<1> DEFINE ptr == ParsePktHeader(pkt_fields, p.proto)
           read(f) == CASE ptr[GroupOf(f)] = "null"  -> Missing
                        [] ptr[GroupOf(f)] = "this"  -> p.val[PointsAt(f)]
                        [] ptr[GroupOf(f)] = "stale" -> st
           own(f)  == IF GroupOf(f) \in SetBy(p.proto) THEN p.val[f] ELSE Missing
<1>1. ASSUME NEW f \in DOMAIN p.val PROVE read(f) = own(f)
  <2>1. PICK g \in FieldGroups : g = GroupOf(f)
    BY GroupsOf
  <2>2. ptr[g] = IF g \in SetBy(p.proto) THEN "this"
                 ELSE IF g \in ClearedBy(p.proto) THEN "null" ELSE pkt_fields[g]
    BY DEF ParsePktHeader
  <2> HIDE DEF ptr
  <2>3. CASE g \in SetBy(p.proto)
    <3>1. PointsAt(f) = f
      BY <2>1, <2>3 DEF PacketsOK
    <3>2. ptr[g] = "this"
      BY <2>2, <2>3
    <3> QED BY <2>1, <2>3, <3>1, <3>2
  <2>4. CASE g \notin SetBy(p.proto)
    <3>1. ptr[g] = "null"
      BY <2>1, <2>2, <2>4 DEF PacketsOK, PointersOK
    <3> QED BY <2>1, <2>4, <3>1
  <2> QED BY <2>3, <2>4
<1>2. /\ HeaderValues(ptr, p.val, st) = [f \in DOMAIN p.val |-> read(f)]
      /\ OwnHeader(p) = [f \in DOMAIN p.val |-> own(f)]
  BY DEF HeaderValues, OwnHeader
<1> HIDE DEF ptr, read, own
<1>3. HeaderValues(ptr, p.val, st) = OwnHeader(p)
  BY <1>1, <1>2
<1> QED BY <1>3 DEF ptr

\* key_extract gives the key of the packet's own fields, whatever is in the buffer.
LEMMA OwnKeyExtracted ==
  ASSUME PacketsOK, KeyBufferOK, NEW p \in Packets
  PROVE  /\ Biflow(KeyExtract(fk, LookupKey, OwnHeader(p)), biflow_no) = FlowOf(p)
         /\ FlowOf(p) = [i \in 1..FkSlots |-> FlowOf(p)[i]]
         /\ \A i \in (1..FkSlots) \ DOMAIN LookupKey : FlowOf(p)[i] = 0
<1> DEFINE h == OwnHeader(p)
           key == KeyExtract(fk, LookupKey, h)
<1>1. FkSlots \in Nat
  BY DEF PacketsOK
<1>2. FlowOf(p) = [i \in 1..FkSlots |-> IF Has(p, i) THEN h[LookupKey[i]] ELSE 0]
  <2>1. DOMAIN ZeroKey = 1..FkSlots /\ \A i \in 1..FkSlots : ZeroKey[i] = 0
    BY DEF ZeroKey
  <2> QED BY <2>1 DEF FlowOf, KeyExtract, Has
<1>3. DOMAIN fk = 1..FkSlots
  BY DEF KeyBufferOK
<1>4. key = [i \in 1..FkSlots |-> IF Has(p, i) THEN h[LookupKey[i]] ELSE IF Has(p, i - 1) THEN 0 ELSE fk[i]]
  BY <1>3 DEF KeyExtract, Has
<1>5. \A i \in 1..FkSlots : (IF Has(p, i - 1) THEN 0 ELSE fk[i]) = 0 \/ Has(p, i)
  <2> TAKE i \in 1..FkSlots
  <2>1. CASE i \in DOMAIN LookupKey
    BY <2>1 DEF PacketsOK
  <2>2. CASE i \notin DOMAIN LookupKey
    BY <2>2 DEF KeyBufferOK
  <2> QED BY <2>1, <2>2
<1>6. key = FlowOf(p)
  BY <1>2, <1>4, <1>5
<1>7. Biflow(key, 0) = key
  <2>1. DOMAIN key = 1..FkSlots /\ key = [i \in 1..FkSlots |-> key[i]]
    BY <1>4
  <2> HIDE DEF key
  <2>2. \A i \in 1..FkSlots : ~((IF i % 2 = 1 THEN i ELSE i - 1) <= 2 * 0)
    BY <1>1
  <2> QED BY <2>1, <2>2 DEF Biflow
<1>8. \A i \in (1..FkSlots) \ DOMAIN LookupKey : FlowOf(p)[i] = 0
  BY <1>2 DEF Has
<1> QED BY <1>2, <1>6, <1>7, <1>8 DEF KeyBufferOK

-----------------------------------------------------------------------------
(* The worker's local variables                                            *)

PlaceOK ==
  /\ pc \in {"load", "load_next", "rx", "lookup", "match", "actions"} => curr_stage = 0
  /\ pc \in {"parse", "lookup", "match", "actions"} /\ curr_stage = 0 => pkt \in Packets
OwnOK == pc \in {"lookup", "match", "actions"} => hdr = OwnHeader(pkt) /\ fk = FlowOf(pkt)
PoolOK ==
  \A s \in Slots :
    /\ pool[s] = [state |-> pool[s].state, registers |-> pool[s].registers, destroy |-> pool[s].destroy]
    /\ ~pool[s].destroy /\ pool[s].state # STATE_NULL
MatchOK ==
  pc = "actions" => match \in 1..NumRows /\ match = Leading(pool[match_inst].state, Results)

WorkInv == PlaceOK /\ PointersOK /\ KeyBufferOK /\ OwnOK /\ PoolOK /\ MatchOK

\* Both invariants of the worker, the store's and its own.
WorkerInv == StoreInv /\ WorkInv

LEMMA ResultsAre == ProgramOK => Results # << >>
  BY DEF ProgramOK, Results, EvaluateConditions

\* init_instance, with the state 0 or the default state.
LEMMA FreshInstance ==
  ASSUME NEW n PROVE
  LET x == InitInstance(n)
  IN  /\ x = [state |-> x.state, registers |-> x.registers, destroy |-> x.destroy]
      /\ ~x.destroy /\ x.state = n /\ x.registers = [r \in Registers |-> 0]
      /\ 0 # STATE_NULL
  BY DEF InitInstance, STATE_NULL

LEMMA InitWork == ASSUME Supported, Init PROVE WorkInv
<1>1. PlaceOK /\ OwnOK /\ MatchOK
  BY DEF Init, PlaceOK, OwnOK, MatchOK
<1>2. PointersOK
  BY DEF Init, PointersOK
<1>3. KeyBufferOK
  BY DEF Init, Supported, PacketsOK, KeyBufferOK, ZeroKey
<1>4. PoolOK
  BY FreshInstance DEF Init, PoolOK, Supported, ProgramOK
<1> QED BY <1>1, <1>2, <1>3, <1>4 DEF WorkInv

\* Steps that leave the packet, its key and the instances alone.
LEMMA QuietWork ==
  ASSUME WorkInv, UNCHANGED << biflow_no, pkt, hdr, fk, pool >>,
         pkt_fields' = pkt_fields,
         curr_stage' = curr_stage \/ curr_stage' = 0,
         pc' \in {"lookup", "match"} => pc \in {"lookup", "match", "actions"},
         pc' \notin {"parse", "actions"},
         pc' \in {"load", "load_next", "rx"} => curr_stage' = 0
  PROVE  WorkInv'
<1>1. PlaceOK' /\ OwnOK' /\ MatchOK'
  BY DEF WorkInv, PlaceOK, OwnOK, MatchOK
<1>2. PointersOK' /\ KeyBufferOK' /\ PoolOK'
  BY DEF WorkInv, PointersOK, KeyBufferOK, PoolOK
<1> QED BY <1>1, <1>2 DEF WorkInv

LEMMA ReceiveWork == ASSUME WorkInv, NEW p \in Packets, Receive(p) PROVE WorkInv'
<1>1. /\ pc = "rx" /\ pc' = "parse" /\ pkt' = p /\ curr_stage' = curr_stage
      /\ pkt_fields' = AgePointers(pkt_fields)
      /\ UNCHANGED << biflow_no, fk, pool >>
  BY DEF Receive, store
<1>2. PlaceOK' /\ OwnOK' /\ MatchOK'
  BY <1>1 DEF PlaceOK, OwnOK, MatchOK
<1>3. PointersOK'
  BY <1>1 DEF WorkInv, PointersOK, AgePointers
<1>4. KeyBufferOK' /\ PoolOK'
  BY <1>1 DEF WorkInv, KeyBufferOK, PoolOK
<1> QED BY <1>2, <1>3, <1>4 DEF WorkInv

LEMMA ParseWork == ASSUME Supported, WorkInv, ParseAndExtract PROVE WorkInv'
<1>1. /\ pc = "parse" /\ pc' = "lookup" /\ curr_stage = 0
      /\ UNCHANGED << biflow_no, pkt, curr_stage, pool >>
      /\ pkt_fields' = ParsePktHeader(pkt_fields, pkt.proto)
      /\ hdr' = HeaderValues(ParsePktHeader(pkt_fields, pkt.proto), pkt.val, stale)
      /\ fk' = Biflow(KeyExtract(fk, LookupKey, hdr'), biflow_no)
  BY DEF ParseAndExtract, store
<1>2. PICK p \in Packets : p = pkt
  BY <1>1 DEF WorkInv, PlaceOK
<1>3. hdr' = OwnHeader(p)
  BY <1>1, <1>2, OwnHeaderRead DEF Supported, WorkInv
<1>4. /\ fk' = FlowOf(p) /\ fk' = [i \in 1..FkSlots |-> fk'[i]]
      /\ \A i \in (1..FkSlots) \ DOMAIN LookupKey : fk'[i] = 0
  BY <1>1, <1>3, OwnKeyExtracted DEF Supported, WorkInv
<1>5. KeyBufferOK'
  BY <1>1, <1>4 DEF WorkInv, KeyBufferOK
<1>6. PointersOK'
  <2>1. \A g \in FieldGroups : pkt_fields'[g] = IF g \in SetBy(p.proto) THEN "this"
                               ELSE IF g \in ClearedBy(p.proto) THEN "null" ELSE pkt_fields[g]
    BY <1>1, <1>2 DEF ParsePktHeader
  <2>2. pkt_fields' = [g \in FieldGroups |-> pkt_fields'[g]]
    BY <1>1 DEF ParsePktHeader
  <2>3. pkt_fields' \in [FieldGroups -> {"null", "this", "stale"}]
    BY <2>1, <2>2 DEF WorkInv, PointersOK
  <2> QED BY <2>1, <2>3 DEF WorkInv, PointersOK
<1>7. PlaceOK' /\ OwnOK' /\ MatchOK'
  BY <1>1, <1>2, <1>3, <1>4 DEF PlaceOK, OwnOK, MatchOK
<1>8. PoolOK'
  BY <1>1 DEF WorkInv, PoolOK
<1> QED BY <1>5, <1>6, <1>7, <1>8 DEF WorkInv

LEMMA MatchWork == ASSUME Supported, WorkInv, MatchRow PROVE WorkInv'
<1>1. /\ pc = "match" /\ UNCHANGED << biflow_no, pkt, curr_stage, pkt_fields, hdr, fk, match_inst, pool, gregs >>
      /\ match' = XfsmTableLookup(Rows, Entries, pool[match_inst].state, Results)
      /\ pc' = IF match' = 0 THEN "free" ELSE "actions"
  BY DEF MatchRow, store
<1>2. match' = Leading(pool[match_inst].state, Results) /\ match' \in 0..NumRows
  BY <1>1, ResultsAre, TableFindsTheFirstRow DEF Supported
<1>3. Results' = Results
  BY <1>1 DEF Results
<1>4. MatchOK'
  <2> SUFFICES ASSUME pc' = "actions"
               PROVE  match' \in 1..NumRows /\ match' = Leading(pool[match_inst].state, Results)'
    BY DEF MatchOK
  <2>1. match' # 0
    BY <1>1
  <2>2. match' \in 1..NumRows
    BY <1>2, <2>1 DEF Supported, ProgramOK
  <2>3. Leading(pool[match_inst].state, Results)' = Leading(pool[match_inst].state, Results)
    BY <1>1, <1>3
  <2> QED BY <1>2, <2>2, <2>3
<1>5. PlaceOK' /\ OwnOK'
  BY <1>1 DEF WorkInv, PlaceOK, OwnOK
<1>6. PointersOK' /\ KeyBufferOK' /\ PoolOK'
  BY <1>1 DEF WorkInv, PointersOK, KeyBufferOK, PoolOK
<1> QED BY <1>4, <1>5, <1>6 DEF WorkInv

\* What the actions write into the instance in hand.
LEMMA WrittenIs ==
  ASSUME WorkerInv, pc = "actions"
  PROVE  /\ match_inst \in Slots /\ fk \in DOMAIN hmap /\ hmap[fk] = match_inst
         /\ Written = [state |-> pool[match_inst].state, registers |-> Outcome.regs,
                       destroy |-> pool[match_inst].destroy \/ Outcome.destroy]
         /\ Written.destroy <=> Outcome.destroy
<1>1. match_inst \in Slots /\ fk \in DOMAIN hmap /\ hmap[fk] = match_inst
  BY DEF WorkerInv, StoreInv, InstanceOfTheKey, StoreType
<1>2. PICK x : x = pool[match_inst]
  OBVIOUS
<1>3. x = [state |-> x.state, registers |-> x.registers, destroy |-> x.destroy] /\ ~x.destroy
  BY <1>1, <1>2 DEF WorkerInv, WorkInv, PoolOK
<1>4. PICK y : y = Outcome
  OBVIOUS
<1>5. Written = [x EXCEPT !.registers = y.regs, !.destroy = x.destroy \/ y.destroy]
  BY <1>2, <1>4 DEF Written
<1>6. Written = [state |-> x.state, registers |-> y.regs, destroy |-> x.destroy \/ y.destroy]
  BY <1>3, <1>5
<1>7. Written.destroy <=> y.destroy
  BY <1>3, <1>6
<1> QED BY <1>1, <1>2, <1>4, <1>6, <1>7

LEMMA TransitionWork == ASSUME Supported, WorkerInv, ActionsTransition PROVE WorkInv'
<1>1. /\ pc = "actions" /\ ~Written.destroy
      /\ pool' = [pool EXCEPT ![match_inst] = [Written EXCEPT !.state = Rows[match].next_state]]
      /\ curr_stage' = Rows[match].next_stage
      /\ pc' \in {"free", "parse"}
      /\ UNCHANGED << biflow_no, pkt_fields, fk >>
  BY DEF ActionsTransition, PacketWritten
<1>2. match \in 1..NumRows
  BY <1>1 DEF WorkerInv, WorkInv, MatchOK
<1>3. curr_stage' # 0 /\ Rows[match].next_state # STATE_NULL
  BY <1>1, <1>2 DEF Supported, ProgramOK
<1>4. PICK w : w = Written
  OBVIOUS
<1>5. match_inst \in Slots /\ w = [state |-> w.state, registers |-> w.registers, destroy |-> w.destroy]
  BY <1>1, <1>4, WrittenIs
<1>6. PICK x : x = [w EXCEPT !.state = Rows[match].next_state]
  OBVIOUS
<1>7. x = [state |-> x.state, registers |-> x.registers, destroy |-> x.destroy]
      /\ ~x.destroy /\ x.state # STATE_NULL
  BY <1>1, <1>3, <1>4, <1>5, <1>6
<1>8. \A s \in Slots : pool'[s] = IF s = match_inst THEN x ELSE pool[s]
  BY <1>1, <1>4, <1>5, <1>6 DEF WorkerInv, StoreInv, StoreType
<1>9. PoolOK'
  BY <1>7, <1>8 DEF WorkerInv, WorkInv, PoolOK
<1>10. PlaceOK' /\ OwnOK' /\ MatchOK'
  BY <1>1, <1>3 DEF PlaceOK, OwnOK, MatchOK
<1>11. PointersOK' /\ KeyBufferOK'
  BY <1>1 DEF WorkerInv, WorkInv, PointersOK, KeyBufferOK
<1> QED BY <1>9, <1>10, <1>11 DEF WorkInv

\* destroy_instance on the instance in hand: its key is known.
LEMMA DestroyIs ==
  ASSUME WorkerInv, ActionsDestroy
  PROVE  /\ hmap' = [k \in DOMAIN hmap \ {fk} |-> hmap[k]]
         /\ \A s \in Slots : pool'[s] = IF s = match_inst THEN InitInstance(InitialState) ELSE pool[s]
<1>1. pc = "actions" /\ DestroyInstance(match_inst, Written)
  BY DEF ActionsDestroy
<1>2. match_inst \in Slots /\ fk \in DOMAIN hmap /\ flow_key[match_inst] = fk
  BY <1>1, WrittenIs DEF WorkerInv, StoreInv, StoreConsistent
<1>3. hmap' = [k \in DOMAIN hmap \ {fk} |-> hmap[k]]
      /\ pool' = [pool EXCEPT ![match_inst] = InitInstance(InitialState)]
  BY <1>1, <1>2 DEF DestroyInstance
<1> QED BY <1>2, <1>3 DEF WorkerInv, StoreInv, StoreType

LEMMA DestroyWork == ASSUME Supported, WorkerInv, ActionsDestroy PROVE WorkInv'
<1>1. pc = "actions" /\ pc' = "free" /\ UNCHANGED << biflow_no, pkt_fields, fk >>
  BY DEF ActionsDestroy, PacketWritten
<1>2. \A s \in Slots : pool'[s] = IF s = match_inst THEN InitInstance(InitialState) ELSE pool[s]
  BY DestroyIs
<1>3. PoolOK'
  BY <1>2, FreshInstance DEF WorkerInv, WorkInv, PoolOK, Supported, ProgramOK
<1>4. PlaceOK' /\ OwnOK' /\ MatchOK'
  BY <1>1 DEF PlaceOK, OwnOK, MatchOK
<1>5. PointersOK' /\ KeyBufferOK'
  BY <1>1 DEF WorkerInv, WorkInv, PointersOK, KeyBufferOK
<1> QED BY <1>3, <1>4, <1>5 DEF WorkInv

LEMMA CreateWork == ASSUME Supported, WorkInv, CreateTable PROVE WorkInv'
<1>1. /\ pc = "load" /\ pc' \in {"rx", "load_next"}
      /\ pool' = [s \in Slots |-> InitInstance(0)]
      /\ UNCHANGED << biflow_no, pkt, curr_stage, pkt_fields, hdr, fk >>
  BY DEF CreateTable, work
<1>2. PoolOK'
  BY <1>1, FreshInstance DEF PoolOK
<1>3. PlaceOK' /\ OwnOK' /\ MatchOK'
  BY <1>1 DEF WorkInv, PlaceOK, OwnOK, MatchOK
<1>4. PointersOK' /\ KeyBufferOK'
  BY <1>1 DEF WorkInv, PointersOK, KeyBufferOK
<1> QED BY <1>2, <1>3, <1>4 DEF WorkInv

\* Every step of the worker keeps its invariants.
LEMMA StepKeepsWorker == ASSUME Supported, WorkerInv, [Next]_vars PROVE WorkerInv'
<1> SUFFICES WorkInv'
  BY StepKeepsStore DEF WorkerInv
<1>0. WorkInv
  BY DEF WorkerInv
<1>1. CASE CreateTable
  BY <1>0, <1>1, CreateWork
<1>2. CASE CreateNextTable
  BY <1>0, <1>2, QuietWork DEF CreateNextTable, work, store
<1>3. ASSUME NEW p \in Packets, Receive(p) PROVE WorkInv'
  BY <1>0, <1>3, ReceiveWork
<1>4. CASE ParseAndExtract
  BY <1>0, <1>4, ParseWork
<1>5. CASE LookupFound
  BY <1>0, <1>5, QuietWork DEF LookupFound, store
<1>6. CASE LookupInserted
  BY <1>0, <1>6, QuietWork DEF LookupInserted, InsertInstance
<1>7. CASE MatchRow
  BY <1>0, <1>7, MatchWork
<1>8. CASE ActionsDestroy
  BY <1>8, DestroyWork
<1>9. CASE ActionsTransition
  BY <1>9, TransitionWork
<1>10. CASE FreePacket
  BY <1>0, <1>10, QuietWork DEF FreePacket, store
<1>11. CASE NoSuchTable
  BY <1>0, <1>11, QuietWork DEF NoSuchTable, work, store
<1>12. CASE LookupFailed
  BY <1>0, <1>12, QuietWork DEF LookupFailed, work, store
<1>13. CASE ActionTrap
  BY <1>0, <1>13, QuietWork DEF ActionTrap, work, store
<1>14. CASE UNCHANGED vars
  BY <1>0, <1>14 DEF vars, work, store, WorkInv, PlaceOK, PointersOK, KeyBufferOK, OwnOK, PoolOK,
     MatchOK, Results
<1> QED BY <1>1, <1>2, <1>3, <1>4, <1>5, <1>6, <1>7, <1>8, <1>9, <1>10, <1>11, <1>12, <1>13, <1>14
           DEF Next, Process, Crash

LEMMA WorkerSafe == ASSUME Supported PROVE Spec => []WorkerInv
<1>1. Init => WorkerInv
  BY InitStore, InitWork DEF WorkerInv
<1>2. WorkerInv /\ [Next]_vars => WorkerInv'
  BY StepKeepsWorker
<1> QED BY <1>1, <1>2, PTL DEF Spec

\* key_extract files a packet under the key of its own header fields, whatever
\* packets came before, for every program and packets that are Supported.
THEOREM KeysAreOwn == ASSUME Supported PROVE Spec => []OwnKey
<1>1. WorkerInv => OwnKey
  BY DEF WorkerInv, WorkInv, OwnOK, OwnKey
<1> QED BY <1>1, WorkerSafe, PTL

-----------------------------------------------------------------------------
(* One machine per flow: the worker implements FlowEFSM                    *)

\* FlowEFSM's variables flow and current, as the refinement mapping has them.
MFlows == {FlowOf(p) : p \in Packets}
MFlow == [k \in MFlows |->
            IF k \in DOMAIN hmap
            THEN [state |-> pool[hmap[k]].state, registers |-> pool[hmap[k]].registers]
            ELSE [state |-> InitialState, registers |-> [r \in Registers |-> 0]]]
MCurrent == IF pc \in {"parse", "lookup", "match", "actions", "crashed"} /\ curr_stage = 0
            THEN pkt ELSE NoPacket

LEMMA SameHeader == \A p : EFSM!OwnHeader(p) = OwnHeader(p)
  BY DEF EFSM!OwnHeader, OwnHeader, EFSM!GroupOf, GroupOf, EFSM!SetBy, SetBy

LEMMA SameFlow == \A p : EFSM!FlowOf(p) = FlowOf(p)
  BY SameHeader DEF EFSM!FlowOf, FlowOf, EFSM!KeyExtract, KeyExtract, EFSM!ZeroKey, ZeroKey

LEMMA SameFlows == EFSM!Flows = MFlows
  BY SameFlow DEF EFSM!Flows, MFlows

LEMMA SameResults ==
  \A regs, gl, h : EFSM!EvaluateConditions(Conditions, regs, gl, h) = EvaluateConditions(Conditions, regs, gl, h)
  BY DEF EFSM!EvaluateConditions, EvaluateConditions, EFSM!EvaluateCondition, EvaluateCondition,
         EFSM!Compare, Compare, EFSM!Operand, Operand

LEMMA SameActions ==
  ASSUME NEW row, NEW regs, NEW gl, NEW h
  PROVE  EFSM!ExecuteActions(row, regs, gl, h) = ExecuteActions(row, regs, gl, h)
  BY DEF EFSM!ExecuteActions, ExecuteActions, EFSM!ExecuteAction, ExecuteAction,
         EFSM!ActionMachine, ActionMachine, EFSM!Operand, Operand, EFSM!Update, Update,
         EFSM!Quotient, Quotient

\* A new flow is a flow without an instance.
LEMMA NewFlow == EFSM!NewInstance = [state |-> InitialState, registers |-> [r \in Registers |-> 0]]
  BY DEF EFSM!NewInstance, Registers

\* The row of FlowEFSM for the flow's state is the one the table finds.
LEMMA SameRow ==
  ASSUME Supported, WorkerInv, pc \in {"match", "actions"}
  PROVE  /\ pkt \in Packets /\ pkt # NoPacket /\ MCurrent = pkt
         /\ FlowOf(pkt) \in MFlows /\ fk = FlowOf(pkt) /\ hdr = OwnHeader(pkt)
         /\ fk \in DOMAIN hmap /\ hmap[fk] = match_inst /\ match_inst \in Slots
         /\ MFlow[FlowOf(pkt)] = [state |-> pool[match_inst].state, registers |-> pool[match_inst].registers]
         /\ EFSM!RowFor(pkt) = Leading(pool[match_inst].state, Results)
<1>1. pkt \in Packets /\ pkt # NoPacket /\ MCurrent = pkt
  BY DEF WorkerInv, WorkInv, PlaceOK, MCurrent, Supported, PacketsOK
<1>2. FlowOf(pkt) \in MFlows /\ fk = FlowOf(pkt) /\ hdr = OwnHeader(pkt)
  BY <1>1 DEF MFlows, WorkerInv, WorkInv, OwnOK
<1>3. fk \in DOMAIN hmap /\ hmap[fk] = match_inst /\ match_inst \in Slots
  BY DEF WorkerInv, StoreInv, StoreType, InstanceOfTheKey
<1>4. MFlow[FlowOf(pkt)] = [state |-> pool[match_inst].state, registers |-> pool[match_inst].registers]
  BY <1>2, <1>3 DEF MFlow
<1>5. EFSM!RowFor(pkt) = Leading(pool[match_inst].state, Results)
  <2>1. PICK m : m = [state |-> pool[match_inst].state, registers |-> pool[match_inst].registers]
    OBVIOUS
  <2>2. PICK results : results = Results
    OBVIOUS
  <2>3. EFSM!EvaluateConditions(Conditions, m.registers, gregs, EFSM!OwnHeader(pkt)) = results
    <3>1. EFSM!EvaluateConditions(Conditions, m.registers, gregs, EFSM!OwnHeader(pkt))
            = EvaluateConditions(Conditions, m.registers, gregs, OwnHeader(pkt))
      BY SameResults, SameHeader
    <3>2. m.registers = pool[match_inst].registers
      BY <2>1
    <3> QED BY <1>2, <2>2, <3>1, <3>2 DEF Results
  <2>4. \A i \in 1..NumRows : Rows[i].state # STATE_NULL
    BY DEF Supported, ProgramOK
  <2>5. {i \in 1..Len(Rows) : /\ Rows[i].state \in {m.state, EFSM!STATE_NULL}
                              /\ \A c \in DOMAIN results :
                                   Rows[i].results[c] \in {"DONT_CARE", results[c]}}
          = Agreeing(m.state, results)
    BY <2>4 DEF Agreeing, NumRows, STATE_NULL, EFSM!STATE_NULL
  <2>6. EFSM!RowFor(pkt) = IF Agreeing(m.state, results) # {} THEN EFSM!Min(Agreeing(m.state, results)) ELSE 0
    <3>1. MFlow[EFSM!FlowOf(pkt)] = m
      BY <1>4, <2>1, SameFlow
    <3> DEFINE X == MFlow[EFSM!FlowOf(pkt)]
               R == EFSM!EvaluateConditions(Conditions, X.registers, gregs, EFSM!OwnHeader(pkt))
               I == {i \in 1..Len(Rows) : /\ Rows[i].state \in {X.state, EFSM!STATE_NULL}
                                          /\ \A c \in DOMAIN R : Rows[i].results[c] \in {"DONT_CARE", R[c]}}
    <3>2. EFSM!RowFor(pkt) = IF I # {} THEN EFSM!Min(I) ELSE 0
      BY DEF EFSM!RowFor, EFSM!SelectInSeq, MFlow, MFlows
    <3>3. X = m /\ R = results
      BY <2>3, <3>1
    <3>4. I = Agreeing(m.state, results)
      BY <2>5, <3>3
    <3> HIDE DEF I
    <3> QED BY <3>2, <3>4
  <2>7. EFSM!Min(Agreeing(m.state, results)) = Min(Agreeing(m.state, results))
    BY DEF EFSM!Min, Min
  <2> QED BY <2>1, <2>2, <2>6, <2>7 DEF Leading
<1> QED BY <1>1, <1>2, <1>3, <1>4, <1>5

\* The machines of a program that is not loaded yet are new.
LEMMA MapsInit == ASSUME Supported, Init PROVE EFSM!Init
<1>1. MFlow = [k \in EFSM!Flows |-> EFSM!NewInstance]
  <2>1. DOMAIN hmap = {}
    BY DEF Init
  <2>2. \A k \in MFlows : MFlow[k] = EFSM!NewInstance
    BY <2>1, NewFlow DEF MFlow
  <2> QED BY <2>2, SameFlows DEF MFlow
<1>2. MCurrent = NoPacket
  BY DEF Init, MCurrent
<1>3. gregs = [r \in 0..NumGlobalRegisters-1 |-> 0] /\ sent = << >>
  BY DEF Init, GlobalRegisters
<1> QED BY <1>1, <1>2, <1>3 DEF EFSM!Init, MFlow, MFlows, MCurrent

\* What a step shows of the store, of the packet in hand and of its output.
LEMMA MapsStutter ==
  ASSUME MFlow' = MFlow, MCurrent' = MCurrent, UNCHANGED << gregs, sent >>
  PROVE  UNCHANGED EFSM!vars
  BY DEF EFSM!vars, MFlow, MFlows, MCurrent

\* Steps of the worker between the arrival of a packet and its row.
LEMMA QuietMaps ==
  ASSUME UNCHANGED << hmap, pool, gregs, sent, pkt >>,
         \/ /\ pc \in {"parse", "lookup", "match", "actions", "crashed"}
            /\ pc' \in {"parse", "lookup", "match", "actions", "crashed"}
            /\ curr_stage' = curr_stage
         \/ /\ pc \notin {"parse", "lookup", "match", "actions", "crashed"}
            /\ pc' \notin {"parse", "lookup", "match", "actions", "crashed"}
  PROVE  UNCHANGED EFSM!vars
<1>1. MFlow' = MFlow
  BY DEF MFlow, MFlows
<1>2. MCurrent' = MCurrent
  BY DEF MCurrent
<1> QED BY <1>1, <1>2, MapsStutter

\* xfsm_table_create: no flow has an instance yet.
LEMMA CreateMaps == ASSUME StoreInv, CreateTable PROVE UNCHANGED EFSM!vars
<1>1. DOMAIN hmap = {} /\ hmap' = hmap /\ pc = "load" /\ pc' \in {"rx", "load_next"}
      /\ UNCHANGED << gregs, sent >>
  BY DEF CreateTable, StoreInv, StoreType, work
<1>2. MFlow' = MFlow
  BY <1>1 DEF MFlow, MFlows
<1>3. MCurrent' = MCurrent
  BY <1>1 DEF MCurrent
<1> QED BY <1>1, <1>2, <1>3, MapsStutter

\* insert_instance: the slot of a new flow holds a new machine already.
LEMMA InsertMaps == ASSUME Supported, StoreInv, LookupInserted PROVE UNCHANGED EFSM!vars
<1>1. PICK slot \in Free : InsertInstance(slot)
  BY DEF LookupInserted
<1>2. /\ fk \notin DOMAIN hmap /\ pool' = pool
      /\ DOMAIN hmap' = DOMAIN hmap \cup {fk}
      /\ \A k \in DOMAIN hmap' : hmap'[k] = IF k = fk THEN slot ELSE hmap[k]
  BY <1>1 DEF InsertInstance, LookupInserted
<1>3. pool[slot].registers = [r \in Registers |-> 0] /\ pool[slot].state = InitialState
  BY <1>1 DEF StoreInv, FreeSlotsClean, Supported, ProgramOK
<1>4. MFlow' = MFlow
  <2>1. ASSUME NEW k \in MFlows
        PROVE  (IF k \in DOMAIN hmap'
                THEN [state |-> pool'[hmap'[k]].state, registers |-> pool'[hmap'[k]].registers]
                ELSE [state |-> InitialState, registers |-> [r \in Registers |-> 0]])
               = MFlow[k]
    <3>1. MFlow[k] = IF k \in DOMAIN hmap
                     THEN [state |-> pool[hmap[k]].state, registers |-> pool[hmap[k]].registers]
                     ELSE [state |-> InitialState, registers |-> [r \in Registers |-> 0]]
      BY DEF MFlow
    <3>2. CASE k = fk
      BY <1>2, <1>3, <3>1, <3>2
    <3>3. CASE k # fk
      BY <1>2, <3>1, <3>3
    <3> QED BY <3>2, <3>3
  <2>2. MFlow = [k \in MFlows |-> MFlow[k]]
    BY DEF MFlow
  <2> QED BY <2>1, <2>2 DEF MFlow, MFlows
<1>5. MCurrent' = MCurrent /\ UNCHANGED << gregs, sent >>
  BY DEF LookupInserted, MCurrent
<1> QED BY <1>4, <1>5, MapsStutter

LEMMA ReceiveMaps == ASSUME Supported, WorkerInv, NEW p \in Packets, Receive(p) PROVE EFSM!Arrive(p)
<1>1. /\ pc = "rx" /\ pc' = "parse" /\ pkt' = p /\ curr_stage' = curr_stage /\ sent' = << >>
      /\ UNCHANGED << hmap, pool, gregs >>
  BY DEF Receive, store
<1>2. curr_stage = 0
  BY <1>1 DEF WorkerInv, WorkInv, PlaceOK
<1>3. MFlow' = MFlow
  BY <1>1 DEF MFlow, MFlows
<1>4. MCurrent = NoPacket /\ MCurrent' = p
  BY <1>1, <1>2 DEF MCurrent
<1> QED BY <1>1, <1>3, <1>4 DEF EFSM!Arrive, MFlow, MFlows, MCurrent

\* No row matches: the packet is freed, and its instance is as it was.
LEMMA NoRowMaps == ASSUME Supported, WorkerInv, MatchRow, match' = 0 PROVE EFSM!Drop
<1>1. /\ pc = "match" /\ pc' = "free" /\ UNCHANGED << hmap, pool, gregs, sent >>
      /\ match' = XfsmTableLookup(Rows, Entries, pool[match_inst].state, Results)
  BY DEF MatchRow, store
<1>2. EFSM!RowFor(pkt) = 0
  BY <1>1, SameRow, ResultsAre, TableFindsTheFirstRow DEF Supported
<1>3. MCurrent = pkt /\ pkt # NoPacket /\ MCurrent' = NoPacket
  BY <1>1, SameRow DEF MCurrent
<1>4. EFSM!RowFor(MCurrent) = 0
  BY <1>2, <1>3
<1>5. MFlow' = MFlow
  BY <1>1 DEF MFlow, MFlows
<1> QED BY <1>1, <1>3, <1>4, <1>5 DEF EFSM!Drop, MFlow, MFlows, MCurrent

\* The row's actions run on the machine of the packet's flow.
LEMMA SameOutcome ==
  ASSUME Supported, WorkerInv, pc = "actions"
  PROVE  /\ match # 0 /\ EFSM!RowFor(MCurrent) = match /\ EFSM!FlowOf(MCurrent) = fk
         /\ EFSM!ExecuteActions(Rows[match], MFlow[fk].registers, gregs, EFSM!OwnHeader(MCurrent)) = Outcome
<1>1. MCurrent = pkt /\ fk = FlowOf(pkt) /\ hdr = OwnHeader(pkt)
      /\ EFSM!RowFor(pkt) = Leading(pool[match_inst].state, Results)
      /\ MFlow[FlowOf(pkt)] = [state |-> pool[match_inst].state, registers |-> pool[match_inst].registers]
  BY SameRow
<1>2. match \in 1..NumRows /\ match = Leading(pool[match_inst].state, Results)
  BY DEF WorkerInv, WorkInv, MatchOK
<1>3. match # 0
  BY <1>2 DEF Supported, ProgramOK
<1>4. MFlow[fk].registers = pool[match_inst].registers
  <2>1. PICK m : m = MFlow[fk]
    OBVIOUS
  <2>2. m = [state |-> pool[match_inst].state, registers |-> pool[match_inst].registers]
    BY <1>1, <2>1
  <2>3. m.registers = pool[match_inst].registers
    BY <2>2
  <2> QED BY <2>1, <2>3
<1>5. EFSM!OwnHeader(MCurrent) = hdr
  BY <1>1, SameHeader
<1>6. EFSM!ExecuteActions(Rows[match], pool[match_inst].registers, gregs, hdr) = Outcome
  BY SameActions DEF Outcome
<1>7. EFSM!FlowOf(MCurrent) = fk /\ EFSM!RowFor(MCurrent) = match
  BY <1>1, <1>2, SameFlow
<1> QED BY <1>3, <1>4, <1>5, <1>6, <1>7

\* Only the machine of the packet's flow changes: no other flow has its slot.
LEMMA OneMachine ==
  ASSUME WorkerInv, pc = "actions", NEW x,
         DOMAIN hmap' \cup {fk} = DOMAIN hmap,
         \A k \in DOMAIN hmap' : hmap'[k] = hmap[k],
         \A s \in Slots \ {match_inst} : pool'[s] = pool[s],
         x = IF fk \in DOMAIN hmap'
             THEN [state |-> pool'[match_inst].state, registers |-> pool'[match_inst].registers]
             ELSE [state |-> InitialState, registers |-> [r \in Registers |-> 0]]
  PROVE  MFlow' = [MFlow EXCEPT ![fk] = x]
<1>1. fk \in DOMAIN hmap /\ hmap[fk] = match_inst /\ match_inst \in Slots
      /\ \A k \in DOMAIN hmap : hmap[k] \in Slots /\ (hmap[k] = match_inst => k = fk)
  BY DEF WorkerInv, StoreInv, StoreType, StoreConsistent, InstanceOfTheKey
<1>2. ASSUME NEW k \in MFlows
      PROVE  (IF k \in DOMAIN hmap'
              THEN [state |-> pool'[hmap'[k]].state, registers |-> pool'[hmap'[k]].registers]
              ELSE [state |-> InitialState, registers |-> [r \in Registers |-> 0]])
             = IF k = fk THEN x ELSE MFlow[k]
  <2>1. CASE k = fk
    BY <1>1, <2>1
  <2>2. CASE k # fk
    <3>1. MFlow[k] = IF k \in DOMAIN hmap
                     THEN [state |-> pool[hmap[k]].state, registers |-> pool[hmap[k]].registers]
                     ELSE [state |-> InitialState, registers |-> [r \in Registers |-> 0]]
      BY DEF MFlow
    <3>2. k \in DOMAIN hmap => pool'[hmap'[k]] = pool[hmap[k]]
      BY <1>1, <2>2
    <3>3. k \in DOMAIN hmap <=> k \in DOMAIN hmap'
      BY <2>2
    <3> QED BY <2>2, <3>1, <3>2, <3>3
  <2> QED BY <2>1, <2>2
<1>3. MFlow' = [k \in MFlows |-> IF k = fk THEN x ELSE MFlow[k]]
  BY <1>2 DEF MFlow, MFlows
<1>4. [MFlow EXCEPT ![fk] = x] = [k \in MFlows |-> IF k = fk THEN x ELSE MFlow[k]]
  <2>1. DOMAIN MFlow = MFlows
    BY DEF MFlow
  <2> QED BY ONLY <2>1
<1> QED BY <1>3, <1>4

\* What FlowEFSM asks of a transition, given the outcome of its actions.
LEMMA TransitionOf ==
  ASSUME Supported, WorkerInv, pc = "actions", NEW x,
         ~Outcome.trap, gregs' = Outcome.gregs, sent' = Outcome.sent,
         MCurrent' = NoPacket, MFlow' = [MFlow EXCEPT ![fk] = x],
         x = IF Outcome.destroy THEN EFSM!NewInstance
             ELSE [state |-> Rows[match].next_state, registers |-> Outcome.regs]
  PROVE  EFSM!Transition
<1>1. MCurrent # NoPacket /\ fk \in MFlows
  BY SameRow
<1>2. PICK row : row = EFSM!RowFor(MCurrent)
  OBVIOUS
<1>3. PICK m : m = Outcome
  OBVIOUS
<1>4. match \in 1..NumRows
  BY DEF WorkerInv, WorkInv, MatchOK
<1>5. row = match /\ row # 0 /\ EFSM!FlowOf(MCurrent) = fk
      /\ EFSM!ExecuteActions(Rows[row], MFlow[fk].registers, gregs, EFSM!OwnHeader(MCurrent)) = m
  BY <1>2, <1>3, SameOutcome
<1>6. Rows[row].next_state # EFSM!STATE_NULL
  BY <1>4, <1>5 DEF Supported, ProgramOK, STATE_NULL, EFSM!STATE_NULL
<1>7. ~m.trap /\ gregs' = m.gregs /\ sent' = m.sent
  BY <1>3
<1>8. MFlow' = [MFlow EXCEPT ![fk] =
                  IF m.destroy THEN EFSM!NewInstance
                  ELSE [state |-> IF Rows[row].next_state = EFSM!STATE_NULL THEN @.state
                                  ELSE Rows[row].next_state,
                        registers |-> m.regs]]
  BY <1>3, <1>5, <1>6
<1>9. /\ MCurrent # NoPacket /\ EFSM!RowFor(MCurrent) # 0 /\ MCurrent' = NoPacket
      /\ LET rw == Rows[EFSM!RowFor(MCurrent)]
             k  == EFSM!FlowOf(MCurrent)
             mm == EFSM!ExecuteActions(rw, MFlow[k].registers, gregs, EFSM!OwnHeader(MCurrent))
         IN  /\ ~mm.trap
             /\ MFlow' = [MFlow EXCEPT ![k] =
                            IF mm.destroy THEN EFSM!NewInstance
                            ELSE [state |-> IF rw.next_state = EFSM!STATE_NULL THEN @.state
                                            ELSE rw.next_state,
                                  registers |-> mm.regs]]
             /\ gregs' = mm.gregs
             /\ sent' = mm.sent
  BY <1>1, <1>2, <1>5, <1>7, <1>8
<1> QED BY <1>9 DEF EFSM!Transition, MFlow, MFlows, MCurrent

LEMMA TransitionMaps == ASSUME Supported, WorkerInv, ActionsTransition PROVE EFSM!Transition
<1>1. /\ pc = "actions" /\ ~Outcome.trap /\ ~Written.destroy
      /\ pool' = [pool EXCEPT ![match_inst] = [Written EXCEPT !.state = Rows[match].next_state]]
      /\ gregs' = Outcome.gregs /\ sent' = Outcome.sent
      /\ curr_stage' = Rows[match].next_stage
      /\ UNCHANGED hmap
  BY DEF ActionsTransition, PacketWritten
<1>2. match \in 1..NumRows
  BY <1>1 DEF WorkerInv, WorkInv, MatchOK
<1>3. MCurrent' = NoPacket
  BY <1>1, <1>2 DEF MCurrent, Supported, ProgramOK
<1>4. PICK w : w = [state |-> Rows[match].next_state, registers |-> Outcome.regs, destroy |-> Written.destroy]
  OBVIOUS
<1>5. pool' = [pool EXCEPT ![match_inst] = w]
  <2>1. PICK v : v = Written
    OBVIOUS
  <2>2. PICK d : d = Written.destroy
    OBVIOUS
  <2>3. v = [state |-> v.state, registers |-> Outcome.regs, destroy |-> d]
    <3>1. v = [state |-> pool[match_inst].state, registers |-> Outcome.regs,
               destroy |-> pool[match_inst].destroy \/ Outcome.destroy]
      BY <1>1, <2>1, WrittenIs
    <3> QED BY <2>1, <2>2, <3>1
  <2>4. [v EXCEPT !.state = Rows[match].next_state] = w
    BY <1>4, <2>2, <2>3
  <2> QED BY <1>1, <2>1, <2>4
<1>6. fk \in DOMAIN hmap /\ match_inst \in Slots /\ ~Outcome.destroy
  BY <1>1, WrittenIs
<1>7. \A s \in Slots : pool'[s] = IF s = match_inst THEN w ELSE pool[s]
  BY <1>5 DEF WorkerInv, StoreInv, StoreType
<1>8. PICK x : x = [state |-> Rows[match].next_state, registers |-> Outcome.regs]
  OBVIOUS
<1>9. x = [state |-> pool'[match_inst].state, registers |-> pool'[match_inst].registers]
  BY <1>4, <1>6, <1>7, <1>8
<1>10. MFlow' = [MFlow EXCEPT ![fk] = x]
  BY <1>1, <1>6, <1>7, <1>9, OneMachine
<1> QED BY <1>1, <1>3, <1>6, <1>8, <1>10, TransitionOf

LEMMA DestroyMaps == ASSUME Supported, WorkerInv, ActionsDestroy PROVE EFSM!Transition
<1>1. /\ pc = "actions" /\ pc' = "free" /\ ~Outcome.trap /\ Written.destroy
      /\ gregs' = Outcome.gregs /\ sent' = Outcome.sent
  BY DEF ActionsDestroy, PacketWritten
<1>2. hmap' = [k \in DOMAIN hmap \ {fk} |-> hmap[k]]
      /\ \A s \in Slots : pool'[s] = IF s = match_inst THEN InitInstance(InitialState) ELSE pool[s]
  BY DestroyIs
<1>3. fk \in DOMAIN hmap /\ Outcome.destroy
  BY <1>1, WrittenIs
<1>4. MCurrent' = NoPacket
  BY <1>1 DEF MCurrent
<1>5. MFlow' = [MFlow EXCEPT ![fk] = EFSM!NewInstance]
  <2>1. DOMAIN hmap' = DOMAIN hmap \ {fk} /\ \A k \in DOMAIN hmap' : hmap'[k] = hmap[k]
    BY <1>2
  <2> QED BY <1>1, <1>2, <1>3, <2>1, OneMachine, NewFlow
<1> QED BY <1>1, <1>3, <1>4, <1>5, TransitionOf

\* Every step of the worker is a step of the machines, or shows nothing of them.
LEMMA StepMaps == ASSUME Supported, WorkerInv, [Next]_vars PROVE EFSM!Next \/ UNCHANGED EFSM!vars
<1>0. StoreInv
  BY DEF WorkerInv
<1>1. CASE CreateTable
  BY <1>0, <1>1, CreateMaps
<1>2. CASE CreateNextTable
  BY <1>2, QuietMaps DEF CreateNextTable, work, store, WorkerInv, WorkInv
<1>3. ASSUME NEW p \in Packets, Receive(p) PROVE EFSM!Next
  BY <1>3, ReceiveMaps DEF EFSM!Next
<1>4. CASE ParseAndExtract
  BY <1>4, QuietMaps DEF ParseAndExtract, store
<1>5. CASE LookupFound
  BY <1>5, QuietMaps DEF LookupFound, store
<1>6. CASE LookupInserted
  BY <1>0, <1>6, InsertMaps
<1>7. CASE MatchRow
  <2>1. CASE match' = 0
    BY <1>7, <2>1, NoRowMaps DEF EFSM!Next
  <2>2. CASE match' # 0
    BY <1>7, <2>2, QuietMaps DEF MatchRow, store
  <2> QED BY <2>1, <2>2
<1>8. CASE ActionsDestroy
  BY <1>8, DestroyMaps DEF EFSM!Next
<1>9. CASE ActionsTransition
  BY <1>9, TransitionMaps DEF EFSM!Next
<1>10. CASE FreePacket
  BY <1>10, QuietMaps DEF FreePacket, store
<1>11. CASE NoSuchTable
  BY <1>11, QuietMaps DEF NoSuchTable, work, store
<1>12. CASE LookupFailed
  BY <1>12, QuietMaps DEF LookupFailed, work, store
<1>13. CASE ActionTrap
  BY <1>13, QuietMaps DEF ActionTrap, work, store
<1>14. CASE UNCHANGED vars
  <2>1. UNCHANGED << hmap, pool, gregs, sent, pkt, pc, curr_stage >>
    BY <1>14 DEF vars, work, store
  <2> QED BY <2>1, QuietMaps
<1> QED BY <1>1, <1>2, <1>3, <1>4, <1>5, <1>6, <1>7, <1>8, <1>9, <1>10, <1>11, <1>12, <1>13, <1>14
           DEF Next, Process, Crash

\* SW-FB implements one machine per flow: every packet moves the machine of its
\* own flow, by the first row that applies, and no other; for every program and
\* packets that are Supported, every number of instances and every hash map.
THEOREM WorkerRunsTheMachines == ASSUME Supported PROVE Spec => ImplementsEFSM
<1>1. Init => EFSM!Init
  BY MapsInit
<1>2. WorkerInv /\ [Next]_vars => [EFSM!Next]_(EFSM!vars)
  BY StepMaps
<1> QED BY <1>1, <1>2, WorkerSafe, PTL DEF Spec, ImplementsEFSM, EFSM!Spec

-----------------------------------------------------------------------------
(* Types                                                                   *)

\* The header fields packets have, and what reading one may give.
Fields == UNION {DOMAIN p.val : p \in Packets}
Readings == Int \cup {Missing}

TypedOperand(o) ==
  \/ o.type = "REGISTER" /\ o.value \in Registers
  \/ o.type = "GLOBAL_REGISTER" /\ o.value \in GlobalRegisters
  \/ o.type = "CONSTANT" /\ o.value \in Int
  \/ o.type = "HDR_FIELD" /\ o.value \in Fields

TypedAction(act) ==
  /\ act.type \in {"UPDATE", "SENDPKT", "SETFIELD", "DESTROY"}
  /\ TypedOperand(act.op1) /\ TypedOperand(act.op3)
  /\ IF act.type = "SENDPKT" THEN act.op2.value \in Int ELSE TypedOperand(act.op2)
  /\ act.type = "SETFIELD" => act.op1.type = "HDR_FIELD"
  /\ act.type = "UPDATE" =>
       /\ act.opcode \in {"SUM", "MINUS", "MULTIPLY", "DIVIDE", "MODULO", "MAX", "MIN"}
       /\ IF act.out.type = "REGISTER" THEN act.out.value \in Registers
                                       ELSE act.out.value \in GlobalRegisters

\* The first parameter of setField is the number of a field, and stands for the
\* first operand of a later update whose own field is missing: no row has both.
SetsField(row) == \E a \in DOMAIN row.actions : row.actions[a].type = "SETFIELD"
TypedRow(row) ==
  /\ row.next_state \in Nat /\ row.next_stage \in 0..255
  /\ Len(row.actions) \in Nat /\ DOMAIN row.actions = 1..Len(row.actions)
  /\ \A a \in DOMAIN row.actions : TypedAction(row.actions[a])
  /\ SetsField(row) => \A a \in DOMAIN row.actions :
                         row.actions[a].type = "UPDATE" => row.actions[a].op1.type # "HDR_FIELD"

\* A program whose rows name registers and fields there are, and packets that
\* have all the fields it names.
TypedProgram ==
  /\ NumRows \in Nat /\ DOMAIN Rows = 1..NumRows
  /\ MaxEntriesForeachState \in Nat /\ InitialState \in Nat /\ FkSlots \in Nat
  /\ StaleValues \subseteq Int
  /\ \A p \in Packets : p \in [proto : Protocols, val : [Fields -> Int]]
  /\ \A f \in Fields : PointsAt(f) \in Fields
  /\ \A i \in DOMAIN LookupKey : LookupKey[i] \in Fields
  /\ \A i \in 1..NumRows : TypedRow(Rows[i])

LEMMA OperandTyped ==
  ASSUME NEW o, TypedOperand(o), NEW S, Int \subseteq S, NEW prev \in S,
         NEW regs \in [Registers -> Int], NEW gl \in [GlobalRegisters -> Int], NEW h \in [Fields -> Readings]
  PROVE  /\ Operand(o, prev, regs, gl, h) \in S
         /\ o.type # "HDR_FIELD" => Operand(o, prev, regs, gl, h) \in Int
<1>1. CASE o.type = "REGISTER"
  BY <1>1 DEF TypedOperand, Operand
<1>2. CASE o.type = "GLOBAL_REGISTER"
  BY <1>2 DEF TypedOperand, Operand
<1>3. CASE o.type = "CONSTANT"
  BY <1>3 DEF TypedOperand, Operand
<1>4. CASE o.type = "HDR_FIELD"
  <2>1. h[o.value] = Missing \/ h[o.value] \in Int
    BY <1>4 DEF TypedOperand, Readings
  <2> QED BY <1>4, <2>1 DEF Operand
<1> QED BY <1>1, <1>2, <1>3, <1>4 DEF TypedOperand

LEMMA QuotientTyped == ASSUME NEW a \in Int, NEW b \in Int, b # 0 PROVE Quotient(a, b) \in Int
<1>1. PICK x : x = (IF a < 0 THEN -a ELSE a) \div (IF b < 0 THEN -b ELSE b)
  OBVIOUS
<1>2. x \in Int
  <2>1. (IF a < 0 THEN -a ELSE a) \in Int /\ (IF b < 0 THEN -b ELSE b) \in Int /\ (IF b < 0 THEN -b ELSE b) > 0
    OBVIOUS
  <2>2. \A y, z \in Int : z > 0 => y \div z \in Int
    OBVIOUS
  <2> QED BY <1>1, <2>1, <2>2
<1>3. Quotient(a, b) = IF (a < 0) = (b < 0) THEN x ELSE -x
  BY <1>1 DEF Quotient
<1> QED BY <1>2, <1>3

LEMMA UpdateTyped ==
  ASSUME NEW opcode \in {"SUM", "MINUS", "MULTIPLY", "DIVIDE", "MODULO", "MAX", "MIN"},
         NEW a \in Int, NEW b \in Int, opcode = "MODULO" => b # 0
  PROVE  Update(opcode, a, b) \in Int
<1>1. opcode = "DIVIDE" => Update(opcode, a, b) \in Int
  BY QuotientTyped DEF Update
<1>2. opcode = "MODULO" => Update(opcode, a, b) \in Int
  <2> SUFFICES ASSUME opcode = "MODULO" PROVE Update(opcode, a, b) \in Int
    OBVIOUS
  <2>1. PICK q \in Int : q = Quotient(a, b)
    BY QuotientTyped
  <2>2. \A x, y \in Int : x * y \in Int
    OBVIOUS
  <2>3. Update(opcode, a, b) = a - b * q
    BY <2>1 DEF Update
  <2> QED BY <2>2, <2>3
<1>3. opcode \in {"SUM", "MINUS", "MULTIPLY", "MAX", "MIN"} => Update(opcode, a, b) \in Int
  BY DEF Update
<1> QED BY <1>1, <1>2, <1>3

TypedMachine(row, m) ==
  /\ m = [r1 |-> m.r1, r2 |-> m.r2, r3 |-> m.r3, regs |-> m.regs, gregs |-> m.gregs, hdr |-> m.hdr,
          sent |-> m.sent, destroy |-> m.destroy, trap |-> m.trap]
  /\ m.r1 \in Int \cup Fields /\ (SetsField(row) \/ m.r1 \in Int) /\ m.r2 \in Int /\ m.r3 \in Int
  /\ m.regs \in [Registers -> Int] /\ m.gregs \in [GlobalRegisters -> Int]
  /\ m.hdr \in [Fields -> Readings]

\* One action: what it fetches has its type, and so has what it writes.
LEMMA ActionKeepsTypes ==
  ASSUME NEW row, TypedRow(row), NEW a \in DOMAIN row.actions, NEW m, TypedMachine(row, m)
  PROVE  TypedMachine(row, ExecuteAction(m, row.actions[a]))
<1>1. PICK act : act = row.actions[a]
  OBVIOUS
<1>2. /\ TypedAction(act)
      /\ act.type = "SETFIELD" => SetsField(row)
      /\ SetsField(row) /\ act.type = "UPDATE" => act.op1.type # "HDR_FIELD"
  BY <1>1 DEF TypedRow, SetsField
<1>3. PICK r1 : r1 = IF act.type = "SETFIELD" /\ act.op1.type = "HDR_FIELD"
                     THEN act.op1.value ELSE Operand(act.op1, m.r1, m.regs, m.gregs, m.hdr)
  OBVIOUS
<1>4. PICK r2 : r2 = IF act.type = "SENDPKT" THEN act.op2.value
                     ELSE Operand(act.op2, m.r2, m.regs, m.gregs, m.hdr)
  OBVIOUS
<1>5. PICK r3 : r3 = Operand(act.op3, m.r3, m.regs, m.gregs, m.hdr)
  OBVIOUS
<1>6. /\ m.regs \in [Registers -> Int] /\ m.gregs \in [GlobalRegisters -> Int]
      /\ m.hdr \in [Fields -> Readings] /\ m.r2 \in Int /\ m.r3 \in Int
      /\ m.r1 \in Int \cup Fields /\ (SetsField(row) \/ m.r1 \in Int)
  BY DEF TypedMachine
<1>7. r2 \in Int /\ r3 \in Int
  BY <1>2, <1>4, <1>5, <1>6, OperandTyped DEF TypedAction
<1>8. r1 \in Int \cup Fields /\ (SetsField(row) \/ r1 \in Int)
      /\ (act.type = "UPDATE" => r1 \in Int) /\ (act.type = "SETFIELD" => r1 \in Fields)
  <2>1. CASE act.type = "SETFIELD"
    <3>1. r1 = act.op1.value /\ act.op1.value \in Fields
      BY <1>2, <1>3, <2>1 DEF TypedAction, TypedOperand
    <3> QED BY <1>2, <2>1, <3>1
  <2>2. CASE act.type # "SETFIELD"
    <3>1. r1 = Operand(act.op1, m.r1, m.regs, m.gregs, m.hdr) /\ TypedOperand(act.op1)
      BY <1>2, <1>3, <2>2 DEF TypedAction
    <3>2. r1 \in Int \cup Fields /\ (act.op1.type # "HDR_FIELD" => r1 \in Int)
      BY <1>6, <3>1, OperandTyped
    <3>3. m.r1 \in Int => r1 \in Int
      BY <1>6, <3>1, OperandTyped
    <3> QED BY <1>2, <1>6, <2>2, <3>2, <3>3
  <2> QED BY <2>1, <2>2
<1>9. PICK f : f = [m EXCEPT !.r1 = r1, !.r2 = r2, !.r3 = r3]
  OBVIOUS
<1>10. f = [r1 |-> r1, r2 |-> r2, r3 |-> r3, regs |-> m.regs, gregs |-> m.gregs, hdr |-> m.hdr,
            sent |-> m.sent, destroy |-> m.destroy, trap |-> m.trap]
  BY <1>9 DEF TypedMachine
<1>11. PICK u : u = Update(act.opcode, r1, r2)
  OBVIOUS
<1> DEFINE trapped == act.type = "UPDATE" /\ act.opcode = "MODULO" /\ r2 = 0
           updates == act.type = "UPDATE" /\ ~trapped
<1>12. ExecuteAction(m, act) =
         IF m.trap THEN m ELSE
         CASE trapped -> [f EXCEPT !.trap = TRUE]
           [] updates /\ act.out.type = "REGISTER" -> [f EXCEPT !.regs[act.out.value] = u]
           [] updates /\ act.out.type # "REGISTER" -> [f EXCEPT !.gregs[act.out.value] = u]
           [] act.type = "SENDPKT" -> IF r2 = 0 THEN f ELSE [f EXCEPT !.sent = Append(@, r2)]
           [] act.type = "SETFIELD" -> IF m.hdr[r1] = Missing THEN f ELSE [f EXCEPT !.hdr[r1] = r3]
           [] act.type = "DESTROY" -> [f EXCEPT !.destroy = TRUE]
  BY <1>3, <1>4, <1>5, <1>9, <1>11 DEF ExecuteAction
<1>13. updates => u \in Int
  BY <1>2, <1>7, <1>8, <1>11, UpdateTyped DEF TypedAction
<1>14. TypedMachine(row, f)
  BY <1>6, <1>7, <1>8, <1>10 DEF TypedMachine
<1>15. /\ TypedMachine(row, [f EXCEPT !.trap = TRUE])
       /\ TypedMachine(row, [f EXCEPT !.destroy = TRUE])
       /\ \A x : TypedMachine(row, [f EXCEPT !.sent = x])
  <2>1. ASSUME NEW x PROVE TypedMachine(row, [f EXCEPT !.trap = x])
    BY <1>6, <1>7, <1>8, <1>10 DEF TypedMachine
  <2>2. ASSUME NEW x PROVE TypedMachine(row, [f EXCEPT !.destroy = x])
    BY <1>6, <1>7, <1>8, <1>10 DEF TypedMachine
  <2>3. ASSUME NEW x PROVE TypedMachine(row, [f EXCEPT !.sent = x])
    BY <1>6, <1>7, <1>8, <1>10 DEF TypedMachine
  <2> QED BY <2>1, <2>2, <2>3, Zenon
<1>16. CASE m.trap
  BY <1>1, <1>12, <1>16
<1>17. CASE ~m.trap /\ trapped
  <2>1. ExecuteAction(m, act) = [f EXCEPT !.trap = TRUE]
    BY <1>12, <1>17
  <2> QED BY <1>1, <1>15, <2>1
<1>18. CASE ~m.trap /\ updates /\ act.out.type = "REGISTER"
  <2>1. PICK x : x = [m.regs EXCEPT ![act.out.value] = u]
    OBVIOUS
  <2>2. x \in [Registers -> Int]
    BY <1>6, <1>13, <1>18, <2>1
  <2>3. ExecuteAction(m, act) = [f EXCEPT !.regs = x]
    BY <1>10, <1>12, <1>18, <2>1
  <2>4. TypedMachine(row, [f EXCEPT !.regs = x])
    BY <1>6, <1>7, <1>8, <1>10, <2>2 DEF TypedMachine
  <2> QED BY <1>1, <2>3, <2>4
<1>19. CASE ~m.trap /\ updates /\ act.out.type # "REGISTER"
  <2>1. PICK x : x = [m.gregs EXCEPT ![act.out.value] = u]
    OBVIOUS
  <2>2. x \in [GlobalRegisters -> Int]
    BY <1>6, <1>13, <1>19, <2>1
  <2>3. ExecuteAction(m, act) = [f EXCEPT !.gregs = x]
    BY <1>10, <1>12, <1>19, <2>1
  <2>4. TypedMachine(row, [f EXCEPT !.gregs = x])
    BY <1>6, <1>7, <1>8, <1>10, <2>2 DEF TypedMachine
  <2> QED BY <1>1, <2>3, <2>4
<1>20. CASE ~m.trap /\ act.type = "SENDPKT"
  <2>1. ExecuteAction(m, act) = IF r2 = 0 THEN f ELSE [f EXCEPT !.sent = Append(@, r2)]
    BY <1>12, <1>20
  <2> QED BY <1>1, <1>14, <1>15, <2>1
<1>21. CASE ~m.trap /\ act.type = "SETFIELD"
  <2>1. PICK x : x = [m.hdr EXCEPT ![r1] = r3]
    OBVIOUS
  <2>2. x \in [Fields -> Readings]
    BY <1>6, <1>7, <2>1 DEF Readings
  <2>3. ExecuteAction(m, act) = IF m.hdr[r1] = Missing THEN f ELSE [f EXCEPT !.hdr[r1] = r3]
    BY <1>12, <1>21
  <2>4. [f EXCEPT !.hdr[r1] = r3] = [f EXCEPT !.hdr = x]
    BY <1>10, <2>1
  <2>5. TypedMachine(row, [f EXCEPT !.hdr = x])
    BY <1>6, <1>7, <1>8, <1>10, <2>2 DEF TypedMachine
  <2> QED BY <1>1, <1>14, <2>3, <2>4, <2>5
<1>22. CASE ~m.trap /\ act.type = "DESTROY"
  <2>1. ExecuteAction(m, act) = [f EXCEPT !.destroy = TRUE]
    BY <1>12, <1>22
  <2> QED BY <1>1, <1>15, <2>1
<1> QED BY <1>2, <1>16, <1>17, <1>18, <1>19, <1>20, <1>21, <1>22 DEF TypedAction

\* ExecuteActions' recursion has a solution: the machine after each action.
LEMMA ActionsUnfold ==
  ASSUME NEW row, Len(row.actions) \in Nat, NEW regs, NEW gl, NEW h
  PROVE  \E m : /\ ExecuteActions(row, regs, gl, h) = m[Len(row.actions)]
                /\ m[0] = ActionMachine(regs, gl, h)
                /\ \A i \in 1..Len(row.actions) : m[i] = ExecuteAction(m[i - 1], row.actions[i])
<1> DEFINE Steps(g, n) ==
             g = [i \in 0..n |-> IF i = 0 THEN ActionMachine(regs, gl, h)
                                 ELSE ExecuteAction(g[i - 1], row.actions[i])]
           S == {n \in Nat : \E g : Steps(g, n)}
<1>1. 0 \in S
  <2>1. PICK z : z = [i \in 0..0 |-> ActionMachine(regs, gl, h)]
    OBVIOUS
  <2>2. z = [i \in 0..0 |-> IF i = 0 THEN ActionMachine(regs, gl, h)
                            ELSE ExecuteAction(z[i - 1], row.actions[i])]
    BY <2>1
  <2>3. Steps(z, 0)
    BY <2>2
  <2> QED BY <2>3
<1>2. ASSUME NEW n \in Nat, n \in S PROVE n + 1 \in S
  <2>1. PICK g : Steps(g, n)
    BY <1>2
  <2> DEFINE k == [i \in 0..(n + 1) |-> IF i = n + 1 THEN ExecuteAction(g[n], row.actions[n + 1]) ELSE g[i]]
  <2>2. \A i \in 0..(n + 1) : k[i] = IF i = 0 THEN ActionMachine(regs, gl, h)
                                     ELSE ExecuteAction(k[i - 1], row.actions[i])
    <3> TAKE i \in 0..(n + 1)
    <3>1. CASE i = n + 1
      <4>1. n \in 0..(n + 1) /\ n # n + 1 /\ i - 1 = n
        BY <3>1
      <4>2. k[i - 1] = g[n]
        BY <4>1
      <4> QED BY <3>1, <4>2
    <3>2. CASE i = 0
      <4>1. k[0] = g[0] /\ g[0] = ActionMachine(regs, gl, h)
        BY <2>1
      <4> QED BY <3>2, <4>1
    <3>3. CASE i \in 1..n
      <4>1. k[i] = g[i] /\ k[i - 1] = g[i - 1] /\ i \in 0..n /\ i # 0
        BY <3>3
      <4>2. g[i] = ExecuteAction(g[i - 1], row.actions[i])
        BY <2>1, <4>1
      <4> QED BY <4>1, <4>2
    <3> QED BY <3>1, <3>2, <3>3
  <2>3. k = [i \in 0..(n + 1) |-> k[i]]
    OBVIOUS
  <2> HIDE DEF k
  <2>4. Steps(k, n + 1)
    BY <2>2, <2>3
  <2> QED BY <2>4
<1>3. PICK l : l = Len(row.actions)
  OBVIOUS
<1>4. \E g : Steps(g, l)
  <2> HIDE DEF Steps
  <2>1. Nat \subseteq S
    BY <1>1, <1>2, Induction
  <2> QED BY <1>3, <2>1
<1>5. PICK m : m = CHOOSE g : Steps(g, l)
  OBVIOUS
<1>6. Steps(m, l)
  BY <1>4, <1>5
<1>7. ExecuteActions(row, regs, gl, h) = m[l]
  BY <1>3, <1>5 DEF ExecuteActions
<1>8. m[0] = ActionMachine(regs, gl, h) /\ \A i \in 1..l : m[i] = ExecuteAction(m[i - 1], row.actions[i])
  BY <1>3, <1>6
<1> QED BY <1>3, <1>7, <1>8

\* xfsm_execute_actions keeps the types of registers, global registers and fields.
LEMMA ActionsTyped ==
  ASSUME NEW row, TypedRow(row), NEW regs \in [Registers -> Int], NEW gl \in [GlobalRegisters -> Int],
         NEW h \in [Fields -> Readings]
  PROVE  TypedMachine(row, ExecuteActions(row, regs, gl, h))
<1>1. PICK l \in Nat : l = Len(row.actions) /\ DOMAIN row.actions = 1..l
  BY DEF TypedRow
<1>2. PICK m : /\ ExecuteActions(row, regs, gl, h) = m[l]
               /\ m[0] = ActionMachine(regs, gl, h)
               /\ \A i \in 1..l : m[i] = ExecuteAction(m[i - 1], row.actions[i])
  BY <1>1, ActionsUnfold
<1> DEFINE R == {n \in Nat : n <= l => TypedMachine(row, m[n])}
<1>3. 0 \in R
  <2>1. TypedMachine(row, ActionMachine(regs, gl, h))
    BY DEF TypedMachine, ActionMachine
  <2> QED BY <1>2, <2>1
<1>4. ASSUME NEW n \in Nat, n \in R PROVE n + 1 \in R
  <2> SUFFICES ASSUME n + 1 <= l PROVE TypedMachine(row, m[n + 1])
    OBVIOUS
  <2>1. n <= l /\ n + 1 \in 1..l /\ (n + 1) - 1 = n
    OBVIOUS
  <2>2. TypedMachine(row, m[n]) /\ m[n + 1] = ExecuteAction(m[n], row.actions[n + 1])
    BY <1>2, <1>4, <2>1
  <2> QED BY <1>1, <2>1, <2>2, ActionKeepsTypes
<1>5. l \in R
  <2> HIDE DEF R
  <2> QED BY <1>3, <1>4, Induction
<1> QED BY <1>2, <1>5

\* What xfsm_table_lookup finds is a row of the program, or none, for any program:
\* also with rows for state any, or more states than the table holds.
LEMMA LookupInRows ==
  ASSUME NumRows \in Nat, MaxEntriesForeachState \in Nat, NEW state, NEW results
  PROVE  XfsmTableLookup(Rows, Entries, state, results) \in 0..NumRows
<1>6. CASE state \in DOMAIN Entries
  <2>5. PICK e : e = Entries[state]
    OBVIOUS
  <2>6. e \in Seq(1..NumRows)
    BY <1>6, <2>5, EntriesAreRows DEF Entries, NumRows
  <2>7. PICK I : I = {a \in 1..Len(e) : RowMatches(Rows[e[a]], results)}
    OBVIOUS
  <2>8. SelectInSeq(e, LAMBDA id : RowMatches(Rows[id], results)) = IF I # {} THEN Min(I) ELSE 0
    BY <2>7 DEF SelectInSeq
  <2>9. I # {} => Min(I) \in DOMAIN e /\ Min(I) # 0
    <3>1. Len(e) \in Nat /\ DOMAIN e = 1..Len(e)
      BY <2>6
    <3>2. I \in SUBSET Nat /\ I \subseteq DOMAIN e /\ 0 \notin I
      BY <2>7, <3>1
    <3>3. I # {} => Min(I) \in I
      BY <3>2, MinOf
    <3> QED BY <3>2, <3>3
  <2>10. XfsmTableLookup(Rows, Entries, state, results) = IF I # {} THEN e[Min(I)] ELSE 0
    BY <1>6, <2>5, <2>8, <2>9 DEF XfsmTableLookup
  <2>11. I # {} => e[Min(I)] \in 1..NumRows
    BY <2>6, <2>9, Elements
  <2> QED BY <2>10, <2>11
<1>7. CASE state \notin DOMAIN Entries
  BY <1>7 DEF XfsmTableLookup
<1> QED BY <1>6, <1>7

\* get_hdr_value, through pointers of every kind.
LEMMA HeaderTyped ==
  ASSUME TypedProgram, NEW ptr \in [FieldGroups -> {"null", "this", "stale"}],
         NEW val \in [Fields -> Readings], NEW st \in Int
  PROVE  HeaderValues(ptr, val, st) \in [Fields -> Readings]
<1>1. \A f \in Fields : GroupOf(f) \in FieldGroups /\ PointsAt(f) \in Fields
  BY GroupsOf DEF TypedProgram
<1>2. \A f \in Fields : ptr[GroupOf(f)] \in {"null", "this", "stale"} /\ val[PointsAt(f)] \in Readings
  BY <1>1
<1>3. Missing \in Readings /\ st \in Readings
  BY DEF Readings
<1> QED BY <1>2, <1>3 DEF HeaderValues

\* key_extract and biflow: the slots stay within the key.
LEMMA KeyTyped ==
  ASSUME TypedProgram, NEW key \in [1..FkSlots -> Int], NEW h \in [Fields -> Readings], NEW no
  PROVE  Biflow(KeyExtract(key, LookupKey, h), no) \in [1..FkSlots -> Int]
<1>1. PICK x : x = KeyExtract(key, LookupKey, h)
  OBVIOUS
<1>2. FkSlots \in Nat /\ \A i \in DOMAIN LookupKey : h[LookupKey[i]] # Missing => h[LookupKey[i]] \in Int
  BY DEF TypedProgram, Readings
<1>3. x \in [1..FkSlots -> Int]
  BY <1>1, <1>2 DEF KeyExtract
<1>4. Len(x) = FkSlots
  BY <1>2, <1>3
<1>5. \A i \in 1..FkSlots : i % 2 = 1 => i = FkSlots \/ i + 1 \in 1..FkSlots
  BY <1>2
<1>6. \A i \in 1..FkSlots : i % 2 # 1 => i - 1 \in 1..FkSlots
  BY <1>2
<1>7. Biflow(x, no) \in [1..FkSlots -> Int]
  BY <1>3, <1>4, <1>5, <1>6 DEF Biflow
<1> QED BY <1>1, <1>7

\* The type invariant needs the types of what is under way.
UnderWay ==
  /\ stale \in Int
  /\ pc \in {"parse", "lookup", "match", "actions"} =>
       pkt \in [proto : Protocols, val : [Fields -> Readings]]
  /\ pc \in {"lookup", "match", "actions"} => hdr \in [Fields -> Readings]
TypeInv == TypeOK /\ UnderWay /\ StoreInv

\* A zeroed instance, and one init_instance has reset.
LEMMA FreshTyped ==
  ASSUME NEW n \in Nat
  PROVE  InitInstance(n) \in [state : Nat, registers : [Registers -> Int], destroy : BOOLEAN]
<1>1. [r \in Registers |-> 0] \in [Registers -> Int]
  OBVIOUS
<1>2. PICK f \in BOOLEAN : f = FALSE
  OBVIOUS
<1> QED BY <1>1, <1>2 DEF InitInstance

LEMMA InitTypes == ASSUME TypedProgram, Init PROVE TypeInv
<1>1. UnderWay
  BY DEF Init, UnderWay, TypedProgram
<1>2. /\ pc = "load" /\ curr_stage = 0 /\ fk = ZeroKey /\ hmap = << >> /\ nb_instances = 0
      /\ pkt_fields = [g \in FieldGroups |-> "null"]
      /\ flow_key = [s \in Slots |-> ZeroKey] /\ pool = [s \in Slots |-> InitInstance(0)]
      /\ gregs = [r \in GlobalRegisters |-> 0]
  BY DEF Init
<1>3. ZeroKey \in [1..FkSlots -> Int]
  BY DEF ZeroKey
<1>4. pool \in [Slots -> [state : Nat, registers : [Registers -> Int], destroy : BOOLEAN]]
  BY <1>2, FreshTyped
<1>5. nb_instances \in Slots /\ curr_stage \in 0..255
  BY <1>2, StoreAssumption DEF Slots
<1>6. pkt_fields \in [FieldGroups -> {"null", "this", "stale"}] /\ gregs \in [GlobalRegisters -> Int]
      /\ flow_key \in [Slots -> [1..FkSlots -> Int]] /\ DOMAIN hmap = {}
  BY <1>2, <1>3
<1>7. TypeOK
  BY <1>2, <1>3, <1>4, <1>5, <1>6 DEF TypeOK
<1> QED BY <1>1, <1>7, InitStore DEF TypeInv

\* Steps that leave the store and the registers alone.
LEMMA QuietTypes ==
  ASSUME TypeOK, StoreInv', UNCHANGED << hmap, flow_key, pool, nb_instances, gregs >>,
         pc' \in {"load", "load_next", "exited", "rx", "parse", "lookup", "match", "actions", "free", "crashed"},
         curr_stage' \in 0..255, pkt_fields' \in [FieldGroups -> {"null", "this", "stale"}],
         fk' \in [1..FkSlots -> Int], pc' = "actions" => match' \in DOMAIN Rows
  PROVE  TypeOK'
<1>1. pc' \in {"match", "actions"} => match_inst' \in Slots
  BY DEF StoreInv, StoreType, InstanceOfTheKey
<1> QED BY <1>1 DEF TypeOK

LEMMA CreateTypes == ASSUME TypedProgram, TypeInv, StoreInv', CreateTable PROVE TypeInv'
<1>1. /\ pc' \in {"rx", "load_next"}
      /\ flow_key' = [s \in Slots |-> ZeroKey] /\ pool' = [s \in Slots |-> InitInstance(0)]
      /\ UNCHANGED << curr_stage, pkt_fields, stale, fk, gregs, nb_instances, hmap >>
  BY DEF CreateTable, work
<1>2. pool' \in [Slots -> [state : Nat, registers : [Registers -> Int], destroy : BOOLEAN]]
  BY <1>1, FreshTyped
<1>3. flow_key' \in [Slots -> [1..FkSlots -> Int]]
  BY <1>1 DEF ZeroKey
<1>4. TypeOK'
  BY <1>1, <1>2, <1>3 DEF TypeInv, TypeOK
<1>5. UnderWay'
  BY <1>1 DEF TypeInv, UnderWay
<1> QED BY <1>4, <1>5 DEF TypeInv

LEMMA ReceiveTypes == ASSUME TypedProgram, TypeInv, StoreInv', NEW p \in Packets, Receive(p) PROVE TypeInv'
<1>1. /\ pkt' = p /\ pc' = "parse" /\ pkt_fields' = AgePointers(pkt_fields) /\ stale' \in StaleValues
      /\ UNCHANGED << hmap, flow_key, pool, nb_instances, gregs, curr_stage, fk, match >>
  BY DEF Receive, store
<1>2. pkt_fields' \in [FieldGroups -> {"null", "this", "stale"}]
  BY <1>1 DEF AgePointers
<1>3. TypeOK'
  BY <1>1, <1>2, QuietTypes DEF TypeInv, TypeOK
<1>4. p \in [proto : Protocols, val : [Fields -> Readings]]
  <2>1. p \in [proto : Protocols, val : [Fields -> Int]]
    BY DEF TypedProgram
  <2>2. p.val \in [Fields -> Readings]
    BY <2>1 DEF Readings
  <2> QED BY <2>1, <2>2
<1>5. UnderWay'
  BY <1>1, <1>4 DEF TypedProgram, UnderWay
<1> QED BY <1>3, <1>5 DEF TypeInv

LEMMA ParseTypes == ASSUME TypedProgram, TypeInv, StoreInv', ParseAndExtract PROVE TypeInv'
<1>1. /\ pc = "parse" /\ pc' = "lookup"
      /\ pkt_fields' = ParsePktHeader(pkt_fields, pkt.proto)
      /\ hdr' = HeaderValues(pkt_fields', pkt.val, stale)
      /\ fk' = Biflow(KeyExtract(fk, LookupKey, hdr'), biflow_no)
      /\ UNCHANGED << hmap, flow_key, pool, nb_instances, gregs, curr_stage, pkt, stale, match >>
  BY DEF ParseAndExtract, store
<1>2. pkt_fields' \in [FieldGroups -> {"null", "this", "stale"}]
  BY <1>1 DEF ParsePktHeader, TypeInv, TypeOK
<1>3. pkt \in [proto : Protocols, val : [Fields -> Readings]] /\ pkt.val \in [Fields -> Readings] /\ stale \in Int
  BY <1>1 DEF TypeInv, UnderWay
<1>4. hdr' \in [Fields -> Readings]
  BY <1>1, <1>2, <1>3, HeaderTyped
<1>5. fk' \in [1..FkSlots -> Int]
  BY <1>1, <1>4, KeyTyped DEF TypeInv, TypeOK
<1>6. TypeOK'
  BY <1>1, <1>2, <1>5, QuietTypes DEF TypeInv, TypeOK
<1>7. UnderWay'
  BY <1>1, <1>3, <1>4 DEF UnderWay
<1> QED BY <1>6, <1>7 DEF TypeInv

LEMMA LookupTypes == ASSUME TypeInv, StoreInv', LookupFound \/ LookupInserted PROVE TypeInv'
<1>1. /\ pc = "lookup" /\ pc' = "match"
      /\ UNCHANGED << gregs, curr_stage, pkt, stale, pkt_fields, hdr, fk, pool >>
  BY DEF LookupFound, LookupInserted, InsertInstance, store
<1>2. UnderWay'
  BY <1>1 DEF TypeInv, UnderWay
<1>3. CASE LookupFound
  <2>1. UNCHANGED << hmap, flow_key, pool, nb_instances >>
    BY <1>3 DEF LookupFound, store
  <2>2. TypeOK'
    BY <1>1, <2>1, QuietTypes DEF TypeInv, TypeOK
  <2> QED BY <1>2, <2>2 DEF TypeInv
<1>4. CASE LookupInserted
  <2>1. PICK slot \in Free : InsertInstance(slot) /\ match_inst' = slot
    BY <1>4 DEF LookupInserted
  <2>2. slot \in Slots /\ fk \in [1..FkSlots -> Int]
    BY DEF Free, TypeInv, TypeOK
  <2>3. DOMAIN hmap' = DOMAIN hmap \cup {fk} /\ \A k \in DOMAIN hmap' : hmap'[k] \in Slots
    BY <2>1, <2>2 DEF InsertInstance, TypeInv, TypeOK
  <2>4. nb_instances' \in Slots
    BY <2>1, StoreAssumption DEF InsertInstance, TypeInv, TypeOK, Slots
  <2>5. flow_key' \in [Slots -> [1..FkSlots -> Int]]
    BY <2>1, <2>2 DEF InsertInstance, TypeInv, TypeOK
  <2>6. TypeOK'
    BY <1>1, <2>1, <2>2, <2>3, <2>4, <2>5 DEF TypeInv, TypeOK
  <2> QED BY <1>2, <2>6 DEF TypeInv
<1> QED BY <1>3, <1>4

LEMMA MatchTypes == ASSUME TypedProgram, TypeInv, StoreInv', MatchRow PROVE TypeInv'
<1>1. /\ pc = "match" /\ match' = XfsmTableLookup(Rows, Entries, pool[match_inst].state, Results)
      /\ pc' = IF match' = 0 THEN "free" ELSE "actions"
      /\ UNCHANGED << hmap, flow_key, pool, nb_instances, gregs, curr_stage, pkt, stale, pkt_fields, hdr, fk >>
  BY DEF MatchRow, store
<1>2. match' \in 0..NumRows
  BY <1>1, LookupInRows DEF TypedProgram
<1>3. pc' = "actions" => match' \in DOMAIN Rows
  BY <1>1, <1>2 DEF TypedProgram
<1>4. pc' \in {"free", "actions"}
  BY <1>1
<1>5. TypeOK'
  BY <1>1, <1>3, <1>4, QuietTypes DEF TypeInv, TypeOK
<1>6. UnderWay'
  BY <1>1, <1>4 DEF TypeInv, UnderWay
<1> QED BY <1>5, <1>6 DEF TypeInv

\* What the actions make of an instance and of the packet's fields has its type.
LEMMA OutcomeTyped ==
  ASSUME TypedProgram, TypeInv, pc = "actions"
  PROVE  /\ TypedRow(Rows[match]) /\ match_inst \in Slots
         /\ Outcome.gregs \in [GlobalRegisters -> Int] /\ Outcome.hdr \in [Fields -> Readings]
         /\ Written \in [state : Nat, registers : [Registers -> Int], destroy : BOOLEAN]
<1>1. TypedRow(Rows[match]) /\ match_inst \in Slots /\ hdr \in [Fields -> Readings]
  BY DEF TypeInv, TypeOK, UnderWay, TypedProgram
<1>2. PICK x : x = pool[match_inst]
  OBVIOUS
<1>3. x \in [state : Nat, registers : [Registers -> Int], destroy : BOOLEAN]
  BY <1>1, <1>2 DEF TypeInv, TypeOK
<1>4. x.registers \in [Registers -> Int] /\ gregs \in [GlobalRegisters -> Int]
  BY <1>3 DEF TypeInv, TypeOK
<1>5. PICK y : y = Outcome
  OBVIOUS
<1>6. TypedMachine(Rows[match], y)
  BY <1>1, <1>2, <1>4, <1>5, ActionsTyped DEF Outcome
<1>7. y.gregs \in [GlobalRegisters -> Int] /\ y.hdr \in [Fields -> Readings] /\ y.regs \in [Registers -> Int]
  BY <1>6 DEF TypedMachine
<1>8. PICK d \in BOOLEAN : d = (x.destroy \/ y.destroy)
  OBVIOUS
<1>9. Written = [x EXCEPT !.registers = y.regs, !.destroy = d]
  BY <1>2, <1>5, <1>8 DEF Written
<1>10. Written = [state |-> x.state, registers |-> y.regs, destroy |-> d]
  BY <1>3, <1>9
<1>11. Written \in [state : Nat, registers : [Registers -> Int], destroy : BOOLEAN]
  BY <1>3, <1>7, <1>10
<1> QED BY <1>1, <1>5, <1>7, <1>11

\* A field the actions wrote is read back through the packet.
LEMMA WrittenPacketTyped ==
  ASSUME TypedProgram, TypeInv, pc = "actions", PacketWritten
  PROVE  /\ gregs' \in [GlobalRegisters -> Int]
         /\ pkt' \in [proto : Protocols, val : [Fields -> Readings]]
         /\ UNCHANGED << nb_instances, pkt_fields, stale, fk, match_inst, match >>
<1>1. /\ gregs' = Outcome.gregs
      /\ UNCHANGED << nb_instances, pkt_fields, stale, fk, match_inst, match >>
  BY DEF PacketWritten
<1>2. PICK h : h = Outcome.hdr
  OBVIOUS
<1>3. PICK v : v = [f \in DOMAIN pkt.val |-> IF pkt_fields[GroupOf(f)] = "this" THEN h[f] ELSE pkt.val[f]]
  OBVIOUS
<1>4. pkt' = [pkt EXCEPT !.val = v]
  BY <1>2, <1>3 DEF PacketWritten
<1>5. pkt \in [proto : Protocols, val : [Fields -> Readings]]
  BY DEF TypeInv, UnderWay
<1>6. h \in [Fields -> Readings] /\ Outcome.gregs \in [GlobalRegisters -> Int]
  BY <1>2, OutcomeTyped
<1>7. v \in [Fields -> Readings]
  <2>1. DOMAIN pkt.val = Fields /\ \A f \in Fields : pkt.val[f] \in Readings /\ h[f] \in Readings
    BY <1>5, <1>6
  <2> QED BY <1>3, <2>1
<1>8. pkt' \in [proto : Protocols, val : [Fields -> Readings]]
  BY <1>4, <1>5, <1>7
<1> QED BY <1>1, <1>6, <1>8

LEMMA TransitionTypes == ASSUME TypedProgram, TypeInv, StoreInv', ActionsTransition PROVE TypeInv'
<1>1. /\ pc = "actions" /\ pc' \in {"free", "parse"} /\ PacketWritten
      /\ pool' = [pool EXCEPT ![match_inst] = [Written EXCEPT !.state = Rows[match].next_state]]
      /\ curr_stage' = Rows[match].next_stage
      /\ UNCHANGED << hmap, flow_key >>
  BY DEF ActionsTransition
<1>2. PICK w : w = Written
  OBVIOUS
<1>3. /\ Rows[match].next_state \in Nat /\ curr_stage' \in 0..255
      /\ w \in [state : Nat, registers : [Registers -> Int], destroy : BOOLEAN]
  BY <1>1, <1>2, OutcomeTyped DEF TypedRow
<1>4. PICK x : x = [w EXCEPT !.state = Rows[match].next_state]
  OBVIOUS
<1>5. x \in [state : Nat, registers : [Registers -> Int], destroy : BOOLEAN]
  BY <1>3, <1>4
<1>6. pool' \in [Slots -> [state : Nat, registers : [Registers -> Int], destroy : BOOLEAN]]
  BY <1>1, <1>2, <1>4, <1>5 DEF TypeInv, TypeOK
<1>7. /\ gregs' \in [GlobalRegisters -> Int]
      /\ pkt' \in [proto : Protocols, val : [Fields -> Readings]]
      /\ UNCHANGED << nb_instances, pkt_fields, stale, fk, match_inst, match >>
  BY <1>1, WrittenPacketTyped
<1>8. TypeOK'
  BY <1>1, <1>3, <1>6, <1>7 DEF TypeInv, TypeOK
<1>9. UnderWay'
  BY <1>1, <1>7 DEF TypeInv, UnderWay
<1> QED BY <1>8, <1>9 DEF TypeInv

LEMMA DestroyTypes == ASSUME TypedProgram, TypeInv, StoreInv', ActionsDestroy PROVE TypeInv'
<1>1. /\ pc = "actions" /\ pc' = "free" /\ PacketWritten
      /\ DestroyInstance(match_inst, Written) /\ UNCHANGED curr_stage
  BY DEF ActionsDestroy
<1>2. match_inst \in Slots /\ ZeroKey \in [1..FkSlots -> Int]
  BY <1>1, OutcomeTyped DEF ZeroKey
<1>3. pool' \in [Slots -> [state : Nat, registers : [Registers -> Int], destroy : BOOLEAN]]
  <2> DEFINE Typed == [state : Nat, registers : [Registers -> Int], destroy : BOOLEAN]
  <2>1. Written \in Typed
    BY <1>1, OutcomeTyped
  <2>2. InitInstance(InitialState) \in Typed
    BY FreshTyped DEF TypedProgram
  <2>3. pool \in [Slots -> Typed]
    BY DEF TypeInv, TypeOK
  <2>4. PICK x \in Typed : pool' = [pool EXCEPT ![match_inst] = x]
    BY <1>1, <2>1, <2>2 DEF DestroyInstance
  <2> HIDE DEF Typed
  <2>5. pool' \in [Slots -> Typed]
    BY <1>2, <2>3, <2>4
  <2> QED BY <2>5 DEF Typed
<1>4. flow_key' \in [Slots -> [1..FkSlots -> Int]]
  BY <1>1, <1>2 DEF DestroyInstance, TypeInv, TypeOK
<1>5. DOMAIN hmap' \subseteq DOMAIN hmap /\ \A k \in DOMAIN hmap' : hmap'[k] \in Slots
  BY <1>1 DEF DestroyInstance, TypeInv, TypeOK
<1>6. /\ gregs' \in [GlobalRegisters -> Int]
      /\ UNCHANGED << nb_instances, pkt_fields, stale, fk, match_inst, match >>
  BY <1>1, WrittenPacketTyped
<1>7. TypeOK'
  BY <1>1, <1>3, <1>4, <1>5, <1>6 DEF TypeInv, TypeOK
<1>8. UnderWay'
  BY <1>1, <1>6 DEF TypeInv, UnderWay
<1> QED BY <1>7, <1>8 DEF TypeInv

\* Steps that end a packet or the worker.
LEMMA EndTypes ==
  ASSUME TypeInv, StoreInv', UNCHANGED << store, gregs, pkt_fields, stale, fk >>,
         pc' \in {"exited", "rx", "crashed"}, curr_stage' \in 0..255
  PROVE  TypeInv'
<1>1. TypeOK'
  BY QuietTypes DEF TypeInv, TypeOK, store
<1>2. UnderWay'
  BY DEF TypeInv, UnderWay
<1> QED BY <1>1, <1>2 DEF TypeInv

LEMMA StepKeepsTypes == ASSUME TypedProgram, TypeInv, [Next]_vars PROVE TypeInv'
<1>1. StoreInv'
  BY StepKeepsStore DEF TypeInv
<1>2. CASE CreateTable
  BY <1>1, <1>2, CreateTypes
<1>3. CASE \E p \in Packets : Receive(p)
  BY <1>1, <1>3, ReceiveTypes
<1>4. CASE ParseAndExtract
  BY <1>1, <1>4, ParseTypes
<1>5. CASE LookupFound \/ LookupInserted
  BY <1>1, <1>5, LookupTypes
<1>6. CASE MatchRow
  BY <1>1, <1>6, MatchTypes
<1>7. CASE ActionsTransition
  BY <1>1, <1>7, TransitionTypes
<1>8. CASE ActionsDestroy
  BY <1>1, <1>8, DestroyTypes
<1>9. CASE CreateNextTable \/ FreePacket \/ Crash
  <2>1. curr_stage \in 0..255
    BY DEF TypeInv, TypeOK
  <2>2. UNCHANGED << store, gregs, pkt_fields, stale, fk >> /\ pc' \in {"exited", "rx", "crashed"}
    BY <1>9 DEF CreateNextTable, FreePacket, Crash, NoSuchTable, LookupFailed, ActionTrap, work
  <2>3. curr_stage' \in {0, curr_stage}
    BY <1>9 DEF CreateNextTable, FreePacket, Crash, NoSuchTable, LookupFailed, ActionTrap, work
  <2> QED BY <1>1, <2>1, <2>2, <2>3, EndTypes
<1>10. CASE UNCHANGED vars
  BY <1>1, <1>10 DEF vars, work, store, TypeInv, TypeOK, UnderWay
<1> QED BY <1>2, <1>3, <1>4, <1>5, <1>6, <1>7, <1>8, <1>9, <1>10 DEF Next, Process

\* Every variable has its type, for every typed program and packets: the table
\* gives back rows of the program only (xfsm_table_lookup), and what the actions
\* compute stays integers, also where a field is missing or a pointer stale.
THEOREM WorkerTypes == ASSUME TypedProgram PROVE Spec => []TypeOK
<1>1. Init => TypeInv
  BY InitTypes
<1>2. TypeInv /\ [Next]_vars => TypeInv'
  BY StepKeepsTypes
<1>3. TypeInv => TypeOK
  BY DEF TypeInv
<1> QED BY <1>1, <1>2, <1>3, PTL DEF Spec

-----------------------------------------------------------------------------
(* The counter of instances                                                *)

\* insert_instance looks at nb_instances only (xfsm.c:313), which destroy_instance
\* leaves alone: it counts every flow that is filed, and flows that are gone.
FlowsAreCounted ==
  /\ IsFiniteSet(DOMAIN hmap)
  /\ Cardinality(DOMAIN hmap) <= nb_instances
  /\ nb_instances \in 0..MaxInstances - 1

LEMMA InitCounted == Init => FlowsAreCounted
<1> SUFFICES ASSUME Init PROVE FlowsAreCounted
  OBVIOUS
<1>1. DOMAIN hmap = {} /\ nb_instances = 0
  BY DEF Init
<1>2. IsFiniteSet(DOMAIN hmap) /\ Cardinality(DOMAIN hmap) = 0
  BY <1>1, FS_EmptySet
<1> QED BY <1>1, <1>2, StoreAssumption DEF FlowsAreCounted

\* A flow more in the map is one more counted, as long as the counter allows it.
LEMMA InsertCounts ==
  ASSUME FlowsAreCounted, LookupInserted
  PROVE  /\ FlowsAreCounted'
         /\ nb_instances' = nb_instances + 1
         /\ Cardinality(DOMAIN hmap') = Cardinality(DOMAIN hmap) + 1
<1>1. /\ fk \notin DOMAIN hmap /\ DOMAIN hmap' = DOMAIN hmap \cup {fk}
      /\ nb_instances # MaxInstances - 1 /\ nb_instances' = nb_instances + 1
  BY DEF LookupInserted, InsertInstance
<1>2. IsFiniteSet(DOMAIN hmap) /\ Cardinality(DOMAIN hmap) \in Nat
  BY FS_CardinalityType DEF FlowsAreCounted
<1>3. /\ IsFiniteSet(DOMAIN hmap \cup {fk})
      /\ Cardinality(DOMAIN hmap \cup {fk}) = Cardinality(DOMAIN hmap) + 1
  BY <1>1, <1>2, FS_AddElement
<1>4. nb_instances + 1 \in 0..MaxInstances - 1
  BY <1>1, StoreAssumption DEF FlowsAreCounted
<1>5. Cardinality(DOMAIN hmap) + 1 <= nb_instances + 1
  BY <1>2, <1>4 DEF FlowsAreCounted
<1> QED BY <1>1, <1>3, <1>4, <1>5 DEF FlowsAreCounted

LEMMA DestroyCounts == ASSUME FlowsAreCounted, ActionsDestroy PROVE FlowsAreCounted'
<1>1. nb_instances' = nb_instances /\ DOMAIN hmap' \subseteq DOMAIN hmap
  BY DEF ActionsDestroy, DestroyInstance, PacketWritten
<1>2. IsFiniteSet(DOMAIN hmap) /\ Cardinality(DOMAIN hmap) \in Nat
  BY FS_CardinalityType DEF FlowsAreCounted
<1>3. IsFiniteSet(DOMAIN hmap') /\ Cardinality(DOMAIN hmap') <= Cardinality(DOMAIN hmap)
  BY <1>1, <1>2, FS_Subset
<1>4. Cardinality(DOMAIN hmap') \in Nat
  BY <1>3, FS_CardinalityType
<1> QED BY <1>1, <1>2, <1>3, <1>4 DEF FlowsAreCounted

\* Every other step of the worker leaves the map and the counter alone.
LEMMA OthersCount ==
  ASSUME [Next]_vars, ~LookupInserted, ~ActionsDestroy
  PROVE  UNCHANGED << hmap, nb_instances >>
<1>1. CASE CreateTable \/ CreateNextTable
  BY <1>1 DEF CreateTable, CreateNextTable, store
<1>2. ASSUME NEW p \in Packets, Receive(p) PROVE UNCHANGED << hmap, nb_instances >>
  BY <1>2 DEF Receive, store
<1>3. CASE ParseAndExtract \/ LookupFound \/ MatchRow \/ FreePacket
  BY <1>3 DEF ParseAndExtract, LookupFound, MatchRow, FreePacket, store
<1>4. CASE ActionsTransition
  BY <1>4 DEF ActionsTransition, PacketWritten
<1>5. CASE Crash
  BY <1>5 DEF Crash, NoSuchTable, LookupFailed, ActionTrap, store
<1>6. CASE UNCHANGED vars
  BY <1>6 DEF vars, store
<1> QED BY <1>1, <1>2, <1>3, <1>4, <1>5, <1>6 DEF Next, Process

LEMMA StepCounts == FlowsAreCounted /\ [Next]_vars => FlowsAreCounted'
<1> SUFFICES ASSUME FlowsAreCounted, [Next]_vars PROVE FlowsAreCounted'
  OBVIOUS
<1>1. CASE LookupInserted
  BY <1>1, InsertCounts
<1>2. CASE ActionsDestroy
  BY <1>2, DestroyCounts
<1>3. CASE ~LookupInserted /\ ~ActionsDestroy
  BY <1>3, OthersCount DEF FlowsAreCounted
<1> QED BY <1>1, <1>2, <1>3

\* nb_instances counts every flow that is filed: the test in insert_instance
\* keeps instances_hmap and instances_pool from being overfilled, for every
\* program and whatever is destroyed.
THEOREM CounterCoversTheFlows == Spec => []FlowsAreCounted
  BY InitCounted, StepCounts, PTL DEF Spec

\* Where insert_instance asks rte_hash for a slot there is always a free one: the
\* counter stops it before the pool is full (the slots in use are an image of the
\* flows, and they are fewer than the slots).
THEOREM SlotForEveryFlow == Spec => [](Free # {})
<1>1. ASSUME FlowsAreCounted PROVE Free # {}
  <2> SUFFICES ASSUME Free = {} PROVE FALSE
    OBVIOUS
  <2> DEFINE D == DOMAIN hmap
             U == {hmap[k] : k \in D}
             f == [k \in D |-> hmap[k]]
  <2>1. IsFiniteSet(D) /\ Cardinality(D) \in Nat /\ Cardinality(D) <= MaxInstances - 1
    BY <1>1, FS_CardinalityType, StoreAssumption DEF FlowsAreCounted
  <2>2. f \in Surjection(D, U)
    BY DEF Surjection
  <2>3. IsFiniteSet(U) /\ Cardinality(U) <= Cardinality(D)
    <3> HIDE DEF D, U, f
    <3> QED BY <2>1, <2>2, FS_Surjection
  <2>4. Slots \subseteq U
    BY DEF Free
  <2>5. Cardinality(Slots) <= Cardinality(U) /\ Cardinality(U) \in Nat
    <3> HIDE DEF D, U, f
    <3> QED BY <2>3, <2>4, FS_Subset, FS_CardinalityType
  <2>6. Cardinality(Slots) = MaxInstances
    <3>1. 0 \in Int /\ MaxInstances - 1 \in Int /\ ~(0 > MaxInstances - 1)
      BY StoreAssumption
    <3>2. Cardinality(0..MaxInstances - 1) = (MaxInstances - 1) - 0 + 1
      BY <3>1, FS_Interval
    <3> QED BY <3>2, StoreAssumption DEF Slots
  <2> HIDE DEF D, U
  <2> QED BY <2>1, <2>3, <2>5, <2>6, StoreAssumption
<1> QED BY <1>1, CounterCoversTheFlows, PTL

\* Programs without destroy(): machines that never give a flow up, like that of
\* simple-test.
NeverDestroys ==
  \A i \in 1..NumRows : \A a \in DOMAIN Rows[i].actions : Rows[i].actions[a].type # "DESTROY"

\* A machine no action has asked to destroy its instance.
Unmarked(m) == m.destroy = FALSE
Spared(row, m) == TypedMachine(row, m) /\ Unmarked(m)

\* An action other than destroy() does not ask for a destruction.
LEMMA ActionSpares ==
  ASSUME NEW row, NEW m, Spared(row, m),
         NEW act, act.type \in {"UPDATE", "SENDPKT", "SETFIELD"}
  PROVE  Unmarked(ExecuteAction(m, act))
<1>1. PICK r1 : r1 = IF act.type = "SETFIELD" /\ act.op1.type = "HDR_FIELD"
                     THEN act.op1.value ELSE Operand(act.op1, m.r1, m.regs, m.gregs, m.hdr)
  OBVIOUS
<1>2. PICK r2 : r2 = IF act.type = "SENDPKT" THEN act.op2.value
                     ELSE Operand(act.op2, m.r2, m.regs, m.gregs, m.hdr)
  OBVIOUS
<1>3. PICK r3 : r3 = Operand(act.op3, m.r3, m.regs, m.gregs, m.hdr)
  OBVIOUS
<1>4. PICK f : f = [m EXCEPT !.r1 = r1, !.r2 = r2, !.r3 = r3]
  OBVIOUS
<1>5. f = [r1 |-> r1, r2 |-> r2, r3 |-> r3, regs |-> m.regs, gregs |-> m.gregs, hdr |-> m.hdr,
           sent |-> m.sent, destroy |-> FALSE, trap |-> m.trap]
  BY <1>4 DEF Spared, Unmarked, TypedMachine
<1>6. PICK u : u = Update(act.opcode, r1, r2)
  OBVIOUS
<1> DEFINE trapped == act.type = "UPDATE" /\ act.opcode = "MODULO" /\ r2 = 0
           updates == act.type = "UPDATE" /\ ~trapped
<1>7. ExecuteAction(m, act) =
         IF m.trap THEN m ELSE
         CASE trapped -> [f EXCEPT !.trap = TRUE]
           [] updates /\ act.out.type = "REGISTER" -> [f EXCEPT !.regs[act.out.value] = u]
           [] updates /\ act.out.type # "REGISTER" -> [f EXCEPT !.gregs[act.out.value] = u]
           [] act.type = "SENDPKT" -> IF r2 = 0 THEN f ELSE [f EXCEPT !.sent = Append(@, r2)]
           [] act.type = "SETFIELD" -> IF m.hdr[r1] = Missing THEN f ELSE [f EXCEPT !.hdr[r1] = r3]
           [] act.type = "DESTROY" -> [f EXCEPT !.destroy = TRUE]
  BY <1>1, <1>2, <1>3, <1>4, <1>6 DEF ExecuteAction
<1>8. /\ Unmarked(m) /\ Unmarked(f)
      /\ Unmarked([f EXCEPT !.trap = TRUE])
      /\ Unmarked([f EXCEPT !.regs[act.out.value] = u])
      /\ Unmarked([f EXCEPT !.gregs[act.out.value] = u])
      /\ Unmarked([f EXCEPT !.sent = Append(@, r2)])
      /\ Unmarked([f EXCEPT !.hdr[r1] = r3])
  BY <1>5 DEF Spared, Unmarked
<1>9. CASE act.type = "UPDATE"
  BY <1>7, <1>8, <1>9
<1>10. CASE act.type = "SENDPKT"
  BY <1>7, <1>8, <1>10
<1>11. CASE act.type = "SETFIELD"
  BY <1>7, <1>8, <1>11
<1> QED BY <1>9, <1>10, <1>11

LEMMA ActionsSpare ==
  ASSUME NEW row, TypedRow(row), NEW regs \in [Registers -> Int], NEW gl \in [GlobalRegisters -> Int],
         NEW h \in [Fields -> Readings],
         \A a \in DOMAIN row.actions : row.actions[a].type # "DESTROY"
  PROVE  ExecuteActions(row, regs, gl, h).destroy = FALSE
<1>1. PICK l \in Nat : l = Len(row.actions) /\ DOMAIN row.actions = 1..l
  BY DEF TypedRow
<1>2. PICK m : /\ ExecuteActions(row, regs, gl, h) = m[l]
               /\ m[0] = ActionMachine(regs, gl, h)
               /\ \A i \in 1..l : m[i] = ExecuteAction(m[i - 1], row.actions[i])
  <2>1. Len(row.actions) \in Nat
    BY <1>1
  <2> QED BY <1>1, <2>1, ActionsUnfold
<1> DEFINE R == {n \in Nat : n <= l => Spared(row, m[n])}
<1>3. 0 \in R
  <2>1. Spared(row, ActionMachine(regs, gl, h))
    BY DEF Spared, Unmarked, TypedMachine, ActionMachine
  <2> QED BY <1>2, <2>1
<1>4. ASSUME NEW n \in Nat, n \in R PROVE n + 1 \in R
  <2> SUFFICES ASSUME n + 1 <= l PROVE Spared(row, m[n + 1])
    OBVIOUS
  <2>1. n <= l /\ n + 1 \in 1..l /\ (n + 1) - 1 = n
    OBVIOUS
  <2>2. Spared(row, m[n]) /\ m[n + 1] = ExecuteAction(m[n], row.actions[n + 1])
    BY <1>2, <1>4, <2>1
  <2>3. PICK act : act = row.actions[n + 1]
    OBVIOUS
  <2>4. n + 1 \in DOMAIN row.actions /\ act.type \in {"UPDATE", "SENDPKT", "SETFIELD"}
    BY <1>1, <2>1, <2>3 DEF TypedRow, TypedAction
  <2>5. TypedMachine(row, m[n + 1])
    BY <2>2, <2>4, ActionKeepsTypes DEF Spared
  <2>6. Unmarked(m[n + 1])
    BY <2>2, <2>3, <2>4, ActionSpares DEF Spared
  <2> QED BY <2>5, <2>6 DEF Spared
<1>5. l \in R
  <2> HIDE DEF R
  <2> QED BY <1>3, <1>4, Induction
<1> QED BY <1>2, <1>5 DEF Spared, Unmarked

\* Where nothing is destroyed the counter is the number of flows, no instance is
\* marked, and a stage but the first is entered with the key of a flow.
CounterInv ==
  /\ FlowsAreCounted
  /\ nb_instances = Cardinality(DOMAIN hmap)
  /\ \A s \in Slots : pool[s].destroy = FALSE
  /\ pc \in {"load", "load_next", "rx"} => curr_stage = 0
  /\ pc = "parse" /\ curr_stage # 0 => fk \in DOMAIN hmap
  /\ RefusedOnlyWhenFull

LEMMA NothingMarked ==
  ASSUME TypedProgram, NeverDestroys, TypeInv, CounterInv, pc = "actions"
  PROVE  Written.destroy = FALSE /\ match_inst \in Slots
<1>1. /\ TypedRow(Rows[match]) /\ match_inst \in Slots /\ hdr \in [Fields -> Readings]
      /\ match \in 1..NumRows
  BY DEF TypeInv, TypeOK, UnderWay, TypedProgram
<1>2. PICK x : x = pool[match_inst]
  OBVIOUS
<1>3. x \in [state : Nat, registers : [Registers -> Int], destroy : BOOLEAN] /\ x.destroy = FALSE
  BY <1>1, <1>2 DEF TypeInv, TypeOK, CounterInv
<1>4. x.registers \in [Registers -> Int] /\ gregs \in [GlobalRegisters -> Int]
  BY <1>3 DEF TypeInv, TypeOK
<1>5. PICK y : y = Outcome
  OBVIOUS
<1>6. \A a \in DOMAIN Rows[match].actions : Rows[match].actions[a].type # "DESTROY"
  BY <1>1 DEF NeverDestroys
<1>7. y.destroy = FALSE
  BY <1>1, <1>2, <1>4, <1>5, <1>6, ActionsSpare DEF Outcome
<1>8. Written = [x EXCEPT !.registers = y.regs, !.destroy = FALSE]
  BY <1>2, <1>3, <1>5, <1>7 DEF Written
<1> QED BY <1>1, <1>3, <1>8

LEMMA InitCounter == Init => CounterInv
<1> SUFFICES ASSUME Init PROVE CounterInv
  OBVIOUS
<1>1. /\ DOMAIN hmap = {} /\ nb_instances = 0 /\ pc = "load" /\ curr_stage = 0
      /\ \A s \in Slots : pool[s].destroy = FALSE
  BY DEF Init, InitInstance
<1>2. Cardinality(DOMAIN hmap) = 0
  BY <1>1, FS_EmptySet
<1> QED BY <1>1, <1>2, InitCounted DEF CounterInv, RefusedOnlyWhenFull

\* Steps that leave the store alone: a crash is that of a flow that is filed, or
\* of a new one the counter refuses.
LEMMA QuietCounter ==
  ASSUME CounterInv, UNCHANGED << hmap, pool, nb_instances >>,
         pc' \in {"load", "load_next", "rx"} => curr_stage' = 0,
         pc' = "parse" /\ curr_stage' # 0 => fk' \in DOMAIN hmap,
         pc' = "crashed" => fk' \in DOMAIN hmap \/ nb_instances = MaxInstances - 1
  PROVE  CounterInv'
<1>1. FlowsAreCounted'
  BY DEF CounterInv, FlowsAreCounted
<1> QED BY <1>1 DEF CounterInv, RefusedOnlyWhenFull

LEMMA StepCounter ==
  ASSUME TypedProgram, NeverDestroys, ~HashMayRefuse, TypeInv, CounterInv, [Next]_vars
  PROVE  CounterInv'
<1>1. CASE CreateTable
  <2>1. /\ UNCHANGED << hmap, nb_instances, curr_stage >> /\ pc' \in {"rx", "load_next"} /\ curr_stage = 0
        /\ \A s \in Slots : pool'[s].destroy = FALSE
    BY <1>1 DEF CreateTable, work, InitInstance, CounterInv
  <2>2. FlowsAreCounted'
    BY <2>1 DEF CounterInv, FlowsAreCounted
  <2> QED BY <2>1, <2>2 DEF CounterInv, RefusedOnlyWhenFull
<1>2. CASE CreateNextTable
  BY <1>2, QuietCounter DEF CreateNextTable, store
<1>3. ASSUME NEW p \in Packets, Receive(p) PROVE CounterInv'
  <2>1. UNCHANGED << hmap, pool, nb_instances, curr_stage >> /\ pc' = "parse" /\ curr_stage = 0
    BY <1>3 DEF Receive, store, CounterInv
  <2> QED BY <2>1, QuietCounter
<1>4. CASE ParseAndExtract \/ LookupFound
  BY <1>4, QuietCounter DEF ParseAndExtract, LookupFound, store
<1>5. CASE LookupInserted
  <2>1. /\ FlowsAreCounted' /\ nb_instances' = nb_instances + 1
        /\ Cardinality(DOMAIN hmap') = Cardinality(DOMAIN hmap) + 1
    BY <1>5, InsertCounts DEF CounterInv
  <2>2. pc' = "match" /\ UNCHANGED pool
    BY <1>5 DEF LookupInserted, InsertInstance
  <2> QED BY <2>1, <2>2 DEF CounterInv, RefusedOnlyWhenFull
<1>6. CASE MatchRow
  <2>1. UNCHANGED << hmap, pool, nb_instances >> /\ pc' \in {"free", "actions"}
    BY <1>6 DEF MatchRow, store
  <2> QED BY <2>1, QuietCounter
<1>7. CASE ActionsDestroy
  BY <1>7, NothingMarked DEF ActionsDestroy
<1>8. CASE ActionsTransition
  <2>1. /\ UNCHANGED << hmap, nb_instances, fk >> /\ pc' \in {"free", "parse"} /\ fk \in DOMAIN hmap
        /\ pool' = [pool EXCEPT ![match_inst] = [Written EXCEPT !.state = Rows[match].next_state]]
    BY <1>8 DEF ActionsTransition, PacketWritten, TypeInv, StoreInv, InstanceOfTheKey
  <2>2. Written.destroy = FALSE /\ match_inst \in Slots
    BY <1>8, NothingMarked DEF ActionsTransition
  <2>3. Written \in [state : Nat, registers : [Registers -> Int], destroy : BOOLEAN]
    BY <1>8, OutcomeTyped DEF ActionsTransition
  <2>4. [Written EXCEPT !.state = Rows[match].next_state].destroy = FALSE
    BY <2>2, <2>3
  <2>5. pool \in [Slots -> [state : Nat, registers : [Registers -> Int], destroy : BOOLEAN]]
    BY DEF TypeInv, TypeOK
  <2>6. \A s \in Slots : pool'[s].destroy = FALSE
    BY <2>1, <2>4, <2>5 DEF CounterInv
  <2>7. FlowsAreCounted'
    BY <2>1 DEF CounterInv, FlowsAreCounted
  <2> QED BY <2>1, <2>6, <2>7 DEF CounterInv, RefusedOnlyWhenFull
<1>9. CASE FreePacket
  BY <1>9, QuietCounter DEF FreePacket, store
<1>10. CASE Crash
  <2>1. UNCHANGED << hmap, pool, nb_instances, fk >> /\ pc' = "crashed"
    BY <1>10 DEF Crash, NoSuchTable, LookupFailed, ActionTrap, store, work
  <2>2. fk \in DOMAIN hmap \/ nb_instances = MaxInstances - 1
    BY <1>10 DEF Crash, NoSuchTable, LookupFailed, ActionTrap, CounterInv, TypeInv, StoreInv,
                 InstanceOfTheKey
  <2> QED BY <2>1, <2>2, QuietCounter
<1>11. CASE UNCHANGED vars
  <2>1. UNCHANGED << hmap, pool, nb_instances, fk, pc, curr_stage >>
    BY <1>11 DEF vars, work, store
  <2>2. FlowsAreCounted'
    BY <2>1 DEF CounterInv, FlowsAreCounted
  <2> QED BY <2>1, <2>2 DEF CounterInv, RefusedOnlyWhenFull
<1> QED BY <1>1, <1>2, <1>3, <1>4, <1>5, <1>6, <1>7, <1>8, <1>9, <1>10, <1>11
           DEF Next, Process

\* "Instances overflowed" is true of programs that never destroy an instance (as
\* long as rte_hash refuses none): destroy_instance, which leaves nb_instances
\* alone, is all that makes the message wrong.
THEOREM OnlyDestroyingRefusesEarly ==
  ASSUME TypedProgram, NeverDestroys, ~HashMayRefuse
  PROVE  Spec => []RefusedOnlyWhenFull
<1>1. Init => TypeInv /\ CounterInv
  BY InitTypes, InitCounter
<1>2. TypeInv /\ CounterInv /\ [Next]_vars => (TypeInv /\ CounterInv)'
  BY StepKeepsTypes, StepCounter
<1>3. CounterInv => RefusedOnlyWhenFull
  BY DEF CounterInv
<1> QED BY <1>1, <1>2, <1>3, PTL DEF Spec
=============================================================================
