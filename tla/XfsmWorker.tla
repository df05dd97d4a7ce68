----------------------------- MODULE XfsmWorker -----------------------------
(***************************************************************************)
(* SW-FB: what fb_worker_main_loop (flowblaze.c) does with one packet      *)
(* after another, on the table that xfsm_table_create (xfsm.c) built: find *)
(* the packet's fields, extract the flow key, find or create the flow's    *)
(* instance, match a row, run its actions.  The worker is one thread; its  *)
(* calls are steps of their own because local variables, the instance      *)
(* store and the header pointers outlive a packet.                         *)
(*                                                                         *)
(* rte_hash is external: it maps a key to a slot, gives a new key any free *)
(* slot, and may refuse a key before it is full when HashMayRefuse.        *)
(* Definitions marked "Mutant of" are not part of the model: each is a     *)
(* plausible mistake in the definition that follows, and shows that a      *)
(* property notices it.                                                    *)
(***************************************************************************)
EXTENDS Xfsm

CONSTANTS Rows, Conditions, LookupKey, InitialState,
          Packets, StaleValues,       (* what a pointer into a freed buffer reads *)
          BiflowNos,                  (* what lookup_key->biflow_no may hold: the *)
                                      (* loader never assigns it                  *)
          FkSlots, NumRegisters, NumGlobalRegisters,
          MaxInstances, HashMayRefuse,
          NumStages,                  (* stages of the programs that may be given *)
          NoPacket, NoInstance

ASSUME StoreAssumption == MaxInstances \in Nat \ {0}

Slots == 0..MaxInstances-1
Registers == 0..NumRegisters-1
GlobalRegisters == 0..NumGlobalRegisters-1
ZeroKey == [i \in 1..FkSlots |-> 0]
Entries == EntriesDb(Rows)

VARIABLES
  pc,            \* where the worker is
  biflow_no,     \* lookup_key.biflow_no
  pkt,           \* xfsm->curr_pkt
  curr_stage,
  pkt_fields,    \* the header pointers, by group
  stale,         \* what a pointer into an earlier packet's buffer reads now
  hdr,           \* header values the pointers give access to
  fk,            \* the flow key buffer, never cleared
  match_inst,    \* slot of the flow's instance
  match,         \* index of the matching row
  sent,          \* ports the last row of actions sent the packet to
  hmap,          \* instances_hmap: flow key |-> slot
  flow_key,      \* the key each instance of the pool remembers
  pool,          \* instances_pool: what else an instance holds
  nb_instances,
  gregs          \* global_registers

work  == << pkt, curr_stage, pkt_fields, stale, hdr, fk, match_inst, match, sent >>
store == << hmap, flow_key, pool, nb_instances >>
vars  == << pc, biflow_no, work, store, gregs >>

InitInstance(state) ==
  [state |-> state, registers |-> [r \in Registers |-> 0], destroy |-> FALSE]

Init ==
  /\ pc = "load"
  /\ biflow_no \in BiflowNos
  /\ pkt = NoPacket /\ curr_stage = 0
  /\ pkt_fields = [g \in FieldGroups |-> "null"] /\ stale \in StaleValues
  /\ hdr = << >> /\ fk = ZeroKey
  /\ match_inst = NoInstance /\ match = 0 /\ sent = << >>
  /\ hmap = << >> /\ nb_instances = 0
  /\ flow_key = [s \in Slots |-> ZeroKey]
  /\ pool = [s \in Slots |-> InitInstance(0)]      \* zeroed memory
  /\ gregs = [r \in GlobalRegisters |-> 0]

-----------------------------------------------------------------------------
(* Loading the program                                                     *)

\* The instances are initialised before default_state is assigned: they start
\* in the state of a zeroed table.
CreateTable ==
  /\ pc = "load"
  /\ flow_key' = [s \in Slots |-> ZeroKey]
  /\ pool' = [s \in Slots |-> InitInstance(0)]
  /\ \E n \in NumStages : pc' = IF n = 1 THEN "rx" ELSE "load_next"
  /\ UNCHANGED << biflow_no, work, hmap, nb_instances, gregs >>

\* Every table is created with table_id 0, so the second one asks for names
\* that are taken: its packet pool is NULL and rte_exit is called.
CreateNextTable ==
  /\ pc = "load_next"
  /\ pc' = "exited"
  /\ UNCHANGED << biflow_no, work, store, gregs >>

-----------------------------------------------------------------------------
(* The instance store (xfsm.c)                                             *)

Free == Slots \ {hmap[k] : k \in DOMAIN hmap}

\* Mutant of InsertInstance: the instance is not told its key.
InsertInstanceForgetsKey(slot) ==
  /\ nb_instances # MaxInstances - 1
  /\ hmap' = [k \in DOMAIN hmap \cup {fk} |-> IF k = fk THEN slot ELSE hmap[k]]
  /\ nb_instances' = nb_instances + 1
  /\ UNCHANGED << flow_key, pool >>

\* insert_instance, successful: the slot keeps the state and registers it had.
InsertInstance(slot) ==
  /\ nb_instances # MaxInstances - 1
  /\ hmap' = [k \in DOMAIN hmap \cup {fk} |-> IF k = fk THEN slot ELSE hmap[k]]
  /\ flow_key' = [flow_key EXCEPT ![slot] = fk]
  /\ nb_instances' = nb_instances + 1
  /\ UNCHANGED pool

\* Mutant of DestroyInstance: the key goes, the instance is not initialised.
DestroyInstanceKeepsRegisters(slot, written) ==
  /\ hmap' = [k \in DOMAIN hmap \ {flow_key[slot]} |-> hmap[k]]
  /\ pool' = [pool EXCEPT ![slot] = [written EXCEPT !.destroy = FALSE]]
  /\ UNCHANGED flow_key

\* destroy_instance on an instance the actions have just written: the key it
\* holds is removed from the map; if the map does not know it, nothing more.
\* nb_instances stays.
DestroyInstance(slot, written) ==
  IF flow_key[slot] \in DOMAIN hmap
  THEN /\ hmap' = [k \in DOMAIN hmap \ {flow_key[slot]} |-> hmap[k]]
       /\ flow_key' = [flow_key EXCEPT ![slot] = ZeroKey]
       /\ pool' = [pool EXCEPT ![slot] = InitInstance(InitialState)]
  ELSE /\ pool' = [pool EXCEPT ![slot] = written]
       /\ UNCHANGED << hmap, flow_key >>

-----------------------------------------------------------------------------
(* The worker loop                                                         *)

Receive(p) ==
  /\ pc = "rx"
  /\ pkt' = p
  /\ sent' = << >>
  /\ pkt_fields' = AgePointers(pkt_fields)
  /\ stale' \in StaleValues
  /\ pc' = "parse"
  /\ UNCHANGED << biflow_no, curr_stage, hdr, fk, match_inst, match, store, gregs >>

\* A stage without a table: pipeline->tables[curr_stage] is NULL.
NoSuchTable ==
  /\ pc = "parse"
  /\ curr_stage # 0
  /\ pc' = "crashed"
  /\ UNCHANGED << biflow_no, work, store, gregs >>

ParseAndExtract ==
  /\ pc = "parse"
  /\ curr_stage = 0
  /\ pkt_fields' = ParsePktHeader(pkt_fields, pkt.proto)
  /\ hdr' = HeaderValues(pkt_fields', pkt.val, stale)
  /\ fk' = Biflow(KeyExtract(fk, LookupKey, hdr'), biflow_no)
  /\ pc' = "lookup"
  /\ UNCHANGED << biflow_no, pkt, curr_stage, stale, match_inst, match, sent, store, gregs >>

\* Mutant of LookupFound: the instance found for the previous packet is kept.
LookupFoundIsCached ==
  /\ pc = "lookup"
  /\ fk \in DOMAIN hmap
  /\ match_inst' = IF match_inst = NoInstance THEN hmap[fk] ELSE match_inst
  /\ pc' = "match"
  /\ UNCHANGED << biflow_no, pkt, curr_stage, pkt_fields, stale, hdr, fk, match, sent, store, gregs >>

LookupFound ==
  /\ pc = "lookup"
  /\ fk \in DOMAIN hmap
  /\ match_inst' = hmap[fk]
  /\ pc' = "match"
  /\ UNCHANGED << biflow_no, pkt, curr_stage, pkt_fields, stale, hdr, fk, match, sent, store, gregs >>

LookupInserted ==
  /\ pc = "lookup"
  /\ fk \notin DOMAIN hmap
  /\ \E slot \in Free : InsertInstance(slot) /\ match_inst' = slot
  /\ pc' = "match"
  /\ UNCHANGED << biflow_no, pkt, curr_stage, pkt_fields, stale, hdr, fk, match, sent, gregs >>

\* lookup_instance returns NULL and the worker reads match_inst->registers.
LookupFailed ==
  /\ pc = "lookup"
  /\ fk \notin DOMAIN hmap
  /\ nb_instances = MaxInstances - 1 \/ HashMayRefuse
  /\ pc' = "crashed"
  /\ UNCHANGED << biflow_no, work, store, gregs >>

Results == EvaluateConditions(Conditions, pool[match_inst].registers, gregs, hdr)

\* Mutant of MatchRow: the NULL that xfsm_table_lookup returns is not tested.
MatchRowUnchecked ==
  /\ pc = "match"
  /\ match' = XfsmTableLookup(Rows, Entries, pool[match_inst].state, Results)
  /\ pc' = "actions"
  /\ UNCHANGED << biflow_no, pkt, curr_stage, pkt_fields, stale, hdr, fk, match_inst, sent, store, gregs >>

MatchRow ==
  /\ pc = "match"
  /\ match' = XfsmTableLookup(Rows, Entries, pool[match_inst].state, Results)
  /\ pc' = IF match' = 0 THEN "free" ELSE "actions"
  /\ UNCHANGED << biflow_no, pkt, curr_stage, pkt_fields, stale, hdr, fk, match_inst, sent, store, gregs >>

\* What the row's actions make of the packet and of the instance.
Outcome == ExecuteActions(Rows[match], pool[match_inst].registers, gregs, hdr)
Written == [pool[match_inst] EXCEPT !.registers = Outcome.regs,
                                    !.destroy = @ \/ Outcome.destroy]

\* x % 0 in update().
ActionTrap ==
  /\ pc = "actions"
  /\ Outcome.trap
  /\ pc' = "crashed"
  /\ UNCHANGED << biflow_no, work, store, gregs >>

\* A field written by setField lives in the packet: a later stage reads it.
PacketWritten ==
  /\ gregs' = Outcome.gregs
  /\ sent' = Outcome.sent
  /\ hdr' = Outcome.hdr
  /\ pkt' = [pkt EXCEPT !.val =
               [f \in DOMAIN @ |-> IF pkt_fields[GroupOf(f)] = "this"
                                   THEN Outcome.hdr[f] ELSE @[f]]]
  /\ UNCHANGED << biflow_no, pkt_fields, stale, fk, match_inst, match, nb_instances >>

ActionsDestroy ==
  /\ pc = "actions"
  /\ ~Outcome.trap
  /\ Written.destroy
  /\ DestroyInstance(match_inst, Written)
  /\ PacketWritten
  /\ pc' = "free"
  /\ UNCHANGED curr_stage

ActionsTransition ==
  /\ pc = "actions"
  /\ ~Outcome.trap
  /\ ~Written.destroy
  /\ pool' = [pool EXCEPT ![match_inst] = [Written EXCEPT !.state = Rows[match].next_state]]
  /\ PacketWritten
  /\ curr_stage' = Rows[match].next_stage
  /\ pc' = IF curr_stage' = NULL_STAGE THEN "free" ELSE "parse"
  /\ UNCHANGED << hmap, flow_key >>

\* Mutant of FreePacket: curr_stage is not reset for the next packet.
FreePacketKeepsStage ==
  /\ pc = "free"
  /\ pc' = "rx"
  /\ UNCHANGED << biflow_no, work, store, gregs >>

FreePacket ==
  /\ pc = "free"
  /\ curr_stage' = 0
  /\ pc' = "rx"
  /\ UNCHANGED << biflow_no, pkt, pkt_fields, stale, hdr, fk, match_inst, match, sent, store, gregs >>

Process == \/ ParseAndExtract \/ LookupFound \/ LookupInserted \/ MatchRow
           \/ ActionsDestroy \/ ActionsTransition \/ FreePacket

Crash == NoSuchTable \/ LookupFailed \/ ActionTrap

Next == \/ CreateTable \/ CreateNextTable
        \/ \E p \in Packets : Receive(p)
        \/ Process \/ Crash

Spec == Init /\ [][Next]_vars
FairSpec == Spec /\ WF_vars(Process) /\ WF_vars(Crash)

-----------------------------------------------------------------------------
(* Properties                                                              *)

\* Every variable has its type.
TypeOK ==
  /\ pc \in {"load", "load_next", "exited", "rx", "parse", "lookup", "match",
             "actions", "free", "crashed"}
  /\ curr_stage \in 0..255
  /\ pkt_fields \in [FieldGroups -> {"null", "this", "stale"}]
  /\ fk \in [1..FkSlots -> Int]
  /\ gregs \in [GlobalRegisters -> Int]
  /\ nb_instances \in Slots
  /\ DOMAIN hmap \subseteq [1..FkSlots -> Int]
  /\ \A k \in DOMAIN hmap : hmap[k] \in Slots
  /\ flow_key \in [Slots -> [1..FkSlots -> Int]]
  /\ pool \in [Slots -> [state : Nat, registers : [Registers -> Int], destroy : BOOLEAN]]
  /\ pc \in {"match", "actions"} => match_inst \in Slots
  /\ pc = "actions" => match \in DOMAIN Rows

\* The instance store (insert_instance, destroy_instance) is consistent: an
\* instance in use holds the key it is filed under, so that destroy_instance
\* removes that key and no other, and no two flows share an instance.
StoreConsistent ==
  \A k \in DOMAIN hmap :
    /\ flow_key[hmap[k]] = k
    /\ \A l \in DOMAIN hmap : hmap[l] = hmap[k] => l = k

\* An instance that no flow uses carries nothing of the flow that had it:
\* insert_instance does not initialise the slot it hands out, so whatever a
\* destroyed flow or an interrupted action list left there would become the
\* registers of the next flow.
FreeSlotsClean ==
  \A s \in Free : /\ pool[s].registers = [r \in Registers |-> 0]
                  /\ pool[s].state \in {0, InitialState}
                  /\ ~pool[s].destroy

\* While a packet is matched, its instance is the one filed under its key: the
\* slot found by lookup_instance is not given away before the actions use it.
InstanceOfTheKey ==
  pc \in {"match", "actions"} => fk \in DOMAIN hmap /\ hmap[fk] = match_inst

\* xfsm.c:313 "Instances overflowed": a new flow is refused only when as many
\* flows are alive as the table holds.
RefusedOnlyWhenFull ==
  pc = "crashed" /\ fk \notin DOMAIN hmap => Cardinality(DOMAIN hmap) = MaxInstances - 1

FlowOf(p) == KeyExtract(ZeroKey, LookupKey, OwnHeader(p))

\* key_extract files a packet under the key of its own header fields, whatever
\* packets came before it and left in the key buffer and the header pointers.
OwnKey == pc \in {"lookup", "match", "actions"} => fk = FlowOf(pkt)

\* Every packet taken from a burst is given back and the next one is received:
\* the stage loop ends and nothing it does kills the worker.
PacketsFreed == pc = "parse" ~> pc = "rx"

\* The worker, the instance store and the row matching implement one extended
\* finite state machine per flow, as long as the worker lives.  A packet is in
\* hand while it is in stage 0, the only one that has a table.
EFSM == INSTANCE FlowEFSM WITH
  flow    <- [k \in {FlowOf(p) : p \in Packets} |->
                IF k \in DOMAIN hmap
                THEN [state |-> pool[hmap[k]].state, registers |-> pool[hmap[k]].registers]
                ELSE [state |-> InitialState, registers |-> [r \in Registers |-> 0]]],
  current <- IF pc \in {"parse", "lookup", "match", "actions", "crashed"} /\ curr_stage = 0
             THEN pkt ELSE NoPacket,
  out     <- sent
ImplementsEFSM == EFSM!Spec
=============================================================================
