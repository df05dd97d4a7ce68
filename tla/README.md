# FlowBlaze: specification and verification

FlowBlaze runs a program, a table of an extended finite state machine (EFSM),
on network packets: every flow has an instance of the machine, with a state
and registers of its own; a packet is looked up by its flow key, a row of the
table is matched, the row's actions change registers and packet, and the
instance takes the row's next state. The repository holds two implementations
of it, a software interpreter on DPDK (`SW-FB/`) and a hardware pipeline for the
NetFPGA-SUME board (`NetFPGA-SUME-FB/`), a compiler for their programs
(`XL-toolchain/`), a loader for the board (`NetFPGA-loader/`) and example programs
(`UseCases/`). This directory specifies them in TLA+, checks the
specifications with TLC and proves what matters most with TLAPS.

Paths below are relative to `src/`; hardware sources are in
`NetFPGA-SUME-FB/FlowBlaze.src/`.

## Inventory

| Part | State it keeps | Operations | What makes it correct |
|---|---|---|---|
| Worker loop (`SW-FB/flowblaze.c`) | current packet, stage, flow key buffer, instance in hand | receive a burst, run a packet through the stages, free it | every packet is freed; the instance in hand is the packet's own |
| EFSM table (`SW-FB/xfsm.c`) | rows grouped by state, conditions, lookup key, global registers | `xfsm_table_create`, `_lookup`, `xfsm_evaluate_conditions`, `xfsm_execute_actions` | the first row, in program order, that fits state and conditions is taken |
| Instance store (`SW-FB/xfsm.c`) | `instances_hmap` (key to slot), `instances_pool`, `nb_instances` | `lookup_instance`, `insert_instance`, `destroy_instance` | no two flows share a slot; a new flow starts clean; a slot goes back to the right key |
| Packet parser (`SW-FB/pkt-parser.c`) | header pointers, kept from packet to packet | `parse_pkt_header`, `get_hdr_value`, `key_extract`, `biflow` | a packet is filed under its own fields |
| Packet I/O (`SW-FB/flowblaze.c`, `SW-FB/rss-test/rss-test.c`, DPDK) | buffer pool, receive and transmit rings, queue of each lcore, `force_quit` | `rte_eth_rx_burst`, `rte_eth_tx_buffer`, `rte_pktmbuf_free`, signal, closing of the ports | no buffer is lost; what is sent is what leaves; a flow stays with one worker; every lcore leaves |
| Program loader (`SW-FB/loader.c`) | table, conditions and rows under construction, 8-bit sizes | JSON to table | the table is the program; nothing is written past an array |
| Controller (`FlowBlaze_core.vhd`) | `curr_state`, `count_frames`, `startd`, `full_header`, `action_d3` | one cycle | packets do not meet in the pipeline; a lookup and an action belong to the packet they are paired with |
| Flow context table (`cuckoo.vhd`, `ht128dp.vhd`, `stash.vhd`) | four memories, registered requests, stash, counters | search, insert, remove, kick out, flush, one cycle each | an entry is where it is searched; a packet finds what earlier ones of its flow have left |
| Conditions, state table, EFSM table, ALUs (`conditions.vhd`, `sam.vhd`, `rams.vhd`, `pipealu.vhd`, `alu.vhd`) | pipeline registers, configuration | combinational with fixed latencies | same results as the interpreter |
| AXI-lite registers (`FlowBlaze_core.vhd`) | configuration, global registers, statistics | host reads and writes | host and data path do not lose each other's writes |
| Delay queue, action block (`delayer_axi.vhd`, `write_field.vhd`, `modify_field.vhd`) | the words of a packet under way | delay, rewrite, send or drop | a packet leaves with its own action |
| Board firmware: command loop (`firmware.src/main.c`, `tool_flowblaze.h`) | line buffer, stage, the registers it pauses | 9 commands, over the registers of two cores | a line is executed as sent; no packet meets a table that is written; the pipeline runs again |
| Board firmware: IIC (`iic_config.c`, `iic_pm.c`, `iic_sfp.c`, `iic_si5324.c`) | completion flags, timeout counter, driver options; switch, chip pages and registers on the bus | four transfers; clock, power and SFP procedures | a completion belongs to its transfer; data to the chip and page asked for; calibration comes last; every call returns |
| NetFPGA loader (`NetFPGA-loader/`) | register images | translate a program, send lines to the firmware | the board holds the program |
| XL compiler (`XL-toolchain/`) | tables under construction | XL program to JSON | rows mean what the program says |

How they interact: the compiler writes a program for either loader; the
software loader calls `xfsm_table_create`; each worker thread owns a table and
shares only ports, rings and the buffer pool with the others. In hardware the
controller shifts a packet through `startd`, and everything else (key, lookup,
conditions, TCAM, ALUs, update of the context, delay queue) counts on being a
fixed number of cycles away from it. The firmware writes the same registers
from the other side: the loader and an operator send it lines, and it pauses
the pipeline for each. Its procedures for the board's clock, power and SFP cages
use IIC, where interrupts of the bus clear the flags that transfers wait for; nothing in
`main.c` calls them, they are modelled as they may be called.

What is hard: state of one packet that is still there for the next (pointers,
key buffer, stage); slots that go from flow to flow; buffers that two owners
believe to hold; several lcores on one queue; in hardware, everything that
relies on distances of cycles, stalls that hold some registers and not others,
memories whose read port is shared by two requests, copies of a flow in two
places, an output that is selected anew in every cycle; register writes that a packet can make the core drop; transfers that are
given up and may still end; a bus switch and page registers shared by all calls. Each is a hazard of `PROJECT.json`, at its line.

## Modules

- **Xfsm** (`xfsm.c`, `xfsm.h`, `pkt-parser.c`): operators without state. How
  rows are grouped (`KeyList`, `EntriesDb`, with state any taking over the first
  node as `insert_key` does), conditions (`Operand` keeps the value before it when
  a field is missing), actions run one after the other on a machine with the parameters that
  outlive an action (rows and actions are taken by recursive functions, `KeyList` and `ExecuteActions`, so that
  they can be proved about), the header pointers a packet sets, clears or leaves (in groups, `GroupOf`: of an ICMP packet's nothing is ever
  cleared, an inner address or protocol goes with GTP and points into the outer header, metadata is always cleared), and the
  flow key with its 64-bit writes into 32-bit slots.
- **XfsmWorker** (`fb_worker_main_loop`, `xfsm_table_create`, `lookup_instance`,
  `insert_instance`, `destroy_instance`): one thread, one step per call of
  the loop (`Receive`, `ParseAndExtract`, `LookupFound`/`LookupInserted`/`LookupFailed`,
  `MatchRow`, `ActionsDestroy`/`ActionsTransition`/`ActionTrap`, `FreePacket`). `pc` is
  the place in the loop. `hmap`, `flow_key`, `pool`, `nb_instances` are the store. What the code does
  through a NULL pointer or a remainder by zero ends in `crashed`. `rte_hash` is
  external: a new key gets any free slot, and may be refused. A pointer left
  from an earlier packet reads any of `StaleValues`; `biflow_no`, which the loader
  leaves uninitialised, is any of `BiflowNos`.
- **FlowEFSM**: the promise. One machine per flow, written as a map from flow
  keys to states and registers, the first fitting row in program order, a
  fresh machine after `destroy`. `XfsmWorker!ImplementsEFSM` is the refinement:
  a flow without an instance is a machine in its initial state.
- **MCXfsmWorker**: programs and packets: `simple-test/table_def.h`, a
  connection tracker with destroying, failing and staged rows, and
  `UseCases/port_knocking_firewall.xl` as `xlc` compiles it.
- **PacketIO** (`flowblaze.c`, `rss-test.c`, `XFSM_SENDPKT` in `xfsm.c`): who owns a buffer, who
  handles a flow, and how the program ends. A *setup* is a program, the numbers of its lcores and how many
  ports there are; `QueueId` is what `lcore_queue_conf` gives a worker: filled from 0 on, read at the lcore's
  number. `Top` is the head of the loop (signal, drain), `RxRead` and `RxAdvance` a burst (read and advance are two
  steps, since two lcores may be between them), `Lookup`, `Send`, `FreePacket` a packet, `Signal` and `ClosePort` the end. What
  a program does with a packet is any number of sends up to `MaxSends`. `pool` counts how often a buffer is in the
  pool, because it may be freed twice; `overwritten` is history: the device filled a buffer in
  which a packet still waited, which only a buffer freed too early makes possible.
- **Loader** (`loader.c`, over `Xfsm`): `json_to_table` and all it calls, one loop turn per step. A text of the
  program is a number (in two halves), one too large for `unsigned long`, a word, or missing. What the code leaves unchecked is kept: a write past an
  array or a read of something never set ends in `undefined`, also that of a missing text that a message would quote (`ExitNaming`); sizes are 8 bits wide;
  `conditions_number`, one byte, is written as an int, so that every program may end there and then (`clobbered`), and
  `get_out_operand`, which returns nothing on success, may say either. `RETURN_ERROR` with half of
  the result written is what `get_operand` does.
- **MCLoader**: programs: ordinary ones, rows and conditions in every order, one on each side of every
  limit, malformed ones.
- **Firmware** (`main.c`, `tool_flowblaze.h`, the register process of `FlowBlaze_core.vhd`; extends `Controller`): a step is a clock
  cycle, in which the core moves (`Cycle`, or `PausedCycle`) and the firmware has a register access done
  or not. `ops` are the accesses of a command, in the order of the code (`Command`, `TransparentMode`, `CountTables`, ...); `Effect` is what one does to
  the core, nothing if a packet is at `startd(8)`, except the last word of a TCAM row and the RAMs. `TableUpdate` is what packets and stash do to the hash tables meanwhile:
  PAUSE keeps the stash from it, not a packet that is held at `startd(8)`. The line buffer has one symbol (`MsgLen`) behind a line of the loader, for what `getline` leaves there;
  a hex digit there belongs to the line's last argument. `pauseLost` and `transparent` are history.
- **IIC** (`iic_config.c`, `iic_pm.c`, `iic_sfp.c`, `iic_si5324.c`): a transfer function is the sequence of its steps
  (`IicReadData`, ...), a procedure the sequence of its transfers (`config_SI5324`, `pmReadInfo`, `sfpReadInfo`), with what follows when one fails (`onfail`). Interrupt
  handlers come between any two steps; a driver call may fail, a chip take its bytes, refuse them, or never answer. The driver, the bus and the chips are external.
- **MCPacketIO**, **MCFirmware**, **MCIIC**: setups, lines that may be typed, and the bounds of the bus.
- **Controller** (`FlowBlaze_core.vhd`): the state machine IDLE, PKT1, PKT2, WAIT5
  and the shift registers; a packet is its number, a step is a clock cycle, and
  whether a word is there is the environment's choice in each cycle.
- **DelayQueue** (`delayer_axi.vhd`, its wiring in `FlowBlaze_core.vhd`): extends
  `Controller` with the line of ten words and the output register; a cycle takes a word
  (`WordTaken`), takes none (`NoWordTaken`: shifted, or held by the output, `Press`) or
  is a stall in PKT1 (`Stall`). `pressed` and `stalled` are history: which packets were inside
  when the output held the queue, or ahead of a stall. A pause by the host is the same
  as an output that is not ready.
- **ActionBlock** (`write_field.vhd`, `modify_field.vhd`, the choice between them in
  `FlowBlaze_core.vhd`): byte `i` of a packet is the number `i`, so that it can be told where every
  byte goes. `Offer` is the delay queue, no cycle; `Taken`, `Held` and `Bubble` are cycles.
  `Add` and `Modify` run on every packet, in each of them, as in the code. Which one is
  selected is the packet's action in the cycle of its first word and any other (`Chosen`) in the cycles behind, as `action_d3` moves on in each; `switched` is history:
  a word, or the extra slot, of the packet at hand has left by another block than its action's.
- **FlowContextTable** (`cuckoo.vhd`, `ht128dp.vhd`, `stash.vhd`): a step is a cycle
  in which all registers are assigned from their old values; `HashTable`, `Stash` and
  `Answer` are its parts. Two packets are followed (`pkt`, `ahead`), six or more cycles apart (`Gap`), each with a key it is looked up by and one it updates; `Hold` is the stall
  in which the second word of the next packet is late: `startd` stays, the tables do not, and a packet at stage 8 updates again, by any decision. The stash compares with the
  key looked up, `full_input_ht`, also for updates. The table an entry is kicked out of is any. `spilled` and `repeated` are history.
- **Xfsm_proofs** (the table of rows, for any rows), **XfsmWorker_proofs** and **Loader_proofs** (both over it), **PacketIO_proofs**, **Core_proofs** (`Controller`,
  `DelayQueue` and `Firmware`, the two that extend it), **FlowContextTable_proofs**, **IIC_proofs**, **ActionBlock_proofs**: theorems. **MC...**: constants for TLC.

A definition marked "Mutant of" is a plausible mistake in the definition after
it; no model uses it. It shows, when it is put in place, that a property
notices the mistake.

## Runs

Passing:

| Run | What it asks | What it shows |
|---|---|---|
| `sw_simple` | simple-test's program on TCP and UDP packets of two hosts, one stage or two | a packet is filed under its own key although buffer and pointers are never cleared (`OwnKey`), every packet is freed (`PacketsFreed`) |
| `sw_tracker` | flows that come and go, four slots, a hash that may refuse a key, rows that trap or name a missing stage | store and slots stay consistent whatever happens (`StoreConsistent`, `FreeSlotsClean`, `InstanceOfTheKey`), and flows are isolated (`ImplementsEFSM`) |
| `io_buffers` | two lcores, on one queue or with a queue each, with a port for each queue or a port less, transmit rings of one place, a signal at any time | no buffer is ever lost (`NoBufferLost`), although a burst may be taken twice and freed twice; under receive-side scaling a flow has one table (`OneTablePerFlow`); what waits in a queue is taken (`PacketsTaken`) and after a signal all leave and the ports are closed (`StopEnds`), unless the process has crashed |
| `ctl_pipeline` | packets of any length with any stalls and an output that may refuse words (`DelayQueue` over `Controller`) | packets are six stages apart (`SixStagesApart`), the header looked up is the packet's (`HeaderIsOwn`), WAIT5 covers the update (`WaitCoversUpdate`); the first word of a packet leaves the queue in the cycle of its `startd(8)` (`WordMeetsStart`) with its own action (`WordMeetsAction`), unless the output held it or, for the action, a packet behind it stalled in PKT1 |
| `act_words` | fields of one, two and four bytes at positions of every kind, packets of two and three words, with or without a gap, stalls, an output that is switched in any cycle | as many ends as packets (`FramesMatch`); the bytes that leave are the packet's with the field inserted (`FieldIsAdded`) or overwritten (`FieldIsModified`), where `Insertable`, `Overwritable` hold, nothing came between and the output was not switched |
| `fct_lookup` | three flows that share buckets of two tables, with a stash; packets six and more cycles apart, second words that are late, flows looked up and updated under different keys | entries are in their buckets (`EntriesFiled`); a packet finds what the packets eleven or more cycles ahead of it left of its flow, and nothing of a closer one (`LookupIsLatest`), and the counter is exact (`CountIsExact`), as long as nothing was kicked out and no packet held at stage 8 |
| `load_table` | programs on both sides of every limit, malformed ones | what fits is loaded as it is written (`LoadedAsWritten`), nothing wild is read or written for it (`NothingWild`), it is refused only where `get_out_operand` returns nothing (`RefusedOnlyIfMalformed`), and each row is found under its state, in order (`RowsReachable`) |
| `fw_commands` | commands typed and sent in any order, while packets come at any time | no packet is looked up or matched while tables are read or written (`TablesUnseen`, `CountExact`), the pipeline runs again (`RunsBetweenCommands`, `PauseEnds`), the loader's lines are obeyed unless a hex digit is left behind them (`LoaderLinesObeyed`), no word of transparent mode is dropped or misplaced (`ModeAsSent`) |
| `iic_bus` | two procedures one after the other, driver calls that fail, chips that are absent, refuse, answer late or never | no completion is taken for a later transfer's (`NoStaleCompletion`), the clock is calibrated only when all its registers are set (`CalibratedWhenConfigured`), rails and cages are not mixed up (`RailsAreTheirOwn`, `ReadsAreTheirOwn`), a success leaves the bus free (`SuccessLeavesBusFree`), every call returns (`CallsReturn`) |

Runs that show a divergence (each is a finding of `PROJECT.json`, with the line it contradicts):

| Run | Property | Counterexample |
|---|---|---|
| `sw_refused` | `RefusedOnlyWhenFull` | flows created and destroyed until `nb_instances`, which never goes down, refuses a new one in a nearly empty table |
| `io_wire` | `SentIsWhatLeaves` | a packet freed while the transmit ring holds it is overwritten before it leaves |
| `fct_lost` | `FlowsKept` | an entry put back from the stash in the cycle behind a removal is decided on the buckets of the key removed, and overwrites another flow; the same in the cycle before an insertion, since `pre_insert` is `startd(2)` (`FlowBlaze_core.vhd:1365`) and not one cycle ahead of it (`cuckoo.vhd:25`) |

Divergences met while modelling that no run keeps. Of the first four TLC gives a counterexample
when the property named is checked:

- `pkt-parser.c:159`: a packet that is neither TCP, UDP nor ICMP leaves the header pointers of an earlier one, and is
  filed under a port read from a buffer that was freed (`OwnKey` with `MixedPackets`).
- `xfsm.c:55`: the rows of state any take the place of those of state 0; compiled by `xlc`, `UseCases/port_knocking_firewall.xl`
  does not hear the first knock (`MCXfsmWorker!EachKnockMatches`).
- `FlowBlaze_core.vhd:498`: a packet behind one of six words is looked up before that one's
  update (`Controller!LookupSeesUpdates`). `LookupIsLatest` says exactly how far apart they have to be: eleven cycles, where six are guaranteed.
- `iic_config.c:151`: `IicReadData` returns without restoring the repeated start option that `:187` says is cleared
  when the driver fails to start, address or send: later transfers keep the bus (`IIC!OptionsRestored`).
- `main.c:642` "enabling pipeline": a PAUSE written while a packet is in PKT1 and the one before it at `startd(8)` holds
  that one there, and the core drops all register writes while it is, the one that ends the pause
  too: it stays paused until it is reset (`Firmware!PipelineEnabled`; `Frozen` in the others). A PAUSE written while a packet is at `startd(8)` is dropped,
  and the command runs among packets (`pauseLost`). A packet that is held there inserts or removes in every cycle of the pause, by whatever `action_d3` comes to hold:
  `cuckoo.vhd:158` gates the flush of the stash with `enable`, `:155` and `:87` nothing (`TableUpdate`; `CountExact` excepts `Frozen`). Without a pause, a late second word does the same (`repeated`).
- `main.c:567`: the rows of transparent mode hold IDPORT in the byte that the core compares with the second byte of the first operand (`FlowBlaze_core.vhd:1456`), and the offset set for that operand
  is that of the timestamp, where `NetFPGA-loader/src/programmer.py:115` and `:308` put the port elsewhere. That a packet leaves at the port it came in at does not follow; `ModeAsSent` says that the mode is set up as it was sent, no more.
- `main.c:69`: `getline` does not end the line. A digit typed after a line of the loader is scanned with
  what follows it: "1" after "97 ..." is command 17. Nor is a line of full width safe: a hex digit right behind it, from a longer line or from the stack, becomes the last of its value. `LoaderLinesObeyed` excepts it and speaks
  of lines of full width.
- `main.c:635`: a line that writes 1 to PAUSE ("99 <PAUSE> 1") is undone at once by the write of 0 to PAUSE that ends every command; command 2 asks for its
  option while the pipeline is paused, for as long as the operator takes.
- `loader.c:535`: 256 rows make an empty table, 257 one row; 16 conditions, 32 actions, 8 key fields
  are nowhere checked; neither are ten rows per state, nor the nodes of the state map (`xfsm.c:167`, `:190`). `loader.c:205`: an operand that is a header
  field sets half of a 64-bit value. `loader.c:151`: `get_out_operand` does not return a value on success. `loader.c:523`: the address of `conditions_number`, a `uint8_t`, is
  passed as that of an int, and `:218`, `:220` write four bytes there for every program; what the three behind it belong to is up to the compiler (`Clobbered`; `NothingWild` is about all other accesses). `loader.c:354`, `:404`: the message that
  refuses an action quotes its opcode or operand, also where it is missing (`ExitNaming`). `DELETEINST` is known to
  `str_to_action_type` and refused by `json_to_actions` (`Fits`, `WellFormed`, `HasUpdate` except these).
- `rss-test.c:123`: with lcores other than 0, 1, ... a worker reads an entry of `lcore_queue_conf` that `main` has not filled: all poll queue
  0, and none the drain. `:144`: with more queues than ports the drain is given a NULL buffer (`Top`).
- `flowblaze.c:249` and a burst taken twice: a buffer freed twice may be filled under a worker's hands, and a
  flow may then be in two tables even under scaling (`overwritten`). `flowblaze.c:374`: the pool is not sized for the queues of several lcores.

- `xfsm_table_create` initialises the instances (`xfsm.c:213`) before it assigns
  `default_state` (`:243`): flows of a program whose initial state is not 0 start in
  state 0 on a slot that was never used. The model has this (`CreateTable`).
- `pkt-parser.c:48`: a MAC address is assembled with int shifts of up to 40 bits.
- `stash.vhd:82`: the ninth entry kicked out while the stash is full is evicted, and its flow starts over (counted in `evicted_entry`).
- `pkt-parser.c:107`: the pointers of an ICMP packet's fields, and those of a GTP packet when TCP or ICMP follows, are never cleared: a program that reads them sees a freed buffer. `Supported` asks that every packet sets or clears
  what any of them sets, which leaves out programs of ICMP beside other packets.
- `pkt-parser.c:129`: the inner addresses and protocol of a GTP packet point into the outer header (`PointsAt`).
- `loader.c:501`: `biflow_no` is uninitialised; with a value other than 0, `OwnKey` fails (`BiflowNos`).
- `UseCases/elephant.xl`: the threshold is assigned by the actions of a row, after
  the conditions have compared the counter with 0.
- `flowblaze.c:474`: every lcore runs the worker with a table of its own, where
  `SW-FB/README.md:67` says that further cores are ignored.
- `flowblaze.c:238`: the array of transmit buffers is cast to a buffer, so each
  packet is sent at once and one a full ring refuses goes to a callback that
  was never set (`PacketIO!Send`).
- `FlowBlaze_core.vhd:553`, `:1641`: a stall in PKT1 holds `startd`, not `action_d3`: behind it, an
  older packet's flow is updated by another decision (`stalled` in `DelayQueue`), though the comment there says "sync con Res3 .. Res1".
- `write_field.vhd`: a field that begins less than its size into a word (but not at 0) is cut (`:158`, `:187`, `:227`); half a field of two
  bytes is followed by two old bytes instead of one (`:183`); the extra word holds the first bytes of
  `temp_tdata`, not the last, and a word that is not full before it is not filled up (`:135`, `:119`); of a field of four bytes that begins in the last three of a full last word, the
  end is lost (`:142`); with exactly 32
  bytes, or for a packet whose length is a multiple of 32 and to which nothing is added, there is an extra slot with nothing to
  send (`:293`); `temp_tdata` moves on when the word does not (`:281`). A packet that follows at once meets the
  extra slot (`:302`): it is cut off, or the next one loses its action. `Insertable`, `broken` and `crowded` except these.
- `modify_field.vhd`: at offset 0 of a word the field is inserted, not overwritten (`:116`); fields of one or two bytes at
  the end of a word are not written (`:118`, `:138`); words behind the second are treated
  like it (`:210`), where `docs/FlowBlaze_HW.md` says it "changes a field already present in the packet". `Overwritable` excepts these.
- `FlowBlaze_core.vhd:1680`: an output that is not ready holds the delay queue but not
  `startd` and `action_d3`; the packets in the queue leave unchanged or with another's
  destination. `WordMeetsStart` and `WordMeetsAction` except them (`Press`).
- `FlowBlaze_core.vhd:1644`, `:1752`: `enable_write` and `enable_modify` are taken from `action_d3` in every cycle, and nothing holds it for the length of a packet: it is the action RAM's output of five cycles before,
  whose row changes as soon as the hit is over (`:1456`). Behind its first word a packet may leave by another block, where `docs/FlowBlaze_HW.md:64` says that it "performs the actions on the packets". The
  properties of `ActionBlock` except such packets (`switched`).
- `cuckoo.vhd:136`: the stash answers a cycle after the hash table; a flow in the
  stash is taken for a new one. `cuckoo.vhd:156`: a copy in the stash is updated
  with the value of the entry kicked out, and flushed over a newer one. `cuckoo.vhd:154`: for removals and updates, too, the stash searches the
  key looked up, not `update_key`: it is another flow's if the two differ, or when the next header has come in.

## Bounds

Every bound is a constant. `sw_*`: packets are unlimited in number, of 3 to 7 kinds: two
flows suffice to mix two up, a third to find a slot taken; registers are bounded by the
programs; four slots give three instances, the table's own rule (`MAX_INSTANCES-1`).
`io_*`: 2 or 3 packets of two flows, three buffers for each port, queues
and transmit rings of one or two places, so that pool and rings run empty and full; both flows on one queue or one on
each, by their hashes. `load_table`: the limits are the code's own, the programs lie on both sides of them. `fw_commands`: TCAM rows of 3 words for 8 (the word that
completes the row, one before it, the first), two hash tables of one row, two packets and two lines, of the loader's width, shorter, and one symbol longer: a command may meet packets at every
stage, and every line what each other one has left in the buffer (five symbols for 256 bytes; it starts empty here, with anything in the proofs). That is some 630 000 states and three minutes. `iic_bus`: waits of one or two turns for 1 000 000, since what matters is which side of the
limit an answer comes; three rails, of which two share a chip; two cages of four, an empty one among them; two calls, the second after whatever the first has left. `ctl_*`: `MaxPackets` is 3 (5 where the
queue is left out): two packets are in the pipeline at a distance of six while a third one comes in; the proofs have no bound. `act_*`: words of 8 bytes
(32 in the code; the field and `byte_count` need no more), two packets, since what one leaves
behind meets the next; a packet of three words may be followed at once (`Directly`; six in the code,
by the conditions of the controller), one cycle in which the word is held or missing (`MaxHolds`). `fct_*`: 3
keys, 2 tables, 2 buckets, a stash of 2, so that two flows collide and the third is kicked
out. In `fct_lookup` packets are six or more cycles apart, what the controller gives them, a second word is one cycle late (`MaxHolds`), and the stash is flushed every 4 cycles for the code's 16, so that flushes meet
every stage; two of the three scopes look up one key and update another. In `fct_lost` the stash has the code's 8 places and 16 cycles, and packets are 12 or more cycles apart, what WAIT5 gives to
short ones: entries are lost even then.

## Fairness

`XfsmWorker!FairSpec` has weak fairness on `Process` and `Crash`: the worker is a loop without
waiting, and a call that has begun returns or kills it. Nothing is assumed
of arriving packets. `PacketIO!Spec` has weak fairness on each worker's own `Work` and on `ClosePort`: lcores have a thread each and poll without
waiting, and main goes on when all have left; the device, the number of sends and the user are left alone. `IIC!Spec` has weak
fairness on `Processor` alone: the bus may be silent for ever, which is what the timeouts are for. `Firmware!FWSpec` has weak fairness
on the clock and on the firmware except where it waits for a line. `Loader` has none. In the other hardware modules every step is a
clock cycle, and only safety is stated.

Deadlock is not checked in the runs of software (a crashed or exited worker and the packet bound stop
them) nor in those of `FlowContextTable`, `Firmware` and `IIC` (bounds on packets, lines and calls end them); the controller's cycle never blocks.

## Proofs

`XfsmWorker_proofs` has five parts.

1. *The store*, for every program, set of packets and number of slots, from `StoreAssumption` (there is a slot) alone: `StoreIsConsistent`,
`RecycledSlotsAreClean`, `ActionsHitTheOwnInstance`. None is inductive alone: destroying removes the key the instance
*remembers*, so that consistency of the map needs `InstanceOfTheKey`, this one needs that no
other key has the slot, and clean free slots need both, since an
instance is only cleaned if its key was found. `StoreInv` is their conjunction with the shape of the
store; one lemma per kind of step, an insertion and a destruction being
the two that matter.
2. *The table*, for programs that are `ProgramOK`: `TableFindsTheFirstRow`. `Xfsm_proofs` shows, for any rows and any number of them, that the
list has a node for each state seen (`Filed`), and in it the rows of that state in program order (`Holds`), the head node being state any's as soon as it has a row; so
the first of a node that agrees is the first of the program.
3. *The machines*, for programs and packets that are `Supported`: `KeysAreOwn` and the refinement `WorkerRunsTheMachines`. `WorkInv` says of the key buffer
and the header pointers, which are never cleared, that what they hold is of the packet in hand, and of the instance in hand that its flow is the
packet's. A row's actions are then a `Transition` of the abstract machine, a packet that no row fits is a `Drop`, `Receive` an `Arrive`, and every
other step changes no flow. The lookup that creates an instance is the one that needs an argument: its slot is clean, by part 1.
4. *Types*, for programs and packets that are `TypedProgram`, whether `Supported` or not: `WorkerTypes`. The lookup gives a row of
the program also when state any has taken the first node over or a node did not fit, and actions leave integers also where a field is missing or a pointer stale.
5. *The counter*, for every program: `CounterCoversTheFlows` (`nb_instances` is at least the number of flows), hence `SlotForEveryFlow` (a flow the counter lets in finds a
free slot: the slots in use are an image of the flows, and those are fewer). The run `sw_refused` shows the counter refusing flows in an empty table; `OnlyDestroyingRefusesEarly` says that
destroying is the only cause: for typed programs without `destroy()`, where `rte_hash` refuses no key, `RefusedOnlyWhenFull` holds. There the counter is the number of flows exactly, and every crash but that one
is of a flow that has an instance (`CounterInv`).

`Supported` is what the code needs and does not check; each of its conditions is one of the divergences above: no rows of state any; no more states, or rows of a state, than a hash map
or node holds; a condition to test; initial state 0; no transition to state any or back to stage 0 with the same packet; for the packets, that each sets or clears a
header pointer that any of them sets, that no inner address is read, that a missing key field follows one that is there, and `biflow_no` 0. `Supported` holds of the constants
of `sw_simple`, `sw_tracker` and `sw_refused`, and so does `TypedProgram` (operands name registers and fields there are; a row that sets a field updates nothing from a field).

`Core_proofs`, about `Controller` (for any number of packets, any lengths, any stalls): `PacketsKeepTheirDistance`,
`LookupUsesTheOwnHeader`, `WaitIsLongEnough`. The conditions in the code compare `count_frames`,
which says nothing of `startd` by itself; the strengthening is that it measures how
far the newest packet has come (`Distance`: in PKT2 and WAIT5 every packet is at least at stage
`count_frames - 3`, index one more), which holds because PKT1 resets the counter in stalls, too,
and that a packet enters alone (`Entering`). `ControllerTypes` is their first conjunct.

`Core_proofs`, about `DelayQueue` (for any number of packets, lengths, stalls): `FirstWordMeetsItsStart`,
`FirstWordMeetsItsAction`, and `QueueKeepsController`, by which the theorems of `Controller` hold with the queue.
That the end of the line and `startd(8)` agree says nothing of the next cycle; `Aligned` says it of every place
(a packet's first word is two places behind its `startd`, which `start` and PKT1 account for), `Decided` that a decision is as far as its packet from the
second stage after the match on, and `NotYetIn` that the packet whose stall is counted is itself in no stage. One lemma
each for a cycle that shifts both lines, one that the output holds, and a stall.

`PacketIO_proofs` (for any number of workers, lcores, buffers, flows and hashes; one or two ports; from `PortsAssumption`, that the pool has the
buffers the queues are given, and `SetupsAssumption`, that lcores have different numbers): `FlowsStayInPlace`, `FlowHasOneTable`. What makes a
flow's table the one of a single worker is where its *buffers* are: `FlowsInPlace` says that a packet that waits in a queue, or is in the burst of the worker
of that queue, is of a flow the hash sends there. That needs `ReadIsNext`, that a worker who has read a burst will advance the ring from where it
has read, which holds because under scaling no one else polls its queue (`OwnQueue`), and that no buffer is filled under a
packet (`overwritten`). One lemma per kind of step.

`BuffersAreKept` (same assumptions, every setup, shared queues included) needs a point to count from, since several lcores may read one burst and take the ring back over what
another has taken: `H[r]`, the furthest a ring was ever advanced. What waits beyond it is in nobody's hands, and what was taken before it is in a burst, in a transmit queue, or was given back
(`BufferInv`). The map `H` is not a variable of the model; the invariant says that there is one, and a step that advances a ring names the new one.

`FlowContextTable_proofs` (for any keys, hash functions, tables, buckets, stash, from `GapAssumption`: packets are at least six cycles apart, which `PacketsKeepTheirDistance` proves of the controller, and `EntriesAssumption`): `LookupIsRight`, `EntriesStayFiled`. `TableInv` follows two packets through their stages: the lookup of one reads what the tables
hold at stage 1, the decision where to write the other's flow is taken on the buckets of its stage 8, and is still right a cycle later, since nothing else is
written then. A packet eleven cycles ahead or more has written by the time of the lookup, a closer one has not, and what is found is `latest` or, for the latter, `before`. It is claimed until the first entry is kicked out (`spilled`) or a packet held at stage 8 (`repeated`); afterwards the property says nothing, since the code does not hold it. `EntriesFiled` needs no such condition.
`CountOfEntries` (for finitely many buckets, `BucketsAssumption`) adds that `count_item` is the number of places that hold an entry, and that every flow has at most one: an insertion that overwrites
is not counted, and one into an empty place is. `TableTypes` (from `SizesAssumption`) is about the types, by `RegInv`, also where the others say nothing any more, and about the range of the counter as long as they do.

`IIC_proofs` (for any wait, number of rails, cages, both builds; from `IICAssumption`): `CompletionsAreOwn`, `BusIsFreed`. `FlagInv` says for every
step of the four functions which flag is raised and what may be under way: a flag is TRUE until the handler of its own transfer clears it, so a wait that ends
early ends with nothing under way, and one that ends by its counter comes to `XIic_Reset`. `StepOrder` is the order of the steps, `TransfersOfCall` that a procedure consists
of these functions; a step of the processor is then `Onwards`, `InPlace` or `Returned`.

About what the procedures do to the board (same assumptions): `ClockIsConfigured`, `RailsAreRead`, `ReadsAreRead`. A function that goes on after its wait knows that the chip has taken its bytes (`Took`), one that
has read, that the buffer is this chip's answer (`Gave`): `StepData`, which rests on `FlagInv`, since only a completion of its own lets a function go on. `Reached` says what the transfers up to the present one have
set: the bus the switch selects, the page of the rail, the registers of the clock chip written so far; `CallData` is carried from transfer to transfer.

`Core_proofs`, about `Firmware` (for any number of tables and rows, words from three, packets, lines; from `FirmwareAssumption` and `LinesAssumption`: a line is within the buffer, and no line names PAUSE, which
is the divergence above): `CommandsAreUnseen`, `PipelineComesBack`, `LoaderIsObeyed`, `CountIsOfTheTables`, `ModeIsSetUp`, `FirmwareTypes`, and `PauseIsNoNewCycle`, by which the theorems
of `Controller` hold with the firmware. The core takes no register write while a packet is at `startd(8)`, not even one to PAUSE; `PauseInv` says
for every place in a command whether PAUSE was written or lost, and that, once the 20 ms are over, the pipeline is not paused, or empty, or held in PKT1 (`Held`). What a command writes is then taken as a whole
or lost as a whole. `CountInv` and `TransInv` say how far counting and transparent mode have come: `ops` is the rest of the command, the tables are what the part before it has made of them.
A frozen packet is why `CountIsOfTheTables` excepts `Frozen`; `ModeIsSetUp` does not have to, since `transparent` asks at its end whether the pause held.
`LoaderIsObeyed` parses a line of full width for any values, behind any other lines and with any symbol behind it in the buffer but a hex digit.

`ActionBlock_proofs` (for any width of a word that is a multiple of 8, packets of two words and more, any offsets, sizes of 0, 1, 2 and 4 bytes, any number of packets; from `ActionBlockAssumption`): `FramesAreWhole`,
`FieldIsInserted`, `FieldIsOverwritten`, each with the condition that its words have left by the packet's own block (`switched`), which the core does not ensure behind the first one. `BlockInv` says where the two blocks stand at each word: modify_field counts with the packet whatever add_field is doing, even in the extra slot of the packet before (`ModifierOK`);
add_field moves with the packet until one meets an extra slot (`AdderOK`); and a packet that has moved in every cycle finds its own request, how far it has been sent and the last four bytes of the word before in
`temp_tdata` (`AddedOK`). The rest is arithmetic on where the field is, relative to the word (`InsertedIs`, `OverwrittenIs`), on quotients and remainders by a `W` that is not known (`Divided`).
The proof needed one condition more in `Insertable`: a field of four bytes that begins in the last three of a full last word loses its end, because the extra slot sends the packet's
last four bytes (`write_field.vhd:142`). The run then got the offset 13, which shows it if the condition is left out.

`Loader_proofs` (for any programs: lists of any length, texts of any kind; from `LoaderAssumption`, 16 conditions, since the loops over a row's results count to 16 themselves, and `ProgramsAssumption`): `RefusalsAreJustified`,
`NothingGoesWild` (apart from `clobbered`), `ProgramIsLoaded`, `RowsAreReachable`, `LoaderTypes`. `LoadInv` says, at every turn of every loop, that what has been read so far is what the program says: conditions at their own ids (`ConditionsDone`),
actions and results of the row in hand, whole rows before it (`RowsDone`), the key (`KeyDone`). That ids which are all below the number of conditions, and of which none is missing, name each condition once is a pigeonhole argument (`IdsAreIndices`).
`NoOverrun` and `RowsAreReachable` rest on `Filed` and `Holds` of `Xfsm_proofs`, so they speak of the very list the interpreter searches. The proof of `NothingGoesWild` showed that `Fits` had allowed too much: rows of state 0 before a row
of state any are in the same node, so there may be ten of the two *together* (`xfsm.c:55`); `MCLoader!Edges` got the programs of ten and eleven such rows, which show it. `LoaderTypes` states the types and is not one of the run's properties.

Two things the proofs share. Recursive functions (`KeyList`, `ExecuteActions`) are unfolded by showing that their equation has a solution, which is an induction over naturals. The library's induction rules take an
operator and cannot be used; `Induction` is the rule for a *set* of naturals, proved from the theorems on finite sets (the numbers below a counterexample would be closed under `+ 1`, and an injection of a finite set
into itself is onto). And where a property holds only until something happens (`spilled`, `repeated`, `switched`, `overwritten`, `pauseLost`), the theorem has the same condition as the property that TLC checks, no other.

Every invariant and action property that a passing run checks, and the refinement, is stated by a theorem. Left to TLC: liveness under fairness (`PacketsFreed`, `PacketsTaken`, `StopEnds`, `PauseEnds`, `CallsReturn`), which the provers
cannot state. The three properties that runs refute are false in general; of one, `RefusedOnlyWhenFull`, a theorem says when it holds.

## Not modelled

64-bit wrap-around, byte order and field widths in the interpreter; packet templates
(`create_pkttmp`) and the `XFSM_CACHE` build; argument parsing and the failures of start-up; `cJSON`, the CAM and memory cores, the
generated XL parser (vendored or generated); build scripts; three and more ports, where the cast of the buffer array reaches memory that means nothing.
In the action block: the length and the destination port in TUSER. In the flow context table: the host's access to the memories and the statistics other
than `count_item`, and that PAUSE stops the flush (`Firmware` has it). Of the registers: the handshakes of AXI-lite. Of the firmware: what it prints, `xge_test.c` (nothing calls it), `helloworld.c` (commented out). The XL compiler
(Java) and the NetFPGA loader (Python) are straight translations without state that outlives a
line; what their output means is modelled where it is read, in `Xfsm` and `Firmware`.

## Plan

What would come next:

1. `FlowBlazeCore`: `Controller` over `FlowContextTable`; a context is never computed from an older one for
   packets that are far enough apart, with the distance proved.
2. The AXI-lite slave's handshakes; every request is answered.
3. Conditions and ALUs with their widths, the interpreter against the hardware.
4. Use cases: policer and load balancer on `XfsmWorker`.
5. XL compiler and NetFPGA loader, against `Loader` and `Firmware`.

Theorems to come: those of the modules above, first that packets which went through WAIT5 are eleven cycles apart, so that `LookupIsRight` gives them the latest context of the two together.
