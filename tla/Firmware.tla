------------------------------ MODULE Firmware ------------------------------
(***************************************************************************)
(* NetFPGA-SUME-FB: the board firmware's command loop (main.c) and the     *)
(* core whose tables it writes.  Every command is executed between a       *)
(* write of 1 and a write of 0 to PAUSE, 20 ms after the first, so that no *)
(* packet meets a table that is being written.                             *)
(*                                                                         *)
(* A step is a cycle of the clock the core shares with its AXI-lite slave: *)
(* Controller's state machine and shift registers move, and the firmware   *)
(* has a register access done or has not.  The core modelled is the one at *)
(* base 0; accesses to the other stage leave it alone.                     *)
(*                                                                         *)
(* A line is the sequence of its symbols: the digits of the command and,   *)
(* as one symbol each, its " 0x..." arguments.  A row of a TCAM has Words  *)
(* words for the code's eight.  Numbers are int: 0xFFFFFFFF is -1.         *)
(***************************************************************************)
EXTENDS Controller, FiniteSets

CONSTANTS Words,        (* bound: words of a TCAM row, 8 in the code        *)
          NumTables,    (* bound: hash tables, 4 in the code                *)
          HTRows,       (* bound: rows of a hash table, HT_1K in the code   *)
          Addresses, Values,  (* arguments of 97 to 99                      *)
          Lines,        (* what may be typed or sent by the loader          *)
          MaxLines,     (* bound                                            *)
          Leftover      (* what may be in msg before the first line         *)

\* A row has a word before the last one that tells ports apart, the second.
ASSUME FirmwareAssumption == /\ Words \in Nat /\ Words >= 3 /\ NumTables \in 1..4
                             /\ HTRows \in Nat /\ MaxLines \in Nat

\* Symbols, and what else may be in the buffer.
Digit(d) == << "digit", d >>
Arg(x)   == << "arg", x >>
NUL      == << "NUL", 0 >>
LoaderLen == 4          \* the symbols of a line of the loader
MsgLen == 5             \* bound, 256 in the code: one symbol behind such a line

\* A symbol that is taken for one more digit of the argument before it.
IsHex(x) == x[1] \in {"digit", "letter"}

\* A line has one or two digits, behind two the arguments of 97 to 99, and behind
\* these a digit too many.  None writes PAUSE, which the firmware sets itself;
\* neither does the loader.  What the stack holds before the first line is any
\* symbol but an argument, a digit among them.
Symbols(k) == IF k <= 2 \/ k = 5 THEN {Digit(d) : d \in 0..9}
              ELSE IF k = 3 THEN {Arg(a) : a \in Addresses} ELSE {Arg(v) : v \in Values}
ASSUME LinesAssumption ==
  /\ \A a \in Addresses : a \in Nat \X {a[2]} /\ a # << 0, "PAUSE" >>
  /\ Values \subseteq Int
  /\ \A l \in Lines : /\ Len(l) \in 0..MsgLen /\ l = [k \in 1..Len(l) |-> l[k]]
                     /\ \A k \in 1..Len(l) : l[k] \in Symbols(k)
  /\ \A x \in Leftover : x[1] # "arg" /\ (IsHex(x) => x[2] \in 0..15)

\* Ports as bits of dst_if, and as destinations of an action.
IDPORT == << 1, 4, 16, 64 >>
IDFLOODING == \h55
Forward(id) == id * 2^24
HT_REMOVE == \hFFFF

VARIABLES
  pc,           \* where the firmware is
  msg,          \* the line buffer, on the stack and never cleared
  lines,        \* how many lines have come
  line,         \* the last one
  command,      \* opcode, addr and value scanned from msg
  stage, base,
  ops,          \* register accesses of the command still to be made
  ht_counter,
  core,         \* registers, CAM and RAMs of the core at base 0
  ht,           \* non-zero rows of its hash tables
  pauseLost,    \* history: the last write of 1 to PAUSE had no effect
  transparent   \* history: transparent mode was set up behind a pause that held,
                \* and nothing but REGTEST0 written since
fw == << pc, msg, lines, line, command, stage, base, ops, ht_counter, pauseLost, transparent >>
fwvars == << vars, fw, core, ht >>

-----------------------------------------------------------------------------
(* tool_flowblaze.h: what its functions read and write                     *)

regwrite(b, name, row, word, val) ==
  [op |-> "write", base |-> b, name |-> name, row |-> row, word |-> word, val |-> val]

\* A read without effect on the core; what it prints is left out.
regread(b, name) == [op |-> "read", base |-> b, name |-> name]

RowWords(b, name, row, words) ==
  [i \in 1..Words |-> regwrite(b, name, row, i, IF i <= Len(words) THEN words[i] ELSE -1)]

set_tcamram2(b, row, key, mask, next_state, action, update) ==
  RowWords(b, "TCAM2", row, key) \o RowWords(b, "TCAM2_MASK", row, mask)
  \o << regwrite(b, "RAM2", row, 1, next_state), regwrite(b, "RAM3", row, 1, action),
        regwrite(b, "RAM4", row, 1, update) >>

set_tcamram1(b, row, key, mask, present_state) ==
  RowWords(b, "TCAM1", row, key) \o RowWords(b, "TCAM1_MASK", row, mask)
  \o << regwrite(b, "RAM1", row, 1, present_state) >>

\* A row that is counted if it holds an entry.
searchHT_hide(b, table, row) == [op |-> "row", base |-> b, name |-> table, row |-> row]

\* It prints differently and counts alike.
xil_searchHT(b, table, row) == searchHT_hide(b, table, row)

scan_extractor(b) == << regread(b, "LOOKUP"), regread(b, "UPDATE"), regread(b, "GR00") >>

-----------------------------------------------------------------------------
(* main.c: the commands                                                    *)

Registers(b, pairs) == [i \in DOMAIN pairs |-> regwrite(b, pairs[i][1], 0, 1, pairs[i][2])]

\* Mutant of PortRow: the key of the row before is left in place.
PortRowStale(b, row, id) ==
  << regwrite(b, "TCAM2_MASK", row, Words, -1),
     regwrite(b, "RAM2", row, 1, 10), regwrite(b, "RAM3", row, 1, Forward(id) + HT_REMOVE) >>

\* A row of transparent mode: any state, and IDPORT in the byte of the key that the
\* core compares with the second byte of the first operand.
PortRow(b, row, id) ==
  set_tcamram2(b, row, << 255, id >>, << -1, -256 >>, 10, Forward(id) + HT_REMOVE, 0)

PortIds == << IDPORT[1], IDPORT[2], IDPORT[3], IDPORT[4], IDPORT[1] + IDPORT[2], IDPORT[1] + IDPORT[3],
              IDPORT[2] + IDPORT[4], IDPORT[3] + IDPORT[4], IDFLOODING >>

\* The operands are the timestamp (twice) and the two bytes at 16.  The four words
\* of a key mask are one.
TransparentSettings ==
  << << "LOOKUP", 0 >>, << "UPDATE", 0 >>, << "SEL_UPDATE", 0 >>, << "FSM_SCOPE", \h2D >>,
     << "LOOKUPMASK", -1 >>, << "UPDATEMASK", -1 >>,
     << "OFF_LEN1", \hE8 >>, << "OFF_LEN2", \hE8 >>, << "OFF_LEN3", \h50 >>, << "GR00", 1 >>, << "GR01", 2 >> >>

TransparentMode(b) ==
  Registers(b, TransparentSettings)
  \o scan_extractor(b)
  \o set_tcamram1(b, 0, << -1 >>, << -1 >>, 255)
  \o PortRow(b, 0, PortIds[1]) \o PortRow(b, 1, PortIds[2]) \o PortRow(b, 2, PortIds[3])
  \o PortRow(b, 3, PortIds[4]) \o PortRow(b, 4, PortIds[5]) \o PortRow(b, 5, PortIds[6])
  \o PortRow(b, 6, PortIds[7]) \o PortRow(b, 7, PortIds[8]) \o PortRow(b, 8, PortIds[9])

\* The tables are read one after the other, row by row.
TableOf(n) == ((n - 1) \div HTRows) + 1
RowOf(n) == ((n - 1) % HTRows) + 1

CountTables(b) == [n \in 1..(NumTables * HTRows) |-> searchHT_hide(b, TableOf(n), RowOf(n))]

PrintTables(b) == [n \in 1..(NumTables * HTRows) |-> xil_searchHT(b, TableOf(n), RowOf(n))]

ScanRam(b) == << regread(b, "RAM1"), regread(b, "RAM2"), regread(b, "RAM3"), regread(b, "RAM4") >>

ScanPorts == [i \in 1..4 |-> regread(0, "ETH")]

\* The destination that command 2 forces on all packets, by its option.
SendTo(option) ==
  LET choice == << \h100, IDPORT[1], IDPORT[2], IDPORT[3], IDPORT[4], IDFLOODING, 0 >>
  IN  IF option \in 0..6 THEN << regwrite(0, "REGTEST0", 0, 1, choice[option + 1]) >> ELSE << >>

\* addr is << base, register >>.
Command(c, b) ==
  CASE c.opcode = 3 -> CountTables(b)
    [] c.opcode = 4 -> PrintTables(b)
    [] c.opcode = 5 -> ScanRam(b)
    [] c.opcode = 6 -> ScanPorts
    [] c.opcode = 7 -> TransparentMode(b)
    [] c.opcode \in {97, 99} -> << regwrite(c.addr[1], c.addr[2], 0, 1, c.value) >>
    [] c.opcode = 98 -> << regread(c.addr[1], c.addr[2]) >>
    [] OTHER -> << >>

-----------------------------------------------------------------------------
(* The line buffer                                                         *)

\* Mutant of getline: the line goes behind what is left of the last one.
getlineAppends(new) == [i \in 1..MsgLen |-> IF msg[i][1] # "NUL" THEN msg[i]
                                            ELSE IF i \in DOMAIN new THEN new[i] ELSE NUL]

\* msg = 0 sets the pointer, not the end of the line: what is behind it stays.
getline(new) == [i \in 1..MsgLen |-> IF i \in DOMAIN new THEN new[i] ELSE msg[i]]

\* The number that %d scans, and how many symbols it has.
Digits(m) == Cardinality({n \in 1..MsgLen : \A i \in 1..n : m[i][1] = "digit"})

Decimal(m) ==
  LET Value(i) == IF i <= Digits(m) THEN m[i][2] * << 1, 10, 100, 1000, 10000 >>[(Digits(m) - i) + 1] ELSE 0
  IN  Value(1) + Value(2) + Value(3) + Value(4) + Value(5)

\* An address with a digit too many: none of the core modelled.
Elsewhere == << 1, "elsewhere" >>

\* rsscanf(msg, "%d 0x%x 0x%x\n"): stops at the first mismatch, leaving the rest 0.
\* A hex digit left behind an argument becomes its last one (the digit that an
\* argument of full width loses at the top for it is left out).
rsscanf(m) ==
  LET n == Digits(m)
      IsArg(i) == n > 0 /\ i <= MsgLen /\ m[i][1] = "arg"
      Longer(i) == i < MsgLen /\ IsHex(m[i + 1])
  IN  [opcode |-> Decimal(m),
       addr   |-> IF ~IsArg(n + 1) THEN << 0, "zero" >>
                  ELSE IF Longer(n + 1) THEN Elsewhere ELSE m[n + 1][2],
       value  |-> IF ~(IsArg(n + 1) /\ IsArg(n + 2)) THEN 0
                  ELSE IF Longer(n + 2) THEN 16 * m[n + 2][2] + m[n + 3][2] ELSE m[n + 2][2]]

-----------------------------------------------------------------------------
(* The core                                                                *)

CoreRegisters == {"PAUSE", "REGTEST0", "LOOKUP", "UPDATE", "SEL_UPDATE", "FSM_SCOPE", "LOOKUPMASK",
                  "UPDATEMASK", "OFF_LEN1", "OFF_LEN2", "OFF_LEN3", "GR00", "GR01"}
CoreInit == [reg  |-> [n \in CoreRegisters |-> 0],
             data |-> [w \in 1..Words |-> 0], mask |-> [w \in 1..Words |-> 0],
             cam  |-> << >>, ram2 |-> << >>, ram3 |-> << >>]

pause == core.reg["PAUSE"]

Put(f, x, y) == [z \in DOMAIN f \cup {x} |-> IF z = x THEN y ELSE f[z]]

\* REG_WRITE_PROCESS takes a word only if no packet is at startd(8) in that cycle.
Lost == startd[Updating] # None

\* The pause met a packet in PKT1, and the one before it stays at startd(8).
Frozen == pause # 0 /\ curr_state = "PKT1" /\ Lost

\* The CAM takes the row that was collected with the last word of the mask, the
\* RAMs take theirs, whether or not a packet is at startd(8).
Effect(o) ==
  LET collected == CASE Lost -> core
                     [] ~Lost /\ o.name \in CoreRegisters -> [core EXCEPT !.reg[o.name] = o.val]
                     [] ~Lost /\ o.name \in {"TCAM1", "TCAM2"} -> [core EXCEPT !.data[o.word] = o.val]
                     [] ~Lost /\ o.name \in {"TCAM1_MASK", "TCAM2_MASK"} -> [core EXCEPT !.mask[o.word] = o.val]
                     [] OTHER -> core
  IN  CASE o.name = "TCAM2_MASK" /\ o.word = Words ->
             [collected EXCEPT !.cam = Put(core.cam, o.row, [key |-> core.data, mask |-> core.mask])]
        [] o.name = "RAM2" -> [collected EXCEPT !.ram2 = Put(core.ram2, o.row, o.val)]
        [] o.name = "RAM3" -> [collected EXCEPT !.ram3 = Put(core.ram3, o.row, o.val)]
        [] OTHER -> collected

\* PAUSE takes TREADY away: no word is handed over, and a packet that is in
\* PKT1 holds startd.
PausedCycle == \/ Idle /\ packets' = packets
               \/ Pkt1Stalled
               \/ Pkt2 /\ curr_state' = "PKT2"
               \/ Wait5

Cycle == IF pause = 0 THEN Next ELSE PausedCycle

\* A packet at startd(8) may insert or remove a row: once, or in every cycle of the
\* pause that has frozen it there, by whatever action_d3 has come to hold.  Rows
\* come in from the stash too, and that alone PAUSE prevents.
TableUpdate ==
  \/ ht' = ht
  \/ \E t \in 1..NumTables, r \in 1..HTRows :
       /\ Lost \/ (pause = 0 /\ r \notin ht[t])
       /\ ht' = [ht EXCEPT ![t] = IF r \in @ THEN @ \ {r} ELSE @ \cup {r}]

-----------------------------------------------------------------------------
(* The firmware, in a cycle                                                *)

FWInit ==
  /\ Init
  /\ pc = "getline" /\ msg \in {[i \in 1..MsgLen |-> x] : x \in Leftover}
  /\ lines = 0 /\ line = << >> /\ command = [opcode |-> 0, addr |-> << 0, "zero" >>, value |-> 0]
  /\ stage = 0 /\ base = 0 /\ ops = << >> /\ ht_counter = 0
  /\ pauseLost = FALSE /\ transparent = FALSE
  /\ core = CoreInit /\ ht = [t \in 1..NumTables |-> {}]

\* The access at the head of ops, which is to the core modelled or another one.
Access(o) ==
  /\ core' = IF o.op = "write" /\ o.base = 0 THEN Effect(o) ELSE core
  /\ ht_counter' = IF o.op = "row" /\ o.base = 0 /\ o.row \in ht[o.name] THEN ht_counter + 1 ELSE ht_counter

Pause(b, on) == regwrite(b, "PAUSE", 0, 1, on)

\* Mutant of Pauses: only the other stage is paused.
PausesOther == << Pause(1, 1) >>

Pauses == << Pause(0, 1), Pause(1, 1) >>

\* Mutant of Unpauses: the selected stage is enabled.
UnpausesSelected == << Pause(base, 0) >>

Unpauses == << Pause(0, 0), Pause(1, 0) >>

GetLine ==
  /\ pc = "getline" /\ lines < MaxLines
  /\ \E l \in Lines :
       /\ msg' = getline(l) /\ line' = l
       /\ command' = rsscanf(msg')
  /\ lines' = lines + 1 /\ pc' = "pause" /\ ops' = Pauses
  /\ ht_counter' = 0 /\ pauseLost' = FALSE
  /\ UNCHANGED << stage, base, core, transparent >>

WritePause ==
  /\ pc = "pause" /\ ops # << >>
  /\ Access(Head(ops)) /\ ops' = Tail(ops)
  /\ pauseLost' = (pauseLost \/ (Head(ops).base = 0 /\ Lost))
  /\ pc' = IF ops' = << >> THEN "usleep" ELSE "pause"
  /\ UNCHANGED << msg, lines, line, command, stage, base, transparent >>

\* Mutant of Usleep: the command is executed at once.
UsleepNot ==
  /\ pc = "usleep" /\ pc' = "switch"
  /\ UNCHANGED << msg, lines, line, command, stage, base, ops, ht_counter, core, pauseLost, transparent >>

\* 20 ms: a pipeline that moves and takes no packet is empty by then.
Usleep ==
  /\ pc = "usleep"
  /\ pause = 0 \/ (start = None /\ \A s \in Stages : startd[s] = None) \/ curr_state = "PKT1"
  /\ pc' = "switch"
  /\ UNCHANGED << msg, lines, line, command, stage, base, ops, ht_counter, core, pauseLost, transparent >>

\* What transparent mode sets up may be written over by hand.
WritesByHand == command.opcode \in {97, 99} /\ command.addr[1] = 0 /\ command.addr[2] # "REGTEST0"

Switch ==
  /\ pc = "switch"
  /\ ops' = IF command.opcode \in {0, 2} THEN << >> ELSE Command(command, base)
  /\ stage' = IF command.opcode = 1 THEN IF stage = 1 THEN 2 ELSE 1 ELSE stage
  /\ base' = IF command.opcode # 1 THEN base ELSE IF stage' = 1 THEN 1 ELSE 0
  /\ transparent' = (transparent /\ ~(command.opcode = 7 /\ base = 0) /\ ~WritesByHand)
  /\ pc' = IF command.opcode = 2 THEN "option" ELSE "body"
  /\ UNCHANGED << msg, lines, line, command, ht_counter, core, pauseLost >>

\* Command 2 asks for the port while the pipeline is paused.
GetOption ==
  /\ pc = "option" /\ lines < MaxLines
  /\ \E l \in Lines :
       /\ msg' = getline(l) /\ line' = l
       /\ ops' = SendTo(Decimal(msg'))
  /\ lines' = lines + 1 /\ pc' = "body"
  /\ UNCHANGED << command, stage, base, ht_counter, core, pauseLost, transparent >>

Body ==
  /\ pc = "body" /\ ops # << >>
  /\ Access(Head(ops)) /\ ops' = Tail(ops)
  /\ UNCHANGED << pc, msg, lines, line, command, stage, base, pauseLost, transparent >>

BodyDone ==
  /\ pc = "body" /\ ops = << >>
  /\ pc' = "unpause" /\ ops' = Unpauses
  /\ transparent' = IF command.opcode = 7 /\ base = 0 THEN ~pauseLost /\ ~Frozen ELSE transparent
  /\ UNCHANGED << msg, lines, line, command, stage, base, ht_counter, core, pauseLost >>

\* Command 0, and a line without a number, end the program.
Unpause ==
  /\ pc = "unpause"
  /\ Access(Head(ops)) /\ ops' = Tail(ops)
  /\ pc' = CASE ops' # << >> -> "unpause"
             [] ops' = << >> /\ command.opcode = 0 -> "exit"
             [] OTHER -> "getline"
  /\ UNCHANGED << msg, lines, line, command, stage, base, pauseLost, transparent >>

Main == GetLine \/ WritePause \/ Usleep \/ Switch \/ GetOption \/ Body \/ BodyDone \/ Unpause

\* Bound: the accesses of a command follow each other.
Idling == pc \notin {"switch", "body"} /\ UNCHANGED << fw, core >>

FWNext == Cycle /\ TableUpdate /\ (Main \/ Idling)

\* The clock ticks, and the firmware goes on except where it waits for a line.
FWSpec == FWInit /\ [][FWNext]_fwvars
          /\ WF_fwvars(Cycle /\ TableUpdate /\ Idling)
          /\ WF_fwvars(Cycle /\ TableUpdate /\ Main /\ pc \notin {"getline", "option"})

-----------------------------------------------------------------------------
(* Properties                                                              *)

FWTypeOK ==
  /\ TypeOK
  /\ pc \in {"getline", "pause", "usleep", "switch", "option", "body", "unpause", "exit"}
  /\ lines \in 0..MaxLines /\ stage \in 0..2 /\ base \in 0..1
  /\ ht_counter \in 0..(NumTables * HTRows) /\ pause \in 0..1

\* main.c:364 "pipeline needs to be stopped if you are modifying internal
\* flowblaze componets": while a command reads or writes the tables, no packet is
\* looked up or matched, whatever was in the pipeline when PAUSE was written and
\* however its words were delayed, unless the write itself was lost.
TablesUnseen ==
  pc = "body" /\ ops # << >> /\ ~pauseLost => startd[1] = None /\ startd[2] = None

\* Between commands the pipeline runs, though the core drops a register write
\* that meets a packet: 20 ms after the pause none is left that could be met, but
\* for one that the pause has frozen at startd(8) behind a packet in PKT1.
RunsBetweenCommands == pc \in {"getline", "exit"} => pause = 0 \/ Frozen

\* A pause ends, unless the pipeline is frozen or the operator is asked for a port.
PauseEnds == pause # 0 ~> (pause = 0 \/ Frozen \/ pc = "option")

\* A line of the loader (programmer.py: 97, an address and a value of fixed width)
\* is executed as it was sent, whatever lines of any commands came before it: its
\* symbols take the place of theirs.  Only a hex digit right behind it, left by a
\* longer line or by what was on the stack, would be taken for its last one.
LoaderLinesObeyed ==
  pc \notin {"getline", "option"} /\ command.opcode # 2 /\ Len(line) = LoaderLen /\ ~IsHex(msg[MsgLen]) =>
    command = [opcode |-> 10 * line[1][2] + line[2][2], addr |-> line[3][2], value |-> line[4][2]]

\* Command 3 and 4 report the number of rows that the tables hold when they end:
\* rows are read one at a time and must not come and go meanwhile, from the stash
\* or by a packet's update.  A packet that the pause has frozen goes on updating.
CountExact ==
  pc = "unpause" /\ Len(ops) = 2 /\ command.opcode \in {3, 4} /\ base = 0 /\ ~pauseLost /\ ~Frozen =>
    ht_counter = Cardinality(UNION {{t} \X ht[t] : t \in 1..NumTables})

\* Transparent mode is what the command sent: no word of some 200 was dropped by
\* meeting a packet at startd(8), none was collected into another row than its own,
\* and it stays until another register than REGTEST0 is written by hand.  It does
\* not follow that packets leave at the port they came in at: the byte of a row that
\* holds IDPORT is compared with one of the first operand, here of the timestamp.
ModeAsSent ==
  transparent =>
    /\ \A i \in DOMAIN TransparentSettings : core.reg[TransparentSettings[i][1]] = TransparentSettings[i][2]
    /\ \A p \in DOMAIN PortIds :
         /\ p - 1 \in DOMAIN core.cam /\ core.cam[p - 1].key[2] = PortIds[p] /\ core.cam[p - 1].mask[2] = -256
         /\ p - 1 \in DOMAIN core.ram3 /\ core.ram3[p - 1] = Forward(PortIds[p]) + HT_REMOVE

\* main.c:642 "enabling pipeline": after a command the pipeline runs.
PipelineEnabled == pc \in {"getline", "exit"} => pause = 0
=============================================================================
