-------------------------------- MODULE IIC --------------------------------
(***************************************************************************)
(* The board firmware's IIC bus: the transfer functions of iic_config.c    *)
(* and the three procedures built from them, which set the clock chip,     *)
(* read the power rails and read the SFP cages.                            *)
(*                                                                         *)
(* A transfer function is the sequence of its steps.  An interrupt may     *)
(* come between any two of them; the completion flags are TRUE while a     *)
(* completion is awaited, and waiting ends after IIC_TIMEOUT turns.        *)
(*                                                                         *)
(* The XIic driver, the bus and the chips are external: a driver call may  *)
(* fail, a chip takes or gives its bytes, refuses them, or never answers.  *)
(* A transfer ends with the bus released unless the driver's repeated      *)
(* start option is set when it ends.                                       *)
(***************************************************************************)
EXTENDS Integers, Sequences, FiniteSets

CONSTANTS IIC_TIMEOUT,
          SI5324_DEBUG,   (* the build that reads the clock chip back       *)
          NumRails,       (* bound: of the eight power rails                *)
          Cages,          (* SFP cages that have a module                   *)
          MaxCalls        (* bound: calls of the procedures                 *)

ASSUME IICAssumption == /\ IIC_TIMEOUT \in Nat /\ SI5324_DEBUG \in BOOLEAN
                        /\ NumRails \in 1..8 /\ Cages \subseteq 1..4
                        /\ MaxCalls \in Nat

IIC_SWITCH_ADDRESS == \h74
IIC_SI5324_ADDRESS == \h68
IIC_SFP_ADDRESS    == \h50
IIC_FMC_EEPROM     == \h50
IIC_BUS_SFP  == << 1, 2, 4, 8 >>
IIC_BUS_DDR3 == 16
IIC_BUS_FMC  == 32
IIC_BUS_PCON == 64
PM_CMD_LOAD_PAGE == 0
PM_CMD_POUT == \h96
PM_CMD_VOUT == \h8B
PM_CMD_IOUT == \h8C

\* Where each rail is measured.
pm_info == << [i2cAddress |-> \h5C, pageIndex |-> 0], [i2cAddress |-> \h5D, pageIndex |-> 2],
              [i2cAddress |-> \h5C, pageIndex |-> 1], [i2cAddress |-> \h5C, pageIndex |-> 2],
              [i2cAddress |-> \h5D, pageIndex |-> 1], [i2cAddress |-> \h5C, pageIndex |-> 3],
              [i2cAddress |-> \h5D, pageIndex |-> 0], [i2cAddress |-> \h5D, pageIndex |-> 3] >>
PmAddresses == {\h5C, \h5D}

-----------------------------------------------------------------------------
(* The transfer functions, step by step                                    *)

\* Reads after a repeated start: the bus is kept between address and data.
IicReadData == << "MarkReceive", "RepeatStart", "Start", "SetAddress", "MarkTransmit", "SendAddr",
                  "WaitTransmit", "RestoreOptions", "CheckTimeout",
                  "Receive", "WaitReceive", "CheckTimeout", "Stop" >>

\* Reads after a stop.
IicReadData2 == << "MarkReceive", "Start", "SetAddress", "MarkTransmit", "SendAddr",
                   "WaitTransmitIdle", "CheckTimeout",
                   "Receive", "WaitReceive", "CheckTimeout", "Stop" >>

\* Reads from an address of two bytes, the high one first.
IicReadData3 == << "MarkReceive", "Start", "SetAddress", "MarkTransmit", "SendAddrReorder",
                   "WaitTransmitIdle", "CheckTimeout",
                   "Receive", "WaitReceive", "CheckTimeout", "Stop" >>

IicWriteData == << "MarkTransmit", "Start", "SetAddress", "SendBuffer",
                   "WaitTransmitIdle", "CheckWriteTimeout", "Stop" >>

Steps(op) == CASE op = "IicReadData"  -> IicReadData
               [] op = "IicReadData2" -> IicReadData2
               [] op = "IicReadData3" -> IicReadData3
               [] op = "IicWriteData" -> IicWriteData

\* A transfer of a procedure.  into: where a read's bytes go; onfail: the
\* transfer to go on with when this one fails, 0 to return XST_FAILURE.
Write(addr, bytes) == [op |-> "IicWriteData", addr |-> addr, bytes |-> bytes, into |-> << >>, onfail |-> 0]
Read(op, addr, reg, into) == [op |-> op, addr |-> addr, bytes |-> << reg >>, into |-> into, onfail |-> 0]

sfpReadInfo(ModuleID) ==
  LET cage == IF ModuleID \in 1..4 THEN ModuleID ELSE 1
  IN  << Write(IIC_SWITCH_ADDRESS, << IIC_BUS_SFP[cage] >>),
         Read("IicReadData", IIC_SFP_ADDRESS, 20, << "Vendor", ModuleID >>),
         Read("IicReadData", IIC_SFP_ADDRESS, 40, << "Part", ModuleID >>) >>

\* Mutant of ReadRail: the page is loaded for the first rail of a chip only.
ReadRailSamePage(i) ==
  LET a == pm_info[i].i2cAddress
  IN  << IF i <= 2 THEN Write(a, << PM_CMD_LOAD_PAGE, pm_info[i].pageIndex >>)
         ELSE Read("IicReadData", a, PM_CMD_LOAD_PAGE, << >>),
         Read("IicReadData", a, PM_CMD_LOAD_PAGE, << >>),
         Read("IicReadData", a, PM_CMD_VOUT, << "voltage", i >>),
         Read("IicReadData", a, PM_CMD_IOUT, << "current", i >>),
         Read("IicReadData", a, PM_CMD_POUT, << "power", i >>) >>

ReadRail(i) ==
  LET a == pm_info[i].i2cAddress
  IN  << Write(a, << PM_CMD_LOAD_PAGE, pm_info[i].pageIndex >>),
         Read("IicReadData", a, PM_CMD_LOAD_PAGE, << >>),
         Read("IicReadData", a, PM_CMD_VOUT, << "voltage", i >>),
         Read("IicReadData", a, PM_CMD_IOUT, << "current", i >>),
         Read("IicReadData", a, PM_CMD_POUT, << "power", i >>) >>

pmReadInfo ==
  << Write(IIC_SWITCH_ADDRESS, << IIC_BUS_PCON >>) >>
  \o [n \in 1..(5 * NumRails) |-> ReadRail(((n - 1) \div 5) + 1)[((n - 1) % 5) + 1]]

\* The values it prints are looked at by no one, its result by no caller.
read5324 == [r \in 1..4 |-> Read("IicReadData2", IIC_SI5324_ADDRESS, << 25, 31, 40, 43 >>[r], << >>)]

\* The registers that config_SI5324 sets before it starts the calibration.
ClockWrites == << << 0, \h54, \hE4, \h12, \h15, \h92 >>, << 10, \h08, \h40 >>, << 25, \hA0 >>,
                  << 31, 0, 0, 3 >>, << 40, \hC2, \h49, \hEF >>, << 43, 0, \h77, \h0B >>,
                  << 46, 0, \h77, \h0B >> >>

\* Mutant of config_SI5324: a register that cannot be written is passed over.
config_SI5324GoesOn ==
  LET before == << Write(IIC_SWITCH_ADDRESS, << IIC_BUS_DDR3 >>) >>
                \o [w \in DOMAIN ClockWrites |->
                     [Write(IIC_SI5324_ADDRESS, ClockWrites[w]) EXCEPT !.onfail = w + 2]]
  IN  before \o << Write(IIC_SI5324_ADDRESS, << 136, \h40 >>) >>

config_SI5324 ==
  LET before == << Write(IIC_SWITCH_ADDRESS, << IIC_BUS_DDR3 >>) >>
                \o [w \in DOMAIN ClockWrites |-> Write(IIC_SI5324_ADDRESS, ClockWrites[w])]
      ical   == Len(before) + Len(read5324) + 1
      debug  == [r \in DOMAIN read5324 |-> [read5324[r] EXCEPT !.onfail = ical]]
  IN  before \o (IF SI5324_DEBUG THEN debug ELSE << >>)
             \o << Write(IIC_SI5324_ADDRESS, << 136, \h40 >>) >>

\* IicReadData3 has no caller; the FMC card's memory is what it fits.
readFMC(addr) == << Write(IIC_SWITCH_ADDRESS, << IIC_BUS_FMC >>),
                    Read("IicReadData3", IIC_FMC_EEPROM, addr, << "Word", addr >>) >>

Calls == {<< "config_SI5324", 0 >>, << "pmReadInfo", 0 >>, << "IicReadData3", \h0102 >>}
         \cup {<< "sfpReadInfo", id >> : id \in 0..4}

Transfers(c) == CASE c[1] = "config_SI5324" -> config_SI5324
                  [] c[1] = "pmReadInfo"    -> pmReadInfo
                  [] c[1] = "sfpReadInfo"   -> sfpReadInfo(c[2])
                  [] c[1] = "IicReadData3"  -> readFMC(c[2])

-----------------------------------------------------------------------------
VARIABLES
  boot,              \* IicInit and IicInitPost have run
  call, at, step,    \* the procedure that runs, its transfer, the step of it
  calls, status,     \* how many calls; what the last one returned
  got,               \* what the firmware holds: << item, id >> -> the bytes read
  TransmitComplete, ReceiveComplete, IicTimeoutCounter, IicOptions,
  options, started,  \* of the driver: repeated start, started
  wire, busy, irq,   \* transfer on the bus, bus held, completion not yet handled
  buffer,            \* ReadBuffer
  switch,            \* bus the PCA9548 connects, 0 for none
  pointer,           \* per chip << bus, address >>: register last addressed
  page,              \* per power chip: the page it shows
  regs               \* of the clock chip

where  == << call, at, step, calls, status, got >>
driver == << IicOptions, options, started >>
flags  == << TransmitComplete, ReceiveComplete >>
bus    == << wire, busy, irq >>
board  == << buffer, switch, pointer, page, regs >>
vars   == << boot, where, flags, IicTimeoutCounter, driver, bus, board >>

Idle == << "none", 0 >>
NoData == << >>

Chips == {<< IIC_BUS_SFP[c], IIC_SFP_ADDRESS >> : c \in Cages}
         \cup {<< IIC_BUS_DDR3, IIC_SI5324_ADDRESS >>, << IIC_BUS_FMC, IIC_FMC_EEPROM >>}
         \cup {<< IIC_BUS_PCON, a >> : a \in PmAddresses}

Items == {<< x, i >> : x \in {"voltage", "current", "power"}, i \in 1..NumRails}
         \cup {<< x, i >> : x \in {"Vendor", "Part"}, i \in 0..4} \cup {<< "Word", \h0102 >>}

Init ==
  /\ boot = "off" /\ call = Idle /\ at = 1 /\ step = 1 /\ calls = 0 /\ status = "none"
  /\ got = [x \in Items |-> NoData]
  /\ TransmitComplete = FALSE /\ ReceiveComplete = FALSE /\ IicTimeoutCounter = 0
  /\ IicOptions = FALSE /\ options = FALSE /\ started = FALSE
  /\ wire = "quiet" /\ busy = FALSE /\ irq = "none"
  /\ buffer = NoData /\ switch = 0
  /\ pointer = [c \in Chips |-> 0] /\ page = [a \in PmAddresses |-> 0] /\ regs = << >>

-----------------------------------------------------------------------------
(* The processor                                                           *)

Cur == Transfers(call)[at]
Now(s) == call # Idle /\ Steps(Cur.op)[step] = s

\* XIic_CfgInitialize may fail.
IicInit == /\ boot = "off"
           /\ boot' \in {"failed", "ready"}
           /\ UNCHANGED << where, flags, IicTimeoutCounter, driver, bus, board >>

\* Sets the handlers and pulses the reset of the switch.
IicInitPost == /\ boot = "ready"
               /\ boot' = "up" /\ switch' = 0
               /\ UNCHANGED << where, flags, IicTimeoutCounter, driver, bus, buffer, pointer, page, regs >>

Begin(c) == /\ boot = "up" /\ call = Idle /\ calls < MaxCalls
            /\ call' = c /\ at' = 1 /\ step' = 1 /\ calls' = calls + 1 /\ status' = "none"
            /\ IicTimeoutCounter' = 0
            /\ UNCHANGED << boot, got, flags, driver, bus, board >>

\* The transfer function goes on to its next step ...
GoOn == step' = step + 1 /\ UNCHANGED << call, at, calls, status, got >>

\* ... or returns to the procedure, which goes on or returns in its turn.
Return(ok) ==
  LET goto == IF ok THEN at + 1 ELSE Cur.onfail
      over == goto \notin DOMAIN Transfers(call)
  IN  /\ call' = IF over THEN Idle ELSE call
      /\ at' = IF over THEN 1 ELSE goto
      /\ step' = 1
      /\ status' = IF ~over THEN status ELSE IF ok THEN "XST_SUCCESS" ELSE "XST_FAILURE"
      /\ got' = IF ok /\ Cur.into # << >> THEN [got EXCEPT ![Cur.into] = buffer] ELSE got
      /\ UNCHANGED calls

Fail == Return(FALSE) /\ IicTimeoutCounter' = 0

MarkReceive == /\ Now("MarkReceive") /\ ReceiveComplete' = TRUE /\ GoOn
               /\ UNCHANGED << boot, TransmitComplete, IicTimeoutCounter, driver, bus, board >>

MarkTransmit == /\ Now("MarkTransmit") /\ TransmitComplete' = TRUE /\ GoOn
                /\ UNCHANGED << boot, ReceiveComplete, IicTimeoutCounter, driver, bus, board >>

RepeatStart == /\ Now("RepeatStart") /\ IicOptions' = options /\ options' = TRUE /\ GoOn
               /\ UNCHANGED << boot, flags, IicTimeoutCounter, started, bus, board >>

RestoreOptions == /\ Now("RestoreOptions") /\ options' = IicOptions /\ GoOn
                  /\ UNCHANGED << boot, flags, IicTimeoutCounter, IicOptions, started, bus, board >>

Start == /\ Now("Start")
         /\ \/ started' = TRUE /\ GoOn /\ UNCHANGED IicTimeoutCounter
            \/ Fail /\ UNCHANGED started
         /\ UNCHANGED << boot, flags, IicOptions, options, bus, board >>

SetAddress == /\ Now("SetAddress")
              /\ \/ GoOn /\ UNCHANGED IicTimeoutCounter
                 \/ Fail
              /\ UNCHANGED << boot, flags, driver, bus, board >>

Send == /\ Now("SendAddr") \/ Now("SendAddrReorder") \/ Now("SendBuffer")
        /\ \/ /\ wire' = "sending" /\ busy' = TRUE /\ GoOn
              /\ UNCHANGED << irq, IicTimeoutCounter >>
           \/ Fail /\ UNCHANGED bus
        /\ UNCHANGED << boot, flags, driver, board >>

Receive == /\ Now("Receive")
           /\ \/ /\ wire' = "receiving" /\ busy' = TRUE /\ GoOn /\ IicTimeoutCounter' = 0
                 /\ UNCHANGED irq
              \/ Fail /\ UNCHANGED bus
           /\ UNCHANGED << boot, flags, driver, board >>

\* Mutant of Awaited: the flag alone is waited for.
AwaitedFlagOnly == \/ (Now("WaitTransmit") \/ Now("WaitTransmitIdle")) /\ TransmitComplete
                   \/ Now("WaitReceive") /\ ReceiveComplete

\* What the function still waits for.
Awaited == \/ Now("WaitTransmit") /\ TransmitComplete
           \/ Now("WaitTransmitIdle") /\ (TransmitComplete \/ busy)
           \/ Now("WaitReceive") /\ (ReceiveComplete \/ busy)

\* Mutant of Wait: the turns of the wait are not counted.
WaitForEver ==
        /\ Now("WaitTransmit") \/ Now("WaitTransmitIdle") \/ Now("WaitReceive")
        /\ IF Awaited THEN UNCHANGED where ELSE GoOn
        /\ UNCHANGED << boot, flags, IicTimeoutCounter, driver, bus, board >>

Wait == /\ Now("WaitTransmit") \/ Now("WaitTransmitIdle") \/ Now("WaitReceive")
        /\ IF Awaited /\ IicTimeoutCounter <= IIC_TIMEOUT
             THEN IicTimeoutCounter' = IicTimeoutCounter + 1 /\ UNCHANGED where
             ELSE GoOn /\ UNCHANGED IicTimeoutCounter
        /\ UNCHANGED << boot, flags, driver, bus, board >>

\* Mutant of TimedOut: the device is stopped but not reset.
TimedOutNoReset ==
            /\ started' \in {FALSE, started}
            /\ TransmitComplete' = (TransmitComplete /\ ~Now("CheckWriteTimeout"))
            /\ Fail
            /\ UNCHANGED << ReceiveComplete, IicOptions, options, bus >>

\* XIic_Reset takes the transfer off the bus; XIic_Stop may fail.
TimedOut == /\ wire' = "quiet" /\ busy' = FALSE /\ irq' = "none"
            /\ started' \in {FALSE, started}
            /\ TransmitComplete' = (TransmitComplete /\ ~Now("CheckWriteTimeout"))
            /\ Fail
            /\ UNCHANGED << ReceiveComplete, IicOptions, options >>

CheckTimeout == /\ Now("CheckTimeout") \/ Now("CheckWriteTimeout")
                /\ IF IicTimeoutCounter > IIC_TIMEOUT
                     THEN TimedOut
                     ELSE GoOn /\ UNCHANGED << flags, IicTimeoutCounter, driver, bus >>
                /\ UNCHANGED << boot, board >>

Stop == /\ Now("Stop")
        /\ \/ started' = FALSE /\ Return(TRUE) /\ IicTimeoutCounter' = 0
           \/ Fail /\ UNCHANGED started
        /\ UNCHANGED << boot, flags, IicOptions, options, bus, board >>

Processor == \/ MarkReceive \/ MarkTransmit \/ RepeatStart \/ RestoreOptions \/ Start
             \/ SetAddress \/ Send \/ Receive \/ Wait \/ CheckTimeout \/ Stop

-----------------------------------------------------------------------------
(* Interrupts                                                              *)

IicSendHandler == /\ irq = "sent" /\ irq' = "none" /\ TransmitComplete' = FALSE
                  /\ UNCHANGED << boot, where, ReceiveComplete, IicTimeoutCounter, driver, wire, busy, board >>

IicRecvHandler == /\ irq = "received" /\ irq' = "none" /\ ReceiveComplete' = FALSE
                  /\ UNCHANGED << boot, where, TransmitComplete, IicTimeoutCounter, driver, wire, busy, board >>

-----------------------------------------------------------------------------
(* The bus and the chips                                                   *)

\* Mutant of Bytes: the two bytes of the address as they lie in memory.
BytesUnordered == IF Cur.op = "IicReadData3" THEN << Cur.bytes[1] % 256, Cur.bytes[1] \div 256 >> ELSE Cur.bytes

\* The bytes that go out, and the chip they go to.
Bytes == IF Cur.op = "IicReadData3" THEN << Cur.bytes[1] \div 256, Cur.bytes[1] % 256 >> ELSE Cur.bytes

Chip == << switch, Cur.addr >>

Delivered == wire = "sending" /\ (Cur.addr = IIC_SWITCH_ADDRESS \/ Chip \in Chips)

SetRegisters ==
  regs' = IF Cur.addr # IIC_SI5324_ADDRESS THEN regs
          ELSE [r \in (DOMAIN regs) \cup {Bytes[1] + b - 2 : b \in 2..Len(Bytes)} |->
                  IF r - Bytes[1] + 2 \in 2..Len(Bytes) THEN Bytes[r - Bytes[1] + 2] ELSE regs[r]]

WireSend ==
  /\ Delivered
  /\ wire' = "quiet" /\ irq' = "sent" /\ busy' = options
  /\ IF Cur.addr = IIC_SWITCH_ADDRESS
       THEN switch' = Bytes[1] /\ UNCHANGED << pointer, page, regs >>
       ELSE /\ pointer' = [pointer EXCEPT ![Chip] =
                              IF Chip[1] = IIC_BUS_FMC THEN Bytes[1] * 256 + Bytes[2] ELSE Bytes[1]]
            /\ page' = IF Cur.addr \in PmAddresses /\ Bytes[1] = PM_CMD_LOAD_PAGE /\ Len(Bytes) = 2
                         THEN [page EXCEPT ![Cur.addr] = Bytes[2]] ELSE page
            /\ SetRegisters
            /\ UNCHANGED switch
  /\ UNCHANGED << boot, where, flags, IicTimeoutCounter, driver, buffer >>

WireReceive ==
  /\ wire = "receiving" /\ Chip \in Chips
  /\ wire' = "quiet" /\ irq' = "received" /\ busy' = options
  /\ buffer' = << Chip, IF Cur.addr \in PmAddresses THEN page[Cur.addr] ELSE 0, pointer[Chip] >>
  /\ UNCHANGED << boot, where, flags, IicTimeoutCounter, driver, switch, pointer, page, regs >>

\* Not acknowledged: IicStatusHandler does nothing, and the wait goes on.
IicStatusHandler ==
  /\ wire \in {"sending", "receiving"}
  /\ wire' = "quiet" /\ busy' = FALSE
  /\ UNCHANGED << boot, where, flags, IicTimeoutCounter, driver, irq, board >>

-----------------------------------------------------------------------------
Next == \/ IicInit \/ IicInitPost \/ (\E c \in Calls : Begin(c)) \/ Processor
        \/ IicSendHandler \/ IicRecvHandler
        \/ WireSend \/ WireReceive \/ IicStatusHandler

\* The processor runs; the bus and the chips promise nothing.
Spec == Init /\ [][Next]_vars /\ WF_vars(Processor)

-----------------------------------------------------------------------------
(* Properties                                                              *)

TypeOK ==
  /\ boot \in {"off", "failed", "ready", "up"} /\ call \in Calls \cup {Idle}
  /\ at \in 1..60 /\ step \in 1..13 /\ calls \in 0..MaxCalls
  /\ status \in {"none", "XST_SUCCESS", "XST_FAILURE"}
  /\ << TransmitComplete, ReceiveComplete, IicOptions, options, started, busy >> \in BOOLEAN \X BOOLEAN
       \X BOOLEAN \X BOOLEAN \X BOOLEAN \X BOOLEAN
  /\ IicTimeoutCounter \in 0..(IIC_TIMEOUT + 1)
  /\ wire \in {"quiet", "sending", "receiving"} /\ irq \in {"none", "sent", "received"}

\* A completion that comes late never ends the wait of a later transfer: when a
\* function raises its flags and starts, nothing of the last one is under way.
NoStaleCompletion ==
  (\A s \in {"WaitTransmit", "WaitTransmitIdle", "WaitReceive", "RestoreOptions",
             "CheckTimeout", "CheckWriteTimeout"} : ~Now(s))
  => wire = "quiet" /\ irq = "none"

\* The clock chip is told to calibrate (register 136) only when every register
\* that config_SI5324 sets has its value, whatever failed, timed out or was
\* delivered too late in this call or an earlier one.
CalibratedWhenConfigured ==
  136 \in DOMAIN regs =>
    \A w \in DOMAIN ClockWrites : \A b \in 2..Len(ClockWrites[w]) :
      LET r == ClockWrites[w][1] + b - 2
      IN  r \in DOMAIN regs /\ regs[r] = ClockWrites[w][b]

\* A rail's voltage, current and power come from its own chip and page, though
\* chips show one page at a time and are shared by several rails (iic_pm.c:61).
RailsAreTheirOwn ==
  \A i \in 1..NumRails : \A x \in {"voltage", "current", "power"} :
    LET v == got[<< x, i >>]
        command == [voltage |-> PM_CMD_VOUT, current |-> PM_CMD_IOUT, power |-> PM_CMD_POUT]
    IN  v # NoData =>
          v = << << IIC_BUS_PCON, pm_info[i].i2cAddress >>, pm_info[i].pageIndex, command[x] >>

\* What is shown for a cage was read from that cage: all answer to one address
\* (iic_config.h), and only the switch tells them apart; an empty cage shows nothing.
\* A word of the FMC memory is that of the address asked for (IicReadData3).
ReadsAreTheirOwn ==
  /\ \A i \in 1..4 : /\ got[<< "Vendor", i >>] \in {NoData, << << IIC_BUS_SFP[i], IIC_SFP_ADDRESS >>, 0, 20 >>}
                     /\ got[<< "Part", i >>] \in {NoData, << << IIC_BUS_SFP[i], IIC_SFP_ADDRESS >>, 0, 40 >>}
  /\ got[<< "Word", \h0102 >>] \in {NoData, << << IIC_BUS_FMC, IIC_FMC_EEPROM >>, 0, \h0102 >>}

\* After a call that returned XST_SUCCESS the bus is free and the device stopped,
\* also where read5324 failed on the way and its result was ignored.
SuccessLeavesBusFree ==
  call = Idle /\ status = "XST_SUCCESS" => ~started /\ ~busy /\ wire = "quiet" /\ irq = "none"

\* Every call returns, whether or not the bus ever answers.
CallsReturn == call # Idle ~> call = Idle

\* "Clear Repeated Start option" (iic_config.c:187): a read leaves the driver's
\* options as it found them.
OptionsRestored == call = Idle => ~options
=============================================================================
