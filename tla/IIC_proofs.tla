------------------------------ MODULE IIC_proofs ------------------------------
(***************************************************************************)
(* The IIC transfers are safe whatever the bus does and however long the   *)
(* functions wait: no completion is ever taken for that of a later         *)
(* transfer, and a call that succeeds leaves the bus free.                 *)
(*                                                                         *)
(* A completion flag is TRUE from where it is raised to where the handler  *)
(* of this very transfer clears it: a wait that ends early ends with       *)
(* nothing under way, one that ends by its counter leads to XIic_Reset.    *)
(* FlagInv says so for every step of the four functions.                   *)
(***************************************************************************)
EXTENDS IIC, SequenceTheorems, TLAPS

Ops == {"IicReadData", "IicReadData2", "IicReadData3", "IicWriteData"}
Sends == {"SendAddr", "SendAddrReorder", "SendBuffer"}
Late == {"WaitTransmit", "WaitTransmitIdle", "WaitReceive", "RestoreOptions",
         "CheckTimeout", "CheckWriteTimeout"}

\* What the functions do: of the step s, the next one n and the one after it, m.
Order(op, s, n, m) ==
  /\ s = "MarkReceive" => op # "IicWriteData" /\ n \in {"RepeatStart", "Start"}
  /\ s = "RepeatStart" => op # "IicWriteData" /\ n = "Start"
  /\ s = "Start" => n = "SetAddress"
  /\ s = "SetAddress" => n = IF op = "IicWriteData" THEN "SendBuffer" ELSE "MarkTransmit"
  /\ s = "MarkTransmit" => n \in IF op = "IicWriteData" THEN {"Start"} ELSE {"SendAddr", "SendAddrReorder"}
  /\ s \in Sends => n \in {"WaitTransmit", "WaitTransmitIdle"}
  /\ s = "WaitTransmit" => op # "IicWriteData" /\ n = "RestoreOptions"
  /\ s = "WaitTransmitIdle" => IF op = "IicWriteData" THEN n = "CheckWriteTimeout"
                               ELSE n = "CheckTimeout" /\ m = "Receive"
  /\ s = "RestoreOptions" => op # "IicWriteData" /\ n = "CheckTimeout" /\ m = "Receive"
  /\ s = "CheckTimeout" => op # "IicWriteData" /\ n \in {"Receive", "Stop"}
  /\ s = "CheckWriteTimeout" => op = "IicWriteData" /\ n = "Stop"
  /\ s = "Receive" => op # "IicWriteData" /\ n = "WaitReceive"
  /\ s = "WaitReceive" => op # "IicWriteData" /\ n = "CheckTimeout" /\ m = "Stop"

LEMMA StepOrder ==
  ASSUME NEW op \in Ops, NEW k \in DOMAIN Steps(op)
  PROVE  /\ k \in Nat /\ (Steps(op)[k] # "Stop" => k + 1 \in DOMAIN Steps(op))
         /\ Order(op, Steps(op)[k], Steps(op)[k + 1], Steps(op)[k + 2])
<1>1. CASE op = "IicWriteData"
  <2>1. Steps(op) = IicWriteData /\ k \in 1..7
    BY <1>1 DEF Steps, IicWriteData
  <2> QED BY <1>1, <2>1 DEF IicWriteData, Order, Sends
<1>2. CASE op = "IicReadData"
  <2>1. Steps(op) = IicReadData /\ k \in 1..13
    BY <1>2 DEF Steps, IicReadData
  <2> QED BY <1>2, <2>1 DEF IicReadData, Order, Sends
<1>3. CASE op = "IicReadData2"
  <2>1. Steps(op) = IicReadData2 /\ k \in 1..11
    BY <1>3 DEF Steps, IicReadData2
  <2> QED BY <1>3, <2>1 DEF IicReadData2, Order, Sends
<1>4. CASE op = "IicReadData3"
  <2>1. Steps(op) = IicReadData3 /\ k \in 1..11
    BY <1>4 DEF Steps, IicReadData3
  <2> QED BY <1>4, <2>1 DEF IicReadData3, Order, Sends
<1> QED BY <1>1, <1>2, <1>3, <1>4 DEF Ops

LEMMA FirstStep == \A op \in Ops : /\ 1 \in DOMAIN Steps(op)
                                   /\ Steps(op)[1] = IF op = "IicWriteData" THEN "MarkTransmit" ELSE "MarkReceive"
  BY DEF Ops, Steps, IicWriteData, IicReadData, IicReadData2, IicReadData3

-----------------------------------------------------------------------------
(* Every transfer of a procedure is one of the four functions              *)

Transfer == [op : Ops, addr : Nat, bytes : Seq(Nat),
             into : Items \cup {<< >>}, onfail : Nat]

LEMMA ShortSeqs == /\ \A x, y \in Nat : << x >> \in Seq(Nat) /\ << x, y >> \in Seq(Nat)
                   /\ \A t \in Transfer : << t >> \in Seq(Transfer) /\ Len(<< t >>) = 1
  OBVIOUS

LEMMA Joined == \A s, t \in Seq(Transfer) : s \o t \in Seq(Transfer) /\ Len(s \o t) = Len(s) + Len(t)
<1> HIDE DEF Transfer
<1> QED BY ConcatProperties

LEMMA WriteIsTransfer == \A addr \in Nat, bytes \in Seq(Nat) : Write(addr, bytes) \in Transfer
  BY DEF Write, Transfer, Ops

LEMMA ReadIsTransfer ==
  \A op \in Ops, addr \in Nat, reg \in Nat, into \in Items \cup {<< >>} : Read(op, addr, reg, into) \in Transfer
  BY DEF Read, Transfer

LEMMA Addresses ==
  /\ {IIC_SWITCH_ADDRESS, IIC_SI5324_ADDRESS, IIC_SFP_ADDRESS, IIC_FMC_EEPROM, IIC_BUS_DDR3,
      IIC_BUS_FMC, IIC_BUS_PCON, PM_CMD_LOAD_PAGE, PM_CMD_POUT, PM_CMD_VOUT, PM_CMD_IOUT} \subseteq Nat
  /\ \A i \in 1..4 : IIC_BUS_SFP[i] \in Nat
  BY DEF IIC_SWITCH_ADDRESS, IIC_SI5324_ADDRESS, IIC_SFP_ADDRESS, IIC_FMC_EEPROM, IIC_BUS_DDR3,
      IIC_BUS_FMC, IIC_BUS_PCON, PM_CMD_LOAD_PAGE, PM_CMD_POUT, PM_CMD_VOUT, PM_CMD_IOUT, IIC_BUS_SFP

LEMMA SfpTransfers == \A id \in 0..4 : sfpReadInfo(id) \in Seq(Transfer) /\ Len(sfpReadInfo(id)) >= 1
<1> TAKE id \in 0..4
<1>1. PICK cage \in 1..4 : sfpReadInfo(id) =
        << Write(IIC_SWITCH_ADDRESS, << IIC_BUS_SFP[cage] >>),
           Read("IicReadData", IIC_SFP_ADDRESS, 20, << "Vendor", id >>),
           Read("IicReadData", IIC_SFP_ADDRESS, 40, << "Part", id >>) >>
  BY DEF sfpReadInfo
<1>2. Write(IIC_SWITCH_ADDRESS, << IIC_BUS_SFP[cage] >>) \in Transfer
  BY Addresses, ShortSeqs, WriteIsTransfer
<1>3. << "Vendor", id >> \in Items /\ << "Part", id >> \in Items
  BY DEF Items
<1>4. /\ Read("IicReadData", IIC_SFP_ADDRESS, 20, << "Vendor", id >>) \in Transfer
      /\ Read("IicReadData", IIC_SFP_ADDRESS, 40, << "Part", id >>) \in Transfer
  BY <1>3, Addresses, ReadIsTransfer DEF Ops
<1> QED BY <1>1, <1>2, <1>4

LEMMA RailTransfers == \A i \in 1..NumRails : \A x \in 1..5 : ReadRail(i)[x] \in Transfer
<1> TAKE i \in 1..NumRails
<1> DEFINE a == pm_info[i].i2cAddress
<1>1. i \in 1..8
  BY IICAssumption
<1>2. a \in Nat /\ pm_info[i].pageIndex \in Nat
  BY <1>1 DEF pm_info
<1> HIDE DEF a
<1>3. Write(a, << PM_CMD_LOAD_PAGE, pm_info[i].pageIndex >>) \in Transfer
  <2>1. << PM_CMD_LOAD_PAGE, pm_info[i].pageIndex >> \in Seq(Nat)
    BY <1>2, Addresses, ShortSeqs
  <2> QED BY <1>2, <2>1, WriteIsTransfer
<1>4. << "voltage", i >> \in Items /\ << "current", i >> \in Items /\ << "power", i >> \in Items
  BY DEF Items
<1>5. /\ Read("IicReadData", a, PM_CMD_LOAD_PAGE, << >>) \in Transfer
      /\ Read("IicReadData", a, PM_CMD_VOUT, << "voltage", i >>) \in Transfer
      /\ Read("IicReadData", a, PM_CMD_IOUT, << "current", i >>) \in Transfer
      /\ Read("IicReadData", a, PM_CMD_POUT, << "power", i >>) \in Transfer
  BY <1>2, <1>4, Addresses, ReadIsTransfer DEF Ops
<1> QED BY <1>3, <1>5 DEF ReadRail, a

LEMMA PmTransfers == pmReadInfo \in Seq(Transfer) /\ Len(pmReadInfo) >= 1
<1> DEFINE first == << Write(IIC_SWITCH_ADDRESS, << IIC_BUS_PCON >>) >>
           rails == [n \in 1..(5 * NumRails) |-> ReadRail(((n - 1) \div 5) + 1)[((n - 1) % 5) + 1]]
<1>1. first \in Seq(Transfer) /\ Len(first) = 1
  <2>1. << IIC_BUS_PCON >> \in Seq(Nat) /\ IIC_SWITCH_ADDRESS \in Nat
    BY Addresses, ShortSeqs
  <2> QED BY <2>1, ShortSeqs, WriteIsTransfer
<1>2. ASSUME NEW n \in 1..(5 * NumRails) PROVE ReadRail(((n - 1) \div 5) + 1)[((n - 1) % 5) + 1] \in Transfer
  <2>1. NumRails \in Nat
    BY IICAssumption
  <2>2. ((n - 1) \div 5) + 1 \in 1..NumRails /\ ((n - 1) % 5) + 1 \in 1..5
    BY <2>1
  <2> QED BY <2>2, RailTransfers
<1>3. rails \in Seq(Transfer)
  <2>1. 5 * NumRails \in Nat
    BY IICAssumption
  <2> QED BY <1>2, <2>1
<1> HIDE DEF first, rails
<1>4. first \o rails \in Seq(Transfer) /\ Len(first \o rails) >= 1
  BY <1>1, <1>3
<1> QED BY <1>4 DEF pmReadInfo, first, rails

LEMMA ClockTransfers == config_SI5324 \in Seq(Transfer) /\ Len(config_SI5324) >= 1
<1> DEFINE first  == << Write(IIC_SWITCH_ADDRESS, << IIC_BUS_DDR3 >>) >>
           writes == [w \in DOMAIN ClockWrites |-> Write(IIC_SI5324_ADDRESS, ClockWrites[w])]
           before == first \o writes
           ical   == Len(before) + Len(read5324) + 1
           debug  == [r \in DOMAIN read5324 |-> [read5324[r] EXCEPT !.onfail = ical]]
           last   == << Write(IIC_SI5324_ADDRESS, << 136, \h40 >>) >>
<1>1. first \in Seq(Transfer) /\ Len(first) = 1 /\ last \in Seq(Transfer)
  <2>1. /\ << IIC_BUS_DDR3 >> \in Seq(Nat) /\ IIC_SWITCH_ADDRESS \in Nat
        /\ << 136, \h40 >> \in Seq(Nat) /\ IIC_SI5324_ADDRESS \in Nat
    BY Addresses, ShortSeqs
  <2> QED BY <2>1, ShortSeqs, WriteIsTransfer
<1>2. DOMAIN ClockWrites = 1..7 /\ \A w \in 1..7 : ClockWrites[w] \in Seq(Nat)
  BY DEF ClockWrites
<1>3. writes \in Seq(Transfer)
  <2>1. \A w \in 1..7 : Write(IIC_SI5324_ADDRESS, ClockWrites[w]) \in Transfer
    BY <1>2, Addresses, WriteIsTransfer
  <2> QED BY <1>2, <2>1
<1>4. DOMAIN read5324 = 1..4 /\ Len(read5324) = 4 /\ \A r \in 1..4 : read5324[r] \in Transfer
  <2>1. \A r \in 1..4 : << 25, 31, 40, 43 >>[r] \in Nat
    OBVIOUS
  <2>2. \A r \in 1..4 : Read("IicReadData2", IIC_SI5324_ADDRESS, << 25, 31, 40, 43 >>[r], << >>) \in Transfer
    BY <2>1, Addresses, ReadIsTransfer DEF Ops
  <2> QED BY <2>2 DEF read5324
<1> HIDE DEF first, writes, last
<1>5. before \in Seq(Transfer) /\ Len(before) >= 1
  <2>1. Len(first) \in Nat /\ Len(writes) \in Nat
    BY <1>1, <1>3
  <2>2. before \in Seq(Transfer) /\ Len(before) = Len(first) + Len(writes)
    BY <1>1, <1>3, Joined
  <2> QED BY <1>1, <2>1, <2>2
<1> HIDE DEF before
<1>6. ical \in Nat
  BY <1>4, <1>5
<1> HIDE DEF ical
<1>7. debug \in Seq(Transfer)
  <2>1. \A r \in 1..4 : [read5324[r] EXCEPT !.onfail = ical] \in Transfer
    BY <1>4, <1>6 DEF Transfer
  <2> QED BY <1>4, <2>1
<1> HIDE DEF debug
<1>8. (IF SI5324_DEBUG THEN debug ELSE << >>) \in Seq(Transfer)
  BY <1>7
<1>9. /\ (before \o (IF SI5324_DEBUG THEN debug ELSE << >>)) \o last \in Seq(Transfer)
      /\ Len((before \o (IF SI5324_DEBUG THEN debug ELSE << >>)) \o last) >= 1
  BY <1>1, <1>5, <1>8
<1> QED BY <1>9 DEF config_SI5324, first, writes, before, ical, debug, last

LEMMA FmcTransfers == \A addr \in Nat : << "Word", addr >> \in Items =>
                        readFMC(addr) \in Seq(Transfer) /\ Len(readFMC(addr)) >= 1
<1> SUFFICES ASSUME NEW addr \in Nat, << "Word", addr >> \in Items
             PROVE  readFMC(addr) \in Seq(Transfer) /\ Len(readFMC(addr)) >= 1
  OBVIOUS
<1>1. /\ Write(IIC_SWITCH_ADDRESS, << IIC_BUS_FMC >>) \in Transfer
      /\ Read("IicReadData3", IIC_FMC_EEPROM, addr, << "Word", addr >>) \in Transfer
  <2>1. << IIC_BUS_FMC >> \in Seq(Nat) /\ IIC_SWITCH_ADDRESS \in Nat /\ IIC_FMC_EEPROM \in Nat
    BY Addresses, ShortSeqs
  <2>2. Write(IIC_SWITCH_ADDRESS, << IIC_BUS_FMC >>) \in Transfer
    BY <2>1, WriteIsTransfer
  <2>3. Read("IicReadData3", IIC_FMC_EEPROM, addr, << "Word", addr >>) \in Transfer
    BY <2>1, ReadIsTransfer DEF Ops
  <2> QED BY <2>2, <2>3
<1> QED BY <1>1 DEF readFMC

LEMMA TransfersOfCall == \A c \in Calls : /\ 1 \in DOMAIN Transfers(c)
                                          /\ \A a \in DOMAIN Transfers(c) : Transfers(c)[a].op \in Ops
<1> TAKE c \in Calls
<1>1. Transfers(c) \in Seq(Transfer) /\ Len(Transfers(c)) >= 1
  <2>1. CASE c[1] = "config_SI5324"
    BY <2>1, ClockTransfers DEF Transfers
  <2>2. CASE c[1] = "pmReadInfo"
    BY <2>2, PmTransfers DEF Transfers
  <2>3. CASE c[1] = "sfpReadInfo"
    <3>1. c[2] \in 0..4
      BY <2>3 DEF Calls
    <3> QED BY <2>3, <3>1, SfpTransfers DEF Transfers
  <2>4. CASE c[1] = "IicReadData3"
    <3>1. c[2] \in Nat /\ << "Word", c[2] >> \in Items
      BY <2>4 DEF Calls, Items
    <3> QED BY <2>4, <3>1, FmcTransfers DEF Transfers
  <2> QED BY <2>1, <2>2, <2>3, <2>4 DEF Calls
<1> HIDE DEF Transfers
<1>2. DOMAIN Transfers(c) = 1..Len(Transfers(c)) /\ \A a \in 1..Len(Transfers(c)) : Transfers(c)[a] \in Transfer
  BY <1>1
<1>3. \A t \in Transfer : t.op \in Ops
  BY DEF Transfer
<1> QED BY <1>1, <1>2, <1>3

-----------------------------------------------------------------------------
(* The invariant                                                           *)

Quiet == wire = "quiet" /\ irq = "none"

Handled == irq # "none" => wire = "quiet"

\* The processor is at step k of the function op.
Where(op, k) == /\ call \in Calls /\ at \in DOMAIN Transfers(call)
                /\ Transfers(call)[at].op = op /\ step = k

Before == {"RepeatStart", "Start", "SetAddress", "MarkTransmit", "Receive", "WaitTransmit",
           "WaitTransmitIdle", "RestoreOptions"} \cup Sends

\* The step s, followed by n, comes before the data of a read, or after them.
Sending(s, n)   == \/ s \in {"WaitTransmit", "WaitTransmitIdle", "RestoreOptions", "CheckWriteTimeout"}
                   \/ s = "CheckTimeout" /\ n = "Receive"
Receiving(s, n) == s = "WaitReceive" \/ (s = "CheckTimeout" /\ n = "Stop")
Checks == {"RestoreOptions", "CheckTimeout", "CheckWriteTimeout"}

StepFlags(op, s, n) ==
  /\ s \notin Late => Quiet
  /\ op # "IicWriteData" /\ (s \in Before \/ (s = "CheckTimeout" /\ n = "Receive")) => ReceiveComplete
  /\ s \in Sends \/ (op = "IicWriteData" /\ s \in {"Start", "SetAddress"}) => TransmitComplete
  /\ s \in {"WaitTransmit", "WaitTransmitIdle"} => TransmitComplete \/ Quiet
  /\ s = "WaitReceive" => ReceiveComplete \/ Quiet
  /\ s \in Checks => IicTimeoutCounter > IIC_TIMEOUT \/ Quiet
  /\ Sending(s, n) => wire # "receiving" /\ irq # "received"
  /\ Receiving(s, n) => wire # "sending" /\ irq # "sent"
  /\ s = "CheckWriteTimeout" \/ (s = "CheckTimeout" /\ n = "Stop") => IicTimeoutCounter > IIC_TIMEOUT \/ ~busy
  /\ s = "Stop" => ~busy

FlagInv ==
  /\ \/ call = Idle
     \/ \E op \in Ops : \E k \in DOMAIN Steps(op) :
           Where(op, k) /\ StepFlags(op, Steps(op)[k], Steps(op)[k + 1])
  /\ call = Idle => Quiet
  /\ call = Idle /\ status = "XST_SUCCESS" => ~started /\ ~busy
  /\ Handled
  /\ IicTimeoutCounter \in Nat

LEMMA IdleIsNoCall == Idle \notin Calls
  BY DEF Idle, Calls

LEMMA InvInit == Init => FlagInv
  BY DEF Init, FlagInv, Quiet, Handled

\* Where the processor stands while a call runs.
LEMMA Standing ==
  ASSUME FlagInv, call # Idle
  PROVE  \E op \in Ops : \E k \in DOMAIN Steps(op) : \E s, n, m :
           /\ Where(op, k) /\ k \in Nat /\ s = Steps(op)[k] /\ n = Steps(op)[k + 1] /\ m = Steps(op)[k + 2]
           /\ Order(op, s, n, m) /\ StepFlags(op, s, n)
           /\ (s # "Stop" => k + 1 \in DOMAIN Steps(op)) /\ \A x : Now(x) => s = x
<1>1. PICK op \in Ops : \E k \in DOMAIN Steps(op) :
        Where(op, k) /\ StepFlags(op, Steps(op)[k], Steps(op)[k + 1])
  BY DEF FlagInv
<1>2. PICK k \in DOMAIN Steps(op) : Where(op, k) /\ StepFlags(op, Steps(op)[k], Steps(op)[k + 1])
  BY <1>1
<1>3. \A x : Now(x) => Steps(op)[k] = x
  BY <1>2 DEF Where, Now, Cur
<1> QED BY <1>2, <1>3, StepOrder

\* A function that goes on keeps the invariant if the flags fit the next step.
LEMMA Onwards ==
  ASSUME NEW op \in Ops, NEW k \in DOMAIN Steps(op), Where(op, k), k + 1 \in DOMAIN Steps(op), GoOn,
         StepFlags(op, Steps(op)[k + 1], Steps(op)[k + 2])',
         Handled', IicTimeoutCounter' \in Nat
  PROVE  FlagInv'
<1>1. Where(op, k + 1)'
  BY DEF Where, GoOn
<1>2. call' # Idle
  BY IdleIsNoCall DEF Where, GoOn
<1>3. k \in Nat /\ (k + 1) + 1 = k + 2
  BY StepOrder
<1>4. (Where(op, k + 1) /\ StepFlags(op, Steps(op)[k + 1], Steps(op)[(k + 1) + 1]))'
  BY <1>1, <1>3
<1> QED BY <1>2, <1>4 DEF FlagInv

\* A function that stays at its step, too.
LEMMA InPlace ==
  ASSUME NEW op \in Ops, NEW k \in DOMAIN Steps(op), Where(op, k), UNCHANGED where,
         StepFlags(op, Steps(op)[k], Steps(op)[k + 1])',
         Handled', IicTimeoutCounter' \in Nat
  PROVE  FlagInv'
<1>1. Where(op, k)'
  BY DEF Where, where
<1>2. call' # Idle
  BY IdleIsNoCall DEF Where, where
<1> QED BY <1>1, <1>2 DEF FlagInv

\* A transfer ends with nothing under way, the last one of a call that succeeds
\* also with the bus free and the device stopped.
LEMMA Returned ==
  ASSUME NEW op, NEW k, Where(op, k), NEW ok \in BOOLEAN, Return(ok), IicTimeoutCounter' = 0, Quiet',
         ok => ~started' /\ ~busy'
  PROVE  FlagInv'
<1>1. CASE call' = Idle
  <2>1. status' = "XST_SUCCESS" => ok
    BY <1>1, IdleIsNoCall DEF Return, Where
  <2> QED BY <1>1, <2>1 DEF FlagInv, Quiet, Handled
<1>2. CASE call' # Idle
  <2>1. call' = call /\ at' \in DOMAIN Transfers(call) /\ step' = 1 /\ call \in Calls
    BY <1>2 DEF Return, Where
  <2>2. Transfers(call)[at'].op \in Ops
    BY <2>1, TransfersOfCall
  <2>3. PICK new \in Ops : new = Transfers(call)[at'].op
    BY <2>2
  <2>4. Where(new, 1)'
    BY <2>1, <2>3 DEF Where
  <2>5. 1 \in DOMAIN Steps(new) /\ Steps(new)[1] \in {"MarkTransmit", "MarkReceive"}
        /\ (Steps(new)[1] = "MarkTransmit" => new = "IicWriteData")
    BY FirstStep
  <2>6. StepFlags(new, Steps(new)[1], Steps(new)[1 + 1])'
    BY <2>5 DEF StepFlags, Quiet, Before, Sends, Sending, Receiving, Checks, Late
  <2> QED BY <1>2, <2>4, <2>5, <2>6 DEF FlagInv, Quiet, Handled
<1> QED BY <1>1, <1>2

-----------------------------------------------------------------------------
(* The steps                                                               *)

LEMMA ProcessorKeeps == FlagInv /\ Processor => FlagInv'
<1> SUFFICES ASSUME FlagInv, Processor PROVE FlagInv'
  OBVIOUS
<1>0. call # Idle /\ Handled /\ IicTimeoutCounter \in Nat
  BY DEF FlagInv, Processor, MarkReceive, MarkTransmit, RepeatStart, RestoreOptions, Start, SetAddress,
         Send, Receive, Wait, CheckTimeout, Stop, Now
<1>a. PICK op \in Ops : \E k \in DOMAIN Steps(op) : \E s, n, m :
        /\ Where(op, k) /\ k \in Nat /\ s = Steps(op)[k] /\ n = Steps(op)[k + 1] /\ m = Steps(op)[k + 2]
        /\ Order(op, s, n, m) /\ StepFlags(op, s, n)
        /\ (s # "Stop" => k + 1 \in DOMAIN Steps(op)) /\ \A x : Now(x) => s = x
  BY <1>0, Standing
<1>b. PICK k \in DOMAIN Steps(op) : \E s, n, m :
        /\ Where(op, k) /\ k \in Nat /\ s = Steps(op)[k] /\ n = Steps(op)[k + 1] /\ m = Steps(op)[k + 2]
        /\ Order(op, s, n, m) /\ StepFlags(op, s, n)
        /\ (s # "Stop" => k + 1 \in DOMAIN Steps(op)) /\ \A x : Now(x) => s = x
  BY <1>a
<1>1. PICK s, n, m :
        /\ Where(op, k) /\ k \in Nat /\ s = Steps(op)[k] /\ n = Steps(op)[k + 1] /\ m = Steps(op)[k + 2]
        /\ Order(op, s, n, m) /\ StepFlags(op, s, n)
        /\ (s # "Stop" => k + 1 \in DOMAIN Steps(op)) /\ \A x : Now(x) => s = x
  BY <1>b
<1>2. ASSUME s # "Stop", GoOn, StepFlags(op, n, m)', Handled', IicTimeoutCounter' \in Nat
      PROVE  FlagInv'
  BY <1>1, <1>2, Onwards
<1>3. ASSUME UNCHANGED where, StepFlags(op, s, n)', Handled', IicTimeoutCounter' \in Nat
      PROVE  FlagInv'
  BY <1>1, <1>3, InPlace
<1>4. ASSUME Fail, Quiet' PROVE FlagInv'
  BY <1>1, <1>4, Returned DEF Fail
<1>5. CASE MarkReceive
  <2>1. s = "MarkReceive" /\ GoOn /\ UNCHANGED bus /\ UNCHANGED IicTimeoutCounter
    BY <1>5, <1>1 DEF MarkReceive
  <2>2. StepFlags(op, n, m)' /\ Handled'
    BY <1>5, <1>0, <1>1, <2>1 DEF MarkReceive, Order, bus, flags, Handled, StepFlags, Quiet, Before, Sends, Sending, Receiving, Checks, Late
  <2> QED BY <1>0, <1>2, <2>1, <2>2
<1>6. CASE MarkTransmit
  <2>1. s = "MarkTransmit" /\ GoOn /\ UNCHANGED bus /\ UNCHANGED IicTimeoutCounter
    BY <1>6, <1>1 DEF MarkTransmit
  <2>2. StepFlags(op, n, m)' /\ Handled'
    BY <1>6, <1>0, <1>1, <2>1 DEF MarkTransmit, Order, bus, flags, Handled, StepFlags, Quiet, Before, Sends, Sending, Receiving, Checks, Late
  <2> QED BY <1>0, <1>2, <2>1, <2>2
<1>7. CASE RepeatStart
  <2>1. s = "RepeatStart" /\ GoOn /\ UNCHANGED bus /\ UNCHANGED IicTimeoutCounter
    BY <1>7, <1>1 DEF RepeatStart
  <2>2. StepFlags(op, n, m)' /\ Handled'
    BY <1>7, <1>0, <1>1, <2>1 DEF RepeatStart, Order, bus, flags, Handled, StepFlags, Quiet, Before, Sends, Sending, Receiving, Checks, Late
  <2> QED BY <1>0, <1>2, <2>1, <2>2
<1>8. CASE RestoreOptions
  <2>1. s = "RestoreOptions" /\ GoOn /\ UNCHANGED bus /\ UNCHANGED IicTimeoutCounter
    BY <1>8, <1>1 DEF RestoreOptions
  <2>2. StepFlags(op, n, m)' /\ Handled'
    BY <1>8, <1>0, <1>1, <2>1 DEF RestoreOptions, Order, bus, flags, Handled, StepFlags, Quiet, Before, Sends, Sending, Receiving, Checks, Late
  <2> QED BY <1>0, <1>2, <2>1, <2>2
<1>9. CASE Start
  <2>1. s = "Start" /\ UNCHANGED bus /\ UNCHANGED flags /\ (Fail \/ (GoOn /\ UNCHANGED IicTimeoutCounter))
    BY <1>9, <1>1 DEF Start
  <2>2. CASE Fail
    <3>1. Quiet'
      BY <1>1, <2>1 DEF bus, StepFlags, Quiet, Before, Sends, Sending, Receiving, Checks, Late
    <3> QED BY <1>4, <2>2, <3>1
  <2>3. CASE GoOn /\ UNCHANGED IicTimeoutCounter
    <3>1. StepFlags(op, n, m)' /\ Handled'
      BY <1>0, <1>1, <2>1, <2>3 DEF Order, bus, flags, Handled, StepFlags, Quiet, Before, Sends, Sending, Receiving, Checks, Late
    <3> QED BY <1>0, <1>2, <2>1, <2>3, <3>1
  <2> QED BY <2>1, <2>2, <2>3
<1>10. CASE SetAddress
  <2>1. s = "SetAddress" /\ UNCHANGED bus /\ UNCHANGED flags /\ (Fail \/ (GoOn /\ UNCHANGED IicTimeoutCounter))
    BY <1>10, <1>1 DEF SetAddress
  <2>2. CASE Fail
    <3>1. Quiet'
      BY <1>1, <2>1 DEF bus, StepFlags, Quiet, Before, Sends, Sending, Receiving, Checks, Late
    <3> QED BY <1>4, <2>2, <3>1
  <2>3. CASE GoOn /\ UNCHANGED IicTimeoutCounter
    <3>1. StepFlags(op, n, m)' /\ Handled'
      BY <1>0, <1>1, <2>1, <2>3 DEF Order, bus, flags, Handled, StepFlags, Quiet, Before, Sends, Sending, Receiving, Checks, Late
    <3> QED BY <1>0, <1>2, <2>1, <2>3, <3>1
  <2> QED BY <2>1, <2>2, <2>3
<1>11. CASE Send
  <2>1. s \in Sends /\ UNCHANGED flags
    BY <1>11, <1>1 DEF Send, Sends
  <2>2. CASE Fail /\ UNCHANGED bus
    <3>1. Quiet'
      BY <1>1, <2>1, <2>2 DEF bus, StepFlags, Quiet, Before, Sends, Sending, Receiving, Checks, Late
    <3> QED BY <1>4, <2>2, <3>1
  <2>3. CASE wire' = "sending" /\ busy' = TRUE /\ GoOn /\ UNCHANGED << irq, IicTimeoutCounter >>
    <3>1. StepFlags(op, n, m)' /\ Handled'
      BY <1>0, <1>1, <2>1, <2>3 DEF Order, flags, Handled, StepFlags, Quiet, Before, Sends, Sending, Receiving, Checks, Late
    <3>2. s # "Stop"
      BY <2>1 DEF Sends
    <3> QED BY <1>0, <1>2, <2>3, <3>1, <3>2
  <2> QED BY <1>11, <2>2, <2>3 DEF Send
<1>12. CASE Receive
  <2>1. s = "Receive" /\ UNCHANGED flags
    BY <1>12, <1>1 DEF Receive
  <2>2. CASE Fail /\ UNCHANGED bus
    <3>1. Quiet'
      BY <1>1, <2>1, <2>2 DEF bus, StepFlags, Quiet, Before, Sends, Sending, Receiving, Checks, Late
    <3> QED BY <1>4, <2>2, <3>1
  <2>3. CASE wire' = "receiving" /\ busy' = TRUE /\ GoOn /\ IicTimeoutCounter' = 0 /\ UNCHANGED irq
    <3>1. StepFlags(op, n, m)' /\ Handled'
      BY <1>0, <1>1, <2>1, <2>3 DEF Order, flags, Handled, StepFlags, Quiet, Before, Sends, Sending, Receiving, Checks, Late
    <3> QED BY <1>0, <1>2, <2>1, <2>3, <3>1
  <2> QED BY <1>12, <2>2, <2>3 DEF Receive
<1>13. CASE Wait
  <2>1. s \in {"WaitTransmit", "WaitTransmitIdle", "WaitReceive"} /\ UNCHANGED flags /\ UNCHANGED bus
    BY <1>13, <1>1 DEF Wait
  <2>2. CASE Awaited /\ IicTimeoutCounter <= IIC_TIMEOUT
    <3>1. IicTimeoutCounter' = IicTimeoutCounter + 1 /\ UNCHANGED where
      BY <1>13, <2>2 DEF Wait
    <3>2. StepFlags(op, s, n)' /\ Handled'
      BY <1>0, <1>1, <2>1 DEF bus, flags, Handled, StepFlags, Quiet, Before, Sends, Sending, Receiving, Checks, Late
    <3> QED BY <1>0, <1>3, <3>1, <3>2
  <2>3. CASE ~(Awaited /\ IicTimeoutCounter <= IIC_TIMEOUT)
    <3>1. GoOn /\ UNCHANGED IicTimeoutCounter
      BY <1>13, <2>3 DEF Wait
    <3>2. \/ IicTimeoutCounter > IIC_TIMEOUT
          \/ /\ s \in {"WaitTransmit", "WaitTransmitIdle"} => ~TransmitComplete
             /\ s = "WaitReceive" => ~ReceiveComplete
             /\ s \in {"WaitTransmitIdle", "WaitReceive"} => ~busy
      <4>1. IicTimeoutCounter > IIC_TIMEOUT \/ ~Awaited
        BY <1>0, <2>3, IICAssumption
      <4>2. Now("WaitTransmit") \/ Now("WaitTransmitIdle") \/ Now("WaitReceive")
        BY <1>13 DEF Wait
      <4> QED BY <1>1, <4>1, <4>2 DEF Awaited
    <3>3. StepFlags(op, n, m)' /\ Handled'
      BY <1>0, <1>1, <2>1, <3>1, <3>2 DEF Order, bus, flags, Handled, StepFlags, Quiet, Before, Sends, Sending, Receiving, Checks, Late
    <3>4. s # "Stop"
      BY <2>1
    <3> QED BY <1>0, <1>2, <3>1, <3>3, <3>4
  <2> QED BY <2>2, <2>3
<1>14. CASE CheckTimeout
  <2>1. s \in {"CheckTimeout", "CheckWriteTimeout"}
    BY <1>14, <1>1 DEF CheckTimeout
  <2>2. CASE IicTimeoutCounter > IIC_TIMEOUT
    <3>1. Fail /\ Quiet'
      BY <1>14, <2>2 DEF CheckTimeout, TimedOut, Quiet
    <3> QED BY <1>4, <3>1
  <2>3. CASE ~(IicTimeoutCounter > IIC_TIMEOUT)
    <3>1. GoOn /\ UNCHANGED << flags, IicTimeoutCounter, driver, bus >>
      BY <1>14, <2>3 DEF CheckTimeout
    <3>2. StepFlags(op, n, m)' /\ Handled'
      BY <1>0, <1>1, <2>1, <2>3, <3>1 DEF Order, bus, flags, Handled, StepFlags, Quiet, Before, Sends, Sending, Receiving, Checks, Late
    <3>3. s # "Stop"
      BY <2>1
    <3> QED BY <1>0, <1>2, <3>1, <3>2, <3>3
  <2> QED BY <2>2, <2>3
<1>15. CASE Stop
  <2>1. s = "Stop" /\ UNCHANGED bus
    BY <1>15, <1>1 DEF Stop
  <2>2. Quiet' /\ ~busy'
    BY <1>1, <2>1 DEF bus, StepFlags, Quiet, Before, Sends, Sending, Receiving, Checks, Late
  <2>3. CASE Fail
    BY <1>4, <2>2, <2>3
  <2>4. CASE started' = FALSE /\ Return(TRUE) /\ IicTimeoutCounter' = 0
    BY <1>1, <2>2, <2>4, Returned
  <2> QED BY <1>15, <2>3, <2>4 DEF Stop
<1> QED BY <1>5, <1>6, <1>7, <1>8, <1>9, <1>10, <1>11, <1>12, <1>13, <1>14, <1>15 DEF Processor

\* Steps that the processor does not take, and that leave it where it stands.
LEMMA OthersKeep ==
  ASSUME FlagInv, UNCHANGED << where, started >>, IicTimeoutCounter' = IicTimeoutCounter, Handled',
         call = Idle => UNCHANGED << wire, irq, busy >>,
         \A op, s, n : StepFlags(op, s, n) => StepFlags(op, s, n)'
  PROVE  FlagInv'
<1>0. IicTimeoutCounter \in Nat
  BY DEF FlagInv
<1>1. CASE call = Idle
  BY <1>0, <1>1 DEF FlagInv, where, Quiet
<1>2. CASE call # Idle
  <2>1. PICK op \in Ops : \E k \in DOMAIN Steps(op) :
          Where(op, k) /\ StepFlags(op, Steps(op)[k], Steps(op)[k + 1])
    BY <1>2 DEF FlagInv
  <2>2. PICK k \in DOMAIN Steps(op) : Where(op, k) /\ StepFlags(op, Steps(op)[k], Steps(op)[k + 1])
    BY <2>1
  <2>3. StepFlags(op, Steps(op)[k], Steps(op)[k + 1])'
    BY <2>2
  <2> QED BY <1>0, <2>2, <2>3, InPlace
<1> QED BY <1>1, <1>2

LEMMA BusKeeps == FlagInv /\ (IicSendHandler \/ IicRecvHandler \/ WireSend \/ WireReceive \/ IicStatusHandler)
                  => FlagInv'
<1> SUFFICES ASSUME FlagInv,
                    IicSendHandler \/ IicRecvHandler \/ WireSend \/ WireReceive \/ IicStatusHandler
             PROVE  FlagInv'
  OBVIOUS
<1>1. Handled /\ (call = Idle => Quiet)
  BY DEF FlagInv
<1>2. CASE IicSendHandler
  <2>1. UNCHANGED << where, started >> /\ UNCHANGED IicTimeoutCounter /\ Handled'
    BY <1>1, <1>2 DEF IicSendHandler, driver, Handled
  <2>2. ASSUME NEW op, NEW s, NEW n, StepFlags(op, s, n) PROVE StepFlags(op, s, n)'
    BY <1>1, <1>2, <2>2 DEF IicSendHandler, driver, Handled, StepFlags, Quiet, Before, Sends, Sending, Receiving, Checks, Late
  <2>3. call # Idle
    BY <1>1, <1>2 DEF IicSendHandler, Quiet
  <2> QED BY <2>1, <2>2, <2>3, OthersKeep
<1>3. CASE IicRecvHandler
  <2>1. UNCHANGED << where, started >> /\ UNCHANGED IicTimeoutCounter /\ Handled'
    BY <1>1, <1>3 DEF IicRecvHandler, driver, Handled
  <2>2. ASSUME NEW op, NEW s, NEW n, StepFlags(op, s, n) PROVE StepFlags(op, s, n)'
    BY <1>1, <1>3, <2>2 DEF IicRecvHandler, driver, Handled, StepFlags, Quiet, Before, Sends, Sending, Receiving, Checks, Late
  <2>3. call # Idle
    BY <1>1, <1>3 DEF IicRecvHandler, Quiet
  <2> QED BY <2>1, <2>2, <2>3, OthersKeep
<1>4. CASE WireSend
  <2>1. /\ wire = "sending" /\ wire' = "quiet" /\ irq' = "sent" /\ UNCHANGED << where, started >>
        /\ UNCHANGED IicTimeoutCounter /\ UNCHANGED flags
    BY <1>4 DEF WireSend, Delivered, driver
  <2>2. ASSUME NEW op, NEW s, NEW n, StepFlags(op, s, n) PROVE StepFlags(op, s, n)'
    BY <2>1, <2>2 DEF flags, StepFlags, Quiet, Before, Sends, Sending, Receiving, Checks, Late
  <2>3. call # Idle /\ Handled'
    BY <1>1, <2>1 DEF Quiet, Handled
  <2> QED BY <2>1, <2>2, <2>3, OthersKeep
<1>5. CASE WireReceive
  <2>1. /\ wire = "receiving" /\ wire' = "quiet" /\ irq' = "received" /\ UNCHANGED << where, started >>
        /\ UNCHANGED IicTimeoutCounter /\ UNCHANGED flags
    BY <1>5 DEF WireReceive, driver
  <2>2. ASSUME NEW op, NEW s, NEW n, StepFlags(op, s, n) PROVE StepFlags(op, s, n)'
    BY <2>1, <2>2 DEF flags, StepFlags, Quiet, Before, Sends, Sending, Receiving, Checks, Late
  <2>3. call # Idle /\ Handled'
    BY <1>1, <2>1 DEF Quiet, Handled
  <2> QED BY <2>1, <2>2, <2>3, OthersKeep
<1>6. CASE IicStatusHandler
  <2>1. /\ wire # "quiet" /\ wire' = "quiet" /\ busy' = FALSE /\ irq' = irq /\ UNCHANGED << where, started >>
        /\ UNCHANGED IicTimeoutCounter /\ UNCHANGED flags
    BY <1>6 DEF IicStatusHandler, driver
  <2>2. ASSUME NEW op, NEW s, NEW n, StepFlags(op, s, n) PROVE StepFlags(op, s, n)'
    BY <2>1, <2>2 DEF flags, StepFlags, Quiet, Before, Sends, Sending, Receiving, Checks, Late
  <2>3. call # Idle /\ Handled'
    BY <1>1, <2>1 DEF Quiet, Handled
  <2> QED BY <2>1, <2>2, <2>3, OthersKeep
<1> QED BY <1>2, <1>3, <1>4, <1>5, <1>6

\* A step that touches neither the transfer functions nor the bus.
LEMMA ApartKeeps == FlagInv /\ UNCHANGED << where, flags, IicTimeoutCounter, driver, bus >> => FlagInv'
<1> SUFFICES ASSUME FlagInv, UNCHANGED << where, flags, IicTimeoutCounter, driver, bus >> PROVE FlagInv'
  OBVIOUS
<1>1. UNCHANGED << where, started >> /\ UNCHANGED IicTimeoutCounter /\ UNCHANGED << wire, irq, busy >> /\ Handled'
  BY DEF driver, bus, FlagInv, Handled
<1>2. ASSUME NEW op, NEW s, NEW n, StepFlags(op, s, n) PROVE StepFlags(op, s, n)'
  BY <1>2 DEF flags, driver, bus, StepFlags, Quiet, Before, Sends, Sending, Receiving, Checks, Late
<1> QED BY <1>1, <1>2, OthersKeep

LEMMA BeginKeeps == FlagInv /\ (\E c \in Calls : Begin(c)) => FlagInv'
<1> SUFFICES ASSUME FlagInv, NEW c \in Calls, Begin(c) PROVE FlagInv'
  OBVIOUS
<1>1. /\ call' = c /\ at' = 1 /\ step' = 1 /\ IicTimeoutCounter' = 0 /\ UNCHANGED bus /\ UNCHANGED driver
      /\ UNCHANGED flags /\ call = Idle
  BY DEF Begin
<1>2. Quiet'
  BY <1>1 DEF FlagInv, Quiet, bus
<1>3. 1 \in DOMAIN Transfers(c) /\ Transfers(c)[1].op \in Ops
  BY TransfersOfCall
<1>4. PICK new \in Ops : new = Transfers(c)[1].op
  BY <1>3
<1>5. Where(new, 1)'
  BY <1>1, <1>3, <1>4 DEF Where
<1>6. 1 \in DOMAIN Steps(new) /\ Steps(new)[1] \in {"MarkTransmit", "MarkReceive"}
      /\ (Steps(new)[1] = "MarkTransmit" => new = "IicWriteData")
  BY FirstStep
<1>7. StepFlags(new, Steps(new)[1], Steps(new)[1 + 1])'
  BY <1>2, <1>6 DEF StepFlags, Quiet, Before, Sends, Sending, Receiving, Checks, Late
<1>8. call' # Idle
  BY <1>1, IdleIsNoCall
<1> QED BY <1>1, <1>2, <1>5, <1>6, <1>7, <1>8 DEF FlagInv, Quiet, Handled

LEMMA InvNext == FlagInv /\ [Next]_vars => FlagInv'
<1> SUFFICES ASSUME FlagInv, [Next]_vars PROVE FlagInv'
  OBVIOUS
<1>1. CASE IicInit \/ IicInitPost \/ UNCHANGED vars
  <2>1. UNCHANGED << where, flags, IicTimeoutCounter, driver, bus >>
    BY <1>1 DEF IicInit, IicInitPost, vars
  <2> QED BY <2>1, ApartKeeps
<1>2. CASE \E c \in Calls : Begin(c)
  BY <1>2, BeginKeeps
<1>3. CASE Processor
  BY <1>3, ProcessorKeeps
<1>4. CASE IicSendHandler \/ IicRecvHandler \/ WireSend \/ WireReceive \/ IicStatusHandler
  BY <1>4, BusKeeps
<1> QED BY <1>1, <1>2, <1>3, <1>4 DEF Next

\* What the invariant says of the two properties.
LEMMA InvImplies == FlagInv => NoStaleCompletion /\ SuccessLeavesBusFree
<1> SUFFICES ASSUME FlagInv PROVE NoStaleCompletion /\ SuccessLeavesBusFree
  OBVIOUS
<1>1. SuccessLeavesBusFree
  BY DEF FlagInv, SuccessLeavesBusFree, Quiet
<1>2. ASSUME \A s \in Late : ~Now(s) PROVE Quiet
  <2>1. CASE call = Idle
    BY <2>1 DEF FlagInv
  <2>2. CASE call # Idle
    <3>1. PICK op \in Ops : \E k \in DOMAIN Steps(op) :
            Where(op, k) /\ StepFlags(op, Steps(op)[k], Steps(op)[k + 1])
      BY <2>2 DEF FlagInv
    <3>2. PICK k \in DOMAIN Steps(op) : Where(op, k) /\ StepFlags(op, Steps(op)[k], Steps(op)[k + 1])
      BY <3>1
    <3>3. Now(Steps(op)[k])
      BY <2>2, <3>2 DEF Now, Cur, Where
    <3>4. Steps(op)[k] \notin Late => Quiet
      BY <3>2 DEF StepFlags
    <3> QED BY <1>2, <3>3, <3>4
  <2> QED BY <2>1, <2>2
<1>3. NoStaleCompletion
  BY <1>2 DEF NoStaleCompletion, Late, Quiet
<1> QED BY <1>1, <1>3

\* The flags are those of the transfer under way, at every step of every call.
LEMMA FlagsFitTheStep == Spec => []FlagInv
  BY InvInit, InvNext, PTL DEF Spec

\* No completion is taken for that of a later transfer: whenever one of the
\* functions of iic_config.c raises its flags and starts, nothing of the last one is
\* under way, for every IIC_TIMEOUT, set of cages and number of rails.
THEOREM CompletionsAreOwn == Spec => []NoStaleCompletion
  BY FlagsFitTheStep, InvImplies, PTL

\* A call that returns XST_SUCCESS has stopped the device and released the bus.
THEOREM BusIsFreed == Spec => []SuccessLeavesBusFree
  BY FlagsFitTheStep, InvImplies, PTL

-----------------------------------------------------------------------------
(* What the three procedures do to the board: the clock chip is calibrated *)
(* only when it is configured, and what is read is what was asked for,     *)
(* though chips share addresses behind the switch and rails share chips,   *)
(* whatever fails, times out or is delivered late.                         *)
(*                                                                         *)
(* A transfer function that goes on after its wait knows that the chip has *)
(* taken its bytes (Took), and one that reads, that ReadBuffer is the      *)
(* chip's answer (Gave): that is StepData, and rests on FlagInv.  The      *)
(* procedure then knows what its earlier transfers have set: CallData.     *)

BusOf(c) == CASE c[1] = "config_SI5324" -> IIC_BUS_DDR3
              [] c[1] = "pmReadInfo"    -> IIC_BUS_PCON
              [] c[1] = "sfpReadInfo"   -> IIC_BUS_SFP[IF c[2] \in 1..4 THEN c[2] ELSE 1]
              [] c[1] = "IicReadData3"  -> IIC_BUS_FMC

\* The transfer a of pmReadInfo: its rail, and its place among the rail's five.
RailOf(a)  == ((a - 2) \div 5) + 1
PlaceOf(a) == (a - 2) % 5

\* Write w of config_SI5324 has been done, and none of its registers changed.
SetRegs(w) == \A b \in 2..Len(ClockWrites[w]) :
                LET r == ClockWrites[w][1] + b - 2
                IN  r \in DOMAIN regs /\ regs[r] = ClockWrites[w][b]

PageShown(i) == page[pm_info[i].i2cAddress] = pm_info[i].pageIndex

\* The chip has taken the bytes of the transfer under way.
Took == IF Cur.addr = IIC_SWITCH_ADDRESS THEN switch = Bytes[1]
        ELSE /\ Chip \in Chips
             /\ pointer[Chip] = IF Chip[1] = IIC_BUS_FMC THEN Bytes[1] * 256 + Bytes[2] ELSE Bytes[1]
             /\ Cur.addr \in PmAddresses /\ Bytes[1] = PM_CMD_LOAD_PAGE /\ Len(Bytes) = 2
                  => page[Cur.addr] = Bytes[2]
             /\ Cur.addr = IIC_SI5324_ADDRESS =>
                  \A b \in 2..Len(Bytes) : LET r == Bytes[1] + b - 2
                                           IN  r \in DOMAIN regs /\ regs[r] = Bytes[b]

\* ReadBuffer holds the answer of the transfer under way.
Gave == buffer = << Chip, IF Cur.addr \in PmAddresses THEN page[Cur.addr] ELSE 0, pointer[Chip] >>

\* What holds at step s of the function op, where n is next.
StepData(op, s, n) ==
  /\ s \in {"WaitTransmit", "WaitTransmitIdle"} /\ (~TransmitComplete \/ irq = "sent") => Took
  /\ s \in {"RestoreOptions", "CheckWriteTimeout"} \/ (s = "CheckTimeout" /\ n = "Receive")
       => IicTimeoutCounter > IIC_TIMEOUT \/ Took
  /\ s \in {"Receive", "WaitReceive", "Stop"} \/ (s = "CheckTimeout" /\ n = "Stop") => Took
  /\ s = "WaitReceive" /\ (~ReceiveComplete \/ irq = "received") => Gave
  /\ s = "CheckTimeout" /\ n = "Stop" => IicTimeoutCounter > IIC_TIMEOUT \/ Gave
  /\ s = "Stop" /\ op # "IicWriteData" => Gave

\* What the procedure that runs has brought about by its transfer number a.
Reached(c, a) ==
  /\ a > 1 => switch = BusOf(c)
  /\ c[1] = "pmReadInfo" /\ a > 1 /\ PlaceOf(a) > 0 => PageShown(RailOf(a))
  /\ c[1] = "config_SI5324" => \A w \in DOMAIN ClockWrites : a > w + 1 => SetRegs(w)

CallData == call # Idle => boot = "up" /\ Reached(call, at)

BoardInv == /\ DOMAIN pointer = Chips /\ DOMAIN page = PmAddresses /\ DOMAIN got = Items
            /\ CalibratedWhenConfigured /\ RailsAreTheirOwn /\ ReadsAreTheirOwn

DataInv == /\ BoardInv /\ CallData
           /\ \A op \in Ops : \A k \in DOMAIN Steps(op) :
                Where(op, k) => StepData(op, Steps(op)[k], Steps(op)[k + 1])

-----------------------------------------------------------------------------
(* The transfers of the procedures                                         *)

\* What is known of transfer a, t, of the call c.
Shape(c, a, t) ==
  /\ a = 1 => t = Write(IIC_SWITCH_ADDRESS, << BusOf(c) >>)
  /\ a > 1 => t.addr # IIC_SWITCH_ADDRESS
  /\ c[1] = "pmReadInfo" /\ a > 1 => /\ RailOf(a) \in 1..NumRails /\ PlaceOf(a) \in 0..4
                                     /\ t = ReadRail(RailOf(a))[PlaceOf(a) + 1]
  /\ c[1] = "config_SI5324" /\ a > 1 =>
       /\ t.addr = IIC_SI5324_ADDRESS /\ t.op # "IicReadData3" /\ t.into = << >>
       /\ IF a <= 8 THEN t.bytes = ClockWrites[a - 1] /\ t.op = "IicWriteData"
                    ELSE t.bytes = << 136, \h40 >> \/ \E r \in 1..4 : t.bytes = << << 25, 31, 40, 43 >>[r] >>
  /\ c[1] = "sfpReadInfo" /\ a > 1 =>
       \/ t = Read("IicReadData", IIC_SFP_ADDRESS, 20, << "Vendor", c[2] >>)
       \/ t = Read("IicReadData", IIC_SFP_ADDRESS, 40, << "Part", c[2] >>)
  /\ c[1] = "IicReadData3" /\ a > 1 => t = Read("IicReadData3", IIC_FMC_EEPROM, c[2], << "Word", c[2] >>)
  /\ t.onfail # 0 => c[1] = "config_SI5324" /\ a > 8 /\ t.onfail > 8

\* The element n of two sequences put together.
LEMMA ElementOf ==
  ASSUME NEW s \in Seq(Transfer), NEW t \in Seq(Transfer)
  PROVE  /\ s \o t \in Seq(Transfer) /\ Len(s \o t) = Len(s) + Len(t)
         /\ Len(s) \in Nat /\ Len(t) \in Nat /\ DOMAIN (s \o t) = 1..(Len(s) + Len(t))
         /\ \A n \in 1..(Len(s) + Len(t)) : (s \o t)[n] = IF n <= Len(s) THEN s[n] ELSE t[n - Len(s)]
<1> HIDE DEF Transfer
<1>1. /\ s \o t \in Seq(Transfer) /\ Len(s \o t) = Len(s) + Len(t)
      /\ \A n \in 1..(Len(s) + Len(t)) : (s \o t)[n] = IF n <= Len(s) THEN s[n] ELSE t[n - Len(s)]
  BY ConcatProperties
<1>2. DOMAIN (s \o t) = 1..Len(s \o t) /\ Len(s) \in Nat /\ Len(t) \in Nat
  BY <1>1
<1> QED BY <1>1, <1>2

LEMMA CallNames ==
  ASSUME NEW c \in Calls
  PROVE  /\ c[1] \in {"config_SI5324", "pmReadInfo", "IicReadData3", "sfpReadInfo"}
         /\ c[1] = "sfpReadInfo" => c[2] \in 0..4
         /\ c[1] = "IicReadData3" => c[2] = \h0102
  BY DEF Calls

LEMMA BusChoice ==
  ASSUME NEW c \in Calls
  PROVE  /\ c[1] = "config_SI5324" => BusOf(c) = IIC_BUS_DDR3
         /\ c[1] = "pmReadInfo" => BusOf(c) = IIC_BUS_PCON
         /\ c[1] = "sfpReadInfo" => BusOf(c) = IIC_BUS_SFP[IF c[2] \in 1..4 THEN c[2] ELSE 1]
         /\ c[1] = "IicReadData3" => BusOf(c) = IIC_BUS_FMC
  BY DEF BusOf

LEMMA NoSwitchAddress ==
  /\ IIC_SI5324_ADDRESS # IIC_SWITCH_ADDRESS /\ IIC_SFP_ADDRESS # IIC_SWITCH_ADDRESS
  /\ IIC_FMC_EEPROM # IIC_SWITCH_ADDRESS /\ \A i \in 1..8 : pm_info[i].i2cAddress # IIC_SWITCH_ADDRESS
  BY DEF IIC_SI5324_ADDRESS, IIC_SFP_ADDRESS, IIC_FMC_EEPROM, IIC_SWITCH_ADDRESS, pm_info

LEMMA SfpShape ==
  ASSUME NEW c \in Calls, c[1] = "sfpReadInfo", NEW a \in DOMAIN Transfers(c)
  PROVE  a \in Nat \ {0} /\ Shape(c, a, Transfers(c)[a])
<1>1. Transfers(c) = << Write(IIC_SWITCH_ADDRESS, << BusOf(c) >>),
                        Read("IicReadData", IIC_SFP_ADDRESS, 20, << "Vendor", c[2] >>),
                        Read("IicReadData", IIC_SFP_ADDRESS, 40, << "Part", c[2] >>) >>
  BY BusChoice DEF Transfers, sfpReadInfo
<1>2. a \in 1..3
  BY <1>1
<1>3. a = 1 => Transfers(c)[a] = Write(IIC_SWITCH_ADDRESS, << BusOf(c) >>)
  BY <1>1
<1>4. a > 1 => \/ Transfers(c)[a] = Read("IicReadData", IIC_SFP_ADDRESS, 20, << "Vendor", c[2] >>)
               \/ Transfers(c)[a] = Read("IicReadData", IIC_SFP_ADDRESS, 40, << "Part", c[2] >>)
  BY <1>1, <1>2
<1>5. Transfers(c)[a].onfail = 0 /\ (a > 1 => Transfers(c)[a].addr = IIC_SFP_ADDRESS)
  BY <1>2, <1>3, <1>4 DEF Read, Write
<1>6. /\ c[1] # "pmReadInfo" /\ c[1] # "config_SI5324" /\ c[1] # "IicReadData3"
      /\ a > 1 => Transfers(c)[a].addr # IIC_SWITCH_ADDRESS
  BY <1>5, NoSwitchAddress
<1>7. a \in Nat \ {0}
  BY <1>2
<1>8. Shape(c, a, Transfers(c)[a])
  BY <1>3, <1>4, <1>5, <1>6, Zenon DEF Shape
<1> QED BY <1>7, <1>8

LEMMA FmcShape ==
  ASSUME NEW c \in Calls, c[1] = "IicReadData3", NEW a \in DOMAIN Transfers(c)
  PROVE  a \in Nat \ {0} /\ Shape(c, a, Transfers(c)[a])
<1>1. Transfers(c) = << Write(IIC_SWITCH_ADDRESS, << BusOf(c) >>),
                        Read("IicReadData3", IIC_FMC_EEPROM, c[2], << "Word", c[2] >>) >>
  BY BusChoice DEF Transfers, readFMC
<1>2. a \in 1..2
  BY <1>1
<1>3. a = 1 => Transfers(c)[a] = Write(IIC_SWITCH_ADDRESS, << BusOf(c) >>)
  BY <1>1
<1>4. a > 1 => Transfers(c)[a] = Read("IicReadData3", IIC_FMC_EEPROM, c[2], << "Word", c[2] >>)
  BY <1>1, <1>2
<1>5. Transfers(c)[a].onfail = 0 /\ (a > 1 => Transfers(c)[a].addr = IIC_FMC_EEPROM)
  BY <1>2, <1>3, <1>4 DEF Read, Write
<1>6. /\ c[1] # "pmReadInfo" /\ c[1] # "config_SI5324" /\ c[1] # "sfpReadInfo"
      /\ a > 1 => Transfers(c)[a].addr # IIC_SWITCH_ADDRESS
  BY <1>5, NoSwitchAddress
<1>7. a \in Nat \ {0}
  BY <1>2
<1>8. Shape(c, a, Transfers(c)[a])
  BY <1>3, <1>4, <1>5, <1>6, Zenon DEF Shape
<1> QED BY <1>7, <1>8

LEMMA PmShape ==
  ASSUME NEW c \in Calls, c[1] = "pmReadInfo", NEW a \in DOMAIN Transfers(c)
  PROVE  a \in Nat \ {0} /\ Shape(c, a, Transfers(c)[a])
<1> DEFINE first == << Write(IIC_SWITCH_ADDRESS, << IIC_BUS_PCON >>) >>
           rails == [n \in 1..(5 * NumRails) |-> ReadRail(((n - 1) \div 5) + 1)[((n - 1) % 5) + 1]]
<1>1. first \in Seq(Transfer) /\ Len(first) = 1
  <2>1. << IIC_BUS_PCON >> \in Seq(Nat) /\ IIC_SWITCH_ADDRESS \in Nat
    BY Addresses, ShortSeqs
  <2> QED BY <2>1, ShortSeqs, WriteIsTransfer
<1>2. 5 * NumRails \in Nat /\ NumRails \in 1..8
  BY IICAssumption
<1>3. ASSUME NEW n \in 1..(5 * NumRails)
      PROVE  /\ ((n - 1) \div 5) + 1 \in 1..NumRails /\ ((n - 1) % 5) + 1 \in 1..5
             /\ ReadRail(((n - 1) \div 5) + 1)[((n - 1) % 5) + 1] \in Transfer
  <2>1. ((n - 1) \div 5) + 1 \in 1..NumRails /\ ((n - 1) % 5) + 1 \in 1..5
    BY <1>2
  <2> QED BY <2>1, RailTransfers
<1>4. rails \in Seq(Transfer) /\ Len(rails) = 5 * NumRails
  BY <1>2, <1>3
<1>5. \A n \in 1..(5 * NumRails) : rails[n] = ReadRail(((n - 1) \div 5) + 1)[((n - 1) % 5) + 1]
  OBVIOUS
<1>6. first[1] = Write(IIC_SWITCH_ADDRESS, << IIC_BUS_PCON >>)
  OBVIOUS
<1>7. Transfers(c) = first \o rails
  BY DEF Transfers, pmReadInfo
<1> HIDE DEF first, rails
<1>8. a \in 1..(1 + 5 * NumRails) /\ Transfers(c)[a] = IF a <= 1 THEN first[a] ELSE rails[a - 1]
  <2>1. /\ DOMAIN (first \o rails) = 1..(1 + 5 * NumRails)
        /\ \A n \in 1..(1 + 5 * NumRails) : (first \o rails)[n] = IF n <= 1 THEN first[n] ELSE rails[n - 1]
    <3>1. /\ DOMAIN (first \o rails) = 1..(Len(first) + Len(rails))
          /\ \A n \in 1..(Len(first) + Len(rails)) :
               (first \o rails)[n] = IF n <= Len(first) THEN first[n] ELSE rails[n - Len(first)]
      BY <1>1, <1>4, ElementOf, Zenon
    <3> QED BY <1>1, <1>4, <3>1, Zenon
  <2>2. a \in DOMAIN (first \o rails)
    BY <1>7
  <2>3. a \in 1..(1 + 5 * NumRails)
    BY <2>1, <2>2, Zenon
  <2>4. (first \o rails)[a] = IF a <= 1 THEN first[a] ELSE rails[a - 1]
    BY <2>1, <2>3, Zenon
  <2> QED BY <1>7, <2>3, <2>4
<1>9. CASE a = 1
  BY <1>6, <1>8, <1>9, BusChoice DEF Shape, Write
<1>10. CASE a > 1
  <2>1. a - 1 \in 1..(5 * NumRails) /\ (a - 1) - 1 = a - 2
    BY <1>2, <1>8, <1>10
  <2>2. /\ RailOf(a) \in 1..NumRails /\ PlaceOf(a) \in 0..4
        /\ Transfers(c)[a] = ReadRail(RailOf(a))[PlaceOf(a) + 1]
    BY <1>3, <1>5, <1>8, <1>10, <2>1 DEF RailOf, PlaceOf
  <2>3. RailOf(a) \in 1..8
    BY <1>2, <2>2
  <2>4. /\ ReadRail(RailOf(a))[PlaceOf(a) + 1].addr # IIC_SWITCH_ADDRESS
        /\ ReadRail(RailOf(a))[PlaceOf(a) + 1].onfail = 0
    BY <2>2, <2>3, NoSwitchAddress DEF ReadRail, Read, Write
  <2> QED BY <1>8, <1>10, <2>2, <2>4 DEF Shape
<1> QED BY <1>8, <1>9, <1>10

LEMMA ClockShape ==
  ASSUME NEW c \in Calls, c[1] = "config_SI5324", NEW a \in DOMAIN Transfers(c)
  PROVE  a \in Nat \ {0} /\ Shape(c, a, Transfers(c)[a])
<1> DEFINE first  == << Write(IIC_SWITCH_ADDRESS, << IIC_BUS_DDR3 >>) >>
           writes == [w \in DOMAIN ClockWrites |-> Write(IIC_SI5324_ADDRESS, ClockWrites[w])]
           before == first \o writes
           ical   == Len(before) + Len(read5324) + 1
           debug  == [r \in DOMAIN read5324 |-> [read5324[r] EXCEPT !.onfail = ical]]
           reads  == IF SI5324_DEBUG THEN debug ELSE << >>
           last   == << Write(IIC_SI5324_ADDRESS, << 136, \h40 >>) >>
<1>1. first \in Seq(Transfer) /\ Len(first) = 1 /\ last \in Seq(Transfer) /\ Len(last) = 1
  <2>1. /\ << IIC_BUS_DDR3 >> \in Seq(Nat) /\ IIC_SWITCH_ADDRESS \in Nat
        /\ << 136, \h40 >> \in Seq(Nat) /\ IIC_SI5324_ADDRESS \in Nat
    BY Addresses, ShortSeqs
  <2> QED BY <2>1, ShortSeqs, WriteIsTransfer
<1>2. DOMAIN ClockWrites = 1..7 /\ \A w \in 1..7 : ClockWrites[w] \in Seq(Nat)
  BY DEF ClockWrites
<1>3. writes \in Seq(Transfer) /\ Len(writes) = 7
  <2>1. \A w \in 1..7 : Write(IIC_SI5324_ADDRESS, ClockWrites[w]) \in Transfer
    BY <1>2, Addresses, WriteIsTransfer
  <2> QED BY <1>2, <2>1
<1>4. DOMAIN read5324 = 1..4 /\ Len(read5324) = 4 /\ \A r \in 1..4 : read5324[r] \in Transfer
  <2>1. \A r \in 1..4 : << 25, 31, 40, 43 >>[r] \in Nat
    OBVIOUS
  <2>2. \A r \in 1..4 : Read("IicReadData2", IIC_SI5324_ADDRESS, << 25, 31, 40, 43 >>[r], << >>) \in Transfer
    BY <2>1, Addresses, ReadIsTransfer DEF Ops
  <2> QED BY <2>2 DEF read5324
<1>5. /\ first[1] = Write(IIC_SWITCH_ADDRESS, << IIC_BUS_DDR3 >>)
      /\ last[1] = Write(IIC_SI5324_ADDRESS, << 136, \h40 >>)
      /\ \A w \in 1..7 : writes[w] = Write(IIC_SI5324_ADDRESS, ClockWrites[w])
  BY <1>2
<1>6. Transfers(c) = (before \o reads) \o last
  BY DEF Transfers, config_SI5324
<1> HIDE DEF first, writes, last
<1>7. /\ before \in Seq(Transfer) /\ Len(before) = 8
      /\ \A n \in 1..8 : before[n] = IF n <= 1 THEN first[n] ELSE writes[n - 1]
  <2>1. /\ before \in Seq(Transfer) /\ Len(before) = Len(first) + Len(writes)
        /\ \A n \in 1..(Len(first) + Len(writes)) :
             before[n] = IF n <= Len(first) THEN first[n] ELSE writes[n - Len(first)]
    BY <1>1, <1>3, ElementOf, Zenon
  <2>2. Len(first) + Len(writes) = 8
    BY <1>1, <1>3
  <2> QED BY <1>1, <2>1, <2>2, Zenon
<1> HIDE DEF before
<1>8. ical = 13
  BY <1>4, <1>7
<1> HIDE DEF ical
<1>9. /\ reads \in Seq(Transfer)
      /\ \A r \in 1..Len(reads) : \E q \in 1..4 :
           /\ reads[r].addr = IIC_SI5324_ADDRESS /\ reads[r].op = "IicReadData2" /\ reads[r].into = << >>
           /\ reads[r].bytes = << << 25, 31, 40, 43 >>[q] >> /\ reads[r].onfail = 13
  <2>1. \A r \in 1..4 : [read5324[r] EXCEPT !.onfail = ical] \in Transfer
    BY <1>4, <1>8 DEF Transfer
  <2>2. debug \in Seq(Transfer) /\ Len(debug) = 4
    BY <1>4, <2>1
  <2>3. ASSUME NEW r \in 1..4
        PROVE  /\ debug[r].addr = IIC_SI5324_ADDRESS /\ debug[r].op = "IicReadData2" /\ debug[r].into = << >>
               /\ debug[r].bytes = << << 25, 31, 40, 43 >>[r] >> /\ debug[r].onfail = 13
    BY <1>4, <1>8 DEF read5324, Read
  <2> HIDE DEF debug
  <2>4. reads = debug \/ (reads = << >> /\ Len(reads) = 0)
    OBVIOUS
  <2> HIDE DEF reads
  <2>5. CASE reads = debug
    BY <2>2, <2>3, <2>5
  <2>6. CASE reads = << >> /\ Len(reads) = 0
    BY <2>6
  <2> QED BY <2>4, <2>5, <2>6
<1> HIDE DEF reads
<1>10. Len(reads) \in Nat
  BY <1>9, ElementOf
<1>11. /\ before \o reads \in Seq(Transfer) /\ Len(before \o reads) = 8 + Len(reads)
       /\ \A n \in 1..(8 + Len(reads)) : (before \o reads)[n] = IF n <= 8 THEN before[n] ELSE reads[n - 8]
  <2>1. /\ before \o reads \in Seq(Transfer) /\ Len(before \o reads) = Len(before) + Len(reads)
        /\ \A n \in 1..(Len(before) + Len(reads)) :
             (before \o reads)[n] = IF n <= Len(before) THEN before[n] ELSE reads[n - Len(before)]
    BY <1>7, <1>9, ElementOf, Zenon
  <2> QED BY <1>7, <2>1, Zenon
<1> DEFINE most == before \o reads
<1> HIDE DEF most
<1>12. /\ DOMAIN (most \o last) = 1..(Len(most) + 1)
       /\ \A n \in 1..(Len(most) + 1) : (most \o last)[n] = IF n <= Len(most) THEN most[n] ELSE last[n - Len(most)]
  <2>1. most \in Seq(Transfer)
    BY <1>11 DEF most
  <2>2. /\ DOMAIN (most \o last) = 1..(Len(most) + Len(last))
        /\ \A n \in 1..(Len(most) + Len(last)) :
             (most \o last)[n] = IF n <= Len(most) THEN most[n] ELSE last[n - Len(most)]
    BY <1>1, <2>1, ElementOf, Zenon
  <2> QED BY <1>1, <2>2, Zenon
<1>13. Len(most) = 8 + Len(reads) /\ Transfers(c) = most \o last
  BY <1>6, <1>11 DEF most
<1>14. a \in 1..(9 + Len(reads))
  <2>1. a \in DOMAIN (most \o last)
    BY <1>13
  <2> QED BY <1>10, <1>12, <1>13, <2>1
<1>15. Transfers(c)[a] = IF a <= 8 + Len(reads) THEN most[a] ELSE last[1]
  <2>1. a \in 1..(Len(most) + 1)
    BY <1>10, <1>13, <1>14
  <2>2. (most \o last)[a] = IF a <= Len(most) THEN most[a] ELSE last[a - Len(most)]
    BY <1>12, <2>1, Zenon
  <2>3. a > Len(most) => a - Len(most) = 1
    BY <1>10, <1>13, <2>1
  <2> QED BY <1>10, <1>13, <2>1, <2>2, <2>3
<1>16. a <= 8 + Len(reads) => most[a] = IF a <= 8 THEN before[a] ELSE reads[a - 8]
  <2>1. a <= 8 + Len(reads) => a \in 1..(8 + Len(reads))
    BY <1>10, <1>14
  <2> QED BY <1>11, <2>1 DEF most
<1>17. CASE a = 1
  BY <1>5, <1>7, <1>10, <1>15, <1>16, <1>17, BusChoice DEF Shape, Write
<1>18. CASE a > 1 /\ a <= 8
  <2>1. Transfers(c)[a] = Write(IIC_SI5324_ADDRESS, ClockWrites[a - 1])
    <3>1. a \in 1..8 /\ ~(a <= 1) /\ a - 1 \in 1..7 /\ a <= 8 + Len(reads)
      BY <1>10, <1>14, <1>18
    <3>2. before[a] = writes[a - 1] /\ writes[a - 1] = Write(IIC_SI5324_ADDRESS, ClockWrites[a - 1])
      BY <1>5, <1>7, <3>1
    <3> QED BY <1>15, <1>16, <1>18, <3>1, <3>2
  <2> QED BY <1>14, <1>18, <2>1, NoSwitchAddress DEF Shape, Write
<1>19. CASE a > 8 /\ a <= 8 + Len(reads)
  <2>1. Transfers(c)[a] = reads[a - 8] /\ a - 8 \in 1..Len(reads)
    BY <1>10, <1>14, <1>15, <1>16, <1>19
  <2>2. PICK t : t = Transfers(c)[a]
    OBVIOUS
  <2>3. \E q \in 1..4 : /\ t.addr = IIC_SI5324_ADDRESS /\ t.op = "IicReadData2" /\ t.into = << >>
                        /\ t.bytes = << << 25, 31, 40, 43 >>[q] >> /\ t.onfail = 13
    BY <1>9, <2>1, <2>2
  <2>4. a \in Nat \ {0} /\ a # 1 /\ ~(a <= 8) /\ a > 8
    BY <1>10, <1>14, <1>19
  <2>5. /\ c[1] # "pmReadInfo" /\ c[1] # "sfpReadInfo" /\ c[1] # "IicReadData3"
        /\ t.op # "IicReadData3" /\ t.onfail > 8 /\ t.addr # IIC_SWITCH_ADDRESS
    BY <2>3, NoSwitchAddress
  <2>6. Shape(c, a, t)
    BY <2>3, <2>4, <2>5, Zenon DEF Shape
  <2> QED BY <2>2, <2>4, <2>6
<1>20. CASE a > 8 + Len(reads)
  <2>1. Transfers(c)[a] = Write(IIC_SI5324_ADDRESS, << 136, \h40 >>) /\ a > 8
    BY <1>5, <1>10, <1>14, <1>15, <1>20
  <2> QED BY <1>14, <2>1, NoSwitchAddress DEF Shape, Write
<1> QED BY <1>10, <1>14, <1>17, <1>18, <1>19, <1>20

LEMMA TransferShape ==
  ASSUME NEW c \in Calls, NEW a \in DOMAIN Transfers(c)
  PROVE  a \in Nat \ {0} /\ Shape(c, a, Transfers(c)[a])
  BY CallNames, SfpShape, FmcShape, PmShape, ClockShape

-----------------------------------------------------------------------------
(* The registers of the clock chip                                         *)

\* Write w is of l bytes, the number f of the first register before its values.
ClockTable(w, f, l) == \/ w = 1 /\ f = 0  /\ l = 6
                       \/ w = 2 /\ f = 10 /\ l = 3
                       \/ w = 3 /\ f = 25 /\ l = 2
                       \/ w = 4 /\ f = 31 /\ l = 4
                       \/ w = 5 /\ f = 40 /\ l = 4
                       \/ w = 6 /\ f = 43 /\ l = 4
                       \/ w = 7 /\ f = 46 /\ l = 4

LEMMA ClockRanges == \A w \in 1..7 : ClockTable(w, ClockWrites[w][1], Len(ClockWrites[w]))
<1> TAKE w \in 1..7
<1>1. CASE w = 1
  <2>1. ClockWrites[w] = << 0, \h54, \hE4, \h12, \h15, \h92 >>
    BY <1>1 DEF ClockWrites
  <2> QED BY <1>1, <2>1 DEF ClockTable
<1>2. CASE w = 2
  <2>1. ClockWrites[w] = << 10, \h08, \h40 >>
    BY <1>2 DEF ClockWrites
  <2> QED BY <1>2, <2>1 DEF ClockTable
<1>3. CASE w = 3
  <2>1. ClockWrites[w] = << 25, \hA0 >>
    BY <1>3 DEF ClockWrites
  <2> QED BY <1>3, <2>1 DEF ClockTable
<1>4. CASE w = 4
  <2>1. ClockWrites[w] = << 31, 0, 0, 3 >>
    BY <1>4 DEF ClockWrites
  <2> QED BY <1>4, <2>1 DEF ClockTable
<1>5. CASE w = 5
  <2>1. ClockWrites[w] = << 40, \hC2, \h49, \hEF >>
    BY <1>5 DEF ClockWrites
  <2> QED BY <1>5, <2>1 DEF ClockTable
<1>6. CASE w = 6
  <2>1. ClockWrites[w] = << 43, 0, \h77, \h0B >>
    BY <1>6 DEF ClockWrites
  <2> QED BY <1>6, <2>1 DEF ClockTable
<1>7. CASE w = 7
  <2>1. ClockWrites[w] = << 46, 0, \h77, \h0B >>
    BY <1>7 DEF ClockWrites
  <2> QED BY <1>7, <2>1 DEF ClockTable
<1> QED BY <1>1, <1>2, <1>3, <1>4, <1>5, <1>6, <1>7

LEMMA ClockDomain == DOMAIN ClockWrites = 1..7
  BY DEF ClockWrites

\* No two of the writes set the same register, and none sets register 136.
LEMMA ClockDisjoint ==
  ASSUME NEW v \in 1..7, NEW w \in 1..7, NEW b \in 2..Len(ClockWrites[w])
  PROVE  /\ ClockWrites[w][1] \in Nat /\ Len(ClockWrites[w]) \in Nat
         /\ b \in Nat /\ ClockWrites[w][1] + b - 2 < 136
         /\ (ClockWrites[w][1] + b - 2) - ClockWrites[v][1] + 2 \in 2..Len(ClockWrites[v])
              => v = w /\ (ClockWrites[w][1] + b - 2) - ClockWrites[v][1] + 2 = b
<1>1. /\ ClockTable(w, ClockWrites[w][1], Len(ClockWrites[w]))
      /\ ClockTable(v, ClockWrites[v][1], Len(ClockWrites[v]))
  BY ClockRanges
<1>2. PICK f, g, l, m : f = ClockWrites[w][1] /\ g = ClockWrites[v][1] /\ l = Len(ClockWrites[w]) /\ m = Len(ClockWrites[v])
  OBVIOUS
<1>3. /\ f \in Nat /\ g \in Nat /\ l \in 1..6 /\ m \in 1..6 /\ f + l - 2 < 136
      /\ v < w => g + m - 2 < f
      /\ w < v => f + l - 2 < g
      /\ v = w => f = g /\ l = m
  <2>1. ClockTable(w, f, l) /\ ClockTable(v, g, m)
    BY <1>1, <1>2
  <2> QED BY <2>1 DEF ClockTable
<1>4. b \in 2..l
  BY <1>2
<1>5. b \in Nat /\ f + b - 2 < 136 /\ ((f + b - 2) - g + 2 \in 2..m => v = w /\ (f + b - 2) - g + 2 = b)
  BY <1>3, <1>4
<1> QED BY <1>2, <1>3, <1>5

\* A write to the clock chip leaves the registers that were set as they are.
LEMMA RegsKept ==
  ASSUME NEW t, t = Cur, t.addr = IIC_SI5324_ADDRESS, t.op # "IicReadData3", SetRegisters,
         NEW a \in Nat, a > 1,
         IF a <= 8 THEN t.bytes = ClockWrites[a - 1]
                   ELSE t.bytes = << 136, \h40 >> \/ \E r \in 1..4 : t.bytes = << << 25, 31, 40, 43 >>[r] >>
  PROVE  /\ \A w \in 1..7 : SetRegs(w) => SetRegs(w)'
         /\ 136 \in DOMAIN regs' => 136 \in DOMAIN regs \/ a > 8
         /\ \A b \in 2..Len(t.bytes) : LET r == t.bytes[1] + b - 2
                                       IN  r \in DOMAIN regs' /\ regs'[r] = t.bytes[b]
<1>1. PICK B : B = t.bytes
  OBVIOUS
<1>2. regs' = [r \in (DOMAIN regs) \cup {B[1] + b - 2 : b \in 2..Len(B)} |->
                  IF r - B[1] + 2 \in 2..Len(B) THEN B[r - B[1] + 2] ELSE regs[r]]
  BY <1>1 DEF SetRegisters, Bytes
<1>3. CASE a <= 8
  <2>1. PICK v \in 1..7 : v = a - 1
    BY <1>3
  <2>2. B = ClockWrites[v] /\ B[1] \in Nat /\ Len(B) \in Nat
    <3>1. B = ClockWrites[v]
      BY <1>1, <1>3, <2>1
    <3> QED BY <3>1, ClockRanges DEF ClockTable
  <2>3. ASSUME NEW w \in 1..7, SetRegs(w) PROVE SetRegs(w)'
    <3>1. SUFFICES ASSUME NEW b \in 2..Len(ClockWrites[w]), NEW r, r = ClockWrites[w][1] + b - 2
                   PROVE  r \in DOMAIN regs' /\ regs'[r] = ClockWrites[w][b]
      BY DEF SetRegs
    <3>2. r \in DOMAIN regs /\ regs[r] = ClockWrites[w][b]
      BY <2>3, <3>1 DEF SetRegs
    <3>3. r - B[1] + 2 \in 2..Len(B) => v = w /\ r - B[1] + 2 = b
      <4>1. (ClockWrites[w][1] + b - 2) - ClockWrites[v][1] + 2 \in 2..Len(ClockWrites[v])
              => v = w /\ (ClockWrites[w][1] + b - 2) - ClockWrites[v][1] + 2 = b
        BY ClockDisjoint
      <4>2. r - B[1] + 2 = (ClockWrites[w][1] + b - 2) - ClockWrites[v][1] + 2
        BY <2>2, <3>1, Zenon
      <4> QED BY <2>2, <4>1, <4>2
    <3> QED BY <1>2, <2>2, <3>2, <3>3
  <2>4. 136 \in DOMAIN regs' => 136 \in DOMAIN regs
    <3>1. SUFFICES ASSUME NEW b \in 2..Len(B), B[1] + b - 2 = 136 PROVE FALSE
      BY <1>2
    <3>2. ClockWrites[v][1] \in Nat /\ b \in Nat /\ ClockWrites[v][1] + b - 2 < 136
      BY <2>2, ClockDisjoint
    <3> QED BY <2>2, <3>1, <3>2
  <2>5. ASSUME NEW b \in 2..Len(B), NEW r, r = B[1] + b - 2
        PROVE  r \in DOMAIN regs' /\ regs'[r] = B[b]
    <3>1. r - B[1] + 2 = b
      BY <2>2, <2>5
    <3> QED BY <1>2, <2>5, <3>1
  <2> QED BY <1>1, <2>3, <2>4, <2>5
<1>4. CASE a > 8 /\ B = << 136, \h40 >>
  <2>1. B[1] = 136 /\ Len(B) = 2 /\ B[2] = \h40
    BY <1>4
  <2>3. ASSUME NEW w \in 1..7, SetRegs(w) PROVE SetRegs(w)'
    <3>1. SUFFICES ASSUME NEW b \in 2..Len(ClockWrites[w]), NEW r, r = ClockWrites[w][1] + b - 2
                   PROVE  r \in DOMAIN regs' /\ regs'[r] = ClockWrites[w][b]
      BY DEF SetRegs
    <3>2. r \in DOMAIN regs /\ regs[r] = ClockWrites[w][b]
      BY <2>3, <3>1 DEF SetRegs
    <3>3. r \in Int /\ r < 136
      <4>1. ClockWrites[w][1] \in Nat /\ b \in Nat /\ ClockWrites[w][1] + b - 2 < 136
        BY ClockDisjoint
      <4> QED BY <3>1, <4>1
    <3> QED BY <1>2, <2>1, <3>2, <3>3
  <2>4. ASSUME NEW b \in 2..Len(B), NEW r, r = B[1] + b - 2
        PROVE  r \in DOMAIN regs' /\ regs'[r] = B[b]
    BY <1>2, <2>1, <2>4
  <2> QED BY <1>1, <1>4, <2>3, <2>4
<1>5. CASE a > 8 /\ \E r \in 1..4 : B = << << 25, 31, 40, 43 >>[r] >>
  <2>1. B[1] \in Nat /\ Len(B) = 1
    BY <1>5
  <2>2. DOMAIN regs' = DOMAIN regs /\ \A r \in DOMAIN regs : regs'[r] = regs[r]
    <3>1. 2..Len(B) = {}
      BY <2>1
    <3> QED BY <1>2, <3>1
  <2>3. ASSUME NEW w \in 1..7, SetRegs(w) PROVE SetRegs(w)'
    BY <2>2, <2>3 DEF SetRegs
  <2> QED BY <1>1, <1>5, <2>1, <2>2, <2>3
<1> QED BY <1>1, <1>3, <1>4, <1>5

-----------------------------------------------------------------------------
(* What the bus does                                                       *)

\* The transfer under way is one of the call's.
LEMMA CurShape ==
  ASSUME NEW op, NEW k, Where(op, k)
  PROVE  /\ call \in Calls /\ at \in Nat \ {0} /\ at \in DOMAIN Transfers(call) /\ call # Idle
         /\ Shape(call, at, Cur) /\ Cur.op = op
<1>1. call \in Calls /\ at \in DOMAIN Transfers(call) /\ Transfers(call)[at].op = op
  BY DEF Where
<1>2. at \in Nat \ {0} /\ Shape(call, at, Transfers(call)[at])
  BY <1>1, TransferShape
<1> QED BY <1>1, <1>2, IdleIsNoCall DEF Cur

\* Only config_SI5324 speaks to the clock chip.
LEMMA ClockAddress ==
  ASSUME NEW c \in Calls, NEW a \in Nat \ {0}, NEW t, Shape(c, a, t), t.addr = IIC_SI5324_ADDRESS
  PROVE  c[1] = "config_SI5324" /\ a > 1
<1>1. a > 1
  <2>1. a = 1 => t.addr = IIC_SWITCH_ADDRESS
    BY DEF Shape, Write
  <2> QED BY <2>1, NoSwitchAddress
<1>2. c[1] # "sfpReadInfo"
  <2>1. c[1] = "sfpReadInfo" => t.addr = IIC_SFP_ADDRESS
    BY <1>1 DEF Shape, Read
  <2> QED BY <2>1 DEF IIC_SFP_ADDRESS, IIC_SI5324_ADDRESS
<1>3. c[1] # "IicReadData3"
  <2>1. c[1] = "IicReadData3" => t.addr = IIC_FMC_EEPROM
    BY <1>1 DEF Shape, Read
  <2> QED BY <2>1 DEF IIC_FMC_EEPROM, IIC_SI5324_ADDRESS
<1>4. c[1] # "pmReadInfo"
  <2>1. SUFFICES ASSUME c[1] = "pmReadInfo" PROVE FALSE
    OBVIOUS
  <2>2. RailOf(a) \in 1..NumRails /\ PlaceOf(a) \in 0..4 /\ t = ReadRail(RailOf(a))[PlaceOf(a) + 1]
    BY <1>1, <2>1 DEF Shape
  <2>3. RailOf(a) \in 1..8
    BY <2>2, IICAssumption
  <2>4. t.addr = pm_info[RailOf(a)].i2cAddress
    BY <2>2 DEF ReadRail, Read, Write
  <2> QED BY <2>3, <2>4 DEF pm_info, IIC_SI5324_ADDRESS
<1> QED BY <1>1, <1>2, <1>3, <1>4, CallNames

\* The reads of a rail send one byte.
LEMMA RailReads ==
  ASSUME NEW c \in Calls, NEW a \in Nat \ {0}, NEW t, Shape(c, a, t), c[1] = "pmReadInfo", a > 1
  PROVE  LET i == RailOf(a)
         IN  /\ i \in 1..NumRails /\ i \in 1..8 /\ PlaceOf(a) \in 0..4
             /\ t.addr = pm_info[i].i2cAddress /\ t.addr \in PmAddresses
             /\ PlaceOf(a) = 0 => /\ t.bytes = << PM_CMD_LOAD_PAGE, pm_info[i].pageIndex >>
                                  /\ t.into = << >> /\ t.op = "IicWriteData"
             /\ PlaceOf(a) > 0 => Len(t.bytes) = 1 /\ t.op = "IicReadData"
             /\ t.into # << >> => \/ t.into = << "voltage", i >> /\ t.bytes = << PM_CMD_VOUT >>
                                  \/ t.into = << "current", i >> /\ t.bytes = << PM_CMD_IOUT >>
                                  \/ t.into = << "power", i >> /\ t.bytes = << PM_CMD_POUT >>
<1> DEFINE i == RailOf(a)
<1>1. i \in 1..NumRails /\ PlaceOf(a) \in 0..4 /\ t = ReadRail(i)[PlaceOf(a) + 1]
  BY DEF Shape
<1>2. i \in 1..8
  BY <1>1, IICAssumption
<1> HIDE DEF i
<1>3. t.addr = pm_info[i].i2cAddress
  BY <1>1 DEF ReadRail, Read, Write
<1>4. t.addr \in PmAddresses
  BY <1>2, <1>3 DEF pm_info, PmAddresses
<1>5. PlaceOf(a) = 0 => /\ t.bytes = << PM_CMD_LOAD_PAGE, pm_info[i].pageIndex >>
                        /\ t.into = << >> /\ t.op = "IicWriteData"
  BY <1>1 DEF ReadRail, Write
<1>6. PlaceOf(a) > 0 => Len(t.bytes) = 1 /\ t.op = "IicReadData"
  BY <1>1 DEF ReadRail, Read
<1>7. t.into # << >> => \/ t.into = << "voltage", i >> /\ t.bytes = << PM_CMD_VOUT >>
                        \/ t.into = << "current", i >> /\ t.bytes = << PM_CMD_IOUT >>
                        \/ t.into = << "power", i >> /\ t.bytes = << PM_CMD_POUT >>
  <2>1. CASE PlaceOf(a) \in {0, 1}
    <3>1. t.into = << >>
      BY <1>1, <2>1 DEF ReadRail, Read, Write
    <3> QED BY <3>1
  <2>2. CASE PlaceOf(a) = 2
    BY <1>1, <2>2 DEF ReadRail, Read
  <2>3. CASE PlaceOf(a) = 3
    BY <1>1, <2>3 DEF ReadRail, Read
  <2>4. CASE PlaceOf(a) = 4
    BY <1>1, <2>4 DEF ReadRail, Read
  <2> QED BY <1>1, <2>1, <2>2, <2>3, <2>4
<1> QED BY <1>1, <1>2, <1>3, <1>4, <1>5, <1>6, <1>7 DEF i

\* Bytes that a chip takes leave what the procedure and the firmware rely on.
LEMMA SendTakes ==
  ASSUME BoardInv, CallData, NEW op, NEW k, Where(op, k), WireSend
  PROVE  Took' /\ BoardInv' /\ CallData'
<1>1. /\ call \in Calls /\ at \in Nat \ {0} /\ at \in DOMAIN Transfers(call) /\ call # Idle
      /\ Shape(call, at, Cur)
  BY CurShape
<1>2. PICK c, a, t : c = call /\ a = at /\ t = Cur
  OBVIOUS
<1>3. /\ c = call /\ c = call' /\ a = at /\ a = at' /\ t = Cur /\ t = Cur' /\ UNCHANGED got /\ UNCHANGED boot
      /\ Bytes' = Bytes
  BY <1>2 DEF WireSend, where, Cur, Bytes
<1>4. a \in Nat \ {0} /\ Shape(c, a, t) /\ boot = "up" /\ Reached(c, a) /\ c \in Calls
  BY <1>1, <1>3 DEF CallData
<1>5. DOMAIN pointer = Chips /\ DOMAIN page = PmAddresses /\ DOMAIN got = Items
  BY DEF BoardInv
<1>6. RailsAreTheirOwn' /\ ReadsAreTheirOwn' /\ DOMAIN got' = Items
  <2>1. RailsAreTheirOwn'
    BY <1>3 DEF BoardInv, RailsAreTheirOwn
  <2>2. ReadsAreTheirOwn'
    BY <1>3 DEF BoardInv, ReadsAreTheirOwn
  <2> QED BY <1>3, <1>5, <2>1, <2>2
<1>7. CASE t.addr = IIC_SWITCH_ADDRESS
  <2>1. switch' = Bytes[1] /\ UNCHANGED << pointer, page, regs >>
    BY <1>3, <1>7 DEF WireSend
  <2>2. a = 1
    BY <1>4, <1>7 DEF Shape
  <2>3. Took'
    BY <1>3, <1>7, <2>1 DEF Took
  <2>4. Reached(c, a)'
    BY <2>2, ClockDomain DEF Reached
  <2>5. BoardInv'
    BY <1>5, <1>6, <2>1 DEF BoardInv, CalibratedWhenConfigured
  <2> QED BY <1>3, <1>4, <2>3, <2>4, <2>5 DEF CallData
<1>8. CASE t.addr # IIC_SWITCH_ADDRESS
  <2>1. /\ Chip \in Chips /\ switch' = switch /\ Chip' = Chip
        /\ pointer' = [pointer EXCEPT ![Chip] =
                         IF Chip[1] = IIC_BUS_FMC THEN Bytes[1] * 256 + Bytes[2] ELSE Bytes[1]]
        /\ page' = IF t.addr \in PmAddresses /\ Bytes[1] = PM_CMD_LOAD_PAGE /\ Len(Bytes) = 2
                     THEN [page EXCEPT ![t.addr] = Bytes[2]] ELSE page
        /\ SetRegisters
    BY <1>3, <1>8 DEF WireSend, Delivered, Chip
  <2>2. a > 1
    <3>1. a = 1 => t.addr = IIC_SWITCH_ADDRESS
      BY <1>4 DEF Shape, Write
    <3> QED BY <1>4, <1>8, <3>1
  <2>3. DOMAIN pointer' = Chips /\ DOMAIN page' = PmAddresses
    BY <1>5, <2>1
  <2>4. CASE t.addr = IIC_SI5324_ADDRESS
    <3>1. c[1] = "config_SI5324"
      BY <1>4, <2>4, ClockAddress
    <3>2. /\ t.op # "IicReadData3"
          /\ IF a <= 8 THEN t.bytes = ClockWrites[a - 1]
                       ELSE t.bytes = << 136, \h40 >> \/ \E r \in 1..4 : t.bytes = << << 25, 31, 40, 43 >>[r] >>
      BY <1>4, <2>2, <3>1 DEF Shape
    <3>3. /\ \A w \in 1..7 : SetRegs(w) => SetRegs(w)'
          /\ 136 \in DOMAIN regs' => 136 \in DOMAIN regs \/ a > 8
          /\ \A b \in 2..Len(t.bytes) : LET r == t.bytes[1] + b - 2
                                        IN  r \in DOMAIN regs' /\ regs'[r] = t.bytes[b]
      BY <1>3, <1>4, <2>1, <2>2, <2>4, <3>2, RegsKept
    <3>4. Bytes = t.bytes
      BY <1>3, <3>2 DEF Bytes
    <3>5. t.addr \notin PmAddresses
      BY <2>4 DEF PmAddresses, IIC_SI5324_ADDRESS
    <3>6. Took'
      BY <1>3, <1>5, <1>8, <2>1, <3>3, <3>4, <3>5 DEF Took
    <3>7. Reached(c, a)'
      BY <1>4, <2>1, <3>1, <3>3, ClockDomain DEF Reached
    <3>8. CalibratedWhenConfigured'
      <4>1. SUFFICES ASSUME 136 \in DOMAIN regs', NEW w \in 1..7 PROVE SetRegs(w)'
        BY ClockDomain DEF CalibratedWhenConfigured, SetRegs
      <4>2. SetRegs(w)
        <5>1. CASE 136 \in DOMAIN regs
          BY <5>1, ClockDomain DEF BoardInv, CalibratedWhenConfigured, SetRegs
        <5>2. CASE a > 8
          <6>1. a > w + 1
            BY <1>4, <5>2
          <6> QED BY <1>4, <3>1, <6>1, ClockDomain DEF Reached
        <5> QED BY <3>3, <4>1, <5>1, <5>2
      <4> QED BY <3>3, <4>2
    <3> QED BY <1>3, <1>4, <1>6, <2>3, <3>6, <3>7, <3>8 DEF CallData, BoardInv
  <2>5. CASE t.addr # IIC_SI5324_ADDRESS
    <3>1. regs' = regs
      BY <1>3, <2>1, <2>5 DEF SetRegisters
    <3>2. Took'
      BY <1>3, <1>5, <1>8, <2>1, <2>5 DEF Took
    <3>3. c[1] # "config_SI5324"
      BY <1>4, <2>2, <2>5 DEF Shape
    <3>4. c[1] = "pmReadInfo" /\ PlaceOf(a) > 0 => page' = page
      <4>1. SUFFICES ASSUME c[1] = "pmReadInfo", PlaceOf(a) > 0 PROVE page' = page
        OBVIOUS
      <4>2. Len(t.bytes) = 1 /\ t.op = "IicReadData"
        BY <1>4, <2>2, <4>1, RailReads
      <4>3. Bytes = t.bytes
        BY <1>3, <4>2 DEF Bytes
      <4>4. ~(Len(Bytes) = 2)
        BY <4>2, <4>3
      <4> QED BY <2>1, <4>4
    <3>5. Reached(c, a)'
      BY <1>4, <2>1, <3>3, <3>4 DEF Reached, PageShown
    <3>6. CalibratedWhenConfigured'
      BY <3>1 DEF BoardInv, CalibratedWhenConfigured
    <3> QED BY <1>3, <1>4, <1>6, <2>3, <3>2, <3>5, <3>6 DEF CallData, BoardInv
  <2> QED BY <2>4, <2>5
<1> QED BY <1>7, <1>8

\* What StepData says is said of the transfer under way and of the board only.
LEMMA SameTransfer ==
  ASSUME UNCHANGED << call, at >>, UNCHANGED << switch, pointer, page, regs >>
  PROVE  Took' = Took /\ (UNCHANGED buffer => Gave' = Gave) /\ Cur' = Cur /\ Chip' = Chip
<1>1. Cur' = Cur
  BY DEF Cur
<1>2. Chip' = Chip /\ Bytes' = Bytes
  BY <1>1 DEF Chip, Bytes
<1> QED BY <1>1, <1>2 DEF Took, Gave

\* The invariant holds again if it does at the one step where the processor is.
LEMMA DataAt ==
  ASSUME NEW op \in Ops, NEW k \in DOMAIN Steps(op), Where(op, k)',
         StepData(op, Steps(op)[k], Steps(op)[k + 1])', BoardInv', CallData'
  PROVE  DataInv'
<1>1. ASSUME NEW o \in Ops, NEW j \in DOMAIN Steps(o), Where(o, j)'
      PROVE  StepData(o, Steps(o)[j], Steps(o)[j + 1])'
  <2>1. o = op /\ j = k
    BY <1>1 DEF Where
  <2> QED BY <2>1
<1> QED BY <1>1 DEF DataInv

LEMMA DataIdle == ASSUME call' = Idle, BoardInv' PROVE DataInv'
<1>1. ASSUME NEW o, NEW j, Where(o, j)' PROVE FALSE
  BY <1>1, IdleIsNoCall DEF Where
<1> QED BY <1>1 DEF DataInv, CallData

\* Steps that leave the processor and what it relies on alone.
LEMMA DataStays ==
  ASSUME DataInv, UNCHANGED << call, at, step >>, BoardInv', CallData',
         \A op \in Ops : \A k \in DOMAIN Steps(op) :
           Where(op, k) /\ StepData(op, Steps(op)[k], Steps(op)[k + 1])
             => StepData(op, Steps(op)[k], Steps(op)[k + 1])'
  PROVE  DataInv'
<1>1. ASSUME NEW op \in Ops, NEW k \in DOMAIN Steps(op), Where(op, k)'
      PROVE  StepData(op, Steps(op)[k], Steps(op)[k + 1])'
  <2>1. Where(op, k)
    BY <1>1 DEF Where
  <2> QED BY <2>1 DEF DataInv
<1> QED BY <1>1 DEF DataInv

LEMMA SameBoard == ASSUME BoardInv, UNCHANGED << pointer, page, regs, got >> PROVE BoardInv'
<1>1. RailsAreTheirOwn'
  BY DEF BoardInv, RailsAreTheirOwn
<1>2. ReadsAreTheirOwn'
  BY DEF BoardInv, ReadsAreTheirOwn
<1>3. CalibratedWhenConfigured'
  BY DEF BoardInv, CalibratedWhenConfigured
<1> QED BY <1>1, <1>2, <1>3 DEF BoardInv

LEMMA SameReach == ASSUME NEW c, NEW a, Reached(c, a), UNCHANGED << switch, page, regs >> PROVE Reached(c, a)'
  BY DEF Reached, PageShown, SetRegs

LEMMA BusKeepsData ==
  FlagInv /\ DataInv /\ (IicSendHandler \/ IicRecvHandler \/ WireSend \/ WireReceive \/ IicStatusHandler)
  => DataInv'
<1> SUFFICES ASSUME FlagInv, DataInv,
                    IicSendHandler \/ IicRecvHandler \/ WireSend \/ WireReceive \/ IicStatusHandler
             PROVE  DataInv'
  OBVIOUS
<1>0. UNCHANGED << call, at, step >> /\ UNCHANGED got /\ UNCHANGED boot /\ UNCHANGED IicTimeoutCounter
  BY DEF IicSendHandler, IicRecvHandler, WireSend, WireReceive, IicStatusHandler, where
<1>a. BoardInv /\ CallData /\ Handled /\ (call = Idle => Quiet)
  BY DEF DataInv, FlagInv
\* The step at which the processor is, its flags and its data.
<1>b. ASSUME NEW op \in Ops, NEW k \in DOMAIN Steps(op), Where(op, k)
      PROVE  /\ StepFlags(op, Steps(op)[k], Steps(op)[k + 1])
             /\ StepData(op, Steps(op)[k], Steps(op)[k + 1])
  <2>1. call # Idle
    BY <1>b, IdleIsNoCall DEF Where
  <2>2. PICK o \in Ops : \E j \in DOMAIN Steps(o) :
          Where(o, j) /\ StepFlags(o, Steps(o)[j], Steps(o)[j + 1])
    BY <2>1 DEF FlagInv
  <2>3. PICK j \in DOMAIN Steps(o) : Where(o, j) /\ StepFlags(o, Steps(o)[j], Steps(o)[j + 1])
    BY <2>2
  <2>4. o = op /\ j = k
    BY <1>b, <2>3 DEF Where
  <2> QED BY <1>b, <2>3, <2>4 DEF DataInv
\* A step that does not touch the board.
<1>c. ASSUME UNCHANGED board,
             \A op, s, n : StepFlags(op, s, n) /\ StepData(op, s, n) => StepData(op, s, n)'
      PROVE  DataInv'
  <2>1. BoardInv'
    BY <1>a, <1>0, <1>c, SameBoard DEF board
  <2>2. CallData'
    <3>1. Reached(call, at) => Reached(call, at)'
      BY <1>0, <1>c, SameReach DEF board
    <3> QED BY <1>a, <1>0, <3>1 DEF CallData
  <2> QED BY <1>0, <1>b, <1>c, <2>1, <2>2, DataStays
<1>d. UNCHANGED board => Took' = Took /\ Gave' = Gave
  BY <1>0, SameTransfer DEF board
<1>1. CASE IicSendHandler
  <2>1. /\ UNCHANGED board /\ UNCHANGED ReceiveComplete /\ irq = "sent" /\ irq' = "none"
        /\ Took' = Took /\ Gave' = Gave
    BY <1>1, <1>d DEF IicSendHandler
  <2>2. ASSUME NEW op, NEW s, NEW n, StepFlags(op, s, n), StepData(op, s, n) PROVE StepData(op, s, n)'
    BY <1>0, <2>1, <2>2 DEF StepFlags, Sending, Receiving, Late, Quiet, StepData
  <2> QED BY <1>c, <2>1, <2>2
<1>2. CASE IicRecvHandler
  <2>1. /\ UNCHANGED board /\ UNCHANGED TransmitComplete /\ irq = "received" /\ irq' = "none"
        /\ Took' = Took /\ Gave' = Gave
    BY <1>2, <1>d DEF IicRecvHandler
  <2>2. ASSUME NEW op, NEW s, NEW n, StepFlags(op, s, n), StepData(op, s, n) PROVE StepData(op, s, n)'
    BY <1>0, <2>1, <2>2 DEF StepFlags, Sending, Receiving, Late, Quiet, StepData
  <2> QED BY <1>c, <2>1, <2>2
<1>3. CASE IicStatusHandler
  <2>1. UNCHANGED board /\ UNCHANGED flags /\ irq' = irq /\ Took' = Took /\ Gave' = Gave
    BY <1>3, <1>d DEF IicStatusHandler
  <2>2. ASSUME NEW op, NEW s, NEW n, StepFlags(op, s, n), StepData(op, s, n) PROVE StepData(op, s, n)'
    BY <1>0, <2>1, <2>2 DEF flags, StepData
  <2> QED BY <1>c, <2>1, <2>2
<1>4. CASE WireSend
  <2>1. wire = "sending" /\ irq' = "sent" /\ UNCHANGED flags /\ UNCHANGED buffer
    BY <1>4 DEF WireSend, Delivered
  <2>2. ASSUME NEW op \in Ops, NEW k \in DOMAIN Steps(op), Where(op, k)
        PROVE  Took' /\ BoardInv' /\ CallData'
    BY <1>a, <1>4, <2>2, SendTakes
  <2>3. call # Idle
    BY <1>a, <2>1 DEF Quiet
  <2>4. PICK op \in Ops : \E k \in DOMAIN Steps(op) :
          Where(op, k) /\ StepFlags(op, Steps(op)[k], Steps(op)[k + 1])
    BY <2>3 DEF FlagInv
  <2>5. PICK k \in DOMAIN Steps(op) : Where(op, k) /\ StepFlags(op, Steps(op)[k], Steps(op)[k + 1])
    BY <2>4
  <2>6. PICK s, n : s = Steps(op)[k] /\ n = Steps(op)[k + 1] /\ StepFlags(op, s, n)
    BY <2>5
  <2>7. s \in Late /\ ~Receiving(s, n)
    BY <2>1, <2>6 DEF StepFlags, Quiet
  <2>8. Took' /\ BoardInv' /\ CallData' /\ Where(op, k)'
    BY <1>0, <2>2, <2>5 DEF Where
  <2>9. StepData(op, s, n)'
    BY <2>7, <2>8 DEF StepData, Late, Receiving
  <2> QED BY <2>6, <2>8, <2>9, DataAt
<1>5. CASE WireReceive
  <2>1. /\ wire = "receiving" /\ irq' = "received" /\ UNCHANGED flags
        /\ UNCHANGED << switch, pointer, page, regs >>
        /\ buffer' = << Chip, IF Cur.addr \in PmAddresses THEN page[Cur.addr] ELSE 0, pointer[Chip] >>
    BY <1>5 DEF WireReceive
  <2>2. Took' = Took /\ Cur' = Cur /\ Chip' = Chip
    BY <1>0, <2>1, SameTransfer
  <2>3. Gave'
    BY <2>1, <2>2 DEF Gave
  <2>4. BoardInv' /\ CallData'
    <3>1. Reached(call, at) => Reached(call, at)'
      BY <1>0, <2>1, SameReach
    <3>2. BoardInv'
      BY <1>a, <1>0, <2>1, SameBoard
    <3> QED BY <1>a, <1>0, <3>1, <3>2 DEF CallData
  <2>5. ASSUME NEW op, NEW s, NEW n, StepFlags(op, s, n), StepData(op, s, n) PROVE StepData(op, s, n)'
    BY <1>0, <2>1, <2>2, <2>3, <2>5 DEF flags, StepFlags, Sending, Receiving, Late, Quiet, StepData
  <2> QED BY <1>0, <1>b, <2>4, <2>5, DataStays
<1> QED BY <1>1, <1>2, <1>3, <1>4, <1>5

-----------------------------------------------------------------------------
(* What a transfer that has ended leaves behind                            *)

\* What a read that went well has put into ReadBuffer.
LEMMA Answer ==
  ASSUME NEW op, NEW k, Where(op, k), CallData, Took, Gave, Cur.into # << >>
  PROVE  \/ /\ call[1] = "pmReadInfo"
            /\ \E i \in 1..NumRails : \E x \in {"voltage", "current", "power"} :
                 /\ Cur.into = << x, i >>
                 /\ buffer = << << IIC_BUS_PCON, pm_info[i].i2cAddress >>, pm_info[i].pageIndex,
                                [voltage |-> PM_CMD_VOUT, current |-> PM_CMD_IOUT, power |-> PM_CMD_POUT][x] >>
         \/ /\ call[1] = "sfpReadInfo"
            /\ \/ /\ Cur.into = << "Vendor", call[2] >>
                  /\ buffer = << << BusOf(call), IIC_SFP_ADDRESS >>, 0, 20 >>
               \/ /\ Cur.into = << "Part", call[2] >>
                  /\ buffer = << << BusOf(call), IIC_SFP_ADDRESS >>, 0, 40 >>
         \/ /\ Cur.into = << "Word", \h0102 >>
            /\ buffer = << << IIC_BUS_FMC, IIC_FMC_EEPROM >>, 0, \h0102 >>
<1>1. PICK c, a, t : c = call /\ a = at /\ t = Cur
  OBVIOUS
<1>2. c \in Calls /\ a \in Nat \ {0} /\ Shape(c, a, t) /\ Reached(c, a)
  BY <1>1, CurShape DEF CallData
<1>3. a > 1
  <2>1. a = 1 => t.into = << >>
    BY <1>2 DEF Shape, Write
  <2> QED BY <1>1, <1>2, <2>1
<1>4. switch = BusOf(c) /\ t.addr # IIC_SWITCH_ADDRESS /\ Chip = << BusOf(c), t.addr >>
  BY <1>1, <1>2, <1>3 DEF Reached, Shape, Chip
<1>5. /\ pointer[Chip] = IF BusOf(c) = IIC_BUS_FMC THEN Bytes[1] * 256 + Bytes[2] ELSE Bytes[1]
      /\ buffer = << Chip, IF t.addr \in PmAddresses THEN page[t.addr] ELSE 0, pointer[Chip] >>
  <2>1. Chip[1] = BusOf(c)
    BY <1>4
  <2> QED BY <1>1, <1>4, <2>1 DEF Took, Gave
<1>6. c[1] # "config_SI5324"
  BY <1>1, <1>2, <1>3 DEF Shape
<1>7. CASE c[1] = "pmReadInfo"
  <2> DEFINE i == RailOf(a)
  <2>1. /\ i \in 1..NumRails /\ t.addr = pm_info[i].i2cAddress /\ t.addr \in PmAddresses
        /\ PlaceOf(a) > 0 /\ t.op = "IicReadData"
        /\ \/ t.into = << "voltage", i >> /\ t.bytes = << PM_CMD_VOUT >>
           \/ t.into = << "current", i >> /\ t.bytes = << PM_CMD_IOUT >>
           \/ t.into = << "power", i >> /\ t.bytes = << PM_CMD_POUT >>
    <3>1. /\ i \in 1..NumRails /\ PlaceOf(a) \in 0..4 /\ t.addr = pm_info[i].i2cAddress
          /\ t.addr \in PmAddresses
          /\ PlaceOf(a) = 0 => t.into = << >>
          /\ PlaceOf(a) > 0 => t.op = "IicReadData"
          /\ t.into # << >> => \/ t.into = << "voltage", i >> /\ t.bytes = << PM_CMD_VOUT >>
                               \/ t.into = << "current", i >> /\ t.bytes = << PM_CMD_IOUT >>
                               \/ t.into = << "power", i >> /\ t.bytes = << PM_CMD_POUT >>
      BY <1>2, <1>3, <1>7, RailReads, Zenon
    <3>2. t.into # << >> /\ (PlaceOf(a) = 0 \/ PlaceOf(a) > 0)
      BY <1>1, <3>1
    <3> QED BY <3>1, <3>2, Zenon
  <2> HIDE DEF i
  <2>2. page[t.addr] = pm_info[i].pageIndex
    BY <1>2, <1>3, <1>7, <2>1 DEF Reached, PageShown, i
  <2>3. BusOf(c) = IIC_BUS_PCON /\ BusOf(c) # IIC_BUS_FMC
    BY <1>2, <1>7, BusChoice DEF IIC_BUS_PCON, IIC_BUS_FMC
  <2>4. Bytes = t.bytes
    BY <1>1, <2>1 DEF Bytes
  <2>5. buffer = << << IIC_BUS_PCON, pm_info[i].i2cAddress >>, pm_info[i].pageIndex, t.bytes[1] >>
    BY <1>4, <1>5, <2>1, <2>2, <2>3, <2>4
  <2>6. \E x \in {"voltage", "current", "power"} :
          /\ t.into = << x, i >>
          /\ t.bytes[1] = [voltage |-> PM_CMD_VOUT, current |-> PM_CMD_IOUT, power |-> PM_CMD_POUT][x]
    BY <2>1
  <2> QED BY <1>1, <1>7, <2>1, <2>5, <2>6
<1>8. CASE c[1] = "sfpReadInfo"
  <2>1. /\ t.addr = IIC_SFP_ADDRESS /\ t.op = "IicReadData"
        /\ \/ t.into = << "Vendor", c[2] >> /\ t.bytes = << 20 >>
           \/ t.into = << "Part", c[2] >> /\ t.bytes = << 40 >>
    BY <1>2, <1>3, <1>8 DEF Shape, Read
  <2>2. BusOf(c) # IIC_BUS_FMC
    BY <1>2, <1>8, BusChoice, CallNames DEF IIC_BUS_SFP, IIC_BUS_FMC
  <2>3. t.addr \notin PmAddresses
    BY <2>1 DEF IIC_SFP_ADDRESS, PmAddresses
  <2>4. Bytes = t.bytes
    BY <1>1, <2>1 DEF Bytes
  <2> QED BY <1>1, <1>4, <1>5, <1>8, <2>1, <2>2, <2>3, <2>4
<1>9. CASE c[1] = "IicReadData3"
  <2>1. /\ t.addr = IIC_FMC_EEPROM /\ t.op = "IicReadData3" /\ t.into = << "Word", \h0102 >>
        /\ t.bytes = << \h0102 >>
    BY <1>2, <1>3, <1>9, CallNames DEF Shape, Read
  <2>2. BusOf(c) = IIC_BUS_FMC
    BY <1>2, <1>9, BusChoice
  <2>3. t.addr \notin PmAddresses
    BY <2>1 DEF IIC_FMC_EEPROM, PmAddresses
  <2>4. Bytes = << \h0102 \div 256, \h0102 % 256 >>
    BY <1>1, <2>1 DEF Bytes
  <2>5. Bytes[1] * 256 + Bytes[2] = \h0102
    BY <2>4
  <2> QED BY <1>1, <1>4, <1>5, <2>1, <2>2, <2>3, <2>5
<1> QED BY <1>2, <1>6, <1>7, <1>8, <1>9, CallNames

\* What the firmware holds stays what was asked for.
LEMMA GotKept ==
  ASSUME NEW op, NEW k, Where(op, k), BoardInv, CallData, Took, Gave, Cur.into # << >>,
         got' = [got EXCEPT ![Cur.into] = buffer], UNCHANGED << pointer, page, regs >>
  PROVE  BoardInv'
<1>1. PICK y : y = Cur.into
  OBVIOUS
<1>2. DOMAIN got = Items /\ DOMAIN got' = Items /\ \A z \in Items : got'[z] = IF z = y THEN buffer ELSE got[z]
  BY <1>1 DEF BoardInv
<1>3. call \in Calls
  BY CurShape
<1>4. ASSUME NEW i \in 1..NumRails, NEW x \in {"voltage", "current", "power"}, got'[<< x, i >>] # NoData
      PROVE  got'[<< x, i >>] = << << IIC_BUS_PCON, pm_info[i].i2cAddress >>, pm_info[i].pageIndex,
               [voltage |-> PM_CMD_VOUT, current |-> PM_CMD_IOUT, power |-> PM_CMD_POUT][x] >>
  <2>1. << x, i >> \in Items
    BY DEF Items
  <2>2. CASE << x, i >> # y
    BY <1>2, <1>4, <2>1, <2>2 DEF BoardInv, RailsAreTheirOwn
  <2>3. CASE << x, i >> = y
    BY <1>1, <1>2, <2>1, <2>3, Answer
  <2> QED BY <2>2, <2>3
<1>5. ASSUME NEW i \in 1..4
      PROVE  /\ got'[<< "Vendor", i >>] \in {NoData, << << IIC_BUS_SFP[i], IIC_SFP_ADDRESS >>, 0, 20 >>}
             /\ got'[<< "Part", i >>] \in {NoData, << << IIC_BUS_SFP[i], IIC_SFP_ADDRESS >>, 0, 40 >>}
  <2>1. << "Vendor", i >> \in Items /\ << "Part", i >> \in Items
    BY DEF Items
  <2>2. /\ got[<< "Vendor", i >>] \in {NoData, << << IIC_BUS_SFP[i], IIC_SFP_ADDRESS >>, 0, 20 >>}
        /\ got[<< "Part", i >>] \in {NoData, << << IIC_BUS_SFP[i], IIC_SFP_ADDRESS >>, 0, 40 >>}
    <3>1. ReadsAreTheirOwn
      BY DEF BoardInv
    <3>2. \A j \in 1..4 :
            /\ got[<< "Vendor", j >>] \in {NoData, << << IIC_BUS_SFP[j], IIC_SFP_ADDRESS >>, 0, 20 >>}
            /\ got[<< "Part", j >>] \in {NoData, << << IIC_BUS_SFP[j], IIC_SFP_ADDRESS >>, 0, 40 >>}
      BY ONLY <3>1, Zenon DEF ReadsAreTheirOwn
    <3> QED BY ONLY <3>2, i \in 1..4
  <2>3. call[1] = "sfpReadInfo" /\ call[2] = i => BusOf(call) = IIC_BUS_SFP[i]
    BY <1>3, BusChoice
  <2>4. << "Vendor", i >> = y => buffer = << << IIC_BUS_SFP[i], IIC_SFP_ADDRESS >>, 0, 20 >>
    BY <1>1, <2>3, Answer
  <2>5. << "Part", i >> = y => buffer = << << IIC_BUS_SFP[i], IIC_SFP_ADDRESS >>, 0, 40 >>
    BY <1>1, <2>3, Answer
  <2> QED BY <1>2, <2>1, <2>2, <2>4, <2>5
<1>6. got'[<< "Word", \h0102 >>] \in {NoData, << << IIC_BUS_FMC, IIC_FMC_EEPROM >>, 0, \h0102 >>}
  <2>1. << "Word", \h0102 >> \in Items
    BY DEF Items
  <2>2. << "Word", \h0102 >> = y => buffer = << << IIC_BUS_FMC, IIC_FMC_EEPROM >>, 0, \h0102 >>
    BY <1>1, Answer
  <2> QED BY <1>2, <2>1, <2>2 DEF BoardInv, ReadsAreTheirOwn
<1>7. RailsAreTheirOwn'
  BY <1>4 DEF RailsAreTheirOwn
<1>8. ReadsAreTheirOwn'
  BY <1>5, <1>6 DEF ReadsAreTheirOwn
<1>9. CalibratedWhenConfigured'
  BY DEF BoardInv, CalibratedWhenConfigured
<1> QED BY <1>2, <1>7, <1>8, <1>9 DEF BoardInv

\* A transfer that went well has brought the procedure one further ...
LEMMA ReachedNext ==
  ASSUME NEW op, NEW k, Where(op, k), CallData, Took, at + 1 \in DOMAIN Transfers(call)
  PROVE  Reached(call, at + 1)
<1>1. PICK c, a, t : c = call /\ a = at /\ t = Cur
  OBVIOUS
<1>2. c \in Calls /\ a \in Nat \ {0} /\ Shape(c, a, t) /\ Reached(c, a) /\ Shape(c, a + 1, Transfers(c)[a + 1])
  BY <1>1, CurShape, TransferShape DEF CallData
<1>3. switch = BusOf(c)
  <2>1. CASE a = 1
    <3>1. t = Write(IIC_SWITCH_ADDRESS, << BusOf(c) >>)
      BY <1>2, <2>1 DEF Shape
    <3>2. Bytes = << BusOf(c) >> /\ Cur.addr = IIC_SWITCH_ADDRESS
      BY <1>1, <3>1 DEF Bytes, Write
    <3> QED BY <3>2 DEF Took
  <2>2. CASE a > 1
    BY <1>2, <2>2 DEF Reached
  <2> QED BY <1>2, <2>1, <2>2
<1>4. c[1] = "pmReadInfo" /\ PlaceOf(a + 1) > 0 => PageShown(RailOf(a + 1))
  <2>1. SUFFICES ASSUME c[1] = "pmReadInfo", PlaceOf(a + 1) > 0 PROVE PageShown(RailOf(a + 1))
    OBVIOUS
  <2>2. a > 1 /\ RailOf(a + 1) = RailOf(a) /\ PlaceOf(a) = PlaceOf(a + 1) - 1
    BY <1>2, <2>1 DEF RailOf, PlaceOf
  <2>3. CASE PlaceOf(a) > 0
    BY <1>2, <2>1, <2>2, <2>3 DEF Reached
  <2>4. CASE PlaceOf(a) = 0
    <3> DEFINE i == RailOf(a)
    <3>1. /\ i \in 1..8 /\ t.addr = pm_info[i].i2cAddress /\ t.addr \in PmAddresses
          /\ t.bytes = << PM_CMD_LOAD_PAGE, pm_info[i].pageIndex >> /\ t.op = "IicWriteData"
      BY <1>2, <2>1, <2>2, <2>4, RailReads, Zenon
    <3> HIDE DEF i
    <3>2. t.addr # IIC_SWITCH_ADDRESS
      BY <3>1 DEF PmAddresses, IIC_SWITCH_ADDRESS
    <3>3. Bytes = t.bytes
      BY <1>1, <3>1 DEF Bytes
    <3>4. Bytes[1] = PM_CMD_LOAD_PAGE /\ Len(Bytes) = 2 /\ Bytes[2] = pm_info[i].pageIndex
      BY <3>1, <3>3
    <3>5. page[t.addr] = Bytes[2]
      BY <1>1, <3>1, <3>2, <3>4 DEF Took
    <3>6. PageShown(i)
      BY <3>1, <3>4, <3>5 DEF PageShown
    <3> QED BY <2>2, <3>6 DEF i
  <2>5. PlaceOf(a) \in 0..4
    BY <1>2, <2>1, <2>2, RailReads
  <2> QED BY <2>3, <2>4, <2>5
<1>5. ASSUME c[1] = "config_SI5324", NEW w \in 1..7, a + 1 > w + 1 PROVE SetRegs(w)
  <2>1. CASE a > w + 1
    BY <1>2, <1>5, <2>1, ClockDomain DEF Reached
  <2>2. CASE a = w + 1
    <3>1. /\ t.addr = IIC_SI5324_ADDRESS /\ t.op = "IicWriteData" /\ t.bytes = ClockWrites[w]
      BY <1>2, <1>5, <2>2 DEF Shape
    <3>2. Bytes = ClockWrites[w] /\ Cur.addr = IIC_SI5324_ADDRESS /\ Cur.addr # IIC_SWITCH_ADDRESS
      BY <1>1, <3>1, NoSwitchAddress DEF Bytes
    <3> QED BY <3>2 DEF Took, SetRegs
  <2> QED BY <1>2, <1>5, <2>1, <2>2
<1>6. Reached(c, a + 1)
  BY <1>2, <1>3, <1>4, <1>5, ClockDomain DEF Reached
<1> QED BY <1>1, <1>6

\* ... and one that failed leaves it all it had, where the procedure goes on.
LEMMA ReachedOnFail ==
  ASSUME NEW op, NEW k, Where(op, k), CallData, Cur.onfail \in DOMAIN Transfers(call)
  PROVE  Reached(call, Cur.onfail)
<1>1. PICK c, a, t : c = call /\ a = at /\ t = Cur
  OBVIOUS
<1>2. c \in Calls /\ a \in Nat \ {0} /\ Shape(c, a, t) /\ Reached(c, a) /\ t.onfail \in Nat \ {0}
  BY <1>1, CurShape, TransferShape DEF CallData
<1>3. c[1] = "config_SI5324" /\ a > 8 /\ t.onfail > 8
  BY <1>2 DEF Shape
<1>4. switch = BusOf(c)
  BY <1>2, <1>3 DEF Reached
<1>5. \A w \in 1..7 : SetRegs(w)
  BY <1>2, <1>3, ClockDomain DEF Reached
<1>6. Reached(c, t.onfail)
  BY <1>3, <1>4, <1>5, ClockDomain DEF Reached
<1> QED BY <1>1, <1>6

LEMMA DataReturned ==
  ASSUME DataInv, NEW op \in Ops, NEW k, Where(op, k), NEW ok \in BOOLEAN, Return(ok), UNCHANGED << board, boot >>,
         ok => Took /\ (op # "IicWriteData" => Gave)
  PROVE  DataInv'
<1>1. BoardInv /\ CallData /\ UNCHANGED << switch, pointer, page, regs >>
  BY DEF DataInv, board
<1>2. BoardInv'
  <2>1. CASE ok /\ Cur.into # << >>
    <3>1. got' = [got EXCEPT ![Cur.into] = buffer]
      BY <2>1 DEF Return
    <3>2. op # "IicWriteData"
      <4>1. PICK c, a, t : c = call /\ a = at /\ t = Cur
        OBVIOUS
      <4>2. c \in Calls /\ a \in Nat \ {0} /\ Shape(c, a, t) /\ t.op = op
        BY <4>1, CurShape
      <4>3. c[1] # "config_SI5324" /\ a > 1
        BY <2>1, <4>1, <4>2 DEF Shape, Write
      <4>4. c[1] = "sfpReadInfo" => t.op = "IicReadData"
        BY <4>2, <4>3 DEF Shape, Read
      <4>5. c[1] = "IicReadData3" => t.op = "IicReadData3"
        BY <4>2, <4>3 DEF Shape, Read
      <4>6. c[1] = "pmReadInfo" => t.op = "IicReadData"
        <5>1. SUFFICES ASSUME c[1] = "pmReadInfo" PROVE t.op = "IicReadData"
          OBVIOUS
        <5>2. /\ PlaceOf(a) \in 0..4 /\ (PlaceOf(a) = 0 => t.into = << >>)
              /\ PlaceOf(a) > 0 => t.op = "IicReadData"
          BY <4>2, <4>3, <5>1, RailReads, Zenon
        <5> QED BY <2>1, <4>1, <5>2
      <4> QED BY <4>2, <4>3, <4>4, <4>5, <4>6, CallNames
    <3> QED BY <1>1, <2>1, <3>1, <3>2, GotKept
  <2>2. CASE ~(ok /\ Cur.into # << >>)
    <3>1. got' = got
      BY <2>2 DEF Return
    <3> QED BY <1>1, <3>1, SameBoard
  <2> QED BY <2>1, <2>2
<1>3. CASE call' = Idle
  BY <1>2, <1>3, DataIdle
<1>4. CASE call' # Idle
  <2>1. /\ call' = call /\ at' \in DOMAIN Transfers(call) /\ step' = 1 /\ call \in Calls /\ call # Idle
        /\ at' = IF ok THEN at + 1 ELSE Cur.onfail
    BY <1>4, CurShape DEF Return
  <2>2. Reached(call, at')
    <3>1. CASE ok
      BY <1>1, <2>1, <3>1, ReachedNext
    <3>2. CASE ~ok
      BY <1>1, <2>1, <3>2, ReachedOnFail
    <3> QED BY <3>1, <3>2
  <2>3. Reached(call, at)'
    <3>1. PICK a : a = at'
      OBVIOUS
    <3>2. Reached(call, a)'
      <4>1. PICK c : c = call
        OBVIOUS
      <4>2. Reached(c, a)'
        BY <1>1, <2>2, <3>1, <4>1, SameReach
      <4> QED BY <2>1, <4>1, <4>2
    <3> QED BY <3>1, <3>2
  <2>4. CallData'
    BY <1>1, <2>1, <2>3 DEF CallData
  <2>5. Transfers(call)[at'].op \in Ops
    BY <2>1, TransfersOfCall
  <2>6. PICK new \in Ops : new = Transfers(call)[at'].op
    BY <2>5
  <2>7. Where(new, 1)'
    BY <2>1, <2>6 DEF Where
  <2>8. 1 \in DOMAIN Steps(new) /\ Steps(new)[1] \in {"MarkTransmit", "MarkReceive"}
    BY FirstStep
  <2>9. StepData(new, Steps(new)[1], Steps(new)[1 + 1])'
    BY <2>8 DEF StepData
  <2> QED BY <1>2, <2>4, <2>7, <2>8, <2>9, DataAt
<1> QED BY <1>3, <1>4

-----------------------------------------------------------------------------
(* The steps                                                               *)

\* The processor goes on to the next step, with what was due there.
LEMMA DataOnwards ==
  ASSUME DataInv, NEW op \in Ops, NEW k \in DOMAIN Steps(op), Where(op, k), k + 1 \in DOMAIN Steps(op), k \in Nat,
         UNCHANGED << board, boot >>, GoOn, StepData(op, Steps(op)[k + 1], Steps(op)[k + 2])'
  PROVE  DataInv'
<1>1. Where(op, k + 1)' /\ UNCHANGED << call, at, got >>
  BY DEF Where, GoOn
<1>2. BoardInv'
  BY <1>1, SameBoard DEF DataInv, board
<1>3. CallData'
  <2>1. Reached(call, at) => Reached(call, at)'
    BY <1>1, SameReach DEF board
  <2> QED BY <1>1, <2>1 DEF DataInv, CallData
<1>4. StepData(op, Steps(op)[k + 1], Steps(op)[(k + 1) + 1])'
  <2>1. (k + 1) + 1 = k + 2
    OBVIOUS
  <2> QED BY <2>1
<1> QED BY <1>1, <1>2, <1>3, <1>4, DataAt

LEMMA ProcessorKeepsData == FlagInv /\ DataInv /\ Processor => DataInv'
<1> SUFFICES ASSUME FlagInv, DataInv, Processor PROVE DataInv'
  OBVIOUS
<1>0. call # Idle /\ IicTimeoutCounter \in Nat /\ UNCHANGED << board, boot >>
  BY DEF FlagInv, Processor, MarkReceive, MarkTransmit, RepeatStart, RestoreOptions, Start, SetAddress,
         Send, Receive, Wait, CheckTimeout, Stop, Now
<1>a. PICK op \in Ops : \E k \in DOMAIN Steps(op) : \E s, n, m :
        /\ Where(op, k) /\ k \in Nat /\ s = Steps(op)[k] /\ n = Steps(op)[k + 1] /\ m = Steps(op)[k + 2]
        /\ Order(op, s, n, m) /\ StepFlags(op, s, n)
        /\ (s # "Stop" => k + 1 \in DOMAIN Steps(op)) /\ \A x : Now(x) => s = x
  BY <1>0, Standing
<1>b. PICK k \in DOMAIN Steps(op) : \E s, n, m :
        /\ Where(op, k) /\ k \in Nat /\ s = Steps(op)[k] /\ n = Steps(op)[k + 1] /\ m = Steps(op)[k + 2]
        /\ Order(op, s, n, m) /\ StepFlags(op, s, n)
        /\ (s # "Stop" => k + 1 \in DOMAIN Steps(op)) /\ \A x : Now(x) => s = x
  BY <1>a
<1>c. PICK s, n, m :
        /\ Where(op, k) /\ k \in Nat /\ s = Steps(op)[k] /\ n = Steps(op)[k + 1] /\ m = Steps(op)[k + 2]
        /\ Order(op, s, n, m) /\ StepFlags(op, s, n)
        /\ (s # "Stop" => k + 1 \in DOMAIN Steps(op)) /\ \A x : Now(x) => s = x
  BY <1>b
<1>1. Order(op, s, n, m) /\ StepFlags(op, s, n) /\ StepData(op, s, n) /\ \A x : Now(x) => s = x
  BY <1>c DEF DataInv
<1>2. ASSUME s # "Stop", GoOn, StepData(op, n, m)' PROVE DataInv'
  BY <1>0, <1>c, <1>2, DataOnwards
<1>3. ASSUME Fail PROVE DataInv'
  BY <1>0, <1>c, <1>3, DataReturned DEF Fail
\* A step that goes on, and says what the chip has done at the next one.
<1>4. GoOn => Took' = Took /\ Gave' = Gave
  BY <1>0, SameTransfer DEF GoOn, board
<1>5. CASE MarkReceive \/ MarkTransmit \/ RepeatStart \/ Start \/ SetAddress
  <2>1. s \in {"MarkReceive", "MarkTransmit", "RepeatStart", "Start", "SetAddress"} /\ (GoOn \/ Fail)
    BY <1>1, <1>5 DEF MarkReceive, MarkTransmit, RepeatStart, Start, SetAddress
  <2>2. n \in {"RepeatStart", "Start", "SetAddress", "MarkTransmit"} \cup Sends
    BY <1>1, <2>1 DEF Order, Sends
  <2>3. StepData(op, n, m)'
    BY <2>2 DEF StepData, Sends
  <2> QED BY <1>2, <1>3, <2>1, <2>3
<1>6. CASE Send
  <2>1. s \in Sends /\ UNCHANGED flags
    BY <1>6, <1>1 DEF Send, Sends
  <2>2. n \in {"WaitTransmit", "WaitTransmitIdle"} /\ TransmitComplete /\ irq = "none" /\ s # "Stop"
    BY <1>1, <2>1 DEF Order, StepFlags, Quiet, Sends, Late
  <2>3. CASE GoOn /\ UNCHANGED irq
    <3>1. StepData(op, n, m)'
      BY <2>1, <2>2, <2>3 DEF StepData, flags
    <3> QED BY <1>2, <2>2, <2>3, <3>1
  <2> QED BY <1>3, <1>6, <2>3 DEF Send
<1>7. CASE Receive
  <2>1. s = "Receive" /\ UNCHANGED flags
    BY <1>7, <1>1 DEF Receive
  <2>2. n = "WaitReceive" /\ ReceiveComplete /\ irq = "none" /\ Took
    BY <1>1, <2>1 DEF Order, StepFlags, StepData, Quiet, Before, Late
  <2>3. CASE GoOn /\ UNCHANGED irq
    <3>1. StepData(op, n, m)'
      BY <1>4, <2>1, <2>2, <2>3 DEF StepData, flags
    <3> QED BY <1>2, <2>1, <2>3, <3>1
  <2> QED BY <1>3, <1>7, <2>3 DEF Receive
<1>8. CASE Wait
  <2>1. s \in {"WaitTransmit", "WaitTransmitIdle", "WaitReceive"} /\ UNCHANGED flags /\ UNCHANGED bus
    BY <1>8, <1>1 DEF Wait
  <2>2. CASE Awaited /\ IicTimeoutCounter <= IIC_TIMEOUT
    <3>1. UNCHANGED << call, at, step, got >>
      BY <1>8, <2>2 DEF Wait, where
    <3>2. Took' = Took /\ Gave' = Gave
      BY <1>0, <3>1, SameTransfer DEF board
    <3>3. StepData(op, s, n)'
      BY <1>1, <2>1, <3>2 DEF StepData, flags, bus
    <3>4. BoardInv'
      BY <1>0, <3>1, SameBoard DEF DataInv, board
    <3>5. CallData'
      <4>1. Reached(call, at) => Reached(call, at)'
        BY <1>0, <3>1, SameReach DEF board
      <4> QED BY <1>0, <3>1, <4>1 DEF DataInv, CallData
    <3>6. Where(op, k)'
      BY <1>c, <3>1 DEF Where
    <3> QED BY <1>c, <3>3, <3>4, <3>5, <3>6, DataAt
  <2>3. CASE ~(Awaited /\ IicTimeoutCounter <= IIC_TIMEOUT)
    <3>1. GoOn /\ UNCHANGED IicTimeoutCounter
      BY <1>8, <2>3 DEF Wait
    <3>2. \/ IicTimeoutCounter > IIC_TIMEOUT
          \/ /\ s \in {"WaitTransmit", "WaitTransmitIdle"} => ~TransmitComplete
             /\ s = "WaitReceive" => ~ReceiveComplete
      <4>1. IicTimeoutCounter > IIC_TIMEOUT \/ ~Awaited
        BY <1>0, <2>3, IICAssumption
      <4>2. Now("WaitTransmit") \/ Now("WaitTransmitIdle") \/ Now("WaitReceive")
        BY <1>8 DEF Wait
      <4> QED BY <1>1, <4>1, <4>2 DEF Awaited
    <3>3. StepData(op, n, m)'
      BY <1>1, <1>4, <2>1, <3>1, <3>2 DEF Order, StepData
    <3>4. s # "Stop"
      BY <2>1
    <3> QED BY <1>2, <3>1, <3>3, <3>4
  <2> QED BY <2>2, <2>3
<1>9. CASE RestoreOptions
  <2>1. s = "RestoreOptions" /\ GoOn /\ UNCHANGED IicTimeoutCounter
    BY <1>9, <1>1 DEF RestoreOptions
  <2>2. StepData(op, n, m)'
    BY <1>1, <1>4, <2>1 DEF Order, StepData
  <2> QED BY <1>2, <2>1, <2>2
<1>10. CASE CheckTimeout
  <2>1. s \in {"CheckTimeout", "CheckWriteTimeout"}
    BY <1>10, <1>1 DEF CheckTimeout
  <2>2. CASE IicTimeoutCounter > IIC_TIMEOUT
    BY <1>3, <1>10, <2>2 DEF CheckTimeout, TimedOut
  <2>3. CASE ~(IicTimeoutCounter > IIC_TIMEOUT)
    <3>1. GoOn
      BY <1>10, <2>3 DEF CheckTimeout
    <3>2. StepData(op, n, m)'
      BY <1>1, <1>4, <2>1, <2>3, <3>1 DEF Order, StepData
    <3>3. s # "Stop"
      BY <2>1
    <3> QED BY <1>2, <3>1, <3>2, <3>3
  <2> QED BY <2>2, <2>3
<1>11. CASE Stop
  <2>1. s = "Stop"
    BY <1>11, <1>1 DEF Stop
  <2>2. Took /\ (op # "IicWriteData" => Gave)
    BY <1>1, <2>1 DEF StepData
  <2>3. CASE Return(TRUE)
    BY <1>0, <1>c, <2>2, <2>3, DataReturned
  <2> QED BY <1>3, <1>11, <2>3 DEF Stop
<1> QED BY <1>5, <1>6, <1>7, <1>8, <1>9, <1>10, <1>11 DEF Processor

LEMMA BeginKeepsData == DataInv /\ (\E c \in Calls : Begin(c)) => DataInv'
<1> SUFFICES ASSUME DataInv, NEW c \in Calls, Begin(c) PROVE DataInv'
  OBVIOUS
<1>1. /\ call' = c /\ at' = 1 /\ step' = 1 /\ boot' = "up" /\ UNCHANGED << got, board >>
  BY DEF Begin
<1>2. BoardInv'
  BY <1>1, SameBoard DEF DataInv, board
<1>3. CallData'
  BY <1>1, ClockDomain DEF CallData, Reached
<1>4. 1 \in DOMAIN Transfers(c) /\ Transfers(c)[1].op \in Ops
  BY TransfersOfCall
<1>5. PICK new \in Ops : new = Transfers(c)[1].op
  BY <1>4
<1>6. Where(new, 1)'
  BY <1>1, <1>4, <1>5 DEF Where
<1>7. 1 \in DOMAIN Steps(new) /\ Steps(new)[1] \in {"MarkTransmit", "MarkReceive"}
  BY FirstStep
<1>8. StepData(new, Steps(new)[1], Steps(new)[1 + 1])'
  BY <1>7 DEF StepData
<1> QED BY <1>2, <1>3, <1>6, <1>7, <1>8, DataAt

\* Before the procedures may be called, and where nothing happens.
LEMMA ApartKeepsData == DataInv /\ (IicInit \/ IicInitPost \/ UNCHANGED vars) => DataInv'
<1> SUFFICES ASSUME DataInv, IicInit \/ IicInitPost \/ UNCHANGED vars PROVE DataInv'
  OBVIOUS
<1>1. UNCHANGED << call, at, step, got, pointer, page, regs, flags, IicTimeoutCounter, bus, buffer >>
  BY DEF IicInit, IicInitPost, vars, where, board
<1>2. BoardInv'
  BY <1>1, SameBoard DEF DataInv
<1>3. CASE call = Idle
  BY <1>1, <1>2, <1>3, DataIdle
<1>4. CASE call # Idle
  <2>1. UNCHANGED vars
    BY <1>4 DEF DataInv, CallData, IicInit, IicInitPost
  <2>2. UNCHANGED switch /\ UNCHANGED boot
    BY <2>1 DEF vars, board
  <2>3. CallData'
    <3>1. Reached(call, at) => Reached(call, at)'
      BY <1>1, <2>2, SameReach
    <3> QED BY <1>1, <2>2, <3>1 DEF DataInv, CallData
  <2>4. Took' = Took /\ Gave' = Gave
    BY <1>1, <2>2, SameTransfer
  <2>5. ASSUME NEW op, NEW s, NEW n, StepData(op, s, n) PROVE StepData(op, s, n)'
    BY <1>1, <2>4, <2>5 DEF StepData, flags, bus
  <2> QED BY <1>1, <1>2, <2>3, <2>5, DataStays
<1> QED BY <1>3, <1>4

LEMMA DataInit == Init => DataInv
<1> SUFFICES ASSUME Init PROVE DataInv
  OBVIOUS
<1>1. /\ call = Idle /\ got = [x \in Items |-> NoData] /\ regs = << >>
      /\ pointer = [c \in Chips |-> 0] /\ page = [a \in PmAddresses |-> 0]
  BY DEF Init
<1>2. CalibratedWhenConfigured
  <2>1. DOMAIN regs = {}
    BY <1>1
  <2> QED BY <2>1 DEF CalibratedWhenConfigured
<1>3. RailsAreTheirOwn
  <2>1. \A i \in 1..NumRails : \A x \in {"voltage", "current", "power"} : got[<< x, i >>] = NoData
    BY <1>1 DEF Items
  <2> QED BY <2>1 DEF RailsAreTheirOwn
<1>4. ReadsAreTheirOwn
  <2>1. /\ \A i \in 1..4 : got[<< "Vendor", i >>] = NoData /\ got[<< "Part", i >>] = NoData
        /\ got[<< "Word", \h0102 >>] = NoData
    BY <1>1 DEF Items
  <2> QED BY <2>1 DEF ReadsAreTheirOwn
<1>5. \A op, k : ~Where(op, k)
  BY <1>1, IdleIsNoCall DEF Where
<1> QED BY <1>1, <1>2, <1>3, <1>4, <1>5 DEF DataInv, BoardInv, CallData

LEMMA DataNext == FlagInv /\ DataInv /\ [Next]_vars => DataInv'
  BY ApartKeepsData, BeginKeepsData, ProcessorKeepsData, BusKeepsData DEF Next

\* The board is what the transfers that succeeded have made it, at every step.
LEMMA BoardIsAsSet == Spec => []DataInv
  BY DataInit, DataNext, FlagsFitTheStep, PTL DEF Spec

\* Whatever fails, times out or is late in this call of config_SI5324 or an earlier
\* one, register 136 is written only when all the others have their values.
THEOREM ClockIsConfigured == Spec => []CalibratedWhenConfigured
<1>1. DataInv => CalibratedWhenConfigured
  BY DEF DataInv, BoardInv
<1> QED BY <1>1, BoardIsAsSet, PTL

\* Every voltage, current and power pmReadInfo holds was read from the rail's own
\* chip while it showed the rail's own page, for any number of rails.
THEOREM RailsAreRead == Spec => []RailsAreTheirOwn
<1>1. DataInv => RailsAreTheirOwn
  BY DEF DataInv, BoardInv
<1> QED BY <1>1, BoardIsAsSet, PTL

\* What sfpReadInfo holds of a cage was read from that cage, and a word of the FMC
\* memory is that of the address asked for, for any cages that have a module.
THEOREM ReadsAreRead == Spec => []ReadsAreTheirOwn
<1>1. DataInv => ReadsAreTheirOwn
  BY DEF DataInv, BoardInv
<1> QED BY <1>1, BoardIsAsSet, PTL
=============================================================================
