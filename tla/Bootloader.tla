------------------------------ MODULE Bootloader ------------------------------
(***************************************************************************)
(* The serial bootloader (STM32F072_BOOT: main.c, menu_uart.c) and a host  *)
(* that upgrades the application through it.                               *)
(*                                                                         *)
(* Two flags in a flash page of the bootloader's own decide what a start   *)
(* does: both marked, it waits two seconds for the host and then starts    *)
(* the application; otherwise it waits for the host for ever.  An upgrade  *)
(* erases the page (message 1), erases the application (message 2),        *)
(* programs it packet by packet (message 3) and asks for its start         *)
(* (message 4).  Power may fail between any two flash operations, requests *)
(* and replies may get lost, and a request may come twice.                 *)
(*                                                                         *)
(* A packet of the model is the unit the application area is erased and    *)
(* programmed in; a packet whose programming was cut short reads Part.     *)
(* The host is outside the repository; it is modelled from what            *)
(* HandleFrameInformation expects: it repeats a message until it is        *)
(* answered, goes on when the answer is positive and starts again when it  *)
(* is not.  An answer names the message, not the packet, it answers.       *)
(***************************************************************************)
EXTENDS Integers

CONSTANTS
  Image,        \* application images
  Packets,      \* data packets of an image
  AppSize,      \* packets that fit the application area
  StartCounts,  \* packet counts a host puts into message 1 (0: none)
  HostAddrs,    \* the device addresses the host tries
  Resumes,      \* where the host may take up an upgrade it abandoned
  MaxMishaps    \* bound: messages lost or sent twice, aborted upgrades and
                \* power failures

ASSUME BootloaderAssumption ==
  /\ Image # {} /\ Packets \in Nat \ {0} /\ AppSize \in Nat /\ Packets <= AppSize
  /\ StartCounts # {} /\ StartCounts \subseteq {0, Packets + 1}
  /\ HostAddrs # {} /\ HostAddrs \subseteq 1 .. 255
  /\ Resumes # {} /\ Resumes \subseteq {"start", "erase", "packet", "execute"}
  /\ MaxMishaps \in Nat

NONE                == 255      \* an erased byte, ERASE_FLAG_NONE, UPGRADE_FLAG_NONE
FLAG                == 12       \* ERASE_FLAG, UPGRADE_FLAG
UPGRADED_DEVICEADDR == 65

PacketTotal == Packets + 1      \* the header is packet 0
Data   == Image \X (1 .. Packets)
Blank  == <<"blank", 0>>
Part   == <<"part", 0>>

Whole(m)   == [i \in 1 .. AppSize |-> IF i <= Packets THEN <<m, i>> ELSE Blank]
IsWhole(a) == \E m \in Image : a = Whole(m)

(* A checksum adds up bytes, so it tells which packets were counted and how *)
(* often, not in which order.                                              *)
ZeroSum    == [d \in Data |-> 0]
SumOf(m)   == [d \in Data |-> IF d[1] = m THEN 1 ELSE 0]

ErasedPage == [dev |-> NONE, erase |-> NONE, upgrade |-> NONE]

VARIABLES
  page,                         \* flash: device address and the two flags
  app,                          \* flash: the application area
  wr,                           \* InFlash_Write_OneByte in progress
  pc,
  Device_Addr, ProgErase, UpgradeWaitTime,          \* ModBus_Param_Obj
  PacketCnt, PacketNum, Flashadrdst,                \* statics of menu_uart.c
  FileCheckSum, FileRunCheckSum,
  cell,                         \* page FLASH_If_Erase is about to erase
  frame,                        \* RX_buf: the packet FLASH_If_Write programs
  req, rsp,                     \* the request and the reply on the line
  host, img, next, addr,        \* the host: what it does, with which image,
  count,                        \* which packet, under which address; the
                                \* count it puts into message 1, always the same
  mishaps,
  begun                         \* observation: an upgrade began since the
                                \* application last ran

flashVars == <<page, app, wr>>
paramVars == <<Device_Addr, ProgErase, UpgradeWaitTime>>
packVars  == <<PacketCnt, PacketNum, Flashadrdst, FileCheckSum, FileRunCheckSum>>
busyVars  == <<cell, frame>>
lineVars  == <<req, rsp>>
hostVars  == <<host, img, next, addr, count>>
vars == <<flashVars, pc, paramVars, packVars, busyVars, lineVars, hostVars, mishaps, begun>>

NoMsg   == [id |-> 0]
NoFrame == <<"none", 0>>

Reply(ok) == rsp' = [id |-> req.id, ok |-> ok]

------------------------------------------------------------------------------
(* InFlash_Write_OneByte on the flag page: read, patch, erase, program the *)
(* address at the start and the flags at the end, which share a halfword.  *)

BeginWrite(field) ==
  wr' = [phase |-> "erase",
         buf   |-> [page EXCEPT ![field] = IF field = "dev" THEN UPGRADED_DEVICEADDR ELSE FLAG]]

Write_OneByte ==
  /\ \/ wr.phase = "erase" /\ page' = ErasedPage
                           /\ wr' = [wr EXCEPT !.phase = "dev"]
     \/ wr.phase = "dev"   /\ page' = [page EXCEPT !.dev = wr.buf.dev]
                           /\ wr' = [wr EXCEPT !.phase = "flags"]
     \/ wr.phase = "flags" /\ page' = [wr.buf EXCEPT !.dev = page.dev]
                           /\ wr' = [wr EXCEPT !.phase = "done"]
  /\ UNCHANGED <<app, pc, paramVars, packVars, busyVars, lineVars, hostVars, mishaps, begun>>

Written == wr.phase = "done"

------------------------------------------------------------------------------
(* main.c                                                                  *)

Boot ==
  /\ pc = "boot"
  /\ pc' = "wait"
  /\ Device_Addr' = page.dev
  /\ ProgErase' = page.erase
  /\ UpgradeWaitTime' = IF page.upgrade = NONE \/ page.erase = NONE THEN -1 ELSE 2
  /\ UNCHANGED <<flashVars, packVars, busyVars, lineVars, hostVars, mishaps, begun>>

(* The first word of the application area, its stack pointer, tells        *)
(* whether there is an application to start; of a packet programmed in     *)
(* part it may be there or not.                                            *)
NoStack  == app[1] \in {Blank, Part}
HasStack == app[1] # Blank

(* On the way to the application main marks the flags, one write each: the *)
(* erase flag unless it was marked already (message 2 marks it too), the   *)
(* upgrade flag and the address.                                           *)
Mark == [leaveErase |-> "erase", leaveUpgrade |-> "upgrade", leaveDev |-> "dev"]

Timeout ==
  /\ pc = "wait" /\ UpgradeWaitTime >= 0
  /\ \/ NoStack /\ pc' = "hang" /\ UNCHANGED wr
     \/ /\ HasStack
        /\ pc' = IF ProgErase # FLAG THEN "leaveErase" ELSE "leaveUpgrade"
        /\ BeginWrite(Mark[pc'])
  /\ UNCHANGED <<page, app, paramVars, packVars, busyVars, lineVars, hostVars, mishaps, begun>>

Leave ==
  /\ Written
  /\ \/ /\ pc \in {"leaveErase", "leaveUpgrade"}
        /\ pc' = IF pc = "leaveErase" THEN "leaveUpgrade" ELSE "leaveDev"
        /\ BeginWrite(Mark[pc'])
        /\ UNCHANGED begun
     \/ /\ pc = "leaveDev"
        /\ pc' = "app" /\ begun' = FALSE
        /\ wr' = [wr EXCEPT !.phase = "idle"]
  /\ UNCHANGED <<page, app, paramVars, packVars, busyVars, lineVars, hostVars, mishaps>>

------------------------------------------------------------------------------
(* HandleFrameInformation                                                  *)

(* A frame for this device that the waiting time lets through.  After a    *)
(* positive answer to message 4 (UpgradeWaitTime 0) main leaves its loop   *)
(* before it looks at another frame.                                       *)
Passes ==
  /\ req.addr = Device_Addr
  /\ UpgradeWaitTime # -1 => req.id \in {1, 4}

Received(id) ==
  /\ pc = "wait" /\ UpgradeWaitTime # 0
  /\ req.id = id /\ Passes
  /\ req' = NoMsg

Dropped ==
  /\ pc = "wait" /\ UpgradeWaitTime # 0
  /\ req # NoMsg /\ ~Passes
  /\ req' = NoMsg
  /\ UNCHANGED <<flashVars, pc, paramVars, packVars, busyVars, rsp, hostVars, mishaps, begun>>

(* Mutant: the flags survive the start of an upgrade.                      *)
FlagsAfterStart_Kept(cnt) == page
FlagsAfterStart(cnt) == IF cnt > 0 THEN ErasedPage ELSE page

StartUpgrade ==
  /\ Received(1)
  /\ UpgradeWaitTime' = -1
  /\ PacketNum' = 0 /\ PacketCnt' = 0
  /\ page' = FlagsAfterStart(req.cnt)
  /\ begun' = TRUE
  /\ Reply(TRUE)
  /\ UNCHANGED <<app, wr, pc, Device_Addr, ProgErase, Flashadrdst, FileCheckSum,
                 FileRunCheckSum, busyVars, hostVars, mishaps>>

EraseProgram ==
  /\ Received(2)
  /\ pc' = "eraseApp" /\ cell' = 1
  /\ begun' = TRUE
  /\ UNCHANGED <<flashVars, paramVars, packVars, frame, rsp, hostVars, mishaps>>

FLASH_If_Erase ==
  /\ pc = "eraseApp" /\ cell <= AppSize
  /\ app' = [app EXCEPT ![cell] = Blank]
  /\ cell' = cell + 1
  /\ UNCHANGED <<page, wr, pc, paramVars, packVars, frame, lineVars, hostVars, mishaps, begun>>

EraseProgram_Mark ==
  /\ pc = "eraseApp" /\ cell > AppSize
  /\ Flashadrdst' = 1
  /\ ProgErase' = FLAG
  /\ BeginWrite("erase")
  /\ pc' = "markErase" /\ cell' = 0
  /\ UNCHANGED <<page, app, Device_Addr, UpgradeWaitTime, PacketCnt, PacketNum,
                 FileCheckSum, FileRunCheckSum, frame, lineVars, hostVars, mishaps, begun>>

EraseProgram_Return ==
  /\ pc = "markErase" /\ Written
  /\ wr' = [wr EXCEPT !.phase = "idle"]
  /\ pc' = "wait"
  /\ rsp' = [id |-> 2, ok |-> TRUE]
  /\ UNCHANGED <<page, app, paramVars, packVars, busyVars, req, hostVars, mishaps, begun>>

(* Message 3.  The header opens a transfer only when none is open; the     *)
(* next packet is programmed, the last one again is only acknowledged.     *)
OpensTransfer(cnt) == PacketNum = 0 /\ cnt = 0
IsNext_Any(cnt)    == PacketNum = PacketTotal        \* mutant: not compared
IsNext(cnt)        == PacketNum = PacketTotal /\ PacketCnt = cnt - 1
IsRepeated(cnt)    == PacketNum = PacketTotal /\ PacketCnt = cnt

ReceiveHeader ==
  /\ Received(3) /\ OpensTransfer(req.cnt)
  /\ FileCheckSum' = SumOf(req.img) /\ FileRunCheckSum' = ZeroSum
  /\ PacketNum' = PacketTotal /\ PacketCnt' = 0
  /\ Reply(TRUE)
  /\ UNCHANGED <<flashVars, pc, paramVars, Flashadrdst, busyVars, hostVars, mishaps, begun>>

(* FLASH_If_Write fails on a place that is not erased; address 0, where    *)
(* Flashadrdst points after a reset, is not in the application area.  Past *)
(* the end of the area it succeeds without writing.                        *)
CanProgram == Flashadrdst > 0 /\ (Flashadrdst <= AppSize => app[Flashadrdst] = Blank)

Programmed(value) == [i \in 1 .. AppSize |-> IF i = Flashadrdst THEN value ELSE app[i]]

ReceivePacket ==
  /\ Received(3) /\ ~OpensTransfer(req.cnt) /\ IsNext(req.cnt)
  /\ \/ /\ CanProgram
        /\ app' = Programmed(Part)
        /\ frame' = <<req.img, req.cnt>>
        /\ pc' = "program"
        /\ UNCHANGED rsp
     \/ ~CanProgram /\ Reply(FALSE) /\ UNCHANGED <<app, frame, pc>>
  /\ UNCHANGED <<page, wr, paramVars, packVars, cell, hostVars, mishaps, begun>>

NextAddr_Message == Flashadrdst + 2  \* mutant: by the message, not its data
NextAddr         == Flashadrdst + 1

FLASH_If_Write ==
  /\ pc = "program"
  /\ app' = Programmed(frame)
  /\ PacketCnt' = PacketCnt + 1
  /\ FileRunCheckSum' = [FileRunCheckSum EXCEPT ![frame] = @ + 1]
  /\ Flashadrdst' = NextAddr
  /\ frame' = NoFrame
  /\ pc' = "wait"
  /\ rsp' = [id |-> 3, ok |-> TRUE]
  /\ UNCHANGED <<page, wr, paramVars, PacketNum, FileCheckSum, cell, req, hostVars,
                 mishaps, begun>>

AcknowledgePacket ==
  /\ Received(3) /\ ~OpensTransfer(req.cnt) /\ ~IsNext(req.cnt)
  /\ Reply(IsRepeated(req.cnt))
  /\ UNCHANGED <<flashVars, pc, paramVars, packVars, busyVars, hostVars, mishaps, begun>>

(* Message 4; the mutant miscounts the packets.                            *)
Complete_OffByOne == FileRunCheckSum = FileCheckSum /\ PacketCnt = PacketNum
Complete == FileRunCheckSum = FileCheckSum /\ PacketCnt + 1 = PacketNum

Executable ==
  \/ PacketNum # 0 /\ Complete
  \/ PacketNum = 0 /\ ProgErase \notin {FLAG, NONE}

Execute ==
  /\ Received(4)
  /\ UpgradeWaitTime' = IF Executable THEN 0 ELSE UpgradeWaitTime
  /\ Reply(Executable)
  /\ UNCHANGED <<flashVars, pc, Device_Addr, ProgErase, packVars, busyVars, hostVars,
                 mishaps, begun>>

------------------------------------------------------------------------------
(* The application, the line and the power                                 *)

LoseRam ==
  /\ pc' = "boot"
  /\ Device_Addr' = 0 /\ ProgErase' = 0 /\ UpgradeWaitTime' = 0
  /\ PacketCnt' = 0 /\ PacketNum' = 0 /\ Flashadrdst' = 0
  /\ FileCheckSum' = ZeroSum /\ FileRunCheckSum' = ZeroSum
  /\ cell' = 0 /\ frame' = NoFrame
  /\ wr' = [phase |-> "idle", buf |-> ErasedPage]
  /\ UNCHANGED <<page, app, hostVars, begun>>

(* ModbusFunc41: the application resets into the bootloader.               *)
AppReset ==
  /\ pc = "app" /\ host = "start" /\ req = NoMsg
  /\ LoseRam
  /\ UNCHANGED <<lineVars, mishaps>>

Mishap == mishaps < MaxMishaps /\ mishaps' = mishaps + 1

PowerFailure == Mishap /\ LoseRam /\ req' = NoMsg /\ rsp' = NoMsg

LoseMessage ==
  /\ Mishap
  /\ \/ req # NoMsg /\ req' = NoMsg /\ UNCHANGED rsp
     \/ rsp # NoMsg /\ rsp' = NoMsg /\ UNCHANGED req
  /\ UNCHANGED <<flashVars, pc, paramVars, packVars, busyVars, hostVars, begun>>

(* Nobody listens: the application runs, or main hangs in its last loop.   *)
Unheard ==
  /\ req # NoMsg /\ pc \in {"app", "hang"}
  /\ req' = NoMsg
  /\ UNCHANGED <<flashVars, pc, paramVars, packVars, busyVars, rsp, hostVars, mishaps, begun>>

------------------------------------------------------------------------------
(* The host                                                                *)

HostBegin ==
  /\ host = "idle"
  /\ host' = "start" /\ next' = 0
  /\ img' \in Image
  /\ UNCHANGED <<flashVars, pc, paramVars, packVars, busyVars, lineVars, addr, count, mishaps, begun>>

Message(id, cnt) == req' = [id |-> id, addr |-> addr', cnt |-> cnt, img |-> img]

(* Unanswered, the host turns to another address it knows of.              *)
OtherAddr == IF HostAddrs = {addr} THEN addr ELSE CHOOSE a \in HostAddrs : a # addr

Request ==
  /\ req = NoMsg
  /\ addr' = OtherAddr
  /\ \/ host = "start"   /\ Message(1, count)
     \/ host = "erase"   /\ Message(2, 0)
     \/ host = "packet"  /\ Message(3, next)
     \/ host = "execute" /\ Message(4, 0)
  /\ UNCHANGED <<flashVars, pc, paramVars, packVars, busyVars, rsp, host, img, next, count, begun>>

Quiet == rsp = NoMsg /\ pc \notin {"eraseApp", "markErase", "program"}

HostSend   == Quiet /\ Request /\ UNCHANGED mishaps
HostResend == ~Quiet /\ Request /\ Mishap

AfterReply ==
  CASE ~rsp.ok                             -> "start"
    [] rsp.ok /\ host = "start"            -> "erase"
    [] rsp.ok /\ host = "erase"            -> "packet"
    [] rsp.ok /\ host = "packet"           -> IF next = Packets THEN "execute" ELSE "packet"
    [] rsp.ok /\ host = "execute"          -> "idle"

(* The host believes a reply to the message it sent last.                  *)
Expected == [idle |-> 0, start |-> 1, erase |-> 2, packet |-> 3, execute |-> 4]

HostReceive ==
  /\ rsp # NoMsg
  /\ rsp' = NoMsg
  /\ IF rsp.id = Expected[host]
       THEN /\ host' = AfterReply
            /\ next' = IF rsp.ok /\ host = "packet" /\ next < Packets THEN next + 1 ELSE 0
       ELSE UNCHANGED <<host, next>>
  /\ UNCHANGED <<flashVars, pc, paramVars, packVars, busyVars, req, img, addr, count, mishaps, begun>>

(* The operator starts over, or from a later message, with the same image  *)
(* or another.                                                             *)
HostAbort ==
  /\ Mishap /\ host # "idle" /\ req = NoMsg
  /\ host' \in Resumes /\ next' = 0
  /\ img' \in Image
  /\ UNCHANGED <<flashVars, pc, paramVars, packVars, busyVars, lineVars, addr, count, begun>>

------------------------------------------------------------------------------
(* A device in service: a whole application and the flags a boot leaves.   *)
Init ==
  /\ page = [dev |-> UPGRADED_DEVICEADDR, erase |-> FLAG, upgrade |-> FLAG]
  /\ \E m \in Image : app = Whole(m)
  /\ wr = [phase |-> "idle", buf |-> ErasedPage]
  /\ pc = "boot"
  /\ Device_Addr = 0 /\ ProgErase = 0 /\ UpgradeWaitTime = 0
  /\ PacketCnt = 0 /\ PacketNum = 0 /\ Flashadrdst = 0
  /\ FileCheckSum = ZeroSum /\ FileRunCheckSum = ZeroSum
  /\ cell = 0 /\ frame = NoFrame
  /\ req = NoMsg /\ rsp = NoMsg
  /\ host = "idle" /\ img \in Image /\ next = 0 /\ addr \in HostAddrs
  /\ count \in StartCounts
  /\ mishaps = 0
  /\ begun = FALSE

Device ==
  \/ Write_OneByte \/ Boot \/ Timeout \/ Leave
  \/ Dropped \/ StartUpgrade \/ EraseProgram \/ FLASH_If_Erase \/ EraseProgram_Mark
  \/ EraseProgram_Return \/ ReceiveHeader \/ ReceivePacket \/ FLASH_If_Write
  \/ AcknowledgePacket \/ Execute

Next == Device \/ AppReset \/ PowerFailure \/ LoseMessage \/ Unheard
          \/ HostBegin \/ HostSend \/ HostResend \/ HostReceive \/ HostAbort

Spec == Init /\ [][Next]_vars

(* The processor runs, the host repeats and reads answers, and an operator *)
(* upgrades a device that does not come up.                                *)
OperatorUpgrades == pc = "wait" /\ HostBegin

FairSpec ==
  /\ Spec
  /\ WF_vars(Device) /\ WF_vars(Unheard)
  /\ WF_vars(HostSend) /\ WF_vars(HostReceive) /\ WF_vars(OperatorUpgrades)

------------------------------------------------------------------------------
(* The states main.c, menu_uart.c and the host are ever in: the packet     *)
(* counters stay within the image announced, and a write of the flag page  *)
(* is in progress exactly where main.c or message 2 waits for one.         *)
Busy == {"markErase", "leaveErase", "leaveUpgrade", "leaveDev"}

TypeOK ==
  /\ page \in [dev : {NONE, UPGRADED_DEVICEADDR}, erase : {NONE, FLAG},
               upgrade : {NONE, FLAG}]
  /\ app \in [1 .. AppSize -> Data \cup {Blank, Part}]
  /\ wr.phase \in {"idle", "erase", "dev", "flags", "done"}
  /\ wr.phase # "idle" <=> pc \in Busy
  /\ pc \in {"boot", "wait", "eraseApp", "program", "app", "hang"} \cup Busy
  /\ Device_Addr \in {0, NONE, UPGRADED_DEVICEADDR}
  /\ ProgErase \in {0, NONE, FLAG}
  /\ UpgradeWaitTime \in {-1, 0, 2}
  /\ PacketNum \in {0, PacketTotal} /\ PacketCnt \in 0 .. Packets
  /\ Flashadrdst \in 0 .. AppSize + 1
  /\ cell \in 0 .. AppSize + 1 /\ frame \in Data \cup {NoFrame}
  /\ host \in {"idle", "start", "erase", "packet", "execute"}
  /\ img \in Image /\ next \in 0 .. Packets /\ addr \in HostAddrs
  /\ count \in StartCounts /\ mishaps \in 0 .. MaxMishaps

(* When message 4 is answered positively, the application area holds every *)
(* packet of the image the header announced, in its place: whatever was    *)
(* lost, repeated, aborted or cut off by a power failure on the way.  This *)
(* is for hosts that take up an abandoned upgrade at message 1 or ask for  *)
(* its start, Resumes \subseteq {"start", "execute"}: message 2 or 3 taken *)
(* up on its own meets the counters and the checksum of the one before.    *)
ExecMeansWhole ==
  pc = "wait" /\ UpgradeWaitTime = 0 =>
    \E m \in Image : FileCheckSum = SumOf(m) /\ app = Whole(m)

(* Upgraded by a host that announces the packet count in message 1, which  *)
(* is what erases the flags, the bootloader never starts a part of an      *)
(* image or a mixture of two, ...                                          *)
BootsOnlyWhole == count > 0 /\ pc = "app" => IsWhole(app)

(* ... it never finds, with the flags marked, that there is nothing to     *)
(* start, where only a power cycle gets main.c out of its last loop, ...   *)
NeverHangs == count > 0 => pc # "hang"

(* ... and a device that waits for the host for ever gets an application   *)
(* again.                                                                  *)
RecoversByUpgrade ==
  (count > 0 /\ pc = "wait" /\ UpgradeWaitTime = -1) ~> (pc = "app")

(* The comments over the two flag writes: where there is an application,   *)
(* the flags are marked.  So a device that ran an application, and was not *)
(* asked to upgrade since, starts it again by itself.                      *)
MarkedWhenWhole ==
  pc = "wait" /\ ~begun /\ IsWhole(app) => UpgradeWaitTime # -1
==============================================================================
