--------------------------- MODULE BootloaderProofs ---------------------------
(***************************************************************************)
(* For every set of images, number of packets, size of the application     *)
(* area and number of mishaps, and for hosts that take up an abandoned     *)
(* upgrade at its start or its end: only a whole image is granted and      *)
(* started, and main never hangs.                                          *)
(***************************************************************************)
EXTENDS Bootloader, TLAPS

Requests == [id : 1 .. 4, addr : HostAddrs, cnt : 0 .. PacketTotal, img : Image]
Replies  == [id : 1 .. 4, ok : BOOLEAN]
Pages    == [dev : {NONE, UPGRADED_DEVICEADDR}, erase : {NONE, FLAG}, upgrade : {NONE, FLAG}]

FlashTypes ==
  /\ page \in Pages
  /\ wr \in [phase : {"idle", "erase", "dev", "flags", "done"}, buf : Pages]
  /\ wr.phase # "idle" <=> pc \in Busy
  /\ app \in [1 .. AppSize -> Data \cup {Blank, Part}]
RamTypes ==
  /\ pc \in {"boot", "wait", "eraseApp", "program", "app", "hang"} \cup Busy
  /\ Device_Addr \in {0, NONE, UPGRADED_DEVICEADDR}
  /\ ProgErase \in {0, NONE, FLAG} /\ (pc # "boot" => ProgErase # 0)
  /\ UpgradeWaitTime \in {-1, 0, 2}
  /\ pc \in {"eraseApp", "markErase", "program"} => UpgradeWaitTime = -1
  /\ PacketNum \in {0, PacketTotal} /\ PacketCnt \in 0 .. Packets
  /\ Flashadrdst \in 0 .. AppSize + 1
  /\ FileCheckSum \in [Data -> Nat] /\ FileRunCheckSum \in [Data -> Nat]
  /\ cell \in 0 .. AppSize + 1 /\ frame \in Data \cup {NoFrame}
LineTypes ==
  /\ req = NoMsg \/ req \in Requests
  /\ req.id = 1 => req.cnt = count
  /\ req.id = 3 => req.cnt <= Packets
  /\ rsp = NoMsg \/ rsp \in Replies
  /\ host \in {"idle", "start", "erase", "packet", "execute"}
  /\ img \in Image /\ next \in 0 .. Packets /\ addr \in HostAddrs
  /\ count \in StartCounts /\ mishaps \in 0 .. MaxMishaps
Types == FlashTypes /\ RamTypes /\ LineTypes

Opened  == PacketNum = PacketTotal
Erasing == pc \in {"eraseApp", "markErase"}
Clear   == \A i \in 1 .. AppSize : app[i] = Blank
Fresh   == Flashadrdst = 0 \/ (Flashadrdst = 1 /\ Clear)
Ready   == Opened \/ Erasing \/ Fresh

(* The packets acknowledged are in their places, and only they.            *)
Filled ==
  /\ \A i \in 1 .. AppSize :
       IF i <= PacketCnt THEN app[i] \in Data /\ app[i][2] = i
       ELSE app[i] = Blank \/ (pc = "program" /\ i = Flashadrdst)
  /\ \A d \in Data : FileRunCheckSum[d] = IF d[2] <= PacketCnt /\ app[d[2]] = d THEN 1 ELSE 0

(* An open transfer, and what leads to one.                                *)
InPlace ==
  Opened =>
    /\ \E m \in Image : FileCheckSum = SumOf(m)
    /\ Flashadrdst = 0 => PacketCnt = 0
    /\ Flashadrdst # 0 => Flashadrdst = PacketCnt + 1 /\ Filled
Programming ==
  pc = "program" =>
    /\ Opened /\ Flashadrdst # 0 /\ app[Flashadrdst] = Part
    /\ frame \in Data /\ frame[2] = PacketCnt + 1
Erasure ==
  /\ pc = "eraseApp" => cell > 0 /\ \A i \in 1 .. AppSize : i < cell => app[i] = Blank
  /\ pc = "markErase" => Flashadrdst = 1 /\ Clear
Transfer == InPlace /\ Programming /\ Erasure /\ ExecMeansWhole

(* No message erases an open transfer, and a header finds the area erased: *)
(* what is in the line's two places, and what the host does next, lag      *)
(* behind the device by no more than this.                                 *)
Talk ==
  /\ rsp.id = 1 \/ req.id = 2 \/ host = "erase" \/ Erasing => ~Opened
  /\ rsp.id = 2 \/ req.id = 3 \/ host = "packet" => Ready
  /\ host = "erase" => req.id # 3
  /\ host \in {"idle", "start"} /\ req.id = 3 => rsp.id # 1
  /\ host = "packet" /\ req.id = 1 => ~Opened

(* The upgrade flag certifies the application, and is gone before anything *)
(* that leads to an erasure is on its way.                                 *)
Leaving   == {"leaveErase", "leaveUpgrade", "leaveDev"}
InService == pc \in Leaving \cup {"app"} \/ (pc = "wait" /\ UpgradeWaitTime >= 0)
Danger    == rsp.id = 1 \/ req.id = 2 \/ host = "erase"
Service ==
  count > 0 =>
    /\ IsWhole(app) \/ page.upgrade = NONE
    /\ InService => IsWhole(app) /\ ~Danger
    /\ pc # "hang"
    /\ Danger \/ Erasing => page.upgrade = NONE
    /\ pc = "markErase" => wr.buf.upgrade = NONE

IInv == Types /\ Transfer /\ Talk /\ Service
------------------------------------------------------------------------------
(* The initial states and the steps, one part of the invariant at a time.  *)

(* An area with a packet missing is not whole, one with all packets of the *)
(* announced sum in place is.                                              *)
LEMMA MissingIsNotWhole ==
  ASSUME NEW i \in 1 .. Packets, app[i] \in {Blank, Part}
  PROVE  ~IsWhole(app)
<1> SUFFICES ASSUME NEW m \in Image, app = Whole(m) PROVE FALSE
  BY DEF IsWhole
<1>1. app[i] = <<m, i>>
  BY BootloaderAssumption DEF Whole
<1>2. i # 0
  BY BootloaderAssumption
<1> QED BY <1>1, <1>2 DEF Blank, Part

LEMMA CompleteIsWhole ==
  ASSUME Types, Transfer, Opened, Complete
  PROVE  \E m \in Image : FileCheckSum = SumOf(m) /\ app = Whole(m)
<1>1. PacketCnt = Packets /\ PacketCnt # 0
  BY BootloaderAssumption DEF Complete, Opened, PacketTotal, Types, FlashTypes, RamTypes,
       LineTypes
<1>2. Filled
  BY <1>1 DEF Transfer, InPlace
<1>3. PICK m \in Image : FileCheckSum = SumOf(m)
  BY DEF Transfer, InPlace
<1>4. \A i \in 1 .. Packets : app[i] = <<m, i>>
  <2> TAKE i \in 1 .. Packets
  <2>1. <<m, i>> \in Data /\ <<m, i>>[2] = i /\ <<m, i>>[1] = m
    BY DEF Data
  <2>2. FileRunCheckSum[<<m, i>>] = 1
    BY <1>3, <2>1 DEF Complete, SumOf
  <2>3. app[<<m, i>>[2]] = <<m, i>>
    BY <1>2, <2>1, <2>2 DEF Filled
  <2> QED BY <2>1, <2>3
<1>5. pc # "program"
  BY <1>1, BootloaderAssumption DEF Transfer, Programming, Data
<1>6. \A i \in 1 .. AppSize : app[i] = IF i <= Packets THEN <<m, i>> ELSE Blank
  BY <1>1, <1>2, <1>4, <1>5, BootloaderAssumption DEF Filled
<1>7. app = [i \in 1 .. AppSize |-> app[i]]
  BY DEF Types, FlashTypes, RamTypes, LineTypes
<1> QED BY <1>3, <1>6, <1>7 DEF Whole

LEMMA TransferKept ==
  ASSUME Transfer, UNCHANGED <<app, packVars, busyVars>>,
         pc' = pc \/ (pc # "program" /\ pc' \notin {"eraseApp", "markErase", "program"}),
         pc' = "wait" /\ UpgradeWaitTime' = 0 => pc = "wait" /\ UpgradeWaitTime = 0
  PROVE  Transfer'
<1> USE DEF packVars, busyVars, Transfer
<1>1. Filled => Filled'
  BY DEF Filled
<1>2. Opened' = Opened /\ (Clear => Clear')
  BY DEF Opened, Clear
<1>3. ExecMeansWhole'
  BY DEF ExecMeansWhole
<1>4. InPlace' /\ Programming'
  BY <1>1, <1>2 DEF InPlace, Programming
<1>5. Erasure'
  BY <1>2 DEF Erasure
<1> QED BY <1>3, <1>4, <1>5

LEMMA HeaderTransfer ==
  ASSUME IInv, ReceiveHeader
  PROVE  Transfer'
<1>1. pc' = "wait" /\ UpgradeWaitTime' # 0 /\ req.id = 3 /\ PacketNum = 0
  BY DEF ReceiveHeader, Received, OpensTransfer, paramVars
<1>2. Fresh
  BY <1>1, BootloaderAssumption DEF IInv, Talk, Ready, Opened, Erasing, PacketTotal,
       ReceiveHeader, Received
<1>3. /\ PacketCnt' = 0 /\ UNCHANGED <<app, Flashadrdst>>
      /\ FileCheckSum' = SumOf(req.img) /\ FileRunCheckSum' = ZeroSum
  BY DEF ReceiveHeader, flashVars
<1>4. req.img \in Image
  BY <1>1 DEF IInv, Types, LineTypes, NoMsg, Requests
<1>5. Clear => Filled'
  <2> SUFFICES ASSUME Clear PROVE Filled'
    OBVIOUS
  <2>1. \A i \in 1 .. AppSize : ~(i <= PacketCnt') /\ app'[i] = Blank
    BY <1>3 DEF Clear
  <2>2. \A d \in Data : ~(d[2] <= PacketCnt') /\ FileRunCheckSum'[d] = 0
    BY <1>3 DEF Data, ZeroSum
  <2> QED BY <2>1, <2>2 DEF Filled
<1>6. InPlace'
  BY <1>2, <1>3, <1>4, <1>5 DEF InPlace, Fresh
<1> QED BY <1>1, <1>6 DEF Transfer, Programming, Erasure, ExecMeansWhole

LEMMA PacketTransfer ==
  ASSUME IInv, ReceivePacket
  PROVE  Transfer'
<1>0. Types /\ Transfer
  BY DEF IInv
<1>1. CASE pc' # "program"
  BY <1>0, <1>1, TransferKept DEF ReceivePacket, Received, paramVars, busyVars
<1>2. CASE pc' = "program"
  <2>1. /\ CanProgram /\ Opened /\ PacketCnt = req.cnt - 1 /\ req.id = 3 /\ pc = "wait"
        /\ app' = Programmed(Part) /\ frame' = <<req.img, req.cnt>> /\ UNCHANGED packVars
    BY <1>2 DEF ReceivePacket, IsNext, Opened, Received
  <2>2. req.img \in Image /\ req.cnt \in 0 .. Packets /\ PacketCnt \in 0 .. Packets
    BY <1>0, <2>1, BootloaderAssumption DEF Types, FlashTypes, RamTypes, LineTypes, NoMsg,
         Requests, PacketTotal
  <2>3. frame' \in Data /\ frame'[2] = PacketCnt + 1
    BY <2>1, <2>2, BootloaderAssumption DEF Data
  <2>4. Flashadrdst # 0 /\ Flashadrdst = PacketCnt + 1 /\ Filled
    BY <1>0, <2>1 DEF CanProgram, Transfer, InPlace, Types, FlashTypes, RamTypes, LineTypes
  <2>5. \A i \in 1 .. AppSize : app'[i] = IF i = Flashadrdst THEN Part ELSE app[i]
    BY <2>1 DEF Programmed
  <2>6. \A i \in 1 .. AppSize : IF i <= PacketCnt THEN app'[i] \in Data /\ app'[i][2] = i
                                ELSE app'[i] = Blank \/ i = Flashadrdst
    BY <2>1, <2>2, <2>4, <2>5 DEF Filled
  <2>7. \A d \in Data : FileRunCheckSum[d] = IF d[2] <= PacketCnt /\ app'[d[2]] = d THEN 1 ELSE 0
    <3> TAKE d \in Data
    <3>1. d[2] \in 1 .. AppSize
      BY BootloaderAssumption DEF Data
    <3>2. d[2] <= PacketCnt => app'[d[2]] = app[d[2]]
      BY <2>2, <2>4, <2>5, <3>1
    <3> QED BY <2>4, <3>2 DEF Filled
  <2>8. Filled'
    BY <1>2, <2>1, <2>6, <2>7 DEF Filled, packVars
  <2>9. app'[Flashadrdst] = Part
    BY <2>2, <2>4, <2>5, <2>3, BootloaderAssumption DEF Data
  <2>10. InPlace' /\ Programming'
    BY <1>0, <2>1, <2>3, <2>4, <2>8, <2>9 DEF Transfer, InPlace, Programming, Opened,
         packVars
  <2> QED BY <1>2, <2>10 DEF Transfer, Erasure, ExecMeansWhole
<1> QED BY <1>1, <1>2

LEMMA ProgramTransfer ==
  ASSUME IInv, FLASH_If_Write
  PROVE  Transfer'
<1>1. /\ PacketCnt' = PacketCnt + 1 /\ Flashadrdst' = Flashadrdst + 1 /\ pc = "program" /\ pc' = "wait"
      /\ app' = Programmed(frame) /\ UNCHANGED <<PacketNum, FileCheckSum, UpgradeWaitTime>>
      /\ FileRunCheckSum' = [FileRunCheckSum EXCEPT ![frame] = @ + 1]
  BY DEF FLASH_If_Write, NextAddr, paramVars
<1>2. /\ Opened /\ Flashadrdst = PacketCnt + 1 /\ Filled
      /\ frame \in Data /\ frame[2] = Flashadrdst
      /\ \E m \in Image : FileCheckSum = SumOf(m)
  BY <1>1 DEF IInv, Transfer, InPlace, Programming
<1>3. PacketCnt \in Nat /\ Flashadrdst \in 1 .. AppSize /\ FileRunCheckSum \in [Data -> Nat]
  BY <1>2, BootloaderAssumption DEF IInv, Types, FlashTypes, RamTypes, LineTypes, Data
<1>4. \A i \in 1 .. AppSize : app'[i] = IF i = Flashadrdst THEN frame ELSE app[i]
  BY <1>1 DEF Programmed
<1>5. \A i \in 1 .. AppSize : IF i <= PacketCnt' THEN app'[i] \in Data /\ app'[i][2] = i
                              ELSE app'[i] = Blank
  BY <1>1, <1>2, <1>3, <1>4 DEF Filled
<1>6. \A d \in Data : FileRunCheckSum'[d] = IF d[2] <= PacketCnt' /\ app'[d[2]] = d THEN 1 ELSE 0
  <2> TAKE d \in Data
  <2>1. d[2] \in 1 .. AppSize
    BY BootloaderAssumption DEF Data
  <2>2. CASE d = frame
    BY <1>1, <1>2, <1>3, <1>4, <2>1, <2>2 DEF Filled
  <2>3. CASE d # frame
    <3>1. FileRunCheckSum'[d] = FileRunCheckSum[d]
      BY <1>1, <1>3, <2>3
    <3>2. d[2] = Flashadrdst => app'[d[2]] # d /\ FileRunCheckSum[d] = 0
      BY <1>2, <1>3, <1>4, <2>1, <2>3 DEF Filled
    <3>3. d[2] # Flashadrdst => app'[d[2]] = app[d[2]]
      BY <1>4, <2>1
    <3>4. d[2] # Flashadrdst => (d[2] <= PacketCnt' <=> d[2] <= PacketCnt)
      BY <1>1, <1>2, <1>3, <2>1
    <3>5. FileRunCheckSum[d] = IF d[2] <= PacketCnt /\ app[d[2]] = d THEN 1 ELSE 0
      BY <1>2 DEF Filled
    <3> QED BY <3>1, <3>2, <3>3, <3>4, <3>5
  <2> QED BY <2>2, <2>3
<1>7. Filled'
  BY <1>5, <1>6 DEF Filled
<1>8. InPlace'
  BY <1>1, <1>2, <1>3, <1>7 DEF InPlace
<1>9. UpgradeWaitTime' # 0
  BY <1>1 DEF IInv, Types, RamTypes
<1> QED BY <1>1, <1>8, <1>9 DEF Transfer, Programming, Erasure, ExecMeansWhole

LEMMA ExecuteTransfer ==
  ASSUME IInv, Execute
  PROVE  Transfer'
<1>0. Types /\ Transfer /\ pc = "wait" /\ UpgradeWaitTime # 0
  BY DEF IInv, Execute, Received
<1>1. CASE ~Executable
  BY <1>0, <1>1, TransferKept DEF Execute, flashVars
<1>2. CASE Executable
  <2>1. Opened /\ Complete
    BY <1>0, <1>2, BootloaderAssumption DEF Executable, Types, FlashTypes, RamTypes,
         LineTypes, Opened
  <2>2. ExecMeansWhole'
    BY <1>0, <2>1, CompleteIsWhole DEF ExecMeansWhole, Execute, flashVars, packVars
  <2>3. InPlace'
    BY <1>0 DEF Execute, Transfer, InPlace, Opened, Filled, flashVars, packVars, busyVars
  <2> QED BY <1>0, <2>2, <2>3 DEF Execute, Transfer, Programming, Erasure
<1> QED BY <1>1, <1>2

LEMMA TransferStep ==
  ASSUME IInv, [Next]_vars
  PROVE  Transfer'
<1>0. Types /\ Transfer /\ Talk
  BY DEF IInv
<1>1. CASE Write_OneByte
  BY <1>0, <1>1, TransferKept DEF Write_OneByte, paramVars, packVars, busyVars
<1>2. CASE Boot
  BY <1>0, <1>2, TransferKept DEF Boot, flashVars, packVars, busyVars
<1>3. CASE Timeout
  BY <1>0, <1>3, TransferKept DEF Timeout, paramVars, packVars, busyVars
<1>4. CASE Leave
  BY <1>0, <1>4, TransferKept DEF Leave, paramVars, packVars, busyVars
<1>5. CASE Dropped
  BY <1>0, <1>5, TransferKept DEF Dropped, flashVars, paramVars, packVars, busyVars
<1>6. CASE StartUpgrade
  BY <1>0, <1>6, BootloaderAssumption DEF StartUpgrade, Received, busyVars, PacketTotal,
       Transfer, InPlace, Programming, Erasure, ExecMeansWhole, Opened
<1>7. CASE EraseProgram
  BY <1>0, <1>7, BootloaderAssumption DEF EraseProgram, Received, Talk, packVars,
       Transfer, InPlace, Programming, Erasure, ExecMeansWhole, Opened
<1>8. CASE FLASH_If_Erase
  BY <1>0, <1>8, BootloaderAssumption DEF FLASH_If_Erase, packVars, Types, FlashTypes,
       RamTypes, LineTypes, Talk, Erasing, Transfer, InPlace, Programming, Erasure,
       ExecMeansWhole, Opened
<1>9. CASE EraseProgram_Mark
  BY <1>0, <1>9, BootloaderAssumption DEF EraseProgram_Mark, Types, FlashTypes, RamTypes,
       LineTypes, Talk, Erasing, Clear, Transfer, InPlace, Programming, Erasure,
       ExecMeansWhole, Opened
<1>10. CASE EraseProgram_Return
  BY <1>0, <1>10, TransferKept DEF EraseProgram_Return, Types, RamTypes, paramVars,
       packVars, busyVars
<1>11. CASE ReceiveHeader
  BY <1>0, <1>11, HeaderTransfer DEF IInv
<1>12. CASE ReceivePacket
  BY <1>0, <1>12, PacketTransfer DEF IInv
<1>13. CASE FLASH_If_Write
  BY <1>0, <1>13, ProgramTransfer DEF IInv
<1>14. CASE AcknowledgePacket
  BY <1>0, <1>14, TransferKept DEF AcknowledgePacket, flashVars, paramVars, packVars,
       busyVars
<1>15. CASE Execute
  BY <1>0, <1>15, ExecuteTransfer DEF IInv
<1>16. CASE AppReset
  BY <1>0, <1>16, BootloaderAssumption DEF AppReset, LoseRam, PacketTotal, Transfer,
       InPlace, Programming, Erasure, ExecMeansWhole, Opened
<1>17. CASE PowerFailure
  BY <1>0, <1>17, BootloaderAssumption DEF PowerFailure, LoseRam, PacketTotal, Transfer,
       InPlace, Programming, Erasure, ExecMeansWhole, Opened
<1>18. CASE LoseMessage
  BY <1>0, <1>18, TransferKept DEF LoseMessage, flashVars, paramVars, packVars, busyVars
<1>19. CASE Unheard
  BY <1>0, <1>19, TransferKept DEF Unheard, flashVars, paramVars, packVars, busyVars
<1>20. CASE HostBegin
  BY <1>0, <1>20, TransferKept DEF HostBegin, flashVars, paramVars, packVars, busyVars
<1>21. CASE HostSend
  BY <1>0, <1>21, TransferKept DEF HostSend, Request, flashVars, paramVars, packVars,
       busyVars
<1>22. CASE HostResend
  BY <1>0, <1>22, TransferKept DEF HostResend, Request, flashVars, paramVars, packVars,
       busyVars
<1>23. CASE HostReceive
  BY <1>0, <1>23, TransferKept DEF HostReceive, flashVars, paramVars, packVars, busyVars
<1>24. CASE HostAbort
  BY <1>0, <1>24, TransferKept DEF HostAbort, flashVars, paramVars, packVars, busyVars
<1>25. CASE UNCHANGED vars
  BY <1>0, <1>25, TransferKept DEF vars, flashVars, paramVars
<1> QED BY <1>1, <1>2, <1>3, <1>4, <1>5, <1>6, <1>7, <1>8, <1>9, <1>10, <1>11, <1>12,
     <1>13, <1>14, <1>15, <1>16, <1>17, <1>18, <1>19, <1>20, <1>21, <1>22, <1>23, <1>24, <1>25
     DEF Next, Device

LEMMA WriteTypes ==
  ASSUME FlashTypes, NEW field \in {"dev", "erase", "upgrade"}, BeginWrite(field)
  PROVE  wr' \in [phase : {"idle", "erase", "dev", "flags", "done"}, buf : Pages] /\ wr'.phase = "erase"
  BY DEF FlashTypes, BeginWrite, Pages, NONE, FLAG, UPGRADED_DEVICEADDR

LEMMA FlashTypesStep ==
  ASSUME IInv, [Next]_vars
  PROVE  FlashTypes'
<1>0. FlashTypes
  BY DEF IInv, Types
<1>1. CASE Write_OneByte
  <2>1. page' \in Pages
    BY <1>0, <1>1 DEF Write_OneByte, FlashTypes, ErasedPage, Pages, NONE, FLAG,
         UPGRADED_DEVICEADDR
  <2>2. wr'.phase \in {"dev", "flags", "done"} /\ wr' = [wr EXCEPT !.phase = wr'.phase] /\ wr.phase # "idle"
    BY <1>0, <1>1 DEF Write_OneByte, FlashTypes
  <2>3. wr' \in [phase : {"idle", "erase", "dev", "flags", "done"}, buf : Pages]
    BY <1>0, <2>2 DEF FlashTypes
  <2> QED BY <1>0, <1>1, <2>1, <2>2, <2>3 DEF Write_OneByte, FlashTypes
<1>2. CASE Boot
  BY <1>0, <1>2 DEF Boot, flashVars, FlashTypes, Busy
<1>3. CASE Timeout
  <2>1. CASE pc' = "hang"
    BY <1>0, <1>3, <2>1 DEF Timeout, FlashTypes, Busy, BeginWrite, Mark
  <2>2. CASE pc' \in DOMAIN Mark /\ BeginWrite(Mark[pc'])
    BY <1>0, <1>3, <2>2, WriteTypes DEF Timeout, FlashTypes, Busy, Mark
  <2> QED BY <1>0, <1>3, <2>1, <2>2 DEF Timeout, Mark
<1>4. CASE Leave
  <2>1. CASE pc' = "app"
    <3>1. wr' = [wr EXCEPT !.phase = "idle"] /\ pc' \notin Busy /\ UNCHANGED <<page, app>>
      BY <1>0, <1>4, <2>1 DEF Leave, Busy
    <3> QED BY <1>0, <3>1 DEF FlashTypes
  <2>2. CASE pc' \in DOMAIN Mark /\ BeginWrite(Mark[pc'])
    BY <1>0, <1>4, <2>2, WriteTypes DEF Leave, FlashTypes, Busy, Mark
  <2> QED BY <1>0, <1>4, <2>1, <2>2 DEF Leave, Mark
<1>5. CASE StartUpgrade
  BY <1>0, <1>5 DEF StartUpgrade, Received, FlagsAfterStart, ErasedPage, FlashTypes,
       Pages, Busy, NONE, FLAG, UPGRADED_DEVICEADDR
<1>6. CASE EraseProgram
  BY <1>0, <1>6 DEF EraseProgram, Received, flashVars, FlashTypes, Busy
<1>7. CASE FLASH_If_Erase
  <2>1. app' \in [1 .. AppSize -> Data \cup {Blank, Part}]
    BY <1>0, <1>7 DEF FLASH_If_Erase, FlashTypes
  <2> QED BY <1>0, <1>7, <2>1 DEF FLASH_If_Erase, FlashTypes
<1>8. CASE EraseProgram_Mark
  BY <1>0, <1>8, WriteTypes DEF EraseProgram_Mark, FlashTypes, Busy
<1>9. CASE EraseProgram_Return
  <2>1. wr' = [wr EXCEPT !.phase = "idle"] /\ pc' \notin Busy /\ UNCHANGED <<page, app>>
    BY <1>0, <1>9 DEF EraseProgram_Return, Busy
  <2> QED BY <1>0, <2>1 DEF FlashTypes
<1>10. CASE ReceivePacket
  <2>1. app' \in [1 .. AppSize -> Data \cup {Blank, Part}]
    BY <1>0, <1>10 DEF ReceivePacket, Programmed, FlashTypes
  <2>2. pc \notin Busy /\ pc' \notin Busy
    BY <1>0, <1>10 DEF ReceivePacket, Received, Busy
  <2> QED BY <1>0, <1>10, <2>1, <2>2 DEF ReceivePacket, FlashTypes
<1>11. CASE FLASH_If_Write
  <2>1. app' \in [1 .. AppSize -> Data \cup {Blank, Part}]
    BY <1>0, <1>11 DEF FLASH_If_Write, Programmed, FlashTypes, IInv, Transfer, Programming
  <2>2. pc \notin Busy /\ pc' \notin Busy
    BY <1>0, <1>11 DEF FLASH_If_Write, Busy
  <2> QED BY <1>0, <1>11, <2>1, <2>2 DEF FLASH_If_Write, FlashTypes
<1>12. CASE AppReset
  BY <1>0, <1>12 DEF AppReset, LoseRam, ErasedPage, FlashTypes, Pages, Busy, NONE, FLAG,
       UPGRADED_DEVICEADDR
<1>13. CASE PowerFailure
  BY <1>0, <1>13 DEF PowerFailure, LoseRam, ErasedPage, FlashTypes, Pages, Busy, NONE,
       FLAG, UPGRADED_DEVICEADDR
<1>14. CASE Dropped \/ ReceiveHeader \/ AcknowledgePacket \/ Execute
             \/ LoseMessage \/ Unheard \/ HostBegin \/ HostSend \/ HostResend
             \/ HostReceive \/ HostAbort \/ UNCHANGED vars
  BY <1>0, <1>14 DEF Dropped, ReceiveHeader, AcknowledgePacket, Execute, LoseMessage,
       Unheard, HostBegin, HostSend, HostResend, HostReceive, HostAbort, flashVars, vars,
       Received, Request, FlashTypes
<1> QED BY <1>1, <1>2, <1>3, <1>4, <1>5, <1>6, <1>7, <1>8, <1>9, <1>10, <1>11, <1>12,
     <1>13, <1>14 DEF Next, Device

LEMMA RamTypesStep ==
  ASSUME IInv, [Next]_vars
  PROVE  RamTypes'
<1>0. FlashTypes /\ RamTypes /\ LineTypes
  BY DEF IInv, Types
<1>1. CASE Boot
  BY <1>0, BootloaderAssumption, <1>1 DEF Boot, FlashTypes, Pages, paramVars, packVars,
       busyVars, RamTypes, Busy, NONE, FLAG, UPGRADED_DEVICEADDR, PacketTotal
<1>2. CASE Timeout
  BY <1>0, BootloaderAssumption, <1>2 DEF Timeout, Mark, paramVars, packVars, busyVars,
       RamTypes, Busy, NONE, FLAG, UPGRADED_DEVICEADDR, PacketTotal
<1>3. CASE Leave
  BY <1>0, BootloaderAssumption, <1>3 DEF Leave, Mark, paramVars, packVars, busyVars,
       RamTypes, Busy, NONE, FLAG, UPGRADED_DEVICEADDR, PacketTotal
<1>4. CASE StartUpgrade
  BY <1>0, BootloaderAssumption, <1>4 DEF StartUpgrade, Received, busyVars, RamTypes,
       Busy, NONE, FLAG, UPGRADED_DEVICEADDR, PacketTotal
<1>5. CASE EraseProgram
  BY <1>0, BootloaderAssumption, <1>5 DEF EraseProgram, Received, Passes, paramVars,
       packVars, RamTypes, Busy, NONE, FLAG, UPGRADED_DEVICEADDR, PacketTotal
<1>6. CASE FLASH_If_Erase
  BY <1>0, BootloaderAssumption, <1>6 DEF FLASH_If_Erase, paramVars, packVars, RamTypes,
       Busy, NONE, FLAG, UPGRADED_DEVICEADDR, PacketTotal
<1>7. CASE EraseProgram_Mark
  BY <1>0, BootloaderAssumption, <1>7 DEF EraseProgram_Mark, RamTypes, Busy, NONE, FLAG,
       UPGRADED_DEVICEADDR, PacketTotal
<1>8. CASE EraseProgram_Return
  BY <1>0, BootloaderAssumption, <1>8 DEF EraseProgram_Return, paramVars, packVars,
       busyVars, RamTypes, Busy, NONE, FLAG, UPGRADED_DEVICEADDR, PacketTotal
<1>9. CASE ReceiveHeader
  <2>1. req.img \in Image
    BY <1>0, BootloaderAssumption, <1>9 DEF ReceiveHeader, Received, LineTypes, NoMsg,
         Requests
  <2>2. SumOf(req.img) \in [Data -> Nat] /\ ZeroSum \in [Data -> Nat]
    BY DEF SumOf, ZeroSum
  <2> QED BY <1>0, BootloaderAssumption, <1>9, <2>2 DEF ReceiveHeader, Received,
       paramVars, busyVars, RamTypes, Busy, NONE, FLAG, UPGRADED_DEVICEADDR, PacketTotal
<1>10. CASE ReceivePacket
  <2>1. Transfer'
    BY <1>0, BootloaderAssumption, <1>10, PacketTransfer
  <2>2. pc = "wait" /\ pc' \in {"wait", "program"} /\ UNCHANGED <<paramVars, packVars, cell>>
    BY <1>0, BootloaderAssumption, <1>10 DEF ReceivePacket, Received
  <2>3. frame' \in Data \cup {NoFrame}
    BY <1>0, BootloaderAssumption, <1>10, <2>1, <2>2 DEF ReceivePacket, RamTypes,
         Transfer, Programming
  <2>4. pc' = "program" => UpgradeWaitTime = -1
    BY <1>0, BootloaderAssumption, <1>10 DEF ReceivePacket, Received, Passes
  <2> QED BY <1>0, BootloaderAssumption, <2>2, <2>3, <2>4 DEF paramVars, packVars,
       RamTypes, Busy, NONE, FLAG, UPGRADED_DEVICEADDR, PacketTotal
<1>11. CASE FLASH_If_Write
  <2>1. PacketCnt + 1 \in 1 .. Packets /\ Flashadrdst = PacketCnt + 1
    BY <1>0, BootloaderAssumption, <1>11 DEF FLASH_If_Write, RamTypes, IInv, Transfer,
         InPlace, Programming, Data
  <2>2. FileRunCheckSum' \in [Data -> Nat]
    <3>1. frame \in Data
      BY <1>0, BootloaderAssumption, <1>11 DEF FLASH_If_Write, IInv, Transfer, Programming
    <3>2. FileRunCheckSum' = [FileRunCheckSum EXCEPT ![frame] = @ + 1]
      BY <1>0, BootloaderAssumption, <1>11 DEF FLASH_If_Write
    <3>3. FileRunCheckSum \in [Data -> Nat]
      BY <1>0 DEF RamTypes
    <3> QED BY <3>1, <3>2, <3>3
  <2>3. Flashadrdst' \in 0 .. AppSize + 1 /\ PacketCnt' \in 0 .. Packets
    BY <1>0, BootloaderAssumption, <1>11, <2>1 DEF FLASH_If_Write, NextAddr
  <2> QED BY <1>0, BootloaderAssumption, <1>11, <2>2, <2>3 DEF FLASH_If_Write, paramVars,
       RamTypes, Busy, NONE, FLAG, UPGRADED_DEVICEADDR, PacketTotal
<1>12. CASE AcknowledgePacket
  BY <1>0, BootloaderAssumption, <1>12 DEF AcknowledgePacket, Received, paramVars,
       packVars, busyVars, RamTypes, Busy, NONE, FLAG, UPGRADED_DEVICEADDR, PacketTotal
<1>13. CASE Execute
  BY <1>0, BootloaderAssumption, <1>13 DEF Execute, Received, packVars, busyVars,
       RamTypes, Busy, NONE, FLAG, UPGRADED_DEVICEADDR, PacketTotal
<1>14. CASE AppReset
  BY <1>0, BootloaderAssumption, <1>14 DEF AppReset, LoseRam, ZeroSum, RamTypes, Busy,
       NONE, FLAG, UPGRADED_DEVICEADDR, PacketTotal
<1>15. CASE PowerFailure
  BY <1>0, BootloaderAssumption, <1>15 DEF PowerFailure, LoseRam, ZeroSum, RamTypes, Busy,
       NONE, FLAG, UPGRADED_DEVICEADDR, PacketTotal
<1>16. CASE Write_OneByte \/ Dropped \/ LoseMessage \/ Unheard \/ HostBegin
             \/ HostSend \/ HostResend \/ HostReceive \/ HostAbort
             \/ UNCHANGED vars
  BY <1>0, <1>16 DEF Write_OneByte, Dropped, LoseMessage, Unheard, HostBegin, HostSend,
       HostResend, HostReceive, HostAbort, flashVars, paramVars, packVars, busyVars, vars,
       Request, RamTypes, Busy
<1> QED BY <1>1, <1>2, <1>3, <1>4, <1>5, <1>6, <1>7, <1>8, <1>9, <1>10, <1>11, <1>12,
     <1>13, <1>14, <1>15, <1>16 DEF Next, Device

LEMMA LineTypesStep ==
  ASSUME IInv, [Next]_vars
  PROVE  LineTypes'
<1>0. LineTypes
  BY DEF IInv, Types
<1>1. CASE Dropped
  BY <1>0, <1>1 DEF Dropped, hostVars, lineVars, LineTypes, NoMsg, Requests, Replies
<1>2. CASE StartUpgrade
  BY <1>0, <1>2 DEF StartUpgrade, Received, Reply, hostVars, LineTypes, NoMsg, Requests,
       Replies
<1>3. CASE EraseProgram
  BY <1>0, <1>3 DEF EraseProgram, Received, hostVars, lineVars, LineTypes, NoMsg,
       Requests, Replies
<1>4. CASE EraseProgram_Return
  BY <1>0, <1>4 DEF EraseProgram_Return, hostVars, LineTypes, NoMsg, Requests, Replies
<1>5. CASE ReceiveHeader
  BY <1>0, <1>5 DEF ReceiveHeader, Received, Reply, hostVars, LineTypes, NoMsg, Requests,
       Replies
<1>6. CASE ReceivePacket
  <2>1. req' = req \/ req' = NoMsg
    BY <1>6 DEF ReceivePacket, Received
  <2>2. rsp' = rsp \/ \E ok \in BOOLEAN : Reply(ok)
    BY <1>6 DEF ReceivePacket
  <2> QED BY <1>0, <1>6, <2>1, <2>2 DEF ReceivePacket, Received, Reply, hostVars,
       LineTypes, NoMsg, Requests, Replies
<1>7. CASE FLASH_If_Write
  BY <1>0, <1>7 DEF FLASH_If_Write, hostVars, LineTypes, NoMsg, Requests, Replies
<1>8. CASE AcknowledgePacket
  <2>1. IsRepeated(req.cnt) \in BOOLEAN
    BY DEF IsRepeated
  <2> QED BY <1>0, <1>8, <2>1 DEF AcknowledgePacket, Received, Reply, hostVars, LineTypes,
       NoMsg, Requests, Replies
<1>9. CASE Execute
  <2>1. Executable \in BOOLEAN
    BY DEF Executable
  <2> QED BY <1>0, <1>9, <2>1 DEF Execute, Received, Reply, hostVars, LineTypes, NoMsg,
       Requests, Replies
<1>10. CASE AppReset
  BY <1>0, <1>10 DEF AppReset, LoseRam, lineVars, hostVars, LineTypes
<1>11. CASE PowerFailure
  BY <1>0, <1>11, BootloaderAssumption DEF PowerFailure, Mishap, LoseRam, lineVars,
       hostVars, LineTypes, NoMsg, Requests, Replies
<1>12. CASE LoseMessage
  BY <1>0, <1>12, BootloaderAssumption DEF LoseMessage, Mishap, LoseRam, lineVars,
       hostVars, LineTypes, NoMsg, Requests, Replies
<1>13. CASE Unheard
  BY <1>0, <1>13 DEF Unheard, hostVars, lineVars, LineTypes, NoMsg, Requests, Replies
<1>14. CASE HostBegin
  BY <1>0, <1>14, BootloaderAssumption DEF HostBegin, lineVars, LineTypes
<1>15. CASE HostSend
  <2>1. addr' \in HostAddrs
    BY <1>0, <1>15, BootloaderAssumption DEF HostSend, Request, OtherAddr, LineTypes
  <2>2. /\ \/ req' = [id |-> 1, addr |-> addr', cnt |-> count, img |-> img]
           \/ req' = [id |-> 2, addr |-> addr', cnt |-> 0, img |-> img]
           \/ req' = [id |-> 3, addr |-> addr', cnt |-> next, img |-> img]
           \/ req' = [id |-> 4, addr |-> addr', cnt |-> 0, img |-> img]
        /\ UNCHANGED <<rsp, host, img, next, count>>
    BY <1>15 DEF HostSend, Request, Message
  <2>3. mishaps' \in 0 .. MaxMishaps
    BY <1>0, <1>15, BootloaderAssumption DEF HostSend, Mishap, LineTypes
  <2>4. count \in 0 .. PacketTotal /\ next \in 0 .. PacketTotal
    BY <1>0, BootloaderAssumption DEF LineTypes, PacketTotal
  <2>5. req' \in Requests
    BY <1>0, <2>1, <2>2, <2>4, BootloaderAssumption DEF LineTypes, Requests, PacketTotal
  <2> QED BY <1>0, <2>1, <2>2, <2>3, <2>5 DEF LineTypes
<1>16. CASE HostResend
  <2>1. addr' \in HostAddrs
    BY <1>0, <1>16, BootloaderAssumption DEF HostResend, Request, OtherAddr, LineTypes
  <2>2. /\ \/ req' = [id |-> 1, addr |-> addr', cnt |-> count, img |-> img]
           \/ req' = [id |-> 2, addr |-> addr', cnt |-> 0, img |-> img]
           \/ req' = [id |-> 3, addr |-> addr', cnt |-> next, img |-> img]
           \/ req' = [id |-> 4, addr |-> addr', cnt |-> 0, img |-> img]
        /\ UNCHANGED <<rsp, host, img, next, count>>
    BY <1>16 DEF HostResend, Request, Message
  <2>3. mishaps' \in 0 .. MaxMishaps
    BY <1>0, <1>16, BootloaderAssumption DEF HostResend, Mishap, LineTypes
  <2>4. count \in 0 .. PacketTotal /\ next \in 0 .. PacketTotal
    BY <1>0, BootloaderAssumption DEF LineTypes, PacketTotal
  <2>5. req' \in Requests
    BY <1>0, <2>1, <2>2, <2>4, BootloaderAssumption DEF LineTypes, Requests, PacketTotal
  <2> QED BY <1>0, <2>1, <2>2, <2>3, <2>5 DEF LineTypes
<1>17. CASE HostReceive
  <2>1. host' \in {"idle", "start", "erase", "packet", "execute"}
    BY <1>0, <1>17 DEF HostReceive, AfterReply, Expected, LineTypes, Replies
  <2>2. next' \in 0 .. Packets
    BY <1>0, <1>17, BootloaderAssumption DEF HostReceive, LineTypes
  <2> QED BY <1>0, <1>17, <2>1, <2>2 DEF HostReceive, LineTypes
<1>18. CASE HostAbort
  BY <1>0, <1>18, BootloaderAssumption DEF HostAbort, Mishap, lineVars, LineTypes
<1>19. CASE Write_OneByte \/ Boot \/ Timeout \/ Leave \/ FLASH_If_Erase
             \/ EraseProgram_Mark \/ UNCHANGED vars
  <2>1. UNCHANGED <<req, rsp, host, img, next, addr, count, mishaps>>
    BY <1>19 DEF Write_OneByte, Boot, Timeout, Leave, FLASH_If_Erase, EraseProgram_Mark,
         lineVars, hostVars, vars
  <2> QED BY <1>0, <2>1 DEF LineTypes
<1> QED BY <1>1, <1>2, <1>3, <1>4, <1>5, <1>6, <1>7, <1>8, <1>9, <1>10, <1>11, <1>12,
     <1>13, <1>14, <1>15, <1>16, <1>17, <1>18, <1>19 DEF Next, Device

LEMMA TalkStep ==
  ASSUME Resumes \subseteq {"start", "execute"}, IInv, [Next]_vars
  PROVE  Talk'
<1>0. Talk /\ Programming /\ Erasure /\ RamTypes /\ LineTypes
  BY DEF IInv, Types, Transfer
<1>1. CASE Write_OneByte
  BY <1>0, <1>1, BootloaderAssumption DEF Write_OneByte, packVars, lineVars, hostVars,
       Clear, Talk, Opened, Erasing, Ready, Fresh, LineTypes, NoMsg
<1>2. CASE Boot
  BY <1>0, <1>2, BootloaderAssumption DEF Boot, flashVars, packVars, lineVars, hostVars,
       Clear, Talk, Opened, Erasing, Ready, Fresh, LineTypes, NoMsg
<1>3. CASE Timeout
  BY <1>0, <1>3, BootloaderAssumption DEF Timeout, Mark, packVars, lineVars, hostVars,
       Clear, Talk, Opened, Erasing, Ready, Fresh, LineTypes, NoMsg
<1>4. CASE Leave
  BY <1>0, <1>4, BootloaderAssumption DEF Leave, Mark, Written, packVars, lineVars,
       hostVars, Clear, Talk, Opened, Erasing, Ready, Fresh, LineTypes, NoMsg
<1>5. CASE Dropped
  BY <1>0, <1>5, BootloaderAssumption DEF Dropped, flashVars, packVars, hostVars, Clear,
       Talk, Opened, Erasing, Ready, Fresh, LineTypes, NoMsg
<1>6. CASE StartUpgrade
  BY <1>0, <1>6, BootloaderAssumption DEF StartUpgrade, Received, Reply, hostVars, Clear,
       PacketTotal, Talk, Opened, Erasing, Ready, Fresh, LineTypes, NoMsg
<1>7. CASE EraseProgram
  BY <1>0, <1>7, BootloaderAssumption DEF EraseProgram, Received, hostVars, packVars,
       Talk, Opened, Erasing, Ready, Fresh, LineTypes, NoMsg
<1>8. CASE FLASH_If_Erase
  BY <1>0, <1>8, BootloaderAssumption DEF FLASH_If_Erase, lineVars, hostVars, packVars,
       Talk, Opened, Erasing, Ready, Fresh, LineTypes, NoMsg
<1>9. CASE EraseProgram_Mark
  BY <1>0, <1>9, BootloaderAssumption DEF EraseProgram_Mark, lineVars, hostVars, Erasure,
       Clear, RamTypes, Talk, Opened, Erasing, Ready, Fresh, LineTypes, NoMsg
<1>10. CASE EraseProgram_Return
  BY <1>0, <1>10, BootloaderAssumption DEF EraseProgram_Return, hostVars, packVars,
       flashVars, Erasure, Clear, Talk, Opened, Erasing, Ready, Fresh, LineTypes, NoMsg
<1>11. CASE ReceiveHeader
  BY <1>0, <1>11, BootloaderAssumption DEF ReceiveHeader, Received, Reply, hostVars,
       PacketTotal, Talk, Opened, Erasing, Ready, Fresh, LineTypes, NoMsg
<1>12. CASE ReceivePacket
  <2>1. Opened /\ UNCHANGED <<PacketNum, host>> /\ req' = NoMsg /\ rsp'.id \in {rsp.id, 3}
    BY <1>12 DEF ReceivePacket, Received, IsNext, Opened, Reply, packVars, hostVars
  <2>2. pc' \in {"wait", "program"}
    BY <1>12 DEF ReceivePacket, Received
  <2> QED BY <1>0, <2>1, <2>2 DEF Talk, Opened, Erasing, Ready, Fresh, LineTypes, NoMsg
<1>13. CASE FLASH_If_Write
  BY <1>0, <1>13, BootloaderAssumption DEF FLASH_If_Write, hostVars, Programming, Talk,
       Opened, Erasing, Ready, Fresh, LineTypes, NoMsg
<1>14. CASE AcknowledgePacket
  BY <1>0, <1>14, BootloaderAssumption DEF AcknowledgePacket, Received, Reply, flashVars,
       packVars, hostVars, Clear, Talk, Opened, Erasing, Ready, Fresh, LineTypes, NoMsg
<1>15. CASE Execute
  BY <1>0, <1>15, BootloaderAssumption DEF Execute, Received, Reply, flashVars, packVars,
       hostVars, Clear, Talk, Opened, Erasing, Ready, Fresh, LineTypes, NoMsg
<1>16. CASE AppReset
  BY <1>0, <1>16, BootloaderAssumption DEF AppReset, LoseRam, lineVars, hostVars,
       PacketTotal, Talk, Opened, Erasing, Ready, Fresh, LineTypes, NoMsg
<1>17. CASE PowerFailure
  BY <1>0, <1>17, BootloaderAssumption DEF PowerFailure, LoseRam, hostVars, PacketTotal,
       Talk, Opened, Erasing, Ready, Fresh, LineTypes, NoMsg
<1>18. CASE LoseMessage
  BY <1>0, <1>18, BootloaderAssumption DEF LoseMessage, flashVars, packVars, hostVars,
       Clear, Talk, Opened, Erasing, Ready, Fresh, LineTypes, NoMsg
<1>19. CASE Unheard
  BY <1>0, <1>19, BootloaderAssumption DEF Unheard, flashVars, packVars, hostVars, Clear,
       Talk, Opened, Erasing, Ready, Fresh, LineTypes, NoMsg
<1>20. CASE HostBegin
  BY <1>0, <1>20, BootloaderAssumption DEF HostBegin, flashVars, packVars, lineVars,
       Clear, Talk, Opened, Erasing, Ready, Fresh, LineTypes, NoMsg
<1>21. CASE HostSend
  BY <1>0, <1>21, BootloaderAssumption DEF HostSend, Request, Message, flashVars,
       packVars, Clear, Talk, Opened, Erasing, Ready, Fresh, LineTypes, NoMsg
<1>22. CASE HostResend
  BY <1>0, <1>22, BootloaderAssumption DEF HostResend, Request, Message, flashVars,
       packVars, Clear, Talk, Opened, Erasing, Ready, Fresh, LineTypes, NoMsg
<1>23. CASE HostReceive
  <2>1. /\ rsp' = NoMsg /\ UNCHANGED <<app, pc, packVars, req>>
        /\ \/ host' = host
           \/ host' \in {"idle", "start", "execute"}
           \/ host' = "erase" /\ host = "start" /\ rsp.id = 1
           \/ host' = "packet" /\ host = "erase" /\ rsp.id = 2
           \/ host' = "packet" /\ host = "packet"
    BY <1>0, <1>23 DEF HostReceive, AfterReply, Expected, flashVars, Replies, LineTypes,
         NoMsg
  <2>2. Ready' = Ready /\ Opened' = Opened /\ Erasing' = Erasing
    BY <2>1 DEF Ready, Opened, Erasing, Fresh, Clear, packVars
  <2>3. rsp'.id = 0
    BY <2>1 DEF NoMsg
  <2> QED BY <1>0, <2>1, <2>2, <2>3 DEF Talk
<1>24. CASE HostAbort
  BY <1>0, <1>24, BootloaderAssumption DEF HostAbort, flashVars, packVars, lineVars,
       Clear, Talk, Opened, Erasing, Ready, Fresh, LineTypes, NoMsg
<1>25. CASE UNCHANGED vars
  BY <1>0, <1>25 DEF vars, flashVars, packVars, lineVars, hostVars, Clear, Talk, Opened,
       Erasing, Ready, Fresh, LineTypes, NoMsg
<1> QED BY <1>1, <1>2, <1>3, <1>4, <1>5, <1>6, <1>7, <1>8, <1>9, <1>10, <1>11, <1>12,
     <1>13, <1>14, <1>15, <1>16, <1>17, <1>18, <1>19, <1>20, <1>21, <1>22, <1>23, <1>24, <1>25
     DEF Next, Device

LEMMA ServiceStep ==
  ASSUME Resumes \subseteq {"start", "execute"}, IInv, [Next]_vars
  PROVE  Service'
<1>0. FlashTypes /\ RamTypes /\ LineTypes /\ InPlace /\ Programming /\ ExecMeansWhole /\ Talk /\ Service
  BY DEF IInv, Types, Transfer
<1>1. CASE Write_OneByte
  <2>1. /\ wr.phase # "idle" /\ pc' = pc /\ wr'.buf = wr.buf
        /\ UNCHANGED <<app, count, UpgradeWaitTime, req, rsp, host>>
    BY <1>0, <1>1 DEF Write_OneByte, FlashTypes, paramVars, lineVars, hostVars
  <2>2. page'.upgrade \in {NONE, page.upgrade, wr.buf.upgrade}
    BY <1>0, <1>1 DEF Write_OneByte, FlashTypes, Pages, ErasedPage
  <2>3. pc \in Leaving \cup {"markErase"}
    BY <1>0, <2>1 DEF FlashTypes, Busy, Leaving
  <2> QED BY <1>0, <2>1, <2>2, <2>3 DEF Service, InService, Leaving, Danger, Erasing
<1>2. CASE Boot
  BY <1>0, <1>2, BootloaderAssumption DEF Boot, flashVars, lineVars, hostVars, FlashTypes,
       Pages, NONE, Service, InService, Leaving, Danger, Erasing, LineTypes, NoMsg
<1>3. CASE Timeout
  <2>1. InService /\ UNCHANGED <<page, app, count, req, rsp, host>>
    BY <1>3 DEF Timeout, InService, lineVars, hostVars
  <2>2. count > 0 => IsWhole(app) /\ ~Danger
    BY <1>0, <2>1 DEF Service
  <2>3. count > 0 => ~NoStack
    BY <2>2, MissingIsNotWhole, BootloaderAssumption DEF NoStack
  <2>4. pc' \in Leaving \/ (pc' = "hang" /\ NoStack)
    BY <1>3 DEF Timeout, Mark, Leaving
  <2> QED BY <2>1, <2>2, <2>3, <2>4 DEF Service, InService, Leaving, Danger, Erasing
<1>4. CASE Leave
  BY <1>0, <1>4, BootloaderAssumption DEF Leave, BeginWrite, Mark, Written, lineVars,
       hostVars, Service, InService, Leaving, Danger, Erasing, LineTypes, NoMsg
<1>5. CASE Dropped
  BY <1>0, <1>5, BootloaderAssumption DEF Dropped, flashVars, paramVars, hostVars,
       Service, InService, Leaving, Danger, Erasing, LineTypes, NoMsg
<1>6. CASE StartUpgrade
  BY <1>0, <1>6, BootloaderAssumption DEF StartUpgrade, Received, FlagsAfterStart,
       ErasedPage, Reply, hostVars, Service, InService, Leaving, Danger, Erasing, LineTypes,
       NoMsg
<1>7. CASE EraseProgram
  BY <1>0, <1>7, BootloaderAssumption DEF EraseProgram, Received, flashVars, paramVars,
       hostVars, Service, InService, Leaving, Danger, Erasing, LineTypes, NoMsg
<1>8. CASE FLASH_If_Erase
  BY <1>0, <1>8, BootloaderAssumption DEF FLASH_If_Erase, lineVars, hostVars, Service,
       InService, Leaving, Danger, Erasing, LineTypes, NoMsg
<1>9. CASE EraseProgram_Mark
  BY <1>0, <1>9, BootloaderAssumption DEF EraseProgram_Mark, BeginWrite, lineVars,
       hostVars, NONE, Service, InService, Leaving, Danger, Erasing, LineTypes, NoMsg
<1>10. CASE EraseProgram_Return
  BY <1>0, <1>10, BootloaderAssumption DEF EraseProgram_Return, paramVars, hostVars,
       RamTypes, Service, InService, Leaving, Danger, Erasing, LineTypes, NoMsg
<1>11. CASE ReceiveHeader
  BY <1>0, <1>11, BootloaderAssumption DEF ReceiveHeader, Received, Reply, flashVars,
       paramVars, hostVars, Service, InService, Leaving, Danger, Erasing, LineTypes, NoMsg
<1>12. CASE ReceivePacket
  <2>1. /\ pc = "wait" /\ pc' \in {"wait", "program"} /\ UpgradeWaitTime = -1
        /\ Opened /\ req' = NoMsg /\ rsp'.id \in {rsp.id, 3}
        /\ UNCHANGED <<page, wr, UpgradeWaitTime, host, count>>
    BY <1>0, <1>12 DEF ReceivePacket, Received, Passes, IsNext, Opened, Reply, paramVars,
         hostVars
  <2>2. CASE app' = app
    BY <1>0, <2>1, <2>2 DEF Service, InService, Leaving, Danger, Erasing, NoMsg
  <2>3. CASE app' # app
    <3>1. CanProgram /\ Flashadrdst # 0 /\ req.id = 3 /\ PacketCnt = req.cnt - 1
      <4>1. CanProgram
        BY <1>12, <2>3 DEF ReceivePacket
      <4> QED BY <1>0, <1>12, <4>1 DEF ReceivePacket, Received, IsNext, CanProgram, RamTypes
    <3>2. Flashadrdst = req.cnt /\ req.cnt \in 1 .. Packets
      BY <1>0, <2>1, <3>1, BootloaderAssumption DEF InPlace, LineTypes, RamTypes,
           Requests, NoMsg
    <3>3. app[req.cnt] = Blank
      BY <3>1, <3>2, BootloaderAssumption DEF CanProgram
    <3>4. ~IsWhole(app)
      BY <3>2, <3>3, MissingIsNotWhole
    <3> QED BY <1>0, <2>1, <3>4 DEF Service, InService, Leaving, Danger, Erasing, NoMsg
  <2> QED BY <2>2, <2>3
<1>13. CASE FLASH_If_Write
  <2>1. /\ pc = "program" /\ pc' = "wait" /\ UpgradeWaitTime = -1 /\ rsp'.id = 3
        /\ UNCHANGED <<page, wr, UpgradeWaitTime, req, host, count>>
    BY <1>0, <1>13 DEF FLASH_If_Write, paramVars, hostVars, RamTypes
  <2>2. Opened /\ Flashadrdst # 0 /\ Flashadrdst \in 1 .. Packets /\ Filled /\ Flashadrdst = PacketCnt + 1
    BY <1>0, <2>1, BootloaderAssumption DEF Programming, InPlace, RamTypes, Data
  <2>3. count > 0 => page.upgrade = NONE
    BY <1>0, <2>1, <2>2, MissingIsNotWhole DEF Service, Programming
  <2> QED BY <1>0, <2>1, <2>3 DEF Service, InService, Leaving, Danger, Erasing
<1>14. CASE AcknowledgePacket
  BY <1>0, <1>14, BootloaderAssumption DEF AcknowledgePacket, Received, Reply, flashVars,
       paramVars, hostVars, Service, InService, Leaving, Danger, Erasing, LineTypes, NoMsg
<1>15. CASE Execute
  <2>1. /\ pc = "wait" /\ pc' = "wait" /\ req' = NoMsg /\ rsp'.id = 4
        /\ UNCHANGED <<page, app, wr, host, count>>
    BY <1>0, <1>15 DEF Execute, Received, Reply, flashVars, hostVars
  <2>2. CASE UpgradeWaitTime' = UpgradeWaitTime
    BY <1>0, <2>1, <2>2 DEF Service, InService, Leaving, Danger, Erasing, NoMsg
  <2>3. CASE UpgradeWaitTime' = 0 /\ Executable
    <3>1. Opened /\ Complete
      BY <1>0, <2>1, <2>3, BootloaderAssumption DEF Executable, RamTypes, Opened
    <3>2. IsWhole(app)
      BY <1>0, <3>1, CompleteIsWhole DEF IsWhole, IInv
    <3>3. host # "erase"
      BY <1>0, <3>1 DEF Talk
    <3> QED BY <1>0, <2>1, <3>2, <3>3 DEF Service, InService, Leaving, Danger, Erasing,
         NoMsg
  <2> QED BY <1>15, <2>2, <2>3 DEF Execute
<1>16. CASE AppReset
  BY <1>0, <1>16, BootloaderAssumption DEF AppReset, LoseRam, lineVars, hostVars, Service,
       InService, Leaving, Danger, Erasing, LineTypes, NoMsg
<1>17. CASE PowerFailure
  BY <1>0, <1>17, BootloaderAssumption DEF PowerFailure, LoseRam, hostVars, Service,
       InService, Leaving, Danger, Erasing, LineTypes, NoMsg
<1>18. CASE LoseMessage
  BY <1>0, <1>18, BootloaderAssumption DEF LoseMessage, flashVars, paramVars, hostVars,
       Service, InService, Leaving, Danger, Erasing, LineTypes, NoMsg
<1>19. CASE Unheard
  BY <1>0, <1>19, BootloaderAssumption DEF Unheard, flashVars, paramVars, hostVars,
       Service, InService, Leaving, Danger, Erasing, LineTypes, NoMsg
<1>20. CASE HostBegin
  BY <1>0, <1>20, BootloaderAssumption DEF HostBegin, flashVars, paramVars, lineVars,
       Service, InService, Leaving, Danger, Erasing, LineTypes, NoMsg
<1>21. CASE HostSend
  BY <1>0, <1>21, BootloaderAssumption DEF HostSend, Request, Message, flashVars,
       paramVars, Service, InService, Leaving, Danger, Erasing, LineTypes, NoMsg
<1>22. CASE HostResend
  BY <1>0, <1>22, BootloaderAssumption DEF HostResend, Request, Message, flashVars,
       paramVars, Service, InService, Leaving, Danger, Erasing, LineTypes, NoMsg
<1>23. CASE HostReceive
  <2>1. /\ rsp' = NoMsg /\ UNCHANGED <<page, app, wr, pc, UpgradeWaitTime, req, count>>
        /\ host' # "erase" \/ host' = host \/ rsp.id = 1
    BY <1>0, <1>23 DEF HostReceive, AfterReply, Expected, flashVars, paramVars, Replies,
         LineTypes, NoMsg
  <2>2. Danger' => Danger
    BY <2>1 DEF Danger, NoMsg
  <2> QED BY <1>0, <2>1, <2>2 DEF Service, InService, Leaving, Erasing
<1>24. CASE HostAbort
  BY <1>0, <1>24, BootloaderAssumption DEF HostAbort, flashVars, paramVars, lineVars,
       Service, InService, Leaving, Danger, Erasing, LineTypes, NoMsg
<1>25. CASE UNCHANGED vars
  BY <1>0, <1>25 DEF vars, flashVars, paramVars, lineVars, hostVars, Service, InService,
       Leaving, Danger, Erasing, LineTypes, NoMsg
<1> QED BY <1>1, <1>2, <1>3, <1>4, <1>5, <1>6, <1>7, <1>8, <1>9, <1>10, <1>11, <1>12,
     <1>13, <1>14, <1>15, <1>16, <1>17, <1>18, <1>19, <1>20, <1>21, <1>22, <1>23, <1>24, <1>25
     DEF Next, Device

LEMMA InitInv == Init => IInv
<1> SUFFICES ASSUME Init PROVE IInv
  OBVIOUS
<1> USE BootloaderAssumption
<1>1. PICK m \in Image : app = Whole(m)
  BY DEF Init
<1>2. app \in [1 .. AppSize -> Data \cup {Blank, Part}] /\ IsWhole(app)
  BY <1>1 DEF Whole, IsWhole, Data
<1>3. page \in Pages /\ ErasedPage \in Pages /\ page.upgrade # NONE
  BY DEF Init, Pages, ErasedPage, NONE, FLAG, UPGRADED_DEVICEADDR
<1>4. wr \in [phase : {"idle", "erase", "dev", "flags", "done"}, buf : Pages] /\ wr.phase = "idle"
  BY <1>3 DEF Init
<1>5. FlashTypes
  BY <1>2, <1>3, <1>4 DEF Init, FlashTypes, Busy
<1>6. RamTypes
  BY DEF Init, RamTypes, Busy, ZeroSum
<1>7. LineTypes
  BY DEF Init, LineTypes, NoMsg
<1>8. Transfer
  BY DEF Init, Transfer, InPlace, Programming, Erasure, ExecMeansWhole, Opened, PacketTotal
<1>9. Talk
  BY DEF Init, Talk, NoMsg, Erasing
<1>10. Service
  BY <1>2 DEF Init, Service, InService, Leaving, Danger, Erasing, NoMsg
<1> QED BY <1>5, <1>6, <1>7, <1>8, <1>9, <1>10 DEF IInv, Types

LEMMA StepInv ==
  ASSUME Resumes \subseteq {"start", "execute"}, IInv, [Next]_vars
  PROVE  IInv'
  BY FlashTypesStep, RamTypesStep, LineTypesStep, TransferStep, TalkStep, ServiceStep DEF
       IInv, Types

LEMMA Inductive ==
  ASSUME Resumes \subseteq {"start", "execute"}
  PROVE  Spec => []IInv
<1>1. IInv /\ [Next]_vars => IInv'
  BY StepInv
<1> QED BY InitInv, <1>1, PTL DEF Spec

------------------------------------------------------------------------------
(* For any images, area and number of mishaps the counters stay within the *)
(* image announced, and a write of the flag page is in progress exactly    *)
(* where main or message 2 waits for one.                                  *)
THEOREM BootTypes ==
  ASSUME Resumes \subseteq {"start", "execute"}
  PROVE  Spec => []TypeOK
<1>1. IInv => TypeOK
  BY DEF IInv, Types, FlashTypes, RamTypes, LineTypes, TypeOK, Pages
<1> QED BY <1>1, Inductive, PTL

(* However messages were lost, repeated or belated and power failed: when  *)
(* message 4 is granted the area holds the image the header announced.     *)
THEOREM GrantedIsWhole ==
  ASSUME Resumes \subseteq {"start", "execute"}
  PROVE  Spec => []ExecMeansWhole
<1>1. IInv => ExecMeansWhole
  BY DEF IInv, Transfer
<1> QED BY <1>1, Inductive, PTL

(* Nor is a part of an image, or a mixture of two, ever started, if the    *)
(* host announces the packet count in message 1.                           *)
THEOREM StartedIsWhole ==
  ASSUME Resumes \subseteq {"start", "execute"}
  PROVE  Spec => []BootsOnlyWhole
<1>1. IInv => BootsOnlyWhole
  BY DEF IInv, Service, InService, BootsOnlyWhole
<1> QED BY <1>1, Inductive, PTL

(* And main never leaves its loop without an application to start.         *)
THEOREM NoHang ==
  ASSUME Resumes \subseteq {"start", "execute"}
  PROVE  Spec => []NeverHangs
<1>1. IInv => NeverHangs
  BY DEF IInv, Service, NeverHangs
<1> QED BY <1>1, Inductive, PTL
=============================================================================
