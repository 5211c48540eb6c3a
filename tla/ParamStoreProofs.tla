-------------------------- MODULE ParamStoreProofs --------------------------
(***************************************************************************)
(* What holds of the parameter store for every table, every set of fields  *)
(* and any number of resets: the written mark certifies a copy, and the    *)
(* device never comes up on erased parameters.                             *)
(***************************************************************************)
EXTENDS ParamStore, TLAPS

Last == SYSTEMPARAM_PROGRAMED

(* An image that carries the written mark has no erased byte where the     *)
(* range checks exclude one.                                               *)
Good(image) == image[Last] = SYSTEMPARAM_IS_PROGRAMED
                 => \A i \in Solid : image[i] # Erased

Rebuilding == drv.phase \in {"erase", "program"}

(* The check hands an 0xFF to InFlash_Write_OneByte: the page is not       *)
(* erased, and the flash will refuse the change.                           *)
Patching == pc = "check" /\ Rebuilding /\ Flash_Buf[Cnt] = Erased

(* The image a copy will have when the page operation in hand returns.     *)
Img(c) == IF Rebuilding /\ ~Patching /\ drv.page = c THEN Flash_Buf ELSE flash[c]

Marked(c) == Img(c)[Last] = SYSTEMPARAM_IS_PROGRAMED

(* Every copy is certified, the image under construction included.         *)
Certified == /\ \A c \in Copy : Good(flash[c])
             /\ \A c \in Copy : Good(Img(c))

(* The page in hand holds the words programmed so far and is erased beyond *)
(* them; or it still is what it was.                                       *)
Driver ==
  /\ drv.phase = "program" /\ ~Patching =>
       \A i \in Addr : flash[drv.page][i] =
                         IF i < drv.word THEN Flash_Buf[i] ELSE Erased
  /\ Patching =>
       /\ drv.phase = "program" /\ drv.word <= Cnt
       /\ flash[drv.page][Cnt] # Erased
       /\ \A i \in Addr : i # Cnt => flash[drv.page][i] = Flash_Buf[i]
  /\ drv.phase = "erase" => drv.word = 0
  /\ drv.phase = "failed" => pc = "check"
  /\ pc \in {"boot", "run"} => drv.phase = "idle"
  /\ pc \in {"basic", "default", "write", "info"} => Rebuilding
  /\ pc = "info" => drv.page = Run

(* A command never writes an erased byte over a checked parameter, nor the *)
(* written mark.                                                           *)
Request ==
  /\ Last \notin req.at
  /\ \A i \in req.at \cap Solid : req.data[i] # Erased
  /\ pc # "write" => req.at = {}

(* Where the check has been, two marked copies leave no erased byte in the *)
(* third: so the mark it may still write, at the last address, is earned.  *)
Visited(i) == i < Cnt \/ (i = Cnt /\ drv.phase # "idle")

CheckLoop ==
  pc = "check" =>
    /\ \A i \in Solid : Visited(i) =>
         \A c \in Copy : (\A o \in Copy \ {c} : Marked(o)) => Img(c)[i] # Erased
    /\ \A i \in Addr : ~Visited(i) => Cur_Param[i] = Img(Run)[i]

(* Which copies are known to carry the mark while the others are rewritten.*)
Marks ==
  /\ pc = "run" => \A c \in Copy : Programed(c)
  /\ pc \in {"write", "info"} => /\ \A c \in Copy \ {drv.page} : Programed(c)
                                 /\ Flash_Buf[Last] = SYSTEMPARAM_IS_PROGRAMED
  /\ pc = "default" => /\ \A c \in Copy : c < drv.page => Programed(c)
                       /\ Flash_Buf[Last] = SYSTEMPARAM_IS_PROGRAMED

(* The loop counter stays on an address while a repair is in hand, which   *)
(* type correctness needs when the repair returns.                         *)
TypeInv == /\ TypeOK
           /\ pc = "check" /\ drv.phase # "idle" => Cnt < ProDefaultLen

Inv0 == Certified /\ Driver /\ Request /\ CheckLoop /\ Marks
IInv == TypeInv /\ (faults = 0 => Inv0)

------------------------------------------------------------------------------
(* The addresses the checks single out are addresses, and the marks and    *)
(* the factory values are bytes.                                           *)
LEMMA Constants ==
  /\ RUN_ADDR_BASE \in Addr /\ Last \in Addr /\ RUN_ADDR_BASE # Last
  /\ UserAddr \subseteq Addr /\ Last \notin UserAddr
  /\ Last \in Solid /\ RUN_ADDR_BASE \in Solid
  /\ Erased \in Byte /\ Data \subseteq Byte
  /\ User_Default_Param \in Image /\ Blank \in Image
  /\ SYSTEMPARAM_IS_PROGRAMED # Erased
  BY ParamStoreAssumption
     DEF Addr, UserAddr, RUN_ADDR_BASE, SYSTEMPARAM_PROGRAMED, Last, Byte, Image,
         Blank, SYSTEMPARAM_IS_PROGRAMED

LEMMA OverlayType ==
  ASSUME NEW job \in [at : SUBSET Addr, data : Image], NEW image \in Image
  PROVE  Overlay(job, image) \in Image
  BY DEF Overlay, Image

LEMMA JobType ==
  ASSUME TypeOK
  PROVE  Job \in [at : SUBSET Addr, data : Image]
  BY Constants DEF Job, TypeOK

(* The six values the three comparison bits can take.                      *)
LEMMA CheckStaCases ==
  ASSUME NEW a, NEW b, NEW c
  PROVE  /\ CheckSta(a, b, c) \in {0, 3, 5, 6, 7}
         /\ CheckSta(a, b, c) = 0 <=> a = b /\ b = c
         /\ CheckSta(a, b, c) = 6 <=> a = b /\ b # c
         /\ CheckSta(a, b, c) = 3 <=> a = c /\ b # c
         /\ CheckSta(a, b, c) = 5 <=> b = c /\ a # b
  <1>1. CASE a = b /\ b = c
    BY <1>1 DEF CheckSta
  <1>2. CASE a = b /\ b # c
    BY <1>2 DEF CheckSta
  <1>3. CASE a # b /\ b = c
    BY <1>3 DEF CheckSta
  <1>4. CASE a # b /\ b # c /\ a = c
    BY <1>4 DEF CheckSta
  <1>5. CASE a # b /\ b # c /\ a # c
    BY <1>5 DEF CheckSta
  <1> QED BY <1>1, <1>2, <1>3, <1>4, <1>5

------------------------------------------------------------------------------
(* Type correctness                                                        *)

LEMMA WriteMultiType ==
  ASSUME TypeOK, NEW page \in Copy, NEW job \in [at : SUBSET Addr, data : Image],
         Write_MultiBytes(page, job)
  PROVE  /\ Flash_Buf' \in Image
         /\ drv' \in [phase : {"idle", "erase", "program", "failed"},
                      page : Copy, word : 0 .. ProDefaultLen]
  <1>1. flash[page] \in Image
    BY DEF TypeOK
  <1>2. 0 \in 0 .. ProDefaultLen
    BY ParamStoreAssumption
  <1> QED BY <1>1, <1>2, OverlayType DEF Write_MultiBytes

LEMMA WriteOneType ==
  ASSUME TypeOK, NEW page \in Copy, NEW a \in Addr, NEW v \in Byte,
         Write_OneByte(page, a, v)
  PROVE  /\ Flash_Buf' \in Image
         /\ drv' \in [phase : {"idle", "erase", "program", "failed"},
                      page : Copy, word : 0 .. ProDefaultLen]
  <1>1. flash[page] \in Image
    BY DEF TypeOK
  <1>2. 0 \in 0 .. ProDefaultLen
    BY ParamStoreAssumption
  <1> QED BY <1>1, <1>2 DEF Write_OneByte, Image

LEMMA StartCheckType ==
  ASSUME TypeOK, StartCheck
  PROVE  /\ flash' \in [Copy -> Image] /\ Flash_Buf' \in Image
         /\ drv' \in [phase : {"idle", "erase", "program", "failed"},
                      page : Copy, word : 0 .. ProDefaultLen]
         /\ drv'.phase = "idle" /\ pc' = "check"
         /\ req' \in [at : SUBSET Addr, data : Image]
         /\ Cur_Param' \in Image /\ Cnt' \in 0 .. ProDefaultLen
         /\ Check_Sta' \in {0, 3, 5, 6, 7}
  <1>1. 0 \in 0 .. ProDefaultLen /\ Run \in Copy
    BY ParamStoreAssumption DEF Copy
  <1>2. flash[Run] \in Image
    BY <1>1 DEF TypeOK
  <1>3. /\ drv' \in [phase : {"idle", "erase", "program", "failed"},
                     page : Copy, word : 0 .. ProDefaultLen]
        /\ drv'.phase = "idle"
    BY <1>1 DEF StartCheck, Idle
  <1> QED BY <1>1, <1>2, <1>3 DEF StartCheck, TypeOK

LEMMA InitType == Init => TypeInv
<1> SUFFICES ASSUME Init PROVE TypeInv
  OBVIOUS
<1>1. flash \in [Copy -> Image]
  BY Constants DEF Init
<1>2. drv \in [phase : {"idle", "erase", "program", "failed"},
               page : Copy, word : 0 .. ProDefaultLen] /\ drv.phase = "idle"
  BY ParamStoreAssumption DEF Init, Idle, Copy
<1>3. req \in [at : SUBSET Addr, data : Image]
  BY Constants DEF Init, NoReq
<1>4. /\ ParaTemp \in 0 .. WRITE_FLASH_ERR_MAX /\ Cnt \in 0 .. ProDefaultLen
      /\ faults \in 0 .. MaxFaults /\ crashes \in 0 .. MaxCrashes
  BY ParamStoreAssumption DEF Init, WRITE_FLASH_ERR_MAX
<1> QED BY <1>1, <1>2, <1>3, <1>4, Constants DEF Init, TypeInv, TypeOK, Control

LEMMA StepType == TypeInv /\ [Next]_vars => TypeInv'
<1> SUFFICES ASSUME TypeInv, [Next]_vars PROVE TypeInv'
  OBVIOUS
<1> USE DEF TypeInv
<1> USE DEF Control
<1>0. /\ Idle \in [phase : {"idle", "erase", "program", "failed"},
                   page : Copy, word : 0 .. ProDefaultLen]
      /\ NoReq \in [at : SUBSET Addr, data : Image]
      /\ 0 \in 0 .. ProDefaultLen /\ 0 \in 0 .. WRITE_FLASH_ERR_MAX
      /\ 0 \in 0 .. MaxCrashes
      /\ None \in Copy \cup {None} /\ Run \in Copy /\ Bak1 \in Copy /\ Bak2 \in Copy
  BY Constants, ParamStoreAssumption
     DEF Idle, NoReq, Copy, Run, Bak1, Bak2, None, WRITE_FLASH_ERR_MAX
<1>fault. ASSUME FlashFault PROVE faults' \in 0 .. MaxFaults
  BY <1>fault, ParamStoreAssumption DEF FlashFault, TypeOK
<1>1. CASE Erase_Page
  <2>1. flash' \in [Copy -> Image]
    BY <1>1, Constants DEF Erase_Page, TypeOK
  <2>2. drv' \in [phase : {"idle", "erase", "program", "failed"},
                  page : Copy, word : 0 .. ProDefaultLen]
    BY <1>1 DEF Erase_Page, TypeOK
  <2>3. faults' \in 0 .. MaxFaults
    BY <1>1, <1>fault DEF Erase_Page, TypeOK
  <2> QED BY <1>1, <2>1, <2>2, <2>3 DEF Erase_Page, TypeOK, checkVars, obsVars
<1>2. CASE Program_Word
  <2>0. drv.word \in Addr /\ drv.page \in Copy
    BY <1>2, ParamStoreAssumption DEF Program_Word, TypeOK, Addr
  <2>1. flash' \in [Copy -> Image]
    BY <1>2, <2>0 DEF Program_Word, TypeOK, Image
  <2>2. drv' \in [phase : {"idle", "erase", "program", "failed"},
                  page : Copy, word : 0 .. ProDefaultLen]
    BY <1>2, ParamStoreAssumption DEF Program_Word, TypeOK
  <2>3. faults' \in 0 .. MaxFaults
    BY <1>2, <1>fault DEF Program_Word, TypeOK
  <2> QED BY <1>2, <2>1, <2>2, <2>3 DEF Program_Word, TypeOK, checkVars, obsVars
<1>3. CASE Check_Device_Param
  <2>1. CASE ~Initialised
    <3>1. [at |-> UserAddr, data |-> User_Default_Param]
             \in [at : SUBSET Addr, data : Image]
      BY Constants
    <3>2. Write_MultiBytes(Run, [at |-> UserAddr, data |-> User_Default_Param])
      BY <1>3, <2>1 DEF Check_Device_Param
    <3>3. /\ Flash_Buf' \in Image
          /\ drv' \in [phase : {"idle", "erase", "program", "failed"},
                       page : Copy, word : 0 .. ProDefaultLen]
      BY <3>1, <3>2, <1>0, WriteMultiType
    <3> QED BY <1>3, <2>1, <3>3, <1>0
            DEF Check_Device_Param, TypeOK, checkVars, obsVars
  <2>2. CASE Initialised
    <3>1. StartCheck
      BY <1>3, <2>2 DEF Check_Device_Param
    <3> QED BY <1>3, <3>1, <1>0, StartCheckType
            DEF Check_Device_Param, TypeOK, obsVars
  <2> QED BY <2>1, <2>2
<1>4. CASE Write3T_NextCopy
  <2>1. drv.page + 1 \in Copy
    BY <1>4 DEF Write3T_NextCopy, TypeOK, Copy, Run, Bak1, Bak2
  <2>2. /\ Flash_Buf' \in Image
        /\ drv' \in [phase : {"idle", "erase", "program", "failed"},
                     page : Copy, word : 0 .. ProDefaultLen]
    BY <1>4, <2>1, JobType, WriteMultiType DEF Write3T_NextCopy
  <2>3. Err' \in BOOLEAN
    BY <1>4 DEF Write3T_NextCopy, Failed
  <2> QED BY <1>4, <2>2, <2>3 DEF Write3T_NextCopy, TypeOK, checkVars, obsVars
<1>5. CASE Write3T_Basic_Return
  <2>1. ASSUME ParaTemp < WRITE_FLASH_ERR_MAX
        PROVE  ParaTemp + 1 \in 0 .. WRITE_FLASH_ERR_MAX
    BY <2>1 DEF TypeOK, WRITE_FLASH_ERR_MAX
  <2>2. CASE Write_MultiBytes(Run, Job) /\ UNCHANGED <<flash, pc, req, checkVars>>
               /\ ParaTemp' = ParaTemp + 1 /\ ParaTemp < WRITE_FLASH_ERR_MAX
    <3>1. /\ Flash_Buf' \in Image
          /\ drv' \in [phase : {"idle", "erase", "program", "failed"},
                       page : Copy, word : 0 .. ProDefaultLen]
      BY <2>2, <1>0, JobType, WriteMultiType
    <3> QED BY <1>5, <2>1, <2>2, <3>1
            DEF Write3T_Basic_Return, TypeOK, checkVars, obsVars
  <2>3. CASE StartCheck /\ ParaTemp' = 0
    BY <1>5, <2>3, <1>0, StartCheckType DEF Write3T_Basic_Return, TypeOK, obsVars
  <2> QED BY <1>5, <2>2, <2>3 DEF Write3T_Basic_Return
<1>6. CASE Check_Byte
  <2>0. Cnt \in Addr /\ Cnt + 1 \in 0 .. ProDefaultLen
    BY <1>6, ParamStoreAssumption DEF Check_Byte, TypeOK, Addr
  <2>1. Cur_Param[Cnt] \in Byte /\ flash[Bak1][Cnt] \in Byte
    BY <2>0, <1>0 DEF TypeOK, Image
  <2>2. Check_Sta' \in {0, 3, 5, 6, 7}
    BY <1>6, CheckStaCases DEF Check_Byte
  <2>3. /\ Flash_Buf' \in Image
        /\ drv' \in [phase : {"idle", "erase", "program", "failed"},
                     page : Copy, word : 0 .. ProDefaultLen]
        /\ Cnt' \in 0 .. ProDefaultLen
    BY <1>6, <2>0, <2>1, <1>0, WriteOneType DEF Check_Byte, TypeOK
  <2> QED BY <1>6, <2>2, <2>3 DEF Check_Byte, TypeOK, obsVars
<1>7. CASE Repair_Return
  <2>1. Cnt' \in 0 .. ProDefaultLen
    BY <1>7, ParamStoreAssumption
       DEF Repair_Return, Advance, Returned, Succeeded, Failed, TypeOK
  <2> QED BY <1>7, <2>1, <1>0 DEF Repair_Return, TypeOK, Idle, obsVars
<1>8. CASE Check_End
  <2>1. [at |-> Addr, data |-> User_Default_Param] \in [at : SUBSET Addr, data : Image]
    BY Constants
  <2> QED BY <1>8, <2>1, <1>0, WriteMultiType DEF Check_End, TypeOK, obsVars
<1>9. CASE Write_Return
  BY <1>9, <1>0 DEF Write_Return, TypeOK, checkVars, obsVars
<1>10. CASE WriteParam
  <2>0. PICK f \in Fields : \E v \in [f -> Data \cup {Erased}] : WriteField(f, v)
    BY <1>10 DEF WriteParam
  <2>1. PICK v \in [f -> Data \cup {Erased}] : WriteField(f, v)
    BY <2>0
  <2>2. NewImage(f, v) \in Image
    BY Constants, <1>0 DEF NewImage, TypeOK, Image
  <2>3. [at |-> f, data |-> NewImage(f, v)] \in [at : SUBSET Addr, data : Image]
    BY <2>2, ParamStoreAssumption
  <2>4. /\ Flash_Buf' \in Image
        /\ drv' \in [phase : {"idle", "erase", "program", "failed"},
                     page : Copy, word : 0 .. ProDefaultLen]
    BY <2>1, <2>3, <1>0, WriteMultiType DEF WriteField
  <2>5. /\ old' \in Image /\ new' \in Image /\ agreed' \in BOOLEAN
        /\ crashes' \in 0 .. MaxCrashes /\ hit' \in Copy \cup {None}
    BY <2>1, <2>2, <1>0 DEF WriteField, Observe, TypeOK
  <2>6. req' \in [at : SUBSET Addr, data : Image]
    BY <2>1, <2>3 DEF WriteField
  <2> QED BY <1>10, <2>4, <2>5, <2>6 DEF WriteParam, TypeOK, checkVars
<1>11. CASE WriteInfo
  <2>1. /\ old' \in Image /\ new' \in Image /\ agreed' \in BOOLEAN
        /\ crashes' \in 0 .. MaxCrashes /\ hit' \in Copy \cup {None}
    BY <1>11, <1>0 DEF WriteInfo, Observe, TypeOK
  <2> QED BY <1>11, <2>1, <1>0, WriteMultiType DEF WriteInfo, TypeOK, checkVars
<1>12. CASE Restart
  <2>1. /\ old' \in Image /\ new' \in Image /\ agreed' \in BOOLEAN
        /\ crashes' \in 0 .. MaxCrashes /\ hit' \in Copy \cup {None}
    BY <1>12, <1>0 DEF Restart, Observe, TypeOK
  <2> QED BY <1>12, <2>1, <1>0, Constants DEF Restart, LoseRam, TypeOK
<1>13. CASE Crash
  <2>1. crashes' \in 0 .. MaxCrashes /\ hit' \in Copy \cup {None}
    BY <1>13, <1>0, ParamStoreAssumption DEF Crash, TypeOK
  <2> QED BY <1>13, <2>1, <1>0, Constants DEF Crash, LoseRam, TypeOK
<1>14. CASE UNCHANGED vars
  BY <1>14 DEF vars, checkVars, TypeOK
<1> QED
  BY <1>1, <1>2, <1>3, <1>4, <1>5, <1>6, <1>7, <1>8, <1>9, <1>10, <1>11, <1>12,
     <1>13, <1>14 DEF Next, Step

(* Every variable keeps the values the program can give it, for every      *)
(* parameter table: the loop counters and the word pointer stay in range.  *)
THEOREM TypeCorrect == Spec => []TypeOK
<1>1. Spec => []TypeInv
  BY InitType, StepType, PTL DEF Spec
<1>2. TypeInv => TypeOK
  BY DEF TypeInv
<1> QED BY <1>1, <1>2, PTL

------------------------------------------------------------------------------
(* The inductive invariant, one lemma per group of actions                 *)

LEMMA NoFault == faults = 0 /\ faults' = 0 => ~FlashFault
  BY DEF FlashFault

(* Patching a certified image keeps it certified, as long as no erased     *)
(* byte goes over a checked parameter and the mark is not written alone.   *)
LEMMA OverlayGood ==
  ASSUME NEW job \in [at : SUBSET Addr, data : Image], NEW image \in Image,
         \A i \in job.at \cap Solid : job.data[i] # Erased,
         \/ job.at = Addr
         \/ Last \notin job.at /\ Good(image)
  PROVE  Good(Overlay(job, image))
  BY Constants, ParamStoreAssumption DEF Overlay, Good

(* Facts about a page write that starts outside the check.                 *)
LEMMA BeginMulti ==
  ASSUME TypeOK, NEW page \in Copy, NEW job \in [at : SUBSET Addr, data : Image],
         \A c \in Copy : Good(flash[c]),
         \A i \in job.at \cap Solid : job.data[i] # Erased,
         job.at = Addr \/ Last \notin job.at,
         Write_MultiBytes(page, job), UNCHANGED flash,
         pc' \in {"basic", "default", "write", "info"}
  PROVE  /\ Certified' /\ CheckLoop'
         /\ drv'.phase = "erase" /\ drv'.word = 0 /\ drv'.page = page
         /\ Rebuilding' /\ ~Patching'
         /\ Last \notin job.at => Flash_Buf'[Last] = flash[page][Last]
         /\ Last \in job.at => Flash_Buf'[Last] = job.data[Last]
  <1>1. drv'.phase = "erase" /\ drv'.word = 0 /\ drv'.page = page
    BY DEF Write_MultiBytes
  <1>2. Rebuilding' /\ ~Patching'
    BY <1>1 DEF Rebuilding, Patching
  <1>3. flash[page] \in Image
    BY DEF TypeOK
  <1>4. Good(Flash_Buf')
    BY <1>3, OverlayGood DEF Write_MultiBytes
  <1>5. Certified'
    BY <1>1, <1>2, <1>4 DEF Certified, Img, Good
  <1>6. CheckLoop'
    BY DEF CheckLoop
  <1>7. /\ Last \notin job.at => Flash_Buf'[Last] = flash[page][Last]
        /\ Last \in job.at => Flash_Buf'[Last] = job.data[Last]
    BY Constants DEF Write_MultiBytes, Overlay
  <1> QED BY <1>1, <1>2, <1>5, <1>6, <1>7

LEMMA EraseStep ==
  ASSUME TypeInv, Inv0, faults = 0, faults' = 0, Erase_Page
  PROVE  Inv0'
<1>1. /\ drv.phase = "erase" /\ drv.page \in Copy /\ drv.word = 0
      /\ flash' = [flash EXCEPT ![drv.page] = Blank]
      /\ drv' = [drv EXCEPT !.phase = "program"]
      /\ UNCHANGED <<Flash_Buf, pc, req, Cnt, Cur_Param>>
  BY NoFault DEF Erase_Page, checkVars, Inv0, Driver, TypeInv, TypeOK
<1>2. drv'.phase = "program" /\ drv'.page = drv.page /\ drv'.word = 0
  BY <1>1 DEF TypeInv, TypeOK
<1>3. ~Patching /\ ~Patching' /\ Rebuilding /\ Rebuilding'
  BY <1>1, <1>2 DEF Inv0, Driver, Patching, Rebuilding
<1>4. /\ \A c \in Copy : c # drv.page => flash'[c] = flash[c]
      /\ flash'[drv.page] = Blank
  BY <1>1 DEF TypeInv, TypeOK
<1>5. \A c \in Copy : Img(c)' = Img(c)
  BY <1>1, <1>2, <1>3, <1>4 DEF Img
<1>6. Certified'
  <2>1. Good(Blank)
    BY Constants DEF Good, Blank
  <2>2. \A c \in Copy : Good(flash'[c])
    BY <2>1, <1>4 DEF Inv0, Certified
  <2>3. \A c \in Copy : Good(Img(c)')
    BY <1>5 DEF Inv0, Certified
  <2> QED BY <2>2, <2>3 DEF Certified, Good
<1>7. Driver'
  <2>1. \A i \in Addr : flash'[drv'.page][i] = Erased /\ ~(i < drv'.word)
    BY <1>2, <1>4, ParamStoreAssumption DEF Blank, Addr
  <2> QED BY <2>1, <1>1, <1>2, <1>3 DEF Inv0, Driver, Rebuilding
<1>8. Request'
  BY <1>1 DEF Inv0, Request
<1>9. CheckLoop'
  BY <1>1, <1>2, <1>5, Constants DEF Inv0, CheckLoop, Visited, Marked, Copy
<1>10. Marks'
  BY <1>1, <1>2, <1>3, <1>4 DEF Inv0, Marks, Programed, Driver, Copy, Run, Bak1, Bak2
<1> QED BY <1>6, <1>7, <1>8, <1>9, <1>10 DEF Inv0

LEMMA ProgramStep ==
  ASSUME TypeInv, TypeInv', Inv0, faults = 0, faults' = 0, Program_Word
  PROVE  Inv0'
<1>1. /\ drv.phase = "program" /\ drv.page \in Copy /\ drv.word \in Addr
      /\ UNCHANGED <<Flash_Buf, pc, req, Cnt, Cur_Param>>
  BY ParamStoreAssumption DEF Program_Word, checkVars, TypeInv, TypeOK, Addr
<1>2. CASE ~Patching
  <2>1. Programmable(drv.page, drv.word)
    BY <1>1, <1>2 DEF Inv0, Driver, Programmable, Addr
  <2>2. /\ flash' = [flash EXCEPT ![drv.page][drv.word] = Flash_Buf[drv.word]]
        /\ drv' = [drv EXCEPT !.word = @ + 1]
    BY <2>1, NoFault DEF Program_Word
  <2>3. drv'.phase = "program" /\ drv'.page = drv.page /\ drv'.word = drv.word + 1
    BY <1>1, <2>2 DEF TypeInv, TypeOK
  <2>4. Rebuilding /\ Rebuilding' /\ ~Patching'
    BY <1>1, <1>2, <2>3 DEF Rebuilding, Patching
  <2>5. /\ \A c \in Copy : c # drv.page => flash'[c] = flash[c]
        /\ \A i \in Addr : flash'[drv.page][i] =
             IF i < drv'.word THEN Flash_Buf[i] ELSE Erased
    <3>1. \A i \in Addr : flash[drv.page][i] =
            IF i < drv.word THEN Flash_Buf[i] ELSE Erased
      BY <1>1, <1>2 DEF Inv0, Driver
    <3>2. /\ \A c \in Copy : c # drv.page => flash'[c] = flash[c]
          /\ flash'[drv.page] = [flash[drv.page] EXCEPT ![drv.word] = Flash_Buf[drv.word]]
      BY <1>1, <2>2 DEF TypeInv, TypeOK
    <3>3. flash[drv.page] \in [Addr -> Byte]
      BY <1>1 DEF TypeInv, TypeOK, Image
    <3>4. ASSUME NEW i \in Addr
          PROVE  flash'[drv.page][i] = IF i < drv'.word THEN Flash_Buf[i] ELSE Erased
      <4>1. i < drv'.word <=> i < drv.word \/ i = drv.word
        BY <1>1, <2>3, ParamStoreAssumption DEF Addr
      <4> QED BY <1>1, <3>1, <3>2, <3>3, <4>1
    <3> QED BY <3>2, <3>4
  <2>6. \A c \in Copy : Img(c)' = Img(c)
    BY <1>1, <1>2, <2>3, <2>4, <2>5 DEF Img
  <2>7. Certified'
    <3>1. Img(drv.page) = Flash_Buf
      BY <1>1, <1>2, <2>4 DEF Img
    <3>2. Good(Flash_Buf)
      BY <1>1, <3>1 DEF Inv0, Certified
    <3>3. Good(flash'[drv.page])
      <4> SUFFICES ASSUME flash'[drv.page][Last] = SYSTEMPARAM_IS_PROGRAMED,
                          NEW i \in Solid
                   PROVE  flash'[drv.page][i] # Erased
        BY DEF Good
      <4>1. Last < drv'.word /\ Flash_Buf[Last] = SYSTEMPARAM_IS_PROGRAMED
        BY <2>5, Constants
      <4>2. i \in Addr /\ i < drv'.word
        BY <4>1, <2>3, <1>1, ParamStoreAssumption DEF Addr, Last, SYSTEMPARAM_PROGRAMED
      <4> QED BY <4>1, <4>2, <3>2, <2>5 DEF Good
    <3>4. \A c \in Copy : Good(flash'[c])
      BY <3>3, <2>5 DEF Inv0, Certified
    <3>5. \A c \in Copy : Good(Img(c)')
      BY <2>6 DEF Inv0, Certified
    <3> QED BY <3>4, <3>5 DEF Certified, Good
  <2>8. Driver'
    BY <1>1, <2>3, <2>4, <2>5 DEF Inv0, Driver, Rebuilding
  <2>9. Request'
    BY <1>1 DEF Inv0, Request
  <2>10. CheckLoop'
    BY <1>1, <2>3, <2>6, Constants DEF Inv0, CheckLoop, Visited, Marked, Copy
  <2>11. Marks'
    BY <1>1, <2>3, <2>4, <2>5
       DEF Inv0, Marks, Programed, Driver, Copy, Run, Bak1, Bak2, Rebuilding
  <2> QED BY <2>7, <2>8, <2>9, <2>10, <2>11 DEF Inv0
<1>3. CASE Patching
  <2>1. /\ pc = "check" /\ Flash_Buf[Cnt] = Erased /\ drv.word <= Cnt
        /\ Cnt \in Addr /\ flash[drv.page][Cnt] # Erased
        /\ \A i \in Addr : i # Cnt => flash[drv.page][i] = Flash_Buf[i]
    BY <1>1, <1>3, ParamStoreAssumption
       DEF Inv0, Driver, Patching, TypeInv, TypeOK, Addr
  <2>2. UNCHANGED flash
    <3>1. CASE Programmable(drv.page, drv.word)
      <4>1. drv.word # Cnt
        BY <3>1, <2>1, ParamStoreAssumption DEF Programmable
      <4>2. flash' = [flash EXCEPT ![drv.page][drv.word] = flash[drv.page][drv.word]]
        BY <3>1, <4>1, <2>1, <1>1, NoFault DEF Program_Word
      <4> QED BY <4>2, <1>1 DEF TypeInv, TypeOK, Image
    <3>2. CASE ~Programmable(drv.page, drv.word)
      BY <3>2, NoFault DEF Program_Word
    <3> QED BY <3>1, <3>2
  <2>3. \/ /\ drv.word # Cnt
           /\ drv'.phase = "program" /\ drv'.word = drv.word + 1
        \/ drv'.phase = "failed"
    BY <1>1, <2>1, NoFault, ParamStoreAssumption
       DEF Program_Word, Programmable, TypeInv, TypeOK
  <2>4. drv'.page = drv.page
    BY <1>1 DEF Program_Word, TypeInv, TypeOK
  <2>5. \A c \in Copy : Img(c) = flash[c] /\ Img(c)' = flash[c]
    BY <1>1, <1>3, <2>1, <2>2, <2>3 DEF Img, Patching, Rebuilding
  <2>6. Certified'
    BY <2>2, <2>5 DEF Inv0, Certified, Good
  <2>7. Driver'
    BY <1>1, <2>1, <2>2, <2>3, <2>4 DEF Inv0, Driver, Patching, Rebuilding, TypeInv, TypeOK
  <2>8. Request'
    BY <1>1 DEF Inv0, Request
  <2>9. CheckLoop'
    BY <1>1, <2>3, <2>5, Constants DEF Inv0, CheckLoop, Visited, Marked, Copy
  <2>10. Marks'
    BY <1>1, <2>1 DEF Inv0, Marks
  <2> QED BY <2>6, <2>7, <2>8, <2>9, <2>10 DEF Inv0
<1> QED BY <1>2, <1>3

(* The first step of the check: everything is still to be visited.         *)
LEMMA BeginCheck ==
  ASSUME TypeInv, TypeInv', Inv0, StartCheck, Request'
  PROVE  Inv0'
<1>1. /\ drv'.phase = "idle" /\ pc' = "check" /\ Cnt' = 0
      /\ Cur_Param' = flash[Run] /\ flash' = flash
  BY DEF StartCheck, Idle
<1>2. ~Rebuilding' /\ ~Patching'
  BY <1>1 DEF Rebuilding, Patching
<1>3. \A c \in Copy : Img(c)' = flash[c]
  BY <1>1, <1>2 DEF Img
<1>4. Certified'
  BY <1>1, <1>3 DEF Inv0, Certified, Good
<1>5. Driver'
  BY <1>1, <1>2 DEF Driver
<1>6. CheckLoop'
  <2>1. \A i \in Addr : ~Visited(i)'
    BY <1>1, ParamStoreAssumption DEF Visited, Addr
  <2>2. Run \in Copy
    BY DEF Copy
  <2> QED BY <1>1, <1>3, <2>1, <2>2, ParamStoreAssumption DEF CheckLoop
<1>7. Marks'
  BY <1>1 DEF Marks
<1> QED BY <1>4, <1>5, <1>6, <1>7 DEF Inv0

LEMMA BasicJob ==
  LET job == [at |-> UserAddr, data |-> User_Default_Param]
  IN  /\ job \in [at : SUBSET Addr, data : Image]
      /\ \A i \in job.at \cap Solid : job.data[i] # Erased
      /\ Last \notin job.at
  BY Constants, ParamStoreAssumption

LEMMA DefaultJob ==
  LET job == [at |-> Addr, data |-> User_Default_Param]
  IN  /\ job \in [at : SUBSET Addr, data : Image]
      /\ \A i \in job.at \cap Solid : job.data[i] # Erased
      /\ job.at = Addr /\ Last \in job.at
      /\ job.data[Last] = SYSTEMPARAM_IS_PROGRAMED
  BY Constants, ParamStoreAssumption DEF Last, SYSTEMPARAM_IS_PROGRAMED

LEMMA BootStep ==
  ASSUME TypeInv, TypeInv', Inv0, faults = 0, faults' = 0, Check_Device_Param
  PROVE  Inv0'
<1>0. Run \in Copy
  BY DEF Copy
<1>1. Request'
  BY DEF Inv0, Request, Check_Device_Param, StartCheck
<1>2. CASE StartCheck
  BY <1>1, <1>2, BeginCheck
<1>3. CASE /\ pc' = "basic"
           /\ Write_MultiBytes(Run, [at |-> UserAddr, data |-> User_Default_Param])
           /\ UNCHANGED <<flash, req, checkVars>>
  <2>1. /\ Certified' /\ CheckLoop'
        /\ drv'.phase = "erase" /\ drv'.word = 0 /\ drv'.page = Run
        /\ Rebuilding' /\ ~Patching'
    BY <1>0, <1>3, BasicJob, BeginMulti DEF Inv0, Certified, TypeInv
  <2>2. Driver'
    BY <1>3, <2>1 DEF Driver
  <2>3. Marks'
    BY <1>3 DEF Marks
  <2> QED BY <1>1, <2>1, <2>2, <2>3 DEF Inv0
<1> QED BY <1>2, <1>3 DEF Check_Device_Param

(* What a Write3T call hands to the page driver.                           *)
LEMMA JobGood ==
  ASSUME TypeInv, Inv0, pc \in {"basic", "default", "write"}
  PROVE  /\ Job \in [at : SUBSET Addr, data : Image]
         /\ \A i \in Job.at \cap Solid : Job.data[i] # Erased
         /\ Job.at = Addr \/ Last \notin Job.at
         /\ pc = "write" => Last \notin Job.at
         /\ pc = "default" => Last \in Job.at /\ Job.data[Last] = SYSTEMPARAM_IS_PROGRAMED
<1>1. CASE pc = "basic"
  BY <1>1, BasicJob DEF Job
<1>2. CASE pc = "default"
  BY <1>2, DefaultJob DEF Job
<1>3. CASE pc = "write"
  BY <1>3 DEF Job, Inv0, Request, TypeInv, TypeOK
<1> QED BY <1>1, <1>2, <1>3

(* A page operation that returned and did not patch has rebuilt its page.  *)
LEMMA Rebuilt ==
  ASSUME TypeInv, Inv0, Returned, pc # "check"
  PROVE  /\ Succeeded
         /\ \A i \in Addr : flash[drv.page][i] = Flash_Buf[i]
  BY ParamStoreAssumption
     DEF Returned, Succeeded, Failed, Inv0, Driver, Patching, TypeInv, TypeOK, Addr

LEMMA NextCopyStep ==
  ASSUME TypeInv, TypeInv', Inv0, faults = 0, faults' = 0, Write3T_NextCopy
  PROVE  Inv0'
<1>1. /\ pc \in {"basic", "default", "write"} /\ pc' = pc /\ Returned
      /\ drv.page # Bak2 /\ UNCHANGED <<flash, req>>
      /\ Write_MultiBytes(drv.page + 1, Job)
  BY DEF Write3T_NextCopy
<1>2. drv.page + 1 \in Copy /\ drv.page \in Copy
  BY <1>1 DEF TypeInv, TypeOK, Copy, Run, Bak1, Bak2
<1>3. /\ Certified' /\ CheckLoop'
      /\ drv'.phase = "erase" /\ drv'.word = 0 /\ drv'.page = drv.page + 1
      /\ Rebuilding' /\ ~Patching'
      /\ Last \notin Job.at => Flash_Buf'[Last] = flash[drv.page + 1][Last]
      /\ Last \in Job.at => Flash_Buf'[Last] = Job.data[Last]
  BY <1>1, <1>2, JobGood, BeginMulti DEF Inv0, Certified, TypeInv
<1>4. Driver'
  BY <1>1, <1>3 DEF Driver
<1>5. Request'
  BY <1>1 DEF Inv0, Request
<1>6. Marks'
  <2>1. flash[drv.page][Last] = Flash_Buf[Last]
    BY <1>1, Rebuilt, Constants
  <2>2. CASE pc = "default"
    <3>1. \A c \in Copy : c < drv'.page => Programed(c)'
      BY <1>1, <1>2, <1>3, <2>1, <2>2
         DEF Inv0, Marks, Programed, Copy, Run, Bak1, Bak2, Last
    <3> QED BY <1>1, <1>3, <2>2, <3>1, JobGood DEF Marks
  <2>3. CASE pc = "write"
    <3>1. \A c \in Copy : Programed(c)
      BY <2>1, <2>3 DEF Inv0, Marks, Programed, Last
    <3>2. Flash_Buf'[Last] = SYSTEMPARAM_IS_PROGRAMED
      BY <1>2, <1>3, <2>3, <3>1, JobGood DEF Programed, Last
    <3> QED BY <1>1, <2>3, <3>1, <3>2 DEF Marks, Programed
  <2>4. CASE pc = "basic"
    BY <1>1, <2>4 DEF Marks
  <2> QED BY <1>1, <2>2, <2>3, <2>4
<1> QED BY <1>3, <1>4, <1>5, <1>6 DEF Inv0

LEMMA BasicReturnStep ==
  ASSUME TypeInv, TypeInv', Inv0, faults = 0, faults' = 0, Write3T_Basic_Return
  PROVE  Inv0'
<1>1. pc = "basic" /\ Run \in Copy
  BY DEF Write3T_Basic_Return, Copy
<1>2. Request'
  BY <1>1 DEF Inv0, Request, Write3T_Basic_Return, StartCheck
<1>3. CASE StartCheck
  BY <1>2, <1>3, BeginCheck
<1>4. CASE Write_MultiBytes(Run, Job) /\ UNCHANGED <<flash, pc, req, checkVars>>
  <2>1. /\ Certified' /\ CheckLoop'
        /\ drv'.phase = "erase" /\ drv'.word = 0 /\ drv'.page = Run
        /\ Rebuilding' /\ ~Patching'
    BY <1>1, <1>4, JobGood, BeginMulti DEF Inv0, Certified, TypeInv
  <2>2. Driver'
    BY <1>1, <1>4, <2>1 DEF Driver
  <2>3. Marks'
    BY <1>1, <1>4 DEF Marks
  <2> QED BY <1>2, <2>1, <2>2, <2>3 DEF Inv0
<1> QED BY <1>3, <1>4 DEF Write3T_Basic_Return

(* The check starts to write one byte: the byte the two other copies agree *)
(* on.  An 0xFF only patches, anything else rebuilds the page.             *)
LEMMA RepairBegins ==
  ASSUME TypeInv, Inv0, NEW p \in Copy, NEW v \in Byte,
         pc = "check", drv.phase = "idle", Cnt \in Addr,
         \A o \in Copy \ {p} : flash[o][Cnt] = v,
         flash[p][Cnt] # v,
         Write_OneByte(p, Cnt, v),
         UNCHANGED <<flash, pc, req, Cur_Param, Cnt>>
  PROVE  Inv0'
<1>1. /\ ~Rebuilding /\ ~Patching /\ (\A c \in Copy : Img(c) = flash[c])
      /\ \A i \in Addr : Visited(i) <=> i < Cnt
  BY ParamStoreAssumption DEF Rebuilding, Patching, Img, Visited, Addr
<1>2. /\ drv'.page = p /\ drv'.word = 0 /\ drv'.phase \in {"erase", "program"}
      /\ drv'.phase = "erase" <=> v # Erased
      /\ Flash_Buf' = [flash[p] EXCEPT ![Cnt] = v]
      /\ Rebuilding'
      /\ \A i \in Addr : Visited(i)' <=> i < Cnt \/ i = Cnt
  BY ParamStoreAssumption DEF Write_OneByte, Rebuilding, Visited
<1>3. flash[p] \in Image /\ Flash_Buf' \in Image
  BY <1>2 DEF TypeInv, TypeOK, Image
<1>4. /\ Flash_Buf'[Cnt] = v
      /\ \A i \in Addr : i # Cnt => Flash_Buf'[i] = flash[p][i]
  BY <1>2, <1>3 DEF Image
<1>5. /\ Last \in Addr /\ Last \in Solid /\ Solid \subseteq Addr
      /\ \A i \in Addr : i # Last => i < Last
      /\ \A i \in Addr : i \in Int
  BY Constants, ParamStoreAssumption DEF Addr, Last, SYSTEMPARAM_PROGRAMED
<1>6. Request' /\ Marks'
  BY DEF Inv0, Request, Marks
<1>7. Patching' <=> v = Erased
  BY <1>2, <1>4 DEF Patching
<1>8. \A i \in Addr : ~Visited(i)' => Cur_Param'[i] = flash[Run][i]
  <2>1. Run \in Copy
    BY DEF Copy
  <2> QED BY <1>1, <1>2, <2>1 DEF Inv0, CheckLoop
<1>9. \A i \in Solid, c \in Copy :
         i < Cnt /\ (\A o \in Copy \ {c} : flash[o][Last] = SYSTEMPARAM_IS_PROGRAMED)
           => flash[c][i] # Erased
  BY <1>1, <1>5 DEF Inv0, CheckLoop, Marked
<1>10. \A c \in Copy : Good(flash[c])
  BY DEF Inv0, Certified
<1>11. CASE v = Erased
  <2>1. \A c \in Copy : Img(c)' = flash[c]
    BY <1>7, <1>11 DEF Img
  <2>2. Certified'
    BY <1>10, <2>1 DEF Certified, Good
  <2>3. Driver'
    BY <1>2, <1>3, <1>4, <1>7, <1>11, ParamStoreAssumption DEF Driver, Addr
  <2>4. CheckLoop'
    <3>1. ASSUME NEW i \in Solid, Visited(i)', NEW c \in Copy,
                 \A o \in Copy \ {c} : flash[o][Last] = SYSTEMPARAM_IS_PROGRAMED
          PROVE  flash[c][i] # Erased
      <4>1. CASE i < Cnt
        BY <1>9, <3>1, <4>1
      <4>2. CASE i = Cnt
        <5>1. PICK o \in Copy \ {c} : o # p
          BY DEF Copy, Run, Bak1, Bak2
        <5>2. flash[o][Cnt] = Erased
          BY <5>1, <1>11
        <5>3. flash[o][Cnt] # Erased
          BY <5>1, <3>1, <4>2, <1>10 DEF Good
        <5> QED BY <5>2, <5>3
      <4> QED BY <1>2, <1>5, <3>1, <4>1, <4>2
    <3>2. Run \in Copy
      BY DEF Copy
    <3> QED BY <1>8, <2>1, <3>1, <3>2 DEF CheckLoop, Marked
  <2> QED BY <1>6, <2>2, <2>3, <2>4 DEF Inv0
<1>12. CASE v # Erased
  <2>1. /\ \A c \in Copy : c # p => Img(c)' = flash[c]
        /\ Img(p)' = Flash_Buf'
    BY <1>2, <1>7, <1>12 DEF Img
  <2>2. Good(Flash_Buf')
    <3> SUFFICES ASSUME Flash_Buf'[Last] = SYSTEMPARAM_IS_PROGRAMED, NEW i \in Solid
                 PROVE  Flash_Buf'[i] # Erased
      BY DEF Good
    <3>1. CASE i = Cnt
      BY <1>4, <1>12, <3>1
    <3>2. CASE i # Cnt /\ Cnt # Last
      BY <1>4, <1>5, <1>10, <3>2 DEF Good
    <3>3. CASE i # Cnt /\ Cnt = Last
      BY <1>4, <1>5, <1>9, <3>3
    <3> QED BY <3>1, <3>2, <3>3
  <2>3. Certified'
    BY <1>10, <2>1, <2>2 DEF Certified, Good
  <2>4. Driver'
    BY <1>2, <1>7, <1>12 DEF Driver
  <2>5. CheckLoop'
    <3>1. ASSUME NEW i \in Solid, Visited(i)', NEW c \in Copy,
                 \A o \in Copy \ {c} : Marked(o)'
          PROVE  Img(c)'[i] # Erased
      <4>1. CASE i = Cnt
        BY <1>4, <1>12, <2>1, <4>1
      <4>2. CASE i < Cnt /\ c = p
        <5>1. \A o \in Copy \ {c} : flash[o][Last] = SYSTEMPARAM_IS_PROGRAMED
          BY <2>1, <3>1, <4>2 DEF Marked
        <5>2. flash[p][i] # Erased
          BY <1>9, <4>2, <5>1
        <5>3. i \in Addr /\ i # Cnt
          BY <1>5, <4>2
        <5> QED BY <1>4, <2>1, <4>2, <5>2, <5>3
      <4>3. CASE i < Cnt /\ c # p /\ Cnt # Last
        <5>1. \A o \in Copy \ {c} : flash[o][Last] = SYSTEMPARAM_IS_PROGRAMED
          BY <1>4, <1>5, <2>1, <3>1, <4>3 DEF Marked
        <5> QED BY <1>9, <2>1, <4>3, <5>1
      <4>4. CASE c # p /\ Cnt = Last
        <5>1. flash[c][Last] = SYSTEMPARAM_IS_PROGRAMED
          BY <1>4, <2>1, <3>1, <4>4 DEF Marked
        <5> QED BY <1>10, <2>1, <4>4, <5>1 DEF Good
      <4> QED BY <1>2, <1>5, <3>1, <4>1, <4>2, <4>3, <4>4
    <3>2. \A i \in Addr : ~Visited(i)' => Img(Run)'[i] = flash[Run][i]
      <4>1. Run \in Copy
        BY DEF Copy
      <4>2. \A i \in Addr : ~Visited(i)' => Flash_Buf'[i] = flash[p][i]
        BY <1>2, <1>4
      <4>3. CASE Run = p
        BY <2>1, <4>2, <4>3
      <4>4. CASE Run # p
        BY <2>1, <4>1, <4>4
      <4> QED BY <4>3, <4>4
    <3> QED BY <1>8, <3>1, <3>2 DEF CheckLoop
  <2> QED BY <1>6, <2>3, <2>4, <2>5 DEF Inv0
<1> QED BY <1>11, <1>12

LEMMA CheckByteStep ==
  ASSUME TypeInv, TypeInv', Inv0, faults = 0, faults' = 0, Check_Byte
  PROVE  Inv0'
<1>1. /\ pc = "check" /\ drv.phase = "idle" /\ Cnt \in Addr /\ Run \in Copy
      /\ Bak1 \in Copy /\ Bak2 \in Copy /\ Copy = {Run, Bak1, Bak2}
      /\ UNCHANGED <<flash, pc, req, Cur_Param>>
  BY ParamStoreAssumption DEF Check_Byte, TypeInv, TypeOK, Addr, Copy
<1>2. /\ ~Rebuilding /\ (\A c \in Copy : Img(c) = flash[c])
      /\ \A i \in Addr : Visited(i) <=> i < Cnt
  BY <1>1, ParamStoreAssumption DEF Rebuilding, Img, Visited, Addr
<1>3. Cur_Param[Cnt] = flash[Run][Cnt]
  BY <1>1, <1>2, ParamStoreAssumption DEF Inv0, CheckLoop, Addr
<1>4. \A c \in Copy : flash[c][Cnt] \in Byte
  BY <1>1 DEF TypeInv, TypeOK, Image
<1> DEFINE sta == CheckSta(flash[Run][Cnt], flash[Bak1][Cnt], flash[Bak2][Cnt])
<1>5. CASE sta = 6 /\ Write_OneByte(Bak2, Cnt, flash[Run][Cnt]) /\ Cnt' = Cnt
  <2>1. flash[Run][Cnt] = flash[Bak1][Cnt] /\ flash[Bak1][Cnt] # flash[Bak2][Cnt]
    BY <1>5, CheckStaCases
  <2> QED BY <1>1, <1>4, <1>5, <2>1, RepairBegins
<1>6. CASE sta = 3 /\ Write_OneByte(Bak1, Cnt, flash[Run][Cnt]) /\ Cnt' = Cnt
  <2>1. flash[Run][Cnt] = flash[Bak2][Cnt] /\ flash[Bak1][Cnt] # flash[Bak2][Cnt]
    BY <1>6, CheckStaCases
  <2> QED BY <1>1, <1>4, <1>6, <2>1, RepairBegins
<1>7. CASE sta = 5 /\ Write_OneByte(Run, Cnt, flash[Bak1][Cnt]) /\ Cnt' = Cnt
  <2>1. flash[Bak1][Cnt] = flash[Bak2][Cnt] /\ flash[Run][Cnt] # flash[Bak1][Cnt]
    BY <1>7, CheckStaCases
  <2> QED BY <1>1, <1>4, <1>7, <2>1, RepairBegins
<1>8. CASE sta = 0 /\ Cnt' = Cnt + 1 /\ UNCHANGED <<Flash_Buf, drv>>
  <2>1. flash[Run][Cnt] = flash[Bak1][Cnt] /\ flash[Bak1][Cnt] = flash[Bak2][Cnt]
    BY <1>8, CheckStaCases
  <2>2. /\ ~Rebuilding' /\ ~Patching' /\ (\A c \in Copy : Img(c)' = flash[c])
        /\ \A i \in Addr : Visited(i)' <=> i < Cnt \/ i = Cnt
    BY <1>1, <1>2, <1>8, ParamStoreAssumption
       DEF Rebuilding, Patching, Img, Visited, Addr
  <2>3. Certified'
    BY <1>1, <2>2 DEF Inv0, Certified, Good
  <2>4. Driver' /\ Request' /\ Marks'
    BY <1>1, <1>8, <2>2 DEF Inv0, Driver, Request, Marks
  <2>5. CheckLoop'
    <3>1. ASSUME NEW i \in Solid, Visited(i)', NEW c \in Copy,
                 \A o \in Copy \ {c} : Marked(o)'
          PROVE  Img(c)'[i] # Erased
      <4>1. i \in Addr
        BY ParamStoreAssumption
      <4>2. CASE i < Cnt
        BY <1>1, <1>2, <2>2, <3>1, <4>1, <4>2 DEF Inv0, CheckLoop, Marked
      <4>3. CASE i = Cnt
        <5>1. PICK o \in Copy : o # c
          BY DEF Copy, Run, Bak1, Bak2
        <5>2. flash[o][Cnt] # Erased
          BY <2>2, <3>1, <4>3, <5>1 DEF Inv0, Certified, Good, Marked
        <5>3. flash[o][Cnt] = flash[c][Cnt]
          BY <1>1, <2>1
        <5> QED BY <2>2, <4>3, <5>2, <5>3
      <4> QED BY <2>2, <3>1, <4>1, <4>2, <4>3
    <3>2. \A i \in Addr : ~Visited(i)' => Cur_Param'[i] = Img(Run)'[i]
      BY <1>1, <1>2, <2>2 DEF Inv0, CheckLoop
    <3> QED BY <3>1, <3>2 DEF CheckLoop
  <2> QED BY <2>3, <2>4, <2>5 DEF Inv0
<1>9. CASE Cnt' = Cnt /\ UNCHANGED <<Flash_Buf, drv>>
  <2>1. \A c \in Copy : Img(c)' = Img(c)
    BY <1>1, <1>2, <1>9 DEF Img, Rebuilding
  <2>2. Certified' /\ Driver' /\ Request' /\ Marks'
    BY <1>1, <1>9, <2>1, <1>2
       DEF Inv0, Certified, Good, Driver, Request, Marks, Rebuilding, Patching, Programed
  <2>3. CheckLoop'
    BY <1>1, <1>9, <2>1 DEF Inv0, CheckLoop, Visited, Marked
  <2> QED BY <2>2, <2>3 DEF Inv0
<1> QED BY <1>3, <1>5, <1>6, <1>7, <1>8, <1>9 DEF Check_Byte

LEMMA RepairReturnStep ==
  ASSUME TypeInv, TypeInv', Inv0, faults = 0, faults' = 0, Repair_Return
  PROVE  Inv0'
<1>1. /\ pc = "check" /\ Returned /\ drv'.phase = "idle" /\ Cnt' = Cnt + 1
      /\ UNCHANGED <<flash, Flash_Buf, pc, req, Cur_Param>>
      /\ drv.phase # "idle" /\ drv.page \in Copy
  BY DEF Repair_Return, Advance, Idle, Returned, Succeeded, Failed, TypeInv, TypeOK
<1>2. \A i \in Addr : Visited(i)' <=> Visited(i)
  BY <1>1, ParamStoreAssumption DEF Visited, TypeInv, TypeOK, Addr
<1>3. ~Rebuilding' /\ ~Patching' /\ \A c \in Copy : Img(c)' = flash[c]
  BY <1>1 DEF Rebuilding, Patching, Img
<1>4. \A c \in Copy, i \in Addr : Img(c)[i] = flash[c][i]
  <2>1. CASE Failed
    BY <2>1 DEF Failed, Img, Rebuilding
  <2>2. CASE Succeeded
    <3>1. ~Patching
      BY <1>1, <2>2, ParamStoreAssumption DEF Succeeded, Inv0, Driver, TypeInv, TypeOK
    <3>2. \A i \in Addr : flash[drv.page][i] = Flash_Buf[i]
      BY <2>2, <3>1, ParamStoreAssumption DEF Succeeded, Inv0, Driver, Addr
    <3> QED BY <3>2 DEF Img
  <2> QED BY <1>1, <2>1, <2>2 DEF Returned
<1>5. Certified' /\ Driver' /\ Request' /\ Marks'
  BY <1>1, <1>3 DEF Inv0, Certified, Good, Driver, Request, Marks
<1>6. CheckLoop'
  <2>1. Run \in Copy /\ Solid \subseteq Addr /\ Last \in Addr
    BY Constants, ParamStoreAssumption DEF Copy
  <2>2. \A c \in Copy : Marked(c)' <=> Marked(c)
    BY <1>3, <1>4, <2>1 DEF Marked
  <2>3. ASSUME NEW i \in Solid, Visited(i)', NEW c \in Copy,
               \A o \in Copy \ {c} : Marked(o)'
        PROVE  Img(c)'[i] # Erased
    BY <1>1, <1>2, <1>3, <1>4, <2>1, <2>2, <2>3 DEF Inv0, CheckLoop
  <2>4. \A i \in Addr : ~Visited(i)' => Cur_Param'[i] = Img(Run)'[i]
    BY <1>1, <1>2, <1>3, <1>4, <2>1 DEF Inv0, CheckLoop
  <2> QED BY <2>3, <2>4 DEF CheckLoop
<1> QED BY <1>5, <1>6 DEF Inv0

LEMMA CheckEndStep ==
  ASSUME TypeInv, TypeInv', Inv0, faults = 0, faults' = 0, Check_End
  PROVE  Inv0'
<1>0. Run \in Copy
  BY DEF Copy
<1>1. pc = "check" /\ drv.phase = "idle" /\ UNCHANGED <<flash, req>>
  BY DEF Check_End
<1>2. CASE /\ pc' = "default"
           /\ Write_MultiBytes(Run, [at |-> Addr, data |-> User_Default_Param])
  <2>1. /\ Certified' /\ CheckLoop'
        /\ drv'.phase = "erase" /\ drv'.word = 0 /\ drv'.page = Run
        /\ Rebuilding' /\ ~Patching'
        /\ Flash_Buf'[Last] = SYSTEMPARAM_IS_PROGRAMED
    BY <1>0, <1>1, <1>2, DefaultJob, BeginMulti DEF Inv0, Certified, TypeInv
  <2>2. Driver' /\ Request'
    BY <1>1, <1>2, <2>1 DEF Driver, Inv0, Request
  <2>3. \A c \in Copy : ~(c < Run)
    BY DEF Copy, Run, Bak1, Bak2
  <2>4. Marks'
    BY <1>2, <2>1, <2>3 DEF Marks
  <2> QED BY <2>1, <2>2, <2>4 DEF Inv0
<1>3. CASE ~NeedDefaults /\ pc' = "run" /\ UNCHANGED <<Flash_Buf, drv>>
  <2>1. ~Rebuilding' /\ ~Patching' /\ ~Rebuilding
    BY <1>1, <1>3 DEF Rebuilding, Patching
  <2>2. \A c \in Copy : Img(c)' = flash[c]
    BY <1>1, <2>1 DEF Img
  <2>3. Certified'
    BY <1>1, <2>2 DEF Inv0, Certified, Good
  <2>4. Driver' /\ Request' /\ CheckLoop'
    BY <1>1, <1>3, <2>1 DEF Inv0, Driver, Request, CheckLoop
  <2>5. Marks'
    BY <1>1, <1>3 DEF Marks, NeedDefaults, Programed
  <2> QED BY <2>3, <2>4, <2>5 DEF Inv0
<1> QED BY <1>2, <1>3 DEF Check_End

(* The last page of a command, of the factory table or of a version string *)
(* completes the three marks.                                              *)
LEMMA WriteReturnStep ==
  ASSUME TypeInv, TypeInv', Inv0, faults = 0, faults' = 0, Write_Return
  PROVE  Inv0'
<1>1. /\ Returned /\ pc \in {"write", "default", "info"}
      /\ pc \in {"write", "default"} => drv.page = Bak2
      /\ pc' = "run" /\ drv'.phase = "idle" /\ req'.at = {} /\ flash' = flash
      /\ drv.page \in Copy
  BY DEF Write_Return, Idle, NoReq, TypeInv, TypeOK
<1>2. ~Rebuilding' /\ ~Patching' /\ \A c \in Copy : Img(c)' = flash[c]
  BY <1>1 DEF Rebuilding, Patching, Img
<1>3. Certified' /\ Driver' /\ Request' /\ CheckLoop'
  BY <1>1, <1>2 DEF Inv0, Certified, Good, Driver, Request, CheckLoop
<1>4. flash[drv.page][Last] = Flash_Buf[Last]
  BY <1>1, Rebuilt, Constants
<1>5. Programed(drv.page)
  BY <1>1, <1>4 DEF Inv0, Marks, Programed, Last
<1>6. \A c \in Copy \ {drv.page} : Programed(c)
  <2>1. CASE pc = "default"
    BY <1>1, <2>1 DEF Inv0, Marks, Copy, Run, Bak1, Bak2
  <2>2. CASE pc \in {"write", "info"}
    BY <2>2 DEF Inv0, Marks
  <2> QED BY <1>1, <2>1, <2>2
<1>7. Marks'
  BY <1>1, <1>5, <1>6 DEF Marks, Programed
<1> QED BY <1>3, <1>7 DEF Inv0

(* A command starts on a store whose three copies carry the mark.          *)
LEMMA CommandStep ==
  ASSUME TypeInv, TypeInv', Inv0, pc = "run", UNCHANGED flash,
         NEW job \in [at : SUBSET Addr, data : Image],
         Last \notin job.at, \A i \in job.at \cap Solid : job.data[i] # Erased,
         Write_MultiBytes(Run, job),
         \/ pc' = "write" /\ req' = job
         \/ pc' = "info" /\ req' = req
  PROVE  Inv0'
<1>1. Run \in Copy /\ \A c \in Copy : Programed(c)
  BY DEF Inv0, Marks, Copy
<1>2. /\ Certified' /\ CheckLoop'
      /\ drv'.phase = "erase" /\ drv'.word = 0 /\ drv'.page = Run
      /\ Rebuilding' /\ ~Patching'
      /\ Flash_Buf'[Last] = flash[Run][Last]
  BY <1>1, BeginMulti DEF Inv0, Certified, TypeInv
<1>3. Driver'
  BY <1>2 DEF Driver
<1>4. Request'
  BY DEF Inv0, Request
<1>5. Marks'
  BY <1>1, <1>2 DEF Marks, Programed, Last
<1> QED BY <1>2, <1>3, <1>4, <1>5 DEF Inv0

LEMMA WriteParamStep ==
  ASSUME TypeInv, TypeInv', Inv0, WriteParam
  PROVE  Inv0'
<1>1. PICK f \in Fields : \E v \in [f -> Data \cup {Erased}] : WriteField(f, v)
  BY DEF WriteParam
<1>2. PICK v \in [f -> Data \cup {Erased}] : WriteField(f, v)
  BY <1>1
<1> DEFINE job == [at |-> f, data |-> NewImage(f, v)]
<1>3. NewImage(f, v) \in Image
  BY Constants DEF NewImage, TypeInv, TypeOK, Image, Copy
<1>4. job \in [at : SUBSET Addr, data : Image] /\ Last \notin job.at
  BY <1>3, ParamStoreAssumption DEF Last
<1>5. \A i \in job.at \cap Solid : job.data[i] # Erased
  BY <1>2, <1>4 DEF WriteField, NewImage
<1>6. Write_MultiBytes(Run, job) /\ req' = job
  BY <1>2 DEF WriteField
<1>7. pc = "run" /\ pc' = "write" /\ UNCHANGED flash
  BY DEF WriteParam
<1> QED BY <1>4, <1>5, <1>6, <1>7, CommandStep

LEMMA WriteInfoStep ==
  ASSUME TypeInv, TypeInv', Inv0, WriteInfo
  PROVE  Inv0'
<1>1. /\ NoReq \in [at : SUBSET Addr, data : Image] /\ Last \notin NoReq.at
      /\ \A i \in NoReq.at \cap Solid : NoReq.data[i] # Erased
  BY Constants DEF NoReq
<1>2. /\ pc = "run" /\ pc' = "info" /\ UNCHANGED <<flash, req>>
      /\ Write_MultiBytes(Run, NoReq)
  BY DEF WriteInfo
<1> QED BY <1>1, <1>2, CommandStep

(* A reset keeps the flash, and every page of it is certified on its own.  *)
LEMMA ResetStep ==
  ASSUME TypeInv, TypeInv', Inv0, LoseRam
  PROVE  Inv0'
<1>1. pc' = "boot" /\ drv'.phase = "idle" /\ req'.at = {} /\ flash' = flash
  BY DEF LoseRam, Idle, NoReq
<1>2. ~Rebuilding' /\ ~Patching' /\ \A c \in Copy : Img(c)' = flash[c]
  BY <1>1 DEF Rebuilding, Patching, Img
<1> QED BY <1>1, <1>2 DEF Inv0, Certified, Good, Driver, Request, CheckLoop, Marks

LEMMA InitInv == Init => IInv
<1> SUFFICES ASSUME Init PROVE Inv0
  BY InitType DEF IInv
<1>1. pc = "boot" /\ drv.phase = "idle" /\ req.at = {} /\ flash = [c \in Copy |-> Blank]
  BY DEF Init, Idle, NoReq
<1>2. ~Rebuilding /\ ~Patching /\ \A c \in Copy : Img(c) = Blank
  BY <1>1 DEF Rebuilding, Patching, Img
<1>3. Good(Blank)
  BY Constants DEF Good, Blank
<1> QED BY <1>1, <1>2, <1>3 DEF Inv0, Certified, Good, Driver, Request, CheckLoop, Marks

(* A failed flash operation is never forgotten, so a step that ends        *)
(* without failures began without.                                         *)
LEMMA StepInv == IInv /\ [Next]_vars => IInv'
<1> SUFFICES ASSUME IInv, [Next]_vars, faults' = 0 PROVE Inv0'
  BY StepType DEF IInv
<1>1. TypeInv /\ TypeInv'
  BY StepType DEF IInv
<1>2. faults = 0
  BY <1>1 DEF Next, Step, vars, Erase_Page, Program_Word, FlashFault,
       Check_Device_Param, Write3T_NextCopy, Write3T_Basic_Return, Check_Byte,
       Repair_Return, Check_End, Write_Return, WriteParam, WriteInfo, Restart,
       Crash, LoseRam, TypeInv, TypeOK
<1>3. Inv0
  BY <1>2 DEF IInv
<1>4. CASE Erase_Page
  BY <1>1, <1>2, <1>3, <1>4, EraseStep
<1>5. CASE Program_Word
  BY <1>1, <1>2, <1>3, <1>5, ProgramStep
<1>6. CASE Check_Device_Param
  BY <1>1, <1>2, <1>3, <1>6, BootStep
<1>7. CASE Write3T_NextCopy
  BY <1>1, <1>2, <1>3, <1>7, NextCopyStep
<1>8. CASE Write3T_Basic_Return
  BY <1>1, <1>2, <1>3, <1>8, BasicReturnStep
<1>9. CASE Check_Byte
  BY <1>1, <1>2, <1>3, <1>9, CheckByteStep
<1>10. CASE Repair_Return
  BY <1>1, <1>2, <1>3, <1>10, RepairReturnStep
<1>11. CASE Check_End
  BY <1>1, <1>2, <1>3, <1>11, CheckEndStep
<1>12. CASE Write_Return
  BY <1>1, <1>2, <1>3, <1>12, WriteReturnStep
<1>13. CASE WriteParam
  BY <1>1, <1>3, <1>13, WriteParamStep
<1>14. CASE WriteInfo
  BY <1>1, <1>3, <1>14, WriteInfoStep
<1>15. CASE LoseRam
  BY <1>1, <1>3, <1>15, ResetStep
<1>16. CASE UNCHANGED vars
  <2>1. \A c \in Copy : Img(c)' = Img(c)
    BY <1>16 DEF vars, checkVars, Img, Rebuilding, Patching
  <2>2. Certified' /\ Driver' /\ Request' /\ Marks'
    BY <1>3, <1>16, <2>1
       DEF vars, checkVars, Inv0, Certified, Good, Driver, Request, Marks, Rebuilding,
           Patching, Programed
  <2>3. CheckLoop'
    <3>1. UNCHANGED <<pc, drv, Cnt, Cur_Param>>
      BY <1>16 DEF vars, checkVars
    <3>2. \A i : Visited(i)' <=> Visited(i)
      BY <3>1 DEF Visited
    <3>3. \A c \in Copy : Marked(c)' <=> Marked(c)
      BY <2>1 DEF Marked
    <3>4. Run \in Copy
      BY DEF Copy
    <3> QED BY <1>3, <2>1, <3>1, <3>2, <3>3, <3>4 DEF Inv0, CheckLoop
  <2> QED BY <2>2, <2>3 DEF Inv0
<1> QED
  BY <1>4, <1>5, <1>6, <1>7, <1>8, <1>9, <1>10, <1>11, <1>12, <1>13, <1>14,
     <1>15, <1>16 DEF Next, Step, Restart, Crash

LEMMA Inductive == Spec => []IInv
  BY InitInv, StepInv, PTL DEF Spec

(* As long as no flash operation failed: whatever the resets, a copy that  *)
(* carries the written mark holds no erased byte among the checked         *)
(* parameters.                                                             *)
THEOREM FlagCertified == Spec => []FlagCertifiesCopy
<1>1. IInv => FlagCertifiesCopy
  BY DEF IInv, Inv0, Certified, Good, FlagCertifiesCopy, Programed, Last
<1> QED BY <1>1, Inductive, PTL

(* As long as no flash operation failed: when the device is up, the three  *)
(* copies carry the mark and the running parameters are programmed.        *)
THEOREM RunsOnValidParams == Spec => []RunParamsValid
<1>1. IInv => RunParamsValid
  <2> SUFFICES ASSUME IInv, pc = "run", faults = 0
               PROVE  /\ \A c \in Copy : Programed(c)
                      /\ \A i \in Solid : flash[Run][i] # Erased
    BY DEF RunParamsValid
  <2>1. \A c \in Copy : Programed(c)
    BY DEF IInv, Inv0, Marks
  <2>2. Run \in Copy /\ Good(flash[Run])
    BY DEF IInv, Inv0, Certified, Copy
  <2> QED BY <2>1, <2>2 DEF Good, Programed, Last
<1> QED BY <1>1, Inductive, PTL
=============================================================================
