------------------------------ MODULE ParamStore ------------------------------
(***************************************************************************)
(* The parameter store of the sensor (In_Flash_app.c over In_Flash.c).     *)
(*                                                                         *)
(* Every device parameter is kept three times in the internal flash: the   *)
(* copy the program runs on (RUN_ADDR_BASE) and two backups, one flash     *)
(* page each.  The only flash operations are "erase a page" and "program   *)
(* the next word of a page", so changing one byte of a copy destroys and   *)
(* rebuilds the whole copy, and a parameter change does that three times   *)
(* in a row.  A power loss, or the watchdog, may stop the processor        *)
(* between any two of these operations; Check_Device_Param repairs the     *)
(* copies at the next start.                                               *)
(*                                                                         *)
(* One address of the model is one flash word of the parameter area.       *)
(* Erasing a page and programming one word are atomic.  The rest of a page *)
(* matters only in so far as it is rewritten together with the parameters, *)
(* which is what WriteInfo (the version strings beside the running copy)   *)
(* is about.                                                               *)
(***************************************************************************)
EXTENDS Integers

CONSTANTS
  ProDefaultLen,       \* PRO_DEFAULT_LEN: addresses of one copy
  UserDefaultLen,      \* USER_DEFAULT_LEN: the basic parameters come first
  Data,                \* values a parameter may hold, besides the erased one
  Erased,              \* 0xFF, what an erased address reads
  Zero,                \* 0x0000, which the flash accepts over anything
  User_Default_Param,  \* the factory table, on 0 .. ProDefaultLen-1
  Solid,               \* addresses whose range checks never admit 0xFF
  Fields,              \* address sets that one Write3T call of a command writes
  MaxCrashes,          \* bound: resets before the device is up again
  MaxFaults            \* bound: flash operations that fail

Addr  == 0 .. ProDefaultLen - 1
Run   == 0                     \* the copy the program reads
Bak1  == 1
Bak2  == 2
Copy  == {Run, Bak1, Bak2}
None  == 3                     \* "no copy"

RUN_ADDR_BASE         == 0
SYSTEMPARAM_PROGRAMED == ProDefaultLen - 1
WRITE_FLASH_ERR_MAX   == 3
UserAddr              == 0 .. UserDefaultLen - 1

InitFlag                 == User_Default_Param[RUN_ADDR_BASE]
SYSTEMPARAM_IS_PROGRAMED == User_Default_Param[SYSTEMPARAM_PROGRAMED]

Byte  == Data \cup {Erased, InitFlag, SYSTEMPARAM_IS_PROGRAMED}
Image == [Addr -> Byte]
Blank == [i \in Addr |-> Erased]

ASSUME ParamStoreAssumption ==
  /\ ProDefaultLen \in Nat /\ UserDefaultLen \in Nat
  /\ 0 < UserDefaultLen /\ UserDefaultLen < ProDefaultLen
  /\ Erased \notin Data
  /\ Zero \in Data
  /\ User_Default_Param \in [Addr -> Byte]
  /\ Solid \subseteq Addr
  /\ {RUN_ADDR_BASE, SYSTEMPARAM_PROGRAMED} \subseteq Solid
  /\ \A i \in Solid : User_Default_Param[i] # Erased
  /\ \A f \in Fields : f \subseteq Addr \ {RUN_ADDR_BASE, SYSTEMPARAM_PROGRAMED}
  /\ MaxCrashes \in Nat /\ MaxFaults \in Nat

VARIABLES
  flash,       \* the three copies
  Flash_Buf,   \* RAM: the image the page in hand is rebuilt from
  drv,         \* the page operation in progress: phase, page, next word
  pc,          \* what the processor is doing
  req,         \* the parameters a command hands to Write3T
  Err,         \* Write3T: some copy could not be written
  ParaTemp,    \* Check_Device_Param: failed attempts
  Cur_Param,   \* RAM: the running copy as read before the check
  Cnt,         \* InFlash_SystemParam_Check: loop counter
  Check_Sta,   \* InFlash_SystemParam_Check: how the three bytes differ
  faults,      \* flash operations that failed so far
  crashes,     \* resets since the device was last up
  hit,         \* observation: the copy the last reset found half rebuilt
  old, new,    \* observation: running copy before and after the last command
  agreed       \* observation: the copies were equal before it

vars == <<flash, Flash_Buf, drv, pc, req, Err, ParaTemp, Cur_Param, Cnt,
          Check_Sta, faults, crashes, hit, old, new, agreed>>

checkVars == <<Cur_Param, Cnt, Check_Sta>>
obsVars   == <<crashes, hit, old, new, agreed>>

NoReq == [at |-> {}, data |-> User_Default_Param]
Idle  == [phase |-> "idle", page |-> Run, word |-> 0]

(***************************************************************************)
(* pc: "boot" before Check_Device_Param; "basic" and "default" inside its  *)
(* two Write3T calls; "check" in the loop of InFlash_SystemParam_Check;    *)
(* "write" and "info" while a command changes parameters or version        *)
(* strings; "run" when the device is up and no flash operation is pending. *)
(***************************************************************************)
Control == {"boot", "basic", "check", "default", "run", "write", "info"}

(* What the Write3T call in progress writes, and where.                    *)
Job == CASE pc = "basic"   -> [at |-> UserAddr, data |-> User_Default_Param]
         [] pc = "default" -> [at |-> Addr,     data |-> User_Default_Param]
         [] OTHER          -> req

Overlay(job, image) ==
  [i \in Addr |-> IF i \in job.at THEN job.data[i] ELSE image[i]]

------------------------------------------------------------------------------
(* The page driver, In_Flash.c                                             *)

(* InFlash_Write_MultiBytes reads the page, patches it in RAM and erases.  *)
Write_MultiBytes(page, job) ==
  /\ Flash_Buf' = Overlay(job, flash[page])
  /\ drv' = [phase |-> "erase", page |-> page, word |-> 0]

(* Mutant: InFlash_Write_OneByte as BC_Cap_Sensor_DAC has it.              *)
Write_OneByte_AlwaysErases(page, addr, value) ==
  /\ Flash_Buf' = [flash[page] EXCEPT ![addr] = value]
  /\ drv' = [phase |-> "erase", page |-> page, word |-> 0]

(* InFlash_Write_OneByte does the same, but an 0xFF is written without     *)
(* erasing the page first.                                                 *)
Write_OneByte(page, addr, value) ==
  /\ Flash_Buf' = [flash[page] EXCEPT ![addr] = value]
  /\ drv' = [phase |-> IF value # Erased THEN "erase" ELSE "program",
             page |-> page, word |-> 0]

FlashFault == faults < MaxFaults /\ faults' = faults + 1

Erase_Page ==
  /\ drv.phase = "erase"
  /\ \/ /\ flash' = [flash EXCEPT ![drv.page] = Blank]
        /\ drv' = [drv EXCEPT !.phase = "program"]
        /\ UNCHANGED faults
     \/ /\ FlashFault
        /\ drv' = [drv EXCEPT !.phase = "failed"]
        /\ UNCHANGED flash
  /\ UNCHANGED <<Flash_Buf, pc, req, Err, ParaTemp, checkVars, obsVars>>

(* The flash refuses (PGERR) to program a word that is not erased, unless  *)
(* the new value is zero; the driver then gives the page up.               *)
Programmable(page, word) ==
  flash[page][word] = Erased \/ Flash_Buf[word] = Zero

Program_Word ==
  /\ drv.phase = "program"
  /\ drv.word < ProDefaultLen
  /\ \/ /\ Programmable(drv.page, drv.word)
        /\ flash' = [flash EXCEPT ![drv.page][drv.word] = Flash_Buf[drv.word]]
        /\ drv' = [drv EXCEPT !.word = @ + 1]
        /\ UNCHANGED faults
     \/ /\ ~Programmable(drv.page, drv.word)
        /\ drv' = [drv EXCEPT !.phase = "failed"]
        /\ UNCHANGED <<flash, faults>>
     \/ /\ FlashFault
        /\ drv' = [drv EXCEPT !.phase = "failed"]
        /\ UNCHANGED flash
  /\ UNCHANGED <<Flash_Buf, pc, req, Err, ParaTemp, checkVars, obsVars>>

(* The page operation returns OP_SUCCESS or OP_FAILED.                     *)
Succeeded == drv.phase = "program" /\ drv.word = ProDefaultLen
Failed    == drv.phase = "failed"
Returned  == Succeeded \/ Failed

------------------------------------------------------------------------------
(* Check_Device_Param and InFlash_SystemParam_Check                        *)

StartCheck ==
  /\ pc' = "check"
  /\ Cur_Param' = flash[Run]
  /\ Cnt' = 0
  /\ Check_Sta' = 0
  /\ drv' = Idle
  /\ UNCHANGED <<flash, Flash_Buf, req>>

(* Mutant: the flag is looked for at the wrong end of the basic parameters.*)
Initialised_WrongAddr == flash[Run][UserDefaultLen - 1] = InitFlag

Initialised == flash[Run][RUN_ADDR_BASE] = InitFlag

Check_Device_Param ==
  /\ pc = "boot"
  /\ \/ /\ ~Initialised
        /\ pc' = "basic"
        /\ Write_MultiBytes(Run, [at |-> UserAddr, data |-> User_Default_Param])
        /\ UNCHANGED <<flash, req, checkVars>>
     \/ /\ Initialised
        /\ StartCheck
  /\ ParaTemp' = 0
  /\ Err' = FALSE
  /\ UNCHANGED <<faults, obsVars>>

(* InFlash_Write3T_MultiBytes goes on to the next copy, whatever became of *)
(* this one.                                                               *)
Write3T_NextCopy ==
  /\ pc \in {"basic", "default", "write"}
  /\ Returned /\ drv.page # Bak2
  /\ Err' = (Err \/ Failed)
  /\ Write_MultiBytes(drv.page + 1, Job)
  /\ UNCHANGED <<flash, pc, req, ParaTemp, checkVars, faults, obsVars>>

(* The retry loop around the basic parameters.                             *)
Write3T_Basic_Return ==
  /\ pc = "basic"
  /\ Returned /\ drv.page = Bak2
  /\ \/ /\ (Err \/ Failed) /\ ParaTemp < WRITE_FLASH_ERR_MAX
        /\ ParaTemp' = ParaTemp + 1
        /\ Write_MultiBytes(Run, Job)
        /\ UNCHANGED <<flash, pc, req, checkVars>>
     \/ /\ ~(Err \/ Failed) \/ ParaTemp = WRITE_FLASH_ERR_MAX
        /\ ParaTemp' = 0
        /\ StartCheck
  /\ Err' = FALSE
  /\ UNCHANGED <<faults, obsVars>>

(* Bit 0: current and backup 1 differ; bit 1: the backups differ; bit 2:   *)
(* current and backup 2 differ.                                            *)
CheckSta(cur, bak1, bak2) ==
    (IF cur  # bak1 THEN 1 ELSE 0)
  + (IF bak1 # bak2 THEN 2 ELSE 0)
  + (IF cur  # bak2 THEN 4 ELSE 0)

Check_Byte ==
  /\ pc = "check" /\ drv.phase = "idle"
  /\ Cnt < ProDefaultLen /\ Check_Sta # 7
  /\ LET sta == CheckSta(Cur_Param[Cnt], flash[Bak1][Cnt], flash[Bak2][Cnt])
     IN /\ Check_Sta' = sta
        /\ \/ sta = 6 /\ Write_OneByte(Bak2, Cnt, Cur_Param[Cnt])   /\ Cnt' = Cnt
           \/ sta = 3 /\ Write_OneByte(Bak1, Cnt, Cur_Param[Cnt])   /\ Cnt' = Cnt
           \/ sta = 5 /\ Write_OneByte(Run,  Cnt, flash[Bak1][Cnt]) /\ Cnt' = Cnt
           \/ sta = 0 /\ Cnt' = Cnt + 1 /\ UNCHANGED <<Flash_Buf, drv>>
           \/ sta = 7 /\ Cnt' = Cnt     /\ UNCHANGED <<Flash_Buf, drv>>
  /\ UNCHANGED <<flash, pc, req, Err, ParaTemp, Cur_Param, faults, obsVars>>

(* What the loop counter does after a repair; the mutants skip the next    *)
(* address, or go back to see whether the repair worked.                   *)
Advance_Twice   == Cnt + 2
Advance_Recheck == Cnt
Advance         == Cnt + 1

(* The loop ignores what InFlash_Write_OneByte returns.                    *)
Repair_Return ==
  /\ pc = "check" /\ Returned
  /\ drv' = Idle
  /\ Cnt' = Advance
  /\ UNCHANGED <<flash, Flash_Buf, pc, req, Err, ParaTemp, Cur_Param, Check_Sta,
                 faults, obsVars>>

Programed(copy) == flash[copy][SYSTEMPARAM_PROGRAMED] = SYSTEMPARAM_IS_PROGRAMED

(* Mutants: the mark is looked up in the image read before the repairs;    *)
(* one marked copy is enough.                                              *)
NeedDefaults_Stale ==
  Check_Sta \in {1, 2, 4, 7} \/ Cur_Param[SYSTEMPARAM_PROGRAMED] # SYSTEMPARAM_IS_PROGRAMED
NeedDefaults_AllWrong ==
  Check_Sta \in {1, 2, 4, 7} \/ \A c \in Copy : ~Programed(c)

NeedDefaults == Check_Sta \in {1, 2, 4, 7} \/ \E c \in Copy : ~Programed(c)

Check_End ==
  /\ pc = "check" /\ drv.phase = "idle"
  /\ Cnt = ProDefaultLen \/ Check_Sta = 7
  /\ \/ /\ NeedDefaults
        /\ pc' = "default"
        /\ Write_MultiBytes(Run, [at |-> Addr, data |-> User_Default_Param])
     \/ /\ ~NeedDefaults
        /\ pc' = "run"
        /\ UNCHANGED <<Flash_Buf, drv>>
  /\ Cnt' = 0 /\ Check_Sta' = 0
  /\ UNCHANGED <<flash, req, Err, ParaTemp, Cur_Param, faults, obsVars>>

------------------------------------------------------------------------------
(* The device is up                                                        *)

(* What the observation variables record when a command begins.            *)
Observe(image) ==
  /\ old' = flash[Run] /\ new' = image
  /\ agreed' = (\A c \in Copy : flash[c] = flash[Run])
  /\ crashes' = 0 /\ hit' = None

(* A command of ModBus_Conf.c changes one field; the reply does not depend *)
(* on what Write3T returns.                                                *)
NewImage(f, v) == [i \in Addr |-> IF i \in f THEN v[i] ELSE flash[Run][i]]

WriteField(f, v) ==
  LET job == [at |-> f, data |-> NewImage(f, v)]
  IN /\ \A i \in f \cap Solid : v[i] # Erased       \* the range checks
     /\ req' = job
     /\ Observe(NewImage(f, v))
     /\ Write_MultiBytes(Run, job)

WriteParam ==
  /\ pc = "run"
  /\ pc' = "write"
  /\ \E f \in Fields : \E v \in [f -> Data \cup {Erased}] : WriteField(f, v)
  /\ UNCHANGED <<flash, Err, ParaTemp, checkVars, faults>>

(* ModbusFunc2A rewrites a version string, which shares the running copy's *)
(* page and has no backup.                                                 *)
WriteInfo ==
  /\ pc = "run"
  /\ pc' = "info"
  /\ Write_MultiBytes(Run, NoReq)
  /\ Observe(flash[Run])
  /\ UNCHANGED <<flash, req, Err, ParaTemp, checkVars, faults>>

Write_Return ==
  /\ Returned
  /\ \/ pc \in {"write", "default"} /\ drv.page = Bak2
     \/ pc = "info"
  /\ pc' = "run"
  /\ drv' = Idle
  /\ req' = NoReq
  /\ Err' = FALSE
  /\ UNCHANGED <<flash, Flash_Buf, ParaTemp, checkVars, faults, obsVars>>

------------------------------------------------------------------------------
(* Resets.  The flash keeps what was programmed; RAM is lost.              *)

LoseRam ==
  /\ pc' = "boot"
  /\ drv' = Idle
  /\ req' = NoReq
  /\ Err' = FALSE
  /\ ParaTemp' = 0
  /\ Flash_Buf' = Blank /\ Cur_Param' = Blank
  /\ Cnt' = 0 /\ Check_Sta' = 0
  /\ UNCHANGED <<flash, faults>>

(* A reset while the device is up: MB_System_Reset, or the power goes.     *)
Restart ==
  /\ pc = "run"
  /\ LoseRam
  /\ Observe(flash[Run])

(* Power loss or watchdog at any other moment.                             *)
Crash ==
  /\ pc # "run"
  /\ crashes < MaxCrashes
  /\ LoseRam
  /\ crashes' = crashes + 1
  /\ hit' = IF drv.phase \in {"program", "failed"} /\ ~Succeeded
              THEN drv.page ELSE None
  /\ UNCHANGED <<old, new, agreed>>

------------------------------------------------------------------------------
(* A new device: blank flash.                                              *)
Init ==
  /\ flash = [c \in Copy |-> Blank]
  /\ Flash_Buf = Blank
  /\ drv = Idle
  /\ pc = "boot"
  /\ req = NoReq
  /\ Err = FALSE
  /\ ParaTemp = 0
  /\ Cur_Param = Blank /\ Cnt = 0 /\ Check_Sta = 0
  /\ faults = 0 /\ crashes = 0 /\ hit = None
  /\ old = User_Default_Param /\ new = User_Default_Param /\ agreed = TRUE

(* The processor's own steps.                                              *)
Step ==
  \/ Erase_Page \/ Program_Word
  \/ Check_Device_Param \/ Write3T_NextCopy \/ Write3T_Basic_Return
  \/ Check_Byte \/ Repair_Return \/ Check_End
  \/ Write_Return

Next == Step \/ WriteParam \/ WriteInfo \/ Restart \/ Crash

Spec == Init /\ [][Next]_vars

(* The processor keeps executing while it is powered.                      *)
FairSpec == Spec /\ WF_vars(Step)

------------------------------------------------------------------------------
TypeOK ==
  /\ flash \in [Copy -> Image]
  /\ Flash_Buf \in Image
  /\ drv \in [phase : {"idle", "erase", "program", "failed"},
              page : Copy, word : 0 .. ProDefaultLen]
  /\ pc \in Control
  /\ req \in [at : SUBSET Addr, data : Image]
  /\ Err \in BOOLEAN
  /\ ParaTemp \in 0 .. WRITE_FLASH_ERR_MAX
  /\ Cur_Param \in Image
  /\ Cnt \in 0 .. ProDefaultLen
  /\ Check_Sta \in {0, 3, 5, 6, 7}
  /\ faults \in 0 .. MaxFaults
  /\ crashes \in 0 .. MaxCrashes
  /\ hit \in Copy \cup {None}
  /\ old \in Image /\ new \in Image /\ agreed \in BOOLEAN

(* However often the device is reset, a copy that carries the written mark *)
(* (its last address, so programmed last) holds no erased byte where the   *)
(* range checks exclude 0xFF: the mark certifies the copy.  In_Flash_app.c *)
(* relies on it when it accepts a store on the strength of three marks.    *)
FlagCertifiesCopy ==
  faults = 0 =>
    \A c \in Copy : Programed(c) => \A i \in Solid : flash[c][i] # Erased

(* Whenever the device comes up, or is up and idle, all three copies carry *)
(* the mark and the running copy has no erased byte among the checked      *)
(* parameters, so it never runs with device address or baud rate 0xFF.     *)
RunParamsValid ==
  pc = "run" /\ faults = 0 =>
    /\ \A c \in Copy : Programed(c)
    /\ \A i \in Solid : flash[Run][i] # Erased

(* The outcome of a command that at most one reset interrupts, the copies  *)
(* being equal when it began.  Without a reset the change is there; after  *)
(* one, the running copy is the old or the new image as a whole, never a   *)
(* mixture, except that                                                    *)
(*  - a reset inside the running copy's page may reset the basic ones,     *)
(*  - a reset inside backup 1's page may reset everything,                 *)
(*  - an address that held 0xFF may hold anything, because                 *)
(*    InFlash_Write_OneByte cannot restore an 0xFF.                        *)
Is(image) == \A i \in Addr : old[i] = Erased \/ flash[Run][i] = image[i]

BasicReset == Overlay([at |-> UserAddr, data |-> User_Default_Param], old)

RecoveredWhole ==
  pc = "run" /\ faults = 0 =>
    /\ crashes = 0 => flash[Run] = new
    /\ crashes = 1 /\ agreed =>
         \/ Is(new)
         \/ Is(old) /\ hit # Bak2
         \/ Is(BasicReset) /\ hit = Run
         \/ Is(User_Default_Param) /\ hit = Bak1

(* Starting up again after the device was up changes nothing in the flash: *)
(* what one check leaves behind the next one accepts.                      *)
SettledBoot == crashes = 0 /\ faults = 0 /\ pc \in {"boot", "basic", "check", "default"}
                 /\ \A c \in Copy : Programed(c)

CleanBootReadOnly == [][SettledBoot => UNCHANGED flash]_vars

(* Whatever interrupted it, the device comes up: every write, every repair *)
(* and the retry loop end.                                                 *)
ComesUp == (pc # "run") ~> (pc = "run")

(* The comment over the default branch: factory values are written when    *)
(* all three copies are wrong.  A copy is right when it is the complete    *)
(* image before or after the last command (and not the factory table).     *)
DefaultsOnlyIfAllWrong ==
  [][ (pc = "check" /\ pc' = "default") =>
        \A c \in Copy : flash[c] \in {old, new} => flash[c] = User_Default_Param ]_vars
==============================================================================
