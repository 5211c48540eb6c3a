------------------------- MODULE StoreRecoveryProofs -------------------------
(***************************************************************************)
(* What a reset during a command can cost, for every table, every set of   *)
(* fields and every place of the reset: the running copy is the old or the *)
(* new image as a whole, up to the exceptions RecoveredWhole names; and a  *)
(* device that was up starts again without touching the flash.             *)
(***************************************************************************)
EXTENDS ParamStoreProofs

(* At an address the check leaves alone the copies agree, or two of them   *)
(* are erased, which it cannot repair.                                     *)
AllEqual(i) == \A c \in Copy : Img(c)[i] = Img(Run)[i]
Settled(i)  == AllEqual(i) \/ \E p \in Copy : \A o \in Copy \ {p} : Img(o)[i] = Erased
Distinct(i) == \A c, o \in Copy : c # o => Img(c)[i] # Img(o)[i]

Settling ==
  /\ pc \in {"run", "info"} => \A i \in Addr : Settled(i)
  /\ pc = "write" =>
       /\ \A i \in Addr \ req.at : Settled(i)
       /\ \A c \in Copy : c <= drv.page => \A i \in req.at : Img(c)[i] = req.data[i]
  /\ pc = "default" => \A c \in Copy : c <= drv.page => Img(c) = User_Default_Param
  /\ pc = "check" =>
       /\ \A i \in Addr : Visited(i) => Settled(i)
       /\ Check_Sta = 7 => drv.phase = "idle" /\ Cnt \in Addr /\ Distinct(Cnt)

(* What a cell of any copy holds, or will hold.                            *)
Within(a, S) == \A c \in Copy : flash[c][a] \in S /\ Img(c)[a] \in S

(* The first address holds the initialised mark or nothing, and what a     *)
(* command found and leaves bears both marks.                              *)
Bears(image) ==
  image[RUN_ADDR_BASE] = InitFlag /\ image[Last] = SYSTEMPARAM_IS_PROGRAMED
Front ==
  /\ RUN_ADDR_BASE \notin req.at
  /\ Within(RUN_ADDR_BASE, {Erased, InitFlag})
  /\ Bears(old) /\ Bears(new)
  /\ pc = "basic" => ~Err

(* A command at work, copy by copy.                                        *)
Commanding ==
  pc \in {"write", "info"} =>
    /\ crashes = 0
    /\ Img(Run) = new
    /\ pc = "write" => new = Overlay(req, old)
    /\ pc = "info" => new = old
    /\ agreed => /\ \A c \in Copy : Img(c) = IF c <= drv.page THEN new ELSE old
                 /\ drv.phase = "erase" => flash[drv.page] = old

(* A start after which nothing changes ...                                 *)
Sound ==
  /\ pc \in {"boot", "check"}
  /\ Rebuilding => Patching
  /\ \A c \in Copy : Programed(c)
  /\ \A i \in Addr : Settled(i)
  /\ Img(Run) = new /\ old = new
  /\ agreed => \A c \in Copy : Img(c) = new

(* ... and a new device, whose copies hold parts of the factory table: no  *)
(* copy bears the written mark, or the table is being written.             *)
Factory ==
  /\ old = User_Default_Param /\ new = User_Default_Param
  /\ \A i \in Addr : Within(i, {Erased, User_Default_Param[i]})
Empty   == Factory /\ Within(Last, {Erased})
Filling ==
  /\ Factory
  /\ \A c \in Copy : c > drv.page => flash[c][Last] = Erased
  /\ drv.phase = "erase" => flash[drv.page][Last] = Erased

Undisturbed ==
  crashes = 0 =>
    /\ pc = "run" => Img(Run) = new
    /\ pc \in {"boot", "check"} => Sound \/ Empty
    /\ pc = "basic" => Empty
    /\ pc = "default" => Filling

(* After one reset: the running copy has the new image already and will    *)
(* keep it; or both backups have the old one, which will come back.        *)
Forward ==
  /\ Img(Run) = new
  /\ \/ Img(Bak1) = new
     \/ /\ hit = Bak1 \/ new = User_Default_Param
        /\ \A i \in Addr : Img(Bak1)[i] \in {Erased, new[i]}

Backed(image) == Img(Bak1) = image /\ Img(Bak2) = image
BasicsDone    == \A i \in UserAddr : Img(Run)[i] = User_Default_Param[i]
Backward ==
  \/ hit # Bak2 /\ Backed(old)
  \/ hit = Run /\ Backed(BasicReset) /\ BasicsDone

BasicWay ==
  /\ hit = Run
  /\ \A c \in {Bak1, Bak2} : Img(c) = IF c <= drv.page THEN BasicReset ELSE old
  /\ BasicsDone

Outcome ==
  \/ Is(new)
  \/ Is(old) /\ hit # Bak2
  \/ Is(BasicReset) /\ hit = Run
  \/ Is(User_Default_Param) /\ hit = Bak1

Disturbed ==
  crashes = 1 /\ agreed =>
    /\ pc = "boot" => Forward \/ Empty \/ (hit # Bak2 /\ Backed(old) /\ (hit = Run \/ Initialised))
    /\ pc = "basic" => Empty \/ BasicWay
    /\ pc = "check" => Forward \/ Empty \/ Backward
    /\ pc = "default" => new = User_Default_Param \/ hit = Bak1
    /\ pc = "run" => Outcome

Story == Settling /\ Front /\ Commanding /\ Undisturbed /\ Disturbed
RInv  == IInv /\ (faults = 0 => Story)

------------------------------------------------------------------------------
(* How the images change                                                   *)

LEMMA Images ==
  ASSUME TypeInv
  PROVE  \A c \in Copy : flash[c] \in Image /\ Img(c) \in Image
BY DEF TypeInv, TypeOK, Img

LEMMA Copies ==
  /\ Copy = {Run, Bak1, Bak2} /\ Copy = {0, 1, 2}
  /\ Run = 0 /\ Bak1 = 1 /\ Bak2 = 2 /\ None = 3
BY DEF Copy, Run, Bak1, Bak2, None

(* With no page half rebuilt, every copy is what it will be.               *)
LEMMA AtRest ==
  ASSUME TypeInv, Inv0, ~Rebuilding \/ Patching \/ Returned
  PROVE  \A c \in Copy : Img(c) = flash[c]
<1>1. CASE ~Rebuilding \/ Patching
  BY <1>1 DEF Img
<1>2. CASE Rebuilding /\ ~Patching /\ Returned
  <2>1. drv.phase = "program" /\ drv.word = ProDefaultLen
    BY <1>2 DEF Returned, Succeeded, Failed, Rebuilding
  <2>2. \A i \in Addr : flash[drv.page][i] = Flash_Buf[i]
    BY <1>2, <2>1, ParamStoreAssumption DEF Inv0, Driver, Addr
  <2>3. flash[drv.page] = Flash_Buf
    BY <2>2 DEF TypeInv, TypeOK, Image
  <2> QED BY <2>3 DEF Img
<1> QED BY <1>1, <1>2

(* Nothing is in hand after a step.                                        *)
LEMMA RestsThen ==
  ASSUME drv'.phase \notin {"erase", "program"}, UNCHANGED flash
  PROVE  \A c \in Copy : Img(c)' = flash[c]
BY DEF Img, Rebuilding

(* Erasing and programming follow the plan made when the page was taken in *)
(* hand; an 0xFF over a programmed cell changes nothing.                   *)
LEMMA PageStep ==
  ASSUME TypeInv, TypeInv', Inv0, faults = 0, faults' = 0, Erase_Page \/ Program_Word
  PROVE  /\ \A c \in Copy : Img(c)' = Img(c)
         /\ drv'.page = drv.page /\ drv'.phase \in {"program", "failed"}
         /\ drv.phase \in {"erase", "program"}
         /\ \A c \in Copy : c # drv.page => flash'[c] = flash[c]
         /\ \A c \in Copy, i \in Addr : flash'[c][i] \in {flash[c][i], Img(c)[i], Erased}
         /\ Patching => flash' = flash /\ (Rebuilding' => Patching')
         /\ UNCHANGED <<Flash_Buf, pc, req, Err, ParaTemp, checkVars, obsVars>>
<1>0. /\ UNCHANGED <<Flash_Buf, pc, req, Err, ParaTemp, checkVars, obsVars>>
      /\ UNCHANGED <<pc, Cnt, Flash_Buf>>
      /\ drv.page \in Copy
  BY DEF Erase_Page, Program_Word, checkVars, TypeInv, TypeOK
<1>1. CASE Erase_Page
  <2>1. /\ drv.phase = "erase"
        /\ flash' = [flash EXCEPT ![drv.page] = Blank]
        /\ drv' = [drv EXCEPT !.phase = "program"]
    BY <1>1, NoFault DEF Erase_Page
  <2>2. drv'.phase = "program" /\ drv'.page = drv.page
    BY <2>1 DEF TypeInv, TypeOK
  <2>3. ~Patching /\ ~Patching' /\ Rebuilding /\ Rebuilding'
    BY <1>0, <2>1, <2>2 DEF Inv0, Driver, Patching, Rebuilding
  <2>4. /\ \A c \in Copy : c # drv.page => flash'[c] = flash[c]
        /\ flash'[drv.page] = Blank
    BY <2>1, <1>0 DEF TypeInv, TypeOK
  <2>5. \A c \in Copy : Img(c)' = Img(c)
    BY <1>0, <2>2, <2>3, <2>4 DEF Img
  <2>6. \A c \in Copy, i \in Addr : flash'[c][i] \in {flash[c][i], Erased}
    BY <2>4 DEF Blank
  <2> QED BY <1>0, <2>1, <2>2, <2>3, <2>4, <2>5, <2>6
<1>2. CASE Program_Word /\ ~Patching
  <2>0. drv.phase = "program" /\ drv.word \in Addr
    BY <1>2, ParamStoreAssumption DEF Program_Word, TypeInv, TypeOK, Addr
  <2>1. Programmable(drv.page, drv.word)
    BY <1>2, <2>0 DEF Inv0, Driver, Programmable, Addr
  <2>2. /\ flash' = [flash EXCEPT ![drv.page][drv.word] = Flash_Buf[drv.word]]
        /\ drv' = [drv EXCEPT !.word = @ + 1]
    BY <1>2, <2>1, NoFault DEF Program_Word
  <2>3. drv'.phase = "program" /\ drv'.page = drv.page
    BY <2>0, <2>2 DEF TypeInv, TypeOK
  <2>4. Rebuilding /\ Rebuilding' /\ ~Patching'
    BY <1>0, <1>2, <2>0, <2>3 DEF Rebuilding, Patching
  <2>5. /\ \A c \in Copy : c # drv.page => flash'[c] = flash[c]
        /\ flash'[drv.page] = [flash[drv.page] EXCEPT ![drv.word] = Flash_Buf[drv.word]]
    BY <1>0, <2>2 DEF TypeInv, TypeOK
  <2>6. \A c \in Copy : Img(c)' = Img(c)
    BY <1>0, <1>2, <2>3, <2>4, <2>5 DEF Img
  <2>7. Img(drv.page) = Flash_Buf
    BY <1>2, <2>4 DEF Img
  <2>8. flash[drv.page] \in [Addr -> Byte]
    BY <1>0, Images DEF Image
  <2>9. \A c \in Copy, i \in Addr : flash'[c][i] \in {flash[c][i], Img(c)[i], Erased}
    BY <2>5, <2>7, <2>8, <2>0
  <2> QED BY <1>0, <1>2, <2>0, <2>3, <2>5, <2>6, <2>9
<1>3. CASE Program_Word /\ Patching
  <2>0. drv.phase = "program" /\ drv.word \in Addr
    BY <1>3, ParamStoreAssumption DEF Program_Word, TypeInv, TypeOK, Addr
  <2>1. /\ pc = "check" /\ Flash_Buf[Cnt] = Erased /\ drv.word <= Cnt
        /\ Cnt \in Addr /\ flash[drv.page][Cnt] # Erased
        /\ \A i \in Addr : i # Cnt => flash[drv.page][i] = Flash_Buf[i]
    BY <2>0, <1>3, ParamStoreAssumption
       DEF Inv0, Driver, Patching, TypeInv, TypeOK, Addr
  <2>2. flash' = flash
    <3>1. CASE Programmable(drv.page, drv.word)
      <4>1. drv.word # Cnt
        BY <3>1, <2>1, ParamStoreAssumption DEF Programmable
      <4>2. flash' = [flash EXCEPT ![drv.page][drv.word] = flash[drv.page][drv.word]]
        BY <1>3, <3>1, <4>1, <2>0, <2>1, NoFault DEF Program_Word
      <4> QED BY <4>2, <1>0 DEF TypeInv, TypeOK, Image
    <3>2. CASE ~Programmable(drv.page, drv.word)
      BY <1>3, <3>2, NoFault DEF Program_Word
    <3> QED BY <3>1, <3>2
  <2>3. drv'.phase \in {"program", "failed"} /\ drv'.page = drv.page
    BY <1>3, <2>0 DEF Program_Word, TypeInv, TypeOK
  <2>4. Rebuilding' => Patching'
    BY <1>0, <2>1 DEF Patching, Rebuilding
  <2>5. \A c \in Copy : Img(c) = flash[c] /\ Img(c)' = flash[c]
    BY <1>3, <2>2, <2>4 DEF Img
  <2> QED BY <1>0, <1>3, <2>0, <2>2, <2>3, <2>4, <2>5
<1> QED BY <1>1, <1>2, <1>3

(* Write3T takes a page in hand.                                           *)
LEMMA BeginPage ==
  ASSUME TypeInv, \A c \in Copy : Img(c) = flash[c], UNCHANGED flash, pc' # "check",
         NEW p \in Copy, NEW job, Write_MultiBytes(p, job)
  PROVE  /\ drv'.phase = "erase" /\ drv'.page = p
         /\ Img(p)' = Overlay(job, Img(p))
         /\ \A c \in Copy : c # p => Img(c)' = Img(c)
<1>1. drv'.phase = "erase" /\ drv'.page = p /\ Flash_Buf' = Overlay(job, flash[p])
  BY DEF Write_MultiBytes
<1>2. Rebuilding' /\ ~Patching'
  BY <1>1 DEF Rebuilding, Patching
<1> QED BY <1>1, <1>2 DEF Img

(* The check looks at one address: it takes a page in hand to give one     *)
(* copy the cell the two others have, patches with an 0xFF in vain, or     *)
(* changes nothing.                                                        *)
LEMMA CheckEffect ==
  ASSUME TypeInv, Inv0, Check_Byte
  PROVE  /\ pc = "check" /\ Cnt \in Addr /\ ~Rebuilding
         /\ \A c \in Copy, i \in Addr : i # Cnt => Img(c)'[i] = Img(c)[i]
         /\ \A c \in Copy : Img(c)'[Cnt] # Img(c)[Cnt] =>
              /\ Img(c)'[Cnt] # Erased
              /\ \A o \in Copy \ {c} : Img(o)[Cnt] = Img(c)'[Cnt] /\ Img(o)'[Cnt] = Img(c)'[Cnt]
         /\ Rebuilding' /\ ~Patching' => \E c \in Copy : Img(c)'[Cnt] # Img(c)[Cnt]
         /\ \A i \in Addr : Visited(i)' => Visited(i) \/ (i = Cnt /\ Check_Sta' # 7)
         /\ Check_Sta' # 7 => \A i \in Addr : i = Cnt => Settled(i)'
         /\ Check_Sta' = 7 => drv'.phase = "idle" /\ Cnt' = Cnt /\ \A i \in Addr : i = Cnt => Distinct(i)'
         /\ UNCHANGED <<flash, pc, req, Err, obsVars>>
<1> USE Copies
<1>1. /\ pc = "check" /\ drv.phase = "idle" /\ Cnt \in Addr /\ Run \in Copy
      /\ UNCHANGED <<flash, pc, req, Err, obsVars>> /\ UNCHANGED pc
  BY ParamStoreAssumption DEF Check_Byte, TypeInv, TypeOK, Addr
<1>2. /\ ~Rebuilding /\ (\A c \in Copy : Img(c) = flash[c])
      /\ \A i \in Addr : Visited(i) <=> i < Cnt
  BY <1>1, ParamStoreAssumption DEF Rebuilding, Img, Visited, Addr
<1>3. Cur_Param[Cnt] = flash[Run][Cnt]
  BY <1>1, <1>2, ParamStoreAssumption DEF Inv0, CheckLoop, Addr
<1> DEFINE sta == CheckSta(flash[Run][Cnt], flash[Bak1][Cnt], flash[Bak2][Cnt])
<1>4. Check_Sta' = sta
  BY <1>3 DEF Check_Byte
<1>5. ASSUME NEW p \in Copy, NEW v, \A o \in Copy \ {p} : flash[o][Cnt] = v,
             flash[p][Cnt] # v, Write_OneByte(p, Cnt, v), Cnt' = Cnt, sta # 7
      PROVE  /\ \A c \in Copy, i \in Addr : i # Cnt => Img(c)'[i] = Img(c)[i]
             /\ \A c \in Copy : Img(c)'[Cnt] # Img(c)[Cnt] =>
                  /\ Img(c)'[Cnt] # Erased
                  /\ \A o \in Copy \ {c} : Img(o)[Cnt] = Img(c)'[Cnt] /\ Img(o)'[Cnt] = Img(c)'[Cnt]
             /\ Rebuilding' /\ ~Patching' => \E c \in Copy : Img(c)'[Cnt] # Img(c)[Cnt]
             /\ \A i \in Addr : Visited(i)' => Visited(i) \/ i = Cnt
             /\ \A i \in Addr : i = Cnt => Settled(i)'
  <2>1. /\ drv'.page = p /\ Rebuilding'
        /\ Flash_Buf' = [flash[p] EXCEPT ![Cnt] = v]
    BY <1>5 DEF Write_OneByte, Rebuilding
  <2>2. /\ Flash_Buf'[Cnt] = v
        /\ \A i \in Addr : i # Cnt => Flash_Buf'[i] = flash[p][i]
    BY <1>1, <2>1, Images DEF Image
  <2>3. Patching' <=> v = Erased
    BY <1>1, <1>5, <2>1, <2>2 DEF Patching
  <2>4. \A c \in Copy : c # p => Img(c)' = flash[c]
    BY <1>1, <2>1 DEF Img
  <2>5. Img(p)' = IF v = Erased THEN flash[p] ELSE Flash_Buf'
    BY <1>1, <2>1, <2>3 DEF Img
  <2>6. \A i \in Addr : i = Cnt => Settled(i)'
    <3>1. CASE v = Erased
      <4>1. \A o \in Copy \ {p} : Img(o)'[Cnt] = Erased
        BY <1>5, <2>4, <3>1
      <4> QED BY <4>1 DEF Settled
    <3>2. CASE v # Erased
      <4>1. \A c \in Copy : Img(c)'[Cnt] = v
        BY <1>5, <2>2, <2>4, <2>5, <3>2
      <4> QED BY <4>1 DEF Settled, AllEqual
    <3> QED BY <3>1, <3>2
  <2>7. \A i \in Addr : Visited(i)' => Visited(i) \/ i = Cnt
    BY <1>5 DEF Visited
  <2>8. \A c \in Copy, i \in Addr : i # Cnt => Img(c)'[i] = Img(c)[i]
    BY <1>2, <2>2, <2>4, <2>5
  <2>9. \A c \in Copy : Img(c)'[Cnt] # Img(c)[Cnt] => c = p /\ v # Erased
    BY <1>2, <2>4, <2>5
  <2>10. v # Erased => Img(p)'[Cnt] = v
    BY <2>2, <2>5
  <2>11. \A o \in Copy \ {p} : Img(o)'[Cnt] = v /\ Img(o)[Cnt] = v
    BY <1>2, <1>5, <2>4
  <2> QED BY <1>2, <1>5, <2>3, <2>6, <2>7, <2>8, <2>9, <2>10, <2>11
<1>6. CASE sta = 6 /\ Write_OneByte(Bak2, Cnt, flash[Run][Cnt]) /\ Cnt' = Cnt
  <2>1. flash[Run][Cnt] = flash[Bak1][Cnt] /\ flash[Bak1][Cnt] # flash[Bak2][Cnt]
    BY <1>6, CheckStaCases
  <2>2. /\ \A o \in Copy \ {Bak2} : flash[o][Cnt] = flash[Run][Cnt]
        /\ flash[Bak2][Cnt] # flash[Run][Cnt]
    BY <2>1
  <2> HIDE DEF sta
  <2> QED BY <1>1, <1>2, <1>4, <1>5, <1>6, <2>2
<1>7. CASE sta = 3 /\ Write_OneByte(Bak1, Cnt, flash[Run][Cnt]) /\ Cnt' = Cnt
  <2>1. flash[Run][Cnt] = flash[Bak2][Cnt] /\ flash[Bak1][Cnt] # flash[Bak2][Cnt]
    BY <1>7, CheckStaCases
  <2>2. /\ \A o \in Copy \ {Bak1} : flash[o][Cnt] = flash[Run][Cnt]
        /\ flash[Bak1][Cnt] # flash[Run][Cnt]
    BY <2>1
  <2> HIDE DEF sta
  <2> QED BY <1>1, <1>2, <1>4, <1>5, <1>7, <2>2
<1>8. CASE sta = 5 /\ Write_OneByte(Run, Cnt, flash[Bak1][Cnt]) /\ Cnt' = Cnt
  <2>1. flash[Bak1][Cnt] = flash[Bak2][Cnt] /\ flash[Run][Cnt] # flash[Bak1][Cnt]
    BY <1>8, CheckStaCases
  <2>2. /\ \A o \in Copy \ {Run} : flash[o][Cnt] = flash[Bak1][Cnt]
        /\ flash[Run][Cnt] # flash[Bak1][Cnt]
    BY <2>1
  <2> HIDE DEF sta
  <2> QED BY <1>1, <1>2, <1>4, <1>5, <1>8, <2>2
<1>9. CASE sta \in {0, 7} /\ UNCHANGED <<Flash_Buf, drv>>
               /\ Cnt' = IF sta = 0 THEN Cnt + 1 ELSE Cnt
  <2>1. ~Rebuilding' /\ \A c \in Copy : Img(c)' = Img(c)
    BY <1>1, <1>2, <1>9 DEF Rebuilding, Img
  <2>2. CASE sta = 0
    <3>1. flash[Run][Cnt] = flash[Bak1][Cnt] /\ flash[Bak1][Cnt] = flash[Bak2][Cnt]
      BY <2>2, CheckStaCases
    <3>2. \A i \in Addr : i = Cnt => Settled(i)'
      BY <1>1, <1>2, <2>1, <3>1 DEF Settled, AllEqual
    <3>3. \A i \in Addr : Visited(i)' => Visited(i) \/ i = Cnt
      BY <1>1, <1>2, <1>9, <2>2, ParamStoreAssumption DEF Visited, Addr
    <3> HIDE DEF sta
    <3> QED BY <1>1, <1>2, <1>4, <2>1, <2>2, <3>2, <3>3
  <2>3. CASE sta = 7
    <3>1. Cnt' = Cnt /\ \A i \in Addr : Visited(i)' => Visited(i)
      BY <1>9, <2>3 DEF Visited
    <3>2. /\ flash[Run][Cnt] # flash[Bak1][Cnt] /\ flash[Bak1][Cnt] # flash[Bak2][Cnt]
          /\ flash[Run][Cnt] # flash[Bak2][Cnt]
      BY <2>3, CheckStaCases
    <3>3. \A i \in Addr : i = Cnt => Distinct(i)'
      BY <1>2, <2>1, <3>2 DEF Distinct
    <3> HIDE DEF sta
    <3> QED BY <1>1, <1>2, <1>4, <1>9, <2>1, <2>3, <3>1, <3>3
  <2> QED BY <1>9, <2>2, <2>3
<1> QED BY <1>3, <1>6, <1>7, <1>8, <1>9 DEF Check_Byte

(* The check's step back to its loop.                                      *)
LEMMA ReturnEffect ==
  ASSUME TypeInv, Inv0, Repair_Return
  PROVE  /\ pc = "check" /\ ~Rebuilding'
         /\ \A c \in Copy : Img(c)' = Img(c) /\ flash'[c] = Img(c)
         /\ \A i \in Addr : Visited(i)' <=> Visited(i)
         /\ UNCHANGED <<flash, pc, req, Err, Check_Sta, obsVars>>
<1>1. /\ pc = "check" /\ Returned /\ drv'.phase = "idle" /\ Cnt' = Cnt + 1
      /\ UNCHANGED <<flash, pc, req, Err, Check_Sta, obsVars>>
      /\ drv.phase # "idle"
  BY DEF Repair_Return, Advance, Idle, Returned, Succeeded, Failed
<1>2. \A c \in Copy : Img(c)' = flash[c]
  BY <1>1, RestsThen
<1>3. \A c \in Copy : Img(c) = flash[c]
  BY <1>1, AtRest
<1>4. \A i \in Addr : Visited(i)' <=> Visited(i)
  BY <1>1, ParamStoreAssumption DEF Visited, TypeInv, TypeOK, Addr
<1> QED BY <1>1, <1>2, <1>3, <1>4 DEF Rebuilding

------------------------------------------------------------------------------
(* What the check leaves alone                                             *)

LEMMA SettledSame ==
  ASSUME NEW i \in Addr, \A c \in Copy : Img(c)'[i] = Img(c)[i]
  PROVE  (Settled(i)' <=> Settled(i)) /\ (Distinct(i)' <=> Distinct(i))
<1>1. Run \in Copy
  BY DEF Copy
<1> QED BY <1>1 DEF Settled, AllEqual, Distinct

LEMMA FactoryJob ==
  ASSUME NEW image
  PROVE  Overlay([at |-> Addr, data |-> User_Default_Param], image) = User_Default_Param
<1>1. User_Default_Param \in [Addr -> Byte]
  BY ParamStoreAssumption
<1> QED BY <1>1 DEF Overlay

LEMMA BasicOverlay ==
  ASSUME NEW image \in Image, NEW i \in Addr
  PROVE  LET o == Overlay([at |-> UserAddr, data |-> User_Default_Param], image)
         IN  o[i] = IF i \in UserAddr THEN User_Default_Param[i] ELSE image[i]
BY DEF Overlay

(* What a reset or a start of the check leaves of the plans.               *)
LEMMA CheckBegins ==
  ASSUME StartCheck
  PROVE  /\ drv'.phase = "idle" /\ pc' = "check" /\ Cnt' = 0 /\ Check_Sta' = 0
         /\ UNCHANGED <<flash, req>>
         /\ ~Rebuilding' /\ (\A c \in Copy : Img(c)' = flash[c])
         /\ \A i \in Addr : ~Visited(i)'
<1>1. /\ drv'.phase = "idle" /\ pc' = "check" /\ Cnt' = 0 /\ Check_Sta' = 0
      /\ UNCHANGED <<flash, req>>
  BY DEF StartCheck, Idle
<1> QED BY <1>1, RestsThen, ParamStoreAssumption DEF Rebuilding, Visited, Addr

LEMMA RamLost ==
  ASSUME LoseRam
  PROVE  /\ drv'.phase = "idle" /\ pc' = "boot" /\ req'.at = {}
         /\ UNCHANGED flash
         /\ ~Rebuilding' /\ (\A c \in Copy : Img(c)' = flash[c])
<1>1. /\ drv'.phase = "idle" /\ pc' = "boot" /\ req'.at = {} /\ UNCHANGED flash
  BY DEF LoseRam, Idle, NoReq
<1> QED BY <1>1, RestsThen DEF Rebuilding

LEMMA CommandImage ==
  ASSUME TypeInv, Inv0, pc = "run"
  PROVE  \A c \in Copy : Img(c) = flash[c]
<1>1. ~Rebuilding
  BY DEF Inv0, Driver, Rebuilding
<1> QED BY <1>1, AtRest

(* A command of either kind, as a page taken in hand.                      *)
LEMMA CommandBegins ==
  ASSUME TypeInv, Inv0, WriteParam \/ WriteInfo
  PROVE  /\ pc = "run" /\ pc' \in {"write", "info"} /\ UNCHANGED flash
         /\ drv'.phase = "erase" /\ drv'.page = Run
         /\ crashes' = 0 /\ hit' = None /\ old' = flash[Run]
         /\ agreed' = (\A c \in Copy : flash[c] = flash[Run])
         /\ Img(Run)' = new'
         /\ \A c \in Copy : c # Run => Img(c)' = flash[c]
         /\ pc' = "info" => new' = flash[Run] /\ req' = req
         /\ pc' = "write" => /\ new' = Overlay(req', flash[Run])
                             /\ RUN_ADDR_BASE \notin req'.at /\ Last \notin req'.at
                             /\ req'.at \subseteq Addr
                             /\ new' = req'.data
<1>0. Run \in Copy /\ flash[Run] \in Image /\ \A c \in Copy : Img(c) = flash[c]
  BY CommandImage, Images DEF Copy, WriteParam, WriteInfo
<1>1. CASE WriteParam
  <2>1. PICK f \in Fields : \E v \in [f -> Data \cup {Erased}] : WriteField(f, v)
    BY <1>1 DEF WriteParam
  <2>2. PICK v \in [f -> Data \cup {Erased}] : WriteField(f, v)
    BY <2>1
  <2> DEFINE job == [at |-> f, data |-> NewImage(f, v)]
  <2>3. Overlay(job, flash[Run]) = NewImage(f, v)
    BY DEF Overlay, NewImage
  <2>4. f \subseteq Addr /\ RUN_ADDR_BASE \notin f /\ Last \notin f
    BY ParamStoreAssumption DEF Last
  <2>5. /\ req' = job /\ new' = NewImage(f, v) /\ old' = flash[Run]
        /\ agreed' = (\A c \in Copy : flash[c] = flash[Run])
        /\ crashes' = 0 /\ hit' = None
        /\ Write_MultiBytes(Run, job)
    BY <2>2 DEF WriteField, Observe
  <2>6. pc = "run" /\ pc' = "write" /\ UNCHANGED flash
    BY <1>1 DEF WriteParam
  <2>7. /\ drv'.phase = "erase" /\ drv'.page = Run
        /\ Img(Run)' = Overlay(job, flash[Run])
        /\ \A c \in Copy : c # Run => Img(c)' = flash[c]
    BY <1>0, <2>5, <2>6, BeginPage
  <2> HIDE DEF job
  <2>8. req'.at = f /\ req'.data = NewImage(f, v)
    BY <2>5 DEF job
  <2> QED BY <2>3, <2>4, <2>5, <2>6, <2>7, <2>8
<1>2. CASE WriteInfo
  <2>1. Overlay(NoReq, flash[Run]) = flash[Run]
    BY <1>0 DEF Overlay, NoReq, Image
  <2>2. /\ pc = "run" /\ pc' = "info" /\ UNCHANGED <<flash, req>>
        /\ Write_MultiBytes(Run, NoReq)
        /\ new' = flash[Run] /\ old' = flash[Run]
        /\ agreed' = (\A c \in Copy : flash[c] = flash[Run])
        /\ crashes' = 0 /\ hit' = None
    BY <1>2 DEF WriteInfo, Observe
  <2>3. /\ drv'.phase = "erase" /\ drv'.page = Run
        /\ Img(Run)' = Overlay(NoReq, flash[Run])
        /\ \A c \in Copy : c # Run => Img(c)' = flash[c]
    BY <1>0, <2>2, BeginPage
  <2> QED BY <2>1, <2>2, <2>3
<1> QED BY <1>1, <1>2

(* Write3T's next page.                                                    *)
LEMMA NextPage ==
  ASSUME TypeInv, Inv0, Write3T_NextCopy
  PROVE  /\ pc \in {"basic", "default", "write"} /\ drv.page + 1 \in Copy
         /\ drv'.phase = "erase" /\ drv'.page = drv.page + 1
         /\ \A c \in Copy :
              /\ Img(c) = flash[c]
              /\ Img(c)' = IF c = drv.page + 1 THEN Overlay(Job, Img(c)) ELSE Img(c)
         /\ Err' = Err
         /\ UNCHANGED <<flash, pc, req, checkVars, obsVars>>
<1>1. /\ pc \in {"basic", "default", "write"} /\ pc' = pc /\ Returned
      /\ drv.page # Bak2 /\ UNCHANGED <<flash, pc, req, checkVars, obsVars>>
      /\ Write_MultiBytes(drv.page + 1, Job)
  BY DEF Write3T_NextCopy
<1>2. drv.page + 1 \in Copy
  BY <1>1, Copies DEF TypeInv, TypeOK
<1>3. Err' = Err
  BY <1>1, Rebuilt DEF Write3T_NextCopy, Succeeded, Failed, TypeInv, TypeOK
<1>4. \A c \in Copy : Img(c) = flash[c]
  BY <1>1, AtRest
<1>5. PICK p \in Copy : p = drv.page + 1
  BY <1>2
<1>6. /\ drv'.phase = "erase" /\ drv'.page = p
      /\ Img(p)' = Overlay(Job, Img(p))
      /\ \A c \in Copy : c # p => Img(c)' = Img(c)
  <2>1. Write_MultiBytes(p, Job) /\ pc' # "check" /\ UNCHANGED flash
    BY <1>1, <1>5
  <2> QED BY <1>4, <2>1, BeginPage
<1> QED BY <1>1, <1>2, <1>3, <1>4, <1>5, <1>6

(* Write3T is done with the basic parameters, and no page has failed.      *)
LEMMA BasicEnds ==
  ASSUME TypeInv, Inv0, Front, Write3T_Basic_Return
  PROVE  /\ pc = "basic" /\ drv.page = Bak2 /\ StartCheck
         /\ \A c \in Copy : Img(c) = flash[c]
         /\ UNCHANGED obsVars
<1>1. pc = "basic" /\ Returned /\ drv.page = Bak2 /\ UNCHANGED obsVars
  BY DEF Write3T_Basic_Return
<1>2. \A c \in Copy : Img(c) = flash[c]
  BY <1>1, AtRest
<1>3. ~Err /\ ~Failed
  BY <1>1, Rebuilt DEF Front, Succeeded, Failed
<1>4. StartCheck
  BY <1>3 DEF Write3T_Basic_Return
<1> QED BY <1>1, <1>2, <1>4

(* The check is done.                                                      *)
LEMMA CheckEnds ==
  ASSUME TypeInv, Inv0, Settling, Check_End
  PROVE  /\ pc = "check" /\ UNCHANGED <<flash, req, Err, obsVars>>
         /\ \A c \in Copy : Img(c) = flash[c]
         /\ \/ /\ pc' = "default" /\ NeedDefaults
               /\ drv'.phase = "erase" /\ drv'.page = Run
               /\ Img(Run)' = User_Default_Param
               /\ \A c \in Copy : c # Run => Img(c)' = Img(c)
            \/ /\ pc' = "run" /\ ~NeedDefaults /\ drv' = drv
               /\ \A c \in Copy : Img(c)' = Img(c)
               /\ \A i \in Addr : Settled(i)
         /\ NeedDefaults => Check_Sta = 7 \/ \E c \in Copy : ~Programed(c)
         /\ Check_Sta # 7 => \A i \in Addr : Settled(i)
<1>1. /\ pc = "check" /\ drv.phase = "idle" /\ UNCHANGED <<flash, req, Err, obsVars>>
      /\ Run \in Copy
  BY DEF Check_End, Copy
<1>2. \A c \in Copy : Img(c) = flash[c]
  BY <1>1 DEF Img, Rebuilding
<1>3. ASSUME Check_Sta # 7
      PROVE  \A i \in Addr : Settled(i)
  <2>1. Cnt = ProDefaultLen
    BY <1>3 DEF Check_End
  <2>2. \A i \in Addr : Visited(i)
    BY <2>1, ParamStoreAssumption DEF Visited, Addr
  <2> QED BY <1>1, <2>2 DEF Settling
<1>4. NeedDefaults => Check_Sta = 7 \/ \E c \in Copy : ~Programed(c)
  BY DEF NeedDefaults, TypeInv, TypeOK
<1>5. CASE /\ NeedDefaults /\ pc' = "default"
           /\ Write_MultiBytes(Run, [at |-> Addr, data |-> User_Default_Param])
  <2>1. /\ drv'.phase = "erase" /\ drv'.page = Run
        /\ Img(Run)' = Overlay([at |-> Addr, data |-> User_Default_Param], Img(Run))
        /\ \A c \in Copy : c # Run => Img(c)' = Img(c)
    BY <1>1, <1>2, <1>5, BeginPage
  <2> QED BY <1>1, <1>2, <1>3, <1>4, <1>5, <2>1, FactoryJob
<1>6. CASE ~NeedDefaults /\ pc' = "run" /\ UNCHANGED <<Flash_Buf, drv>>
  <2>1. drv' = drv /\ \A c \in Copy : Img(c)' = Img(c)
    BY <1>1, <1>2, <1>6, RestsThen
  <2>2. Check_Sta # 7
    BY <1>6 DEF NeedDefaults
  <2> QED BY <1>1, <1>2, <1>3, <1>4, <1>6, <2>1, <2>2
<1> QED BY <1>5, <1>6 DEF Check_End

(* A command or the factory table is written.                              *)
LEMMA WriteEnds ==
  ASSUME TypeInv, Inv0, Write_Return
  PROVE  /\ pc \in {"write", "default", "info"} /\ pc' = "run"
         /\ pc # "info" => drv.page = Bak2
         /\ drv'.phase = "idle" /\ req'.at = {} /\ UNCHANGED <<flash, obsVars>>
         /\ \A c \in Copy : Img(c) = flash[c] /\ Img(c)' = Img(c)
<1>1. /\ pc \in {"write", "default", "info"} /\ pc' = "run" /\ Returned
      /\ pc # "info" => drv.page = Bak2
      /\ drv'.phase = "idle" /\ req'.at = {} /\ UNCHANGED <<flash, obsVars>>
  BY DEF Write_Return, Idle, NoReq
<1>2. \A c \in Copy : Img(c) = flash[c]
  BY <1>1, AtRest
<1> QED BY <1>1, <1>2, RestsThen

LEMMA SettlingStep ==
  ASSUME TypeInv, TypeInv', Inv0, Inv0', faults = 0, faults' = 0, Settling, Front,
         [Next]_vars
  PROVE  Settling'
<1> USE Copies
<1>1. CASE Erase_Page \/ Program_Word
  <2>1. /\ \A c \in Copy : Img(c)' = Img(c)
        /\ drv'.page = drv.page /\ drv.phase # "idle" /\ drv'.phase # "idle"
        /\ pc' = pc /\ req' = req /\ Cnt' = Cnt /\ Check_Sta' = Check_Sta
    BY <1>1, PageStep DEF checkVars
  <2>2. \A i \in Addr : Visited(i)' <=> Visited(i)
    BY <2>1 DEF Visited
  <2>3. \A i \in Addr : Settled(i)' <=> Settled(i)
    BY <2>1, SettledSame
  <2> QED BY <2>1, <2>2, <2>3 DEF Settling
<1>2. CASE StartCheck
  BY <1>2, CheckBegins DEF Settling
<1>3. CASE Check_Device_Param /\ ~StartCheck
  BY <1>3 DEF Check_Device_Param, Settling
<1>4. CASE Write3T_NextCopy
  <2>1. /\ pc \in {"basic", "default", "write"} /\ drv.page + 1 \in Copy
        /\ drv'.page = drv.page + 1 /\ pc' = pc /\ req' = req
        /\ \A c \in Copy : Img(c)' = IF c = drv.page + 1 THEN Overlay(Job, Img(c)) ELSE Img(c)
    BY <1>4, NextPage
  <2>2. \A c \in Copy : c <= drv'.page <=> c <= drv.page \/ c = drv.page + 1
    BY <2>1 DEF TypeInv, TypeOK
  <2>3. CASE pc = "default"
    <3>1. \A c \in Copy : c <= drv'.page => Img(c)' = User_Default_Param
      BY <2>1, <2>2, <2>3, FactoryJob DEF Settling, Job
    <3> QED BY <2>1, <2>3, <3>1 DEF Settling
  <2>4. CASE pc = "write"
    <3>1. Job = req /\ req.at \subseteq Addr
      BY <2>4 DEF Job, TypeInv, TypeOK
    <3>2. \A c \in Copy, i \in Addr \ req.at : Img(c)'[i] = Img(c)[i]
      BY <2>1, <3>1 DEF Overlay
    <3>3. \A i \in Addr \ req.at : Settled(i)'
      BY <2>4, <3>2, SettledSame DEF Settling
    <3>4. \A c \in Copy : c <= drv'.page => \A i \in req.at : Img(c)'[i] = req.data[i]
      BY <2>1, <2>2, <2>4, <3>1 DEF Settling, Overlay
    <3> QED BY <2>1, <2>4, <3>3, <3>4 DEF Settling
  <2>5. CASE pc = "basic"
    BY <2>1, <2>5 DEF Settling
  <2> QED BY <2>1, <2>3, <2>4, <2>5
<1>5. CASE Write3T_Basic_Return
  BY <1>2, <1>5, BasicEnds
<1>6. CASE Check_Byte
  <2>1. pc = "check" /\ pc' = pc /\ Cnt \in Addr
    BY <1>6, CheckEffect
  <2>2. ASSUME NEW i \in Addr, Visited(i)' PROVE Settled(i)'
    <3>1. CASE i = Cnt /\ Check_Sta' # 7
      BY <1>6, <3>1, CheckEffect
    <3>2. CASE i # Cnt
      <4>1. Visited(i) /\ \A c \in Copy : Img(c)'[i] = Img(c)[i]
        BY <1>6, <2>2, <3>2, CheckEffect
      <4> QED BY <2>1, <4>1, SettledSame DEF Settling
    <3>3. CASE i = Cnt /\ Check_Sta' = 7
      <4>1. Visited(i)
        BY <1>6, <2>2, <3>3, CheckEffect
      <4>2. Settled(i)
        BY <2>1, <4>1 DEF Settling
      <4>3. Distinct(i)'
        BY <1>6, <3>3, CheckEffect
      <4>4. \A c \in Copy : Img(c)'[i] = Img(c)[i]
        <5>1. \A c, o \in Copy : c # o => Img(c)'[i] # Img(o)'[i]
          BY <4>3 DEF Distinct
        <5>2. \A c \in Copy : \E o \in Copy : o # c
          OBVIOUS
        <5> QED BY <1>6, <3>3, <5>1, <5>2, CheckEffect
      <4> QED BY <4>2, <4>4, SettledSame
    <3> QED BY <3>1, <3>2, <3>3
  <2>3. Check_Sta' = 7 => drv'.phase = "idle" /\ Cnt' \in Addr /\ \A i \in Addr : i = Cnt => Distinct(i)'
    BY <1>6, <2>1, CheckEffect
  <2>4. Check_Sta' = 7 => Distinct(Cnt)'
    <3> SUFFICES ASSUME Check_Sta' = 7 PROVE Distinct(Cnt)'
      OBVIOUS
    <3>1. PICK i \in Addr : i = Cnt
      BY <2>1
    <3>2. Distinct(i)' /\ Cnt' = i
      BY <1>6, <2>3, <3>1, CheckEffect
    <3> QED BY <3>2 DEF Distinct
  <2> QED BY <2>1, <2>2, <2>3, <2>4 DEF Settling
<1>7. CASE Repair_Return
  <2>1. /\ pc = "check" /\ pc' = "check" /\ Check_Sta' = Check_Sta
        /\ \A c \in Copy : Img(c)' = Img(c)
        /\ \A i \in Addr : Visited(i)' <=> Visited(i)
    BY <1>7, ReturnEffect
  <2>2. drv.phase # "idle"
    BY <1>7 DEF Repair_Return, Returned, Succeeded, Failed
  <2>3. \A i \in Addr : Settled(i)' <=> Settled(i)
    BY <2>1, SettledSame
  <2> QED BY <2>1, <2>2, <2>3 DEF Settling
<1>8. CASE Check_End
  <2>1. CASE pc' = "default"
    <3>1. drv'.page = Run /\ Img(Run)' = User_Default_Param
      BY <1>8, <2>1, CheckEnds
    <3> QED BY <2>1, <3>1 DEF Settling
  <2>2. CASE pc' = "run"
    <3>1. \A i \in Addr : Settled(i)'
      BY <1>8, <2>2, CheckEnds, SettledSame
    <3> QED BY <2>2, <3>1 DEF Settling
  <2> QED BY <1>8, <2>1, <2>2, CheckEnds
<1>9. CASE Write_Return
  <2>1. /\ pc' = "run" /\ pc \in {"write", "default", "info"}
        /\ \A c \in Copy : Img(c)' = Img(c)
        /\ pc # "info" => drv.page = Bak2
    BY <1>9, WriteEnds
  <2>2. ASSUME NEW i \in Addr PROVE Settled(i)
    <3>1. CASE pc = "default"
      BY <2>1, <3>1 DEF Settling, Settled, AllEqual
    <3>2. CASE pc = "write" /\ i \in req.at
      BY <2>1, <3>2 DEF Settling, Settled, AllEqual
    <3> QED BY <2>1, <3>1, <3>2 DEF Settling
  <2>3. \A i \in Addr : Settled(i)'
    BY <2>1, <2>2, SettledSame
  <2> QED BY <2>1, <2>3 DEF Settling
<1>10. CASE WriteParam \/ WriteInfo
  <2>1. /\ pc = "run" /\ pc' \in {"write", "info"} /\ drv'.page = Run
        /\ Img(Run)' = new' /\ \A c \in Copy : c # Run => Img(c)' = flash[c]
        /\ pc' = "info" => new' = flash[Run]
        /\ pc' = "write" => new' = Overlay(req', flash[Run]) /\ req'.at \subseteq Addr
    BY <1>10, CommandBegins
  <2>2. \A c \in Copy : Img(c) = flash[c]
    BY <2>1, CommandImage
  <2>3. CASE pc' = "info"
    <3>1. \A i \in Addr : Settled(i)'
      BY <2>1, <2>2, <2>3, SettledSame DEF Settling
    <3> QED BY <2>3, <3>1 DEF Settling
  <2>4. CASE pc' = "write"
    <3>1. \A c \in Copy, i \in Addr \ req'.at : Img(c)'[i] = Img(c)[i]
      BY <2>1, <2>2, <2>4 DEF Overlay
    <3>2. \A i \in Addr \ req'.at : Settled(i)'
      BY <2>1, <3>1, SettledSame DEF Settling
    <3>3. \A i \in req'.at : Img(Run)'[i] = req'.data[i]
      BY <2>1, <2>4 DEF Overlay
    <3> QED BY <2>1, <2>4, <3>2, <3>3 DEF Settling
  <2> QED BY <2>1, <2>3, <2>4
<1>11. CASE LoseRam
  BY <1>11, RamLost DEF Settling
<1>12. CASE UNCHANGED vars
  <2>1. /\ \A c \in Copy : Img(c)' = Img(c)
        /\ pc' = pc /\ req' = req /\ drv' = drv /\ Cnt' = Cnt /\ Check_Sta' = Check_Sta
    BY <1>12 DEF vars, checkVars, Img, Rebuilding, Patching
  <2>2. \A i \in Addr : (Visited(i)' <=> Visited(i)) /\ (Settled(i)' <=> Settled(i))
    BY <2>1, SettledSame DEF Visited
  <2>3. Cnt \in Addr => (Distinct(Cnt)' <=> Distinct(Cnt))
    BY <2>1 DEF Distinct
  <2> QED BY <2>1, <2>2, <2>3 DEF Settling
<1> QED
  BY <1>1, <1>2, <1>3, <1>4, <1>5, <1>6, <1>7, <1>8, <1>9, <1>10, <1>11, <1>12
     DEF Next, Step, Restart, Crash

------------------------------------------------------------------------------
(* What the cells can hold                                                 *)

LEMMA WithinCheck ==
  ASSUME TypeInv, TypeInv', Inv0, faults = 0, faults' = 0,
         NEW a \in Addr, NEW S, Erased \in S, Within(a, S),
         Erase_Page \/ Program_Word \/ Check_Byte \/ Repair_Return
  PROVE  Within(a, S)'
<1>1. CASE Erase_Page \/ Program_Word
  <2>1. \A c \in Copy : Img(c)' = Img(c) /\ flash'[c][a] \in {flash[c][a], Img(c)[a], Erased}
    BY <1>1, PageStep
  <2> QED BY <2>1 DEF Within
<1>2. CASE Check_Byte
  <2>1. flash' = flash
    BY <1>2, CheckEffect
  <2>2. \A c \in Copy : Img(c)'[a] \in S
    <3> SUFFICES ASSUME NEW c \in Copy, Img(c)'[a] # Img(c)[a] PROVE Img(c)'[a] \in S
      BY DEF Within
    <3>1. a = Cnt
      BY <1>2, CheckEffect
    <3>2. \A o \in Copy \ {c} : Img(o)[a] = Img(c)'[a]
      BY <1>2, <3>1, CheckEffect
    <3>3. \E o \in Copy : o # c
      BY Copies
    <3> QED BY <3>2, <3>3 DEF Within
  <2> QED BY <2>1, <2>2 DEF Within
<1>3. CASE Repair_Return
  BY <1>3, ReturnEffect DEF Within
<1> QED BY <1>1, <1>2, <1>3

LEMMA WithinPage ==
  ASSUME NEW a \in Addr, NEW S, Within(a, S), UNCHANGED flash, NEW job,
         a \in job.at => job.data[a] \in S,
         \A c \in Copy : Img(c)' = flash[c] \/ Img(c)' = Overlay(job, flash[c])
  PROVE  Within(a, S)'
<1>1. \A c \in Copy : Img(c)'[a] \in S
  BY DEF Within, Overlay
<1> QED BY <1>1 DEF Within

LEMMA WithinRest ==
  ASSUME NEW a \in Addr, NEW S, Within(a, S), UNCHANGED flash,
         \A c \in Copy : Img(c)' \in {flash[c], Img(c)}
  PROVE  Within(a, S)'
BY DEF Within

LEMMA FirstBoot ==
  ASSUME TypeInv, Inv0, Check_Device_Param, ~StartCheck
  PROVE  /\ pc = "boot" /\ pc' = "basic" /\ ~Initialised /\ Err' = FALSE
         /\ drv'.phase = "erase" /\ drv'.page = Run /\ UNCHANGED <<flash, req, obsVars>>
         /\ \A c \in Copy : Img(c) = flash[c]
         /\ Img(Run)' = Overlay([at |-> UserAddr, data |-> User_Default_Param], flash[Run])
         /\ \A c \in Copy : c # Run => Img(c)' = flash[c]
<1>1. /\ pc = "boot" /\ pc' = "basic" /\ UNCHANGED <<flash, req, obsVars>>
      /\ ~Initialised
      /\ Write_MultiBytes(Run, [at |-> UserAddr, data |-> User_Default_Param])
      /\ Run \in Copy
  BY DEF Check_Device_Param, Copy
<1>2. \A c \in Copy : Img(c) = flash[c]
  BY <1>1 DEF Inv0, Driver, Img, Rebuilding
<1>3. /\ drv'.phase = "erase" /\ drv'.page = Run
      /\ Img(Run)' = Overlay([at |-> UserAddr, data |-> User_Default_Param], Img(Run))
      /\ \A c \in Copy : c # Run => Img(c)' = Img(c)
  BY <1>1, <1>2, BeginPage
<1>4. Err' = FALSE
  BY DEF Check_Device_Param
<1> QED BY <1>1, <1>2, <1>3, <1>4

(* A device that is up bears both marks.                                   *)
LEMMA RunBears ==
  ASSUME TypeInv, Inv0, Front, pc = "run"
  PROVE  Bears(flash[Run])
<1>1. Run \in Copy /\ flash[Run][Last] = SYSTEMPARAM_IS_PROGRAMED
  BY DEF Inv0, Marks, Programed, Last, Copy
<1>2. flash[Run][RUN_ADDR_BASE] # Erased
  BY <1>1, Constants DEF Inv0, Certified, Good
<1> QED BY <1>1, <1>2 DEF Front, Within, Bears

LEMMA Firsts ==
  /\ RUN_ADDR_BASE \in UserAddr /\ InitFlag = User_Default_Param[RUN_ADDR_BASE]
  /\ Bears(User_Default_Param)
BY ParamStoreAssumption
   DEF UserAddr, RUN_ADDR_BASE, InitFlag, Bears, Last, SYSTEMPARAM_IS_PROGRAMED

LEMMA FrontStep ==
  ASSUME TypeInv, TypeInv', Inv0, Inv0', faults = 0, faults' = 0, Settling, Front,
         [Next]_vars
  PROVE  Front'
<1> USE Copies
<1> DEFINE S == {Erased, InitFlag}
<1>0. RUN_ADDR_BASE \in Addr
  BY Constants
<1>1. CASE Erase_Page \/ Program_Word \/ Check_Byte \/ Repair_Return
  <2>1. Within(RUN_ADDR_BASE, S)'
    BY <1>0, <1>1, WithinCheck DEF Front
  <2>2. UNCHANGED <<pc, req, Err, old, new>>
    BY <1>1, PageStep, CheckEffect, ReturnEffect DEF obsVars
  <2> QED BY <2>1, <2>2 DEF Front, Bears
<1>2. ASSUME StartCheck, \A c \in Copy : Img(c) = flash[c], UNCHANGED obsVars
      PROVE  Front'
  <2>1. pc' = "check" /\ UNCHANGED <<flash, req>> /\ \A c \in Copy : Img(c)' = flash[c]
    BY <1>2, CheckBegins
  <2>2. Within(RUN_ADDR_BASE, S)'
    BY <1>0, <2>1, WithinRest DEF Front
  <2> QED BY <1>2, <2>1, <2>2 DEF Front, Bears, obsVars
<1>3. CASE Check_Device_Param
  <2>1. CASE StartCheck
    <3>1. \A c \in Copy : Img(c) = flash[c]
      BY <1>3 DEF Check_Device_Param, Inv0, Driver, Img, Rebuilding
    <3>2. UNCHANGED obsVars
      BY <1>3 DEF Check_Device_Param
    <3> QED BY <1>2, <2>1, <3>1, <3>2
  <2>2. CASE ~StartCheck
    <3> DEFINE job == [at |-> UserAddr, data |-> User_Default_Param]
    <3>1. /\ UNCHANGED <<flash, req, obsVars>> /\ Err' = FALSE
          /\ \A c \in Copy : Img(c)' = flash[c] \/ Img(c)' = Overlay(job, flash[c])
      BY <1>3, <2>2, FirstBoot
    <3>2. Within(RUN_ADDR_BASE, S)'
      <4>1. job.data[RUN_ADDR_BASE] \in S
        BY Firsts
      <4> HIDE DEF job, S
      <4> QED BY <1>0, <3>1, <4>1, WithinPage DEF Front, S
    <3> QED BY <3>1, <3>2 DEF Front, Bears, obsVars
  <2> QED BY <2>1, <2>2
<1>4. CASE Write3T_NextCopy
  <2>1. /\ pc \in {"basic", "default", "write"} /\ Err' = Err
        /\ UNCHANGED <<flash, pc, req, obsVars>>
        /\ \A c \in Copy : Img(c) = flash[c]
                           /\ (Img(c)' = flash[c] \/ Img(c)' = Overlay(Job, flash[c]))
    BY <1>4, NextPage
  <2>2. RUN_ADDR_BASE \in Job.at => Job.data[RUN_ADDR_BASE] \in S
    BY <2>1, Firsts DEF Job, Front
  <2>3. Within(RUN_ADDR_BASE, S)'
    <3> HIDE DEF S
    <3> QED BY <1>0, <2>1, <2>2, WithinPage DEF Front, S
  <2> QED BY <2>1, <2>3 DEF Front, Bears, obsVars
<1>5. CASE Write3T_Basic_Return
  BY <1>2, <1>5, BasicEnds
<1>6. CASE Check_End
  <2>1. /\ UNCHANGED <<flash, req, Err, obsVars>> /\ pc' # "basic"
        /\ \A c \in Copy : Img(c) = flash[c]
                           /\ (Img(c)' = flash[c] \/ Img(c)' = User_Default_Param)
    BY <1>6, CheckEnds
  <2>2. Within(RUN_ADDR_BASE, S)'
    BY <2>1, Firsts DEF Front, Within
  <2> QED BY <2>1, <2>2 DEF Front, Bears, obsVars
<1>7. CASE Write_Return
  <2>1. /\ UNCHANGED <<flash, obsVars>> /\ pc' = "run" /\ req'.at = {}
        /\ \A c \in Copy : Img(c)' = Img(c)
    BY <1>7, WriteEnds
  <2>2. Within(RUN_ADDR_BASE, S)'
    BY <2>1 DEF Front, Within
  <2> QED BY <2>1, <2>2 DEF Front, Bears, obsVars
<1>8. CASE WriteParam \/ WriteInfo
  <2>1. /\ pc = "run" /\ pc' \in {"write", "info"} /\ UNCHANGED flash
        /\ old' = flash[Run] /\ Img(Run)' = new'
        /\ \A c \in Copy : c # Run => Img(c)' = flash[c]
        /\ pc' = "info" => new' = flash[Run] /\ req' = req
        /\ pc' = "write" => /\ new' = Overlay(req', flash[Run])
                            /\ RUN_ADDR_BASE \notin req'.at /\ Last \notin req'.at
    BY <1>8, CommandBegins
  <2>2. Bears(flash[Run])
    BY <2>1, RunBears
  <2>3. Bears(new')
    BY <2>1, <2>2, Constants DEF Bears, Overlay
  <2>4. Within(RUN_ADDR_BASE, S)'
    BY <2>1, <2>3 DEF Front, Within, Bears
  <2>5. RUN_ADDR_BASE \notin req'.at
    BY <2>1 DEF Front
  <2> QED BY <2>1, <2>2, <2>3, <2>4, <2>5 DEF Front, Bears
<1>9. CASE Restart \/ Crash
  <2>1. /\ UNCHANGED flash /\ pc' = "boot" /\ req'.at = {}
        /\ \A c \in Copy : Img(c)' = flash[c]
    BY <1>9, RamLost DEF Restart, Crash
  <2>2. Bears(old') /\ Bears(new')
    BY <1>9, RunBears DEF Restart, Crash, Observe, Front
  <2>3. Within(RUN_ADDR_BASE, S)'
    BY <2>1 DEF Front, Within
  <2> QED BY <2>1, <2>2, <2>3 DEF Front, Bears
<1>10. CASE UNCHANGED vars
  <2>1. /\ \A c \in Copy : Img(c)' = Img(c)
        /\ UNCHANGED <<flash, pc, req, Err, old, new>>
    BY <1>10 DEF vars, checkVars, Img, Rebuilding, Patching
  <2> QED BY <2>1 DEF Front, Within, Bears
<1> QED
  BY <1>1, <1>3, <1>4, <1>5, <1>6, <1>7, <1>8, <1>9, <1>10 DEF Next, Step

LEMMA CommandingStep ==
  ASSUME TypeInv, TypeInv', Inv0, faults = 0, faults' = 0, Settling, Front, Commanding,
         [Next]_vars
  PROVE  Commanding'
<1> USE Copies
<1>1. CASE Erase_Page \/ Program_Word
  <2>1. /\ \A c \in Copy : Img(c)' = Img(c)
        /\ drv'.page = drv.page /\ drv'.phase # "erase"
        /\ UNCHANGED <<pc, req, crashes, old, new, agreed>>
    BY <1>1, PageStep DEF obsVars
  <2> QED BY <2>1 DEF Commanding
<1>2. CASE Write3T_NextCopy
  <2> SUFFICES ASSUME pc = "write" PROVE Commanding'
    BY <1>2, NextPage DEF Commanding
  <2>1. Job = req
    BY DEF Job
  <2>2. /\ drv.page + 1 \in Copy /\ drv'.page = drv.page + 1
        /\ \A c \in Copy : /\ Img(c) = flash[c]
                           /\ Img(c)' = IF c = drv.page + 1 THEN Overlay(req, Img(c)) ELSE Img(c)
        /\ UNCHANGED <<flash, pc, req, crashes, old, new, agreed>>
    BY <1>2, <2>1, NextPage DEF obsVars
  <2>3. \A c \in Copy : c <= drv'.page <=> c <= drv.page \/ c = drv.page + 1
    BY <2>2 DEF TypeInv, TypeOK
  <2>4. Run # drv.page + 1 /\ ~(drv.page + 1 <= drv.page)
    BY DEF TypeInv, TypeOK
  <2>5. ASSUME agreed
        PROVE  /\ \A c \in Copy : Img(c)' = IF c <= drv'.page THEN new ELSE old
               /\ flash'[drv'.page] = old
    <3>1. \A c \in Copy : Img(c) = IF c <= drv.page THEN new ELSE old
      BY <2>5 DEF Commanding
    <3>2. new = Overlay(req, old)
      BY DEF Commanding
    <3>3. Img(drv.page + 1) = old
      BY <2>2, <2>4, <3>1
    <3> QED BY <2>2, <2>3, <3>1, <3>2, <3>3
  <2>6. Img(Run)' = new'
    BY <2>2, <2>4 DEF Commanding
  <2> QED BY <2>2, <2>5, <2>6 DEF Commanding
<1>3. CASE WriteParam \/ WriteInfo
  <2>1. /\ pc' \in {"write", "info"} /\ UNCHANGED flash
        /\ drv'.page = Run /\ crashes' = 0 /\ old' = flash[Run]
        /\ agreed' = (\A c \in Copy : flash[c] = flash[Run])
        /\ Img(Run)' = new' /\ \A c \in Copy : c # Run => Img(c)' = flash[c]
        /\ pc' = "info" => new' = flash[Run]
        /\ pc' = "write" => new' = Overlay(req', flash[Run])
    BY <1>3, CommandBegins
  <2>2. \A c \in Copy : c <= drv'.page <=> c = Run
    BY <2>1
  <2>3. ASSUME agreed'
        PROVE  \A c \in Copy : Img(c)' = IF c <= drv'.page THEN new' ELSE old'
    BY <2>1, <2>2, <2>3
  <2> QED BY <2>1, <2>3 DEF Commanding
<1>4. CASE Check_Device_Param \/ Write3T_Basic_Return \/ Check_Byte \/ Repair_Return
             \/ Check_End \/ Write_Return \/ Restart \/ Crash
  <2>1. pc' \notin {"write", "info"}
    BY <1>4, FirstBoot, CheckBegins, BasicEnds, CheckEffect, ReturnEffect, CheckEnds,
       WriteEnds, RamLost DEF Restart, Crash
  <2> QED BY <2>1 DEF Commanding
<1>5. CASE UNCHANGED vars
  <2>1. /\ \A c \in Copy : Img(c)' = Img(c)
        /\ UNCHANGED <<flash, drv, pc, req, crashes, old, new, agreed>>
    BY <1>5 DEF vars, checkVars, obsVars, Img, Rebuilding, Patching
  <2> QED BY <2>1 DEF Commanding
<1> QED BY <1>1, <1>2, <1>3, <1>4, <1>5 DEF Next, Step

------------------------------------------------------------------------------
(* Starting on what a device that was up has left, and starting for the    *)
(* first time                                                              *)

(* Where all addresses are settled the check finds nothing it can repair,  *)
(* and no three different bytes.                                           *)
LEMMA SettledCheck ==
  ASSUME TypeInv, TypeInv', Inv0, Check_Byte, \A i \in Addr : Settled(i)
  PROVE  (\A c \in Copy : Img(c)' = Img(c)) /\ (Rebuilding' => Patching')
<1> USE Copies
<1>1. Cnt \in Addr /\ \A c \in Copy, i \in Addr : i # Cnt => Img(c)'[i] = Img(c)[i]
  BY CheckEffect
<1>2. ASSUME NEW c \in Copy, Img(c)'[Cnt] # Img(c)[Cnt] PROVE FALSE
  <2>1. /\ Img(c)'[Cnt] # Erased
        /\ \A o \in Copy \ {c} : Img(o)[Cnt] = Img(c)'[Cnt]
    BY <1>2, CheckEffect
  <2>2. PICK i \in Addr : i = Cnt
    BY <1>1
  <2>3. \A o \in Copy \ {c} : Img(o)[i] # Erased /\ Img(o)[i] # Img(c)[i]
    BY <1>2, <2>1, <2>2
  <2>4. Settled(i)
    OBVIOUS
  <2>5. CASE AllEqual(i)
    BY <2>3, <2>5 DEF AllEqual
  <2>6. CASE \E p \in Copy : \A o \in Copy \ {p} : Img(o)[i] = Erased
    BY <2>3, <2>6
  <2> QED BY <2>4, <2>5, <2>6 DEF Settled
<1>3. \A c \in Copy, i \in Addr : Img(c)'[i] = Img(c)[i]
  BY <1>1, <1>2
<1>4. \A c \in Copy : Img(c) \in Image /\ Img(c)' \in Image
  BY Images DEF Img, TypeInv, TypeOK
<1>5. \A c \in Copy : Img(c)' = Img(c)
  BY <1>3, <1>4 DEF Image
<1>6. Rebuilding' => Patching'
  BY <1>2, CheckEffect
<1> QED BY <1>5, <1>6

LEMMA SettledEnd ==
  ASSUME TypeInv, Inv0, Settling, Check_End,
         \A i \in Addr : Settled(i), \A c \in Copy : Programed(c)
  PROVE  pc' = "run"
<1> USE Copies
<1>1. ASSUME Check_Sta = 7 PROVE FALSE
  <2>1. Cnt \in Addr /\ Distinct(Cnt) /\ pc = "check"
    BY <1>1, CheckEnds DEF Settling
  <2>2. PICK i \in Addr : i = Cnt
    BY <2>1
  <2>3. \A c, o \in Copy : c # o => Img(c)[i] # Img(o)[i]
    BY <2>1, <2>2 DEF Distinct
  <2>4. Settled(i)
    OBVIOUS
  <2>5. CASE AllEqual(i)
    BY <2>3, <2>5 DEF AllEqual
  <2>6. CASE \E p \in Copy : \A o \in Copy \ {p} : Img(o)[i] = Erased
    <3>1. PICK p \in Copy : \A o \in Copy \ {p} : Img(o)[i] = Erased
      BY <2>6
    <3>2. \E c, o \in Copy \ {p} : c # o
      OBVIOUS
    <3> QED BY <2>3, <3>1, <3>2
  <2> QED BY <2>4, <2>5, <2>6 DEF Settled
<1> QED BY <1>1, CheckEnds

LEMMA SoundStays ==
  ASSUME TypeInv, Sound, UNCHANGED <<flash, old, new, agreed>>, pc' \in {"boot", "check"},
         \A c \in Copy : Img(c)' = Img(c), Rebuilding' => Patching'
  PROVE  Sound'
<1>1. \A i \in Addr : Settled(i)'
  BY SettledSame DEF Sound
<1> QED BY <1>1, Copies DEF Sound, Programed

(* The cells of a new device stay erased or factory values.                *)
LEMMA FactoryStays ==
  ASSUME Factory, UNCHANGED <<old, new>>,
         \/ /\ TypeInv /\ TypeInv' /\ Inv0 /\ faults = 0 /\ faults' = 0
            /\ Erase_Page \/ Program_Word \/ Check_Byte \/ Repair_Return
         \/ /\ UNCHANGED flash
            /\ \A c \in Copy, i \in Addr :
                 Img(c)'[i] \in {flash[c][i], Img(c)[i], User_Default_Param[i]}
  PROVE  Factory'
<1>1. ASSUME NEW i \in Addr PROVE Within(i, {Erased, User_Default_Param[i]})'
  <2> DEFINE S == {Erased, User_Default_Param[i]}
  <2>1. Within(i, S) /\ Erased \in S
    BY DEF Factory
  <2>2. CASE /\ TypeInv /\ TypeInv' /\ Inv0 /\ faults = 0 /\ faults' = 0
             /\ Erase_Page \/ Program_Word \/ Check_Byte \/ Repair_Return
    <3> HIDE DEF S
    <3>1. Within(i, S)'
      BY <2>1, <2>2, WithinCheck
    <3> QED BY <3>1 DEF S, Within
  <2>3. CASE /\ UNCHANGED flash
             /\ \A c \in Copy, j \in Addr :
                  Img(c)'[j] \in {flash[c][j], Img(c)[j], User_Default_Param[j]}
    BY <2>1, <2>3 DEF Within
  <2> QED BY <2>2, <2>3
<1> QED BY <1>1 DEF Factory

LEMMA EmptyStays ==
  ASSUME Empty, UNCHANGED <<old, new>>,
         \/ /\ TypeInv /\ TypeInv' /\ Inv0 /\ faults = 0 /\ faults' = 0
            /\ Erase_Page \/ Program_Word \/ Check_Byte \/ Repair_Return
         \/ /\ UNCHANGED flash
            /\ \A c \in Copy, i \in Addr :
                 \/ Img(c)'[i] \in {flash[c][i], Img(c)[i]}
                 \/ Img(c)'[i] = User_Default_Param[i] /\ i # Last
  PROVE  Empty'
<1>1. Factory'
  BY FactoryStays DEF Empty
<1>2. Within(Last, {Erased})'
  <2>1. Last \in Addr
    BY Constants
  <2>2. CASE /\ TypeInv /\ TypeInv' /\ Inv0 /\ faults = 0 /\ faults' = 0
             /\ Erase_Page \/ Program_Word \/ Check_Byte \/ Repair_Return
    BY <2>1, <2>2, WithinCheck DEF Empty
  <2>3. CASE /\ UNCHANGED flash
             /\ \A c \in Copy, i \in Addr :
                  \/ Img(c)'[i] \in {flash[c][i], Img(c)[i]}
                  \/ Img(c)'[i] = User_Default_Param[i] /\ i # Last
    BY <2>1, <2>3 DEF Empty, Within
  <2> QED BY <2>2, <2>3
<1> QED BY <1>1, <1>2 DEF Empty

(* A new device has no marked copy, so the check ends in writing the       *)
(* factory table.                                                          *)
LEMMA EmptyUnmarked ==
  ASSUME Empty
  PROVE  \A c \in Copy : flash[c][Last] = Erased /\ ~Programed(c)
BY Constants DEF Empty, Within, Programed, Last

LEMMA SoundBoots ==
  ASSUME Inv0, Front, Sound, pc = "boot"
  PROVE  Initialised
<1>1. Img(Run) = flash[Run]
  BY DEF Inv0, Driver, Img, Rebuilding
<1> QED BY <1>1 DEF Sound, Front, Bears, Initialised

(* A first start writes the basic parameters into the running copy.        *)
LEMMA EmptyBoots ==
  ASSUME TypeInv, Inv0, Empty, Check_Device_Param
  PROVE  Empty'
<1>0. UNCHANGED <<old, new>>
  BY DEF Check_Device_Param, obsVars
<1>1. CASE StartCheck
  BY <1>0, <1>1, CheckBegins, EmptyStays
<1>2. CASE ~StartCheck
  <2>1. /\ UNCHANGED flash
        /\ Img(Run)' = Overlay([at |-> UserAddr, data |-> User_Default_Param], flash[Run])
        /\ \A c \in Copy : c # Run => Img(c)' = flash[c]
    BY <1>2, FirstBoot
  <2>2. Run \in Copy /\ flash[Run] \in Image
    BY Images DEF Copy
  <2>3. \A i \in Addr : Img(Run)'[i] = IF i \in UserAddr THEN User_Default_Param[i] ELSE flash[Run][i]
    BY <2>1, <2>2, BasicOverlay
  <2>4. \A i \in UserAddr : i # Last
    BY Constants
  <2> QED BY <1>0, <2>1, <2>3, <2>4, EmptyStays
<1> QED BY <1>1, <1>2

(* ... and into the backups.                                               *)
LEMMA EmptyGoesOn ==
  ASSUME TypeInv, Inv0, Empty, pc = "basic", Write3T_NextCopy
  PROVE  Empty'
<1>1. /\ UNCHANGED <<flash, old, new>>
      /\ \A c \in Copy : Img(c)' \in {Img(c), Overlay(Job, Img(c))}
  BY NextPage DEF obsVars
<1>2. \A c \in Copy, i \in Addr :
        Overlay(Job, Img(c))[i] = IF i \in UserAddr THEN User_Default_Param[i] ELSE Img(c)[i]
  BY Images, BasicOverlay DEF Job
<1>3. \A i \in UserAddr : i # Last
  BY Constants
<1>4. \A c \in Copy, i \in Addr :
        \/ Img(c)'[i] = Img(c)[i]
        \/ Img(c)'[i] = User_Default_Param[i] /\ i # Last
  BY <1>1, <1>2, <1>3
<1> QED BY <1>1, <1>4, EmptyStays

LEMMA UndisturbedStep ==
  ASSUME TypeInv, TypeInv', Inv0, Inv0', faults = 0, faults' = 0, Settling, Front,
         Commanding, Undisturbed, [Next]_vars
  PROVE  Undisturbed'
<1> USE Copies
<1> SUFFICES ASSUME crashes' = 0 PROVE Undisturbed'
  BY DEF Undisturbed
<1>1. CASE Erase_Page \/ Program_Word
  <2>1. /\ \A c \in Copy : Img(c)' = Img(c)
        /\ drv'.page = drv.page /\ drv'.phase # "erase" /\ drv.phase # "idle"
        /\ \A c \in Copy : c # drv.page => flash'[c] = flash[c]
        /\ Patching => flash' = flash /\ (Rebuilding' => Patching')
        /\ UNCHANGED <<pc, crashes, old, new, agreed>>
        /\ Rebuilding
    BY <1>1, PageStep DEF obsVars, Rebuilding
  <2>2. pc \notin {"run", "boot"}
    BY <2>1 DEF Inv0, Driver
  <2>3. Empty => Empty'
    BY <1>1, <2>1, EmptyStays
  <2>4. Sound => Sound'
    BY <2>1, <2>2, SoundStays DEF Sound
  <2>5. Filling => Filling'
    <3> SUFFICES ASSUME Filling PROVE Filling'
      OBVIOUS
    <3>1. Factory'
      BY <1>1, <2>1, FactoryStays DEF Filling
    <3>2. \A c \in Copy : c > drv'.page => flash'[c] = flash[c] /\ c > drv.page
      BY <2>1 DEF TypeInv, TypeOK
    <3> QED BY <2>1, <3>1, <3>2 DEF Filling
  <2> QED BY <2>1, <2>2, <2>3, <2>4, <2>5 DEF Undisturbed
<1>2. CASE Check_Device_Param
  <2>1. pc = "boot" /\ pc' \in {"check", "basic"} /\ UNCHANGED <<crashes, old, new, agreed>>
    BY <1>2 DEF Check_Device_Param, StartCheck, obsVars
  <2>2. CASE Empty
    BY <1>2, <2>1, <2>2, EmptyBoots DEF Undisturbed
  <2>3. CASE Sound
    <3>1. StartCheck
      BY <1>2, <2>1, <2>3, SoundBoots, FirstBoot
    <3>2. \A c \in Copy : Img(c) = flash[c]
      BY <2>1 DEF Inv0, Driver, Img, Rebuilding
    <3>3. Sound'
      BY <2>1, <2>3, <3>1, <3>2, CheckBegins, SoundStays
    <3>4. pc' = "check"
      BY <3>1 DEF StartCheck
    <3> QED BY <3>3, <3>4 DEF Undisturbed
  <2> QED BY <2>1, <2>2, <2>3 DEF Undisturbed
<1>3. CASE Write3T_NextCopy
  <2>1. /\ pc \in {"basic", "default", "write"} /\ drv.page + 1 \in Copy
        /\ drv'.phase = "erase" /\ drv'.page = drv.page + 1
        /\ \A c \in Copy :
             /\ Img(c) = flash[c]
             /\ Img(c)' = IF c = drv.page + 1 THEN Overlay(Job, Img(c)) ELSE Img(c)
        /\ UNCHANGED <<flash, pc, crashes, old, new, agreed>>
    BY <1>3, NextPage DEF obsVars
  <2>2. CASE pc = "basic"
    <3>1. Empty
      BY <2>1, <2>2 DEF Undisturbed
    <3>2. Empty'
      BY <1>3, <2>2, <3>1, EmptyGoesOn
    <3> QED BY <2>1, <2>2, <3>2 DEF Undisturbed
  <2>3. CASE pc = "default"
    <3>1. Filling
      BY <2>1, <2>3 DEF Undisturbed
    <3>2. \A c \in Copy : Img(c)' \in {Img(c), User_Default_Param}
      BY <2>1, <2>3, FactoryJob DEF Job
    <3>3. Factory'
      BY <2>1, <3>1, <3>2, FactoryStays DEF Filling
    <3>4. \A c \in Copy : c >= drv'.page => c > drv.page
      BY <2>1 DEF TypeInv, TypeOK
    <3>5. drv'.page \in Copy /\ \A c \in Copy : c > drv'.page => c >= drv'.page
      BY <2>1
    <3>6. drv'.page >= drv'.page
      BY <3>5
    <3>7. Filling'
      BY <2>1, <3>1, <3>3, <3>4, <3>5, <3>6 DEF Filling
    <3> QED BY <2>1, <2>3, <3>7 DEF Undisturbed
  <2>4. CASE pc = "write"
    BY <2>1, <2>4 DEF Undisturbed
  <2> QED BY <2>1, <2>2, <2>3, <2>4
<1>4. CASE Write3T_Basic_Return
  <2>1. /\ pc = "basic" /\ StartCheck /\ UNCHANGED <<crashes, old, new, agreed>>
        /\ \A c \in Copy : Img(c) = flash[c]
    BY <1>4, BasicEnds DEF obsVars
  <2>2. Empty
    BY <2>1 DEF Undisturbed
  <2>3. /\ pc' = "check" /\ UNCHANGED flash /\ \A c \in Copy : Img(c)' = flash[c]
    BY <2>1, CheckBegins
  <2>4. Empty'
    BY <2>1, <2>2, <2>3, EmptyStays
  <2> QED BY <2>3, <2>4 DEF Undisturbed
<1>5. CASE Check_Byte
  <2>1. pc = "check" /\ UNCHANGED <<flash, pc, crashes, old, new, agreed>>
    BY <1>5, CheckEffect DEF obsVars
  <2>2. Empty => Empty'
    BY <1>5, <2>1, EmptyStays
  <2>3. Sound => Sound'
    BY <1>5, <2>1, SettledCheck, SoundStays DEF Sound
  <2> QED BY <2>1, <2>2, <2>3 DEF Undisturbed
<1>6. CASE Repair_Return
  <2>1. /\ pc = "check" /\ ~Rebuilding' /\ \A c \in Copy : Img(c)' = Img(c)
        /\ UNCHANGED <<flash, pc, crashes, old, new, agreed>>
    BY <1>6, ReturnEffect DEF obsVars
  <2>2. Empty => Empty'
    BY <1>6, <2>1, EmptyStays
  <2>3. Sound => Sound'
    BY <2>1, SoundStays
  <2> QED BY <2>1, <2>2, <2>3 DEF Undisturbed
<1>7. CASE Check_End
  <2>1. /\ pc = "check" /\ UNCHANGED <<flash, crashes, old, new, agreed>>
        /\ \A c \in Copy : Img(c) = flash[c]
        /\ \/ /\ pc' = "default"
              /\ drv'.phase = "erase" /\ drv'.page = Run
              /\ Img(Run)' = User_Default_Param
              /\ \A c \in Copy : c # Run => Img(c)' = Img(c)
           \/ /\ pc' = "run" /\ ~NeedDefaults
              /\ \A c \in Copy : Img(c)' = Img(c)
    BY <1>7, CheckEnds DEF obsVars
  <2>2. CASE Sound
    <3>1. pc' = "run"
      BY <1>7, <2>2, SettledEnd DEF Sound
    <3>2. Img(Run)' = new'
      BY <2>1, <2>2, <3>1 DEF Sound
    <3> QED BY <3>1, <3>2 DEF Undisturbed
  <2>3. CASE Empty
    <3>1. \A c \in Copy : flash[c][Last] = Erased /\ ~Programed(c)
      BY <2>3, EmptyUnmarked
    <3>2. pc' = "default"
      BY <2>1, <3>1 DEF NeedDefaults
    <3>3. \A c \in Copy : Img(c)' \in {Img(c), User_Default_Param}
      BY <2>1, <3>2
    <3>4. Factory'
      BY <2>1, <2>3, <3>3, FactoryStays DEF Empty
    <3>5. Filling'
      BY <2>1, <3>1, <3>2, <3>4 DEF Filling
    <3> QED BY <3>2, <3>5 DEF Undisturbed
  <2> QED BY <2>1, <2>2, <2>3 DEF Undisturbed
<1>8. CASE Write_Return
  <2>1. /\ pc \in {"write", "default", "info"} /\ pc' = "run"
        /\ pc # "info" => drv.page = Bak2
        /\ UNCHANGED <<crashes, new>> /\ \A c \in Copy : Img(c)' = Img(c)
    BY <1>8, WriteEnds DEF obsVars
  <2>2. CASE pc \in {"write", "info"}
    BY <2>1, <2>2 DEF Commanding, Undisturbed
  <2>3. CASE pc = "default"
    <3>1. Img(Run) = User_Default_Param
      BY <2>1, <2>3 DEF Settling
    <3>2. new = User_Default_Param
      BY <2>1, <2>3 DEF Undisturbed, Filling, Factory
    <3> QED BY <2>1, <3>1, <3>2 DEF Undisturbed
  <2> QED BY <2>1, <2>2, <2>3
<1>9. CASE WriteParam \/ WriteInfo
  BY <1>9, CommandBegins DEF Undisturbed
<1>10. CASE Restart
  <2>1. /\ pc = "run" /\ pc' = "boot" /\ UNCHANGED flash /\ ~Rebuilding'
        /\ \A c \in Copy : Img(c)' = flash[c]
        /\ old' = flash[Run] /\ new' = flash[Run]
        /\ agreed' = (\A c \in Copy : flash[c] = flash[Run])
    BY <1>10, RamLost DEF Restart, Observe
  <2>2. \A c \in Copy : Img(c) = flash[c]
    BY <2>1, CommandImage
  <2>3. \A i \in Addr : Settled(i)'
    BY <2>1, <2>2, SettledSame DEF Settling
  <2>4. \A c \in Copy : Programed(c)'
    BY <2>1 DEF Inv0, Marks, Programed
  <2>5. agreed' => \A c \in Copy : Img(c)' = new'
    BY <2>1
  <2>6. Sound'
    BY <2>1, <2>3, <2>4, <2>5 DEF Sound
  <2> QED BY <2>1, <2>6 DEF Undisturbed
<1>11. CASE Crash
  BY <1>11 DEF Crash, TypeInv, TypeOK
<1>12. CASE UNCHANGED vars
  <2>1. /\ \A c \in Copy : Img(c)' = Img(c)
        /\ (Rebuilding' <=> Rebuilding) /\ (Patching' <=> Patching)
        /\ UNCHANGED <<flash, drv, pc, crashes, old, new, agreed>>
    BY <1>12 DEF vars, checkVars, obsVars, Img, Rebuilding, Patching
  <2>2. Empty => Empty'
    BY <2>1, EmptyStays
  <2>3. Sound => Sound'
    BY <2>1, SoundStays DEF Sound
  <2>4. Filling => Filling'
    <3> SUFFICES ASSUME Filling PROVE Filling'
      OBVIOUS
    <3>1. Factory'
      BY <2>1, FactoryStays DEF Filling
    <3> QED BY <2>1, <3>1 DEF Filling
  <2> QED BY <2>1, <2>2, <2>3, <2>4 DEF Undisturbed
<1> QED
  BY <1>1, <1>2, <1>3, <1>4, <1>5, <1>6, <1>7, <1>8, <1>9, <1>10, <1>11, <1>12
     DEF Next, Step

------------------------------------------------------------------------------
(* The start after a reset                                                 *)

(* What the page in hand holds, depending on how far the driver has come.  *)
LEMMA PageInHand ==
  ASSUME TypeInv, Inv0, drv.phase = "program", ~Patching
  PROVE  /\ \A i \in Addr : flash[drv.page][i] \in {Erased, Img(drv.page)[i]}
         /\ drv.word # ProDefaultLen => flash[drv.page][Last] = Erased
         /\ drv.word = ProDefaultLen => flash[drv.page] = Img(drv.page)
<1>1. \A i \in Addr : flash[drv.page][i] = IF i < drv.word THEN Flash_Buf[i] ELSE Erased
  BY DEF Inv0, Driver
<1>2. Img(drv.page) = Flash_Buf
  BY DEF Img, Rebuilding
<1>3. drv.word # ProDefaultLen => ~(Last < drv.word)
  BY ParamStoreAssumption DEF TypeInv, TypeOK, Last, SYSTEMPARAM_PROGRAMED
<1>4. drv.word = ProDefaultLen => \A i \in Addr : i < drv.word
  BY ParamStoreAssumption DEF Addr
<1>5. drv.word = ProDefaultLen => flash[drv.page] = Flash_Buf
  BY <1>1, <1>4 DEF TypeInv, TypeOK, Image
<1> QED BY <1>1, <1>2, <1>3, <1>5, Constants

(* A reset during a command on equal copies.                               *)
LEMMA CrashInCommand ==
  ASSUME TypeInv, TypeInv', Inv0, Front, Commanding, agreed, pc \in {"write", "info"}, Crash
  PROVE  Forward' \/ (hit' # Bak2 /\ Backed(old)' /\ (hit' = Run \/ Initialised'))
<1> USE Copies
<1>1. /\ drv.phase \in {"erase", "program"} /\ ~Patching /\ drv.page \in Copy
      /\ pc = "info" => drv.page = Run
  BY DEF Inv0, Driver, Rebuilding, Patching, TypeInv, TypeOK
<1>2. /\ UNCHANGED <<flash, old, new>> /\ \A c \in Copy : Img(c)' = flash[c]
      /\ hit' = IF drv.phase = "program" /\ drv.word # ProDefaultLen THEN drv.page ELSE None
  BY <1>1, RamLost DEF Crash, Succeeded
<1>3. /\ \A c \in Copy : Img(c) = IF c <= drv.page THEN new ELSE old
      /\ drv.phase = "erase" => flash[drv.page] = old
  BY DEF Commanding
<1>4. \A c \in Copy : c # drv.page => flash[c] = Img(c)
  BY DEF Img
<1>5. Bears(old) /\ Bears(new)
  BY DEF Front
<1>6. CASE drv.page = Run
  <2>1. flash[Bak1] = old /\ flash[Bak2] = old
    BY <1>3, <1>4, <1>6
  <2>2. Backed(old)'
    BY <1>2, <2>1 DEF Backed
  <2>3. drv.phase = "erase" => flash[Run] = old
    BY <1>3, <1>6
  <2>4. drv.phase = "program" /\ drv.word = ProDefaultLen => flash[Run] = new
    BY <1>1, <1>3, <1>6, PageInHand
  <2>5. hit' = Run \/ Initialised'
    BY <1>1, <1>2, <1>5, <1>6, <2>3, <2>4 DEF Bears, Initialised
  <2> QED BY <1>2, <1>6, <2>2, <2>5
<1>7. CASE drv.page = Bak1
  <2>1. flash[Run] = new /\ flash[Bak2] = old /\ Img(Bak1) = new
    BY <1>3, <1>4, <1>7
  <2>2. CASE drv.phase = "erase"
    <3>1. flash[Bak1] = old /\ hit' = None
      BY <1>2, <1>3, <1>7, <2>2
    <3>2. Backed(old)'
      BY <1>2, <2>1, <3>1 DEF Backed
    <3>3. Initialised'
      BY <1>2, <1>5, <2>1 DEF Bears, Initialised
    <3> QED BY <3>1, <3>2, <3>3
  <2>3. CASE drv.phase = "program"
    <3>1. /\ \A i \in Addr : flash[Bak1][i] \in {Erased, new[i]}
          /\ drv.word = ProDefaultLen => flash[Bak1] = new
      BY <1>1, <1>7, <2>1, <2>3, PageInHand
    <3>2. drv.word # ProDefaultLen => hit' = Bak1
      BY <1>2, <1>7, <2>3
    <3>3. Forward'
      BY <1>2, <2>1, <3>1, <3>2 DEF Forward
    <3> QED BY <3>3
  <2> QED BY <1>1, <2>2, <2>3
<1>8. CASE drv.page = Bak2
  <2>1. flash[Run] = new /\ flash[Bak1] = new
    BY <1>3, <1>4, <1>8
  <2>2. Forward'
    BY <1>2, <2>1 DEF Forward
  <2> QED BY <2>2
<1> QED BY <1>1, <1>6, <1>7, <1>8

(* A reset while the factory table is written for the first time.          *)
LEMMA CrashInFilling ==
  ASSUME TypeInv, TypeInv', Inv0, Settling, Filling, pc = "default", Crash
  PROVE  Forward' \/ Empty'
<1> USE Copies
<1>1. drv.phase \in {"erase", "program"} /\ ~Patching /\ drv.page \in Copy
  BY DEF Inv0, Driver, Rebuilding, Patching, TypeInv, TypeOK
<1>2. UNCHANGED <<flash, old, new>> /\ \A c \in Copy : Img(c)' = flash[c]
  BY RamLost DEF Crash
<1>3. /\ new = User_Default_Param
      /\ \A i \in Addr : Within(i, {Erased, User_Default_Param[i]})
  BY DEF Filling, Factory
<1>4. Img(Run) = User_Default_Param
  BY <1>1 DEF Settling
<1>5. CASE flash[Run] = User_Default_Param
  <2>1. \A i \in Addr : flash[Bak1][i] \in {Erased, new[i]}
    BY <1>3 DEF Within
  <2>2. Forward'
    BY <1>2, <1>3, <1>5, <2>1 DEF Forward
  <2> QED BY <2>2
<1>6. CASE flash[Run] # User_Default_Param
  <2>1. drv.page = Run
    BY <1>4, <1>6 DEF Img
  <2>2. flash[Run][Last] = Erased
    <3>1. CASE drv.phase = "erase"
      BY <2>1, <3>1 DEF Filling
    <3>2. CASE drv.phase = "program"
      BY <1>1, <1>4, <1>6, <2>1, <3>2, PageInHand
    <3> QED BY <1>1, <3>1, <3>2
  <2>3. \A c \in Copy : flash[c][Last] = Erased
    BY <2>1, <2>2 DEF Filling
  <2>4. Factory'
    BY <1>2, FactoryStays DEF Filling
  <2>5. Empty'
    BY <1>2, <2>3, <2>4 DEF Empty, Within
  <2> QED BY <2>5
<1> QED BY <1>5, <1>6

(* A reset during a start after which nothing changes.                     *)
LEMMA CrashInStart ==
  ASSUME TypeInv, Inv0, Sound, agreed, Crash
  PROVE  Forward'
<1>1. UNCHANGED <<flash, new>> /\ \A c \in Copy : Img(c)' = flash[c]
  BY RamLost DEF Crash
<1>2. \A c \in Copy : Img(c) = flash[c]
  BY AtRest DEF Sound
<1> QED BY <1>1, <1>2, Copies DEF Sound, Forward

(* Two equal copies with the written mark outvote the third.               *)
LEMMA Outvoted ==
  ASSUME TypeInv, Inv0, Settling, Check_End,
         NEW c \in Copy, NEW o \in Copy, c # o, Img(c) = Img(o),
         Img(c)[Last] = SYSTEMPARAM_IS_PROGRAMED
  PROVE  pc' = "run"
<1> USE Copies
<1>1. ~Distinct(Cnt)
  BY DEF Distinct
<1>2. Check_Sta # 7
  BY <1>1, CheckEnds DEF Settling
<1>3. Settled(Last) /\ \A a \in Copy : Img(a) = flash[a]
  BY <1>2, CheckEnds, Constants
<1>4. \A p \in Copy : \E q \in Copy \ {p} : Img(q)[Last] = SYSTEMPARAM_IS_PROGRAMED
  OBVIOUS
<1>5. AllEqual(Last)
  BY <1>3, <1>4, Constants DEF Settled
<1>6. \A a \in Copy : Programed(a)
  BY <1>3, <1>5 DEF AllEqual, Programed, Last
<1> QED BY <1>2, <1>6, CheckEnds

(* The check never touches what two copies agree on.                       *)
LEMMA ForwardStays ==
  ASSUME TypeInv, TypeInv', Inv0, Forward, UNCHANGED <<hit, new>>,
         Check_Byte \/ \A c \in Copy : Img(c)' = Img(c)
  PROVE  Forward'
<1> USE Copies
<1>1. CASE \A c \in Copy : Img(c)' = Img(c)
  BY <1>1 DEF Forward
<1>2. CASE Check_Byte
  <2>1. /\ Cnt \in Addr
        /\ \A c \in Copy, i \in Addr : i # Cnt => Img(c)'[i] = Img(c)[i]
        /\ \A c \in Copy : Img(c)'[Cnt] # Img(c)[Cnt] =>
             /\ Img(c)'[Cnt] # Erased
             /\ \A o \in Copy \ {c} : Img(o)[Cnt] = Img(c)'[Cnt]
    BY <1>2, CheckEffect
  <2>2. \A c \in Copy : Img(c) \in [Addr -> Byte] /\ Img(c)' \in [Addr -> Byte]
    BY Images DEF Img, TypeInv, TypeOK, Image
  <2>3. Img(Run) = new /\ Img(Bak1)[Cnt] \in {Erased, new[Cnt]}
    BY <2>1 DEF Forward
  <2>4. Img(Run)'[Cnt] = Img(Run)[Cnt]
    BY <2>1, <2>3
  <2>5. Img(Run)' = new
    BY <2>1, <2>2, <2>3, <2>4
  <2>6. Img(Bak1)'[Cnt] \in {Img(Bak1)[Cnt], new[Cnt]}
    BY <2>1, <2>3
  <2>7. CASE Img(Bak1) = new
    <3>1. \A i \in Addr : Img(Bak1)'[i] = Img(Bak1)[i]
      BY <2>1, <2>6, <2>7
    <3>2. Img(Bak1)' = new
      BY <2>2, <2>7, <3>1
    <3> QED BY <2>5, <3>2 DEF Forward
  <2>8. CASE /\ hit = Bak1 \/ new = User_Default_Param
             /\ \A i \in Addr : Img(Bak1)[i] \in {Erased, new[i]}
    <3>1. \A i \in Addr : Img(Bak1)'[i] \in {Erased, new[i]}
      BY <2>1, <2>6, <2>8
    <3> QED BY <2>5, <2>8, <3>1 DEF Forward
  <2> QED BY <2>7, <2>8 DEF Forward
<1> QED BY <1>1, <1>2

LEMMA BackedStays ==
  ASSUME TypeInv, TypeInv', Inv0, NEW image, Backed(image),
         Check_Byte \/ \A c \in Copy : Img(c)' = Img(c)
  PROVE  /\ Img(Bak1)' = image /\ Img(Bak2)' = image
         /\ \A i \in Addr : Img(Run)[i] = image[i] => Img(Run)'[i] = image[i]
<1> USE Copies
<1>1. CASE \A c \in Copy : Img(c)' = Img(c)
  BY <1>1 DEF Backed
<1>2. CASE Check_Byte
  <2>1. /\ Cnt \in Addr
        /\ \A c \in Copy, i \in Addr : i # Cnt => Img(c)'[i] = Img(c)[i]
        /\ \A c \in Copy : Img(c)'[Cnt] # Img(c)[Cnt] =>
             \A o \in Copy \ {c} : Img(o)[Cnt] = Img(c)'[Cnt]
    BY <1>2, CheckEffect
  <2>2. \A c \in Copy : Img(c) \in [Addr -> Byte] /\ Img(c)' \in [Addr -> Byte]
    BY Images DEF Img, TypeInv, TypeOK, Image
  <2>3. Img(Bak1) = image /\ Img(Bak2) = image
    BY DEF Backed
  <2>4. Img(Bak1)'[Cnt] = image[Cnt] /\ Img(Bak2)'[Cnt] = image[Cnt]
    BY <2>1, <2>3
  <2>5. \A i \in Addr : Img(Bak1)'[i] = image[i] /\ Img(Bak2)'[i] = image[i]
    BY <2>1, <2>3, <2>4
  <2>6. Img(Bak1)' = image /\ Img(Bak2)' = image
    BY <2>2, <2>3, <2>5
  <2>7. Img(Run)'[Cnt] \in {Img(Run)[Cnt], image[Cnt]}
    BY <2>1, <2>3
  <2>8. \A i \in Addr : Img(Run)[i] = image[i] => Img(Run)'[i] = image[i]
    BY <2>1, <2>7
  <2> QED BY <2>6, <2>8
<1> QED BY <1>1, <1>2

LEMMA ResetImage ==
  ASSUME TypeInv
  PROVE  /\ \A i \in Addr : BasicReset[i] = IF i \in UserAddr THEN User_Default_Param[i] ELSE old[i]
         /\ BasicReset[Last] = old[Last]
BY Constants, BasicOverlay DEF BasicReset, TypeInv, TypeOK

LEMMA BackwardStays ==
  ASSUME TypeInv, TypeInv', Inv0, Backward, UNCHANGED <<hit, old>>,
         Check_Byte \/ \A c \in Copy : Img(c)' = Img(c)
  PROVE  Backward'
<1>1. CASE hit # Bak2 /\ Backed(old)
  <2>1. Img(Bak1)' = old /\ Img(Bak2)' = old
    BY <1>1, BackedStays
  <2> QED BY <1>1, <2>1 DEF Backward, Backed
<1>2. CASE hit = Run /\ Backed(BasicReset) /\ BasicsDone
  <2>1. /\ Img(Bak1)' = BasicReset /\ Img(Bak2)' = BasicReset
        /\ \A i \in Addr : Img(Run)[i] = BasicReset[i] => Img(Run)'[i] = BasicReset[i]
    BY <1>2, BackedStays
  <2>2. BasicsDone'
    BY <1>2, <2>1, ResetImage, Constants DEF BasicsDone
  <2>3. BasicReset' = BasicReset
    BY DEF BasicReset
  <2> QED BY <1>2, <2>1, <2>2, <2>3 DEF Backward, Backed
<1> QED BY <1>1, <1>2 DEF Backward

(* What the check leaves in the running copy is what the backups say.      *)
LEMMA BackwardEnds ==
  ASSUME TypeInv, Inv0, Backward, \A c \in Copy : Img(c) = flash[c],
         \A i \in Addr : Settled(i)
  PROVE  (Is(old) /\ hit # Bak2) \/ (Is(BasicReset) /\ hit = Run)
<1> USE Copies
<1>1. ASSUME NEW i \in Addr, NEW image, Backed(image)
      PROVE  image[i] = Erased \/ flash[Run][i] = image[i]
  <2>1. Img(Bak1)[i] = image[i] /\ Img(Bak2)[i] = image[i]
    BY <1>1 DEF Backed
  <2>2. CASE AllEqual(i)
    BY <2>1, <2>2 DEF AllEqual
  <2>3. CASE \E p \in Copy : \A o \in Copy \ {p} : Img(o)[i] = Erased
    <3>1. \A p \in Copy : p # Bak1 \/ p # Bak2
      OBVIOUS
    <3> QED BY <2>1, <2>3, <3>1
  <2> QED BY <2>2, <2>3 DEF Settled
<1>2. CASE hit # Bak2 /\ Backed(old)
  BY <1>1, <1>2 DEF Is
<1>3. CASE hit = Run /\ Backed(BasicReset) /\ BasicsDone
  <2>1. ASSUME NEW i \in Addr PROVE old[i] = Erased \/ flash[Run][i] = BasicReset[i]
    <3>1. CASE i \in UserAddr
      BY <1>3, <3>1, ResetImage DEF BasicsDone
    <3>2. CASE i \notin UserAddr
      BY <1>1, <1>3, <3>2, ResetImage
    <3> QED BY <3>1, <3>2
  <2> QED BY <1>3, <2>1 DEF Is
<1> QED BY <1>2, <1>3 DEF Backward

LEMMA CrashStep ==
  ASSUME TypeInv, TypeInv', Inv0, Settling, Front, Commanding, Undisturbed, Crash,
         crashes' = 1, agreed'
  PROVE  Disturbed'
<1>1. /\ crashes = 0 /\ agreed /\ pc # "run" /\ pc' = "boot"
      /\ UNCHANGED <<flash, old, new>> /\ \A c \in Copy : Img(c)' = flash[c]
  BY RamLost DEF Crash, TypeInv, TypeOK
<1>2. Empty => Empty'
  BY <1>1, EmptyStays
<1>3. CASE pc \in {"boot", "check", "basic"}
  BY <1>1, <1>2, <1>3, CrashInStart DEF Undisturbed, Disturbed
<1>4. CASE pc = "default"
  BY <1>1, <1>4, CrashInFilling DEF Undisturbed, Disturbed
<1>5. CASE pc \in {"write", "info"}
  BY <1>1, <1>5, CrashInCommand DEF Disturbed
<1> QED BY <1>1, <1>3, <1>4, <1>5 DEF TypeInv, TypeOK, Control

LEMMA DisturbedStep ==
  ASSUME TypeInv, TypeInv', Inv0, Inv0', faults = 0, faults' = 0, Settling, Front,
         Commanding, Undisturbed, Disturbed, [Next]_vars
  PROVE  Disturbed'
<1> USE Copies
<1> SUFFICES ASSUME crashes' = 1, agreed' PROVE Disturbed'
  BY DEF Disturbed
<1>1. CASE Crash
  BY <1>1, CrashStep
<1>2. CASE WriteParam \/ WriteInfo \/ Restart
  BY <1>2, CommandBegins DEF Restart, Observe
<1>o. Step \/ UNCHANGED vars => UNCHANGED <<crashes, hit, old, new, agreed>>
  <2>1. Step => UNCHANGED obsVars
    BY DEF Step, Erase_Page, Program_Word, Check_Device_Param, Write3T_NextCopy,
           Write3T_Basic_Return, Check_Byte, Repair_Return, Check_End, Write_Return
  <2> QED BY <2>1 DEF obsVars, vars
<1> SUFFICES ASSUME Step \/ UNCHANGED vars PROVE Disturbed'
  BY <1>1, <1>2 DEF Next
<1>a. agreed
  BY <1>o, Zenon
<1>3. /\ crashes = 1 /\ agreed
      /\ UNCHANGED <<crashes, hit, old, new, agreed>>
      /\ pc \notin {"write", "info"}
  BY <1>o, <1>a DEF Commanding
<1>5. CASE Erase_Page \/ Program_Word
  <2>1. /\ \A c \in Copy : Img(c)' = Img(c)
        /\ pc' = pc /\ drv'.page = drv.page /\ drv.phase # "idle"
    BY <1>5, PageStep
  <2>2. pc \notin {"boot", "run"}
    BY <2>1 DEF Inv0, Driver
  <2>3. Empty => Empty'
    BY <1>3, <1>5, EmptyStays
  <2>4. Forward => Forward'
    BY <1>3, <2>1, ForwardStays
  <2>5. Backward => Backward'
    BY <1>3, <2>1, BackwardStays
  <2>6. BasicWay => BasicWay'
    <3>1. BasicReset' = BasicReset
      BY <1>3 DEF BasicReset
    <3> QED BY <1>3, <2>1, <3>1 DEF BasicWay, BasicsDone
  <2> QED BY <1>3, <2>1, <2>2, <2>3, <2>4, <2>5, <2>6 DEF Disturbed
<1>6. CASE Check_Device_Param
  <2>1. pc = "boot" /\ \A c \in Copy : Img(c) = flash[c]
    BY <1>6 DEF Check_Device_Param, Inv0, Driver, Img, Rebuilding
  <2>2. CASE Empty
    <3>1. Empty' /\ pc' \in {"basic", "check"}
      BY <1>6, <2>2, EmptyBoots DEF Check_Device_Param, StartCheck
    <3> QED BY <3>1 DEF Disturbed
  <2>3. CASE StartCheck /\ ~Empty
    <3>1. pc' = "check" /\ \A c \in Copy : Img(c)' = Img(c)
      BY <2>1, <2>3, CheckBegins
    <3>2. Forward => Forward'
      BY <1>3, <3>1, ForwardStays
    <3>3. hit # Bak2 /\ Backed(old) => Backward'
      BY <1>3, <3>1 DEF Backward, Backed
    <3> QED BY <1>3, <2>1, <2>3, <3>1, <3>2, <3>3 DEF Disturbed
  <2>4. CASE ~StartCheck /\ ~Empty
    <3>1. /\ pc' = "basic" /\ ~Initialised /\ drv'.page = Run
          /\ Img(Run)' = Overlay([at |-> UserAddr, data |-> User_Default_Param], flash[Run])
          /\ \A c \in Copy : c # Run => Img(c)' = Img(c)
      BY <1>6, <2>1, <2>4, FirstBoot
    <3>2. ~Forward
      BY <2>1, <3>1 DEF Forward, Front, Bears, Initialised
    <3>3. hit = Run /\ Backed(old)
      BY <1>3, <2>1, <2>4, <3>1, <3>2 DEF Disturbed
    <3>4. BasicsDone'
      BY <3>1, Images, BasicOverlay, Constants DEF BasicsDone
    <3>5. \A c \in {Bak1, Bak2} : ~(c <= Run)
      OBVIOUS
    <3>6. BasicWay'
      BY <1>3, <3>1, <3>3, <3>4, <3>5 DEF BasicWay, Backed
    <3> QED BY <3>1, <3>6 DEF Disturbed
  <2> QED BY <2>2, <2>3, <2>4
<1>7. CASE Write3T_NextCopy
  <2>1. /\ pc \in {"basic", "default"} /\ drv.page + 1 \in Copy
        /\ drv'.page = drv.page + 1 /\ pc' = pc
        /\ \A c \in Copy : Img(c)' = IF c = drv.page + 1 THEN Overlay(Job, Img(c)) ELSE Img(c)
    BY <1>3, <1>7, NextPage
  <2>2. CASE pc = "basic" /\ Empty
    BY <1>7, <2>1, <2>2, EmptyGoesOn DEF Disturbed
  <2>3. CASE pc = "basic" /\ BasicWay
    <3>1. Job = [at |-> UserAddr, data |-> User_Default_Param]
      BY <2>3 DEF Job
    <3>2. \A c \in Copy : c <= drv'.page <=> c <= drv.page \/ c = drv.page + 1
      BY <2>1 DEF TypeInv, TypeOK
    <3>3. drv.page + 1 # Run /\ ~(drv.page + 1 <= drv.page)
      BY DEF TypeInv, TypeOK
    <3>4. \A c \in {Bak1, Bak2} : Img(c)' = IF c <= drv'.page THEN BasicReset ELSE old
      BY <2>1, <2>3, <3>1, <3>2, <3>3 DEF BasicWay, BasicReset
    <3>5. BasicsDone'
      BY <2>1, <2>3, <3>3 DEF BasicWay, BasicsDone
    <3>6. BasicReset' = BasicReset
      BY <1>3 DEF BasicReset
    <3>7. BasicWay'
      BY <1>3, <2>3, <3>4, <3>5, <3>6 DEF BasicWay
    <3> QED BY <2>1, <2>3, <3>7 DEF Disturbed
  <2>4. CASE pc = "default"
    BY <1>3, <2>1, <2>4 DEF Disturbed
  <2> QED BY <1>3, <2>1, <2>2, <2>3, <2>4 DEF Disturbed
<1>8. CASE Write3T_Basic_Return
  <2>1. pc = "basic" /\ drv.page = Bak2 /\ StartCheck /\ \A c \in Copy : Img(c) = flash[c]
    BY <1>8, BasicEnds
  <2>2. pc' = "check" /\ UNCHANGED flash /\ \A c \in Copy : Img(c)' = Img(c)
    BY <2>1, CheckBegins
  <2>3. CASE Empty
    <3>1. Empty'
      BY <1>3, <2>2, <2>3, EmptyStays
    <3> QED BY <2>2, <3>1 DEF Disturbed
  <2>4. CASE BasicWay
    <3>1. Backward
      BY <2>1, <2>4 DEF BasicWay, Backward, Backed
    <3>2. Backward'
      BY <1>3, <2>2, <3>1, BackwardStays
    <3> QED BY <2>2, <3>2 DEF Disturbed
  <2> QED BY <1>3, <2>1, <2>3, <2>4 DEF Disturbed
<1>9. CASE Check_Byte \/ Repair_Return
  <2>1. /\ pc = "check" /\ pc' = "check"
        /\ Check_Byte \/ \A c \in Copy : Img(c)' = Img(c)
    BY <1>9, CheckEffect, ReturnEffect
  <2>2. Empty => Empty'
    BY <1>3, <1>9, EmptyStays
  <2>3. Forward => Forward'
    BY <1>3, <2>1, ForwardStays
  <2>4. Backward => Backward'
    BY <1>3, <2>1, BackwardStays
  <2> QED BY <1>3, <2>1, <2>2, <2>3, <2>4 DEF Disturbed
<1>10. CASE Check_End
  <2>1. /\ pc = "check" /\ pc' \in {"default", "run"} /\ flash' = flash
        /\ \A c \in Copy : Img(c) = flash[c]
        /\ pc' = "run" => ~NeedDefaults /\ \A i \in Addr : Settled(i)
    BY <1>10, CheckEnds
  <2>2. CASE Empty
    <3>1. pc' = "default" /\ new = User_Default_Param
      BY <2>1, <2>2, EmptyUnmarked DEF NeedDefaults, Empty, Factory
    <3> QED BY <1>3, <3>1 DEF Disturbed
  <2>3. CASE Forward
    <3>1. Is(new)'
      BY <1>3, <2>1, <2>3 DEF Forward, Is
    <3>2. Img(Bak1) = new => pc' = "run"
      BY <1>10, <2>3, Outvoted DEF Forward, Front, Bears
    <3> QED BY <1>3, <2>1, <2>3, <3>1, <3>2 DEF Disturbed, Outcome, Forward
  <2>4. CASE Backward
    <3>1. pc' = "run"
      BY <1>10, <2>4, ResetImage, Outvoted DEF Backward, Backed, Front, Bears
    <3>2. (Is(old) /\ hit # Bak2) \/ (Is(BasicReset) /\ hit = Run)
      BY <2>1, <2>4, <3>1, BackwardEnds
    <3>3. (Is(old) => Is(old)') /\ (Is(BasicReset) => Is(BasicReset)')
      BY <1>3, <2>1 DEF Is, BasicReset
    <3> QED BY <1>3, <3>1, <3>2, <3>3 DEF Disturbed, Outcome
  <2> QED BY <1>3, <2>1, <2>2, <2>3, <2>4 DEF Disturbed
<1>11. CASE Write_Return
  <2>1. pc = "default" /\ pc' = "run" /\ drv.page = Bak2 /\ flash'[Run] = Img(Run)
    BY <1>3, <1>11, WriteEnds
  <2>2. flash'[Run] = User_Default_Param
    BY <2>1 DEF Settling
  <2>3. new = User_Default_Param \/ hit = Bak1
    BY <1>3, <2>1 DEF Disturbed
  <2> QED BY <1>3, <2>1, <2>2, <2>3 DEF Disturbed, Outcome, Is
<1>12. CASE UNCHANGED vars
  <2>1. /\ UNCHANGED <<flash, pc, drv>> /\ \A c \in Copy : Img(c)' = Img(c)
    BY <1>12 DEF vars, checkVars, Img, Rebuilding, Patching
  <2>2. Empty => Empty'
    BY <1>3, <2>1, EmptyStays
  <2>3. Forward => Forward'
    BY <1>3, <2>1, ForwardStays
  <2>4. Backward => Backward'
    BY <1>3, <2>1, BackwardStays
  <2>5. BasicReset' = BasicReset
    BY <1>3 DEF BasicReset
  <2>6. BasicWay => BasicWay'
    BY <1>3, <2>1, <2>5 DEF BasicWay, BasicsDone
  <2>7. Backed(old) => Backed(old)'
    BY <1>3, <2>1 DEF Backed
  <2>8. Outcome => Outcome'
    BY <1>3, <2>1, <2>5 DEF Outcome, Is
  <2>9. Initialised => Initialised'
    BY <2>1 DEF Initialised
  <2> QED BY <1>3, <2>1, <2>2, <2>3, <2>4, <2>6, <2>7, <2>8, <2>9 DEF Disturbed
<1> QED
  BY <1>5, <1>6, <1>7, <1>8, <1>9, <1>10, <1>11, <1>12 DEF Step

------------------------------------------------------------------------------
(* The theorems                                                            *)

LEMMA InitStory == Init => RInv
<1> SUFFICES ASSUME Init PROVE Story
  BY InitInv DEF RInv
<1>1. /\ pc = "boot" /\ req.at = {} /\ drv.phase = "idle" /\ crashes = 0
      /\ flash = [c \in Copy |-> Blank]
      /\ old = User_Default_Param /\ new = User_Default_Param
  BY DEF Init, Idle, NoReq
<1>2. \A c \in Copy : Img(c) = Blank /\ flash[c] = Blank
  BY <1>1 DEF Img, Rebuilding
<1>3. \A i \in Addr : Blank[i] = Erased
  BY DEF Blank
<1>4. Front
  BY <1>1, <1>2, <1>3, Firsts, Constants DEF Front, Within
<1>5. Empty
  BY <1>1, <1>2, <1>3, Constants DEF Empty, Factory, Within
<1> QED BY <1>1, <1>4, <1>5 DEF Story, Settling, Commanding, Undisturbed, Disturbed

LEMMA NextStory == RInv /\ [Next]_vars => RInv'
<1> SUFFICES ASSUME RInv, [Next]_vars, faults' = 0 PROVE Story'
  BY StepInv DEF RInv
<1>1. IInv /\ IInv'
  BY StepInv DEF RInv
<1>2. faults = 0
  BY <1>1 DEF Next, Step, vars, Erase_Page, Program_Word, FlashFault,
       Check_Device_Param, Write3T_NextCopy, Write3T_Basic_Return, Check_Byte,
       Repair_Return, Check_End, Write_Return, WriteParam, WriteInfo, Restart,
       Crash, LoseRam, IInv, TypeInv, TypeOK
<1>3. TypeInv /\ TypeInv' /\ Inv0 /\ Inv0'
  BY <1>1, <1>2 DEF IInv
<1>4. Settling /\ Front /\ Commanding /\ Undisturbed /\ Disturbed
  BY <1>2 DEF RInv, Story
<1> QED
  BY <1>2, <1>3, <1>4, SettlingStep, FrontStep, CommandingStep, UndisturbedStep,
     DisturbedStep DEF Story

LEMMA Recovery == Spec => []RInv
  BY InitStory, NextStory, PTL DEF Spec

(* As long as no flash operation failed: a command that no reset           *)
(* interrupted is in force, and one that a single reset interrupted, on    *)
(* equal copies, is in force or undone as a whole, with the exceptions     *)
(* RecoveredWhole names.                                                   *)
THEOREM RecoversWhole == Spec => []RecoveredWhole
<1>1. RInv => RecoveredWhole
  <2> SUFFICES ASSUME RInv, pc = "run", faults = 0
               PROVE  /\ crashes = 0 => flash[Run] = new
                      /\ crashes = 1 /\ agreed => Outcome
    BY DEF RecoveredWhole, Outcome
  <2>1. Run \in Copy /\ Img(Run) = flash[Run]
    BY CommandImage DEF RInv, IInv, Copy
  <2>2. Undisturbed /\ Disturbed
    BY DEF RInv, Story
  <2> QED BY <2>1, <2>2 DEF Undisturbed, Disturbed
<1> QED BY <1>1, Recovery, PTL

(* As long as no flash operation failed: a device that was up, and whose   *)
(* copies all carry the mark, starts again without changing the flash.     *)
THEOREM CleanBoot == Spec => CleanBootReadOnly
<1>1. RInv /\ [Next]_vars => [SettledBoot => UNCHANGED flash]_vars
  <2> SUFFICES ASSUME RInv, Next, SettledBoot PROVE UNCHANGED flash
    OBVIOUS
  <2>1. /\ faults = 0 /\ crashes = 0 /\ pc \in {"boot", "basic", "check", "default"}
        /\ \A c \in Copy : Programed(c)
        /\ TypeInv /\ Inv0 /\ Undisturbed
    BY DEF SettledBoot, RInv, IInv, Story
  <2>2. RInv'
    BY NextStory
  <2>3. CASE Erase_Page \/ Program_Word
    <3> SUFFICES ASSUME flash' # flash PROVE FALSE
      OBVIOUS
    <3>1. faults' = 0
      BY <2>1, <2>3 DEF Erase_Page, Program_Word
    <3>2. drv.phase \in {"erase", "program"} /\ (Patching => flash' = flash)
      BY <2>1, <2>2, <2>3, <3>1, PageStep DEF RInv, IInv
    <3>3. ~Empty
      BY <2>1, EmptyUnmarked, Copies
    <3>4. ~Sound
      BY <3>2 DEF Sound, Rebuilding
    <3>5. pc = "default" /\ Filling
      BY <2>1, <3>2, <3>3, <3>4 DEF Undisturbed, Inv0, Driver
    <3>6. \A c \in Copy : flash[c][Last] # Erased
      BY <2>1, Constants DEF Programed, Last
    <3>7. drv.page \in Copy /\ drv.phase # "erase"
      BY <2>1, <3>5, <3>6 DEF Filling, TypeInv, TypeOK
    <3>8. Program_Word /\ ~Patching /\ drv.phase = "program"
      BY <2>3, <3>2, <3>7 DEF Erase_Page
    <3>9. flash[drv.page][Last] = Erased
      BY <2>1, <3>8, PageInHand DEF Program_Word, TypeInv, TypeOK
    <3> QED BY <3>6, <3>7, <3>9
  <2>4. CASE ~(Erase_Page \/ Program_Word)
    BY <2>4 DEF Next, Step, Check_Device_Param, StartCheck, Write3T_NextCopy,
       Write3T_Basic_Return, Check_Byte, Repair_Return, Check_End, Write_Return,
       WriteParam, WriteInfo, Restart, Crash, LoseRam
  <2> QED BY <2>3, <2>4
<1> QED BY <1>1, Recovery, PTL DEF CleanBootReadOnly, Spec
=============================================================================
