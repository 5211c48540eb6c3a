----------------------------- MODULE DeviceProofs -----------------------------
(***************************************************************************)
(* For every scale, every set of hosts and every device setup: what the    *)
(* commands do to the parameters survives a restart, filter and conversion *)
(* work with the same limits, an AD table is made of one session's points, *)
(* requests are answered in their own name, every value keeps its type,    *)
(* the output of a device that was calibrated by capture rises with the    *)
(* level, and what the filter delivers is made of the values in the        *)
(* middle.                                                                 *)
(***************************************************************************)
EXTENDS Device, AdcSampling, SequenceFolds, TLAPS

Types == DOMAIN ram = Params /\ DOMAIN flash = Params

------------------------------------------------------------------------------
(* How the parameters change                                               *)

(* Other parameters than the limits are stored as the integers they are.   *)
Stored(new) ==
  /\ Store(new)
  /\ DOMAIN new \cap Limits = {}
  /\ UNCHANGED range

(* Function 27, with what it accepts.                                      *)
Set(new) ==
  /\ \A p \in DOMAIN new : p \in Limits \cup AdTable \cup DaTable
  /\ ram' = Over(new, ram)
  /\ flash' = Over([p \in DOMAIN new |-> Cell27(p, new[p])], flash)
  /\ range' = RangeWith(new)

Changes ==
  \/ UNCHANGED paramVars
  \/ \E new : Stored(new)
  \/ \E c : MB_Cap_Calibration(c)
  \/ \E new : Set(new)
  \/ Restart

(* Function 10 stores integers other than the limits, or nothing.          *)
LEMMA Func10Changes ==
  ASSUME NEW q, ModbusFunc10(q)
  PROVE  Changes
<1>1. CASE UNCHANGED paramVars
  BY <1>1 DEF Changes
<1>2. CASE \E s \in Stale : Store([p \in {p \in DOMAIN Written(q, s) : Accepts(p, Written(q, s)[p])}
                                     |-> Written(q, s)[p]])
  <2>1. PICK s \in Stale : Store([p \in {p \in DOMAIN Written(q, s) : Accepts(p, Written(q, s)[p])}
                                     |-> Written(q, s)[p]])
    BY <1>2
  <2>2. UNCHANGED range
    BY DEF ModbusFunc10, paramVars
  <2>3. \A p, v : Accepts(p, v) => p \notin Limits
    BY DEF Accepts, Limits
  <2> QED BY <2>1, <2>2, <2>3 DEF Changes, Stored
<1> QED BY <1>1, <1>2 DEF ModbusFunc10, paramVars

(* Function 27 sets limits and points of the tables, or nothing.           *)
LEMMA Func27Changes ==
  ASSUME NEW q, ModbusFunc27(q)
  PROVE  Changes
<1>1. CASE UNCHANGED paramVars
  BY <1>1 DEF Changes
<1>2. CASE \E new : Set(new)
  BY <1>2 DEF Changes
<1>3. UNCHANGED paramVars \/ \E new : Set(new)
  <2>1. \A p, v : Accepts27(p, v) => p \in Limits \cup AdTable \cup DaTable
    BY DEF Accepts27
  <2>2. SUFFICES ASSUME ~UNCHANGED paramVars PROVE \E new : Set(new)
    OBVIOUS
  <2>3. PICK s \in Stale :
          LET w   == Written(q, s)
              new == [p \in {p \in DOMAIN w : Accepts27(p, w[p])} |-> w[p]]
          IN  /\ ram' = Over(new, ram)
              /\ flash' = Over([p \in DOMAIN new |-> Cell27(p, new[p])], flash)
              /\ range' = RangeWith(new)
    BY <2>2 DEF ModbusFunc27
  <2> QED BY <2>1, <2>3 DEF Set
<1> QED BY <1>1, <1>2, <1>3

(* Function 05 stores a pair of limits or nothing.                         *)
LEMMA CaptureChanges ==
  ASSUME NEW q, ModbusFunc05(q)
  PROVE  Changes
<1>1. CASE UNCHANGED paramVars
  BY <1>1 DEF Changes
<1>2. CASE \E end : CaptureCap(end)
  BY <1>2 DEF CaptureCap, Changes
<1>3. CASE RestoreCap
  BY <1>3 DEF RestoreCap, Changes
<1> QED BY <1>1, <1>2, <1>3 DEF ModbusFunc05

(* The tables function 25 stores have neither limits nor B.                *)
LEMMA OtherTables ==
  \A k \in {"ad", "da", "temp"} : TableParams(k) \cap Limits = {} /\ "Correct_B" \notin TableParams(k)
BY DEF TableParams, TableOf, Limits, AD, DA, TempDA

(* Function 25 stores a table or nothing.                                  *)
LEMMA Func25Changes ==
  ASSUME NEW q, ModbusFunc25(q)
  PROVE  Changes
<1>1. CASE UNCHANGED paramVars
  BY <1>1 DEF Changes
<1>2. CASE q.reg \in DOMAIN Enables /\ SetEnabled(Enables[q.reg], On(q))
  <2>0. PICK k \in {"ad", "da", "temp"} : \E f, c : UNCHANGED paramVars \/ Calibration(k, f, c)
    BY <1>2 DEF SetEnabled, Enables
  <2>1. PICK f, c : UNCHANGED paramVars \/ Calibration(k, f, c)
    BY <2>0
  <2>2. CASE Calibration(k, f, c) /\ Acceptable(k, f, c)
    <3>1. Store([p \in TableParams(k) |-> Points(k, f, c)[EndOf(k, p)]]) /\ UNCHANGED range
      BY <2>2 DEF Calibration
    <3> QED BY <3>1, OtherTables DEF Stored, Changes
  <2>3. CASE Calibration(k, f, c) /\ ~Acceptable(k, f, c)
    BY <2>3, <1>1 DEF Calibration, paramVars
  <2> QED BY <1>1, <2>1, <2>2, <2>3
<1>3. CASE q.reg \in DOMAIN Captures /\ \E k, e : Capture(k, e)
  BY <1>1, <1>3 DEF Capture
<1> QED BY <1>1, <1>2, <1>3 DEF ModbusFunc25

(* However a step changes the parameters, it is one of the ways above.     *)
LEMMA NextChanges == [Next]_vars => Changes
<1> SUFFICES ASSUME [Next]_vars PROVE Changes
  OBVIOUS
<1>1. CASE UNCHANGED paramVars
  BY <1>1 DEF Changes
<1>2. ASSUME NEW q, ModbusFunc03(q) \/ ModbusFunc04_26(q) \/ UnknownFunction(q)
      PROVE  Changes
  BY <1>1, <1>2 DEF ModbusFunc03, ModbusFunc04_26, UnknownFunction, NothingElse
<1>3. CASE ModbusHandle
  BY <1>2, <1>3, Func10Changes, Func27Changes, Func25Changes, CaptureChanges DEF ModbusHandle
<1>4. CASE Sensor_PCap \/ SensorEvent \/ UNCHANGED vars
  BY <1>1, <1>4 DEF Sensor_PCap, SensorEvent, vars
<1> QED BY <1>3, <1>4 DEF Next, Changes

------------------------------------------------------------------------------
(* Limits in step and parameters that reload                               *)

PInv == Types /\ RangesAgree /\ ReloadSame

(* Which parameters are limits.                                            *)
LEMMA LimitsAreParams ==
  {"CapMin", "CapMax"} \subseteq Params /\ "Correct_B" \notin Limits \cup AdTable \cup DaTable
    /\ Limits = {"CapMin", "CapMax"} /\ Limits \cap (AdTable \cup DaTable) = {}
BY DEF Params, CapParams, Limits, AdTable, DaTable, AD, DA

LEMMA OverDomain == \A new, old : DOMAIN Over(new, old) = DOMAIN old
BY DEF Over

(* What a write leaves in a parameter.                                     *)
LEMMA OverAt ==
  \A new, old : \A p \in DOMAIN old : Over(new, old)[p] = IF p \in DOMAIN new THEN new[p] ELSE old[p]
BY DEF Over

(* An integer other than B is loaded as it was stored.                     *)
LEMMA LoadInt ==
  \A p, v : p # "Correct_B" => Load(p, IntCell(v)) = v
BY DEF Load, IntCell

(* Whatever is stored is read back, B but for its hundred.                 *)
LEMMA StoreReloads ==
  ASSUME Types, ReloadSame, NEW new, Store(new)
  PROVE  Types' /\ ReloadSame'
<1> DEFINE cells == [p \in DOMAIN new |-> IntCell(new[p])]
<1>1. ram' = Over(new, ram) /\ flash' = Over(cells, flash) /\ DOMAIN cells = DOMAIN new
  BY DEF Store
<1>2. Types'
  BY <1>1, OverDomain DEF Types
<1>3. ASSUME NEW p \in Params, p \in DOMAIN new PROVE Reloads(p)'
  <2>1. ram'[p] = new[p] /\ flash'[p] = IntCell(new[p])
    BY <1>1, <1>3, OverAt DEF Types
  <2> QED BY <2>1, LoadInt DEF Reloads
<1>4. ASSUME NEW p \in Params, p \notin DOMAIN new PROVE Reloads(p)'
  <2>1. ram'[p] = ram[p] /\ flash'[p] = flash[p]
    BY <1>1, <1>4, OverAt DEF Types
  <2> QED BY <2>1 DEF Reloads, ReloadSame
<1> QED BY <1>2, <1>3, <1>4 DEF ReloadSame

(* What function 27 sets is read back, its limits as bits of floats.       *)
LEMMA SetReloads ==
  ASSUME Types, ReloadSame, NEW new, Set(new)
  PROVE  Types' /\ ReloadSame'
<1> DEFINE cells == [p \in DOMAIN new |-> Cell27(p, new[p])]
<1>1. ram' = Over(new, ram) /\ flash' = Over(cells, flash) /\ DOMAIN cells = DOMAIN new
  BY DEF Set
<1>2. Types'
  BY <1>1, OverDomain DEF Types
<1>3. ASSUME NEW p \in Params, p \in DOMAIN new PROVE Reloads(p)'
  <2>1. ram'[p] = new[p] /\ flash'[p] = Cell27(p, new[p])
    BY <1>1, <1>3, OverAt DEF Types
  <2>2. p # "Correct_B"
    BY <1>3, LimitsAreParams DEF Set
  <2> QED BY <2>1, <2>2, LoadInt DEF Reloads, Cell27
<1>4. ASSUME NEW p \in Params, p \notin DOMAIN new PROVE Reloads(p)'
  <2>1. ram'[p] = ram[p] /\ flash'[p] = flash[p]
    BY <1>1, <1>4, OverAt DEF Types
  <2> QED BY <2>1 DEF Reloads, ReloadSame
<1> QED BY <1>2, <1>3, <1>4 DEF ReloadSame

(* A pair of limits is stored as both.                                     *)
LEMMA CapPairIs ==
  \A c : /\ {"CapMin", "CapMax"} \subseteq DOMAIN CapPair(c)
        /\ CapPair(c)["CapMin"] = c.Min /\ CapPair(c)["CapMax"] = c.Max
BY DEF CapPair

(* Every step keeps limits in step and parameters that reload.             *)
LEMMA PInvStep == PInv /\ [Next]_vars => PInv'
<1> SUFFICES ASSUME PInv, [Next]_vars PROVE PInv'
  OBVIOUS
<1> USE DEF PInv
<1>1. CASE UNCHANGED paramVars
  BY <1>1 DEF paramVars, Types, RangesAgree, ReloadSame, Reloads
<1>2. ASSUME NEW new, Stored(new) PROVE PInv'
  <2>1. ram'["CapMin"] = ram["CapMin"] /\ ram'["CapMax"] = ram["CapMax"] /\ UNCHANGED range
    BY <1>2, OverAt, LimitsAreParams DEF Stored, Store, Types
  <2>2. Types' /\ ReloadSame'
    BY <1>2, StoreReloads DEF Stored
  <2> QED BY <2>1, <2>2 DEF RangesAgree
<1>3. ASSUME NEW c, Store(CapPair(c)), range' = RangeOf(c) PROVE PInv'
  <2>1. ram'["CapMin"] = c.Min /\ ram'["CapMax"] = c.Max
    BY <1>3, OverAt, LimitsAreParams, CapPairIs DEF Store, Types
  <2>2. Types' /\ ReloadSame'
    BY <1>3, StoreReloads
  <2> QED BY <1>3, <2>1, <2>2 DEF RangesAgree, RangeOf
<1>4. ASSUME NEW new, Set(new) PROVE PInv'
  <2>1. \A p \in Limits : ram'[p] = IF p \in DOMAIN new THEN new[p] ELSE ram[p]
    BY <1>4, OverAt, LimitsAreParams DEF Set, Types
  <2>2. Types' /\ ReloadSame'
    BY <1>4, SetReloads
  <2> QED BY <1>4, <2>1, <2>2, LimitsAreParams DEF Set, RangesAgree, RangeWith
<1>5. CASE Restart
  BY <1>5 DEF Restart, Loaded, Types, RangesAgree, ReloadSame, Reloads
<1> QED BY <1>1, <1>2, <1>3, <1>4, <1>5, NextChanges DEF Changes, MB_Cap_Calibration

LEMMA PInvInit == Init => PInv
BY DEF Init, PInv, Types, Loaded, RangesAgree, ReloadSame, Reloads

LEMMA PInvHolds == Spec => []PInv
BY PInvInit, PInvStep, PTL DEF Spec

(* Whatever the commands and in whatever order, with whatever registers a  *)
(* multiple write picks up: the filter clips to the limits the conversion  *)
(* divides by.                                                             *)
THEOREM LimitsInStep == Spec => []RangesAgree
BY PInvHolds, PTL DEF PInv

(* A restart makes of flash what is in use, for every parameter and every  *)
(* sequence of commands, but for the three exceptions Reloads names.       *)
THEOREM ParametersReload == Spec => []ReloadSame
BY PInvHolds, PTL DEF PInv

------------------------------------------------------------------------------
(* The AD table                                                            *)

(* While AD calibration is enabled the flags are the session's ends; else  *)
(* they are too few for a table.                                           *)
SInv ==
  /\ DOMAIN ram = Params
  /\ ClibFlag \in [Kinds -> SUBSET Ends] /\ ClibEn \in [Kinds -> BOOLEAN]
  /\ IF ClibEn["ad"] THEN session = ClibFlag["ad"] ELSE ClibFlag["ad"] # Ends

(* The AD table has a point for every end.                                 *)
LEMMA AdEnds == DOMAIN TableOf["ad"] = Ends /\ Ends = {"Min", "Low", "High", "Max"}
BY DEF TableOf, Ends

(* The other tables have none of its points.                               *)
LEMMA AdApart ==
  /\ \A k \in {"da", "temp"} : TableParams(k) \cap AdTable = {}
  /\ AdTable \subseteq Params
BY DEF TableParams, TableOf, AdTable, AD, DA, TempDA, Params

AdKept == \A p \in AdTable : ram'[p] = ram[p]

(* Storing anything else keeps the AD table.                               *)
LEMMA KeptByStore ==
  ASSUME DOMAIN ram = Params, NEW new, DOMAIN new \cap AdTable = {}, Store(new)
  PROVE  AdKept /\ DOMAIN ram' = Params
BY OverAt, OverDomain, AdApart DEF Store, AdKept

(* A capture adds an end to flags and session alike and stores nothing.    *)
LEMMA CaptureStep ==
  ASSUME SInv, NEW k \in {"ad", "da", "temp"}, NEW e \in Ends, Capture(k, e)
  PROVE  SInv' /\ AdKept
<1> USE DEF SInv, Kinds
<1>1. UNCHANGED ram /\ UNCHANGED ClibEn /\ AdKept
  BY DEF Capture, paramVars, AdKept
<1>2. CASE ~Enabled(k)
  BY <1>1, <1>2 DEF Capture
<1>3. CASE Enabled(k) /\ k = "ad"
  BY <1>1, <1>3 DEF Capture, Enabled
<1>4. CASE Enabled(k) /\ k # "ad"
  BY <1>1, <1>4 DEF Capture
<1> QED BY <1>1, <1>2, <1>3, <1>4

(* Ending AD calibration stores the table only with every end captured;    *)
(* beginning it forgets both flags and session.                            *)
LEMMA EnableStep ==
  ASSUME SInv, NEW k \in {"ad", "da", "temp"}, NEW on \in BOOLEAN, SetEnabled(k, on)
  PROVE  SInv' /\ (AdKept \/ session = Ends)
<1> USE DEF SInv, Kinds
<1> DEFINE f == FlagAfter(k, on)
<1>1. f \in SUBSET Ends
  BY DEF FlagAfter
<1>2. /\ ClibFlag' \in [Kinds -> SUBSET Ends] /\ ClibEn' \in [Kinds -> BOOLEAN]
      /\ \A j \in Kinds \ {k} : ClibFlag'[j] = ClibFlag[j] /\ ClibEn'[j] = ClibEn[j]
  BY <1>1 DEF SetEnabled
<1>3. \A c : Calibration(k, f, c) => DOMAIN ram' = Params /\ (k # "ad" => AdKept)
  BY KeptByStore, AdApart, OverDomain DEF Calibration, Store, AdKept
<1>4. DOMAIN ram' = Params /\ (k # "ad" => AdKept)
  BY <1>3 DEF SetEnabled, paramVars, AdKept
<1>5. CASE k # "ad"
  BY <1>2, <1>4, <1>5 DEF SetEnabled
<1>6. CASE k = "ad" /\ on
  <2>1. f = {} /\ session' = {} /\ ClibEn'["ad"] = TRUE /\ ClibFlag'["ad"] = {} /\ AdKept
    BY <1>6 DEF FlagAfter, SetEnabled, paramVars, AdKept
  <2> QED BY <1>2, <1>4, <2>1
<1>7. CASE k = "ad" /\ ~on
  <2>1. f = ClibFlag["ad"] /\ ClibEn'["ad"] = FALSE
    BY <1>7 DEF FlagAfter, SetEnabled
  <2>2. CASE f = Ends
    <3>1. session = Ends /\ ClibFlag'["ad"] = {}
      BY <1>7, <2>1, <2>2, AdEnds DEF SetEnabled, Complete
    <3> QED BY <1>2, <1>4, <2>1, <3>1, AdEnds
  <2>3. CASE f # Ends
    <3>1. ClibFlag'["ad"] = f /\ AdKept
      BY <1>7, <2>3, AdEnds DEF SetEnabled, Complete, paramVars, AdKept
    <3> QED BY <1>2, <1>4, <2>1, <2>3, <3>1
  <2> QED BY <2>2, <2>3
<1> QED BY <1>5, <1>6, <1>7

(* Function 05 keeps the AD table and its flags.                           *)
LEMMA CoilStep ==
  ASSUME SInv, NEW q, ModbusFunc05(q)
  PROVE  SInv' /\ AdKept
<1> USE DEF SInv
<1>1. UNCHANGED <<ClibEn, session>> /\ "ad" \in Kinds /\ "cap" \in Kinds
  BY DEF ModbusFunc05, Kinds
<1>2. CASE UNCHANGED <<paramVars, ClibFlag>>
  BY <1>1, <1>2 DEF paramVars, AdKept
<1>3. ASSUME NEW c, MB_Cap_Calibration(c) PROVE AdKept /\ DOMAIN ram' = Params
  <2>1. DOMAIN CapPair(c) \cap AdTable = {}
    BY DEF CapPair, AdTable, AD
  <2> QED BY <1>3, <2>1, KeptByStore DEF MB_Cap_Calibration, paramVars, AdKept
<1>4. ASSUME NEW e \in Ends, CaptureCap(e) PROVE SInv' /\ AdKept
  <2>1. \E g \in SUBSET Ends : ClibFlag' = [ClibFlag EXCEPT !["cap"] = g]
    BY <1>1, <1>4 DEF CaptureCap
  <2>2. AdKept /\ DOMAIN ram' = Params
    BY <1>3, <1>4 DEF CaptureCap, paramVars, AdKept
  <2> QED BY <1>1, <2>1, <2>2
<1>5. CASE RestoreCap
  BY <1>1, <1>3, <1>5 DEF RestoreCap
<1> QED BY <1>2, <1>4, <1>5 DEF ModbusFunc05, Ends

(* Function 10 keeps the AD table.                                         *)
LEMMA WriteStep ==
  ASSUME SInv, NEW q, ModbusFunc10(q)
  PROVE  SInv' /\ AdKept
<1>1. UNCHANGED calVars
  BY DEF ModbusFunc10
<1>2. CASE UNCHANGED paramVars
  BY <1>1, <1>2 DEF calVars, paramVars, SInv, AdKept
<1>3. CASE \E new : Store(new) /\ DOMAIN new \cap AdTable = {}
  BY <1>1, <1>3, KeptByStore DEF calVars, SInv
<1>4. CASE ~UNCHANGED paramVars
  <2>1. PICK s \in Stale : Store([p \in {p \in DOMAIN Written(q, s) : Accepts(p, Written(q, s)[p])}
                                     |-> Written(q, s)[p]])
    BY <1>4 DEF ModbusFunc10, paramVars
  <2>2. \A p, v : Accepts(p, v) => p \notin AdTable
    BY DEF Accepts, AdTable, AD
  <2> QED BY <1>3, <2>1, <2>2
<1> QED BY <1>2, <1>4

(* Function 27 may write it, but is no calibration.                        *)
LEMMA SetStep ==
  ASSUME SInv, NEW q, ModbusFunc27(q)
  PROVE  SInv'
<1>1. UNCHANGED calVars /\ DOMAIN ram' = DOMAIN ram
  BY OverDomain DEF ModbusFunc27, paramVars
<1> QED BY <1>1 DEF SInv, calVars

(* Function 25, whatever the register.                                     *)
LEMMA TableStep ==
  ASSUME SInv, NEW q, ModbusFunc25(q)
  PROVE  SInv' /\ (AdKept \/ session = Ends)
<1>1. CASE UNCHANGED <<paramVars, calVars>>
  BY <1>1 DEF paramVars, calVars, SInv, AdKept
<1>2. CASE q.reg \in DOMAIN Enables /\ SetEnabled(Enables[q.reg], On(q))
  <2>1. Enables[q.reg] \in {"ad", "da", "temp"} /\ On(q) \in BOOLEAN
    BY <1>2 DEF Enables, On
  <2> QED BY <1>2, <2>1, EnableStep
<1>3. CASE \E k \in {"ad", "da", "temp"}, e \in Ends : Capture(k, e)
  BY <1>3, CaptureStep
<1>4. q.reg \in DOMAIN Captures =>
        /\ Captures[q.reg][1] \in {"ad", "da", "temp"}
        /\ Captures[q.reg][2] \in Ends /\ Captures[q.reg][3] \in Ends
  BY DEF Captures, Ends
<1> QED BY <1>1, <1>2, <1>3, <1>4 DEF ModbusFunc25

(* A restart loads the AD table that was in use.                           *)
LEMMA StartStep ==
  ASSUME SInv, PInv, Restart
  PROVE  SInv' /\ AdKept
<1>1. SInv'
  BY DEF Restart, Loaded, NoneCaptured, SInv, Kinds, Ends
<1>2. \A p \in AdTable : ram[p] = Load(p, flash[p])
  BY AdApart, LimitsAreParams DEF PInv, ReloadSame, Reloads
<1> QED BY <1>1, <1>2, AdApart DEF Restart, Loaded, AdKept

(* Every step.                                                             *)
LEMMA SessionStep ==
  ASSUME SInv, PInv, [Next]_vars
  PROVE  SInv' /\ (AdKept \/ session = Ends \/ \E q \in host.requests : q.fn = "27")
<1>1. CASE UNCHANGED <<paramVars, calVars>>
  BY <1>1 DEF paramVars, calVars, SInv, AdKept
<1>2. CASE ModbusHandle
  <2>1. PICK q \in host.requests :
          \/ ModbusFunc03(q) \/ ModbusFunc04_26(q) \/ ModbusFunc05(q) \/ ModbusFunc10(q)
          \/ ModbusFunc25(q) \/ ModbusFunc27(q) \/ UnknownFunction(q)
    BY <1>2 DEF ModbusHandle
  <2>2. CASE ModbusFunc03(q) \/ ModbusFunc04_26(q) \/ UnknownFunction(q)
    BY <1>1, <2>2 DEF ModbusFunc03, ModbusFunc04_26, UnknownFunction, NothingElse
  <2>3. CASE ModbusFunc27(q)
    BY <2>3, SetStep DEF ModbusFunc27
  <2> QED BY <2>1, <2>2, <2>3, CoilStep, WriteStep, TableStep
<1>3. CASE Sensor_PCap \/ SensorEvent \/ UNCHANGED vars
  BY <1>1, <1>3 DEF Sensor_PCap, SensorEvent, vars
<1> QED BY <1>2, <1>3, StartStep DEF Next

(* An AD table, however its calibration was begun, broken off, repeated or *)
(* interrupted by a restart, holds only points of the session that is      *)
(* being closed, all four of them.                                         *)
THEOREM OneSession == Spec => ADFromOneSession
<1>1. Init => SInv
  BY DEF Init, SInv, Loaded, NoneCaptured, Kinds, Ends
<1>2. SInv /\ PInv /\ [Next]_vars => SInv'
  BY SessionStep
<1>3. SInv /\ PInv /\ [Next]_vars
        => [(\E p \in AdTable : ram'[p] # ram[p]) /\ ByCapture => session = Ends]_vars
  <2> SUFFICES ASSUME SInv, PInv, [Next]_vars, \E p \in AdTable : ram'[p] # ram[p], ByCapture
               PROVE  session = Ends
    OBVIOUS
  <2>1. ~AdKept
    BY DEF AdKept
  <2> QED BY <2>1, SessionStep DEF ByCapture, OnlyCaptures
<1> QED BY <1>1, <1>2, <1>3, PInvHolds, PTL DEF Spec, ADFromOneSession

------------------------------------------------------------------------------
(* Answers                                                                 *)

(* One reply with the request's own front, to a broadcast only once more.  *)
LEMMA ReplyAnswers ==
  ASSUME NEW q, NEW head, NEW len, NEW frozen, NEW again \in BOOLEAN,
         Reply(q, head, len, frozen, again),
         head.addr = q.to, head.fn = q.fn, again => q.to = Broadcast
  PROVE  AnswersRequest'
<1>1. /\ answer'.to = q.to /\ answer'.fn = q.fn /\ answer'.again = again
      /\ answer'.mute = (frozen \/ len > SendSize - 2)
      /\ answer'.head = head /\ answer'.sent = Sendings(head, len, frozen, again)
  BY DEF Reply
<1>2. CASE frozen \/ len > SendSize - 2
  BY <1>1, <1>2 DEF Sendings, AnswersRequest
<1>3. CASE ~(frozen \/ len > SendSize - 2) /\ again
  <2>1. answer'.mute = FALSE /\ answer'.again = TRUE /\ head.addr = Broadcast
    BY <1>1, <1>3
  <2>2. Sendings(head, len, frozen, again) = 0 + 1
    BY <1>3, <2>1 DEF Sendings
  <2>3. answer'.sent = 1
    BY <1>1, <2>2
  <2> QED BY <1>1, <1>3, <2>1, <2>3 DEF AnswersRequest
<1>4. CASE ~(frozen \/ len > SendSize - 2) /\ ~again
  <2>1. /\ answer'.sent = IF q.to = Broadcast THEN 0 ELSE 1
        /\ answer'.mute = FALSE /\ answer'.again = FALSE
    BY <1>1, <1>4 DEF Sendings
  <2>2. CASE q.to = Broadcast
    BY <1>1, <2>1, <2>2 DEF AnswersRequest
  <2>3. CASE q.to # Broadcast
    BY <1>1, <2>1, <2>3 DEF AnswersRequest
  <2> QED BY <2>2, <2>3
<1> QED BY <1>2, <1>3, <1>4

(* An answer and a refusal carry the request's address and function.       *)
LEMMA AnswerAnswers ==
  ASSUME NEW q, NEW n, Answer(q, n) \/ Refuse(q, n)
  PROVE  AnswersRequest'
BY ReplyAnswers DEF Answer, Refuse, Header

(* So does whatever a command replies.                                     *)
LEMMA HandleAnswers ==
  ASSUME NEW q,
         \/ ModbusFunc03(q) \/ ModbusFunc04_26(q) \/ ModbusFunc05(q) \/ ModbusFunc10(q)
         \/ ModbusFunc25(q) \/ ModbusFunc27(q) \/ UnknownFunction(q)
  PROVE  AnswersRequest'
<1>1. CASE \E n : Answer(q, n) \/ Refuse(q, n)
  BY <1>1, AnswerAnswers
<1>2. CASE ModbusFunc03(q)
  <2>1. CASE Reply(q, Header(q), 3 + 2 * q.val, Freeze, q.to = Broadcast /\ q.reg = "Device_Addr")
    BY <2>1, ReplyAnswers DEF Header
  <2> QED BY <1>1, <1>2, <2>1 DEF ModbusFunc03
<1>3. CASE ModbusFunc04_26(q) \/ ModbusFunc10(q) \/ ModbusFunc27(q)
  BY <1>1, <1>3 DEF ModbusFunc04_26, ModbusFunc10, ModbusFunc27
<1>4. CASE ModbusFunc05(q)
  <2>1. CASE Reply(q, Header(q), 6, Freeze /\ On(q), FALSE)
    BY <2>1, ReplyAnswers DEF Header
  <2> QED BY <1>1, <1>4, <2>1 DEF ModbusFunc05
<1>5. CASE ModbusFunc25(q)
  <2>1. CASE ~InRomWrEn /\ Reply(q, [Send_Buf EXCEPT !.exc = 4], 3, Freeze, FALSE)
    BY <1>5, <2>1 DEF ModbusFunc25, Reply, AnswersRequest
  <2> QED BY <1>1, <1>5, <2>1 DEF ModbusFunc25
<1>6. CASE UnknownFunction(q)
  BY <1>1, <1>6 DEF UnknownFunction
<1> QED BY <1>2, <1>3, <1>4, <1>5, <1>6

(* Every request is answered once in its own name, or not at all where the *)
(* code says so, whatever the buffer held before.                          *)
THEOREM Answered == Spec => []AnswersRequest
<1>1. Init => AnswersRequest
  BY DEF Init, NoAnswer, AnswersRequest, Broadcast
<1>2. AnswersRequest /\ [Next]_vars => AnswersRequest'
  <2> SUFFICES ASSUME AnswersRequest, [Next]_vars PROVE AnswersRequest'
    OBVIOUS
  <2>1. CASE UNCHANGED answer
    BY <2>1 DEF AnswersRequest
  <2>2. CASE ModbusHandle
    BY <2>2, HandleAnswers DEF ModbusHandle
  <2>3. CASE Sensor_PCap \/ SensorEvent \/ Restart \/ UNCHANGED vars
    BY <2>1, <2>3 DEF Sensor_PCap, SensorEvent, Restart, vars, sendVars
  <2> QED BY <2>2, <2>3 DEF Next
<1> QED BY <1>1, <1>2, PTL DEF Spec

------------------------------------------------------------------------------
(* Types                                                                   *)

Nats == Seq(Nat)

ParamsTyped ==
  /\ ram \in [Params -> Int] /\ flash \in [Params -> [enc : {"int", "float"}, val : Nat]]
  /\ range \in [min : Nat, max : Nat]
  /\ \A p \in Params \ {"Correct_B"} : ram[p] \in Nat
  /\ \A p \in DaTable : ram[p] < HalfWord
  /\ ram["FilterFactor"] \in Levels

CalibTyped ==
  /\ Calib \in [Kinds -> [Ends -> Nat]] /\ \A e \in Ends : Calib["da"][e] <= DacMax
  /\ ClibFlag \in [Kinds -> SUBSET Ends] /\ session \in SUBSET Ends
  /\ ClibEn \in [Kinds -> BOOLEAN] /\ CapDA_ClibEn \in BOOLEAN
  /\ InRomWrEn \in BOOLEAN /\ Freeze \in BOOLEAN

OutTyped ==
  /\ raw \in Nat /\ FilterResult \in Nat /\ dac \in 0 .. DacMax
  /\ out \in [ad : 0 .. AdcMax, daResult : 0 .. DacMax, daOut : 0 .. HalfWord - 1]

FilterTyped ==
  /\ filter \in [FilterStart : BOOLEAN, DataResBuf : Nats, win1 : Nats, win2 : Nats]
  /\ Len(filter.DataResBuf) < DataBufMax
  /\ filter.FilterStart => Len(filter.win1) = Level.Cycle /\ Len(filter.win2) = Level.BufMax

(* The inductive invariant: numbers other than B are natural, points of    *)
(* the output below 2^16, filter level and windows belong together, what   *)
(* is captured for the output is within its scale.                         *)
TInv == host \in Hosts /\ ParamsTyped /\ CalibTyped /\ OutTyped /\ FilterTyped

(* The invariant gives the types.                                          *)
LEMMA TInvTypes == TInv => TypeOK
<1> SUFFICES ASSUME TInv PROVE TypeOK
  OBVIOUS
<1>1. filter.FilterStart \in BOOLEAN /\ Len(filter.DataResBuf) < DataBufMax
  BY DEF TInv, FilterTyped
<1>2. filter.FilterStart => Len(filter.win1) = Level.Cycle /\ Len(filter.win2) = Level.BufMax
  BY DEF TInv, FilterTyped
<1>3. /\ ram \in [Params -> Int] /\ flash \in [Params -> [enc : {"int", "float"}, val : Nat]]
      /\ range \in [min : Nat, max : Nat]
  BY DEF TInv, ParamsTyped
<1>4. /\ raw \in Nat /\ FilterResult \in Nat /\ dac \in 0 .. DacMax
      /\ out \in [ad : 0 .. AdcMax, daResult : 0 .. DacMax, daOut : 0 .. HalfWord - 1]
  BY DEF TInv, OutTyped
<1>5. /\ Calib \in [Kinds -> [Ends -> Nat]]
      /\ ClibFlag \in [Kinds -> SUBSET Ends] /\ session \in SUBSET Ends
      /\ ClibEn \in [Kinds -> BOOLEAN] /\ CapDA_ClibEn \in BOOLEAN
      /\ InRomWrEn \in BOOLEAN /\ Freeze \in BOOLEAN
  BY Zenon DEF TInv, CalibTyped
<1>6. host \in Hosts
  BY DEF TInv
<1> QED BY <1>1, <1>2, <1>3, <1>4, <1>5, <1>6, Zenon DEF TypeOK

(* Facts about the constants.                                              *)
LEMMA Scales ==
  /\ Word \in Nat \ {0} /\ HalfWord \in Nat \ {0} /\ AdcMax \in Nat \ {0} /\ DacMax \in Nat \ {0}
  /\ DataBufMax \in Nat \ {0} /\ Percent \in Nat \ {0} /\ FloatOne \in Nat /\ DacMax < HalfWord
BY LevelSensorAssumption, DeviceAssumption

(* Which parameters belong to which group.                                 *)
LEMMA ParamsApart ==
  /\ "FilterFactor" \in Params /\ "FilterFactor" \notin DaTable \cup AdTable \cup Limits \cup CapParams
  /\ "Correct_B" \notin DaTable \cup CapParams
  /\ DaTable \subseteq Params /\ AdTable \subseteq Params /\ CapParams \subseteq Params
  /\ DaTable \cap CapParams = {} /\ DaTable \cap Limits = {} /\ Limits \subseteq CapParams
  /\ "CompenEn" \in Params \ (AdTable \cup DaTable \cup CapParams \cup {"Correct_B"})
  /\ AdTable \cap (DaTable \cup CapParams \cup {"Correct_B"}) = {}
BY DEF Params, DaTable, AdTable, DA, AD, Limits, CapParams, TempDA

------------------------------------------------------------------------------
(* Parameters                                                              *)

(* What may be stored.                                                     *)
Proper(new) ==
  \A p \in DOMAIN new :
    /\ new[p] \in Nat
    /\ p \in DaTable => new[p] <= DacMax
    /\ p = "FilterFactor" => new[p] \in Levels

(* The cells of flash.                                                     *)
LEMMA IntCellTyped == \A v \in Nat : IntCell(v) \in [enc : {"int", "float"}, val : Nat]
BY DEF IntCell
LEMMA FloatCellTyped == \A v \in Nat : FloatCell(v) \in [enc : {"int", "float"}, val : Nat]
BY DEF FloatCell

(* A write of values of a type keeps it.                                   *)
LEMMA OverTyped ==
  ASSUME NEW S, NEW old \in [Params -> S], NEW new, \A p \in DOMAIN new : new[p] \in S
  PROVE  Over(new, old) \in [Params -> S]
BY DEF Over

(* A write of proper values keeps the parameters' types.                   *)
LEMMA WriteTyped ==
  ASSUME ParamsTyped, NEW new, NEW cells, Proper(new), DOMAIN cells = DOMAIN new,
         ram' = Over(new, ram), flash' = Over(cells, flash),
         \A p \in DOMAIN cells : cells[p] \in [enc : {"int", "float"}, val : Nat],
         range' \in [min : Nat, max : Nat]
  PROVE  ParamsTyped'
<1>1. ram' \in [Params -> Int]
  <2>1. \A p \in DOMAIN new : new[p] \in Int
    BY DEF Proper
  <2>2. ram \in [Params -> Int]
    BY DEF ParamsTyped
  <2> QED BY <2>1, <2>2, OverTyped
<1>2. flash' \in [Params -> [enc : {"int", "float"}, val : Nat]]
  BY OverTyped DEF ParamsTyped
<1>3. \A p \in Params : ram'[p] = IF p \in DOMAIN new THEN new[p] ELSE ram[p]
  BY OverAt DEF ParamsTyped
<1>4. \A p \in Params \ {"Correct_B"} : ram'[p] \in Nat
  BY <1>3 DEF ParamsTyped, Proper
<1>5. \A p \in DaTable : ram'[p] < HalfWord
  <2> SUFFICES ASSUME NEW p \in DaTable PROVE ram'[p] < HalfWord
    OBVIOUS
  <2>1. p \in Params
    BY ParamsApart
  <2>2. CASE p \in DOMAIN new
    <3>1. new[p] \in Nat /\ new[p] <= DacMax /\ ram'[p] = new[p]
      BY <1>3, <2>1, <2>2 DEF Proper
    <3> QED BY <3>1, Scales
  <2>3. CASE p \notin DOMAIN new
    BY <1>3, <2>1, <2>3 DEF ParamsTyped
  <2> QED BY <2>2, <2>3
<1>6. ram'["FilterFactor"] \in Levels
  BY <1>3, ParamsApart DEF ParamsTyped, Proper
<1> QED BY <1>1, <1>2, <1>4, <1>5, <1>6 DEF ParamsTyped

(* Storing proper values keeps the types.                                  *)
LEMMA StoreTyped ==
  ASSUME ParamsTyped, NEW new, Proper(new), Store(new), range' \in [min : Nat, max : Nat]
  PROVE  ParamsTyped'
<1> DEFINE cells == [p \in DOMAIN new |-> IntCell(new[p])]
<1>1. ram' = Over(new, ram) /\ flash' = Over(cells, flash) /\ DOMAIN cells = DOMAIN new
  BY DEF Store
<1>2. \A p \in DOMAIN cells : cells[p] \in [enc : {"int", "float"}, val : Nat]
  BY IntCellTyped DEF Proper
<1> HIDE DEF cells
<1> QED BY <1>1, <1>2, WriteTyped

(* What function 10 and 27 accept of a request.                            *)
LEMMA WrittenTyped ==
  ASSUME host \in Hosts, NEW q \in host.requests, NEW s \in Stale
  PROVE  \A p \in DOMAIN Written(q, s) : Written(q, s)[p] \in Nat /\ p \in Params
<1>1. q.val \in Nat /\ s \in Nat
  BY DeviceAssumption
<1> QED BY <1>1 DEF Written

(* Function 10 accepts proper values only, and stops the filter when it    *)
(* changes the filter's level.                                             *)
LEMMA Func10Typed ==
  ASSUME host \in Hosts, ParamsTyped, NEW q \in host.requests, ModbusFunc10(q)
  PROVE  ParamsTyped' /\ UNCHANGED calVars /\ UNCHANGED <<InRomWrEn, Freeze>>
         /\ (filter' = Stopped \/ (filter' = filter /\ ram'["FilterFactor"] = ram["FilterFactor"]))
<1>0. UNCHANGED calVars /\ UNCHANGED <<InRomWrEn, Freeze>>
  BY DEF ModbusFunc10
<1>1. CASE UNCHANGED <<paramVars, filter>>
  BY <1>0, <1>1 DEF ParamsTyped, paramVars
<1>2. CASE ~UNCHANGED <<paramVars, filter>>
  <2>1. UNCHANGED range
    BY <1>2 DEF ModbusFunc10, paramVars
  <2>2. PICK s \in Stale :
          LET w   == Written(q, s)
              new == {p \in DOMAIN w : Accepts(p, w[p])}
          IN  /\ Store([p \in new |-> w[p]])
              /\ filter' = IF "FilterFactor" \in new THEN Stopped ELSE filter
    BY <1>2 DEF ModbusFunc10
  <2> DEFINE w   == Written(q, s)
             new == [p \in {p \in DOMAIN w : Accepts(p, w[p])} |-> w[p]]
  <2>3. Store(new) /\ filter' = IF "FilterFactor" \in DOMAIN new THEN Stopped ELSE filter
    BY <2>2
  <2>4. \A p \in DOMAIN new : new[p] \in Nat /\ Accepts(p, new[p])
    BY WrittenTyped
  <2>5. Proper(new)
    <3>1. \A p, v : Accepts(p, v) => p \notin DaTable /\ (p = "FilterFactor" => v \in Levels)
      BY DEF Accepts, DaTable, DA
    <3> HIDE DEF new
    <3> QED BY <2>4, <3>1 DEF Proper
  <2> HIDE DEF new
  <2>6. ParamsTyped'
    BY <2>1, <2>3, <2>5, StoreTyped DEF ParamsTyped
  <2>7. "FilterFactor" \notin DOMAIN new => ram'["FilterFactor"] = ram["FilterFactor"]
    BY <2>3, OverAt, ParamsApart DEF Store, ParamsTyped
  <2>8. filter' = Stopped \/ (filter' = filter /\ ram'["FilterFactor"] = ram["FilterFactor"])
    BY <2>3, <2>7
  <2> QED BY <1>0, <2>6, <2>8
<1> QED BY <1>1, <1>2

(* Function 27 accepts points within the converters' scales.               *)
LEMMA Func27Typed ==
  ASSUME host \in Hosts, ParamsTyped, NEW q \in host.requests, ModbusFunc27(q)
  PROVE  ParamsTyped' /\ UNCHANGED filter /\ UNCHANGED calVars /\ UNCHANGED <<InRomWrEn, Freeze>>
         /\ ram'["FilterFactor"] = ram["FilterFactor"]
<1>0. UNCHANGED filter /\ UNCHANGED calVars /\ UNCHANGED <<InRomWrEn, Freeze>>
  BY DEF ModbusFunc27
<1>1. CASE UNCHANGED paramVars
  BY <1>0, <1>1 DEF ParamsTyped, paramVars
<1>2. CASE ~UNCHANGED paramVars
  <2>1. PICK s \in Stale :
          LET w   == Written(q, s)
              new == [p \in {p \in DOMAIN w : Accepts27(p, w[p])} |-> w[p]]
          IN  /\ ram' = Over(new, ram)
              /\ flash' = Over([p \in DOMAIN new |-> Cell27(p, new[p])], flash)
              /\ range' = RangeWith(new)
    BY <1>2 DEF ModbusFunc27
  <2> DEFINE w   == Written(q, s)
             new == [p \in {p \in DOMAIN w : Accepts27(p, w[p])} |-> w[p]]
             cells == [p \in DOMAIN new |-> Cell27(p, new[p])]
  <2>2. ram' = Over(new, ram) /\ flash' = Over(cells, flash) /\ range' = RangeWith(new)
        /\ DOMAIN cells = DOMAIN new
    BY <2>1
  <2>3. \A p \in DOMAIN new : new[p] \in Nat /\ Accepts27(p, new[p])
    BY WrittenTyped
  <2>4. \A p \in DOMAIN cells : cells[p] = Cell27(p, new[p])
    OBVIOUS
  <2> HIDE DEF new, cells
  <2>5. Proper(new) /\ "FilterFactor" \notin DOMAIN new
    <3>1. \A p, v : Accepts27(p, v) => p # "FilterFactor" /\ (p \in DaTable => v <= DacMax)
      BY ParamsApart DEF Accepts27, AdTable, AD, DaTable, DA, Limits
    <3> QED BY <2>3, <3>1 DEF Proper
  <2>6. \A p \in DOMAIN cells : cells[p] \in [enc : {"int", "float"}, val : Nat]
    BY <2>2, <2>3, <2>4, IntCellTyped, FloatCellTyped DEF Cell27
  <2>7. range' \in [min : Nat, max : Nat]
    BY <2>2, <2>3 DEF RangeWith, ParamsTyped
  <2>8. ParamsTyped'
    BY <2>2, <2>5, <2>6, <2>7, WriteTyped
  <2>9. ram'["FilterFactor"] = ram["FilterFactor"]
    BY <2>2, <2>5, OverAt, ParamsApart DEF ParamsTyped
  <2> QED BY <1>0, <2>8, <2>9
<1> QED BY <1>1, <1>2

(* A pair of limits leaves other parameters alone.                         *)
LEMMA CapWriteTyped ==
  ASSUME ParamsTyped, NEW c \in [Ends -> Nat], MB_Cap_Calibration(c)
  PROVE  ParamsTyped' /\ ram'["FilterFactor"] = ram["FilterFactor"]
<1>1. CASE UNCHANGED paramVars
  BY <1>1 DEF ParamsTyped, paramVars
<1>2. CASE Store(CapPair(c)) /\ range' = RangeOf(c)
  <2> DEFINE new == CapPair(c)
  <2>0. c.Min \in Nat /\ c.Max \in Nat
    BY DEF Ends
  <2>1. DOMAIN new \subseteq CapParams /\ \A p \in DOMAIN new : new[p] \in Nat
    BY <2>0 DEF CapPair, CapParams
  <2>2. range' \in [min : Nat, max : Nat]
    BY <1>2, <2>0 DEF RangeOf
  <2>3. Store(new)
    BY <1>2
  <2> HIDE DEF new
  <2>4. Proper(new) /\ "FilterFactor" \notin DOMAIN new
    BY <2>1, ParamsApart DEF Proper
  <2>5. ParamsTyped'
    BY <2>2, <2>3, <2>4, StoreTyped
  <2>6. ram'["FilterFactor"] = ram["FilterFactor"]
    BY <2>3, <2>4, OverAt, ParamsApart DEF Store, ParamsTyped
  <2> QED BY <2>5, <2>6
<1> QED BY <1>1, <1>2 DEF MB_Cap_Calibration

(* Kinds of calibration.                                                   *)
LEMMA KindsAre == "cap" \in Kinds /\ "da" \in Kinds /\ "da" # "cap"
BY DEF Kinds

(* A switch is on or off.                                                  *)
LEMMA FreezeTyped == \A q : On(q) \in BOOLEAN
BY DEF On

(* Ends captured for one kind; those of the analogue output stay below the *)
(* converter's largest value.                                              *)
LEMMA CalibSet ==
  ASSUME NEW k \in Kinds, NEW c \in [Ends -> Nat],
         Calib \in [Kinds -> [Ends -> Nat]], \A e \in Ends : Calib["da"][e] <= DacMax,
         k = "da" => \A e \in Ends : c[e] <= DacMax,
         Calib' = [Calib EXCEPT ![k] = c]
  PROVE  Calib' \in [Kinds -> [Ends -> Nat]] /\ \A e \in Ends : Calib'["da"][e] <= DacMax
<1>1. Calib' \in [Kinds -> [Ends -> Nat]]
  OBVIOUS
<1>2. Calib'["da"] = IF k = "da" THEN c ELSE Calib["da"]
  BY KindsAre
<1> QED BY <1>1, <1>2

(* Function 05: captured ends are measurements or stored limits.           *)
LEMMA Func05Typed ==
  ASSUME TInv, NEW q, ModbusFunc05(q)
  PROVE  ParamsTyped' /\ CalibTyped' /\ UNCHANGED filter /\ ram'["FilterFactor"] = ram["FilterFactor"]
<1>0. /\ UNCHANGED filter /\ ClibEn' = ClibEn /\ CapDA_ClibEn' = CapDA_ClibEn /\ session' = session
      /\ Ends = {"Min", "Low", "High", "Max"}
  BY DEF ModbusFunc05, Ends
<1>00. ParamsTyped /\ CalibTyped /\ raw \in Nat
  BY DEF TInv, OutTyped
<1>a. /\ ClibEn' \in [Kinds -> BOOLEAN] /\ session' \in SUBSET Ends /\ CapDA_ClibEn' \in BOOLEAN
  BY <1>0, <1>00, Zenon DEF CalibTyped
<1>1. InRomWrEn' \in BOOLEAN /\ Freeze' \in BOOLEAN
  <2>1. InRomWrEn' = InRomWrEn \/ InRomWrEn' = On(q)
    BY DEF ModbusFunc05
  <2>2. Freeze' = Freeze \/ Freeze' = On(q)
    BY DEF ModbusFunc05
  <2>3. InRomWrEn \in BOOLEAN /\ Freeze \in BOOLEAN
    BY <1>00, Zenon DEF CalibTyped
  <2> QED BY <2>1, <2>2, <2>3, FreezeTyped, Zenon
<1>b. /\ Calib \in [Kinds -> [Ends -> Nat]] /\ \A e \in Ends : Calib["da"][e] <= DacMax
      /\ ClibFlag \in [Kinds -> SUBSET Ends]
  BY <1>00 DEF CalibTyped
<1> DEFINE Goal == /\ ParamsTyped' /\ ram'["FilterFactor"] = ram["FilterFactor"]
                   /\ Calib' \in [Kinds -> [Ends -> Nat]] /\ \A e \in Ends : Calib'["da"][e] <= DacMax
                   /\ ClibFlag' \in [Kinds -> SUBSET Ends]
<1>2. ASSUME UNCHANGED <<paramVars, Calib, ClibFlag>>
      PROVE  Goal
  BY <1>2, <1>00, <1>b DEF ParamsTyped, paramVars
<1>3. ASSUME NEW e \in Ends, CaptureCap(e)
      PROVE  Goal
  <2> DEFINE c == [Calib["cap"] EXCEPT ![e] = raw]
  <2>1. c \in [Ends -> Nat]
    BY <1>00, <1>b, KindsAre
  <2>2. Calib' = [Calib EXCEPT !["cap"] = c]
    BY <1>3 DEF CaptureCap
  <2>3. MB_Cap_Calibration(c) \/ UNCHANGED paramVars
    BY <1>3 DEF CaptureCap
  <2>4. \E f \in SUBSET Ends : ClibFlag' = [ClibFlag EXCEPT !["cap"] = f]
    BY <1>3, <1>b, KindsAre DEF CaptureCap
  <2> HIDE DEF c
  <2>5. ParamsTyped' /\ ram'["FilterFactor"] = ram["FilterFactor"]
    <3>1. CASE MB_Cap_Calibration(c)
      BY <1>00, <2>1, <3>1, CapWriteTyped
    <3>2. CASE UNCHANGED paramVars
      BY <1>00, <3>2 DEF ParamsTyped, paramVars
    <3> QED BY <2>3, <3>1, <3>2
  <2>6. ClibFlag' \in [Kinds -> SUBSET Ends]
    BY <1>b, <2>4
  <2>7. Calib' \in [Kinds -> [Ends -> Nat]] /\ \A x \in Ends : Calib'["da"][x] <= DacMax
    <3>1. "cap" # "da" /\ "cap" \in Kinds
      BY KindsAre
    <3> QED BY <1>b, <2>1, <2>2, <3>1, CalibSet
  <2> QED BY <2>5, <2>6, <2>7
<1>4. ASSUME RestoreCap
      PROVE  Goal
  <2> DEFINE c == [Calib["cap"] EXCEPT !["Min"] = ram["CapMinBak"], !["Max"] = ram["CapMaxBak"]]
  <2>0. ram["CapMinBak"] \in Nat /\ ram["CapMaxBak"] \in Nat
    BY <1>00 DEF ParamsTyped, Params, CapParams
  <2>1. c \in [Ends -> Nat]
    BY <1>b, <2>0, KindsAre
  <2>2. Calib' = [Calib EXCEPT !["cap"] = c] /\ MB_Cap_Calibration(c) /\ ClibFlag' = ClibFlag
    BY <1>4 DEF RestoreCap
  <2> HIDE DEF c
  <2>3. ParamsTyped' /\ ram'["FilterFactor"] = ram["FilterFactor"]
    BY <1>00, <2>1, <2>2, CapWriteTyped
  <2>4. Calib' \in [Kinds -> [Ends -> Nat]] /\ \A x \in Ends : Calib'["da"][x] <= DacMax
    <3>1. "cap" # "da" /\ "cap" \in Kinds
      BY KindsAre
    <3> QED BY <1>b, <2>1, <2>2, <3>1, CalibSet
  <2> QED BY <1>b, <2>2, <2>3, <2>4
<1>5. \/ UNCHANGED <<paramVars, Calib, ClibFlag>>
      \/ \E e \in Ends : CaptureCap(e)
      \/ RestoreCap
  BY <1>0 DEF ModbusFunc05
<1>6. Goal
  <2> HIDE DEF Goal
  <2> QED BY <1>2, <1>3, <1>4, <1>5
<1>7. CalibTyped'
  BY <1>a, <1>1, <1>6, Zenon DEF CalibTyped
<1> QED BY <1>0, <1>6, <1>7

Calibrated == {"ad", "da", "temp"}

(* Ends of each kind, and which tables their parameters are in.            *)
LEMMA TablesAre ==
  /\ \A k \in Calibrated : DOMAIN TableOf[k] \subseteq Ends
  /\ \A k \in Calibrated : "FilterFactor" \notin TableParams(k) /\ "CompenEn" \notin TableParams(k)
  /\ \A k \in Calibrated : TableParams(k) \cap CapParams = {}
  /\ \A k \in {"ad", "temp"} : TableParams(k) \cap DaTable = {}
  /\ Calibrated \subseteq Kinds
<1>1. \A k \in Calibrated : DOMAIN TableOf[k] \subseteq Ends
  BY DEF Calibrated, TableOf, Ends
<1>2. \A k \in Calibrated : "FilterFactor" \notin TableParams(k) /\ "CompenEn" \notin TableParams(k)
  BY DEF Calibrated, TableOf, TableParams, AD, DA, TempDA
<1>3. \A k \in Calibrated : TableParams(k) \cap CapParams = {}
  BY DEF Calibrated, TableOf, TableParams, AD, DA, TempDA, CapParams
<1>4. \A k \in {"ad", "temp"} : TableParams(k) \cap DaTable = {}
  BY DEF Calibrated, TableOf, TableParams, AD, DA, TempDA, DaTable
<1>5. Calibrated \subseteq Kinds
  BY DEF Calibrated, Kinds
<1> QED BY <1>1, <1>2, <1>3, <1>4, <1>5

(* Every parameter of a table has an end it comes from.                    *)
LEMMA EndOfTable ==
  ASSUME NEW k \in Calibrated, NEW p \in TableParams(k)
  PROVE  EndOf(k, p) \in Ends /\ TableOf[k][EndOf(k, p)] = p
<1>1. \E e \in DOMAIN TableOf[k] : TableOf[k][e] = p
  BY DEF TableParams
<1>2. EndOf(k, p) \in DOMAIN TableOf[k] /\ TableOf[k][EndOf(k, p)] = p
  BY <1>1 DEF EndOf
<1> QED BY <1>2, TablesAre

(* The points stored are captured ends or zero.                            *)
LEMMA PointsTyped ==
  ASSUME NEW k, NEW f, NEW c \in [Ends -> Nat], k = "da" => \A e \in Ends : c[e] <= DacMax
  PROVE  /\ Points(k, f, c) \in [Ends -> Nat]
         /\ k = "da" => \A e \in Ends : Points(k, f, c)[e] <= DacMax
<1> DEFINE z == [c EXCEPT !["Low"] = 0, !["High"] = 0]
<1>1. z \in [Ends -> Nat] /\ \A e \in Ends : z[e] = 0 \/ z[e] = c[e]
  OBVIOUS
<1>2. Points(k, f, c) = z \/ Points(k, f, c) = c
  BY DEF Points
<1> HIDE DEF z
<1>3. \A e \in Ends : Points(k, f, c)[e] = 0 \/ Points(k, f, c)[e] = c[e]
  BY <1>1, <1>2
<1>4. Points(k, f, c) \in [Ends -> Nat]
  BY <1>1, <1>2
<1> QED BY <1>3, <1>4, Scales

(* A calibration that ends stores proper points.                           *)
LEMMA CalibrationTyped ==
  ASSUME ParamsTyped, NEW k \in Calibrated, NEW f, NEW c \in [Ends -> Nat],
         k = "da" => \A e \in Ends : c[e] <= DacMax,
         Calib \in [Kinds -> [Ends -> Nat]], \A e \in Ends : Calib["da"][e] <= DacMax,
         Calibration(k, f, c)
  PROVE  /\ ParamsTyped' /\ ram'["FilterFactor"] = ram["FilterFactor"]
         /\ Calib' \in [Kinds -> [Ends -> Nat]] /\ \A e \in Ends : Calib'["da"][e] <= DacMax
<1> DEFINE pts == Points(k, f, c)
           new == [p \in TableParams(k) |-> pts[EndOf(k, p)]]
<1>0. range' = range
  BY DEF Calibration
<1>1. CASE ~Acceptable(k, f, c)
  <2>1. UNCHANGED <<ram, flash, Calib>>
    BY <1>1 DEF Calibration
  <2> QED BY <1>0, <2>1 DEF ParamsTyped
<1>2. CASE Acceptable(k, f, c)
  <2>1. Store(new) /\ Calib' = [Calib EXCEPT ![k] = pts]
    BY <1>2 DEF Calibration
  <2>2. pts \in [Ends -> Nat] /\ (k = "da" => \A e \in Ends : pts[e] <= DacMax)
    BY PointsTyped
  <2> HIDE DEF pts
  <2>3. ASSUME NEW p \in DOMAIN new
        PROVE  new[p] \in Nat /\ (p \in DaTable => new[p] <= DacMax) /\ p # "FilterFactor"
    <3>1. p \in TableParams(k) /\ new[p] = pts[EndOf(k, p)] /\ EndOf(k, p) \in Ends
      BY EndOfTable
    <3>2. p \in DaTable => k = "da"
      BY <3>1, TablesAre DEF Calibrated
    <3>3. p # "FilterFactor"
      BY <3>1, TablesAre
    <3> QED BY <2>2, <3>1, <3>2, <3>3
  <2> HIDE DEF new
  <2>4. Proper(new) /\ "FilterFactor" \notin DOMAIN new
    BY <2>3 DEF Proper
  <2>5. range' \in [min : Nat, max : Nat]
    BY <1>0 DEF ParamsTyped
  <2>6. ParamsTyped'
    BY <2>1, <2>4, <2>5, StoreTyped
  <2>7. ram'["FilterFactor"] = ram["FilterFactor"]
    BY <2>1, <2>4, OverAt, ParamsApart DEF Store, ParamsTyped
  <2>8. Calib' \in [Kinds -> [Ends -> Nat]] /\ \A e \in Ends : Calib'["da"][e] <= DacMax
    <3>1. k \in Kinds
      BY TablesAre
    <3> QED BY <2>1, <2>2, <3>1, CalibSet
  <2> QED BY <2>6, <2>7, <2>8
<1> QED BY <1>1, <1>2

(* Enabling and disabling a calibration.                                   *)
LEMMA SetEnabledTyped ==
  ASSUME TInv, NEW k \in Calibrated, NEW on \in BOOLEAN, SetEnabled(k, on), UNCHANGED <<InRomWrEn, Freeze>>
  PROVE  ParamsTyped' /\ CalibTyped' /\ ram'["FilterFactor"] = ram["FilterFactor"]
<1> DEFINE f == FlagAfter(k, on)
<1>0. ParamsTyped /\ CalibTyped /\ k \in Kinds
  BY TablesAre DEF TInv
<1>1. /\ Calib \in [Kinds -> [Ends -> Nat]] /\ \A e \in Ends : Calib["da"][e] <= DacMax
      /\ ClibFlag \in [Kinds -> SUBSET Ends] /\ session \in SUBSET Ends
  BY <1>0 DEF CalibTyped
<1>2. ClibEn \in [Kinds -> BOOLEAN]
  BY <1>0 DEF CalibTyped
<1>3. CapDA_ClibEn \in BOOLEAN /\ InRomWrEn' \in BOOLEAN /\ Freeze' \in BOOLEAN
  BY <1>0, Zenon DEF CalibTyped
<1>4. f \in SUBSET Ends
  BY <1>0, <1>1 DEF FlagAfter
<1>5. session' \in SUBSET Ends
  BY <1>1 DEF SetEnabled
<1>6. ClibEn' \in [Kinds -> BOOLEAN]
  BY <1>0, <1>2 DEF SetEnabled
<1>7. CapDA_ClibEn' \in BOOLEAN
  <2>1. CapDA_ClibEn' = on \/ CapDA_ClibEn' = CapDA_ClibEn
    BY DEF SetEnabled
  <2> QED BY <1>3, <2>1, Zenon
<1>8. ClibFlag' \in [Kinds -> SUBSET Ends]
  <2>1. ClibFlag' = [ClibFlag EXCEPT ![k] = {}] \/ ClibFlag' = [ClibFlag EXCEPT ![k] = f]
    BY DEF SetEnabled
  <2> HIDE DEF f
  <2> QED BY <1>0, <1>1, <1>4, <2>1
<1>9. /\ ParamsTyped' /\ ram'["FilterFactor"] = ram["FilterFactor"]
      /\ Calib' \in [Kinds -> [Ends -> Nat]] /\ \A e \in Ends : Calib'["da"][e] <= DacMax
  <2>1. Calibration(k, f, Calib[k]) \/ UNCHANGED <<paramVars, Calib>>
    BY DEF SetEnabled
  <2>2. CASE UNCHANGED <<paramVars, Calib>>
    BY <1>0, <1>1, <2>2 DEF ParamsTyped, paramVars
  <2>3. CASE Calibration(k, f, Calib[k])
    <3>1. Calib[k] \in [Ends -> Nat] /\ (k = "da" => \A e \in Ends : Calib[k][e] <= DacMax)
      BY <1>0, <1>1
    <3> QED BY <1>0, <1>1, <2>3, <3>1, CalibrationTyped
  <2> QED BY <2>1, <2>2, <2>3
<1>10. CalibTyped'
  BY <1>3, <1>5, <1>6, <1>7, <1>8, <1>9, Zenon DEF CalibTyped
<1> QED BY <1>9, <1>10

(* Capturing what the chain shows at the moment.                           *)
LEMMA CaptureTyped ==
  ASSUME TInv, NEW k \in Calibrated, NEW e \in Ends, Capture(k, e), UNCHANGED <<InRomWrEn, Freeze>>
  PROVE  ParamsTyped' /\ CalibTyped' /\ ram'["FilterFactor"] = ram["FilterFactor"]
<1>0. ParamsTyped /\ CalibTyped /\ OutTyped /\ k \in Kinds
  BY TablesAre DEF TInv
<1>1. /\ Calib \in [Kinds -> [Ends -> Nat]] /\ \A x \in Ends : Calib["da"][x] <= DacMax
      /\ ClibFlag \in [Kinds -> SUBSET Ends] /\ session \in SUBSET Ends
  BY <1>0 DEF CalibTyped
<1>2. UNCHANGED <<ram, flash, range>> /\ ClibEn' = ClibEn /\ CapDA_ClibEn' = CapDA_ClibEn
  BY DEF Capture, paramVars
<1>3. ParamsTyped' /\ ram'["FilterFactor"] = ram["FilterFactor"]
  BY <1>0, <1>2 DEF ParamsTyped
<1>4. ClibEn' \in [Kinds -> BOOLEAN] /\ CapDA_ClibEn' \in BOOLEAN /\ InRomWrEn' \in BOOLEAN /\ Freeze' \in BOOLEAN
  BY <1>0, <1>2, Zenon DEF CalibTyped
<1>5. ClibFlag' \in [Kinds -> SUBSET Ends] /\ session' \in SUBSET Ends
  <2>1. CASE Enabled(k)
    <3>1. ClibFlag' = [ClibFlag EXCEPT ![k] = @ \cup {e}] /\ session' = IF k = "ad" THEN session \cup {e} ELSE session
      BY <2>1 DEF Capture
    <3> QED BY <1>0, <1>1, <3>1
  <2>2. CASE ~Enabled(k)
    BY <1>1, <2>2 DEF Capture
  <2> QED BY <2>1, <2>2
<1>6. Calib' \in [Kinds -> [Ends -> Nat]] /\ \A x \in Ends : Calib'["da"][x] <= DacMax
  <2>1. CASE ~Enabled(k)
    BY <1>1, <2>1 DEF Capture
  <2>2. CASE Enabled(k)
    <3> DEFINE c == [Calib[k] EXCEPT ![e] = Reading(k)]
    <3>1. Calib' = [Calib EXCEPT ![k][e] = Reading(k)]
      BY <2>2 DEF Capture
    <3>2. Reading(k) \in Nat /\ (k = "da" => Reading(k) <= DacMax)
      <4>1. out.ad \in Nat /\ out.daResult \in 0 .. DacMax
        BY <1>0, Scales DEF OutTyped
      <4> QED BY <4>1, Scales DEF Reading, TemperInAirAD
    <3>3. Calib[k] \in [Ends -> Nat]
      BY <1>0, <1>1
    <3>4. c \in [Ends -> Nat]
      BY <3>2, <3>3
    <3>5. k = "da" => \A x \in Ends : c[x] <= DacMax
      <4>1. \A x \in Ends : c[x] = Reading(k) \/ c[x] = Calib[k][x]
        BY <3>3
      <4> QED BY <1>1, <3>2, <4>1
    <3>6. Calib' = [Calib EXCEPT ![k] = c]
      BY <1>0, <1>1, <3>1
    <3> HIDE DEF c
    <3> QED BY <1>0, <1>1, <3>4, <3>5, <3>6, CalibSet
  <2> QED BY <2>1, <2>2
<1>7. CalibTyped'
  BY <1>4, <1>5, <1>6, Zenon DEF CalibTyped
<1> QED BY <1>3, <1>7

(* Function 25, whatever the register.                                     *)
LEMMA Func25Typed ==
  ASSUME TInv, NEW q, ModbusFunc25(q)
  PROVE  ParamsTyped' /\ CalibTyped' /\ UNCHANGED filter /\ ram'["FilterFactor"] = ram["FilterFactor"]
<1>0. UNCHANGED filter /\ UNCHANGED <<InRomWrEn, Freeze>>
  BY DEF ModbusFunc25
<1>1. CASE UNCHANGED <<paramVars, calVars>>
  <2>1. ParamsTyped' /\ ram'["FilterFactor"] = ram["FilterFactor"]
    BY <1>1 DEF TInv, ParamsTyped, paramVars
  <2>2. CalibTyped'
    <3>1. CalibTyped
      BY DEF TInv
    <3> QED BY <1>0, <1>1, <3>1, Zenon DEF CalibTyped, calVars
  <2> QED BY <1>0, <2>1, <2>2
<1>2. CASE q.reg \in DOMAIN Enables /\ SetEnabled(Enables[q.reg], On(q))
  <2>1. Enables[q.reg] \in Calibrated
    BY <1>2 DEF Enables, Calibrated
  <2> QED BY <1>0, <1>2, <2>1, FreezeTyped, SetEnabledTyped
<1>3. CASE \E k \in Calibrated, e \in Ends : Capture(k, e)
  BY <1>0, <1>3, CaptureTyped
<1>4. q.reg \in DOMAIN Captures =>
        /\ Captures[q.reg][1] \in Calibrated
        /\ Captures[q.reg][2] \in Ends /\ Captures[q.reg][3] \in Ends
  BY DEF Captures, Ends, Calibrated
<1> QED BY <1>1, <1>2, <1>3, <1>4 DEF ModbusFunc25

(* What a start loads is what was in use, but for a float and B.           *)
LEMMA RestartKeeps ==
  ASSUME PInv, Restart
  PROVE  \A p \in Params \ (Limits \cup {"Correct_B"}) : ram'[p] = ram[p]
BY DEF Restart, Loaded, PInv, ReloadSame, Reloads

(* What a start makes of a cell is a number, a natural one but for B.      *)
LEMMA LoadTyped ==
  ASSUME NEW p, NEW cell \in [enc : {"int", "float"}, val : Nat]
  PROVE  Load(p, cell) \in Int /\ (p # "Correct_B" => Load(p, cell) \in Nat)
<1>1. FloatBits(cell.val) \in Nat
  BY Scales DEF FloatBits
<1> QED BY <1>1, Scales DEF Load

(* The same of all cells.                                                  *)
LEMMA LoadedTyped ==
  ASSUME NEW cells \in [Params -> [enc : {"int", "float"}, val : Nat]]
  PROVE  Loaded(cells) \in [Params -> Int] /\ \A p \in Params \ {"Correct_B"} : Loaded(cells)[p] \in Nat
<1>1. \A p \in Params : Load(p, cells[p]) \in Int /\ (p # "Correct_B" => Load(p, cells[p]) \in Nat)
  BY LoadTyped
<1> QED BY <1>1 DEF Loaded

(* The filter while it is stopped.                                         *)
LEMMA StoppedTyped ==
  /\ Stopped \in [FilterStart : BOOLEAN, DataResBuf : Nats, win1 : Nats, win2 : Nats]
  /\ Stopped.FilterStart = FALSE /\ Len(Stopped.DataResBuf) = 0
BY DEF Stopped, Nats

(* What the analogue output shows after a start.                           *)
LEMMA StartOut ==
  ASSUME \E r \in {0, 1} : out' = [ad |-> r * AdcMax, daResult |-> r * DacMax, daOut |-> 0]
  PROVE  out' \in [ad : 0 .. AdcMax, daResult : 0 .. DacMax, daOut : 0 .. HalfWord - 1]
<1>1. PICK r \in {0, 1} : out' = [ad |-> r * AdcMax, daResult |-> r * DacMax, daOut |-> 0]
  OBVIOUS
<1>2. r * AdcMax \in 0 .. AdcMax /\ r * DacMax \in 0 .. DacMax /\ 0 \in 0 .. HalfWord - 1
  BY Scales
<1> QED BY <1>1, <1>2

(* Nothing is captured after a start.                                      *)
LEMMA NewCalibTyped ==
  ASSUME NEW c, NEW g, NEW n, c = NoneCaptured([e \in Ends |-> 0]), g = NoneCaptured({}), n = NoneCaptured(FALSE)
  PROVE  /\ c \in [Kinds -> [Ends -> Nat]] /\ \A e \in Ends : c["da"][e] <= DacMax
         /\ g \in [Kinds -> SUBSET Ends] /\ n \in [Kinds -> BOOLEAN]
BY Scales, KindsAre DEF NoneCaptured

(* A restart keeps the types: tables and filter level are loaded as they   *)
(* were in use.                                                            *)
LEMMA RestartTyped ==
  ASSUME TInv, PInv, Restart
  PROVE  TInv'
<1>1. ParamsTyped'
  <2>1. ParamsTyped
    BY DEF TInv
  <2>2. ram' = Loaded(flash) /\ flash' = flash /\ flash \in [Params -> [enc : {"int", "float"}, val : Nat]]
    BY <2>1 DEF Restart, ParamsTyped
  <2>3. ram' \in [Params -> Int] /\ \A p \in Params \ {"Correct_B"} : ram'[p] \in Nat
    BY <2>2, LoadedTyped
  <2>4. range' \in [min : Nat, max : Nat]
    <3>1. "CapMin" \in Params \ {"Correct_B"} /\ "CapMax" \in Params \ {"Correct_B"}
      BY LimitsAreParams DEF Limits
    <3>2. range' = [min |-> ram'["CapMin"], max |-> ram'["CapMax"]]
      BY DEF Restart
    <3> QED BY <2>3, <3>1, <3>2
  <2>5. (\A p \in DaTable : ram'[p] < HalfWord) /\ ram'["FilterFactor"] \in Levels
    BY <2>1, RestartKeeps, ParamsApart DEF ParamsTyped
  <2> QED BY <2>2, <2>3, <2>4, <2>5 DEF ParamsTyped
<1>2. CalibTyped'
  <2>1. Calib' = NoneCaptured([e \in Ends |-> 0]) /\ ClibFlag' = NoneCaptured({}) /\ ClibEn' = NoneCaptured(FALSE)
    BY DEF Restart
  <2>2. CapDA_ClibEn' = FALSE /\ InRomWrEn' = FALSE /\ Freeze' = FALSE /\ session' = {}
    BY DEF Restart
  <2>3. /\ Calib' \in [Kinds -> [Ends -> Nat]] /\ \A e \in Ends : Calib'["da"][e] <= DacMax
        /\ ClibFlag' \in [Kinds -> SUBSET Ends] /\ ClibEn' \in [Kinds -> BOOLEAN]
    BY <2>1, NewCalibTyped
  <2> QED BY <2>2, <2>3, Zenon DEF CalibTyped
<1>3. OutTyped'
  <2>1. raw' \in Nat /\ FilterResult' = 0 /\ dac' = 0
    <3>1. raw' \in host.values /\ host.values \subseteq 0 .. Word - 1 /\ FilterResult' = 0 /\ dac' = 0
      BY DeviceAssumption DEF Restart, TInv
    <3> QED BY <3>1, Scales
  <2>2. out' \in [ad : 0 .. AdcMax, daResult : 0 .. DacMax, daOut : 0 .. HalfWord - 1]
    BY StartOut DEF Restart
  <2> QED BY <2>1, <2>2, Scales DEF OutTyped
<1>4. FilterTyped'
  <2>1. filter' = Stopped
    BY DEF Restart
  <2> QED BY <2>1, StoppedTyped, Scales DEF FilterTyped
<1>5. host' \in Hosts
  BY DEF Restart, TInv
<1> QED BY <1>1, <1>2, <1>3, <1>4, <1>5 DEF TInv

------------------------------------------------------------------------------
(* Averages                                                                *)

(* An average of natural numbers is one; no division by zero.              *)
LEMMA AverageNat ==
  ASSUME NEW a \in Seq(Nat), NEW head \in Nat, NEW tail \in Nat
  PROVE  GetAverage(a, head, tail) \in Nat
<1>1. CASE head + tail >= Len(a)
  BY <1>1 DEF GetAverage
<1>2. CASE ~(head + tail >= Len(a))
  <2> DEFINE m == SubSeq(a, head + 1, Len(a) - tail)
             d == Len(a) - head - tail
  <2>0. Len(a) \in Nat
    OBVIOUS
  <2>1. m \in Seq(Nat)
    <3>1. \A i \in head + 1 .. Len(a) - tail : i \in 1 .. Len(a)
      BY <2>0
    <3> QED BY <2>0, <3>1
  <2>2. d \in Nat \ {0}
    BY <1>2, <2>0
  <2>3. Total(m) \in Nat
    <3> HIDE DEF m
    <3>1. SumOf(m) \in Nat
      BY <2>1, SumNat
    <3> QED BY <3>1 DEF Total, SumOf
  <2>4. GetAverage(a, head, tail) = Total(m) \div d
    BY <1>2 DEF GetAverage
  <2> HIDE DEF m, d
  <2> QED BY <2>2, <2>3, <2>4
<1> QED BY <1>1, <1>2

Cells(n) == [1 .. n -> Nat]

(* A step of the sort exchanges cells or not.                              *)
LEMMA ExchangeTyped ==
  ASSUME NEW n \in Nat, NEW a \in Cells(n), NEW j \in 1 .. n - 1
  PROVE  Exchange(a, j) \in Cells(n)
<1>1. j \in 1 .. n /\ j + 1 \in 1 .. n
  OBVIOUS
<1>2. a[j] \in Nat /\ a[j + 1] \in Nat
  BY <1>1 DEF Cells
<1> QED BY <1>1, <1>2 DEF Exchange, Cells

(* t has the cells before and after each step of a pass.                   *)
PassRun(t, n, a, m, places) ==
  /\ t \in [0 .. m -> Cells(n)] /\ t[0] = a
  /\ \A i \in 1 .. m : t[i] = Exchange(t[i - 1], places[i])

(* A pass is a fold of such steps over its places.                         *)
LEMMA PassSteps ==
  ASSUME NEW n \in Nat, NEW a \in Cells(n), NEW m \in Nat, NEW places \in [1 .. m -> 1 .. n - 1]
  PROVE  \E t : PassRun(t, n, a, m, places) /\ Pass(a, places) = t[m]
<1> DEFINE S == Cells(n)
           T == 1 .. n - 1
           F == [p \in S \X T |-> Exchange(p[1], p[2])]
           E(f, s) == IF s = {} THEN a ELSE Exchange(f[s \ {Max(s)}], places[Max(s)])
           Eq(f) == f = [s \in SUBSET (1 .. m) |-> E(f, s)]
           h == CHOOSE f : Eq(f)
<1>0. DOMAIN places = 1 .. m
  OBVIOUS
<1>1. PICK g \in [SUBSET (1 .. m) -> S] : Folds(g, F, a, places)
  <2>1. F \in [S \X T -> S]
    BY ExchangeTyped
  <2> HIDE DEF F, S
  <2>2. a \in S /\ places \in [1 .. m -> T]
    BY DEF S
  <2> HIDE DEF T
  <2> QED BY <2>1, <2>2, FoldExists
<1>2. Eq(g)
  <2> DEFINE G(s) == IF s = {} THEN a ELSE F[<<g[s \ {Max(s)}], places[Max(s)]>>]
  <2>1. ASSUME NEW s \in SUBSET (1 .. m)
        PROVE  G(s) = E(g, s)
    <3>1. s # {} => places[Max(s)] \in T
      BY MaxOfSubset
    <3>2. g[s \ {Max(s)}] \in S
      BY <1>1
    <3>3. s # {} => F[<<g[s \ {Max(s)}], places[Max(s)]>>] = Exchange(g[s \ {Max(s)}], places[Max(s)])
      <4> HIDE DEF S, T
      <4> QED BY <3>1, <3>2
    <3> HIDE DEF F
    <3> QED BY <3>3
  <2>2. g = [s \in SUBSET (1 .. m) |-> G(s)]
    BY <1>0, <1>1, Zenon DEF Folds
  <2> HIDE DEF E, G
  <2> QED BY <2>1, <2>2, Zenon
<1>3. Eq(h)
  <2> HIDE DEF Eq
  <2> QED BY <1>2, Zenon
<1>4. Pass(a, places) = h[1 .. m]
  BY <1>0, Zenon DEF Pass, FoldLeft, MapThenFoldSet
<1> HIDE DEF h
<1>5. \A s \in SUBSET (1 .. m) : h[s] = E(h, s)
  <2> HIDE DEF E
  <2> QED BY <1>3, Zenon
<1>6. h[1 .. 0] = a
  BY <1>5, FoldPlaces
<1>7. ASSUME NEW i \in 1 .. m PROVE h[1 .. i] = Exchange(h[1 .. i - 1], places[i])
  BY <1>5, FoldPlaces
<1>8. ASSUME NEW i \in 1 .. m, h[1 .. i - 1] \in S PROVE h[1 .. i] \in S
  <2>1. places[i] \in 1 .. n - 1
    OBVIOUS
  <2> QED BY <1>7, <1>8, <2>1, ExchangeTyped
<1> DEFINE t == [i \in 0 .. m |-> h[1 .. i]]
<1>9. \A i \in 0 .. m : h[1 .. i] \in S
  BY <1>6, <1>8, FoldKeeps DEF S
<1>10. t \in [0 .. m -> S]
  <2> HIDE DEF S
  <2> QED BY <1>9
<1>11. t[0] = a /\ t[m] = h[1 .. m] /\ \A i \in 1 .. m : t[i] = Exchange(t[i - 1], places[i])
  <2>1. 0 \in 0 .. m /\ m \in 0 .. m /\ \A i \in 1 .. m : i \in 0 .. m /\ i - 1 \in 0 .. m
    OBVIOUS
  <2>2. \A i \in 0 .. m : t[i] = h[1 .. i]
    OBVIOUS
  <2> HIDE DEF t
  <2> QED BY <1>6, <1>7, <2>1, <2>2
<1> HIDE DEF t, S
<1>12. Pass(a, places) = t[m]
  BY <1>4, <1>11
<1>13. PassRun(t, n, a, m, places)
  BY <1>10, <1>11 DEF PassRun, S
<1> QED BY <1>12, <1>13

(* So a pass keeps the cells in number and type.                           *)
LEMMA PassTyped ==
  ASSUME NEW n \in Nat, NEW a \in Cells(n), NEW m \in Nat, NEW places \in [1 .. m -> 1 .. n - 1]
  PROVE  Pass(a, places) \in Cells(n)
<1>1. PICK t : PassRun(t, n, a, m, places) /\ Pass(a, places) = t[m]
  BY PassSteps
<1>2. m \in 0 .. m
  OBVIOUS
<1> QED BY <1>1, <1>2 DEF PassRun

(* A pass upward stays within the cells.                                   *)
LEMMA UpwardTyped ==
  ASSUME NEW n \in Nat, NEW b \in Cells(n), NEW i \in Nat, i > 0
  PROVE  Pass(b, Upward(n - i + 1)) \in Cells(n)
<1> DEFINE u == Upward(n - i + 1)
<1>1. \E m \in Nat : u \in [1 .. m -> 1 .. n - 1]
  <2> DEFINE k == n - i
  <2>1. k \in Int /\ k <= n - 1 /\ n - i + 1 - 1 = k
    OBVIOUS
  <2>2. u = [j \in 1 .. k |-> j]
    BY <2>1 DEF Upward
  <2> HIDE DEF u, k
  <2>3. CASE k >= 0
    <3>1. u \in [1 .. k -> 1 .. n - 1] /\ k \in Nat
      BY <2>1, <2>2, <2>3
    <3> QED BY <3>1
  <2>4. CASE k < 0
    <3>1. 1 .. k = 1 .. 0 /\ 1 .. 0 = {}
      BY <2>1, <2>4
    <3>2. u \in [1 .. 0 -> 1 .. n - 1]
      BY <2>2, <3>1
    <3> QED BY <3>2
  <2> QED BY <2>1, <2>3, <2>4
<1> HIDE DEF u
<1>2. Pass(b, u) \in Cells(n)
  BY <1>1, PassTyped
<1> QED BY <1>2 DEF u

(* A pass downward stays within the cells.                                 *)
LEMMA DownwardTyped ==
  ASSUME NEW n \in Nat, NEW b \in Cells(n), NEW tail \in Nat, NEW i \in Nat, i > 0
  PROVE  Pass(b, Downward(n - tail, i)) \in Cells(n)
<1> DEFINE u == Downward(n - tail, i)
<1>1. \E m \in Nat : u \in [1 .. m -> 1 .. n - 1]
  <2> DEFINE k == n - tail - i
  <2>1. k \in Int
    OBVIOUS
  <2>2. u = [j \in 1 .. k |-> n - tail - j]
    BY DEF Downward
  <2>3. \A j \in 1 .. k : n - tail - j \in 1 .. n - 1
    OBVIOUS
  <2> HIDE DEF u, k
  <2>4. CASE k >= 0
    <3>1. u \in [1 .. k -> 1 .. n - 1] /\ k \in Nat
      BY <2>1, <2>2, <2>3, <2>4
    <3> QED BY <3>1
  <2>5. CASE k < 0
    <3>1. 1 .. k = 1 .. 0 /\ 1 .. 0 = {}
      BY <2>1, <2>5
    <3>2. u \in [1 .. 0 -> 1 .. n - 1]
      BY <2>2, <3>1
    <3> QED BY <3>2
  <2> QED BY <2>1, <2>4, <2>5
<1> HIDE DEF u
<1>2. Pass(b, u) \in Cells(n)
  BY <1>1, PassTyped
<1> QED BY <1>2 DEF u

(* The passes of the sort, one after the other.                            *)
TailPasses(n, a, tail) ==
  FoldLeft(LAMBDA b, i : Pass(b, Upward(n - i + 1)), a, [i \in 1 .. tail |-> i])
HeadPasses(n, a, head, tail) ==
  FoldLeft(LAMBDA b, i : Pass(b, Downward(n - tail, i)), a, [i \in 1 .. head |-> i])

(* t has the cells before and after each of these passes.                  *)
TailRun(t, n, a, tail) ==
  /\ t \in [0 .. tail -> Cells(n)] /\ t[0] = a
  /\ \A i \in 1 .. tail : t[i] = Pass(t[i - 1], Upward(n - i + 1))
HeadRun(t, n, a, head, tail) ==
  /\ t \in [0 .. head -> Cells(n)] /\ t[0] = a
  /\ \A i \in 1 .. head : t[i] = Pass(t[i - 1], Downward(n - tail, i))

(* The cells after each of the passes for the tail.                        *)
LEMMA UpSteps ==
  ASSUME NEW n \in Nat, NEW a \in Cells(n), NEW head \in Nat, NEW tail \in Nat
  PROVE  \E t : TailRun(t, n, a, tail) /\ TailPasses(n, a, tail) = t[tail]
<1> DEFINE S == Cells(n)
           m == tail
           places == [i \in 1 .. m |-> i]
           F == [p \in S \X (Nat \ {0}) |-> Pass(p[1], Upward(n - p[2] + 1))]
           E(f, s) == IF s = {} THEN a ELSE Pass(f[s \ {Max(s)}], Upward(n - places[Max(s)] + 1))
           Eq(f) == f = [s \in SUBSET (1 .. m) |-> E(f, s)]
           h == CHOOSE f : Eq(f)
<1>0. DOMAIN places = 1 .. m /\ places \in [1 .. m -> Nat \ {0}] /\ \A i \in 1 .. m : places[i] = i
  OBVIOUS
<1>00. ASSUME NEW b \in S, NEW i \in Nat \ {0} PROVE Pass(b, Upward(n - i + 1)) \in S
  <2>1. i \in Nat /\ i > 0 /\ b \in Cells(n)
    OBVIOUS
  <2> QED BY <2>1, UpwardTyped
<1>1. PICK g \in [SUBSET (1 .. m) -> S] : Folds(g, F, a, places)
  <2>1. F \in [S \X (Nat \ {0}) -> S]
    BY <1>00
  <2>2. a \in S
    OBVIOUS
  <2> HIDE DEF F, S, places
  <2> QED BY <1>0, <2>1, <2>2, FoldExists
<1>2. Eq(g)
  <2> DEFINE G(s) == IF s = {} THEN a ELSE F[<<g[s \ {Max(s)}], places[Max(s)]>>]
  <2>1. ASSUME NEW s \in SUBSET (1 .. m)
        PROVE  G(s) = E(g, s)
    <3> HIDE DEF S, places
    <3>1. s # {} => places[Max(s)] \in Nat \ {0}
      BY <1>0, MaxOfSubset
    <3>2. g[s \ {Max(s)}] \in S
      BY <1>1
    <3>3. s # {} => F[<<g[s \ {Max(s)}], places[Max(s)]>>] = Pass(g[s \ {Max(s)}], Upward(n - places[Max(s)] + 1))
      BY <3>1, <3>2
    <3> HIDE DEF F
    <3> QED BY <3>3
  <2>2. g = [s \in SUBSET (1 .. m) |-> G(s)]
    <3> HIDE DEF F, places
    <3> QED BY <1>0, <1>1, Zenon DEF Folds
  <2> HIDE DEF E, G
  <2> QED BY <2>1, <2>2, Zenon
<1>3. Eq(h)
  <2> HIDE DEF Eq
  <2> QED BY <1>2, Zenon
<1>4. FoldLeft(LAMBDA b, i : Pass(b, Upward(n - i + 1)), a, places) = h[1 .. m]
  <2> HIDE DEF places
  <2> QED BY <1>0, Zenon DEF FoldLeft, MapThenFoldSet
<1> HIDE DEF h
<1>5. \A s \in SUBSET (1 .. m) : h[s] = E(h, s)
  <2> HIDE DEF E
  <2> QED BY <1>3, Zenon
<1>6. h[1 .. 0] = a
  BY <1>5, FoldPlaces
<1>7. ASSUME NEW i \in 1 .. m PROVE h[1 .. i] = Pass(h[1 .. i - 1], Upward(n - i + 1))
  <2>1. h[1 .. i] = Pass(h[1 .. i - 1], Upward(n - places[i] + 1))
    <3> HIDE DEF places
    <3> QED BY <1>5, FoldPlaces
  <2>2. places[i] = i
    BY <1>0
  <2> QED BY <2>1, <2>2
<1> HIDE DEF places
<1>8. ASSUME NEW i \in 1 .. m, h[1 .. i - 1] \in S PROVE h[1 .. i] \in S
  <2>1. i \in Nat \ {0}
    OBVIOUS
  <2> HIDE DEF S
  <2> QED BY <1>7, <1>8, <2>1, <1>00
<1> DEFINE t == [i \in 0 .. m |-> h[1 .. i]]
<1>9. \A i \in 0 .. m : h[1 .. i] \in S
  <2>1. h[1 .. 0] \in S
    BY <1>6
  <2> HIDE DEF S
  <2> QED BY <1>8, <2>1, FoldKeeps
<1>10. t \in [0 .. m -> S]
  <2> HIDE DEF S
  <2> QED BY <1>9
<1>11. t[0] = a /\ t[m] = h[1 .. m] /\ \A i \in 1 .. m : t[i] = Pass(t[i - 1], Upward(n - i + 1))
  <2>1. 0 \in 0 .. m /\ m \in 0 .. m /\ \A i \in 1 .. m : i \in 0 .. m /\ i - 1 \in 0 .. m
    OBVIOUS
  <2>2. \A i \in 0 .. m : t[i] = h[1 .. i]
    OBVIOUS
  <2> HIDE DEF t
  <2> QED BY <1>6, <1>7, <2>1, <2>2
<1>12. TailPasses(n, a, tail) = h[1 .. m]
  BY <1>4, Zenon DEF TailPasses, places
<1> HIDE DEF t, S
<1>13. TailRun(t, n, a, tail)
  BY <1>10, <1>11 DEF TailRun, S
<1> QED BY <1>11, <1>12, <1>13

(* The cells after each of the passes for the head.                        *)
LEMMA DownSteps ==
  ASSUME NEW n \in Nat, NEW a \in Cells(n), NEW head \in Nat, NEW tail \in Nat
  PROVE  \E t : HeadRun(t, n, a, head, tail) /\ HeadPasses(n, a, head, tail) = t[head]
<1> DEFINE S == Cells(n)
           m == head
           places == [i \in 1 .. m |-> i]
           F == [p \in S \X (Nat \ {0}) |-> Pass(p[1], Downward(n - tail, p[2]))]
           E(f, s) == IF s = {} THEN a ELSE Pass(f[s \ {Max(s)}], Downward(n - tail, places[Max(s)]))
           Eq(f) == f = [s \in SUBSET (1 .. m) |-> E(f, s)]
           h == CHOOSE f : Eq(f)
<1>0. DOMAIN places = 1 .. m /\ places \in [1 .. m -> Nat \ {0}] /\ \A i \in 1 .. m : places[i] = i
  OBVIOUS
<1>00. ASSUME NEW b \in S, NEW i \in Nat \ {0} PROVE Pass(b, Downward(n - tail, i)) \in S
  <2>1. i \in Nat /\ i > 0 /\ b \in Cells(n)
    OBVIOUS
  <2> QED BY <2>1, DownwardTyped
<1>1. PICK g \in [SUBSET (1 .. m) -> S] : Folds(g, F, a, places)
  <2>1. F \in [S \X (Nat \ {0}) -> S]
    BY <1>00
  <2>2. a \in S
    OBVIOUS
  <2> HIDE DEF F, S, places
  <2> QED BY <1>0, <2>1, <2>2, FoldExists
<1>2. Eq(g)
  <2> DEFINE G(s) == IF s = {} THEN a ELSE F[<<g[s \ {Max(s)}], places[Max(s)]>>]
  <2>1. ASSUME NEW s \in SUBSET (1 .. m)
        PROVE  G(s) = E(g, s)
    <3> HIDE DEF S, places
    <3>1. s # {} => places[Max(s)] \in Nat \ {0}
      BY <1>0, MaxOfSubset
    <3>2. g[s \ {Max(s)}] \in S
      BY <1>1
    <3>3. s # {} => F[<<g[s \ {Max(s)}], places[Max(s)]>>] = Pass(g[s \ {Max(s)}], Downward(n - tail, places[Max(s)]))
      BY <3>1, <3>2
    <3> HIDE DEF F
    <3> QED BY <3>3
  <2>2. g = [s \in SUBSET (1 .. m) |-> G(s)]
    <3> HIDE DEF F, places
    <3> QED BY <1>0, <1>1, Zenon DEF Folds
  <2> HIDE DEF E, G
  <2> QED BY <2>1, <2>2, Zenon
<1>3. Eq(h)
  <2> HIDE DEF Eq
  <2> QED BY <1>2, Zenon
<1>4. FoldLeft(LAMBDA b, i : Pass(b, Downward(n - tail, i)), a, places) = h[1 .. m]
  <2> HIDE DEF places
  <2> QED BY <1>0, Zenon DEF FoldLeft, MapThenFoldSet
<1> HIDE DEF h
<1>5. \A s \in SUBSET (1 .. m) : h[s] = E(h, s)
  <2> HIDE DEF E
  <2> QED BY <1>3, Zenon
<1>6. h[1 .. 0] = a
  BY <1>5, FoldPlaces
<1>7. ASSUME NEW i \in 1 .. m PROVE h[1 .. i] = Pass(h[1 .. i - 1], Downward(n - tail, i))
  <2>1. h[1 .. i] = Pass(h[1 .. i - 1], Downward(n - tail, places[i]))
    <3> HIDE DEF places
    <3> QED BY <1>5, FoldPlaces
  <2>2. places[i] = i
    BY <1>0
  <2> QED BY <2>1, <2>2
<1> HIDE DEF places
<1>8. ASSUME NEW i \in 1 .. m, h[1 .. i - 1] \in S PROVE h[1 .. i] \in S
  <2>1. i \in Nat \ {0}
    OBVIOUS
  <2> HIDE DEF S
  <2> QED BY <1>7, <1>8, <2>1, <1>00
<1> DEFINE t == [i \in 0 .. m |-> h[1 .. i]]
<1>9. \A i \in 0 .. m : h[1 .. i] \in S
  <2>1. h[1 .. 0] \in S
    BY <1>6
  <2> HIDE DEF S
  <2> QED BY <1>8, <2>1, FoldKeeps
<1>10. t \in [0 .. m -> S]
  <2> HIDE DEF S
  <2> QED BY <1>9
<1>11. t[0] = a /\ t[m] = h[1 .. m] /\ \A i \in 1 .. m : t[i] = Pass(t[i - 1], Downward(n - tail, i))
  <2>1. 0 \in 0 .. m /\ m \in 0 .. m /\ \A i \in 1 .. m : i \in 0 .. m /\ i - 1 \in 0 .. m
    OBVIOUS
  <2>2. \A i \in 0 .. m : t[i] = h[1 .. i]
    OBVIOUS
  <2> HIDE DEF t
  <2> QED BY <1>6, <1>7, <2>1, <2>2
<1>12. HeadPasses(n, a, head, tail) = h[1 .. m]
  BY <1>4, Zenon DEF HeadPasses, places
<1> HIDE DEF t, S
<1>13. HeadRun(t, n, a, head, tail)
  BY <1>10, <1>11 DEF HeadRun, S
<1> QED BY <1>11, <1>12, <1>13

(* So all passes keep the cells in number and type.                        *)
LEMMA PassesTyped ==
  ASSUME NEW n \in Nat, NEW a \in Cells(n), NEW head \in Nat, NEW tail \in Nat
  PROVE  TailPasses(n, a, tail) \in Cells(n) /\ HeadPasses(n, a, head, tail) \in Cells(n)
<1>1. TailPasses(n, a, tail) \in Cells(n)
  <2>1. PICK t : TailRun(t, n, a, tail) /\ TailPasses(n, a, tail) = t[tail]
    BY UpSteps
  <2>2. tail \in 0 .. tail
    OBVIOUS
  <2> QED BY <2>1, <2>2 DEF TailRun
<1>2. HeadPasses(n, a, head, tail) \in Cells(n)
  <2>1. PICK t : HeadRun(t, n, a, head, tail) /\ HeadPasses(n, a, head, tail) = t[head]
    BY DownSteps
  <2>2. head \in 0 .. head
    OBVIOUS
  <2> QED BY <2>1, <2>2 DEF HeadRun
<1> QED BY <1>1, <1>2

(* The sort keeps the cells in number and type.                            *)
LEMMA SortTyped ==
  ASSUME NEW a \in Seq(Nat), NEW head \in Nat, NEW tail \in Nat
  PROVE  SortArrayExtreme(a, head, tail) \in Seq(Nat) /\ Len(SortArrayExtreme(a, head, tail)) = Len(a)
<1> DEFINE n == Len(a)
           up == TailPasses(n, a, tail)
           down == HeadPasses(n, up, head, tail)
<1>1. n \in Nat /\ a \in Cells(n)
  BY DEF Cells
<1>2. SortArrayExtreme(a, head, tail) = down
  BY Zenon DEF SortArrayExtreme, TailPasses, HeadPasses
<1>3. up \in Cells(n)
  <2> HIDE DEF n
  <2> QED BY <1>1, PassesTyped
<1>4. down \in Cells(n)
  <2> HIDE DEF n, up
  <2> QED BY <1>1, <1>3, PassesTyped
<1> HIDE DEF down, n
<1>5. down \in Seq(Nat) /\ Len(down) = n
  BY <1>1, <1>4 DEF Cells
<1> QED BY <1>2, <1>5 DEF n

(* So the averages without extremes are natural numbers,                   *)
LEMMA DelExtremeNat ==
  ASSUME NEW a \in Seq(Nat), NEW head \in Nat, NEW tail \in Nat
  PROVE  GetDelExtremeAndAverage(a, head, tail) \in Nat
BY SortTyped, AverageNat DEF GetDelExtremeAndAverage

(* those of a window too,                                                  *)
LEMMA WindowMeanNat ==
  ASSUME NEW w \in Seq(Nat)
  PROVE  WindowMean(w) \in Nat
<1>1. Len(w) \div 3 \in Nat
  OBVIOUS
<1> QED BY <1>1, DelExtremeNat, AverageNat DEF WindowMean

(* and a window that takes a new value keeps its length.                   *)
LEMMA ShiftedTyped ==
  ASSUME NEW w \in Seq(Nat), NEW v \in Nat, w # << >>
  PROVE  Shifted(w, v) \in Seq(Nat) /\ Len(Shifted(w, v)) = Len(w) /\ Shifted(w, v) # << >>
<1> DEFINE t == Tail(w)
<1>1. t \in Seq(Nat) /\ Len(t) = Len(w) - 1 /\ Len(w) \in Nat
  BY HeadTailProperties
<1>2. Shifted(w, v) = Append(t, v)
  BY DEF Shifted
<1> HIDE DEF t
<1>3. Append(t, v) \in Seq(Nat) /\ Len(Append(t, v)) = Len(t) + 1 /\ Append(t, v) # << >>
  BY <1>1, AppendProperties
<1> QED BY <1>1, <1>2, <1>3

------------------------------------------------------------------------------
(* Division rounds down                                                    *)

(* A quotient times its divisor is the dividend but for less than the      *)
(* divisor.                                                                *)
LEMMA DivIs ==
  ASSUME NEW a \in Int, NEW d \in Nat \ {0}
  PROVE  /\ a \div d \in Int
         /\ d * (a \div d) <= a /\ a < d * (a \div d) + d
BY SMT

(* A larger factor makes the product larger by at least the other one.     *)
LEMMA ProductLess ==
  ASSUME NEW d \in Nat \ {0}, NEW x \in Int, NEW y \in Int, x < y
  PROVE  d * x + d <= d * y
<1>1. PICK e \in Nat : y = x + 1 + e
  <2>1. y - x - 1 \in Nat /\ y = x + 1 + (y - x - 1)
    OBVIOUS
  <2> QED BY <2>1
<1>2. d * e \in Nat
  BY SMT
<1>3. d * (x + 1 + e) = d * x + d + d * e
  BY SMT
<1>4. d * x \in Int
  OBVIOUS
<1> QED BY <1>1, <1>2, <1>3, <1>4

(* A quotient's upper bound,                                               *)
LEMMA DivAtMost ==
  ASSUME NEW a \in Int, NEW d \in Nat \ {0}, NEW m \in Int, a <= d * m
  PROVE  a \div d <= m
<1> DEFINE q == a \div d
<1>1. q \in Int /\ d * q <= a
  BY DivIs
<1>11. a < d * q + d
  BY DivIs
<1> HIDE DEF q
<1>2. SUFFICES ASSUME m < q PROVE FALSE
  BY <1>1 DEF q
<1>3. d * m + d <= d * q
  BY <1>1, <1>2, ProductLess
<1>4. d * m \in Int /\ d * q \in Int
  BY <1>1
<1> QED BY <1>1, <1>3, <1>4

(* its lower bound,                                                        *)
LEMMA DivAtLeast ==
  ASSUME NEW a \in Int, NEW d \in Nat \ {0}, NEW m \in Int, d * m <= a
  PROVE  m <= a \div d
<1> DEFINE q == a \div d
<1>1. q \in Int /\ d * q <= a /\ a < d * q + d
  BY DivIs
<1> HIDE DEF q
<1>2. SUFFICES ASSUME q < m PROVE FALSE
  BY <1>1 DEF q
<1>3. d * q + d <= d * m
  BY <1>1, <1>2, ProductLess
<1>4. d * m \in Int /\ d * q \in Int
  BY <1>1
<1> QED BY <1>1, <1>3, <1>4

(* and that it does not fall when the dividend rises.                      *)
LEMMA DivMonotone ==
  ASSUME NEW a \in Int, NEW b \in Int, NEW d \in Nat \ {0}, a <= b
  PROVE  a \div d <= b \div d
<1> DEFINE q == b \div d
           p == a \div d
<1>1. p \in Int /\ d * p <= a
  BY DivIs
<1>2. d * p \in Int
  BY <1>1
<1> HIDE DEF p
<1>3. d * p <= b
  BY <1>1, <1>2
<1>4. p <= b \div d
  BY <1>1, <1>3, DivAtLeast
<1> QED BY <1>4 DEF p

(* Nor does a product when a factor rises.                                 *)
LEMMA ProductMonotone ==
  ASSUME NEW d \in Nat, NEW x \in Int, NEW y \in Int, x <= y
  PROVE  d * x <= d * y
<1>1. CASE d = 0 \/ x = y
  BY <1>1
<1>2. CASE d # 0 /\ x < y
  <2>1. d * x + d <= d * y /\ d * x \in Int /\ d * y \in Int
    BY <1>2, ProductLess
  <2> QED BY <2>1
<1> QED BY <1>1, <1>2

(* A remainder is within the range, and what is within it is its own.      *)
LEMMA ModIs ==
  ASSUME NEW a \in Int, NEW d \in Nat \ {0}
  PROVE  a % d \in 0 .. d - 1 /\ (a \in 0 .. d - 1 => a % d = a)
<1>1. a % d \in 0 .. d - 1
  BY SMT
<1>2. ASSUME a \in 0 .. d - 1 PROVE a % d = a
  BY <1>2, SMT
<1> QED BY <1>1, <1>2

------------------------------------------------------------------------------
(* Conversion                                                              *)

(* Points and limits are natural numbers, those of the output below 2^16.  *)
LEMMA TableTyped ==
  ASSUME ParamsTyped
  PROVE  /\ \A i \in 1 .. 4 : ram[AD[i]] \in Nat
         /\ \A i \in 1 .. 4 : ram[DA[i]] \in 0 .. HalfWord - 1
         /\ \A p \in CapParams : ram[p] \in Nat
<1>1. \A i \in 1 .. 4 : AD[i] \in Params \ {"Correct_B"}
  BY ParamsApart DEF AdTable
<1>2. \A i \in 1 .. 4 : DA[i] \in DaTable /\ DA[i] \in Params \ {"Correct_B"}
  BY ParamsApart DEF DaTable
<1>3. CapParams \subseteq Params \ {"Correct_B"}
  BY ParamsApart
<1>4. \A i \in 1 .. 4 : ram[AD[i]] \in Nat
  BY <1>1 DEF ParamsTyped
<1>5. \A i \in 1 .. 4 : ram[DA[i]] \in Nat /\ ram[DA[i]] < HalfWord
  BY <1>2 DEF ParamsTyped
<1>6. \A p \in CapParams : ram[p] \in Nat
  BY <1>3 DEF ParamsTyped
<1> QED BY <1>4, <1>5, <1>6, Scales

(* The share of a full scale is at most the whole of it.                   *)
LEMMA ShareTyped ==
  ASSUME ParamsTyped, NEW v \in Int, NEW full \in Int
  PROVE  Share(v, full) \in Int /\ (full \in Nat => Share(v, full) \in 0 .. full)
<1> DEFINE num == (v - ram["CapMin"]) % Word
           den == (ram["CapMax"] - ram["CapMin"]) % Word
<1>0. ram["CapMin"] \in Nat /\ ram["CapMax"] \in Nat
  BY TableTyped DEF CapParams
<1>1. num \in Nat /\ den \in Nat
  <2>1. v - ram["CapMin"] \in Int /\ ram["CapMax"] - ram["CapMin"] \in Int
    BY <1>0
  <2>2. num \in 0 .. Word - 1
    BY <2>1, ModIs, Scales
  <2>3. den \in 0 .. Word - 1
    BY <2>1, ModIs, Scales
  <2> QED BY <2>2, <2>3
<1>2. Share(v, full) = IF num = 0 THEN 0 ELSE IF num > den THEN full ELSE (num * full) \div den
  BY DEF Share
<1> HIDE DEF num, den
<1>3. CASE num = 0 \/ num > den
  BY <1>1, <1>2, <1>3
<1>4. CASE num # 0 /\ num <= den
  <2>1. den \in Nat \ {0} /\ num * full \in Int
    BY <1>1, <1>4
  <2>2. Share(v, full) = (num * full) \div den
    BY <1>1, <1>2, <1>4
  <2>3. (num * full) \div den \in Int
    BY <2>1, DivIs
  <2>4. ASSUME full \in Nat PROVE (num * full) \div den \in 0 .. full
    <3>1. full * num <= full * den
      BY <1>1, <1>4, <2>4, ProductMonotone
    <3>2. num * full <= den * full /\ 0 <= num * full /\ den * 0 = 0
      BY <1>1, <2>4, <3>1
    <3>3. (num * full) \div den <= full
      BY <2>1, <2>4, <3>2, DivAtMost
    <3>4. 0 <= (num * full) \div den
      <4>1. den * 0 <= num * full
        BY <3>2
      <4> QED BY <2>1, <4>1, DivAtLeast
    <3> QED BY <2>3, <2>4, <3>3, <3>4
  <2> QED BY <2>2, <2>3, <2>4
<1> QED BY <1>1, <1>3, <1>4

(* The segment of the table a value is on.                                 *)
At(ad) == {i \in 1 .. 3 : ram[AD[i]] <= ad /\ ad < ram[AD[i + 1]]}
First(s) == CHOOSE i \in s : \A j \in s : i <= j

(* The first of some segments is one of them.                              *)
LEMMA FirstOf ==
  ASSUME NEW s \in SUBSET (1 .. 3), s # {}
  PROVE  First(s) \in s /\ \A j \in s : First(s) <= j
<1>1. \E i \in s : \A j \in s : i <= j
  <2>1. CASE 1 \in s
    BY <2>1
  <2>2. CASE 1 \notin s /\ 2 \in s
    BY <2>2
  <2>3. CASE 1 \notin s /\ 2 \notin s
    <3>1. \A j \in s : j = 3
      BY <2>3
    <3>2. 3 \in s
      BY <3>1
    <3> QED BY <3>1, <3>2
  <2> QED BY <2>1, <2>2, <2>3
<1> QED BY <1>1 DEF First

(* The output for an AD value, by the segment it is on.                    *)
LEMMA OnTableIs ==
  ASSUME NEW ad
  PROVE  OnTable(ad) = IF ad < ram[AD[1]] THEN ram[DA[1]]
                       ELSE IF At(ad) = {} THEN ram[DA[4]]
                       ELSE Interpolated(First(At(ad)), ad)
BY Zenon DEF OnTable, At, First

(* Between two points the unsigned result is below 2^16 whatever they are; *)
(* the divisor is not zero on a segment.                                   *)
LEMMA InterpolatedTyped ==
  ASSUME ParamsTyped, NEW i \in 1 .. 3, NEW ad \in Nat, ram[AD[i]] <= ad, ad < ram[AD[i + 1]]
  PROVE  Interpolated(i, ad) \in 0 .. HalfWord - 1
<1> DEFINE a == ram[AD[i]]
           b == ram[AD[i + 1]]
           c == ram[DA[i]]
           rise == (ram[DA[i + 1]] - c) % HalfWord
           x == ((ad - a) * rise) \div (b - a) + c
<1>1. a \in Nat /\ b \in Nat /\ c \in Nat /\ ram[DA[i + 1]] \in Nat
  <2>1. i \in 1 .. 4 /\ i + 1 \in 1 .. 4
    OBVIOUS
  <2>2. \A j \in 1 .. 4 : ram[AD[j]] \in Nat /\ ram[DA[j]] \in Nat
    BY TableTyped
  <2> QED BY <2>1, <2>2
<1>2. rise \in Nat
  <2>1. ram[DA[i + 1]] - c \in Int
    BY <1>1
  <2>2. rise \in 0 .. HalfWord - 1
    <3> HIDE DEF c
    <3> QED BY <2>1, ModIs, Scales
  <2> QED BY <2>2
<1>3. a <= ad /\ ad < b
  OBVIOUS
<1>4. Interpolated(i, ad) = x % HalfWord
  BY DEF Interpolated
<1> HIDE DEF a, b, c, rise
<1>5. x \in Int
  <2>1. (ad - a) * rise \in Int /\ b - a \in Nat \ {0}
    BY <1>1, <1>2, <1>3
  <2>2. ((ad - a) * rise) \div (b - a) \in Int
    BY <2>1, DivIs
  <2> QED BY <1>1, <2>2
<1> HIDE DEF x
<1> QED BY <1>4, <1>5, ModIs, Scales

(* So is the output for every AD value.                                    *)
LEMMA OnTableTyped ==
  ASSUME ParamsTyped, NEW ad \in Nat
  PROVE  OnTable(ad) \in 0 .. HalfWord - 1
<1>1. ram[DA[1]] \in 0 .. HalfWord - 1 /\ ram[DA[4]] \in 0 .. HalfWord - 1
  <2>1. 1 \in 1 .. 4 /\ 4 \in 1 .. 4
    OBVIOUS
  <2> QED BY <2>1, TableTyped
<1>2. ASSUME At(ad) # {} PROVE Interpolated(First(At(ad)), ad) \in 0 .. HalfWord - 1
  <2> DEFINE i == First(At(ad))
  <2>1. i \in At(ad)
    BY <1>2, FirstOf DEF At
  <2>2. i \in 1 .. 3 /\ ram[AD[i]] <= ad /\ ad < ram[AD[i + 1]]
    BY <2>1 DEF At
  <2> HIDE DEF i
  <2>3. Interpolated(i, ad) \in 0 .. HalfWord - 1
    BY <2>2, InterpolatedTyped
  <2> QED BY <2>3 DEF i
<1> QED BY <1>1, <1>2, OnTableIs

(* Compensation yields an integer,                                         *)
LEMMA CompensatedTyped ==
  ASSUME ParamsTyped, NEW v \in Int
  PROVE  Compensated(v) \in Int
<1>1. ram["Correct_K"] \in Int /\ ram["Correct_B"] \in Int
  BY DEF ParamsTyped, Params
<1>2. (v * ram["Correct_K"]) \div Percent \in Int
  BY <1>1, DivIs, Scales
<1> QED BY <1>1, <1>2, Scales DEF Compensated

(* and conversion values within the scales, for every level and every      *)
(* table.                                                                  *)
LEMMA ConvertedTyped ==
  ASSUME ParamsTyped, NEW result \in Nat
  PROVE  Converted(result) \in [ad : 0 .. AdcMax, daResult : 0 .. DacMax, daOut : 0 .. HalfWord - 1]
<1> DEFINE v == Compensated(result)
<1>1. v \in Int
  BY CompensatedTyped
<1>2. Converted(result) =
        [ad |-> Share(v, AdcMax), daResult |-> Share(v, DacMax),
         daOut |-> IF 0 \in {ram[DA[2]], ram[DA[3]]} THEN Linear(v) ELSE OnTable(Share(v, AdcMax))]
  BY DEF Converted
<1> HIDE DEF v
<1>3. Share(v, AdcMax) \in 0 .. AdcMax /\ Share(v, DacMax) \in 0 .. DacMax
  BY <1>1, ShareTyped, Scales
<1>4. Linear(v) \in 0 .. HalfWord - 1
  <2>1. ram[DA[1]] \in Int /\ ram[DA[4]] \in Int
    <3>1. 1 \in 1 .. 4 /\ 4 \in 1 .. 4
      OBVIOUS
    <3> QED BY <3>1, TableTyped
  <2>2. Share(v, ram[DA[4]] - ram[DA[1]]) + ram[DA[1]] \in Int
    <3>1. ram[DA[4]] - ram[DA[1]] \in Int
      BY <2>1
    <3>2. Share(v, ram[DA[4]] - ram[DA[1]]) \in Int
      BY <1>1, <3>1, ShareTyped
    <3> QED BY <2>1, <3>2
  <2> QED BY <2>2, ModIs, Scales DEF Linear
<1>5. OnTable(Share(v, AdcMax)) \in 0 .. HalfWord - 1
  <2>1. Share(v, AdcMax) \in Nat
    BY <1>3, Scales
  <2> QED BY <2>1, OnTableTyped
<1> QED BY <1>2, <1>3, <1>4, <1>5

------------------------------------------------------------------------------
(* The chain, and every step                                               *)

(* The limits are natural numbers, so is what they clip.                   *)
LEMMA ClampNat ==
  ASSUME ParamsTyped, NEW v \in Nat
  PROVE  Clamp(v) \in Nat
<1>1. range.min \in Nat /\ range.max \in Nat
  BY DEF ParamsTyped
<1> QED BY <1>1 DEF Clamp

(* Both windows have cells.                                                *)
LEMMA LevelTyped ==
  ASSUME ParamsTyped
  PROVE  Level.Cycle \in Nat \ {0} /\ Level.BufMax \in Nat \ {0}
<1>1. ram["FilterFactor"] \in DOMAIN FilterTable
  BY DeviceAssumption DEF ParamsTyped
<1>2. Level \in [Cycle : Nat \ {0}, BufMax : Nat \ {0}]
  BY <1>1, LevelSensorAssumption DEF Level
<1> QED BY <1>2

(* A window filled with one value.                                         *)
LEMMA FillTyped ==
  ASSUME NEW n \in Nat, NEW v \in Nat
  PROVE  Fill(n, v) \in Nats /\ Len(Fill(n, v)) = n
BY DEF Fill, Nats

FilterRecord == [FilterStart : BOOLEAN, DataResBuf : Nats, win1 : Nats, win2 : Nats]

(* What the filter consists of.                                            *)
LEMMA FilterParts ==
  ASSUME FilterTyped
  PROVE  /\ filter \in FilterRecord
         /\ filter.DataResBuf \in Seq(Nat) /\ filter.win1 \in Seq(Nat) /\ filter.win2 \in Seq(Nat)
         /\ filter.FilterStart \in BOOLEAN /\ Len(filter.DataResBuf) < DataBufMax
         /\ filter.FilterStart => Len(filter.win1) = Level.Cycle /\ Len(filter.win2) = Level.BufMax
BY DEF FilterTyped, FilterRecord, Nats

(* The parameters are those of before, so is the level of the filter.      *)
LEMMA StartFilterTyped ==
  ASSUME ParamsTyped, NEW v \in Nat, StartFilter(v), ram' = ram
  PROVE  FilterTyped'
<1> DEFINE w1 == Fill(Level.Cycle, Clamp(v))
           w2 == Fill(Level.BufMax, Clamp(v))
<1>1. w1 \in Nats /\ Len(w1) = Level.Cycle /\ w2 \in Nats /\ Len(w2) = Level.BufMax
  BY ClampNat, LevelTyped, FillTyped
<1>2. filter' = [FilterStart |-> TRUE, DataResBuf |-> << >>, win1 |-> w1, win2 |-> w2]
  BY DEF StartFilter
<1>3. Level' = Level
  BY DEF Level
<1>4. << >> \in Nats /\ Len(<< >>) = 0
  BY DEF Nats
<1> HIDE DEF w1, w2
<1> QED BY <1>1, <1>2, <1>3, <1>4, Scales DEF FilterTyped

(* A sample more, as long as the buffer has room.                          *)
LEMMA CollectTyped ==
  ASSUME ParamsTyped, FilterTyped, NEW v \in Nat, Collect(v), ram' = ram
  PROVE  FilterTyped'
<1> DEFINE b == Append(filter.DataResBuf, Clamp(v))
<1>1. b \in Nats /\ Len(b) = Len(filter.DataResBuf) + 1
  BY ClampNat, FilterParts, AppendProperties DEF Nats
<1>2. filter' = [filter EXCEPT !.DataResBuf = b] /\ Len(filter.DataResBuf) + 1 < DataBufMax
  BY DEF Collect
<1>3. Level' = Level
  BY DEF Level
<1> HIDE DEF b
<1>4. filter' \in FilterRecord /\ filter'.DataResBuf = b /\ filter'.win1 = filter.win1 /\ filter'.win2 = filter.win2
      /\ filter'.FilterStart = filter.FilterStart
  BY <1>1, <1>2, FilterParts DEF FilterRecord
<1> QED BY <1>1, <1>2, <1>3, <1>4, FilterParts DEF FilterTyped, FilterRecord

(* Ten samples: buffer emptied, both windows shifted, a level.             *)
LEMMA DeliverTyped ==
  ASSUME ParamsTyped, FilterTyped, NEW v \in Nat, Deliver(v), ram' = ram
  PROVE  FilterTyped' /\ FilterResult' \in Nat
<1> DEFINE buf  == Append(filter.DataResBuf, Clamp(v))
           avg1 == GetDelExtremeAndAverage(buf, HeadDrop, TailDrop)
           win1 == Shifted(filter.win1, avg1)
           win2 == Shifted(filter.win2, WindowMean(win1))
<1>1. buf \in Seq(Nat)
  BY ClampNat, FilterParts, AppendProperties
<1>2. avg1 \in Nat
  <2>1. HeadDrop \in Nat /\ TailDrop \in Nat
    BY LevelSensorAssumption
  <2> HIDE DEF buf
  <2> QED BY <1>1, <2>1, DelExtremeNat
<1>3. filter.FilterStart
  BY DEF Deliver
<1>4. /\ filter.win1 \in Seq(Nat) /\ filter.win1 # << >> /\ Len(filter.win1) = Level.Cycle
      /\ filter.win2 \in Seq(Nat) /\ filter.win2 # << >> /\ Len(filter.win2) = Level.BufMax
  BY <1>3, FilterParts, LevelTyped
<1>5. win1 \in Seq(Nat) /\ Len(win1) = Level.Cycle
  <2> HIDE DEF avg1
  <2> QED BY <1>2, <1>4, ShiftedTyped
<1>6. win2 \in Seq(Nat) /\ Len(win2) = Level.BufMax
  <2> HIDE DEF win1
  <2> QED BY <1>4, <1>5, WindowMeanNat, ShiftedTyped
<1>7. filter' = [filter EXCEPT !.DataResBuf = << >>, !.win1 = win1, !.win2 = win2]
      /\ FilterResult' = WindowMean(win2)
  BY DEF Deliver
<1>8. Level' = Level
  BY DEF Level
<1> HIDE DEF win1, win2
<1>9. << >> \in Nats /\ Len(<< >>) = 0 /\ win1 \in Nats /\ win2 \in Nats
  BY <1>5, <1>6 DEF Nats
<1>10. filter' \in FilterRecord /\ filter'.DataResBuf = << >> /\ filter'.win1 = win1 /\ filter'.win2 = win2
  BY <1>7, <1>9, FilterParts DEF FilterRecord
<1>11. FilterResult' \in Nat
  BY <1>6, <1>7, WindowMeanNat
<1>12. FilterTyped'
  BY <1>5, <1>6, <1>8, <1>9, <1>10, Scales DEF FilterTyped, FilterRecord
<1> QED BY <1>11, <1>12

(* Whatever the chip measures.                                             *)
LEMMA SensorTyped ==
  ASSUME TInv, Sensor_PCap
  PROVE  TInv'
<1>1. PICK v \in host.values : Measure(v)
  BY DEF Sensor_PCap
<1>2. v \in Nat /\ raw' = v
  <2>1. host.values \subseteq 0 .. Word - 1
    BY DeviceAssumption DEF TInv
  <2> QED BY <1>1, <2>1, Scales DEF Measure
<1>3. ParamsTyped /\ FilterTyped /\ OutTyped /\ CalibTyped /\ host \in Hosts
  BY DEF TInv
<1>4. UNCHANGED <<paramVars, calVars, host, InRomWrEn, Freeze>> /\ ram' = ram
  BY DEF Sensor_PCap, paramVars
<1>5. ParamsTyped' /\ host' \in Hosts
  BY <1>3, <1>4 DEF ParamsTyped, paramVars
<1>6. CalibTyped'
  BY <1>3, <1>4, Zenon DEF CalibTyped, calVars
<1>7. FilterTyped'
  BY <1>1, <1>2, <1>3, <1>4, StartFilterTyped, CollectTyped, DeliverTyped DEF Measure
<1>8. FilterResult' \in Nat /\ (out' = out \/ out' = Converted(FilterResult'))
  <2>1. CASE Deliver(v)
    <3>1. FilterResult' \in Nat
      BY <1>2, <1>3, <1>4, <2>1, DeliverTyped
    <3>2. out' = Converted(FilterResult')
      BY <2>1 DEF Deliver
    <3> QED BY <3>1, <3>2
  <2>2. CASE ~Deliver(v)
    <3>1. UNCHANGED <<FilterResult, out, dac>>
      BY <1>1, <2>2 DEF Measure, StartFilter, Collect
    <3> QED BY <1>3, <3>1 DEF OutTyped
  <2> QED BY <2>1, <2>2
<1>9. out' \in [ad : 0 .. AdcMax, daResult : 0 .. DacMax, daOut : 0 .. HalfWord - 1]
  BY <1>3, <1>8, ConvertedTyped DEF OutTyped
<1>10. dac' \in 0 .. DacMax
  <2>1. dac' = dac \/ dac' = DacAfter(out'.daResult) \/ dac' = DacAfter(out'.daOut)
    BY <1>1 DEF Measure, StartFilter, Collect, Deliver
  <2>2. \A x \in Nat : DacAfter(x) \in 0 .. DacMax
    BY <1>3, Scales DEF DacAfter, OutTyped
  <2>3. out'.daResult \in Nat /\ out'.daOut \in Nat /\ dac \in 0 .. DacMax
    BY <1>3, <1>9, Scales DEF OutTyped
  <2> QED BY <2>1, <2>2, <2>3
<1>11. OutTyped'
  BY <1>2, <1>8, <1>9, <1>10 DEF OutTyped
<1> QED BY <1>5, <1>6, <1>7, <1>11 DEF TInv

(* The first state.                                                        *)
LEMMA InitTyped == Init => TInv
<1> SUFFICES ASSUME Init PROVE TInv
  OBVIOUS
<1>1. host \in Hosts
  BY DEF Init
<1>2. ParamsTyped
  <2>1. /\ flash = [p \in Params |-> IntCell(host.setup[p])] /\ ram = Loaded(flash)
        /\ range = [min |-> ram["CapMin"], max |-> ram["CapMax"]]
    BY DEF Init
  <2>2. /\ \A p \in Params : host.setup[p] \in Nat
        /\ \A p \in DaTable : host.setup[p] < HalfWord
        /\ host.setup["FilterFactor"] \in Levels
    BY <1>1, DeviceAssumption
  <2>3. flash \in [Params -> [enc : {"int", "float"}, val : Nat]]
    BY <2>1, <2>2, IntCellTyped
  <2>4. ram \in [Params -> Int] /\ \A p \in Params \ {"Correct_B"} : ram[p] \in Nat
    BY <2>1, <2>3, LoadedTyped
  <2>5. \A p \in Params \ {"Correct_B"} : ram[p] = host.setup[p]
    BY <2>1, LoadInt DEF Loaded
  <2>6. range \in [min : Nat, max : Nat]
    <3>1. "CapMin" \in Params \ {"Correct_B"} /\ "CapMax" \in Params \ {"Correct_B"}
      BY LimitsAreParams DEF Limits
    <3> QED BY <2>1, <2>4, <3>1
  <2>7. (\A p \in DaTable : ram[p] < HalfWord) /\ ram["FilterFactor"] \in Levels
    BY <2>2, <2>5, ParamsApart
  <2> QED BY <2>3, <2>4, <2>6, <2>7 DEF ParamsTyped
<1>3. CalibTyped
  <2>1. Calib = NoneCaptured([e \in Ends |-> 0]) /\ ClibFlag = NoneCaptured({}) /\ ClibEn = NoneCaptured(FALSE)
    BY DEF Init
  <2>2. CapDA_ClibEn = FALSE /\ InRomWrEn = FALSE /\ Freeze = FALSE /\ session = {}
    BY DEF Init
  <2>3. /\ Calib \in [Kinds -> [Ends -> Nat]] /\ \A e \in Ends : Calib["da"][e] <= DacMax
        /\ ClibFlag \in [Kinds -> SUBSET Ends] /\ ClibEn \in [Kinds -> BOOLEAN]
    BY <2>1, NewCalibTyped
  <2> QED BY <2>2, <2>3, Zenon DEF CalibTyped
<1>4. OutTyped
  <2>1. raw \in Nat /\ FilterResult = 0 /\ dac = 0
    <3>1. raw \in host.values /\ host.values \subseteq 0 .. Word - 1 /\ FilterResult = 0 /\ dac = 0
      BY <1>1, DeviceAssumption DEF Init
    <3> QED BY <3>1, Scales
  <2>2. out \in [ad : 0 .. AdcMax, daResult : 0 .. DacMax, daOut : 0 .. HalfWord - 1]
    <3>1. PICK r \in {0, 1} : out = [ad |-> r * AdcMax, daResult |-> r * DacMax, daOut |-> 0]
      BY DEF Init
    <3>2. r * AdcMax \in 0 .. AdcMax /\ r * DacMax \in 0 .. DacMax /\ 0 \in 0 .. HalfWord - 1
      BY Scales
    <3> QED BY <3>1, <3>2
  <2> QED BY <2>1, <2>2, Scales DEF OutTyped
<1>5. FilterTyped
  <2>1. filter = Stopped
    BY DEF Init
  <2> QED BY <2>1, StoppedTyped, Scales DEF FilterTyped
<1> QED BY <1>1, <1>2, <1>3, <1>4, <1>5 DEF TInv

(* Whatever command comes: the filter keeps its windows or, when its level *)
(* changes, is stopped.                                                    *)
LEMMA HandleTyped ==
  ASSUME TInv, ModbusHandle
  PROVE  TInv'
<1>1. PICK q \in host.requests :
        \/ ModbusFunc03(q) \/ ModbusFunc04_26(q) \/ ModbusFunc05(q) \/ ModbusFunc10(q)
        \/ ModbusFunc25(q) \/ ModbusFunc27(q) \/ UnknownFunction(q)
  BY DEF ModbusHandle
<1>2. UNCHANGED <<host, raw, FilterResult, out, dac>>
  BY DEF ModbusHandle
<1>3. host \in Hosts /\ ParamsTyped /\ CalibTyped /\ OutTyped /\ FilterTyped
  BY DEF TInv
<1>4. OutTyped' /\ host' \in Hosts
  BY <1>2, <1>3 DEF OutTyped
<1>5. /\ ParamsTyped' /\ CalibTyped'
      /\ filter' = Stopped \/ (filter' = filter /\ ram'["FilterFactor"] = ram["FilterFactor"])
  <2>0. ASSUME UNCHANGED calVars, UNCHANGED <<InRomWrEn, Freeze>> PROVE CalibTyped'
    BY <1>3, <2>0, Zenon DEF CalibTyped, calVars
  <2>1. CASE ModbusFunc03(q) \/ ModbusFunc04_26(q) \/ UnknownFunction(q)
    <3>1. NothingElse
      BY <2>1 DEF ModbusFunc03, ModbusFunc04_26, UnknownFunction
    <3> QED BY <1>3, <2>0, <3>1 DEF NothingElse, ParamsTyped, paramVars
  <2>2. CASE ModbusFunc05(q)
    BY <2>2, Func05Typed
  <2>3. CASE ModbusFunc10(q)
    BY <1>3, <2>0, <2>3, Func10Typed
  <2>4. CASE ModbusFunc25(q)
    BY <2>4, Func25Typed
  <2>5. CASE ModbusFunc27(q)
    BY <1>3, <2>0, <2>5, Func27Typed
  <2> QED BY <1>1, <2>1, <2>2, <2>3, <2>4, <2>5
<1>6. FilterTyped'
  <2>1. CASE filter' = Stopped
    BY <2>1, StoppedTyped, Scales DEF FilterTyped
  <2>2. CASE filter' = filter /\ ram'["FilterFactor"] = ram["FilterFactor"]
    BY <1>3, <2>2 DEF FilterTyped, Level
  <2> QED BY <1>5, <2>1, <2>2
<1> QED BY <1>4, <1>5, <1>6 DEF TInv

(* Every step; a restart needs that parameters reload.                     *)
LEMMA TInvStep == TInv /\ PInv /\ [Next]_vars => TInv'
<1> SUFFICES ASSUME TInv, PInv, [Next]_vars PROVE TInv'
  OBVIOUS
<1>1. ASSUME UNCHANGED <<paramVars, calVars, host, InRomWrEn, Freeze, raw, FilterResult, out, dac, filter>>
      PROVE  TInv'
  <2>1. ParamsTyped' /\ OutTyped' /\ FilterTyped' /\ host' \in Hosts
    BY <1>1 DEF TInv, ParamsTyped, OutTyped, FilterTyped, Level, paramVars
  <2>2. CalibTyped'
    BY <1>1, Zenon DEF TInv, CalibTyped, calVars
  <2> QED BY <2>1, <2>2 DEF TInv
<1>2. CASE SensorEvent \/ UNCHANGED vars
  BY <1>1, <1>2 DEF SensorEvent, vars, chainVars
<1> QED BY <1>2, HandleTyped, SensorTyped, RestartTyped DEF Next

LEMMA TInvHolds == Spec => []TInv
BY InitTyped, TInvStep, PInvHolds, PTL DEF Spec

(* Types, whatever the host sends and in whatever order: no division by    *)
(* zero or number out of its scale in filter and conversion, with every    *)
(* table a host may write, and restarts between the commands.              *)
THEOREM DeviceTyped == Spec => []TypeOK
BY TInvHolds, TInvTypes, PTL

------------------------------------------------------------------------------
(* The output rises with the level                                         *)

(* The limits are unsigned words.                                          *)
LimitsBelow == \A p \in CapParams : ram[p] < Word

(* Between the limits the unsigned differences do not wrap.                *)
LEMMA ShareWithin ==
  ASSUME ParamsTyped, LimitsBelow, NEW full \in Nat,
         NEW v \in Nat, ram["CapMin"] <= v, v <= ram["CapMax"]
  PROVE  LET den == ram["CapMax"] - ram["CapMin"]
             num == v - ram["CapMin"]
         IN  Share(v, full) = IF num = 0 THEN 0 ELSE (num * full) \div den
<1> DEFINE lo == ram["CapMin"]
           hi == ram["CapMax"]
<1>1. lo \in Nat /\ hi \in Nat /\ hi < Word
  BY TableTyped DEF CapParams, LimitsBelow
<1>2. Share(v, full) =
        IF (v - lo) % Word = 0 THEN 0
        ELSE IF (v - lo) % Word > (hi - lo) % Word THEN full
        ELSE (((v - lo) % Word) * full) \div ((hi - lo) % Word)
  BY DEF Share
<1>3. v - lo \in 0 .. Word - 1 /\ hi - lo \in 0 .. Word - 1 /\ ~(v - lo > hi - lo)
  BY <1>1, Scales
<1> HIDE DEF lo, hi
<1>4. (v - lo) % Word = v - lo /\ (hi - lo) % Word = hi - lo
  <2>1. v - lo \in Int /\ hi - lo \in Int
    BY <1>1
  <2> QED BY <1>3, <2>1, ModIs, Scales
<1>5. Share(v, full) = IF v - lo = 0 THEN 0 ELSE ((v - lo) * full) \div (hi - lo)
  BY <1>2, <1>3, <1>4
<1> QED BY <1>5 DEF lo, hi

(* The share does not fall when the level rises.                           *)
LEMMA ShareMonotone ==
  ASSUME ParamsTyped, LimitsBelow, NEW full \in Nat, NEW v \in Nat, NEW w \in Nat,
         ram["CapMin"] <= v, v <= w, w <= ram["CapMax"]
  PROVE  Share(v, full) <= Share(w, full)
<1> DEFINE lo == ram["CapMin"]
           hi == ram["CapMax"]
<1>1. lo \in Nat /\ hi \in Nat
  BY TableTyped DEF CapParams
<1>2. lo <= v /\ v <= w /\ w <= hi
  OBVIOUS
<1>3. Share(v, full) = IF v - lo = 0 THEN 0 ELSE ((v - lo) * full) \div (hi - lo)
  <2>1. v <= ram["CapMax"]
    BY <1>1, <1>2
  <2> QED BY <2>1, ShareWithin
<1>4. Share(w, full) = IF w - lo = 0 THEN 0 ELSE ((w - lo) * full) \div (hi - lo)
  <2>1. ram["CapMin"] <= w
    BY <1>1, <1>2
  <2> QED BY <2>1, ShareWithin
<1>5. Share(w, full) \in 0 .. full
  <2>1. w \in Int /\ full \in Int
    OBVIOUS
  <2> QED BY <2>1, ShareTyped
<1> HIDE DEF lo, hi
<1>6. CASE v = lo
  BY <1>1, <1>3, <1>5, <1>6
<1>7. CASE v # lo
  <2>1. hi - lo \in Nat \ {0} /\ w # lo /\ v - lo \in Nat /\ w - lo \in Nat /\ v - lo <= w - lo
    BY <1>1, <1>2, <1>7
  <2>2. (v - lo) * full <= (w - lo) * full
    <3>1. full * (v - lo) <= full * (w - lo)
      BY <2>1, ProductMonotone
    <3> QED BY <2>1, <3>1
  <2>3. (v - lo) * full \in Int /\ (w - lo) * full \in Int
    BY <2>1
  <2>4. ((v - lo) * full) \div (hi - lo) <= ((w - lo) * full) \div (hi - lo)
    BY <2>1, <2>2, <2>3, DivMonotone
  <2>5. v - lo # 0 /\ w - lo # 0
    BY <1>1, <1>7, <2>1
  <2> QED BY <1>3, <1>4, <2>4, <2>5
<1> QED BY <1>6, <1>7

(* Between two points that ascend.                                         *)
OnSegment(i, ad) == ram[AD[i]] <= ad /\ ad < ram[AD[i + 1]]

(* Both ends of a segment.                                                 *)
LEMMA PointsAre ==
  ASSUME ParamsTyped, NEW i \in 1 .. 3
  PROVE  /\ ram[AD[i]] \in Nat /\ ram[AD[i + 1]] \in Nat
         /\ ram[DA[i]] \in Nat /\ ram[DA[i + 1]] \in Nat
         /\ ram[DA[i]] < HalfWord /\ ram[DA[i + 1]] < HalfWord
<1>1. i \in 1 .. 4 /\ i + 1 \in 1 .. 4
  OBVIOUS
<1>2. \A j \in 1 .. 4 : ram[AD[j]] \in Nat
  BY TableTyped
<1>3. \A j \in 1 .. 4 : ram[DA[j]] \in Nat /\ ram[DA[j]] < HalfWord
  BY TableTyped, Scales
<1> QED BY <1>1, <1>2, <1>3

(* On a segment that ascends nothing wraps: the output is between its      *)
(* points.                                                                 *)
LEMMA InterpolatedWithin ==
  ASSUME ParamsTyped, NEW i \in 1 .. 3, NEW ad \in Nat, OnSegment(i, ad), ram[DA[i]] < ram[DA[i + 1]]
  PROVE  /\ Interpolated(i, ad) =
              ((ad - ram[AD[i]]) * (ram[DA[i + 1]] - ram[DA[i]])) \div (ram[AD[i + 1]] - ram[AD[i]]) + ram[DA[i]]
         /\ Interpolated(i, ad) \in ram[DA[i]] .. ram[DA[i + 1]]
<1> DEFINE a == ram[AD[i]]
           b == ram[AD[i + 1]]
           c == ram[DA[i]]
           d == ram[DA[i + 1]]
           q == ((ad - a) * (d - c)) \div (b - a)
<1>1. a \in Nat /\ b \in Nat /\ c \in Nat /\ d \in Nat /\ d < HalfWord /\ c < d /\ a <= ad /\ ad < b
  BY PointsAre DEF OnSegment
<1>2. Interpolated(i, ad) = (((ad - a) * ((d - c) % HalfWord)) \div (b - a) + c) % HalfWord
  BY DEF Interpolated
<1> HIDE DEF a, b, c, d
<1>3. (d - c) % HalfWord = d - c
  <2>1. d - c \in Int /\ d - c \in 0 .. HalfWord - 1
    BY <1>1, Scales
  <2> QED BY <2>1, ModIs, Scales
<1>4. b - a \in Nat \ {0} /\ ad - a \in Nat /\ d - c \in Nat /\ ad - a <= b - a
  BY <1>1
<1>5. (ad - a) * (d - c) \in Nat
  BY <1>4, SMT
<1>6. q \in Int /\ 0 <= q /\ q <= d - c
  <2>1. q \in Int
    BY <1>4, <1>5, DivIs
  <2>2. 0 <= q
    <3>1. (b - a) * 0 <= (ad - a) * (d - c)
      BY <1>4, <1>5
    <3> QED BY <1>4, <1>5, <3>1, DivAtLeast
  <2>3. q <= d - c
    <3>1. (d - c) * (ad - a) <= (d - c) * (b - a)
      BY <1>4, ProductMonotone
    <3>2. (ad - a) * (d - c) <= (b - a) * (d - c)
      BY <1>4, <3>1
    <3> QED BY <1>4, <1>5, <3>2, DivAtMost
  <2> QED BY <2>1, <2>2, <2>3
<1>7. Interpolated(i, ad) = (q + c) % HalfWord
  BY <1>2, <1>3
<1> HIDE DEF q
<1>8. q + c \in Int /\ q + c \in 0 .. HalfWord - 1 /\ q + c \in c .. d
  BY <1>1, <1>6, Scales
<1>9. (q + c) % HalfWord = q + c
  BY <1>8, ModIs, Scales
<1> QED BY <1>7, <1>8, <1>9 DEF q, a, b, c, d

(* It does not fall on the segment.                                        *)
LEMMA InterpolatedMonotone ==
  ASSUME ParamsTyped, NEW i \in 1 .. 3, NEW x \in Nat, NEW y \in Nat, x <= y,
         OnSegment(i, x), OnSegment(i, y), ram[DA[i]] < ram[DA[i + 1]]
  PROVE  Interpolated(i, x) <= Interpolated(i, y)
<1> DEFINE a == ram[AD[i]]
           b == ram[AD[i + 1]]
           c == ram[DA[i]]
           d == ram[DA[i + 1]]
<1>1. a \in Nat /\ b \in Nat /\ c \in Nat /\ d \in Nat /\ c < d /\ a <= x /\ x < b /\ a <= y
  BY PointsAre DEF OnSegment
<1>2. /\ Interpolated(i, x) = ((x - a) * (d - c)) \div (b - a) + c
      /\ Interpolated(i, y) = ((y - a) * (d - c)) \div (b - a) + c
  BY InterpolatedWithin
<1> HIDE DEF a, b, c, d
<1>3. b - a \in Nat \ {0} /\ x - a \in Nat /\ y - a \in Nat /\ d - c \in Nat /\ x - a <= y - a
  BY <1>1
<1>4. (x - a) * (d - c) \in Int /\ (y - a) * (d - c) \in Int
  BY <1>3
<1>5. (x - a) * (d - c) <= (y - a) * (d - c)
  <2>1. (d - c) * (x - a) <= (d - c) * (y - a)
    BY <1>3, ProductMonotone
  <2> QED BY <1>3, <2>1
<1>6. ((x - a) * (d - c)) \div (b - a) <= ((y - a) * (d - c)) \div (b - a)
  BY <1>3, <1>4, <1>5, DivMonotone
<1>7. ((x - a) * (d - c)) \div (b - a) \in Int /\ ((y - a) * (d - c)) \div (b - a) \in Int
  BY <1>3, <1>4, DivIs
<1> QED BY <1>1, <1>2, <1>6, <1>7

(* Tables in order.                                                        *)
Ascends(m, t) == \A i \in 1 .. 4, j \in 1 .. 4 : i < j => m[t[i]] < m[t[j]]

(* From neighbours to any two points.                                      *)
LEMMA InOrderAscends ==
  ASSUME NEW m, NEW t, \A i \in 1 .. 4 : m[t[i]] \in Nat, InOrder(m, t)
  PROVE  Ascends(m, t)
<1> DEFINE x(i) == m[t[i]]
<1>1. x(1) \in Nat /\ x(2) \in Nat /\ x(3) \in Nat /\ x(4) \in Nat
  OBVIOUS
<1>2. x(1) < x(2) /\ x(2) < x(3) /\ x(3) < x(4)
  BY DEF InOrder
<1> HIDE DEF x
<1>3. \A i \in 1 .. 4, j \in 1 .. 4 : i < j => x(i) < x(j)
  <2> SUFFICES ASSUME NEW i \in 1 .. 4, NEW j \in 1 .. 4, i < j PROVE x(i) < x(j)
    OBVIOUS
  <2>1. \/ i = 1 /\ j \in {2, 3, 4}
        \/ i = 2 /\ j \in {3, 4}
        \/ i = 3 /\ j = 4
    OBVIOUS
  <2> QED BY <1>1, <1>2, <2>1
<1> QED BY <1>3 DEF Ascends, x

(* An AD value is below the table, on exactly one segment, or above it.    *)
LEMMA OnTableAt ==
  ASSUME ParamsTyped, Ascends(ram, AD), NEW ad \in Nat
  PROVE  /\ ad < ram[AD[1]] => OnTable(ad) = ram[DA[1]]
         /\ \A i \in 1 .. 3 : OnSegment(i, ad) => OnTable(ad) = Interpolated(i, ad)
         /\ ram[AD[4]] <= ad => OnTable(ad) = ram[DA[4]]
         /\ ad < ram[AD[1]] \/ (\E i \in 1 .. 3 : OnSegment(i, ad)) \/ ram[AD[4]] <= ad
<1>0. \A i \in 1 .. 4 : ram[AD[i]] \in Nat
  BY TableTyped
<1>1. ASSUME NEW i \in 1 .. 3, OnSegment(i, ad) PROVE ~(ad < ram[AD[1]]) /\ At(ad) = {i}
  <2>1. ram[AD[1]] <= ram[AD[i]]
    BY <1>0 DEF Ascends
  <2>2. ASSUME NEW j \in 1 .. 3, OnSegment(j, ad), j # i PROVE FALSE
    <3>1. i + 1 \in 1 .. 4 /\ j + 1 \in 1 .. 4
      OBVIOUS
    <3>2. ASSUME i < j PROVE FALSE
      <4>1. ram[AD[i + 1]] <= ram[AD[j]]
        BY <1>0, <3>1, <3>2 DEF Ascends
      <4> QED BY <1>0, <1>1, <2>2, <3>1, <4>1 DEF OnSegment
    <3>3. ASSUME j < i PROVE FALSE
      <4>1. ram[AD[j + 1]] <= ram[AD[i]]
        BY <1>0, <3>1, <3>3 DEF Ascends
      <4> QED BY <1>0, <1>1, <2>2, <3>1, <4>1 DEF OnSegment
    <3> QED BY <2>2, <3>2, <3>3
  <2>3. ram[AD[i]] \in Nat /\ ram[AD[1]] \in Nat
    BY <1>0
  <2>4. ~(ad < ram[AD[1]])
    BY <1>1, <2>1, <2>3 DEF OnSegment
  <2>5. At(ad) = {i}
    BY <1>1, <2>2 DEF At, OnSegment
  <2> QED BY <2>4, <2>5
<1>2. ASSUME NEW i \in 1 .. 3, OnSegment(i, ad) PROVE OnTable(ad) = Interpolated(i, ad)
  <2>1. ~(ad < ram[AD[1]]) /\ At(ad) = {i}
    BY <1>1, <1>2
  <2>2. First({i}) = i
    <3>1. {i} \in SUBSET (1 .. 3) /\ {i} # {}
      OBVIOUS
    <3> QED BY <3>1, FirstOf
  <2> QED BY <2>1, <2>2, OnTableIs
<1>3. ASSUME ram[AD[4]] <= ad PROVE OnTable(ad) = ram[DA[4]]
  <2>1. ram[AD[1]] < ram[AD[4]]
    BY DEF Ascends
  <2>2. At(ad) = {}
    <3>1. ASSUME NEW i \in 1 .. 3, ad < ram[AD[i + 1]] PROVE FALSE
      <4>1. i + 1 \in 1 .. 4
        OBVIOUS
      <4>2. ram[AD[i + 1]] <= ram[AD[4]]
        BY <1>0, <4>1 DEF Ascends
      <4> QED BY <1>0, <1>3, <3>1, <4>1, <4>2
    <3> QED BY <3>1 DEF At
  <2>3. ~(ad < ram[AD[1]])
    BY <1>0, <1>3, <2>1
  <2> QED BY <2>2, <2>3, OnTableIs
<1>4. ad < ram[AD[1]] \/ (\E i \in 1 .. 3 : OnSegment(i, ad)) \/ ram[AD[4]] <= ad
  <2>1. ram[AD[1]] \in Nat /\ ram[AD[2]] \in Nat /\ ram[AD[3]] \in Nat /\ ram[AD[4]] \in Nat
    BY <1>0
  <2>2. /\ (ram[AD[1]] <= ad /\ ad < ram[AD[2]]) => OnSegment(1, ad)
        /\ (ram[AD[2]] <= ad /\ ad < ram[AD[3]]) => OnSegment(2, ad)
        /\ (ram[AD[3]] <= ad /\ ad < ram[AD[4]]) => OnSegment(3, ad)
    BY DEF OnSegment
  <2> QED BY <2>1, <2>2
<1> QED BY <1>2, <1>3, <1>4, OnTableIs

(* The output keeps to the table's ends.                                   *)
LEMMA OnTableWithin ==
  ASSUME ParamsTyped, Ascends(ram, AD), Ascends(ram, DA), NEW ad \in Nat
  PROVE  ram[DA[1]] <= OnTable(ad) /\ OnTable(ad) <= ram[DA[4]]
<1>0. \A i \in 1 .. 4 : ram[DA[i]] \in Nat
  <2>1. \A i \in 1 .. 4 : ram[DA[i]] \in 0 .. HalfWord - 1
    BY TableTyped
  <2> QED BY <2>1, Scales
<1>1. ram[DA[1]] < ram[DA[4]] /\ ram[DA[1]] \in Nat /\ ram[DA[4]] \in Nat
  BY <1>0 DEF Ascends
<1>2. ASSUME NEW i \in 1 .. 3, OnSegment(i, ad)
      PROVE  ram[DA[1]] <= OnTable(ad) /\ OnTable(ad) <= ram[DA[4]]
  <2>1. i \in 1 .. 4 /\ i + 1 \in 1 .. 4 /\ i < i + 1 /\ (i = 1 \/ 1 < i) /\ (i + 1 = 4 \/ i + 1 < 4)
    OBVIOUS
  <2>2. ram[DA[i]] < ram[DA[i + 1]] /\ ram[DA[1]] <= ram[DA[i]] /\ ram[DA[i + 1]] <= ram[DA[4]]
    BY <1>0, <2>1 DEF Ascends
  <2>3. Interpolated(i, ad) \in ram[DA[i]] .. ram[DA[i + 1]]
    BY <1>2, <2>2, InterpolatedWithin
  <2>4. OnTable(ad) = Interpolated(i, ad)
    BY <1>2, OnTableAt
  <2>5. ram[DA[i]] \in Nat /\ ram[DA[i + 1]] \in Nat
    BY <1>0, <2>1
  <2> QED BY <1>1, <2>2, <2>3, <2>4, <2>5
<1>3. CASE ad < ram[AD[1]] \/ ram[AD[4]] <= ad
  <2>1. OnTable(ad) = ram[DA[1]] \/ OnTable(ad) = ram[DA[4]]
    BY <1>3, OnTableAt
  <2> QED BY <1>1, <2>1
<1>4. ad < ram[AD[1]] \/ (\E i \in 1 .. 3 : OnSegment(i, ad)) \/ ram[AD[4]] <= ad
  BY OnTableAt
<1> QED BY <1>2, <1>3, <1>4

(* From segment to segment it does not fall either.                        *)
LEMMA OnTableMonotone ==
  ASSUME ParamsTyped, Ascends(ram, AD), Ascends(ram, DA), NEW x \in Nat, NEW y \in Nat, x <= y
  PROVE  OnTable(x) <= OnTable(y)
<1>0. \A i \in 1 .. 4 : ram[DA[i]] \in Nat /\ ram[AD[i]] \in Nat
  <2>1. \A i \in 1 .. 4 : ram[DA[i]] \in 0 .. HalfWord - 1
    BY TableTyped
  <2> QED BY <2>1, TableTyped, Scales
<1>00. OnTable(x) \in Nat /\ OnTable(y) \in Nat
  <2>1. OnTable(x) \in 0 .. HalfWord - 1 /\ OnTable(y) \in 0 .. HalfWord - 1
    BY OnTableTyped
  <2> QED BY <2>1, Scales
<1>1. CASE x < ram[AD[1]]
  BY <1>1, OnTableAt, OnTableWithin
<1>2. CASE ram[AD[4]] <= y
  BY <1>2, OnTableAt, OnTableWithin
<1>3. CASE ~(x < ram[AD[1]]) /\ ~(ram[AD[4]] <= y)
  <2>1. PICK i \in 1 .. 3 : OnSegment(i, x)
    <3>1. ~(ram[AD[4]] <= x)
      BY <1>0, <1>3
    <3> QED BY <1>3, <3>1, OnTableAt
  <2>2. PICK j \in 1 .. 3 : OnSegment(j, y)
    <3>1. ~(y < ram[AD[1]])
      BY <1>0, <1>3
    <3> QED BY <1>3, <3>1, OnTableAt
  <2>3. OnTable(x) = Interpolated(i, x) /\ OnTable(y) = Interpolated(j, y)
    BY <2>1, <2>2, OnTableAt
  <2>4. i + 1 \in 1 .. 4 /\ j + 1 \in 1 .. 4 /\ i \in 1 .. 4 /\ j \in 1 .. 4
    OBVIOUS
  <2>5. ram[DA[i]] < ram[DA[i + 1]] /\ ram[DA[j]] < ram[DA[j + 1]]
    BY <2>4 DEF Ascends
  <2>6. CASE i = j
    BY <2>1, <2>2, <2>3, <2>5, <2>6, InterpolatedMonotone
  <2>7. CASE i < j
    <3>1. ram[DA[i + 1]] <= ram[DA[j]]
      BY <1>0, <2>4, <2>7 DEF Ascends
    <3>2. Interpolated(i, x) \in ram[DA[i]] .. ram[DA[i + 1]] /\ Interpolated(j, y) \in ram[DA[j]] .. ram[DA[j + 1]]
      BY <2>1, <2>2, <2>5, InterpolatedWithin
    <3>3. ram[DA[i]] \in Nat /\ ram[DA[i + 1]] \in Nat /\ ram[DA[j]] \in Nat /\ ram[DA[j + 1]] \in Nat
      BY <1>0, <2>4
    <3> QED BY <2>3, <3>1, <3>2, <3>3
  <2>8. CASE j < i
    <3>1. ram[AD[j + 1]] <= ram[AD[i]]
      BY <1>0, <2>4, <2>8 DEF Ascends
    <3>2. ram[AD[i]] <= x /\ y < ram[AD[j + 1]]
      BY <2>1, <2>2 DEF OnSegment
    <3>3. ram[AD[i]] \in Nat /\ ram[AD[j + 1]] \in Nat
      BY <1>0, <2>4
    <3> QED BY <3>1, <3>2, <3>3
  <2> QED BY <2>6, <2>7, <2>8
<1> QED BY <1>1, <1>2, <1>3

(* Nor without inner points.                                               *)
LEMMA LinearMonotone ==
  ASSUME ParamsTyped, LimitsBelow, ram[DA[1]] < ram[DA[4]], NEW v \in Nat, NEW w \in Nat,
         ram["CapMin"] <= v, v <= w, w <= ram["CapMax"]
  PROVE  ram[DA[1]] <= Linear(v) /\ Linear(v) <= Linear(w) /\ Linear(w) <= ram[DA[4]]
<1> DEFINE c == ram[DA[1]]
           d == ram[DA[4]]
<1>1. c \in Nat /\ d \in Nat /\ d < HalfWord /\ c < d
  <2>1. 1 \in 1 .. 4 /\ 4 \in 1 .. 4
    OBVIOUS
  <2>2. c \in 0 .. HalfWord - 1 /\ d \in 0 .. HalfWord - 1
    BY <2>1, TableTyped
  <2> QED BY <2>2, Scales
<1>2. Linear(v) = (Share(v, d - c) + c) % HalfWord /\ Linear(w) = (Share(w, d - c) + c) % HalfWord
  BY DEF Linear
<1> HIDE DEF c, d
<1>3. d - c \in Nat
  BY <1>1
<1>4. Share(v, d - c) \in 0 .. d - c /\ Share(w, d - c) \in 0 .. d - c
  <2>1. v \in Int /\ w \in Int /\ d - c \in Int
    BY <1>3
  <2> QED BY <1>3, <2>1, ShareTyped
<1>5. Share(v, d - c) <= Share(w, d - c)
  BY <1>3, ShareMonotone
<1>6. \A s \in 0 .. d - c : (s + c) % HalfWord = s + c
  <2> TAKE s \in 0 .. d - c
  <2>1. s + c \in Int /\ s + c \in 0 .. HalfWord - 1
    BY <1>1, Scales
  <2> QED BY <2>1, ModIs, Scales
<1>7. Linear(v) = Share(v, d - c) + c /\ Linear(w) = Share(w, d - c) + c
  BY <1>2, <1>4, <1>6
<1>8. c <= Linear(v) /\ Linear(v) <= Linear(w) /\ Linear(w) <= d
  BY <1>1, <1>3, <1>4, <1>5, <1>7
<1> QED BY <1>8 DEF c, d

(* A device whose tables are in order and that does not compensate.        *)
LEMMA ConvertedMonotone ==
  ASSUME ParamsTyped, LimitsBelow, TablesInOrder(ram), ram["CompenEn"] # 1,
         NEW v \in Nat, NEW w \in Nat, ram["CapMin"] <= v, v <= w, w <= ram["CapMax"]
  PROVE  /\ Converted(v).daOut <= Converted(w).daOut
         /\ ram[DA[1]] <= Converted(v).daOut /\ Converted(w).daOut <= ram[DA[4]]
<1>1. \A x : Compensated(x) = x
  BY DEF Compensated
<1>2. \A x : Converted(x).daOut =
        IF 0 \in {ram[DA[2]], ram[DA[3]]} THEN Linear(x) ELSE OnTable(Share(x, AdcMax))
  BY <1>1 DEF Converted
<1>3. CASE 0 \in {ram[DA[2]], ram[DA[3]]}
  <2>1. ram[DA[1]] < ram[DA[4]]
    BY DEF TablesInOrder
  <2> QED BY <1>2, <1>3, <2>1, LinearMonotone
<1>4. CASE 0 \notin {ram[DA[2]], ram[DA[3]]}
  <2>1. InOrder(ram, AD) /\ InOrder(ram, DA)
    BY <1>4 DEF TablesInOrder
  <2>2. (\A i \in 1 .. 4 : ram[AD[i]] \in Nat) /\ (\A i \in 1 .. 4 : ram[DA[i]] \in Nat)
    <3>1. \A i \in 1 .. 4 : ram[DA[i]] \in 0 .. HalfWord - 1
      BY TableTyped
    <3> QED BY <3>1, TableTyped, Scales
  <2>3. Ascends(ram, AD) /\ Ascends(ram, DA)
    BY <2>1, <2>2, InOrderAscends
  <2>4. Share(v, AdcMax) \in Nat /\ Share(w, AdcMax) \in Nat /\ Share(v, AdcMax) <= Share(w, AdcMax)
    <3>1. AdcMax \in Nat
      BY Scales
    <3>2. Share(v, AdcMax) \in 0 .. AdcMax /\ Share(w, AdcMax) \in 0 .. AdcMax
      <4>1. v \in Int /\ w \in Int /\ AdcMax \in Int
        BY <3>1
      <4> QED BY <3>1, <4>1, ShareTyped
    <3>3. Share(v, AdcMax) <= Share(w, AdcMax)
      BY <3>1, ShareMonotone
    <3> QED BY <3>1, <3>2, <3>3
  <2>5. OnTable(Share(v, AdcMax)) <= OnTable(Share(w, AdcMax))
    BY <2>3, <2>4, OnTableMonotone
  <2>6. ram[DA[1]] <= OnTable(Share(v, AdcMax)) /\ OnTable(Share(w, AdcMax)) <= ram[DA[4]]
    BY <2>3, <2>4, OnTableWithin
  <2> QED BY <1>2, <1>4, <2>5, <2>6
<1> QED BY <1>3, <1>4

------------------------------------------------------------------------------
(* What calibration by capture keeps                                       *)

(* A device that does not compensate, with tables in order, limits and     *)
(* what may become one below 2^32 and stored as integers.                  *)
CapturedNow ==
  /\ ram["CompenEn"] # 1 /\ TablesInOrder(ram)
  /\ LimitsBelow
  /\ \A p \in CapParams : flash[p].enc = "int"
  /\ raw < Word /\ \A e \in Ends : Calib["cap"][e] < Word

Captured == ByCapture => CapturedNow

(* What no store of a pair of limits or of another table touches.          *)
LEMMA TablesKept ==
  ASSUME TablesInOrder(ram), \A p \in AdTable \cup DaTable : ram'[p] = ram[p]
  PROVE  TablesInOrder(ram')
<1>1. \A i \in 1 .. 4 : ram'[AD[i]] = ram[AD[i]] /\ ram'[DA[i]] = ram[DA[i]]
  BY DEF AdTable, DaTable
<1>2. \A i \in 1 .. 3 : i \in 1 .. 4 /\ i + 1 \in 1 .. 4
  OBVIOUS
<1>3. InOrder(ram, AD) => InOrder(ram', AD)
  BY <1>1, <1>2 DEF InOrder
<1>4. InOrder(ram, DA) => InOrder(ram', DA)
  BY <1>1, <1>2 DEF InOrder
<1>5. ram'[DA[1]] = ram[DA[1]] /\ ram'[DA[2]] = ram[DA[2]] /\ ram'[DA[3]] = ram[DA[3]] /\ ram'[DA[4]] = ram[DA[4]]
  BY <1>1
<1> QED BY <1>3, <1>4, <1>5 DEF TablesInOrder

(* What a store leaves in a parameter, at both places.                     *)
LEMMA StoreAt ==
  ASSUME ParamsTyped, NEW new, Store(new), NEW p \in Params
  PROVE  /\ ram'[p] = IF p \in DOMAIN new THEN new[p] ELSE ram[p]
         /\ flash'[p] = IF p \in DOMAIN new THEN IntCell(new[p]) ELSE flash[p]
<1> DEFINE cells == [x \in DOMAIN new |-> IntCell(new[x])]
<1>1. ram' = Over(new, ram) /\ flash' = Over(cells, flash) /\ DOMAIN cells = DOMAIN new
  BY DEF Store
<1>2. DOMAIN ram = Params /\ DOMAIN flash = Params
  BY DEF ParamsTyped
<1>3. p \in DOMAIN new => cells[p] = IntCell(new[p])
  OBVIOUS
<1> HIDE DEF cells
<1> QED BY <1>1, <1>2, <1>3, OverAt

(* Limits below 2^32 go to both places.                                    *)
LEMMA CapWriteCaptured ==
  ASSUME ParamsTyped, CapturedNow, NEW c \in [Ends -> Nat], \A e \in Ends : c[e] < Word,
         MB_Cap_Calibration(c)
  PROVE  /\ ram'["CompenEn"] # 1 /\ TablesInOrder(ram') /\ LimitsBelow'
         /\ \A p \in CapParams : flash'[p].enc = "int"
<1>1. CASE UNCHANGED paramVars
  BY <1>1 DEF CapturedNow, paramVars, LimitsBelow, TablesInOrder, InOrder
<1>2. CASE Store(CapPair(c))
  <2> DEFINE new == CapPair(c)
  <2>1. DOMAIN new \subseteq CapParams /\ \A p \in DOMAIN new : new[p] < Word
    BY DEF CapPair, CapParams, Ends
  <2>2. Store(new)
    BY <1>2
  <2> HIDE DEF new
  <2>3. \A p \in CapParams : ram'[p] < Word /\ flash'[p].enc = "int"
    <3> SUFFICES ASSUME NEW p \in CapParams PROVE ram'[p] < Word /\ flash'[p].enc = "int"
      OBVIOUS
    <3>1. p \in Params
      BY ParamsApart
    <3>2. CASE p \in DOMAIN new
      <4>1. ram'[p] = new[p] /\ flash'[p] = IntCell(new[p])
        BY <2>2, <3>1, <3>2, StoreAt
      <4>2. IntCell(new[p]).enc = "int" /\ new[p] < Word
        BY <2>1, <3>2 DEF IntCell
      <4> QED BY <4>1, <4>2
    <3>3. CASE p \notin DOMAIN new
      BY <2>2, <3>1, <3>3, StoreAt DEF CapturedNow, LimitsBelow
    <3> QED BY <3>2, <3>3
  <2>4. \A p \in AdTable \cup DaTable : ram'[p] = ram[p]
    BY <2>1, <2>2, StoreAt, ParamsApart
  <2>5. TablesInOrder(ram')
    BY <2>4, TablesKept DEF CapturedNow
  <2>6. ram'["CompenEn"] = ram["CompenEn"]
    BY <2>1, <2>2, StoreAt, ParamsApart
  <2> QED BY <2>3, <2>5, <2>6 DEF CapturedNow, LimitsBelow
<1> QED BY <1>1, <1>2 DEF MB_Cap_Calibration

(* The end a point of the table comes from.                                *)
LEMMA EndsAre ==
  /\ EndOf("ad", AD[1]) = "Min" /\ EndOf("ad", AD[2]) = "Low"
  /\ EndOf("ad", AD[3]) = "High" /\ EndOf("ad", AD[4]) = "Max"
  /\ EndOf("da", DA[1]) = "Min" /\ EndOf("da", DA[2]) = "Low"
  /\ EndOf("da", DA[3]) = "High" /\ EndOf("da", DA[4]) = "Max"
  /\ TableParams("ad") = AdTable /\ TableParams("da") = DaTable
<1>1. /\ DOMAIN TableOf["ad"] = {"Min", "Low", "High", "Max"}
      /\ DOMAIN TableOf["da"] = {"Min", "Low", "High", "Max"}
      /\ TableOf["ad"]["Min"] = AD[1] /\ TableOf["ad"]["Low"] = AD[2]
      /\ TableOf["ad"]["High"] = AD[3] /\ TableOf["ad"]["Max"] = AD[4]
      /\ TableOf["da"]["Min"] = DA[1] /\ TableOf["da"]["Low"] = DA[2]
      /\ TableOf["da"]["High"] = DA[3] /\ TableOf["da"]["Max"] = DA[4]
  BY DEF TableOf
<1>2. AD[1] # AD[2] /\ AD[1] # AD[3] /\ AD[1] # AD[4] /\ AD[2] # AD[3] /\ AD[2] # AD[4] /\ AD[3] # AD[4]
  BY DEF AD
<1>3. DA[1] # DA[2] /\ DA[1] # DA[3] /\ DA[1] # DA[4] /\ DA[2] # DA[3] /\ DA[2] # DA[4] /\ DA[3] # DA[4]
  BY DEF DA
<1>4. TableParams("ad") = {AD[1], AD[2], AD[3], AD[4]} /\ TableParams("da") = {DA[1], DA[2], DA[3], DA[4]}
  BY <1>1 DEF TableParams
<1>5. TableParams("ad") = AdTable /\ TableParams("da") = DaTable
  <2>1. AdTable = {AD[1], AD[2], AD[3], AD[4]} /\ DaTable = {DA[1], DA[2], DA[3], DA[4]}
    BY DEF AdTable, DaTable, AD, DA
  <2> QED BY <1>4, <2>1
<1>6. \A e \in {"Min", "Low", "High", "Max"} : EndOf("ad", TableOf["ad"][e]) = e
  BY <1>1, <1>2 DEF EndOf
<1>7. \A e \in {"Min", "Low", "High", "Max"} : EndOf("da", TableOf["da"][e]) = e
  BY <1>1, <1>3 DEF EndOf
<1> QED BY <1>1, <1>5, <1>6, <1>7

(* What a calibration that ends leaves.                                    *)
LEMMA CalibrationOrders ==
  ASSUME ParamsTyped, TablesInOrder(ram), NEW k \in Calibrated, NEW f, NEW c \in [Ends -> Nat],
         Calibration(k, f, c)
  PROVE  /\ TablesInOrder(ram')
         /\ \A p \in CapParams \cup {"CompenEn"} : ram'[p] = ram[p] /\ flash'[p] = flash[p]
         /\ k # "cap" /\ Calib'["cap"] = Calib["cap"]
<1> DEFINE pts == Points(k, f, c)
           new == [p \in TableParams(k) |-> pts[EndOf(k, p)]]
<1>0. k # "cap"
  BY DEF Calibrated
<1>1. CASE ~Acceptable(k, f, c)
  BY <1>0, <1>1 DEF Calibration, TablesInOrder, InOrder
<1>2. CASE Acceptable(k, f, c)
  <2>1. Store(new) /\ Calib' = [Calib EXCEPT ![k] = pts] /\ DOMAIN new = TableParams(k)
    BY <1>2 DEF Calibration
  <2>2. \A p \in DOMAIN new : new[p] = pts[EndOf(k, p)]
    OBVIOUS
  <2>3. "Min" \in Ends /\ "Low" \in Ends /\ "High" \in Ends /\ "Max" \in Ends
    BY DEF Ends
  <2>4. Points(k, f, c) = IF EndsOnly(k, f) THEN [c EXCEPT !["Low"] = 0, !["High"] = 0] ELSE c
    BY DEF Points
  <2>5. /\ pts["Min"] = c["Min"] /\ pts["Max"] = c["Max"]
        /\ EndsOnly(k, f) => pts["Low"] = 0
        /\ ~EndsOnly(k, f) => pts["Low"] = c["Low"] /\ pts["High"] = c["High"]
    BY <2>3, <2>4
  <2> HIDE DEF pts
  <2>6. Calib'["cap"] = Calib["cap"]
    BY <1>0, <2>1
  <2> HIDE DEF new
  <2>7. \A p \in CapParams \cup {"CompenEn"} : ram'[p] = ram[p] /\ flash'[p] = flash[p]
    <3>1. \A p \in CapParams \cup {"CompenEn"} : p \in Params /\ p \notin DOMAIN new
      BY <2>1, ParamsApart, TablesAre
    <3> QED BY <2>1, <3>1, StoreAt
  <2>8. \A p \in Params : ram'[p] = IF p \in DOMAIN new THEN new[p] ELSE ram[p]
    BY <2>1, StoreAt
  <2>9. \A i \in 1 .. 4 : AD[i] \in AdTable /\ DA[i] \in DaTable
    BY DEF AdTable, DaTable
  <2>10. TablesInOrder(ram')
    <3>1. CASE k = "temp"
      <4>1. \A p \in AdTable \cup DaTable : p \in Params /\ p \notin DOMAIN new
        <5>1. TableParams("temp") = {TempDA[1], TempDA[2]}
          BY DEF TableParams, TableOf
        <5>2. TempDA[1] \notin AdTable \cup DaTable /\ TempDA[2] \notin AdTable \cup DaTable
          BY DEF TempDA, AdTable, DaTable, AD, DA
        <5> QED BY <2>1, <3>1, <5>1, <5>2, ParamsApart
      <4> QED BY <2>8, <4>1, TablesKept
    <3>2. CASE k = "ad"
      <4>1. Ascending(c) /\ ~EndsOnly(k, f)
        BY <1>2, <3>2 DEF Acceptable, EndsOnly
      <4>2. /\ ram'[AD[1]] = c["Min"] /\ ram'[AD[2]] = c["Low"]
            /\ ram'[AD[3]] = c["High"] /\ ram'[AD[4]] = c["Max"]
        <5>1. \A i \in 1 .. 4 : AD[i] \in DOMAIN new /\ AD[i] \in Params
          BY <2>1, <2>9, <3>2, EndsAre, ParamsApart
        <5>2. \A i \in 1 .. 4 : ram'[AD[i]] = pts[EndOf("ad", AD[i])]
          BY <2>2, <2>8, <3>2, <5>1
        <5> QED BY <2>5, <4>1, <5>2, EndsAre
      <4>3. InOrder(ram', AD)
        <5>1. \A i \in 1 .. 3 : i = 1 \/ i = 2 \/ i = 3
          OBVIOUS
        <5>2. c["Min"] < c["Low"] /\ c["Low"] < c["High"] /\ c["High"] < c["Max"]
          BY <4>1 DEF Ascending
        <5> QED BY <4>2, <5>1, <5>2 DEF InOrder
      <4>4. \A p \in DaTable : ram'[p] = ram[p]
        BY <2>1, <2>8, <3>2, EndsAre, ParamsApart
      <4>5. ram'[DA[1]] = ram[DA[1]] /\ ram'[DA[2]] = ram[DA[2]] /\ ram'[DA[3]] = ram[DA[3]] /\ ram'[DA[4]] = ram[DA[4]]
        BY <2>9, <4>4
      <4>6. InOrder(ram, DA) => InOrder(ram', DA)
        <5>1. \A i \in 1 .. 3 : i = 1 \/ i = 2 \/ i = 3
          OBVIOUS
        <5> QED BY <4>5, <5>1 DEF InOrder
      <4> QED BY <4>3, <4>5, <4>6 DEF TablesInOrder
    <3>3. CASE k = "da"
      <4>1. /\ ram'[DA[1]] = c["Min"] /\ ram'[DA[2]] = pts["Low"]
            /\ ram'[DA[3]] = pts["High"] /\ ram'[DA[4]] = c["Max"]
        <5>1. \A i \in 1 .. 4 : DA[i] \in DOMAIN new /\ DA[i] \in Params
          BY <2>1, <2>9, <3>3, EndsAre, ParamsApart
        <5>2. \A i \in 1 .. 4 : ram'[DA[i]] = pts[EndOf("da", DA[i])]
          BY <2>2, <2>8, <3>3, <5>1
        <5> QED BY <2>5, <5>2, EndsAre
      <4>2. \A p \in AdTable : ram'[p] = ram[p]
        BY <2>1, <2>8, <3>3, EndsAre, ParamsApart
      <4>3. InOrder(ram', AD)
        <5>1. InOrder(ram, AD) /\ \A i \in 1 .. 4 : ram'[AD[i]] = ram[AD[i]]
          BY <2>9, <4>2 DEF TablesInOrder
        <5>2. \A i \in 1 .. 3 : i \in 1 .. 4 /\ i + 1 \in 1 .. 4
          OBVIOUS
        <5> QED BY <5>1, <5>2 DEF InOrder
      <4>4. CASE EndsOnly(k, f)
        <5>1. c["Min"] < c["Max"] /\ pts["Low"] = 0
          BY <1>2, <2>5, <3>3, <4>4 DEF Acceptable
        <5> QED BY <4>1, <4>3, <5>1 DEF TablesInOrder
      <4>5. CASE ~EndsOnly(k, f)
        <5>1. c["Min"] < c["Low"] /\ c["Low"] < c["High"] /\ c["High"] < c["Max"]
          BY <1>2, <3>3, <4>5 DEF Acceptable, Ascending
        <5>2. c["Min"] < c["Max"]
          BY <2>3, <5>1
        <5>3. InOrder(ram', DA)
          <6>1. \A i \in 1 .. 3 : i = 1 \/ i = 2 \/ i = 3
            OBVIOUS
          <6> QED BY <2>5, <4>1, <4>5, <5>1, <6>1 DEF InOrder
        <5> QED BY <4>1, <4>3, <5>2, <5>3 DEF TablesInOrder
      <4> QED BY <4>4, <4>5
    <3> QED BY <3>1, <3>2, <3>3 DEF Calibrated
  <2> QED BY <1>0, <2>6, <2>7, <2>10
<1> QED BY <1>1, <1>2

(* What does not touch limits, compensation and measurement need only keep *)
(* the tables in order.                                                    *)
LEMMA CapturedKept ==
  ASSUME CapturedNow, TablesInOrder(ram'), Calib'["cap"] = Calib["cap"], raw' = raw,
         \A p \in CapParams \cup {"CompenEn"} : ram'[p] = ram[p] /\ flash'[p] = flash[p]
  PROVE  CapturedNow'
BY DEF CapturedNow, LimitsBelow

(* No change of the parameters.                                            *)
LEMMA CapturedParams ==
  ASSUME CapturedNow, UNCHANGED paramVars, raw' = raw, Calib'["cap"] = Calib["cap"]
  PROVE  CapturedNow'
<1>1. ram' = ram /\ flash' = flash
  BY DEF paramVars
<1> QED BY <1>1 DEF CapturedNow, LimitsBelow, TablesInOrder, InOrder

(* Function 05 captures what the chip measured or takes the backup.        *)
LEMMA Func05Captured ==
  ASSUME TInv, CapturedNow, NEW q, ModbusFunc05(q), raw' = raw
  PROVE  CapturedNow'
<1>0. ParamsTyped /\ raw \in Nat /\ Calib \in [Kinds -> [Ends -> Nat]] /\ "cap" \in Kinds
  BY KindsAre DEF TInv, OutTyped, CalibTyped
<1>1. CASE UNCHANGED <<paramVars, Calib, ClibFlag>>
  BY <1>1, CapturedParams
<1>2. ASSUME NEW c \in [Ends -> Nat], \A e \in Ends : c[e] < Word,
             Calib' = [Calib EXCEPT !["cap"] = c], MB_Cap_Calibration(c) \/ UNCHANGED paramVars
      PROVE  CapturedNow'
  <2>1. Calib'["cap"] = c
    BY <1>0, <1>2
  <2>2. /\ ram'["CompenEn"] # 1 /\ TablesInOrder(ram') /\ LimitsBelow'
        /\ \A p \in CapParams : flash'[p].enc = "int"
    <3>1. CASE MB_Cap_Calibration(c)
      BY <1>0, <1>2, <3>1, CapWriteCaptured
    <3>2. CASE UNCHANGED paramVars
      BY <3>2 DEF CapturedNow, LimitsBelow, TablesInOrder, InOrder, paramVars
    <3> QED BY <1>2, <3>1, <3>2
  <2> QED BY <1>2, <2>1, <2>2 DEF CapturedNow
<1>3. ASSUME NEW e \in Ends, CaptureCap(e)
      PROVE  CapturedNow'
  <2> DEFINE c == [Calib["cap"] EXCEPT ![e] = raw]
  <2>1. c \in [Ends -> Nat]
    BY <1>0
  <2>2. \A x \in Ends : c[x] < Word
    BY <1>0 DEF CapturedNow
  <2>3. Calib' = [Calib EXCEPT !["cap"] = c] /\ (MB_Cap_Calibration(c) \/ UNCHANGED paramVars)
    BY <1>3 DEF CaptureCap
  <2> HIDE DEF c
  <2> QED BY <1>2, <2>1, <2>2, <2>3
<1>4. ASSUME RestoreCap
      PROVE  CapturedNow'
  <2> DEFINE c == [Calib["cap"] EXCEPT !["Min"] = ram["CapMinBak"], !["Max"] = ram["CapMaxBak"]]
  <2>0. ram["CapMinBak"] \in Nat /\ ram["CapMaxBak"] \in Nat
    BY <1>0 DEF ParamsTyped, Params, CapParams
  <2>1. c \in [Ends -> Nat]
    BY <1>0, <2>0
  <2>2. \A x \in Ends : c[x] < Word
    BY <1>0 DEF CapturedNow, LimitsBelow, CapParams
  <2>3. Calib' = [Calib EXCEPT !["cap"] = c] /\ MB_Cap_Calibration(c)
    BY <1>4 DEF RestoreCap
  <2> HIDE DEF c
  <2> QED BY <1>2, <2>1, <2>2, <2>3
<1>5. \/ UNCHANGED <<paramVars, Calib, ClibFlag>>
      \/ \E e \in Ends : CaptureCap(e)
      \/ RestoreCap
  <2>1. "Max" \in Ends /\ "Min" \in Ends
    BY DEF Ends
  <2> QED BY <2>1 DEF ModbusFunc05
<1> QED BY <1>1, <1>3, <1>4, <1>5

(* Function 25 stores tables in order or none.                             *)
LEMMA Func25Captured ==
  ASSUME TInv, CapturedNow, NEW q, ModbusFunc25(q), raw' = raw
  PROVE  CapturedNow'
<1>0. ParamsTyped /\ Calib \in [Kinds -> [Ends -> Nat]]
  BY DEF TInv, CalibTyped
<1>1. CASE UNCHANGED <<paramVars, calVars>>
  BY <1>1, CapturedParams DEF calVars
<1>2. ASSUME NEW k \in Calibrated, NEW on, SetEnabled(k, on)
      PROVE  CapturedNow'
  <2>1. PICK f : Calibration(k, f, Calib[k]) \/ UNCHANGED <<paramVars, Calib>>
    BY <1>2 DEF SetEnabled
  <2>2. CASE UNCHANGED <<paramVars, Calib>>
    BY <2>2, CapturedParams
  <2>3. CASE Calibration(k, f, Calib[k])
    <3>1. Calib[k] \in [Ends -> Nat]
      BY <1>0, TablesAre
    <3>2. TablesInOrder(ram)
      BY DEF CapturedNow
    <3>3. /\ TablesInOrder(ram') /\ Calib'["cap"] = Calib["cap"]
          /\ \A p \in CapParams \cup {"CompenEn"} : ram'[p] = ram[p] /\ flash'[p] = flash[p]
      BY <1>0, <2>3, <3>1, <3>2, CalibrationOrders
    <3> QED BY <3>3, CapturedKept
  <2> QED BY <2>1, <2>2, <2>3
<1>3. ASSUME NEW k \in Calibrated, NEW e, Capture(k, e)
      PROVE  CapturedNow'
  <2>1. k # "cap"
    BY DEF Calibrated
  <2>2. Calib' = Calib \/ Calib' = [Calib EXCEPT ![k][e] = Reading(k)]
    BY <1>3 DEF Capture
  <2>3. Calib'["cap"] = Calib["cap"]
    BY <1>0, <2>1, <2>2, KindsAre
  <2>4. UNCHANGED paramVars
    BY <1>3 DEF Capture
  <2> QED BY <2>3, <2>4, CapturedParams
<1>4. \/ UNCHANGED <<paramVars, calVars>>
      \/ \E k \in Calibrated : \E on : SetEnabled(k, on)
      \/ \E k \in Calibrated : \E e : Capture(k, e)
  <2>1. q.reg \in DOMAIN Enables => Enables[q.reg] \in Calibrated
    BY DEF Enables, Calibrated
  <2>2. q.reg \in DOMAIN Captures => Captures[q.reg][1] \in Calibrated
    BY DEF Captures, Calibrated
  <2> QED BY <2>1, <2>2 DEF ModbusFunc25
<1> QED BY <1>1, <1>2, <1>3, <1>4

(* A restart loads what was in use: the limits were stored as integers.    *)
LEMMA RestartCaptured ==
  ASSUME TInv, PInv, CapturedNow, Restart
  PROVE  CapturedNow'
<1>0. flash' = flash /\ flash \in [Params -> [enc : {"int", "float"}, val : Nat]]
  BY DEF Restart, TInv, ParamsTyped
<1>1. \A p \in Params \ {"Correct_B"} : ram'[p] = ram[p]
  <2> SUFFICES ASSUME NEW p \in Params \ {"Correct_B"} PROVE ram'[p] = ram[p]
    OBVIOUS
  <2>1. CASE p \notin Limits
    BY <2>1, RestartKeeps
  <2>2. CASE p \in Limits
    <3>1. flash[p].enc = "int"
      BY <2>2, ParamsApart DEF CapturedNow
    <3>2. flash[p] # FloatCell(ram[p])
      BY <3>1 DEF FloatCell
    <3>3. ram[p] = Load(p, flash[p])
      BY <3>2 DEF PInv, ReloadSame, Reloads
    <3>4. ram'[p] = Load(p, flash[p])
      BY DEF Restart, Loaded
    <3> QED BY <3>3, <3>4
  <2> QED BY <2>1, <2>2
<1>2. raw' < Word
  <2>1. raw' \in host.values /\ host.values \subseteq 0 .. Word - 1
    BY DeviceAssumption DEF Restart, TInv
  <2> QED BY <2>1, Scales
<1>3. \A e \in Ends : Calib'["cap"][e] < Word
  <2>1. Calib'["cap"] = [e \in Ends |-> 0]
    BY KindsAre DEF Restart, NoneCaptured
  <2> QED BY <2>1, Scales
<1>4. TablesInOrder(ram')
  <2>1. \A p \in AdTable \cup DaTable : ram'[p] = ram[p]
    BY <1>1, ParamsApart
  <2> QED BY <2>1, TablesKept DEF CapturedNow
<1>5. ram'["CompenEn"] # 1 /\ LimitsBelow'
  BY <1>1, ParamsApart DEF CapturedNow, LimitsBelow
<1>6. \A p \in CapParams : flash'[p].enc = "int"
  BY <1>0 DEF CapturedNow
<1> QED BY <1>2, <1>3, <1>4, <1>5, <1>6 DEF CapturedNow

(* Every step of a device that only calibrates.                            *)
LEMMA CapturedStep == TInv /\ PInv /\ Captured /\ [Next]_vars => Captured'
<1> SUFFICES ASSUME TInv, PInv, Captured, [Next]_vars, ByCapture' PROVE CapturedNow'
  BY DEF Captured
<1>0. host' = host
  BY DEF Next, vars, ModbusHandle, Sensor_PCap, SensorEvent, Restart
<1>1. ByCapture /\ CapturedNow
  BY <1>0 DEF Captured, ByCapture
<1>2. CASE UNCHANGED <<paramVars, calVars, raw>>
  BY <1>1, <1>2, CapturedParams DEF calVars
<1>3. CASE SensorEvent \/ UNCHANGED vars
  BY <1>2, <1>3 DEF SensorEvent, vars, chainVars
<1>4. CASE Sensor_PCap
  <2>1. PICK v \in host.values : raw' = v
    BY <1>4 DEF Sensor_PCap, Measure
  <2>2. raw' < Word
    <3>1. host.values \subseteq 0 .. Word - 1
      BY DeviceAssumption DEF TInv
    <3> QED BY <2>1, <3>1, Scales
  <2>3. ram' = ram /\ flash' = flash /\ Calib' = Calib
    BY <1>4 DEF Sensor_PCap, paramVars, calVars
  <2> QED BY <1>1, <2>2, <2>3 DEF CapturedNow, LimitsBelow, TablesInOrder, InOrder
<1>5. CASE ModbusHandle
  <2>1. PICK q \in host.requests :
          \/ ModbusFunc03(q) \/ ModbusFunc04_26(q) \/ ModbusFunc05(q) \/ ModbusFunc10(q)
          \/ ModbusFunc25(q) \/ ModbusFunc27(q) \/ UnknownFunction(q)
    BY <1>5 DEF ModbusHandle
  <2>2. raw' = raw
    BY <1>5 DEF ModbusHandle
  <2>3. q.fn # "10" /\ q.fn # "27"
    BY <1>1 DEF ByCapture, OnlyCaptures
  <2>4. ~ModbusFunc10(q) /\ ~ModbusFunc27(q)
    BY <2>3 DEF ModbusFunc10, ModbusFunc27
  <2>5. CASE ModbusFunc03(q) \/ ModbusFunc04_26(q) \/ UnknownFunction(q)
    BY <1>2, <2>2, <2>5 DEF ModbusFunc03, ModbusFunc04_26, UnknownFunction, NothingElse
  <2>6. CASE ModbusFunc05(q)
    BY <1>1, <2>2, <2>6, Func05Captured
  <2>7. CASE ModbusFunc25(q)
    BY <1>1, <2>2, <2>7, Func25Captured
  <2> QED BY <2>1, <2>4, <2>5, <2>6, <2>7
<1>6. CASE Restart
  BY <1>1, <1>6, RestartCaptured
<1> QED BY <1>3, <1>4, <1>5, <1>6 DEF Next

(* The setup of such a device.                                             *)
LEMMA InitCaptured == Init => Captured
<1> SUFFICES ASSUME Init, ByCapture PROVE CapturedNow
  BY DEF Captured
<1>1. host \in Hosts /\ raw \in host.values
  BY DEF Init
<1>2. \A p \in Params \ {"Correct_B"} : ram[p] = host.setup[p] /\ flash[p].enc = "int"
  BY LoadInt DEF Init, Loaded, IntCell
<1>3. host.setup["CompenEn"] # 1 /\ TablesInOrder(host.setup)
  BY <1>1, SetupAssumption DEF ByCapture
<1>4. \A p \in CapParams : host.setup[p] < Word
  BY <1>1, DeviceAssumption
<1>5. TablesInOrder(ram)
  <2>1. \A p \in AdTable \cup DaTable : ram[p] = host.setup[p]
    BY <1>2, ParamsApart
  <2>2. \A i \in 1 .. 4 : ram[AD[i]] = host.setup[AD[i]] /\ ram[DA[i]] = host.setup[DA[i]]
    BY <2>1 DEF AdTable, DaTable
  <2>3. \A i \in 1 .. 3 : i \in 1 .. 4 /\ i + 1 \in 1 .. 4
    OBVIOUS
  <2>4. (InOrder(host.setup, AD) => InOrder(ram, AD)) /\ (InOrder(host.setup, DA) => InOrder(ram, DA))
    BY <2>2, <2>3 DEF InOrder
  <2>5. /\ ram[DA[1]] = host.setup[DA[1]] /\ ram[DA[2]] = host.setup[DA[2]]
        /\ ram[DA[3]] = host.setup[DA[3]] /\ ram[DA[4]] = host.setup[DA[4]]
    BY <2>2
  <2> QED BY <1>3, <2>4, <2>5 DEF TablesInOrder
<1>6. ram["CompenEn"] # 1 /\ LimitsBelow /\ \A p \in CapParams : flash[p].enc = "int"
  BY <1>2, <1>3, <1>4, ParamsApart DEF LimitsBelow
<1>7. raw < Word
  <2>1. host.values \subseteq 0 .. Word - 1
    BY <1>1, DeviceAssumption
  <2> QED BY <1>1, <2>1, Scales
<1>8. \A e \in Ends : Calib["cap"][e] < Word
  BY KindsAre, Scales DEF Init, NoneCaptured
<1> QED BY <1>5, <1>6, <1>7, <1>8 DEF CapturedNow

LEMMA CapturedHolds == Spec => []Captured
BY InitTyped, TInvStep, PInvInit, PInvStep, InitCaptured, CapturedStep, PTL DEF Spec

(* What the invariant is for.                                              *)
LEMMA CapturedMonotone == TInv /\ PInv /\ Captured => MonotoneOutput
<1> SUFFICES ASSUME TInv, PInv, CapturedNow, NEW v \in range.min .. range.max
             PROVE  /\ ram[DA[1]] <= Converted(v).daOut /\ Converted(v).daOut <= ram[DA[4]]
                    /\ v > range.min => Converted(v - 1).daOut <= Converted(v).daOut
  BY DEF MonotoneOutput, Captured
<1>1. ParamsTyped /\ LimitsBelow /\ TablesInOrder(ram) /\ ram["CompenEn"] # 1
  BY DEF TInv, CapturedNow
<1>2. ram["CapMin"] = range.min /\ ram["CapMax"] = range.max /\ range.min \in Nat /\ range.max \in Nat
  BY <1>1 DEF PInv, RangesAgree, ParamsTyped
<1>3. v \in Nat /\ ram["CapMin"] <= v /\ v <= ram["CapMax"]
  BY <1>2
<1>4. ram[DA[1]] <= Converted(v).daOut /\ Converted(v).daOut <= ram[DA[4]]
  <2>1. v <= v
    BY <1>3
  <2> QED BY <1>1, <1>3, <2>1, ConvertedMonotone
<1>5. ASSUME v > range.min PROVE Converted(v - 1).daOut <= Converted(v).daOut
  <2>1. v - 1 \in Nat /\ ram["CapMin"] <= v - 1 /\ v - 1 <= v
    BY <1>2, <1>3, <1>5
  <2> QED BY <1>1, <1>3, <2>1, ConvertedMonotone
<1> QED BY <1>4, <1>5

(* A device that was only ever calibrated by capture: the output rises     *)
(* with the level and keeps to the ends of its table, for every scale and  *)
(* every order of captures, restorings and restarts.                       *)
THEOREM CapturedOutputRises == Spec => []MonotoneOutput
BY TInvHolds, PInvHolds, CapturedHolds, CapturedMonotone, PTL

------------------------------------------------------------------------------
(* Averages of the middle                                                  *)

(* p rearranges the cells from lo to hi and leaves the others.             *)
Shuffles(n, lo, hi) ==
  {p \in [1 .. n -> 1 .. n] :
     /\ \A y \in 1 .. n : \E x \in 1 .. n : p[x] = y
     /\ \A x \in 1 .. n : IF x \in lo .. hi THEN p[x] \in lo .. hi ELSE p[x] = x}
Shuffled(n, a, b, lo, hi) ==
  \E p \in Shuffles(n, lo, hi) : \A x \in 1 .. n : b[x] = a[p[x]]

(* Nothing is rearranged,                                                  *)
LEMMA ShuffledSame ==
  ASSUME NEW n \in Nat, NEW a, NEW lo \in Int, NEW hi \in Int
  PROVE  Shuffled(n, a, a, lo, hi)
<1> DEFINE p == [x \in 1 .. n |-> x]
<1>1. p \in Shuffles(n, lo, hi)
  BY DEF Shuffles
<1>2. \A x \in 1 .. n : a[x] = a[p[x]]
  OBVIOUS
<1> QED BY <1>1, <1>2 DEF Shuffled

(* what was rearranged is rearranged again,                                *)
LEMMA ShuffledTwice ==
  ASSUME NEW n \in Nat, NEW a, NEW b, NEW c, NEW lo \in Int, NEW hi \in Int,
         Shuffled(n, a, b, lo, hi), Shuffled(n, b, c, lo, hi)
  PROVE  Shuffled(n, a, c, lo, hi)
<1>1. PICK p \in Shuffles(n, lo, hi) : \A x \in 1 .. n : b[x] = a[p[x]]
  BY DEF Shuffled
<1>2. PICK q \in Shuffles(n, lo, hi) : \A x \in 1 .. n : c[x] = b[q[x]]
  BY DEF Shuffled
<1> DEFINE r == [x \in 1 .. n |-> p[q[x]]]
<1>3. p \in [1 .. n -> 1 .. n] /\ q \in [1 .. n -> 1 .. n]
  BY DEF Shuffles
<1>4. r \in [1 .. n -> 1 .. n] /\ \A x \in 1 .. n : r[x] = p[q[x]]
  BY <1>3
<1> HIDE DEF r
<1>5. \A y \in 1 .. n : \E x \in 1 .. n : r[x] = y
  <2> TAKE y \in 1 .. n
  <2>1. PICK z \in 1 .. n : p[z] = y
    BY DEF Shuffles
  <2>2. PICK x \in 1 .. n : q[x] = z
    BY DEF Shuffles
  <2> QED BY <1>4, <2>1, <2>2
<1>6. \A x \in 1 .. n : IF x \in lo .. hi THEN r[x] \in lo .. hi ELSE r[x] = x
  BY <1>3, <1>4 DEF Shuffles
<1>7. r \in Shuffles(n, lo, hi)
  BY <1>4, <1>5, <1>6 DEF Shuffles
<1>8. \A x \in 1 .. n : c[x] = a[r[x]]
  BY <1>1, <1>2, <1>3, <1>4
<1> QED BY <1>7, <1>8 DEF Shuffled

(* in a larger part of the cells,                                          *)
LEMMA ShuffledWider ==
  ASSUME NEW n \in Nat, NEW a, NEW b, NEW lo \in Int, NEW hi \in Int, NEW l \in Int, NEW h \in Int,
         l <= lo, hi <= h, Shuffled(n, a, b, lo, hi)
  PROVE  Shuffled(n, a, b, l, h)
<1>1. PICK p \in Shuffles(n, lo, hi) : \A x \in 1 .. n : b[x] = a[p[x]]
  BY DEF Shuffled
<1>2. p \in Shuffles(n, l, h)
  <2>1. p \in [1 .. n -> 1 .. n] /\ \A y \in 1 .. n : \E x \in 1 .. n : p[x] = y
    BY DEF Shuffles
  <2>2. ASSUME NEW x \in 1 .. n
        PROVE  IF x \in l .. h THEN p[x] \in l .. h ELSE p[x] = x
    <3>1. IF x \in lo .. hi THEN p[x] \in lo .. hi ELSE p[x] = x
      BY DEF Shuffles
    <3>2. p[x] \in Int /\ x \in Int
      BY <2>1
    <3> QED BY <3>1, <3>2
  <2> QED BY <2>1, <2>2 DEF Shuffles
<1> QED BY <1>1, <1>2 DEF Shuffled

(* a step of the sort rearranges the two cells it compares.                *)
LEMMA ExchangeShuffles ==
  ASSUME NEW n \in Nat, NEW a \in Cells(n), NEW j \in 1 .. n - 1
  PROVE  Shuffled(n, a, Exchange(a, j), j, j + 1)
<1>1. CASE a[j] > a[j + 1]
  <2> DEFINE p == [x \in 1 .. n |-> IF x = j THEN j + 1 ELSE IF x = j + 1 THEN j ELSE x]
             b == Exchange(a, j)
  <2>1. j \in 1 .. n /\ j + 1 \in 1 .. n /\ j # j + 1
    OBVIOUS
  <2>2. /\ p \in [1 .. n -> 1 .. n] /\ p[j] = j + 1 /\ p[j + 1] = j
        /\ \A x \in 1 .. n : x # j /\ x # j + 1 => p[x] = x
    BY <2>1
  <2>3. \A x \in 1 .. n : b[x] = IF x = j THEN a[j + 1] ELSE IF x = j + 1 THEN a[j] ELSE a[x]
    BY <1>1, <2>1 DEF Exchange, Cells
  <2> HIDE DEF p, b
  <2>4. \A y \in 1 .. n : \E x \in 1 .. n : p[x] = y
    BY <2>1, <2>2
  <2>5. ASSUME NEW x \in 1 .. n
        PROVE  IF x \in j .. j + 1 THEN p[x] \in j .. j + 1 ELSE p[x] = x
    <3>1. CASE x = j \/ x = j + 1
      BY <2>1, <2>2, <3>1
    <3>2. CASE x # j /\ x # j + 1
      <4>1. x \notin j .. j + 1 /\ p[x] = x
        BY <2>1, <2>2, <3>2
      <4> QED BY <4>1
    <3> QED BY <3>1, <3>2
  <2>6. p \in Shuffles(n, j, j + 1)
    BY <2>2, <2>4, <2>5 DEF Shuffles
  <2>7. \A x \in 1 .. n : b[x] = a[p[x]]
    BY <2>1, <2>2, <2>3
  <2>8. Shuffled(n, a, b, j, j + 1)
    BY <2>6, <2>7 DEF Shuffled
  <2> QED BY <2>8 DEF b
<1>2. CASE ~(a[j] > a[j + 1])
  <2>1. Exchange(a, j) = a
    BY <1>2 DEF Exchange
  <2> QED BY <2>1, ShuffledSame
<1> QED BY <1>1, <1>2

(* It leaves the larger of them in the upper cell.                         *)
LEMMA ExchangeOrders ==
  ASSUME NEW n \in Nat, NEW a \in Cells(n), NEW j \in 1 .. n - 1, NEW b, b = Exchange(a, j)
  PROVE  /\ b[j] <= b[j + 1] /\ a[j] <= b[j + 1] /\ b[j] <= a[j + 1]
         /\ \A x \in 1 .. n : x # j /\ x # j + 1 => b[x] = a[x]
<1>1. j \in 1 .. n /\ j + 1 \in 1 .. n /\ j # j + 1
  OBVIOUS
<1>2. a[j] \in Nat /\ a[j + 1] \in Nat /\ DOMAIN a = 1 .. n
  BY <1>1 DEF Cells
<1>3. CASE a[j] > a[j + 1]
  BY <1>1, <1>2, <1>3 DEF Exchange, Cells
<1>4. CASE ~(a[j] > a[j + 1])
  BY <1>1, <1>2, <1>4 DEF Exchange
<1> QED BY <1>3, <1>4

(* Where every cell is a number of at least or at most v, it is so after   *)
(* rearranging.                                                            *)
LEMMA ShuffledCells ==
  ASSUME NEW n \in Nat, NEW a \in Cells(n), NEW b, NEW lo \in Int, NEW hi \in Int, Shuffled(n, a, b, lo, hi)
  PROVE  /\ \A x \in 1 .. n : x \notin lo .. hi => b[x] = a[x]
         /\ \A x \in 1 .. n : x \in lo .. hi => \E y \in 1 .. n : y \in lo .. hi /\ b[x] = a[y]
BY DEF Shuffled, Shuffles

(* A pass upward over k cells moves the largest of them to the last.       *)
LEMMA PassUp ==
  ASSUME NEW n \in Nat, NEW a \in Cells(n), NEW k \in 1 .. n
  PROVE  LET b == Pass(a, Upward(k))
         IN  Shuffled(n, a, b, 1, k) /\ \A x \in 1 .. k : b[x] <= b[k]
<1> DEFINE m == k - 1
           u == Upward(k)
           b == Pass(a, u)
<1>1. m \in Nat /\ u \in [1 .. m -> 1 .. n - 1] /\ \A i \in 1 .. m : u[i] = i
  BY DEF Upward
<1> HIDE DEF u
<1>2. PICK t : PassRun(t, n, a, m, u) /\ b = t[m]
  <2> HIDE DEF m
  <2> QED BY <1>1, PassSteps
<1> HIDE DEF b
<1> DEFINE Good(i) == Shuffled(n, a, t[i], 1, k) /\ \A x \in 1 .. i + 1 : t[i][x] <= t[i][i + 1]
           N == {i \in 0 .. m : Good(i)}
<1>3. /\ t \in [0 .. m -> Cells(n)] /\ t[0] = a
      /\ \A i \in 1 .. m : t[i] = Exchange(t[i - 1], u[i])
  BY <1>2 DEF PassRun
<1>4. 0 \in N
  <2>1. Shuffled(n, a, t[0], 1, k)
    BY <1>3, ShuffledSame
  <2>2. a[1] \in Nat
    BY DEF Cells
  <2>3. \A x \in 1 .. 0 + 1 : t[0][x] <= t[0][0 + 1]
    BY <1>3, <2>2
  <2> QED BY <1>1, <2>1, <2>3
<1>5. ASSUME NEW i \in 0 .. m - 1, Good(i) PROVE Good(i + 1)
  <2> DEFINE c == t[i]
             d == t[i + 1]
             j == i + 1
  <2>1. j \in 1 .. m /\ j \in 1 .. n - 1 /\ i \in 0 .. m /\ j \in 0 .. m /\ j - 1 = i /\ j \in Nat
    BY <1>1
  <2>2. c \in Cells(n) /\ d \in Cells(n) /\ d = Exchange(c, j)
    BY <1>1, <1>3, <2>1
  <2>3. Shuffled(n, a, c, 1, k) /\ \A x \in 1 .. j : c[x] <= c[j]
    BY <1>5
  <2> HIDE DEF c, d, j, m
  <2>4. Shuffled(n, a, d, 1, k)
    <3>1. Shuffled(n, c, d, j, j + 1)
      BY <2>1, <2>2, ExchangeShuffles
    <3>2. j \in Int /\ j + 1 \in Int /\ 1 <= j /\ j + 1 <= k /\ 1 \in Int /\ k \in Int
      BY <1>1, <2>1 DEF m
    <3>3. Shuffled(n, c, d, 1, k)
      BY <3>1, <3>2, ShuffledWider
    <3> QED BY <2>3, <3>2, <3>3, ShuffledTwice
  <2>5. /\ d[j] <= d[j + 1] /\ c[j] <= d[j + 1] /\ d[j] <= c[j + 1]
        /\ \A x \in 1 .. n : x # j /\ x # j + 1 => d[x] = c[x]
    <3>1. j \in 1 .. n - 1
      BY <2>1
    <3> QED BY <2>2, <3>1, ExchangeOrders
  <2>6. \A x \in 1 .. n : c[x] \in Nat /\ d[x] \in Nat
    BY <2>2 DEF Cells
  <2>7. ASSUME NEW x \in 1 .. j + 1 PROVE d[x] <= d[j + 1]
    <3>1. x \in 1 .. n /\ j \in 1 .. n /\ j + 1 \in 1 .. n
      BY <2>1
    <3>2. CASE x \in {j, j + 1}
      BY <2>5, <2>6, <3>1, <3>2
    <3>3. CASE x \notin {j, j + 1}
      <4>1. x \in 1 .. j /\ d[x] = c[x]
        BY <2>1, <2>5, <3>1, <3>3
      <4>2. c[x] <= c[j] /\ c[j] <= d[j + 1]
        BY <2>3, <2>5, <2>6, <3>1, <4>1
      <4> QED BY <2>6, <3>1, <4>1, <4>2
    <3> QED BY <3>2, <3>3
  <2> QED BY <2>4, <2>7 DEF d, j
<1>6. Good(m)
  <2>1. \A i \in 0 .. m - 1 : i \in N => i + 1 \in N
    <3> SUFFICES ASSUME NEW i \in 0 .. m - 1, i \in N PROVE i + 1 \in N
      OBVIOUS
    <3>1. Good(i) /\ i + 1 \in 0 .. m
      BY <1>1
    <3> QED BY <1>5, <3>1
  <2>2. N \subseteq 0 .. m /\ (m \in N => Good(m)) /\ m \in 0 .. m
    BY <1>1
  <2> HIDE DEF N, m
  <2>3. 0 .. m \subseteq N
    BY <1>1, <1>4, <2>1, Counting
  <2> QED BY <2>2, <2>3
<1>7. m + 1 = k
  OBVIOUS
<1> HIDE DEF m
<1>8. Shuffled(n, a, b, 1, k) /\ \A x \in 1 .. k : b[x] <= b[k]
  BY <1>2, <1>6, <1>7
<1> QED BY <1>8 DEF b, u

(* A pass downward over the cells from i to l moves the smallest of them   *)
(* to the first.                                                           *)
LEMMA PassDown ==
  ASSUME NEW n \in Nat, NEW a \in Cells(n), NEW l \in 1 .. n, NEW i \in 1 .. l
  PROVE  LET b == Pass(a, Downward(l, i))
         IN  Shuffled(n, a, b, i, l) /\ \A x \in i .. l : b[i] <= b[x]
<1> DEFINE m == l - i
           u == Downward(l, i)
           b == Pass(a, u)
<1>1. m \in Nat /\ u \in [1 .. m -> 1 .. n - 1] /\ \A k \in 1 .. m : u[k] = l - k
  BY DEF Downward
<1> HIDE DEF u
<1>2. PICK t : PassRun(t, n, a, m, u) /\ b = t[m]
  <2> HIDE DEF m
  <2> QED BY <1>1, PassSteps
<1> HIDE DEF b
<1> DEFINE Good(k) == Shuffled(n, a, t[k], i, l) /\ \A x \in l - k .. l : t[k][l - k] <= t[k][x]
           N == {k \in 0 .. m : Good(k)}
<1>3. /\ t \in [0 .. m -> Cells(n)] /\ t[0] = a
      /\ \A k \in 1 .. m : t[k] = Exchange(t[k - 1], u[k])
  BY <1>2 DEF PassRun
<1>4. 0 \in N
  <2>1. Shuffled(n, a, t[0], i, l)
    BY <1>3, ShuffledSame
  <2>2. a[l] \in Nat
    BY DEF Cells
  <2>3. \A x \in l - 0 .. l : t[0][l - 0] <= t[0][x]
    BY <1>3, <2>2
  <2> QED BY <1>1, <2>1, <2>3
<1>5. ASSUME NEW k \in 0 .. m - 1, Good(k) PROVE Good(k + 1)
  <2> DEFINE c == t[k]
             d == t[k + 1]
             j == l - (k + 1)
  <2>1. /\ k + 1 \in 1 .. m /\ j \in 1 .. n - 1 /\ k \in 0 .. m /\ k + 1 \in 0 .. m /\ k + 1 - 1 = k
        /\ j \in Nat /\ l - k = j + 1 /\ i <= j /\ j + 1 <= l
    BY <1>1
  <2>2. c \in Cells(n) /\ d \in Cells(n) /\ d = Exchange(c, j)
    BY <1>1, <1>3, <2>1
  <2>3. Shuffled(n, a, c, i, l) /\ \A x \in j + 1 .. l : c[j + 1] <= c[x]
    BY <1>5, <2>1
  <2> HIDE DEF c, d, j, m
  <2>4. Shuffled(n, a, d, i, l)
    <3>1. Shuffled(n, c, d, j, j + 1)
      BY <2>1, <2>2, ExchangeShuffles
    <3>2. j \in Int /\ j + 1 \in Int /\ i <= j /\ j + 1 <= l /\ i \in Int /\ l \in Int
      BY <1>1, <2>1
    <3>3. Shuffled(n, c, d, i, l)
      BY <3>1, <3>2, ShuffledWider
    <3> QED BY <2>3, <3>2, <3>3, ShuffledTwice
  <2>5. /\ d[j] <= d[j + 1] /\ c[j] <= d[j + 1] /\ d[j] <= c[j + 1]
        /\ \A x \in 1 .. n : x # j /\ x # j + 1 => d[x] = c[x]
    <3>1. j \in 1 .. n - 1
      BY <2>1
    <3> QED BY <2>2, <3>1, ExchangeOrders
  <2>6. \A x \in 1 .. n : c[x] \in Nat /\ d[x] \in Nat
    BY <2>2 DEF Cells
  <2>7. ASSUME NEW x \in j .. l PROVE d[j] <= d[x]
    <3>1. x \in 1 .. n /\ j \in 1 .. n /\ j + 1 \in 1 .. n
      BY <2>1
    <3>2. CASE x \in {j, j + 1}
      BY <2>5, <2>6, <3>1, <3>2
    <3>3. CASE x \notin {j, j + 1}
      <4>1. x \in j + 1 .. l /\ d[x] = c[x]
        BY <2>1, <2>5, <3>1, <3>3
      <4>2. c[j + 1] <= c[x] /\ d[j] <= c[j + 1]
        BY <2>3, <2>5, <2>6, <3>1, <4>1
      <4> QED BY <2>6, <3>1, <4>1, <4>2
    <3> QED BY <3>2, <3>3
  <2> QED BY <2>4, <2>7 DEF d, j
<1>6. Good(m)
  <2>1. \A k \in 0 .. m - 1 : k \in N => k + 1 \in N
    <3> SUFFICES ASSUME NEW k \in 0 .. m - 1, k \in N PROVE k + 1 \in N
      OBVIOUS
    <3>1. Good(k) /\ k + 1 \in 0 .. m
      BY <1>1
    <3> QED BY <1>5, <3>1
  <2>2. N \subseteq 0 .. m /\ (m \in N => Good(m)) /\ m \in 0 .. m
    BY <1>1
  <2> HIDE DEF N, m
  <2>3. 0 .. m \subseteq N
    BY <1>1, <1>4, <2>1, Counting
  <2> QED BY <2>2, <2>3
<1>7. l - m = i
  OBVIOUS
<1> HIDE DEF m
<1>8. Shuffled(n, a, b, i, l) /\ \A x \in i .. l : b[i] <= b[x]
  BY <1>2, <1>6, <1>7
<1> QED BY <1>8 DEF b, u

(* Every cell up to i is at most every later one up to l.                  *)
Below(b, i, l) == \A x \in 1 .. i, y \in i + 1 .. l : b[x] <= b[y]

(* The passes for the tail leave the largest cells at the end.             *)
LEMMA TailSorted ==
  ASSUME NEW n \in Nat, NEW a \in Cells(n), NEW tail \in Nat, tail < n
  PROVE  LET b == TailPasses(n, a, tail)
         IN  b \in Cells(n) /\ Shuffled(n, a, b, 1, n) /\ Below(b, n - tail, n)
<1>1. PICK t : TailRun(t, n, a, tail) /\ TailPasses(n, a, tail) = t[tail]
  BY UpSteps
<1>2. /\ t \in [0 .. tail -> Cells(n)] /\ t[0] = a
      /\ \A i \in 1 .. tail : t[i] = Pass(t[i - 1], Upward(n - i + 1))
  BY <1>1 DEF TailRun
<1> DEFINE Good(i) == Shuffled(n, a, t[i], 1, n) /\ Below(t[i], n - i, n)
           N == {i \in 0 .. tail : Good(i)}
<1>3. 0 \in N
  <2>1. Shuffled(n, a, t[0], 1, n)
    BY <1>2, ShuffledSame
  <2> QED BY <2>1 DEF Below
<1>4. ASSUME NEW i \in 0 .. tail - 1, Good(i) PROVE Good(i + 1)
  <2> DEFINE c == t[i]
             d == t[i + 1]
             k == n - i
  <2>1. /\ i + 1 \in 1 .. tail /\ i \in 0 .. tail /\ i + 1 \in 0 .. tail /\ i + 1 - 1 = i
        /\ k \in 1 .. n /\ n - (i + 1) + 1 = k /\ n - (i + 1) = k - 1
    OBVIOUS
  <2>2. c \in Cells(n) /\ d \in Cells(n) /\ d = Pass(c, Upward(k))
    BY <1>2, <2>1
  <2>3. Shuffled(n, a, c, 1, n) /\ Below(c, k, n)
    BY <1>4
  <2> HIDE DEF c, d, k
  <2>4. Shuffled(n, c, d, 1, k) /\ \A x \in 1 .. k : d[x] <= d[k]
    BY <2>1, <2>2, PassUp
  <2>5. Shuffled(n, a, d, 1, n)
    <3>1. k \in Int /\ k <= n /\ 1 \in Int /\ n \in Int
      BY <2>1
    <3>2. Shuffled(n, c, d, 1, n)
      BY <2>4, <3>1, ShuffledWider
    <3> QED BY <2>3, <3>1, <3>2, ShuffledTwice
  <2>6. ASSUME NEW x \in 1 .. k - 1, NEW y \in k - 1 + 1 .. n PROVE d[x] <= d[y]
    <3>1. x \in 1 .. n /\ y \in 1 .. n /\ k \in Int
      BY <2>1
    <3>2. CASE y = k
      BY <2>1, <2>4, <3>1, <3>2
    <3>3. CASE y # k
      <4>1. y \in k + 1 .. n /\ y \notin 1 .. k /\ x \in 1 .. k
        BY <3>1, <3>3
      <4>2. d[y] = c[y] /\ \E z \in 1 .. n : z \in 1 .. k /\ d[x] = c[z]
        BY <2>2, <2>4, <3>1, <4>1, ShuffledCells
      <4> QED BY <2>3, <4>1, <4>2 DEF Below
    <3> QED BY <3>2, <3>3
  <2>7. Below(d, k - 1, n)
    BY <2>6 DEF Below
  <2> QED BY <2>1, <2>5, <2>7 DEF d
<1>5. Good(tail)
  <2>1. \A i \in 0 .. tail - 1 : i \in N => i + 1 \in N
    BY <1>4
  <2>2. N \subseteq 0 .. tail /\ (tail \in N => Good(tail)) /\ tail \in 0 .. tail
    OBVIOUS
  <2> HIDE DEF N
  <2>3. 0 .. tail \subseteq N
    BY <1>3, <2>1, Counting
  <2> QED BY <2>2, <2>3
<1>6. t[tail] \in Cells(n)
  BY <1>2
<1> QED BY <1>1, <1>5, <1>6

(* The passes for the head leave the smallest at the front, and the        *)
(* largest where they are.                                                 *)
LEMMA HeadSorted ==
  ASSUME NEW n \in Nat, NEW a \in Cells(n), NEW head \in Nat, NEW tail \in Nat, head + tail < n,
         Below(a, n - tail, n)
  PROVE  LET b == HeadPasses(n, a, head, tail)
         IN  b \in Cells(n) /\ Shuffled(n, a, b, 1, n) /\ Below(b, n - tail, n) /\ Below(b, head, n - tail)
<1> DEFINE l == n - tail
<1>1. PICK t : HeadRun(t, n, a, head, tail) /\ HeadPasses(n, a, head, tail) = t[head]
  BY DownSteps
<1>2. /\ t \in [0 .. head -> Cells(n)] /\ t[0] = a
      /\ \A i \in 1 .. head : t[i] = Pass(t[i - 1], Downward(l, i))
  BY <1>1 DEF HeadRun
<1>0. l \in 1 .. n /\ head < l
  OBVIOUS
<1> DEFINE Good(i) == Shuffled(n, a, t[i], 1, n) /\ Below(t[i], l, n) /\ Below(t[i], i, l)
           N == {i \in 0 .. head : Good(i)}
<1>3. 0 \in N
  <2>1. Shuffled(n, a, t[0], 1, n)
    BY <1>2, ShuffledSame
  <2>2. Below(t[0], l, n) /\ Below(t[0], 0, l)
    BY <1>2 DEF Below
  <2> QED BY <2>1, <2>2
<1> HIDE DEF l
<1>4. ASSUME NEW i \in 0 .. head - 1, Good(i) PROVE Good(i + 1)
  <2> DEFINE c == t[i]
             d == t[i + 1]
             k == i + 1
  <2>1. k \in 1 .. head /\ i \in 0 .. head /\ k \in 0 .. head /\ k - 1 = i /\ k \in 1 .. l
    BY <1>0
  <2>2. c \in Cells(n) /\ d \in Cells(n) /\ d = Pass(c, Downward(l, k))
    BY <1>2, <2>1
  <2>3. Shuffled(n, a, c, 1, n) /\ Below(c, l, n) /\ Below(c, i, l)
    BY <1>4
  <2> HIDE DEF c, d
  <2>4. Shuffled(n, c, d, k, l) /\ \A x \in k .. l : d[k] <= d[x]
    <3> HIDE DEF k
    <3>1. k \in 1 .. l
      BY <2>1
    <3> QED BY <1>0, <2>2, <3>1, PassDown
  <2>5. Shuffled(n, a, d, 1, n)
    <3>1. k \in Int /\ l \in Int /\ 1 <= k /\ l <= n /\ 1 \in Int /\ n \in Int
      BY <1>0, <2>1
    <3> HIDE DEF k
    <3>2. Shuffled(n, c, d, 1, n)
      BY <2>4, <3>1, ShuffledWider
    <3> QED BY <2>3, <3>1, <3>2, ShuffledTwice
  <2>50. /\ \A x \in 1 .. n : x \notin k .. l => d[x] = c[x]
         /\ \A x \in 1 .. n : x \in k .. l => \E y \in 1 .. n : y \in k .. l /\ d[x] = c[y]
    <3>1. k \in Int /\ l \in Int
      BY <1>0, <2>1
    <3> HIDE DEF k
    <3> QED BY <2>2, <2>4, <3>1, ShuffledCells
  <2>6. Below(d, l, n)
    <3> SUFFICES ASSUME NEW x \in 1 .. l, NEW y \in l + 1 .. n PROVE d[x] <= d[y]
      BY DEF Below
    <3>1. x \in 1 .. n /\ y \in 1 .. n /\ y \notin k .. l
      BY <1>0
    <3>2. d[y] = c[y] /\ \E z \in 1 .. l : d[x] = c[z]
      <4>1. d[y] = c[y]
        BY <2>50, <3>1
      <4>2. CASE x \in k .. l
        <5>1. PICK z \in 1 .. n : z \in k .. l /\ d[x] = c[z]
          BY <2>50, <3>1, <4>2
        <5>2. z \in 1 .. l
          BY <1>0, <5>1
        <5> QED BY <4>1, <5>1, <5>2
      <4>3. CASE x \notin k .. l
        BY <2>50, <3>1, <4>1, <4>3
      <4> QED BY <4>2, <4>3
    <3> QED BY <2>3, <3>2 DEF Below
  <2>7. Below(d, k, l)
    <3> SUFFICES ASSUME NEW x \in 1 .. k, NEW y \in k + 1 .. l PROVE d[x] <= d[y]
      BY DEF Below
    <3>1. x \in 1 .. n /\ y \in 1 .. n /\ y \in k .. l /\ x \in Int
      BY <1>0, <2>1
    <3>2. CASE x = k
      <4> HIDE DEF k
      <4> QED BY <2>4, <3>1, <3>2
    <3>3. CASE x # k
      <4>1. x \in 1 .. i /\ x \notin k .. l
        BY <3>1, <3>3
      <4>2. d[x] = c[x]
        BY <2>50, <3>1, <4>1
      <4>3. PICK z \in 1 .. n : z \in k .. l /\ d[y] = c[z]
        BY <2>50, <3>1
      <4>4. z \in i + 1 .. l
        BY <4>3
      <4>5. c[x] <= c[z]
        BY <2>3, <4>1, <4>4 DEF Below
      <4> QED BY <4>2, <4>3, <4>5
    <3> QED BY <3>2, <3>3
  <2> QED BY <2>5, <2>6, <2>7 DEF d
<1>5. Good(head)
  <2>1. \A i \in 0 .. head - 1 : i \in N => i + 1 \in N
    BY <1>4
  <2>2. N \subseteq 0 .. head /\ (head \in N => Good(head)) /\ head \in 0 .. head
    OBVIOUS
  <2> HIDE DEF N
  <2>3. 0 .. head \subseteq N
    BY <1>3, <2>1, Counting
  <2> QED BY <2>2, <2>3
<1>6. t[head] \in Cells(n)
  BY <1>2
<1> QED BY <1>1, <1>5, <1>6 DEF l

(* The sort rearranges the cells such that none before the middle is       *)
(* larger, and none behind it smaller, than any in it.                     *)
LEMMA SortSeparates ==
  ASSUME NEW a \in Seq(Nat), NEW head \in Nat, NEW tail \in Nat, head + tail < Len(a)
  PROVE  LET b == SortArrayExtreme(a, head, tail)
         IN  /\ b \in Seq(Nat) /\ Len(b) = Len(a)
             /\ Shuffled(Len(a), a, b, 1, Len(a)) /\ Separated(b, head, Len(a) - tail)
<1> DEFINE n == Len(a)
           up == TailPasses(n, a, tail)
           b == HeadPasses(n, up, head, tail)
<1>1. n \in Nat /\ a \in Cells(n) /\ tail < n
  BY DEF Cells
<1>2. SortArrayExtreme(a, head, tail) = b
  BY Zenon DEF SortArrayExtreme, TailPasses, HeadPasses
<1>3. up \in Cells(n) /\ Shuffled(n, a, up, 1, n) /\ Below(up, n - tail, n)
  <2> HIDE DEF n
  <2> QED BY <1>1, TailSorted
<1>4. b \in Cells(n) /\ Shuffled(n, up, b, 1, n) /\ Below(b, n - tail, n) /\ Below(b, head, n - tail)
  <2>1. head + tail < n
    OBVIOUS
  <2> HIDE DEF n, up
  <2> QED BY <1>1, <1>3, <2>1, HeadSorted
<1>5. head + tail < n
  OBVIOUS
<1> HIDE DEF n, up, b
<1>6. Shuffled(n, a, b, 1, n)
  <2>1. 1 \in Int /\ n \in Int
    BY <1>1
  <2> QED BY <1>1, <1>3, <1>4, <2>1, ShuffledTwice
<1>7. b \in Seq(Nat) /\ Len(b) = n
  BY <1>1, <1>4 DEF Cells
<1>8. Separated(b, head, n - tail)
  <2> DEFINE l == n - tail
  <2>0. l \in 1 .. n /\ head < l
    BY <1>1, <1>5
  <2>1. \A x \in 1 .. l, y \in l + 1 .. n : b[x] <= b[y]
    BY <1>4 DEF Below
  <2>2. ASSUME NEW x \in 1 .. head, NEW y \in head + 1 .. n PROVE b[x] <= b[y]
    <3>1. CASE y <= l
      <4>1. y \in head + 1 .. l
        BY <1>1, <2>0, <3>1
      <4> QED BY <1>4, <4>1 DEF Below
    <3>2. CASE ~(y <= l)
      <4> HIDE DEF l
      <4>1. y \in l + 1 .. n /\ x \in 1 .. l
        BY <1>1, <2>0, <3>2
      <4> QED BY <2>1, <4>1
    <3> QED BY <3>1, <3>2
  <2> QED BY <1>7, <2>1, <2>2 DEF Separated
<1> QED BY <1>2, <1>6, <1>7, <1>8 DEF n

(* What is shuffled is a rearrangement.                                    *)
LEMMA ShuffledIsRearranged ==
  ASSUME NEW a \in Seq(Nat), NEW b \in Seq(Nat), Len(b) = Len(a), Shuffled(Len(a), a, b, 1, Len(a))
  PROVE  b \in Rearranged(a)
<1> DEFINE n == Len(a)
<1>1. n \in Nat /\ DOMAIN a = 1 .. n /\ DOMAIN b = 1 .. n
  OBVIOUS
<1>2. PICK p \in Shuffles(n, 1, n) : \A x \in 1 .. n : b[x] = a[p[x]]
  BY DEF Shuffled
<1> HIDE DEF n
<1>3. p \in [1 .. n -> 1 .. n] /\ Range(p) = 1 .. n
  BY DEF Shuffles, Range
<1>4. b = [x \in 1 .. n |-> a[p[x]]]
  BY <1>1, <1>2
<1> QED BY <1>1, <1>3, <1>4 DEF Rearranged

(* The average without extremes is the mean of the cells in the middle.    *)
LEMMA MeanOfMiddle ==
  ASSUME NEW a \in Seq(Nat), NEW head \in Nat, NEW tail \in Nat, head + tail < Len(a)
  PROVE  IsMiddleMean(GetDelExtremeAndAverage(a, head, tail), a, head, tail)
<1> DEFINE b == SortArrayExtreme(a, head, tail)
<1>1. /\ b \in Seq(Nat) /\ Len(b) = Len(a)
      /\ Shuffled(Len(a), a, b, 1, Len(a)) /\ Separated(b, head, Len(a) - tail)
  BY SortSeparates
<1>2. ~(head + tail >= Len(b))
  BY <1>1
<1>3. GetDelExtremeAndAverage(a, head, tail)
        = Total(SubSeq(b, head + 1, Len(a) - tail)) \div (Len(a) - head - tail)
  BY <1>1, <1>2 DEF GetDelExtremeAndAverage, GetAverage
<1> HIDE DEF b
<1>4. b \in Rearranged(a)
  BY <1>1, ShuffledIsRearranged
<1> QED BY <1>1, <1>3, <1>4 DEF IsMiddleMean

(* A mean lies between two of the numbers it is of.                        *)
LEMMA MeanBetween ==
  ASSUME NEW m \in Seq(Nat), Len(m) > 0
  PROVE  LET v == Total(m) \div Len(m)
         IN  /\ \E i \in 1 .. Len(m) : m[i] <= v
             /\ \E i \in 1 .. Len(m) : v <= m[i]
<1> DEFINE n == Len(m)
           s == Total(m)
           v == s \div n
<1>0. n \in Nat \ {0} /\ \A i \in 1 .. n : m[i] \in Nat
  OBVIOUS
<1>1. s = SumOf(m) /\ s \in Nat
  BY SumNat DEF Total, SumOf
<1>10. m \in Seq(Int) /\ Len(m) = n
  OBVIOUS
<1> HIDE DEF n, s
<1>2. v \in Int
  BY <1>0, <1>1, DivIs
<1> HIDE DEF v
<1>3. ASSUME \A i \in 1 .. n : ~(m[i] <= v) PROVE FALSE
  <2> DEFINE w == v + 1
  <2>1. w \in Int /\ s \in Int /\ v < w
    BY <1>1, <1>2
  <2>2. \A i \in 1 .. Len(m) : w <= m[i]
    BY <1>0, <1>2, <1>3, <1>10
  <2> HIDE DEF w
  <2>3. n * w <= s
    BY <1>1, <1>10, <2>1, <2>2, SumAtLeast
  <2>4. w <= v
    BY <1>0, <2>1, <2>3, DivAtLeast DEF v
  <2> QED BY <1>2, <2>1, <2>4
<1>4. ASSUME \A i \in 1 .. n : ~(v <= m[i]) PROVE FALSE
  <2> DEFINE w == v - 1
  <2>1. w \in Int /\ s \in Int /\ w < v
    BY <1>1, <1>2
  <2>2. \A i \in 1 .. Len(m) : m[i] <= w
    BY <1>0, <1>2, <1>4, <1>10
  <2> HIDE DEF w
  <2>3. s <= n * w
    BY <1>1, <1>10, <2>1, <2>2, SumAtMost
  <2>4. v <= w
    BY <1>0, <2>1, <2>3, DivAtMost DEF v
  <2> QED BY <1>2, <2>1, <2>4
<1> QED BY <1>3, <1>4 DEF v, s, n

(* So does an average of some of the cells, between two of them.           *)
LEMMA AverageBetween ==
  ASSUME NEW a \in Seq(Nat), NEW head \in Nat, NEW tail \in Nat, head + tail < Len(a)
  PROVE  Between(GetAverage(a, head, tail), a)
<1> DEFINE n == Len(a)
           m == SubSeq(a, head + 1, n - tail)
           v == Total(m) \div Len(m)
<1>0. n \in Nat /\ DOMAIN a = 1 .. n /\ ~(head + tail >= n)
  OBVIOUS
<1>1. m \in Seq(Nat) /\ Len(m) = n - head - tail /\ \A i \in 1 .. Len(m) : m[i] = a[head + i]
  <2>1. \A i \in head + 1 .. n - tail : i \in 1 .. n
    OBVIOUS
  <2>2. m \in Seq(Nat)
    BY <2>1
  <2>3. Len(m) = n - head - tail
    OBVIOUS
  <2>4. \A i \in 1 .. Len(m) : m[i] = a[head + i]
    BY <2>3
  <2> QED BY <2>2, <2>3, <2>4
<1>2. GetAverage(a, head, tail) = v
  BY <1>0, <1>1 DEF GetAverage
<1>3. Len(m) > 0
  BY <1>0, <1>1
<1> HIDE DEF m, n
<1>4. (\E i \in 1 .. Len(m) : m[i] <= v) /\ (\E i \in 1 .. Len(m) : v <= m[i])
  BY <1>1, <1>3, MeanBetween
<1>5. \A i \in 1 .. Len(m) : head + i \in 1 .. n
  <2>1. Len(m) = n - head - tail
    BY <1>1
  <2> QED BY <1>0, <2>1
<1> HIDE DEF v
<1>6. (\E i \in 1 .. n : a[i] <= v) /\ (\E i \in 1 .. n : v <= a[i])
  BY <1>1, <1>4, <1>5
<1> QED BY <1>0, <1>2, <1>6 DEF Between

(* The mean of a window lies between two of its cells.                     *)
LEMMA WindowBetween ==
  ASSUME NEW w \in Seq(Nat), w # << >>
  PROVE  Between(WindowMean(w), w)
<1> DEFINE n == Len(w)
           t == n \div 3
           b == SortArrayExtreme(w, t, t)
<1>0. n \in Nat /\ n > 0 /\ DOMAIN w = 1 .. n
  OBVIOUS
<1>1. CASE n >= 3
  <2>1. t \in Nat /\ t + t < n
    BY <1>0, <1>1
  <2>2. WindowMean(w) = GetAverage(b, t, t)
    BY <1>1 DEF WindowMean, GetDelExtremeAndAverage
  <2> HIDE DEF t
  <2>3. b \in Seq(Nat) /\ Len(b) = n /\ Shuffled(n, w, b, 1, n)
    BY <2>1, SortSeparates
  <2> HIDE DEF b
  <2>4. Between(WindowMean(w), b)
    BY <2>1, <2>2, <2>3, AverageBetween
  <2> HIDE DEF n
  <2>5. \A i \in 1 .. n : \E j \in 1 .. n : b[i] = w[j]
    <3>1. PICK p \in Shuffles(n, 1, n) : \A x \in 1 .. n : b[x] = w[p[x]]
      BY <2>3 DEF Shuffled
    <3>2. \A x \in 1 .. n : p[x] \in 1 .. n
      BY DEF Shuffles
    <3> QED BY <3>1, <3>2
  <2>6. DOMAIN b = 1 .. n
    BY <2>3
  <2> QED BY <1>0, <2>4, <2>5, <2>6 DEF Between
<1>2. CASE n < 3
  <2>1. WindowMean(w) = GetAverage(w, 0, 0)
    BY <1>0, <1>2 DEF WindowMean
  <2> QED BY <1>0, <2>1, AverageBetween
<1> QED BY <1>0, <1>1, <1>2

(* A window that takes a new value has it last.                            *)
LEMMA ShiftedLast ==
  ASSUME NEW w \in Seq(Nat), NEW v \in Nat, w # << >>
  PROVE  Last(Shifted(w, v)) = v
<1> DEFINE t == Tail(w)
<1>1. t \in Seq(Nat)
  BY HeadTailProperties
<1>2. Shifted(w, v) = Append(t, v)
  BY DEF Shifted
<1> HIDE DEF t
<1>3. Len(Append(t, v)) = Len(t) + 1 /\ Append(t, v)[Len(t) + 1] = v
  BY <1>1, AppendProperties
<1> QED BY <1>2, <1>3 DEF Last

(* The step property.                                                      *)
AveragesMiddle ==
  LET w == filter'.win1
      n == Len(w) \div 3
  IN  /\ IsMiddleMean(Last(w), Append(filter.DataResBuf, Clamp(raw')), HeadDrop, TailDrop)
      /\ n > 0 => IsMiddleMean(Last(filter'.win2), w, n, n)
      /\ Between(FilterResult', filter'.win2)

(* What a delivery puts into windows and result.                           *)
LEMMA DeliverAverages ==
  ASSUME ParamsTyped, FilterTyped, NEW v \in Nat, Deliver(v), raw' = v, range' = range
  PROVE  AveragesMiddle
<1> DEFINE buf  == Append(filter.DataResBuf, Clamp(v))
           avg1 == GetDelExtremeAndAverage(buf, HeadDrop, TailDrop)
           win1 == Shifted(filter.win1, avg1)
           win2 == Shifted(filter.win2, WindowMean(win1))
<1>1. buf \in Seq(Nat) /\ Len(buf) = DataBufMax
  BY ClampNat, FilterParts, AppendProperties DEF Deliver
<1>2. HeadDrop \in Nat /\ TailDrop \in Nat /\ HeadDrop + TailDrop < DataBufMax
  BY LevelSensorAssumption
<1>3. filter' = [filter EXCEPT !.DataResBuf = << >>, !.win1 = win1, !.win2 = win2]
      /\ FilterResult' = WindowMean(win2) /\ filter.FilterStart
  BY DEF Deliver
<1>4. /\ filter.win1 \in Seq(Nat) /\ filter.win1 # << >>
      /\ filter.win2 \in Seq(Nat) /\ filter.win2 # << >>
  BY <1>3, FilterParts, LevelTyped
<1> HIDE DEF buf
<1>5. avg1 \in Nat /\ IsMiddleMean(avg1, buf, HeadDrop, TailDrop)
  BY <1>1, <1>2, DelExtremeNat, MeanOfMiddle
<1> HIDE DEF avg1
<1>6. win1 \in Seq(Nat) /\ win1 # << >> /\ Last(win1) = avg1
  BY <1>4, <1>5, ShiftedTyped, ShiftedLast
<1> HIDE DEF win1
<1>7. win2 \in Seq(Nat) /\ win2 # << >> /\ Last(win2) = WindowMean(win1)
  BY <1>4, <1>6, WindowMeanNat, ShiftedTyped, ShiftedLast
<1> HIDE DEF win2
<1>8. filter'.win1 = win1 /\ filter'.win2 = win2
  BY <1>3, FilterParts DEF FilterRecord
<1>9. ASSUME Len(win1) \div 3 > 0
      PROVE  IsMiddleMean(WindowMean(win1), win1, Len(win1) \div 3, Len(win1) \div 3)
  <2> DEFINE n == Len(win1)
             t == n \div 3
  <2>1. n \in Nat /\ t \in Nat /\ t + t < n /\ n >= 3
    BY <1>6, <1>9
  <2>2. WindowMean(win1) = GetDelExtremeAndAverage(win1, t, t)
    BY <2>1 DEF WindowMean
  <2> HIDE DEF t
  <2>3. IsMiddleMean(GetDelExtremeAndAverage(win1, t, t), win1, t, t)
    BY <1>6, <2>1, MeanOfMiddle
  <2> QED BY <2>2, <2>3 DEF t
<1>10. Between(WindowMean(win2), win2)
  BY <1>7, WindowBetween
<1>11. Append(filter.DataResBuf, Clamp(raw')) = buf
  BY DEF buf
<1> QED BY <1>3, <1>5, <1>6, <1>7, <1>8, <1>9, <1>10, <1>11 DEF AveragesMiddle

(* Nothing but a delivery empties the buffer of a filter that goes on.     *)
LEMMA OnlyDeliverEmpties ==
  ASSUME TInv, [Next]_vars, Delivered
  PROVE  \E v \in Nat : Deliver(v) /\ raw' = v /\ range' = range
<1>0. filter' # filter /\ filter' # Stopped
  BY DEF Delivered, Stopped
<1>1. CASE ModbusHandle
  <2>1. PICK q \in host.requests :
          \/ ModbusFunc03(q) \/ ModbusFunc04_26(q) \/ ModbusFunc05(q) \/ ModbusFunc10(q)
          \/ ModbusFunc25(q) \/ ModbusFunc27(q) \/ UnknownFunction(q)
    BY <1>1 DEF ModbusHandle
  <2>2. filter' = filter \/ filter' = Stopped
    BY <2>1 DEF ModbusFunc03, ModbusFunc04_26, ModbusFunc05, ModbusFunc10, ModbusFunc25, ModbusFunc27,
               UnknownFunction, NothingElse
  <2> QED BY <1>0, <2>2
<1>2. CASE Sensor_PCap
  <2>1. PICK v \in host.values : Measure(v)
    BY <1>2 DEF Sensor_PCap
  <2>2. v \in Nat
    <3>1. host.values \subseteq 0 .. Word - 1
      BY DeviceAssumption DEF TInv
    <3> QED BY <2>1, <3>1, Scales
  <2>3. ~StartFilter(v)
    BY DEF StartFilter, Delivered
  <2>4. ~Collect(v)
    <3> SUFFICES ASSUME Collect(v) PROVE FALSE
      OBVIOUS
    <3>1. filter'.DataResBuf = Append(filter.DataResBuf, Clamp(v))
      BY FilterParts DEF Collect, FilterRecord, TInv
    <3>2. Append(filter.DataResBuf, Clamp(v)) # << >>
      <4>1. filter.DataResBuf \in Seq(Nat) /\ Clamp(v) \in Nat
        BY <2>2, FilterParts, ClampNat DEF TInv
      <4> QED BY <4>1, AppendProperties
    <3> QED BY <3>1, <3>2 DEF Delivered
  <2>5. range' = range
    BY <1>2 DEF Sensor_PCap, paramVars
  <2> QED BY <2>1, <2>2, <2>3, <2>4, <2>5 DEF Measure
<1>3. CASE SensorEvent \/ UNCHANGED vars
  BY <1>0, <1>3 DEF SensorEvent, vars, chainVars
<1>4. CASE Restart
  BY <1>0, <1>4 DEF Restart
<1> QED BY <1>1, <1>2, <1>3, <1>4 DEF Next

(* The values the filter delivers, for windows of every length, samples in *)
(* every order and commands that change the filter at any moment: two of   *)
(* the smallest and five of the largest samples do not show, nor do the    *)
(* outer thirds of the first window, and the result is between two cells   *)
(* of the second.                                                          *)
THEOREM AveragesOfMiddle == Spec => MiddleAverages
<1>1. ASSUME TInv, [Next]_vars, Delivered PROVE AveragesMiddle
  <2>1. PICK v \in Nat : Deliver(v) /\ raw' = v /\ range' = range
    BY <1>1, OnlyDeliverEmpties
  <2>2. ParamsTyped /\ FilterTyped
    BY <1>1 DEF TInv
  <2> QED BY <2>1, <2>2, DeliverAverages
<1>2. TInv /\ [Next]_vars => [Delivered => AveragesMiddle]_vars
  BY <1>1
<1> QED BY <1>2, TInvHolds, PTL DEF Spec, MiddleAverages, AveragesMiddle

------------------------------------------------------------------------------
(* The ADC                                                                 *)

(* It runs unless its round ended and was not answered yet.                *)
AInv ==
  /\ threaded \in BOOLEAN /\ converting \in BOOLEAN /\ ADC_Updata_Flag \in BOOLEAN
  /\ overtaken \in BOOLEAN /\ poll \in {"flag", "read", "start", "clear"}
  /\ poll \in {"read", "start"} => ~converting /\ ADC_Updata_Flag
  /\ poll = "flag" /\ ADC_Updata_Flag => ~converting
  /\ poll = "clear" /\ ~converting => overtaken
  /\ NotStalled

LEMMA AInvHolds == AdcSpec => []AInv
<1>1. AdcInit => AInv
  BY DEF AdcInit, AInv, NotStalled
<1>2. AInv /\ [AdcNext]_adcVars => AInv'
  <2> SUFFICES ASSUME AInv, [AdcNext]_adcVars PROVE AInv'
    OBVIOUS
  <2> USE DEF AInv, NotStalled
  <2>1. CASE HAL_ADC_ConvCpltCallback
    BY <2>1 DEF HAL_ADC_ConvCpltCallback, RunsAfterCallback
  <2>2. CASE Sensor_ADC_Get_Updata_Flag
    BY <2>2 DEF Sensor_ADC_Get_Updata_Flag
  <2>3. CASE Sensor_ADC_Get_TemperData
    BY <2>3 DEF Sensor_ADC_Get_TemperData
  <2>4. CASE BSP_ADC_Conver_Start
    BY <2>4 DEF BSP_ADC_Conver_Start, RunsAfterStart
  <2>5. CASE Sensor_ADC_Clean_Updata_Flag
    BY <2>5 DEF Sensor_ADC_Clean_Updata_Flag
  <2>6. CASE UNCHANGED adcVars
    BY <2>6 DEF adcVars
  <2> QED BY <2>1, <2>2, <2>3, <2>4, <2>5, <2>6 DEF AdcNext
<1> QED BY <1>1, <1>2, PTL DEF AdcSpec

(* Sampling only ever stops for good when a round ends between the start   *)
(* and the clearing of the flag, and never bare metal.                     *)
THEOREM SamplingGoesOn == AdcSpec => []NotStalled
BY AInvHolds, PTL DEF AInv

(* The temperature is read from a buffer no conversion writes.             *)
THEOREM ReadsUndisturbed == AdcSpec => []ReadUndisturbed
<1>1. AInv => ReadUndisturbed
  BY DEF AInv, ReadUndisturbed
<1> QED BY <1>1, AInvHolds, PTL

==============================================================================
