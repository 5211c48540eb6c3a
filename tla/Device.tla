-------------------------------- MODULE Device --------------------------------
(***************************************************************************)
(* The Modbus commands at work on the measuring chain (ModBus_Conf.c,      *)
(* ModBusRtu.c, main.c): reading, writing parameters, the calibrations of  *)
(* capacitance, AD, DA and temperature, which take what the chain measures *)
(* at that moment, freezing, the automatic upload, and restarts, after     *)
(* which the parameters are loaded from flash again.                       *)
(*                                                                         *)
(* A command is one step, as in the bare-metal main loop; how its flash    *)
(* writes and its answer happen is left to ParamStore and ModbusTx.        *)
(***************************************************************************)
EXTENDS LevelSensor

CONSTANTS
  Hosts,        \* what a host may send to a device set up in some way
  Unwritten,    \* 16^8 - 1, what an erased CapMaxBak reads
  SendSize,     \* bytes of the send buffer
  MaxAddr,      \* 247, the last device address
  Levels,       \* filter levels a host may choose
  Stale         \* values the second register of a write may get

Kinds == {"cap", "ad", "da", "temp"}
Ends  == {"Min", "Low", "High", "Max"}

(* The parameter a captured end becomes.                                   *)
TableOf ==
  [cap  |-> [Min |-> "CapMin", Max |-> "CapMax"],
   ad   |-> [Min |-> AD[1], Low |-> AD[2], High |-> AD[3], Max |-> AD[4]],
   da   |-> [Min |-> DA[1], Low |-> DA[2], High |-> DA[3], Max |-> DA[4]],
   temp |-> [Min |-> TempDA[1], Max |-> TempDA[2]]]

Broadcast == 0

ASSUME DeviceAssumption ==
  /\ Unwritten \in Nat /\ SendSize \in Nat /\ MaxAddr \in Nat \ {0} /\ DacMax < HalfWord
  /\ Levels \subseteq DOMAIN FilterTable /\ Stale \subseteq Nat
  /\ \A h \in Hosts :
       /\ DOMAIN h = {"requests", "values", "setup", "resets", "level"}
       /\ h.values \subseteq 0 .. Word - 1 /\ h.resets \in BOOLEAN /\ h.level \in {"free", "steady", "rising"}
       /\ DOMAIN h.setup = Params
       /\ \A p \in Params : h.setup[p] \in Nat
       /\ \A p \in CapParams : h.setup[p] < Word
       /\ \A p \in DaTable : h.setup[p] < HalfWord
       /\ h.setup["FilterFactor"] \in Levels
       /\ \A q \in h.requests : q.val \in Nat

(* The tables as the factory writes them and as calibration leaves them:   *)
(* both ascend, or the inner points of the output's are zero.              *)
InOrder(m, t) == \A i \in 1 .. 3 : m[t[i]] < m[t[i + 1]]
TablesInOrder(m) ==
  /\ InOrder(m, AD)
  /\ m[DA[1]] < m[DA[4]]
  /\ 0 \in {m[DA[2]], m[DA[3]]} \/ InOrder(m, DA)

(* A host that only calibrates finds a device with tables in order that    *)
(* does not compensate.                                                    *)
OnlyCaptures(h) == \A q \in h.requests : q.fn \notin {"10", "27"}

ASSUME SetupAssumption ==
  \A h \in Hosts : OnlyCaptures(h) => h.setup["CompenEn"] # 1 /\ TablesInOrder(h.setup)

VARIABLES
  host,         \* one of Hosts; never changes
  Calib,        \* captured ends of each kind
  ClibFlag,     \* which of them were captured
  ClibEn,       \* AD and temperature: calibration enabled (DA's is CapDA_ClibEn)
  InRomWrEn,    \* writing to flash enabled
  Freeze,
  Send_Buf,     \* address, function and exception at the front of the buffer
  answer,       \* request handled last, what was sent for it
  session       \* observer: ends captured since AD calibration was enabled

calVars  == <<Calib, ClibFlag, ClibEn, CapDA_ClibEn, session>>
sendVars == <<Send_Buf, answer>>
vars == <<paramVars, chainVars, calVars, sendVars, host, InRomWrEn, Freeze>>

------------------------------------------------------------------------------
(* Parameters                                                              *)

Over(new, old) == [p \in DOMAIN old |-> IF p \in DOMAIN new THEN new[p] ELSE old[p]]

Store(new) ==
  /\ ram' = Over(new, ram)
  /\ flash' = Over([p \in DOMAIN new |-> IntCell(new[p])], flash)

(* What a start makes of flash, and memory that nothing has written yet.   *)
Loaded(cells) == [p \in Params |-> Load(p, cells[p])]

NoneCaptured(x) == [k \in Kinds |-> x]

Restart ==
  /\ host.resets
  /\ ram' = Loaded(flash)
  /\ range' = [min |-> ram'["CapMin"], max |-> ram'["CapMax"]]
  /\ filter' = Stopped
  /\ raw' \in host.values
  /\ \E r \in {0, 1} : out' = [ad |-> r * AdcMax, daResult |-> r * DacMax, daOut |-> 0]
  /\ FilterResult' = 0
  /\ dac' = 0
  /\ Calib' = NoneCaptured([e \in Ends |-> 0])
  /\ ClibFlag' = NoneCaptured({})
  /\ session' = {}
  /\ ClibEn' = NoneCaptured(FALSE)
  /\ CapDA_ClibEn' = FALSE
  /\ InRomWrEn' = FALSE
  /\ Freeze' = FALSE
  /\ Send_Buf' = [addr |-> 0, fn |-> "00", exc |-> 0]
  /\ UNCHANGED <<flash, host, answer>>

------------------------------------------------------------------------------
(* Answers                                                                 *)

(* How often MDB_Snd_Msg_RTU sends an answer: not if it is too long, goes  *)
(* to a broadcast or comes from a frozen device; MB_SendData_NoCheck tries *)
(* again without the look at the address.                                  *)
Sendings(head, len, frozen, again) ==
  IF len > SendSize - 2 \/ frozen THEN 0
  ELSE (IF head.addr = Broadcast THEN 0 ELSE 1) + (IF again THEN 1 ELSE 0)

(* In the mutant the frame is built with the address of the device.        *)
Header_OwnAddress(q) == [addr |-> ram["Device_Addr"], fn |-> q.fn, exc |-> 0]
Header(q)            == [addr |-> q.to, fn |-> q.fn, exc |-> 0]

Reply(q, head, len, frozen, again) ==
  /\ Send_Buf' = head
  /\ answer' = [to |-> q.to, fn |-> q.fn, again |-> again, locked |-> ~InRomWrEn,
                mute |-> frozen \/ len > SendSize - 2,
                head |-> head, sent |-> Sendings(head, len, frozen, again)]

Answer(q, len) == Reply(q, Header(q), len, Freeze, FALSE)
Refuse(q, exc) == Reply(q, [Header(q) EXCEPT !.exc = exc], 3, Freeze, FALSE)

------------------------------------------------------------------------------
(* Functions 03, 04 and 26: q.val registers from q.reg on                  *)

NothingElse == UNCHANGED <<paramVars, filter, calVars, InRomWrEn, Freeze>>

ModbusFunc03(q) ==
  /\ q.fn = "03"
  /\ IF q.reg \notin Params \/ q.val = 0 THEN Refuse(q, 2)
     ELSE Reply(q, Header(q), 3 + 2 * q.val, Freeze,
                q.to = Broadcast /\ q.reg = "Device_Addr")
  /\ NothingElse

(* Floats of two registers each.                                           *)
ModbusFunc04_26(q) ==
  /\ q.fn \in {"04", "26"}
  /\ IF q.reg = "none" \/ q.val % 2 # 0 \/ q.val = 0 THEN Refuse(q, 2)
     ELSE Answer(q, 3 + 2 * q.val)
  /\ NothingElse

UnknownFunction(q) ==
  /\ q.fn = "unknown"
  /\ Refuse(q, 1)
  /\ NothingElse

------------------------------------------------------------------------------
(* Function 05: capacitance calibration, freezing, write enable            *)

(* MB_Cap_Calibration: the pair becomes the range, and its backup if none  *)
(* was ever written.  In the mutant the filter keeps its range.            *)
CapPair(c) ==
  LET both == {"CapMin", "CapMax"}
      bak  == IF ram["CapMaxBak"] = Unwritten THEN {"CapMinBak", "CapMaxBak"} ELSE {}
  IN  [p \in both \cup bak |-> IF p \in {"CapMin", "CapMinBak"} THEN c.Min ELSE c.Max]

RangeOf_Kept(c) == range
RangeOf(c)      == [min |-> c.Min, max |-> c.Max]

MB_Cap_Calibration(c) ==
  IF c.Min < c.Max THEN Store(CapPair(c)) /\ range' = RangeOf(c) ELSE UNCHANGED paramVars

CaptureCap(end) ==
  LET c == [Calib["cap"] EXCEPT ![end] = raw]
      f == ClibFlag["cap"] \cup {end}
  IN  /\ Calib' = [Calib EXCEPT !["cap"] = c]
      /\ IF f = {"Min", "Max"}
           THEN MB_Cap_Calibration(c) /\ ClibFlag' = [ClibFlag EXCEPT !["cap"] = {}]
           ELSE UNCHANGED paramVars /\ ClibFlag' = [ClibFlag EXCEPT !["cap"] = f]

RestoreCap ==
  LET c == [Calib["cap"] EXCEPT !["Min"] = ram["CapMinBak"], !["Max"] = ram["CapMaxBak"]]
  IN  /\ Calib' = [Calib EXCEPT !["cap"] = c]
      /\ MB_Cap_Calibration(c)
      /\ UNCHANGED ClibFlag

(* 1 and 0 stand for 0xFF00 and 0; every other value is refused.           *)
Switches(q) == q.val \in {0, 1}
On(q)       == q.val = 1

ModbusFunc05(q) ==
  /\ q.fn = "05"
  /\ UNCHANGED <<filter, ClibEn, CapDA_ClibEn, session>>
  /\ \/ /\ q.reg = "none"
        /\ Refuse(q, 2)
        /\ UNCHANGED <<paramVars, Calib, ClibFlag, InRomWrEn, Freeze>>
     \/ /\ q.reg # "none" /\ ~Switches(q)
        /\ Refuse(q, 3)
        /\ UNCHANGED <<paramVars, Calib, ClibFlag, InRomWrEn, Freeze>>
     \/ /\ q.reg = "InRomWrEn" /\ Switches(q)
        /\ Answer(q, 6)
        /\ InRomWrEn' = On(q)
        /\ UNCHANGED <<paramVars, Calib, ClibFlag, Freeze>>
     \/ /\ q.reg = "Freeze" /\ Switches(q)    \* frozen by the callback, thawed before the answer
        /\ Reply(q, Header(q), 6, Freeze /\ On(q), FALSE)
        /\ Freeze' = On(q)
        /\ UNCHANGED <<paramVars, Calib, ClibFlag, InRomWrEn>>
     \/ /\ q.reg \in {"Cap", "CapBak"} /\ Switches(q) /\ ~InRomWrEn
        /\ Refuse(q, 4)
        /\ UNCHANGED <<paramVars, Calib, ClibFlag, InRomWrEn, Freeze>>
     \/ /\ q.reg = "Cap" /\ Switches(q) /\ InRomWrEn
        /\ Answer(q, 6)
        /\ CaptureCap(IF On(q) THEN "Max" ELSE "Min")
        /\ UNCHANGED <<InRomWrEn, Freeze>>
     \/ /\ q.reg = "CapBak" /\ Switches(q) /\ InRomWrEn
        /\ Answer(q, 6)
        /\ IF On(q) THEN RestoreCap ELSE UNCHANGED <<paramVars, Calib, ClibFlag>>
        /\ UNCHANGED <<InRomWrEn, Freeze>>

------------------------------------------------------------------------------
(* Functions 10 and 27: writing parameters.  The data of a second register *)
(* are taken from behind the first's by the length of all of them, which   *)
(* is past the data: q.more gets a value of Stale.                         *)

Accepts(p, v) ==
  \/ p = "Device_Addr" /\ v \in 1 .. MaxAddr
  \/ p = "BaudRate" /\ v < 6
  \/ p = "Parity" /\ v < 3
  \/ p \in {"CompenEn", "Output_Mode"} /\ v < 2
  \/ p = "FilterFactor" /\ v \in Levels
  \/ p \in {"AutoUpload", "Correct_B"}
  \/ p \in {"Correct_K", "HeightRange"} /\ v > 0

Written(q, s) ==
  [p \in {q.reg, q.more} \cap Params |-> IF p = q.reg THEN q.val ELSE s]

ModbusFunc10(q) ==
  /\ q.fn = "10"
  /\ UNCHANGED <<calVars, InRomWrEn, Freeze>>
  /\ \/ /\ q.reg = "none"
        /\ Refuse(q, 2)
        /\ UNCHANGED <<paramVars, filter>>
     \/ /\ q.reg # "none" /\ ~InRomWrEn
        /\ Refuse(q, 4)
        /\ UNCHANGED <<paramVars, filter>>
     \/ /\ q.reg # "none" /\ InRomWrEn
        /\ Answer(q, 6)
        /\ \E s \in Stale :
             LET w   == Written(q, s)
                 new == {p \in DOMAIN w : Accepts(p, w[p])}
             IN  /\ Store([p \in new |-> w[p]])
                 /\ filter' = IF "FilterFactor" \in new THEN Stopped ELSE filter
        /\ UNCHANGED range

(* The capacitance limits go to flash as the float the host sent; points   *)
(* of the tables go there as integers if they are in range.  In the        *)
(* mutants the points go there as floats too, and the filter is not told   *)
(* of a new limit.                                                         *)
Limits == {"CapMin", "CapMax"}
Accepts27(p, v) ==
  p \in Limits \/ (p \in AdTable /\ v <= AdcMax) \/ (p \in DaTable /\ v <= DacMax)

Cell27_Float(p, v) == FloatCell(v)
Cell27(p, v)       == IF p \in Limits THEN FloatCell(v) ELSE IntCell(v)

RangeWith_Kept(new) == range
RangeWith(new) ==
  [min |-> IF "CapMin" \in DOMAIN new THEN new["CapMin"] ELSE range.min,
   max |-> IF "CapMax" \in DOMAIN new THEN new["CapMax"] ELSE range.max]

ModbusFunc27(q) ==
  /\ q.fn = "27"
  /\ UNCHANGED <<filter, calVars, InRomWrEn, Freeze>>
  /\ \/ /\ ~InRomWrEn
        /\ Refuse(q, 4)
        /\ UNCHANGED paramVars
     \/ /\ InRomWrEn /\ q.reg = "none"
        /\ Refuse(q, 2)
        /\ UNCHANGED paramVars
     \/ /\ InRomWrEn /\ q.reg # "none"
        /\ Answer(q, 6)
        /\ \E s \in Stale :
             LET w   == Written(q, s)
                 new == [p \in {p \in DOMAIN w : Accepts27(p, w[p])} |-> w[p]]
             IN  /\ ram' = Over(new, ram)
                 /\ flash' = Over([p \in DOMAIN new |-> Cell27(p, new[p])], flash)
                 /\ range' = RangeWith(new)

------------------------------------------------------------------------------
(* Function 25: calibration of the AD and DA tables and of the temperature *)
(* output                                                                  *)

Ascending(c) == c.Min < c.Low /\ c.Low < c.High /\ c.High < c.Max

(* What a kind of calibration captures; nothing ever sets TemperInAirAD.   *)
TemperInAirAD == 0
Reading(k) == IF k = "ad" THEN out.ad ELSE IF k = "da" THEN out.daResult ELSE TemperInAirAD

(* What is stored when a calibration is disabled: the captured points if   *)
(* they ascend; for DA the ends alone will do, the inner points are then   *)
(* zero.  In the mutant the inner points are not compared.                 *)
EndsOnly(k, f) == k = "da" /\ f = {"Min", "Max"}
Points(k, f, c) == IF EndsOnly(k, f) THEN [c EXCEPT !["Low"] = 0, !["High"] = 0] ELSE c

Acceptable_EndsCompared(k, f, c) == c.Min < c.Max /\ (k = "temp" => c.Max <= DacMax)
Acceptable(k, f, c) ==
  IF k = "temp" THEN c.Min < c.Max /\ c.Max <= DacMax
  ELSE IF EndsOnly(k, f) THEN c.Min < c.Max ELSE Ascending(c)

EndOf(k, p) == CHOOSE e \in DOMAIN TableOf[k] : TableOf[k][e] = p
TableParams(k) == {TableOf[k][e] : e \in DOMAIN TableOf[k]}

Calibration(k, f, c) ==
  /\ UNCHANGED range
  /\ IF Acceptable(k, f, c)
       THEN /\ Store([p \in TableParams(k) |-> Points(k, f, c)[EndOf(k, p)]])
            /\ Calib' = [Calib EXCEPT ![k] = Points(k, f, c)]
       ELSE UNCHANGED <<ram, flash, Calib>>

Complete(k, f) ==
  IF k = "da" THEN {"Min", "Max"} \subseteq f ELSE f = DOMAIN TableOf[k]

Enabled(k) == IF k = "da" THEN CapDA_ClibEn ELSE ClibEn[k]

(* Enabling AD calibration forgets what was captured before; disabling     *)
(* stores what was captured, if it is enough.  In the mutant enabling      *)
(* forgets nothing.                                                        *)
FlagAfter_Kept(k, on) == ClibFlag[k]
FlagAfter(k, on)      == IF k = "ad" /\ on THEN {} ELSE ClibFlag[k]

SetEnabled(k, on) ==
  LET f == FlagAfter(k, on)
  IN  /\ session' = IF k = "ad" THEN {} ELSE session
      /\ IF k = "da" THEN CapDA_ClibEn' = on /\ UNCHANGED ClibEn
         ELSE ClibEn' = [ClibEn EXCEPT ![k] = on] /\ UNCHANGED CapDA_ClibEn
      /\ IF ~on /\ Complete(k, f)
           THEN Calibration(k, f, Calib[k]) /\ ClibFlag' = [ClibFlag EXCEPT ![k] = {}]
           ELSE UNCHANGED <<paramVars, Calib>> /\ ClibFlag' = [ClibFlag EXCEPT ![k] = f]

Capture(k, end) ==
  /\ IF Enabled(k)
       THEN /\ Calib' = [Calib EXCEPT ![k][end] = Reading(k)]
            /\ ClibFlag' = [ClibFlag EXCEPT ![k] = @ \cup {end}]
            /\ session' = IF k = "ad" THEN session \cup {end} ELSE session
       ELSE UNCHANGED <<Calib, ClibFlag, session>>
  /\ UNCHANGED <<paramVars, ClibEn, CapDA_ClibEn>>

(* The registers of function 25: kind and what a 0 or 0xFF00 captures.     *)
Captures ==
  [DAScale |-> <<"da", "Low", "High">>, DAEnds |-> <<"da", "Min", "Max">>,
   ADScale |-> <<"ad", "Low", "High">>, ADEnds |-> <<"ad", "Min", "Max">>,
   TempEnds |-> <<"temp", "Min", "Max">>]
Enables == [DAEnable |-> "da", ADEnable |-> "ad", TempEnable |-> "temp"]

ModbusFunc25(q) ==
  /\ q.fn = "25"
  /\ UNCHANGED <<filter, InRomWrEn, Freeze>>
  /\ \/ /\ ~InRomWrEn    \* refused before the request is in the buffer
        /\ Reply(q, [Send_Buf EXCEPT !.exc = 4], 3, Freeze, FALSE)
        /\ UNCHANGED <<paramVars, calVars>>
     \/ /\ InRomWrEn /\ q.reg = "none"
        /\ Refuse(q, 2)
        /\ UNCHANGED <<paramVars, calVars>>
     \/ /\ InRomWrEn /\ q.reg # "none" /\ ~Switches(q)
        /\ Refuse(q, 3)
        /\ UNCHANGED <<paramVars, calVars>>
     \/ /\ InRomWrEn /\ Switches(q) /\ q.reg \in DOMAIN Enables
        /\ Answer(q, 6)
        /\ SetEnabled(Enables[q.reg], On(q))
     \/ /\ InRomWrEn /\ Switches(q) /\ q.reg \in DOMAIN Captures
        /\ Answer(q, 6)
        /\ LET c == Captures[q.reg] IN Capture(c[1], IF On(q) THEN c[3] ELSE c[2])

------------------------------------------------------------------------------
(* The main loop                                                           *)

ModbusHandle ==
  /\ \E q \in host.requests :
       /\ q.to \in {ram["Device_Addr"], Broadcast}
       /\ \/ ModbusFunc03(q) \/ ModbusFunc04_26(q) \/ ModbusFunc05(q) \/ ModbusFunc10(q)
          \/ ModbusFunc25(q) \/ ModbusFunc27(q) \/ UnknownFunction(q)
  /\ UNCHANGED <<host, raw, FilterResult, out, dac>>

(* A steady level keeps its value for all samples of an average, and a     *)
(* rising one is steady and never falls.                                   *)
Follows(v) ==
  /\ host.level # "free" /\ filter.DataResBuf # << >> => v = raw
  /\ host.level = "rising" /\ filter.FilterStart => v >= raw

Sensor_PCap ==
  /\ \E v \in host.values : Follows(v) /\ Measure(v)
  /\ UNCHANGED <<paramVars, calVars, sendVars, host, InRomWrEn, Freeze>>

(* The automatic upload leaves its front in the send buffer.               *)
SensorEvent ==
  /\ ram["AutoUpload"] # 0
  /\ Send_Buf' = [addr |-> ram["Device_Addr"], fn |-> "04", exc |-> 0]
  /\ UNCHANGED <<paramVars, chainVars, calVars, answer, host, InRomWrEn, Freeze>>

NoAnswer ==
  [to |-> Broadcast, fn |-> "none", again |-> FALSE, locked |-> FALSE, mute |-> FALSE,
   head |-> [addr |-> 0, fn |-> "00", exc |-> 0], sent |-> 0]

Init ==
  /\ host \in Hosts
  /\ flash = [p \in Params |-> IntCell(host.setup[p])]
  /\ ram = Loaded(flash)
  /\ range = [min |-> ram["CapMin"], max |-> ram["CapMax"]]
  /\ filter = Stopped
  /\ raw \in host.values
  /\ \E r \in {0, 1} : out = [ad |-> r * AdcMax, daResult |-> r * DacMax, daOut |-> 0]
  /\ FilterResult = 0 /\ dac = 0
  /\ Calib = NoneCaptured([e \in Ends |-> 0])
  /\ ClibFlag = NoneCaptured({}) /\ session = {}
  /\ ClibEn = NoneCaptured(FALSE) /\ CapDA_ClibEn = FALSE
  /\ InRomWrEn = FALSE /\ Freeze = FALSE
  /\ Send_Buf = NoAnswer.head /\ answer = NoAnswer

Next == ModbusHandle \/ Sensor_PCap \/ SensorEvent \/ Restart

Spec == Init /\ [][Next]_vars

------------------------------------------------------------------------------
(* Properties                                                              *)

TypeOK ==
  /\ host \in Hosts
  /\ ram \in [Params -> Int]
  /\ flash \in [Params -> [enc : {"int", "float"}, val : Nat]]
  /\ range \in [min : Nat, max : Nat]
  /\ raw \in Nat /\ FilterResult \in Nat /\ dac \in 0 .. DacMax
  /\ out \in [ad : 0 .. AdcMax, daResult : 0 .. DacMax, daOut : 0 .. HalfWord - 1]
  /\ filter.FilterStart \in BOOLEAN /\ Len(filter.DataResBuf) < DataBufMax
  /\ filter.FilterStart => Len(filter.win1) = Level.Cycle /\ Len(filter.win2) = Level.BufMax
  /\ Calib \in [Kinds -> [Ends -> Nat]]
  /\ ClibFlag \in [Kinds -> SUBSET Ends] /\ session \in SUBSET Ends
  /\ ClibEn \in [Kinds -> BOOLEAN] /\ CapDA_ClibEn \in BOOLEAN
  /\ InRomWrEn \in BOOLEAN /\ Freeze \in BOOLEAN

(* A restart changes no parameter a command has set (the answer said it is *)
(* stored): what start-up makes of flash is what is in use.  Three kinds   *)
(* of command keep this promise only until the restart: function 27 stores *)
(* the limits as floats, which start-up reads as integers, and function 10 *)
(* takes B without the hundred start-up subtracts.                         *)
Reloads(p) ==
  \/ ram[p] = Load(p, flash[p])
  \/ p \in Limits /\ flash[p] = FloatCell(ram[p])
  \/ p = "Correct_B" /\ flash[p] = IntCell(ram[p])
ReloadSame == \A p \in Params : Reloads(p)

(* The filter clips to the limits the conversion divides by: calibration,  *)
(* restoring, function 27 and restarts all change both places.             *)
RangesAgree == range = [min |-> ram["CapMin"], max |-> ram["CapMax"]]

(* Calibration by capture alone never makes the output fall while the      *)
(* level rises, nor leave the table's ends, whatever was captured in what  *)
(* order and however much of it was left over from an earlier attempt.     *)
ByCapture == OnlyCaptures(host)
MonotoneOutput ==
  ByCapture =>
    \A v \in range.min .. range.max :
      LET o == Converted(v).daOut
      IN  /\ ram[DA[1]] <= o /\ o <= ram[DA[4]]
          /\ v > range.min => Converted(v - 1).daOut <= o

(* The averages are those of the cells in the middle, whatever order they  *)
(* came in: of the samples two smaller and five larger ones do not show,   *)
(* of a window its outer thirds; and what leaves the filter lies between   *)
(* averages that are in its window.  The cells may be arranged in any way  *)
(* that separates smaller from larger ones at both places: all such        *)
(* arrangements have the same values in the middle.                        *)
Rearranged(a) ==
  LET places == DOMAIN a
  IN  {[i \in places |-> a[p[i]]] : p \in {p \in [places -> places] : Range(p) = places}}
Separated(b, i, j) ==
  /\ \A x \in 1 .. i, y \in i + 1 .. Len(b) : b[x] <= b[y]
  /\ \A x \in 1 .. j, y \in j + 1 .. Len(b) : b[x] <= b[y]
IsMiddleMean(v, a, head, tail) ==
  \E b \in Rearranged(a) :
    /\ Separated(b, head, Len(a) - tail)
    /\ v = Total(SubSeq(b, head + 1, Len(a) - tail)) \div (Len(a) - head - tail)
Between(v, cells) ==
  /\ \E i \in DOMAIN cells : cells[i] <= v
  /\ \E i \in DOMAIN cells : v <= cells[i]
Delivered == filter.FilterStart /\ filter'.FilterStart /\ filter.DataResBuf # << >> /\ filter'.DataResBuf = << >>
MiddleAverages ==
  [][Delivered =>
       LET w == filter'.win1
           n == Len(w) \div 3
       IN  /\ IsMiddleMean(Last(w), Append(filter.DataResBuf, Clamp(raw')), HeadDrop, TailDrop)
           /\ n > 0 => IsMiddleMean(Last(filter'.win2), w, n, n)
           /\ Between(FilterResult', filter'.win2)]_vars

(* The AD table is only ever made of points captured since its calibration *)
(* was last enabled.                                                       *)
ADFromOneSession ==
  [][(\E p \in AdTable : ram'[p] # ram[p]) /\ ByCapture => session = Ends]_vars

(* A request to this device is answered once, in the name of this request, *)
(* unless the device is frozen or the answer too long; a broadcast only if *)
(* it asks for the address.  Function 25 while writing is disabled is the  *)
(* exception: it answers with whatever front the buffer still has.         *)
AnswersRequest ==
  ~(answer.fn = "25" /\ answer.locked) =>
    /\ answer.sent = (IF answer.mute \/ (answer.to = Broadcast /\ ~answer.again) THEN 0 ELSE 1)
    /\ answer.sent > 0 => answer.head.addr = answer.to /\ answer.head.fn = answer.fn

(* An empty tank is not shown as a full one: a capacitance below the zero  *)
(* point gives a level of zero.                                            *)
EmptyNotFull ==
  [][FilterResult' # FilterResult /\ FilterResult' < ram["CapMin"] => out'.ad < AdcMax]_vars

==============================================================================
