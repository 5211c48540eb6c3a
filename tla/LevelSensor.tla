----------------------------- MODULE LevelSensor -----------------------------
(***************************************************************************)
(* The measuring chain (Picocap_app.c, TypeConvert.c, dac_bsp.c and the    *)
(* capacitance part of the main loop): a capacitance every 100 ms, ten of  *)
(* them averaged without their extremes, two sliding windows of such       *)
(* averages, the level as an AD value, the four-point table that turns it  *)
(* into the value of the analogue output.                                  *)
(*                                                                         *)
(* The parameters are kept twice: ram is what the program works with,      *)
(* flash what it loads when it starts (one copy of what module ParamStore  *)
(* keeps three times).  Unsigned differences wrap at Word and HalfWord.    *)
(***************************************************************************)
EXTENDS Integers, Sequences, SequencesExt

CONSTANTS
  Word, HalfWord,                 \* 2^32 and 2^16
  AdcMax, DacMax,                 \* 65535 and 4095
  DataBufMax, HeadDrop, TailDrop, \* 10, 2 and 5
  FilterTable,                    \* per filter level: cells of both windows
  Percent,                        \* 100: factors K and offsets B are stored times this
  FloatOne                        \* above it lie the bits of every positive float

ASSUME LevelSensorAssumption ==
  /\ {Word, HalfWord, AdcMax, DacMax, DataBufMax, Percent} \subseteq Nat \ {0}
  /\ {HeadDrop, TailDrop, FloatOne} \subseteq Nat
  /\ HeadDrop + TailDrop < DataBufMax
  /\ \A k \in DOMAIN FilterTable : FilterTable[k] \in [Cycle : Nat \ {0}, BufMax : Nat \ {0}]

CapParams == {"CapMin", "CapMax", "CapMinBak", "CapMaxBak"}
AD        == <<"CapADMin", "CapADLow", "CapADHigh", "CapADMax">>
DA        == <<"CapDAMin", "CapDALow", "CapDAHigh", "CapDAMax">>
TempDA    == <<"TempDAMin", "TempDAMax">>
AdTable   == {AD[i] : i \in 1 .. 4}
DaTable   == {DA[i] : i \in 1 .. 4}
Params ==
  {"Device_Addr", "BaudRate", "Parity", "AutoUpload", "Output_Mode", "HeightRange",
   "FilterFactor", "CompenEn", "Correct_K", "Correct_B"}
    \cup CapParams \cup AdTable \cup DaTable \cup {TempDA[i] : i \in 1 .. 2}

VARIABLES
  ram,           \* value of each parameter in use
  flash,         \* bytes of each parameter in flash: an integer's or a float's
  range,         \* InputRangeMin and InputRangeMax of the filter
  CapDA_ClibEn,  \* the analogue output is being calibrated
  raw,           \* PCap_ResultValue
  filter,        \* FilterStart, DataResBuf and both windows
  FilterResult,
  out,           \* LiquidHeightAD, PCapDA_ResultValue, PCapDA_OutValue
  dac            \* value at the output

paramVars == <<ram, flash, range>>
chainVars == <<raw, filter, FilterResult, out, dac>>

IntCell(v)   == [enc |-> "int", val |-> v]
FloatCell(v) == [enc |-> "float", val |-> v]

(* The bits of a float read as an integer.                                 *)
FloatBits(v) == IF v = 0 THEN 0 ELSE FloatOne + v

(* What the program makes of a parameter's bytes when it starts.           *)
Load(p, cell) ==
  IF cell.enc = "float" THEN FloatBits(cell.val)
  ELSE IF p = "Correct_B" THEN cell.val - Percent ELSE cell.val

------------------------------------------------------------------------------
(* Averages without extremes                                               *)

Total(a) == FoldLeft(LAMBDA s, v : s + v, 0, a)

Exchange(a, j) ==
  IF a[j] > a[j + 1] THEN [a EXCEPT ![j] = a[j + 1], ![j + 1] = a[j]] ELSE a

(* One pass per tail cell moves the largest value up, then one per head    *)
(* cell the smallest down.  In the mutant the second loop begins one cell  *)
(* lower.                                                                  *)
Pass(a, places)   == FoldLeft(Exchange, a, places)
Upward(n)         == [j \in 1 .. n - 1 |-> j]
Downward(n, last) == [k \in 1 .. n - last |-> n - k]
SortArrayExtreme_Short(a, head, tail) ==
  LET n  == Len(a)
      up == FoldLeft(LAMBDA b, i : Pass(b, Upward(n - i + 1)), a, [i \in 1 .. tail |-> i])
  IN  FoldLeft(LAMBDA b, i : Pass(b, Downward(n - tail - 1, i)), up, [i \in 1 .. head |-> i])
SortArrayExtreme(a, head, tail) ==
  LET n  == Len(a)
      up == FoldLeft(LAMBDA b, i : Pass(b, Upward(n - i + 1)), a, [i \in 1 .. tail |-> i])
  IN  FoldLeft(LAMBDA b, i : Pass(b, Downward(n - tail, i)), up, [i \in 1 .. head |-> i])

GetAverage(a, head, tail) ==
  IF head + tail >= Len(a) THEN 0
  ELSE Total(SubSeq(a, head + 1, Len(a) - tail)) \div (Len(a) - head - tail)

GetDelExtremeAndAverage(a, head, tail) ==
  GetAverage(SortArrayExtreme(a, head, tail), head, tail)

------------------------------------------------------------------------------
(* Sensor_DataFilter                                                       *)

Level  == FilterTable[ram["FilterFactor"]]
Fill(n, v) == [i \in 1 .. n |-> v]

(* SwitchCurFilter: the windows are filled anew from the next value.       *)
Stopped == [FilterStart |-> FALSE, DataResBuf |-> << >>, win1 |-> << >>, win2 |-> << >>]

Clamp(v) ==
  LET low == IF v > range.max THEN range.max ELSE v
  IN  IF low < range.min THEN range.min ELSE low

Shifted(w, v) == Append(Tail(w), v)

(* Mean of a window, from three cells on without its outer thirds.         *)
WindowMean(w) ==
  IF Len(w) >= 3 THEN GetDelExtremeAndAverage(w, Len(w) \div 3, Len(w) \div 3)
  ELSE GetAverage(w, 0, 0)

------------------------------------------------------------------------------
(* Sensor_PCap_DataConvert                                                 *)

(* K and B act on the value when compensation is on; a float below zero    *)
(* becomes the integer 0.                                                  *)
Compensated(v) ==
  LET c == (v * ram["Correct_K"]) \div Percent + (ram["Correct_B"] - Percent)
  IN  IF ram["CompenEn"] # 1 THEN v ELSE IF c < 0 THEN 0 ELSE c

(* The share of the capacitance range, at most the whole of it, of a full  *)
(* scale: the quotient of two unsigned differences.  In the mutant it may  *)
(* be more than the whole.                                                 *)
Share_Uncapped(v, full) ==
  LET num == (v - ram["CapMin"]) % Word
      den == (ram["CapMax"] - ram["CapMin"]) % Word
  IN  IF num = 0 THEN 0 ELSE IF den = 0 THEN full ELSE (num * full) \div den
Share(v, full) ==
  LET num == (v - ram["CapMin"]) % Word
      den == (ram["CapMax"] - ram["CapMin"]) % Word
  IN  IF num = 0 THEN 0 ELSE IF num > den THEN full ELSE (num * full) \div den

(* Between two points of the table.                                        *)
Interpolated(i, ad) ==
  LET rise == (ram[DA[i + 1]] - ram[DA[i]]) % HalfWord
  IN  (((ad - ram[AD[i]]) * rise) \div (ram[AD[i + 1]] - ram[AD[i]]) + ram[DA[i]]) % HalfWord

(* The output for an AD value.                                             *)
OnTable(ad) ==
  LET at == {i \in 1 .. 3 : ram[AD[i]] <= ad /\ ad < ram[AD[i + 1]]}
  IN  IF ad < ram[AD[1]] THEN ram[DA[1]]
      ELSE IF at = {} THEN ram[DA[4]]
      ELSE Interpolated(CHOOSE i \in at : \A j \in at : i <= j, ad)

Linear(v) == (Share(v, ram[DA[4]] - ram[DA[1]]) + ram[DA[1]]) % HalfWord

Converted(result) ==
  LET v  == Compensated(result)
      ad == Share(v, AdcMax)
  IN  [ad       |-> ad,
       daResult |-> Share(v, DacMax),
       daOut    |-> IF 0 \in {ram[DA[2]], ram[DA[3]]} THEN Linear(v) ELSE OnTable(ad)]

(* BSP_DAC_Convert refuses what the converter cannot show.                 *)
DacAfter(v) == IF v <= DacMax THEN v ELSE dac

------------------------------------------------------------------------------
(* The capacitance part of the main loop, for one value of the chip: it    *)
(* starts the filter, is collected, or completes the samples and goes      *)
(* through windows, conversion and output.                                 *)

StartFilter(v) ==
  /\ ~filter.FilterStart
  /\ filter' = [FilterStart |-> TRUE, DataResBuf |-> << >>,
                win1 |-> Fill(Level.Cycle, Clamp(v)), win2 |-> Fill(Level.BufMax, Clamp(v))]
  /\ UNCHANGED <<FilterResult, out, dac>>

Collect(v) ==
  /\ filter.FilterStart
  /\ Len(filter.DataResBuf) + 1 < DataBufMax
  /\ filter' = [filter EXCEPT !.DataResBuf = Append(@, Clamp(v))]
  /\ UNCHANGED <<FilterResult, out, dac>>

Deliver(v) ==
  /\ filter.FilterStart
  /\ Len(filter.DataResBuf) + 1 = DataBufMax
  /\ LET avg1 == GetDelExtremeAndAverage(Append(filter.DataResBuf, Clamp(v)), HeadDrop, TailDrop)
         win1 == Shifted(filter.win1, avg1)
         win2 == Shifted(filter.win2, WindowMean(win1))
     IN  /\ filter' = [filter EXCEPT !.DataResBuf = << >>, !.win1 = win1, !.win2 = win2]
         /\ FilterResult' = WindowMean(win2)
  /\ out' = Converted(FilterResult')
  /\ dac' = DacAfter(IF CapDA_ClibEn THEN out'.daResult ELSE out'.daOut)

Measure(v) ==
  /\ raw' = v
  /\ StartFilter(v) \/ Collect(v) \/ Deliver(v)

==============================================================================
