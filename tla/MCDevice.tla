------------------------------- MODULE MCDevice -------------------------------
(* Small instances of Device: a scale of five values, two samples to an  *)
(* average, and one host for each group of commands that act on the same   *)
(* part of the device, so that their state spaces add up.  The ADC, which  *)
(* shares nothing with them, runs with a host that sends nothing.          *)
EXTENDS Device, AdcSampling

MCFilterTable ==
  [k \in 0 .. 2 |-> CASE k = 0 -> [Cycle |-> 1, BufMax |-> 1]
                      [] k = 1 -> [Cycle |-> 2, BufMax |-> 1]
                      [] k = 2 -> [Cycle |-> 3, BufMax |-> 2]]

(* The factory's parameters, scaled.                                       *)
Factory(level) ==
  [p \in Params |->
     CASE p = "Device_Addr" -> 1
       [] p = "FilterFactor" -> level
       [] p \in {"CapMin", "CapMinBak", "CapADMin", "CapDAMin"} -> 0
       [] p \in {"CapADLow", "CapDALow"} -> 1
       [] p \in {"CapADHigh", "CapDAHigh"} -> 2
       [] p = "CapDAMax" -> 3
       [] p \in {"CapMax", "CapMaxBak", "CapADMax", "TempDAMax"} -> 4
       [] p \in {"Correct_K", "Correct_B", "HeightRange", "BaudRate"} -> 1
       [] OTHER -> 0]

Req(to, fn, reg, val, more) == [to |-> to, fn |-> fn, reg |-> reg, val |-> val, more |-> more]
Ask(fn, regs, vals) == {Req(1, fn, r, v, "none") : r \in regs, v \in vals}
Rom(on) == Req(1, "05", "InRomWrEn", on, "none")

Host(requests, values, setup, resets, level) ==
  [requests |-> requests, values |-> values, setup |-> setup, resets |-> resets, level |-> level]

CapHost == Host({Rom(1)} \cup Ask("05", {"Cap", "CapBak"}, {0, 1}), {0, 2, 4}, Factory(1), TRUE, "free")
LimitHost ==
  Host({Rom(1), Req(1, "27", "CapMax", 4, "CapADLow"), Req(1, "27", "CapDAHigh", 2, "CapMin"), Req(1, "27", "none", 0, "none")}
         \cup Ask("27", Limits, {0, 3}), {0, 2, 4}, Factory(0), TRUE, "free")
AdRequests == {Rom(1)} \cup Ask("25", {"ADEnable", "ADScale", "ADEnds"}, {0, 1})
AdHost == Host(AdRequests, {0, 1, 3, 4}, Factory(0), FALSE, "rising")
AdFreeHost == Host(AdRequests, {0, 2, 4}, Factory(0), FALSE, "steady")
DaRequests == {Rom(1)} \cup Ask("25", {"DAEnable", "DAScale", "DAEnds"}, {0, 1})
DaHost == Host(DaRequests, {0, 1, 3, 4}, Factory(0), FALSE, "rising")
DaFreeHost == Host(DaRequests, {0, 2, 4}, Factory(0), FALSE, "steady")
TempHost == Host({Rom(0), Rom(1), Req(1, "25", "none", 0, "none")}
                   \cup Ask("25", {"TempEnable", "TempEnds", "ADEnds"}, {0, 1}), {2}, Factory(0), TRUE, "free")
FilterHost ==
  Host({Rom(1), Req(1, "10", "Correct_B", 0, "CompenEn")} \cup Ask("10", {"FilterFactor"}, {0, 2})
         \cup Ask("10", {"CompenEn"}, {0, 1}), {0, 2, 4}, Factory(1), TRUE, "free")
TalkHost ==
  Host({Rom(0), Rom(1), Req(1, "05", "Freeze", 0, "none"), Req(1, "05", "Freeze", 1, "none"),
        Req(1, "05", "none", 0, "none"), Req(1, "05", "Freeze", 2, "none"), Req(1, "25", "DAEnable", 2, "none"),
        Req(1, "05", "Cap", 0, "none"), Req(2, "03", "Parity", 1, "none"),
        Req(1, "03", "Device_Addr", 14, "none"), Req(1, "03", "none", 1, "none"), Req(0, "03", "Device_Addr", 1, "none"),
        Req(0, "10", "Output_Mode", 1, "Parity"), Req(1, "10", "Device_Addr", 2, "none"), Req(2, "10", "Device_Addr", 1, "none"),
        Req(1, "10", "AutoUpload", 1, "none"), Req(1, "10", "none", 0, "none"), Req(1, "25", "ADEnds", 0, "none"),
        Req(0, "25", "DAEnds", 0, "none"), Req(1, "26", "CapMax", 2, "none"), Req(1, "04", "none", 2, "none"),
        Req(1, "04", "Level", 3, "none"), Req(1, "unknown", "none", 0, "none"), Req(0, "unknown", "none", 0, "none")},
       {2}, Factory(0), TRUE, "free")

AdcHost == Host({}, {0}, Factory(0), FALSE, "free")

AllHosts == {AdcHost, CapHost, LimitHost, AdHost, AdFreeHost, DaHost, DaFreeHost, TempHost, FilterHost, TalkHost}

(* Raising the zero point while the windows remember values below it.      *)
ZeroHost == Host({Rom(1)} \cup Ask("05", {"Cap"}, {0, 1}), {0, 2, 4}, Factory(1), FALSE, "free")
OneHost == {ZeroHost}

MCInit == Init /\ AdcInit /\ (threaded => host = AdcHost)
MCNext ==
  \/ Next /\ UNCHANGED adcVars
  \/ host = AdcHost /\ AdcNext /\ UNCHANGED vars
MCSpec == MCInit /\ [][MCNext]_<<vars, adcVars>>
==============================================================================
