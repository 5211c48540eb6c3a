----------------------------- MODULE AdcSampling -----------------------------
(***************************************************************************)
(* The ADC and who reads it (adc_app.c, main.c): the completion interrupt  *)
(* stops the ADC, copies the DMA data to uADC_GetResult and sets           *)
(* ADC_Updata_Flag; the main loop, or under RT-Thread the thread of the    *)
(* lowest priority, polls the flag, reads the result, starts the ADC again *)
(* and only then clears the flag.                                          *)
(*                                                                         *)
(* A round of conversions takes longer than the few instructions between   *)
(* start and clearing.  Under RT-Thread other threads may take the         *)
(* processor there for longer than a round.                                *)
(***************************************************************************)
EXTENDS Naturals

VARIABLES
  threaded,         \* RT-Thread build; never changes
  converting,       \* the ADC runs
  ADC_Updata_Flag,
  poll,             \* what the reader does next
  overtaken         \* observer: a round ended between start and clearing

adcVars == <<threaded, converting, ADC_Updata_Flag, poll, overtaken>>

AdcInit ==
  /\ threaded \in BOOLEAN
  /\ converting = TRUE        \* Sensor_ADC_Init
  /\ ADC_Updata_Flag = FALSE
  /\ poll = "flag"
  /\ overtaken = FALSE

(* In the mutant the callback leaves the ADC running.                      *)
RunsAfterCallback_On == TRUE
RunsAfterCallback    == FALSE

HAL_ADC_ConvCpltCallback ==
  /\ converting
  /\ poll = "clear" => threaded
  /\ converting' = RunsAfterCallback
  /\ ADC_Updata_Flag' = TRUE
  /\ overtaken' = (overtaken \/ poll = "clear")
  /\ UNCHANGED <<threaded, poll>>

Sensor_ADC_Get_Updata_Flag ==
  /\ poll = "flag" /\ ADC_Updata_Flag
  /\ poll' = "read"
  /\ UNCHANGED <<threaded, converting, ADC_Updata_Flag, overtaken>>

Sensor_ADC_Get_TemperData ==
  /\ poll = "read"
  /\ poll' = "start"
  /\ UNCHANGED <<threaded, converting, ADC_Updata_Flag, overtaken>>

(* In the mutant the ADC is only started again if the flag is clear.       *)
RunsAfterStart_IfClear == ~ADC_Updata_Flag
RunsAfterStart         == TRUE

BSP_ADC_Conver_Start ==
  /\ poll = "start"
  /\ converting' = RunsAfterStart
  /\ poll' = "clear"
  /\ UNCHANGED <<threaded, ADC_Updata_Flag, overtaken>>

Sensor_ADC_Clean_Updata_Flag ==
  /\ poll = "clear"
  /\ ADC_Updata_Flag' = FALSE
  /\ poll' = "flag"
  /\ UNCHANGED <<threaded, converting, overtaken>>

AdcNext ==
  \/ HAL_ADC_ConvCpltCallback \/ Sensor_ADC_Get_Updata_Flag \/ Sensor_ADC_Get_TemperData
  \/ BSP_ADC_Conver_Start \/ Sensor_ADC_Clean_Updata_Flag

AdcSpec == AdcInit /\ [][AdcNext]_adcVars

(* The results are read while no conversion can overwrite them.            *)
ReadUndisturbed == poll = "read" => ~converting

(* Sampling stops for good, the ADC off and nothing to be polled, only if  *)
(* a round ended between start and clearing: never bare metal, and under   *)
(* RT-Thread only if the reading thread lost the processor there.          *)
NotStalled ==
  /\ poll = "flag" /\ ~converting => ADC_Updata_Flag \/ overtaken
  /\ overtaken => threaded
==============================================================================
