------------------------------- MODULE ModbusTx -------------------------------
(***************************************************************************)
(* Sending over the half-duplex RS-485 line (ModBusRtu.c, ModBus_Conf.c,   *)
(* usart_app.c).  Two actors share one send buffer, one transmit DMA and   *)
(* the direction pin of the line driver: "hand" answers a request of the   *)
(* host and then runs the callback the command left (a new baud rate, a    *)
(* freeze, a reset, an answer to a broadcast), "up" uploads the level by   *)
(* itself.  Bare metal they take turns in the main loop and wait for       *)
(* TX_Cplt_Flag; under RT-Thread they are threads, "hand" of the higher    *)
(* priority, and wait for the semaphore TX_Lock.                           *)
(*                                                                         *)
(* A frame is a head, a tail and the CRC over what the buffer held when it *)
(* was computed; the DMA reads the buffer piece by piece while the program *)
(* runs on.                                                                *)
(***************************************************************************)
EXTENDS Integers, Sequences

CONSTANTS
  Builds,        \* which of them: TRUE is the RT-Thread build
  Requests,      \* requests the host may send
  Names          \* frames of one actor told apart: two, because the next is
                 \* begun when the one before was handed to the DMA, or one
                 \* where no property looks at what is sent

Commands == {"none", "thaw", "freeze", "reinit", "reset", "read_addr"}
Foreign  == [bc |-> FALSE, do |-> "foreign"]   \* another device's, or a bad CRC

ASSUME ModbusTxAssumption ==
  /\ Builds # {} /\ Builds \subseteq BOOLEAN
  /\ Requests \subseteq [bc : BOOLEAN, do : Commands] \cup {Foreign}
  /\ Names \in {1, 2}

Actors == {"hand", "up"}

VARIABLES
  RTT,              \* RT-Thread build; never changes
  dir,              \* direction pin: "rx" or "tx"
  TX_Cplt_Flag,     \* bare metal: no transmission is going on
  TX_Lock, waiters, \* RT-Thread: semaphore value, suspended threads
  dma,              \* transmit DMA: busy, and the pieces it read so far
  Send_Buf,         \* head, tail, crc
  Freeze,
  line,             \* request whose bytes are in, the pause still to come
  RX_Updata_Flag,
  Receive_Buf,      \* request waiting for the handler or being handled
  ModBus_CallBack, Check_Addr,
  pc,
  n                 \* name of the frame each actor builds

txVars   == <<RTT, dir, TX_Cplt_Flag, TX_Lock, waiters, dma>>
rxVars   == <<line, RX_Updata_Flag>>
handVars == <<Receive_Buf, ModBus_CallBack, Check_Addr>>
vars     == <<txVars, Send_Buf, Freeze, rxVars, handVars, pc, n>>

NoReq   == [bc |-> FALSE, do |-> "no request"]
NoFrame == <<"no frame", 0>>
Idle    == [busy |-> FALSE, sent |-> << >>]

Blocked(a) == \E i \in 1 .. Len(waiters) : waiters[i] = a
HandIdle   == pc["hand"] = "idle" /\ ~RX_Updata_Flag

(* Who may take the next step: the main loop finishes one call before the  *)
(* next; of the threads the upload runs while the handler sleeps.          *)
MayRun(a) ==
  /\ ~Blocked(a)
  /\ \/ RTT /\ (a = "hand" \/ HandIdle \/ Blocked("hand"))
     \/ ~RTT /\ \A b \in Actors \ {a} : pc[b] = "idle"

At(a, where) == MayRun(a) /\ pc[a] = where
Goto(a, where) == pc' = [pc EXCEPT ![a] = where]

(* The frame an actor is building.                                         *)
Frame(a) == <<a, n[a]>>

(* Where MDB_Snd_Msg_RTU returns to: ModbusAutoUpload is done, ModbusHandle *)
(* goes on to its callback, MB_SendData_NoCheck is that callback.          *)
Return(a) == IF a = "up" THEN "idle" ELSE IF Check_Addr THEN "callback" ELSE "clear"

------------------------------------------------------------------------------
(* The host, and the receiver of module UartRx reduced to what it hands on: *)
(* bytes are heard while the driver receives, and arrive cut while it      *)
(* sends; the pause comes later.                                           *)

HostSends ==
  /\ line = NoReq
  /\ line' \in IF dir = "rx" THEN Requests ELSE {Foreign}
  /\ UNCHANGED <<txVars, Send_Buf, Freeze, RX_Updata_Flag, handVars, pc, n>>

(* A request that ends while another one is handled is lost with the flag  *)
(* that announced it.                                                      *)
HAL_UART_RxTimoCallback ==
  /\ line # NoReq
  /\ line' = NoReq
  /\ Receive_Buf' = IF pc["hand"] = "idle" THEN line ELSE Receive_Buf
  /\ RX_Updata_Flag' = TRUE
  /\ UNCHANGED <<txVars, Send_Buf, Freeze, ModBus_CallBack, Check_Addr, pc, n>>

------------------------------------------------------------------------------
(* ModbusHandle and ModbusAutoUpload up to MDB_Snd_Msg_RTU                 *)

ModbusHandle ==
  /\ At("hand", "idle") /\ RX_Updata_Flag
  /\ Check_Addr' = TRUE
  /\ IF Receive_Buf = Foreign
       THEN Goto("hand", "clear") /\ UNCHANGED n
       ELSE Goto("hand", "head") /\ n' = [n EXCEPT !["hand"] = (@ + 1) % Names]
  /\ UNCHANGED <<txVars, Send_Buf, Freeze, rxVars, Receive_Buf, ModBus_CallBack>>

SensorEvent ==
  /\ At("up", "idle")
  /\ n' = [n EXCEPT !["up"] = (@ + 1) % Names]
  /\ Goto("up", "head")
  /\ UNCHANGED <<txVars, Send_Buf, Freeze, rxVars, handVars>>

FillHead(a) ==
  /\ At(a, "head")
  /\ Send_Buf' = [Send_Buf EXCEPT !.head = Frame(a)]
  /\ Goto(a, "tail")
  /\ UNCHANGED <<txVars, Freeze, rxVars, handVars, n>>

(* What the command leaves to be done once it is answered.                 *)
CallBackOf(r) ==
  IF r.do \in {"freeze", "reinit", "reset"} THEN r.do
  ELSE IF r.do = "read_addr" /\ r.bc THEN "send" ELSE "none"

(* In the mutant the upload leaves the end of the last frame where it is.  *)
TailOf_UploadKeeps(a) == IF a = "up" THEN Send_Buf.tail ELSE Frame(a)
TailOf(a)             == Frame(a)

FillTail(a) ==
  /\ At(a, "tail")
  /\ Send_Buf' = [Send_Buf EXCEPT !.tail = TailOf(a)]
  /\ IF a = "hand"
       THEN /\ ModBus_CallBack' = CallBackOf(Receive_Buf)
            /\ Freeze' = (Freeze /\ Receive_Buf.do # "thaw")
       ELSE UNCHANGED <<ModBus_CallBack, Freeze>>
  /\ Goto(a, "check")
  /\ UNCHANGED <<txVars, rxVars, Receive_Buf, Check_Addr, n>>

------------------------------------------------------------------------------
(* MDB_Snd_Msg_RTU and Send_Data                                           *)

(* The CRC goes behind what the buffer holds; answers to broadcasts and    *)
(* everything a frozen device would say are dropped.  In the mutants the   *)
(* freeze stops only answers, or is looked at when Send_Data has switched  *)
(* the driver over.                                                        *)
Dropped_AnswersOnly(a) == a = "hand" /\ (Freeze \/ (Receive_Buf.bc /\ Check_Addr))
Dropped(a)             == Freeze \/ (a = "hand" /\ Receive_Buf.bc /\ Check_Addr)

DirAtCheck_Early(a) == "tx"
DirAtCheck(a)       == dir

MDB_Snd_Msg_RTU(a) ==
  /\ At(a, "check")
  /\ IF Dropped(a)
       THEN Goto(a, Return(a)) /\ UNCHANGED Send_Buf
       ELSE /\ Goto(a, "on")
            /\ Send_Buf' = [Send_Buf EXCEPT !.crc = <<Send_Buf.head, Send_Buf.tail>>]
  /\ dir' = DirAtCheck(a)
  /\ UNCHANGED <<RTT, TX_Cplt_Flag, TX_Lock, waiters, dma, Freeze, rxVars, handVars, n>>

TX_ON(a) ==
  /\ At(a, "on")
  /\ dir' = "tx"
  /\ Goto(a, "take")
  /\ UNCHANGED <<RTT, TX_Cplt_Flag, TX_Lock, waiters, dma, Send_Buf, Freeze, rxVars,
                 handVars, n>>

(* Waiting for the transmitter.  The callbacks wait like Send_Data, but    *)
(* leave TX_Cplt_Flag as it is.                                            *)
Waits         == {"take", "reinit_wait", "reset_wait"}
After(where)  == CASE where = "take" -> "dma"
                   [] where = "reinit_wait" -> "reinit"
                   [] where = "reset_wait" -> "reset"

(* Who waits; in the mutants only Send_Data, or only the callbacks.        *)
MustWait_Sends(where)     == where = "take"
MustWait_CallBacks(where) == where # "take"
MustWait(where)           == where \in Waits

(* The semaphore's queue is first in, first out; in the mutant it is kept  *)
(* by priority.                                                            *)
Queued_Priority(a) == IF a = "hand" THEN <<a>> \o waiters ELSE Append(waiters, a)
Queued(a)          == Append(waiters, a)

Sem_Take(a) ==
  /\ RTT
  /\ \/ ~MustWait(pc[a]) /\ Goto(a, After(pc[a])) /\ UNCHANGED <<TX_Lock, waiters>>
     \/ MustWait(pc[a]) /\ TX_Lock > 0
          /\ TX_Lock' = TX_Lock - 1 /\ Goto(a, After(pc[a])) /\ UNCHANGED waiters
     \/ MustWait(pc[a]) /\ TX_Lock = 0
          /\ waiters' = Queued(a) /\ UNCHANGED <<TX_Lock, pc>>
  /\ UNCHANGED TX_Cplt_Flag

Cplt_Wait(a) ==
  /\ ~RTT
  /\ MustWait(pc[a]) => TX_Cplt_Flag
  /\ TX_Cplt_Flag' = (TX_Cplt_Flag /\ pc[a] # "take")
  /\ Goto(a, After(pc[a]))
  /\ UNCHANGED <<TX_Lock, waiters>>

WaitForTx(a) ==
  /\ MayRun(a) /\ pc[a] \in Waits
  /\ Sem_Take(a) \/ Cplt_Wait(a)
  /\ UNCHANGED <<RTT, dir, dma, Send_Buf, Freeze, rxVars, handVars, n>>

(* rt_sem_release hands the semaphore to the first waiter; p is the value  *)
(* of pc the waiter's step starts from.                                    *)
Sem_Release(p) ==
  IF waiters = << >>
    THEN TX_Lock' = TX_Lock + 1 /\ pc' = p /\ UNCHANGED waiters
    ELSE /\ waiters' = Tail(waiters)
         /\ pc' = [p EXCEPT ![Head(waiters)] = After(p[Head(waiters)])]
         /\ UNCHANGED TX_Lock

(* HAL_UART_Transmit_DMA refuses while the transmitter is busy.            *)
Transmit_DMA(a) ==
  /\ At(a, "dma")
  /\ dma' = IF dma.busy THEN dma ELSE [busy |-> TRUE, sent |-> << >>]
  /\ Goto(a, Return(a))
  /\ UNCHANGED <<RTT, dir, TX_Cplt_Flag, TX_Lock, waiters, Send_Buf, Freeze, rxVars, handVars,
                 n>>

------------------------------------------------------------------------------
(* The hardware                                                            *)

Piece(i) == IF i = 1 THEN Send_Buf.head ELSE IF i = 2 THEN Send_Buf.tail ELSE Send_Buf.crc

DmaRead ==
  /\ dma.busy /\ Len(dma.sent) < 3
  /\ dma' = [dma EXCEPT !.sent = Append(@, Piece(Len(@) + 1))]
  /\ UNCHANGED <<RTT, dir, TX_Cplt_Flag, TX_Lock, waiters, Send_Buf, Freeze, rxVars, handVars,
                 pc, n>>

(* Transmission complete; in the mutant nobody learns of it.               *)
SignalsEnd_Never == FALSE
SignalsEnd       == TRUE

HAL_UART_TxCpltCallback ==
  /\ dma.busy /\ Len(dma.sent) = 3
  /\ dma' = Idle
  /\ dir' = "rx"
  /\ TX_Cplt_Flag' = (TX_Cplt_Flag \/ SignalsEnd)
  /\ IF RTT /\ SignalsEnd THEN Sem_Release(pc) ELSE UNCHANGED <<TX_Lock, waiters, pc>>
  /\ UNCHANGED <<RTT, Send_Buf, Freeze, rxVars, handVars, n>>

------------------------------------------------------------------------------
(* The callbacks                                                           *)

CallBack ==
  /\ At("hand", "callback")
  /\ Goto("hand", CASE ModBus_CallBack = "reinit" -> "reinit_wait"
                    [] ModBus_CallBack = "reset"  -> "reset_wait"
                    [] ModBus_CallBack = "send"   -> "check"
                    [] OTHER                      -> "clear")
  /\ Freeze' = (Freeze \/ ModBus_CallBack = "freeze")
  /\ Check_Addr' = (ModBus_CallBack # "send")
  /\ ModBus_CallBack' = "none"
  /\ UNCHANGED <<txVars, Send_Buf, rxVars, Receive_Buf, n>>

(* A new baud rate, with the driver back to receiving.                     *)
MB_USART_ReInit ==
  /\ At("hand", "reinit")
  /\ dir' = "rx"
  /\ LET returned == [pc EXCEPT !["hand"] = "clear"]
     IN  IF RTT THEN Sem_Release(returned)
                ELSE pc' = returned /\ UNCHANGED <<TX_Lock, waiters>>
  /\ UNCHANGED <<RTT, TX_Cplt_Flag, dma, Send_Buf, Freeze, rxVars, handVars, n>>

(* ModBus_Init; no command stores the freeze flag, so it reads as thawed.  *)
PowerOn ==
  /\ dir' = "rx" /\ TX_Cplt_Flag' = TRUE /\ TX_Lock' = 1 /\ waiters' = << >>
  /\ dma' = Idle
  /\ Send_Buf' = [head |-> NoFrame, tail |-> NoFrame, crc |-> <<NoFrame, NoFrame>>]
  /\ Freeze' = FALSE
  /\ line' = NoReq /\ RX_Updata_Flag' = FALSE
  /\ Receive_Buf' = NoReq /\ ModBus_CallBack' = "none" /\ Check_Addr' = TRUE
  /\ pc' = [a \in Actors |-> "idle"]

MB_System_Reset == At("hand", "reset") /\ PowerOn /\ UNCHANGED <<RTT, n>>

Clear_RX_Updata_Flag ==
  /\ At("hand", "clear")
  /\ RX_Updata_Flag' = FALSE
  /\ Receive_Buf' = NoReq
  /\ Goto("hand", "idle")
  /\ UNCHANGED <<txVars, Send_Buf, Freeze, line, ModBus_CallBack, Check_Addr, n>>

------------------------------------------------------------------------------
Init ==
  /\ RTT \in Builds
  /\ dir = "rx" /\ TX_Cplt_Flag = TRUE /\ TX_Lock = 1 /\ waiters = << >>
  /\ dma = Idle
  /\ Send_Buf = [head |-> NoFrame, tail |-> NoFrame, crc |-> <<NoFrame, NoFrame>>]
  /\ Freeze = FALSE
  /\ line = NoReq /\ RX_Updata_Flag = FALSE
  /\ Receive_Buf = NoReq /\ ModBus_CallBack = "none" /\ Check_Addr = TRUE
  /\ pc = [a \in Actors |-> "idle"]
  /\ n = [a \in Actors |-> 0]

(* One call of an actor goes on.                                           *)
Sends(a) == FillHead(a) \/ FillTail(a) \/ MDB_Snd_Msg_RTU(a) \/ TX_ON(a)
              \/ WaitForTx(a) \/ Transmit_DMA(a)
Hand     == ModbusHandle \/ Sends("hand") \/ CallBack \/ MB_USART_ReInit
              \/ MB_System_Reset \/ Clear_RX_Updata_Flag
Up       == SensorEvent \/ Sends("up")
Hardware == HAL_UART_RxTimoCallback \/ DmaRead \/ HAL_UART_TxCpltCallback

Next == HostSends \/ Hand \/ Up \/ Hardware

Spec == Init /\ [][Next]_vars

(* The handler is looked at in every pass of the main loop, or has the     *)
(* highest priority; an upload that began goes on in the loop, or whenever *)
(* the handler sleeps.  The host's pause comes and a transmission ends.    *)
FairSpec == Spec /\ SF_vars(Hand) /\ SF_vars(Sends("up"))
                 /\ WF_vars(HAL_UART_RxTimoCallback)
                 /\ WF_vars(DmaRead) /\ WF_vars(HAL_UART_TxCpltCallback)

------------------------------------------------------------------------------
Frames == {<<a, i>> : a \in Actors, i \in 0 .. Names - 1} \cup {NoFrame}

TypeOK ==
  /\ RTT \in Builds /\ dir \in {"rx", "tx"}
  /\ TX_Cplt_Flag \in BOOLEAN /\ TX_Lock \in {0, 1}
  /\ Len(waiters) <= 2
  /\ dma.busy \in BOOLEAN /\ Len(dma.sent) <= 3
  /\ Send_Buf \in [head : Frames, tail : Frames, crc : Frames \X Frames]
  /\ Freeze \in BOOLEAN /\ RX_Updata_Flag \in BOOLEAN /\ Check_Addr \in BOOLEAN
  /\ {line, Receive_Buf} \subseteq Requests \cup {Foreign, NoReq}
  /\ ModBus_CallBack \in {"none", "freeze", "reinit", "reset", "send"}
  /\ pc["up"] \in {"idle", "head", "tail", "check", "on", "take", "dma"}

(* Nobody starts the DMA while a transmission is going on: a frame that    *)
(* waited its turn is never refused, so its turn is never lost with it.    *)
TxExclusive == \A a \in Actors : pc[a] = "dma" => ~dma.busy

(* The command's consequence waits for its answer: when the device resets  *)
(* or changes the baud rate, nothing is left in the transmitter.           *)
AnswerFirst == pc["hand"] \in {"reinit", "reset"} => ~dma.busy

(* Whatever overwrites the buffer while it is being sent, a frame whose    *)
(* CRC is right was built by one actor as it stands (bare metal; a thread  *)
(* may write over a frame half built before its CRC is computed).          *)
GoodCrcMeansBuilt ==
  ~RTT /\ Len(dma.sent) = 3 /\ dma.sent[3] = <<dma.sent[1], dma.sent[2]>>
    => dma.sent[1] = dma.sent[2]

(* A frozen device begins no transmission (bare metal; a thread past its   *)
(* check still does); the answer to the freeze itself goes out before it.  *)
FrozenSilent == [][~RTT /\ ~dma.busy /\ dma'.busy => ~Freeze]_vars

(* The driver always goes back to receiving: the device does not hold the  *)
(* line or turn deaf.                                                      *)
HearsAgain == dir = "tx" ~> dir = "rx"

(* Neither an answer nor an upload waits for ever for the transmitter, so  *)
(* the handler comes back to the next request.                             *)
SendersReturn == \A a \in Actors : pc[a] # "idle" ~> pc[a] = "idle"

(* The transmitter of module Transmitter: past its wait an actor has it    *)
(* until the DMA does; the queue is the semaphore's, and bare metal a      *)
(* frozen device is silent.  Under RT-Thread the freeze may come while the *)
(* upload waits its turn.  Every step is one of an orderly transmitter: it *)
(* goes to who came first, is never lost, and nobody is skipped.           *)
Holds(a) == pc[a] \in {"dma", "reinit", "reset"}
Holder ==
  IF Holds("hand") THEN "hand" ELSE IF Holds("up") THEN "up"
  ELSE IF dma.busy THEN "line" ELSE "nobody"

T == INSTANCE Transmitter
       WITH Users <- Actors, holder <- Holder, queue <- waiters, silent <- Freeze /\ ~RTT

Transmits == T!TSpec

(* The comment over TX_ON in Send_Data, "transmit enable": what the DMA    *)
(* sends goes out through an enabled driver.                               *)
Driven == dma.busy /\ Len(dma.sent) < 3 => dir = "tx"
==============================================================================
