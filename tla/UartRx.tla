-------------------------------- MODULE UartRx --------------------------------
(***************************************************************************)
(* Frame reception (usart_app.c over usart_bsp.c): a DMA channel writes    *)
(* the line into a ring without the processor's help; a line pause raises  *)
(* the receiver-timeout interrupt, whose handler works out how much came   *)
(* since the previous pause; the main loop (or the Modbus thread) then     *)
(* copies that much out of the ring and handles it.                        *)
(*                                                                         *)
(* A chunk is what the line carries between two pauses, normally a frame.  *)
(* The host sends whenever it likes, also while a chunk is being handled.  *)
(* The handler may erase flash, which stalls the processor with interrupts *)
(* and all while the DMA goes on, so an interrupt may stay pending for any *)
(* number of bytes.                                                        *)
(*                                                                         *)
(* The bootloader takes the character-match interrupt instead of the       *)
(* timeout; HAL_UART_CMatchCallback is the same code.  Calling             *)
(* Sensor_USART_Init again (a new baud rate) changes nothing here: the DMA *)
(* channel is busy, so HAL_DMA_Start_IT leaves it running where it was.    *)
(***************************************************************************)
EXTENDS Integers, Sequences

CONSTANTS
  RECEIVE_SIZE,   \* cells of the ring
  MaxLen,         \* longest chunk
  MaxChunks,      \* bound: chunks the host sends
  Builds          \* the programs the receiver is part of: "bare" and "rtt",
                  \* the application without and under RT-Thread, "boot",
                  \* the bootloader

ASSUME UartRxAssumption ==
  /\ RECEIVE_SIZE \in Nat \ {0} /\ RECEIVE_SIZE < 2^15
  /\ MaxLen \in 1 .. RECEIVE_SIZE
  /\ MaxChunks \in Nat
  /\ Builds # {} /\ Builds \subseteq {"bare", "rtt", "boot"}

VARIABLES
  build,            \* which program this is; never changes
  buf,              \* USART_Receive_Buf: <<chunk, place in the chunk>> per cell
  pos,              \* next cell the DMA writes (RxXferSize - counter)
  dmaIrq, rtoIrq,   \* pending: transfer complete (wrap), receiver timeout
  isr,              \* the timeout handler: "none", or "used" once it read pos
  rx_buf_used,      \* its local variable
  RX_Len, Used_RX_Len, RX_OverRun_Flag, RX_Updata_Flag,
  usart_sem,        \* RT-Thread semaphore value
  pc,               \* main loop
  used, len,        \* what GetReceData read of Used_RX_Len and RX_Len
  data,             \* what it returned
  lens,             \* observation: lengths of the chunks completed so far
  n,                \* observation: bytes of the chunk on the line
  lone,             \* observation: that chunk began on an idle device
  news,             \* observation: a pause no GetReceData has looked at yet
  accepted          \* observation: the chunks handled, in order

lineVars == <<build, buf, pos, lens, n, lone>>
isrVars  == <<isr, rx_buf_used, RX_Len, Used_RX_Len, RX_OverRun_Flag>>
mainVars == <<pc, used, len, data, accepted>>
vars     == <<lineVars, dmaIrq, rtoIrq, isrVars, RX_Updata_Flag, usart_sem, mainVars, news>>

(* The bootloader clears the update flag before it handles the chunk, the  *)
(* application after it; under RT-Thread the reader waits on usart_sem.    *)
ClearFirst == build = "boot"
WithSem    == build = "rtt"

U16(x) == x % 2^16

(* The bytes of chunk c; what the CRC check lets through.                  *)
Chunk(c)    == [i \in 1 .. lens[c] |-> <<c, i>>]
IsChunk(d)  == \E c \in 1 .. Len(lens) : d = Chunk(c)
ChunkOf(d)  == CHOOSE c \in 1 .. Len(lens) : d = Chunk(c)

NoIrq  == ~dmaIrq /\ ~rtoIrq /\ isr = "none"
Idle   == NoIrq /\ pc = "poll" /\ RX_Updata_Flag = 0

------------------------------------------------------------------------------
(* The line and the DMA channel                                            *)

Byte ==
  /\ Len(lens) < MaxChunks /\ n < MaxLen
  /\ buf' = [buf EXCEPT ![pos] = <<Len(lens) + 1, n + 1>>]
  /\ pos' = IF pos + 1 = RECEIVE_SIZE THEN 0 ELSE pos + 1
  /\ dmaIrq' = (dmaIrq \/ pos + 1 = RECEIVE_SIZE)
  /\ n' = n + 1
  /\ lone' = IF n = 0 THEN Idle ELSE lone
  /\ UNCHANGED <<build, lens, rtoIrq, isrVars, RX_Updata_Flag, usart_sem, mainVars, news>>

Pause ==
  /\ n > 0
  /\ rtoIrq' = TRUE
  /\ lens' = Append(lens, n) /\ n' = 0
  /\ UNCHANGED <<build, buf, pos, lone, dmaIrq, isrVars, RX_Updata_Flag, usart_sem, mainVars, news>>

------------------------------------------------------------------------------
(* Interrupts; the DMA interrupt has the higher priority.                  *)

HAL_UART_RxCpltCallback ==
  /\ dmaIrq
  /\ dmaIrq' = FALSE
  /\ RX_OverRun_Flag' = 1
  /\ UNCHANGED <<lineVars, rtoIrq, isr, rx_buf_used, RX_Len, Used_RX_Len,
                 RX_Updata_Flag, usart_sem, mainVars, news>>

(* The handler reads the DMA counter; bytes and the wrap may come between  *)
(* that and the rest.                                                      *)
HAL_UART_RxTimoCallback_Enter ==
  /\ rtoIrq /\ ~dmaIrq /\ isr = "none"
  /\ rtoIrq' = FALSE
  /\ rx_buf_used' = pos
  /\ isr' = "used"
  /\ UNCHANGED <<lineVars, dmaIrq, RX_Len, Used_RX_Len, RX_OverRun_Flag,
                 RX_Updata_Flag, usart_sem, mainVars, news>>

(* How much came since the last pause.  The mutants ignore the wrap, or    *)
(* keep the difference in a signed integer.                                *)
ReceivedLen_NoWrap == U16(rx_buf_used - Used_RX_Len)
ReceivedLen_Signed ==
  rx_buf_used - Used_RX_Len + (IF RX_OverRun_Flag = 1 THEN RECEIVE_SIZE ELSE 0)
ReceivedLen ==
  U16(rx_buf_used - Used_RX_Len + (IF RX_OverRun_Flag = 1 THEN RECEIVE_SIZE ELSE 0))

(* The overrun flag after the pause; in the mutant it is never cleared.    *)
OverRunAfter_Kept == RX_OverRun_Flag
OverRunAfter      == 0

(* What the handler leaves for the reader; in the mutants only the branch  *)
(* without a wrap does.                                                    *)
NoticeAfter_NoWrap == IF RX_OverRun_Flag = 1 THEN RX_Updata_Flag ELSE 1
NoticeAfter        == 1
SemAfter_NoWrap == IF WithSem /\ RX_OverRun_Flag = 0 THEN usart_sem + 1 ELSE usart_sem
SemAfter        == IF WithSem THEN usart_sem + 1 ELSE usart_sem

HAL_UART_RxTimoCallback_Exit ==
  /\ isr = "used"
  /\ isr' = "none"
  /\ RX_Len' = ReceivedLen
  /\ RX_OverRun_Flag' = OverRunAfter
  /\ Used_RX_Len' = rx_buf_used
  /\ usart_sem' = SemAfter
  /\ RX_Updata_Flag' = NoticeAfter
  /\ news' = TRUE
  /\ UNCHANGED <<lineVars, dmaIrq, rtoIrq, rx_buf_used, mainVars>>

------------------------------------------------------------------------------
(* The main loop, or the thread modbus_handle_thread_entry.  It is         *)
(* preempted by any pending interrupt.                                     *)

(* Which build clears the flag here; the mutant takes the other order.     *)
ClearsBefore_Swapped == ~ClearFirst
ClearsBefore         == ClearFirst

(* Sensor_USART_Get_RX_Updata_Flag takes the semaphore before it looks.    *)
Get_RX_Updata_Flag ==
  /\ NoIrq /\ pc = "poll"
  /\ WithSem => usart_sem > 0
  /\ WithSem \/ RX_Updata_Flag = 1
  /\ usart_sem' = IF WithSem THEN usart_sem - 1 ELSE usart_sem
  /\ IF RX_Updata_Flag = 1
       THEN /\ pc' = "get"
            /\ RX_Updata_Flag' = IF ClearsBefore THEN 0 ELSE 1
       ELSE UNCHANGED <<pc, RX_Updata_Flag>>
  /\ UNCHANGED <<lineVars, dmaIrq, rtoIrq, isrVars, used, len, data, accepted, news>>

(* Sensor_USART_GetReceData, which reads Used_RX_Len, then RX_Len, ...     *)
GetReceData_Used ==
  /\ NoIrq /\ pc = "get"
  /\ used' = Used_RX_Len
  /\ news' = FALSE
  /\ pc' = "len"
  /\ UNCHANGED <<lineVars, dmaIrq, rtoIrq, isrVars, RX_Updata_Flag, usart_sem,
                 len, data, accepted>>

GetReceData_Len ==
  /\ NoIrq /\ pc = "len"
  /\ len' = RX_Len
  /\ pc' = "copy"
  /\ UNCHANGED <<lineVars, dmaIrq, rtoIrq, isrVars, RX_Updata_Flag, usart_sem,
                 used, data, accepted, news>>

(* ... and copies: the cells before Used_RX_Len, after the ones at the end *)
(* of the ring if the chunk began there.                                   *)
Slice(u, l) ==
  [i \in 1 .. l |-> IF u > l      THEN buf[u - l + i - 1]
                    ELSE IF i <= l - u THEN buf[RECEIVE_SIZE - l + u + i - 1]
                    ELSE buf[i - (l - u) - 1]]

GetReceData_Copy ==
  /\ NoIrq /\ pc = "copy"
  /\ data' = IF used > RECEIVE_SIZE \/ len > RECEIVE_SIZE THEN << >> ELSE Slice(used, len)
  /\ pc' = "handle"
  /\ UNCHANGED <<lineVars, dmaIrq, rtoIrq, isrVars, RX_Updata_Flag, usart_sem,
                 used, len, accepted, news>>

(* ModbusHandle drops what fails the CRC.                                  *)
ModbusHandle ==
  /\ NoIrq /\ pc = "handle"
  /\ accepted' = IF IsChunk(data) THEN Append(accepted, ChunkOf(data)) ELSE accepted
  /\ pc' = IF ClearsBefore THEN "poll" ELSE "clear"
  /\ data' = << >>
  /\ UNCHANGED <<lineVars, dmaIrq, rtoIrq, isrVars, RX_Updata_Flag, usart_sem,
                 used, len, news>>

Clear_RX_Updata_Flag ==
  /\ NoIrq /\ pc = "clear"
  /\ RX_Updata_Flag' = 0
  /\ pc' = "poll"
  /\ UNCHANGED <<lineVars, dmaIrq, rtoIrq, isrVars, usart_sem, used, len, data,
                 accepted, news>>

------------------------------------------------------------------------------
Init ==
  /\ build \in Builds
  /\ buf = [i \in 0 .. RECEIVE_SIZE - 1 |-> <<0, 0>>]
  /\ pos = 0 /\ dmaIrq = FALSE /\ rtoIrq = FALSE
  /\ isr = "none" /\ rx_buf_used = 0
  /\ RX_Len = 0 /\ Used_RX_Len = 0 /\ RX_OverRun_Flag = 0 /\ RX_Updata_Flag = 0
  /\ usart_sem = 0
  /\ pc = "poll" /\ used = 0 /\ len = 0 /\ data = << >>
  /\ lens = << >> /\ n = 0 /\ lone = TRUE /\ news = FALSE /\ accepted = << >>

Irq  == HAL_UART_RxCpltCallback \/ HAL_UART_RxTimoCallback_Enter
          \/ HAL_UART_RxTimoCallback_Exit
Main == Get_RX_Updata_Flag \/ GetReceData_Used \/ GetReceData_Len
          \/ GetReceData_Copy \/ ModbusHandle \/ Clear_RX_Updata_Flag

Next == Byte \/ Pause \/ Irq \/ Main

Spec == Init /\ [][Next]_vars

(* The line pauses after every chunk, a pending interrupt is taken and the *)
(* main loop runs on (it is always enabled while no interrupt is pending). *)
FairSpec == Spec /\ WF_vars(Pause) /\ WF_vars(Irq) /\ WF_vars(Main)

------------------------------------------------------------------------------
TypeOK ==
  /\ build \in Builds
  /\ buf \in [0 .. RECEIVE_SIZE - 1 -> (0 .. MaxChunks) \X (0 .. MaxLen)]
  /\ pos \in 0 .. RECEIVE_SIZE - 1
  /\ {dmaIrq, rtoIrq, lone, news} \subseteq BOOLEAN
  /\ isr \in {"none", "used"} /\ rx_buf_used \in 0 .. RECEIVE_SIZE - 1
  /\ RX_Len \in 0 .. 2^16 - 1 /\ Used_RX_Len \in 0 .. RECEIVE_SIZE - 1
  /\ RX_OverRun_Flag \in {0, 1} /\ RX_Updata_Flag \in {0, 1}
  /\ usart_sem \in 0 .. MaxChunks
  /\ pc \in {"poll", "get", "len", "copy", "handle", "clear"}
  /\ used \in 0 .. RECEIVE_SIZE - 1 /\ len \in 0 .. 2^16 - 1
  /\ Len(lens) <= MaxChunks /\ n \in 0 .. MaxLen

(* However badly the host's chunks collided, once the line is quiet and    *)
(* the loop is idle the bookkeeping agrees with the DMA again: the next    *)
(* chunk is measured from where it begins.                                 *)
IdleInSync == Idle /\ n = 0 => pos = Used_RX_Len /\ RX_OverRun_Flag = 0

(* A chunk that began on an idle device, with no other behind it yet, is   *)
(* copied out whole and in order, wherever in the ring it lies and whether *)
(* or not it wrapped.                                                      *)
LoneChunkIntact ==
  pc = "handle" /\ lone /\ n = 0 /\ NoIrq /\ ~news => data = Chunk(Len(lens))

(* No chunk is handled twice, none out of order: the application clears    *)
(* the flag after it handled the chunk.                                    *)
AtMostOnce ==
  ~ClearFirst =>
    \A i, j \in 1 .. Len(accepted) : i < j => accepted[i] < accepted[j]

(* A chunk that began on an idle device is handled, unless the host sends  *)
(* again before that.                                                      *)
LoneChunkAccepted ==
  \A c \in 1 .. MaxChunks :
    (Len(lens) = c /\ n = 0 /\ lone)
      ~> (n > 0 \/ Len(lens) > c \/ \E i \in 1 .. Len(accepted) : accepted[i] = c)

(* RT-Thread: the thread never goes to sleep on a set flag.                *)
NoSleepOnNotice ==
  WithSem /\ pc = "poll" /\ NoIrq /\ usart_sem = 0 => RX_Updata_Flag = 0

(* The bootloader looks at the ring after every pause, whatever it was     *)
(* doing when the pause came, because it clears the flag first.            *)
EveryPauseServed == ClearFirst /\ news ~> ~news
==============================================================================
