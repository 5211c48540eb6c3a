---------------------------- MODULE UartRxProofs ----------------------------
(***************************************************************************)
(* For every ring size, any number of chunks and whatever the host does:   *)
(* the receive bookkeeping recovers, a lone chunk is copied out whole, no  *)
(* chunk is handled twice, and the thread never sleeps on a notice.        *)
(***************************************************************************)
EXTENDS UartRx, TLAPS

------------------------------------------------------------------------------
(* Synchrony                                                               *)

(* With no pause waiting to be handled and no byte after the last one, the *)
(* wrap has been accounted for, and the position of the pause is where the *)
(* DMA stands: in the handler's local variable until it has ended.         *)
Sync ==
  n = 0 /\ ~rtoIrq =>
    /\ ~dmaIrq
    /\ isr = "used" => rx_buf_used = pos
    /\ isr = "none" => pos = Used_RX_Len /\ RX_OverRun_Flag = 0

SyncInv == n \in Nat /\ isr \in {"none", "used"} /\ Sync

LEMMA InitSync == Init => SyncInv
  BY DEF Init, SyncInv, Sync

LEMMA StepSync == SyncInv /\ [Next]_vars => SyncInv'
<1> SUFFICES ASSUME SyncInv, [Next]_vars PROVE SyncInv'
  OBVIOUS
<1> USE DEF SyncInv, Sync
<1>1. CASE Byte
  <2>1. n' = n + 1 /\ n' # 0
    BY <1>1 DEF Byte
  <2> QED BY <1>1, <2>1 DEF Byte, isrVars
<1>2. CASE Pause
  BY <1>2 DEF Pause, isrVars
<1>3. CASE HAL_UART_RxCpltCallback
  <2>1. ~(n = 0 /\ ~rtoIrq)
    BY <1>3 DEF HAL_UART_RxCpltCallback
  <2> QED BY <1>3, <2>1 DEF HAL_UART_RxCpltCallback, lineVars
<1>4. CASE HAL_UART_RxTimoCallback_Enter
  BY <1>4 DEF HAL_UART_RxTimoCallback_Enter, lineVars
<1>5. CASE HAL_UART_RxTimoCallback_Exit
  BY <1>5 DEF HAL_UART_RxTimoCallback_Exit, OverRunAfter, lineVars
<1>6. CASE Main \/ UNCHANGED vars
  BY <1>6 DEF Main, vars, Get_RX_Updata_Flag, GetReceData_Used, GetReceData_Len,
       GetReceData_Copy, ModbusHandle, Clear_RX_Updata_Flag, lineVars, isrVars
<1> QED BY <1>1, <1>2, <1>3, <1>4, <1>5, <1>6 DEF Next, Irq

(* For every ring size, every chunk length and every interleaving of line, *)
(* interrupts and main loop: an idle device measures the next chunk from   *)
(* the place where the DMA will put it.                                    *)
THEOREM InSync == Spec => []IdleInSync
<1>1. SyncInv => IdleInSync
  BY DEF SyncInv, Sync, IdleInSync, Idle, NoIrq
<1> QED BY <1>1, InitSync, StepSync, PTL DEF Spec

------------------------------------------------------------------------------
(* Types                                                                   *)

Ring == 0 .. RECEIVE_SIZE - 1

(* Every release of the semaphore has a chunk of its own.                  *)
Sems ==
  usart_sem + (IF rtoIrq THEN 1 ELSE 0) + (IF isr = "used" THEN 1 ELSE 0) <= Len(lens)

Booleans == dmaIrq \in BOOLEAN /\ rtoIrq \in BOOLEAN /\ lone \in BOOLEAN /\ news \in BOOLEAN
LineTypes ==
  /\ build \in Builds
  /\ buf \in [Ring -> (0 .. MaxChunks) \X (0 .. MaxLen)]
  /\ pos \in Ring
  /\ lens \in Seq(1 .. MaxLen) /\ Len(lens) <= MaxChunks
  /\ n \in 0 .. MaxLen
  /\ n > 0 => Len(lens) < MaxChunks
IsrTypes ==
  /\ isr \in {"none", "used"} /\ rx_buf_used \in Ring
  /\ RX_Len \in 0 .. 2^16 - 1 /\ Used_RX_Len \in Ring
  /\ RX_OverRun_Flag \in {0, 1}
MainTypes ==
  /\ RX_Updata_Flag \in {0, 1} /\ usart_sem \in 0 .. MaxChunks
  /\ pc \in {"poll", "get", "len", "copy", "handle", "clear"}
  /\ used \in Ring /\ len \in 0 .. 2^16 - 1

TInv == Booleans /\ LineTypes /\ IsrTypes /\ MainTypes /\ Sems

LEMMA Two16 == 2^16 = 65536 /\ 2^15 = 32768
  BY SMT

LEMMA Bounds ==
  /\ RECEIVE_SIZE \in Int /\ RECEIVE_SIZE > 0 /\ RECEIVE_SIZE < 32768
  /\ MaxLen \in 1 .. RECEIVE_SIZE /\ MaxChunks \in Nat
  BY UartRxAssumption, Two16

(* A chunk that fits the ring is not cut to sixteen bits.                  *)
LEMMA Fits == \A g \in 1 .. RECEIVE_SIZE : g \in Int /\ g <= RECEIVE_SIZE /\ g % 65536 = g
  BY Bounds

LEMMA U16Type == ASSUME NEW x \in Int PROVE U16(x) \in 0 .. 2^16 - 1
  BY Two16 DEF U16

LEMMA InitT == Init => TInv
<1> SUFFICES ASSUME Init PROVE TInv
  OBVIOUS
<1>1. buf \in [Ring -> (0 .. MaxChunks) \X (0 .. MaxLen)]
  BY Bounds DEF Init, Ring
<1>2. lens \in Seq(1 .. MaxLen) /\ Len(lens) = 0
  BY DEF Init
<1>3. LineTypes
  BY <1>1, <1>2, Bounds DEF Init, LineTypes, Ring
<1>4. Booleans /\ IsrTypes /\ MainTypes
  BY Bounds, Two16 DEF Init, Booleans, IsrTypes, MainTypes, Ring
<1>5. Sems
  BY <1>2 DEF Init, Sems
<1> QED BY <1>3, <1>4, <1>5 DEF TInv

LEMMA StepBooleans == ASSUME TInv, [Next]_vars PROVE Booleans'
<1> USE DEF TInv, Booleans
<1>1. CASE Byte
  BY <1>1 DEF Byte, Idle, NoIrq
<1>2. CASE Pause
  BY <1>2 DEF Pause
<1>3. CASE Irq
  BY <1>3 DEF Irq, HAL_UART_RxCpltCallback, HAL_UART_RxTimoCallback_Enter,
       HAL_UART_RxTimoCallback_Exit, lineVars
<1>4. CASE Main
  BY <1>4 DEF Main, Get_RX_Updata_Flag, GetReceData_Used, GetReceData_Len,
       GetReceData_Copy, ModbusHandle, Clear_RX_Updata_Flag, lineVars
<1>5. CASE UNCHANGED vars
  BY <1>5 DEF vars, lineVars
<1> QED BY <1>1, <1>2, <1>3, <1>4, <1>5 DEF Next

(* Only the host and the DMA change the line.                              *)
LEMMA LineKept == ASSUME Irq \/ Main \/ UNCHANGED vars PROVE UNCHANGED lineVars
  BY DEF Irq, HAL_UART_RxCpltCallback, HAL_UART_RxTimoCallback_Enter,
       HAL_UART_RxTimoCallback_Exit, Main, Get_RX_Updata_Flag, GetReceData_Used,
       GetReceData_Len, GetReceData_Copy, ModbusHandle, Clear_RX_Updata_Flag, vars

LEMMA StepLine == ASSUME TInv, [Next]_vars PROVE LineTypes'
<1> USE DEF TInv, LineTypes
<1>1. CASE Byte
  <2>1. Len(lens) \in Nat
    OBVIOUS
  <2>2. n + 1 \in 0 .. MaxLen /\ Len(lens) + 1 \in 0 .. MaxChunks
    BY <1>1, <2>1, Bounds DEF Byte
  <2>3. buf' \in [Ring -> (0 .. MaxChunks) \X (0 .. MaxLen)]
    BY <1>1, <2>2 DEF Byte
  <2>4. pos' \in Ring
    BY <1>1, Bounds DEF Byte, Ring
  <2>5. build' = build /\ lens' = lens /\ n' = n + 1 /\ Len(lens) < MaxChunks
    BY <1>1 DEF Byte
  <2> QED BY <2>2, <2>3, <2>4, <2>5
<1>2. CASE Pause
  <2>1. n \in 1 .. MaxLen /\ Len(lens) < MaxChunks
    BY <1>2, Bounds DEF Pause
  <2>2. lens' \in Seq(1 .. MaxLen) /\ Len(lens') = Len(lens) + 1
    BY <1>2, <2>1 DEF Pause
  <2>3. Len(lens') <= MaxChunks
    BY <2>1, <2>2, Bounds
  <2>4. n' = 0 /\ build' = build /\ buf' = buf /\ pos' = pos
    BY <1>2 DEF Pause
  <2> QED BY <2>2, <2>3, <2>4, Bounds
<1>3. CASE UNCHANGED lineVars
  BY <1>3 DEF lineVars
<1> QED BY <1>1, <1>2, <1>3, LineKept DEF Next

LEMMA StepIsr == ASSUME TInv, [Next]_vars PROVE IsrTypes'
<1> USE DEF TInv, IsrTypes
<1>1. CASE HAL_UART_RxTimoCallback_Enter
  BY <1>1 DEF HAL_UART_RxTimoCallback_Enter, LineTypes
<1>2. CASE HAL_UART_RxTimoCallback_Exit
  <2>1. RX_Len' \in 0 .. 2^16 - 1
    BY <1>2, U16Type, Bounds DEF HAL_UART_RxTimoCallback_Exit, ReceivedLen, Ring
  <2> QED BY <1>2, <2>1 DEF HAL_UART_RxTimoCallback_Exit, OverRunAfter
<1>3. CASE HAL_UART_RxCpltCallback
  BY <1>3 DEF HAL_UART_RxCpltCallback
<1>4. CASE Byte \/ Pause \/ Main \/ UNCHANGED vars
  BY <1>4 DEF Byte, Pause, Main, Get_RX_Updata_Flag, GetReceData_Used, GetReceData_Len,
       GetReceData_Copy, ModbusHandle, Clear_RX_Updata_Flag, vars, isrVars
<1> QED BY <1>1, <1>2, <1>3, <1>4 DEF Next, Irq

LEMMA StepMain == ASSUME TInv, [Next]_vars PROVE MainTypes' /\ Sems'
<1> USE DEF TInv, MainTypes
<1>0. Len(lens) \in Nat /\ Len(lens) <= MaxChunks /\ MaxChunks \in Nat
  BY Bounds DEF LineTypes
<1>1. CASE Byte
  BY <1>1 DEF Byte, Sems, mainVars, isrVars
<1>2. CASE Pause
  <2>1. Len(lens') = Len(lens) + 1
    BY <1>2 DEF Pause, LineTypes
  <2>2. rtoIrq' = TRUE /\ isr' = isr /\ usart_sem' = usart_sem
    BY <1>2 DEF Pause, isrVars
  <2>3. Sems'
    BY <2>1, <2>2, <1>0 DEF Sems
  <2> QED BY <1>2, <2>3 DEF Pause, mainVars
<1>3. CASE HAL_UART_RxCpltCallback
  BY <1>3 DEF HAL_UART_RxCpltCallback, Sems, mainVars, lineVars
<1>4. CASE HAL_UART_RxTimoCallback_Enter
  BY <1>4, <1>0 DEF HAL_UART_RxTimoCallback_Enter, Sems, mainVars, lineVars
<1>5. CASE HAL_UART_RxTimoCallback_Exit
  <2>1. usart_sem' \in {usart_sem, usart_sem + 1} /\ isr = "used" /\ isr' = "none"
    BY <1>5 DEF HAL_UART_RxTimoCallback_Exit, SemAfter
  <2>2. rtoIrq' = rtoIrq /\ lens' = lens
    BY <1>5 DEF HAL_UART_RxTimoCallback_Exit, lineVars
  <2>3. Sems' /\ usart_sem' \in 0 .. MaxChunks
    BY <1>0, <2>1, <2>2 DEF Sems
  <2> QED BY <1>5, <2>3 DEF HAL_UART_RxTimoCallback_Exit, NoticeAfter, mainVars
<1>6. CASE Get_RX_Updata_Flag
  <2>1. usart_sem' \in 0 .. MaxChunks /\ usart_sem' <= usart_sem
    BY <1>6, <1>0 DEF Get_RX_Updata_Flag
  <2>2. Sems'
    BY <1>6, <2>1, <1>0 DEF Get_RX_Updata_Flag, Sems, lineVars, isrVars
  <2> QED BY <1>6, <2>1, <2>2 DEF Get_RX_Updata_Flag
<1>7. CASE GetReceData_Used
  BY <1>7 DEF GetReceData_Used, Sems, lineVars, isrVars, IsrTypes
<1>8. CASE GetReceData_Len
  BY <1>8 DEF GetReceData_Len, Sems, lineVars, isrVars, IsrTypes
<1>9. CASE GetReceData_Copy \/ ModbusHandle \/ Clear_RX_Updata_Flag
  BY <1>9 DEF GetReceData_Copy, ModbusHandle, Clear_RX_Updata_Flag, Sems, lineVars, isrVars
<1>10. CASE UNCHANGED vars
  BY <1>10 DEF vars, Sems, lineVars, isrVars, mainVars
<1> QED
  BY <1>1, <1>2, <1>3, <1>4, <1>5, <1>6, <1>7, <1>8, <1>9, <1>10 DEF Next, Irq, Main

LEMMA StepT == TInv /\ [Next]_vars => TInv'
  BY StepBooleans, StepLine, StepIsr, StepMain DEF TInv

(* Every variable of the receiver keeps its range; in particular the       *)
(* semaphore never counts more than the pauses there were, and the length  *)
(* fits its sixteen bits.                                                  *)
THEOREM ReceiverTypes == Spec => []TypeOK
<1>1. TInv => TypeOK
  BY DEF TInv, Booleans, LineTypes, IsrTypes, MainTypes, Ring, TypeOK
<1> QED BY <1>1, InitT, StepT, PTL DEF Spec

------------------------------------------------------------------------------
(* Each chunk at most once: cells hold ever newer chunks, and the cell     *)
(* before the end of what is copied is newer than all that was handled.    *)

Newer(c) == \A i \in 1 .. Len(accepted) : accepted[i] < c
Before(p) == IF p = 0 THEN RECEIVE_SIZE - 1 ELSE p - 1
Tag(p) == buf[Before(p)][1]
Newest == Len(lens) + (IF n > 0 THEN 1 ELSE 0)

Cells ==
  /\ \A p \in Ring : buf[p][1] <= Newest
  /\ Tag(pos) = Newest
  /\ accepted \in Seq(Nat)
  /\ \A i \in 1 .. Len(accepted) : accepted[i] <= Len(lens)
  /\ rtoIrq => Newer(Len(lens))
  /\ isr = "used" => Newer(Tag(rx_buf_used))

Once ==
  ~ClearFirst =>
    /\ pc # "poll" => RX_Updata_Flag = 1
    /\ RX_Updata_Flag = 1 /\ pc # "clear" => Newer(Tag(Used_RX_Len))
    /\ pc \in {"len", "copy"} => Newer(Tag(used))
    /\ pc = "handle" => \E k \in 0 .. RECEIVE_SIZE : DOMAIN data = 1 .. k /\ (k > 0 => Newer(data[k][1]))
    /\ AtMostOnce

OInv == TInv /\ Cells /\ Once

LEMMA InitO == Init => OInv
<1> SUFFICES ASSUME Init PROVE OInv
  OBVIOUS
<1>1. \A p \in Ring : Before(p) \in Ring /\ buf[p] = <<0, 0>>
  BY Bounds DEF Init, Ring, Before
<1>2. Newest = 0 /\ pos \in Ring
  BY Bounds DEF Init, Newest, Ring
<1>3. Cells
  <2>1. \A p \in Ring : buf[p][1] <= Newest
    BY <1>1, <1>2
  <2>2. Tag(pos) = Newest
    BY <1>1, <1>2 DEF Tag
  <2>3. accepted = << >> /\ rtoIrq = FALSE /\ isr = "none"
    BY DEF Init
  <2>4. accepted \in Seq(Nat) /\ Len(accepted) = 0
    BY <2>3
  <2> QED BY <2>1, <2>2, <2>3, <2>4 DEF Cells
<1>4. Once
  BY DEF Init, Once, AtMostOnce
<1> QED BY <1>3, <1>4, InitT DEF OInv

(* The chunks a cell holds one after the other have rising numbers.        *)
LEMMA CellsGrow ==
  ASSUME OInv, [Next]_vars
  PROVE  \A q \in Ring : buf[q][1] \in Nat /\ buf'[q][1] \in Nat /\ buf[q][1] <= buf'[q][1]
<1> USE DEF OInv, TInv, LineTypes
<1>1. \A q \in Ring : buf[q][1] \in Nat /\ buf[q][1] <= Newest
  BY Bounds DEF Cells
<1>2. CASE Byte
  <2>1. Len(lens) + 1 \in Nat /\ Newest <= Len(lens) + 1
    BY DEF Newest
  <2>2. \A q \in Ring : buf'[q] = IF q = pos THEN <<Len(lens) + 1, n + 1>> ELSE buf[q]
    BY <1>2 DEF Byte
  <2>3. ASSUME NEW q \in Ring PROVE buf'[q][1] \in Nat /\ buf[q][1] <= buf'[q][1]
    <3>1. CASE q = pos
      <4>1. buf'[q][1] = Len(lens) + 1
        BY <2>2, <3>1
      <4>2. Newest \in Nat
        BY DEF Newest
      <4> QED BY <1>1, <2>1, <4>1, <4>2
    <3>2. CASE q # pos
      BY <1>1, <2>2, <3>2
    <3> QED BY <3>1, <3>2
  <2> QED BY <1>1, <2>3
<1>3. CASE Pause \/ UNCHANGED lineVars
  BY <1>1, <1>3 DEF Pause, lineVars
<1> QED BY <1>2, <1>3, LineKept DEF Next

LEMMA LensType ==
  ASSUME lens \in Seq(1 .. MaxLen)
  PROVE  \A c \in 1 .. Len(lens) : lens[c] \in 1 .. MaxLen
<1> DEFINE S == 1 .. MaxLen
<1>1. lens \in Seq(S)
  OBVIOUS
<1> HIDE DEF S
<1>2. \A c \in 1 .. Len(lens) : lens[c] \in S
  BY <1>1
<1> QED BY <1>2 DEF S

LEMMA BeforeInRing == \A p \in Ring : Before(p) \in Ring
  BY Bounds DEF Ring, Before

(* A place whose last cell is newer than all that was handled stays so.    *)
LEMMA NewerKept ==
  ASSUME OInv, [Next]_vars, accepted' = accepted, NEW p \in Ring, Newer(Tag(p))
  PROVE  \A i \in 1 .. Len(accepted') : accepted'[i] < buf'[Before(p)][1]
<1>1. Before(p) \in Ring
  BY BeforeInRing
<1>2. \A i \in 1 .. Len(accepted) : accepted[i] \in Nat
  BY DEF OInv, Cells
<1> QED BY <1>1, <1>2, CellsGrow DEF Newer, Tag

LEMMA NewestType == ASSUME TInv PROVE Newest \in Nat /\ Len(lens) \in Nat /\ Len(lens) <= Newest
  BY DEF TInv, LineTypes, Newest

(* Only the handling of a chunk adds to what was handled.                  *)
LEMMA AcceptedKept == ASSUME [Next]_vars, ~ModbusHandle PROVE accepted' = accepted
  BY DEF Next, Byte, Pause, Irq, HAL_UART_RxCpltCallback, HAL_UART_RxTimoCallback_Enter,
     HAL_UART_RxTimoCallback_Exit, Main, Get_RX_Updata_Flag, GetReceData_Used,
     GetReceData_Len, GetReceData_Copy, Clear_RX_Updata_Flag, vars, mainVars

LEMMA CellsByte == ASSUME OInv, Byte PROVE Cells'
<1> USE DEF OInv, TInv
<1>1. pos \in Ring /\ Newest \in Nat /\ Len(lens) \in Nat /\ n \in Nat
  BY NewestType, Bounds DEF LineTypes
<1>2. Newest' = Len(lens) + 1 /\ Newest <= Newest'
  BY <1>1 DEF Byte, Newest
<1>3. \A q \in Ring : buf'[q] = IF q = pos THEN <<Len(lens) + 1, n + 1>> ELSE buf[q]
  BY <1>1 DEF Byte, LineTypes
<1>4. \A q \in Ring : buf[q][1] \in Nat /\ buf[q][1] <= Newest
  BY Bounds DEF Cells, LineTypes
<1>5. \A q \in Ring : buf'[q][1] <= Newest'
  BY <1>1, <1>2, <1>3, <1>4
<1>6. pos' \in Ring /\ Before(pos') = pos
  BY <1>1, Bounds DEF Byte, Before, Ring
<1>7. buf'[Before(pos')][1] = Newest'
  BY <1>1, <1>2, <1>3, <1>6
<1>8. accepted' = accepted /\ lens' = lens /\ rtoIrq' = rtoIrq /\ isr' = isr /\ rx_buf_used' = rx_buf_used
  BY DEF Byte, mainVars, isrVars
<1>9. isr' = "used" => \A i \in 1 .. Len(accepted') : accepted'[i] < buf'[Before(rx_buf_used')][1]
  BY <1>8, NewerKept DEF Cells, IsrTypes, Next
<1> QED BY <1>5, <1>7, <1>8, <1>9 DEF Cells, Tag, Newer

LEMMA CellsPause == ASSUME OInv, Pause PROVE Cells'
<1> USE DEF OInv, TInv
<1>1. n \in Nat /\ n > 0 /\ n \in 1 .. MaxLen /\ lens \in Seq(1 .. MaxLen) /\ Len(lens) \in Nat
  BY Bounds DEF Pause, LineTypes
<1>2. Len(lens') = Len(lens) + 1 /\ n' = 0
  BY <1>1 DEF Pause
<1>3. Newest' = Newest /\ Newest = Len(lens) + 1 /\ Len(lens') = Newest
  BY <1>1, <1>2 DEF Newest
<1>4. buf' = buf /\ pos' = pos /\ accepted' = accepted /\ isr' = isr /\ rx_buf_used' = rx_buf_used
  BY DEF Pause, mainVars, isrVars
<1>5. \A i \in 1 .. Len(accepted) : accepted[i] \in Nat /\ accepted[i] < Len(lens')
  BY <1>1, <1>2 DEF Cells
<1> QED BY <1>3, <1>4, <1>5 DEF Cells, Tag, Newer

LEMMA CellsIrq == ASSUME OInv, Irq PROVE Cells'
<1> USE DEF OInv, TInv
<1>1. UNCHANGED lineVars /\ accepted' = accepted
  BY LineKept DEF Irq, HAL_UART_RxCpltCallback, HAL_UART_RxTimoCallback_Enter,
     HAL_UART_RxTimoCallback_Exit, mainVars
<1>2. Newest' = Newest /\ buf' = buf /\ pos' = pos /\ lens' = lens
  BY <1>1 DEF lineVars, Newest
<1>3. rtoIrq' => rtoIrq
  BY DEF Irq, HAL_UART_RxCpltCallback, HAL_UART_RxTimoCallback_Enter, HAL_UART_RxTimoCallback_Exit
<1>4. isr' = "used" => Newer(Tag(rx_buf_used'))
  <2>1. CASE HAL_UART_RxTimoCallback_Enter
    <3>1. rx_buf_used' = pos /\ Newer(Len(lens))
      BY <2>1 DEF HAL_UART_RxTimoCallback_Enter, Cells
    <3>2. Tag(pos) = Newest /\ \A i \in 1 .. Len(accepted) : accepted[i] \in Nat
      BY DEF Cells
    <3> QED BY <3>1, <3>2, NewestType DEF Newer
  <2>2. CASE HAL_UART_RxCpltCallback
    BY <2>2 DEF HAL_UART_RxCpltCallback, Cells
  <2>3. CASE HAL_UART_RxTimoCallback_Exit
    BY <2>3 DEF HAL_UART_RxTimoCallback_Exit
  <2> QED BY <2>1, <2>2, <2>3 DEF Irq
<1> QED BY <1>1, <1>2, <1>3, <1>4 DEF Cells, Tag, Newer

LEMMA CellsMain == ASSUME OInv, Main \/ UNCHANGED vars PROVE Cells'
<1> USE DEF OInv, TInv
<1>1. UNCHANGED lineVars /\ rtoIrq' = rtoIrq /\ isr' = isr /\ rx_buf_used' = rx_buf_used
  BY LineKept DEF Main, Get_RX_Updata_Flag, GetReceData_Used, GetReceData_Len,
     GetReceData_Copy, ModbusHandle, Clear_RX_Updata_Flag, vars, isrVars
<1>2. Newest' = Newest /\ buf' = buf /\ pos' = pos /\ lens' = lens
  BY <1>1 DEF lineVars, Newest
<1>3. CASE ModbusHandle
  <2>1. rtoIrq = FALSE /\ isr = "none" /\ Len(lens) \in Nat
    BY <1>3 DEF ModbusHandle, NoIrq, Booleans, LineTypes
  <2>2. CASE IsChunk(data)
    <3>1. ChunkOf(data) \in 1 .. Len(lens)
      BY <2>2 DEF IsChunk, ChunkOf
    <3>2. accepted' = Append(accepted, ChunkOf(data))
      BY <1>3, <2>2 DEF ModbusHandle
    <3>3. accepted' \in Seq(Nat) /\ \A i \in 1 .. Len(accepted') : accepted'[i] <= Len(lens)
      BY <2>1, <3>1, <3>2 DEF Cells
    <3> QED BY <1>1, <1>2, <2>1, <3>3 DEF Cells, Tag
  <2>3. CASE ~IsChunk(data)
    BY <1>1, <1>2, <1>3, <2>3 DEF ModbusHandle, Cells, Tag, Newer
  <2> QED BY <2>2, <2>3
<1>4. CASE ~ModbusHandle
  <2>1. accepted' = accepted
    BY <1>4, AcceptedKept DEF Next
  <2> QED BY <1>1, <1>2, <2>1 DEF Cells, Tag, Newer
<1> QED BY <1>3, <1>4

(* The host and the interrupts, and what the reader does about them.       *)
LEMMA OnceLine == ASSUME OInv, Byte \/ Pause \/ HAL_UART_RxCpltCallback
                             \/ HAL_UART_RxTimoCallback_Enter \/ UNCHANGED vars
                  PROVE  Once'
<1> USE DEF OInv, TInv
<1>1. [Next]_vars /\ accepted' = accepted
  BY DEF Next, Irq, Byte, Pause, HAL_UART_RxCpltCallback, HAL_UART_RxTimoCallback_Enter,
     vars, mainVars
<1>2. /\ build' = build /\ pc' = pc /\ RX_Updata_Flag' = RX_Updata_Flag
      /\ Used_RX_Len' = Used_RX_Len /\ used' = used /\ data' = data
  BY DEF Byte, Pause, HAL_UART_RxCpltCallback, HAL_UART_RxTimoCallback_Enter, vars,
     lineVars, isrVars, mainVars
<1>3. Used_RX_Len \in Ring /\ used \in Ring
  BY DEF IsrTypes, MainTypes
<1>4. Newer(Tag(Used_RX_Len)) => (Newer(Tag(Used_RX_Len)))'
  BY <1>1, <1>2, <1>3, NewerKept DEF Newer, Tag
<1>5. Newer(Tag(used)) => (Newer(Tag(used)))'
  BY <1>1, <1>2, <1>3, NewerKept DEF Newer, Tag
<1> QED BY <1>1, <1>2, <1>4, <1>5 DEF Once, ClearFirst, AtMostOnce, Newer

LEMMA OnceExit == ASSUME OInv, HAL_UART_RxTimoCallback_Exit PROVE Once'
<1> USE DEF OInv, TInv
<1>1. /\ build' = build /\ buf' = buf /\ accepted' = accepted /\ pc' = pc /\ used' = used
      /\ data' = data /\ Used_RX_Len' = rx_buf_used /\ RX_Updata_Flag' = 1
  BY DEF HAL_UART_RxTimoCallback_Exit, NoticeAfter, lineVars, mainVars
<1>2. Newer(Tag(rx_buf_used))
  BY DEF HAL_UART_RxTimoCallback_Exit, Cells
<1> QED BY <1>1, <1>2 DEF Once, ClearFirst, AtMostOnce, Newer, Tag

LEMMA OnceRead ==
  ASSUME OInv, Get_RX_Updata_Flag \/ GetReceData_Used \/ GetReceData_Len \/ Clear_RX_Updata_Flag
  PROVE  Once'
<1> USE DEF OInv, TInv
<1>1. /\ build' = build /\ buf' = buf /\ accepted' = accepted /\ Used_RX_Len' = Used_RX_Len
  BY DEF Get_RX_Updata_Flag, GetReceData_Used, GetReceData_Len, Clear_RX_Updata_Flag,
     lineVars, isrVars
<1>2. CASE Get_RX_Updata_Flag
  BY <1>1, <1>2 DEF Get_RX_Updata_Flag, ClearsBefore, Once, ClearFirst, AtMostOnce, Newer, Tag
<1>3. CASE GetReceData_Used
  BY <1>1, <1>3 DEF GetReceData_Used, Once, ClearFirst, AtMostOnce, Newer, Tag
<1>4. CASE GetReceData_Len
  BY <1>1, <1>4 DEF GetReceData_Len, Once, ClearFirst, AtMostOnce, Newer, Tag
<1>5. CASE Clear_RX_Updata_Flag
  BY <1>1, <1>5 DEF Clear_RX_Updata_Flag, Once, ClearFirst, AtMostOnce, Newer, Tag
<1> QED BY <1>2, <1>3, <1>4, <1>5

(* What is copied ends with the cell before Used_RX_Len.                   *)
LEMMA SliceEnds ==
  ASSUME NEW u \in Ring, NEW l \in 0 .. RECEIVE_SIZE
  PROVE  /\ DOMAIN Slice(u, l) = 1 .. l
         /\ l > 0 => Slice(u, l)[l] = buf[Before(u)]
  BY Bounds DEF Slice, Before, Ring

LEMMA OnceCopy == ASSUME OInv, GetReceData_Copy PROVE Once'
<1> USE DEF OInv, TInv
<1>1. /\ build' = build /\ buf' = buf /\ accepted' = accepted /\ Used_RX_Len' = Used_RX_Len
      /\ RX_Updata_Flag' = RX_Updata_Flag /\ pc = "copy" /\ pc' = "handle"
  BY DEF GetReceData_Copy, lineVars, isrVars
<1>2. used \in Ring /\ len \in Nat /\ RECEIVE_SIZE \in Nat
  BY Bounds, Two16 DEF MainTypes
<1>3. ~ClearFirst => Newer(Tag(used))
  BY <1>1 DEF Once
<1>4. ~ClearFirst => \E k \in 0 .. RECEIVE_SIZE :
          DOMAIN data' = 1 .. k /\ (k > 0 => Newer(data'[k][1]))
  <2>1. CASE data' = << >>
    <3>1. 0 \in 0 .. RECEIVE_SIZE /\ DOMAIN data' = 1 .. 0 /\ ~(0 > 0)
      BY <1>2, <2>1
    <3> QED BY <3>1
  <2>2. CASE data' = Slice(used, len) /\ len \in 0 .. RECEIVE_SIZE
    BY <1>2, <1>3, <2>2, SliceEnds DEF Tag
  <2> QED BY <1>2, <2>1, <2>2 DEF GetReceData_Copy
<1> QED BY <1>1, <1>4 DEF Once, ClearFirst, AtMostOnce, Newer, Tag

LEMMA OnceHandle == ASSUME OInv, ModbusHandle PROVE Once'
<1> USE DEF OInv, TInv
<1>1. build' = build /\ RX_Updata_Flag' = RX_Updata_Flag /\ pc = "handle"
  BY DEF ModbusHandle, lineVars
<1>2. CASE ClearFirst
  BY <1>1, <1>2 DEF Once, ClearFirst
<1>3. CASE ~ClearFirst
  <2>1. pc' = "clear" /\ RX_Updata_Flag = 1 /\ AtMostOnce
    BY <1>1, <1>3 DEF ModbusHandle, ClearsBefore, Once
  <2>2. AtMostOnce'
    <3>1. CASE IsChunk(data)
      <4> DEFINE c == ChunkOf(data)
      <4>1. c \in 1 .. Len(lens) /\ data = Chunk(c)
        BY <3>1 DEF IsChunk, ChunkOf
      <4> HIDE DEF c
      <4>2. lens[c] \in 1 .. MaxLen
        BY <4>1, LensType DEF LineTypes
      <4>3. DOMAIN data = 1 .. lens[c] /\ data[lens[c]] = <<c, lens[c]>>
        <5>1. data = [i \in 1 .. lens[c] |-> <<c, i>>]
          BY <4>1 DEF Chunk
        <5>2. lens[c] \in 1 .. lens[c]
          BY <4>2, Bounds
        <5> QED BY <5>1, <5>2
      <4>4. PICK k \in 0 .. RECEIVE_SIZE : DOMAIN data = 1 .. k /\ (k > 0 => Newer(data[k][1]))
        BY <1>1, <1>3 DEF Once
      <4>5. k = lens[c]
        <5>1. lens[c] \in 1 .. k
          BY <4>2, <4>3, <4>4, Bounds
        <5>2. k \in 1 .. lens[c]
          BY <4>3, <4>4, <5>1, Bounds
        <5> QED BY <5>1, <5>2, <4>2, Bounds
      <4>6. Newer(c)
        BY <4>2, <4>3, <4>4, <4>5, Bounds
      <4>7. accepted' = Append(accepted, c) /\ accepted \in Seq(Nat) /\ c \in Nat
        BY <3>1, <4>1 DEF ModbusHandle, Cells, c
      <4>8. ASSUME NEW i \in 1 .. Len(accepted'), NEW j \in 1 .. Len(accepted'), i < j
            PROVE  accepted'[i] < accepted'[j]
        <5>1. i \in 1 .. Len(accepted) /\ accepted'[i] = accepted[i]
          BY <4>7, <4>8
        <5>2. CASE j = Len(accepted) + 1
          BY <4>6, <4>7, <5>1, <5>2 DEF Newer
        <5>3. CASE j \in 1 .. Len(accepted)
          BY <1>3, <2>1, <4>7, <4>8, <5>1, <5>3 DEF AtMostOnce
        <5> QED BY <4>7, <5>2, <5>3
      <4> QED BY <4>8 DEF AtMostOnce
    <3>2. CASE ~IsChunk(data)
      BY <1>1, <2>1, <3>2 DEF ModbusHandle, AtMostOnce, ClearFirst
    <3> QED BY <3>1, <3>2
  <2> QED BY <1>1, <2>1, <2>2 DEF Once
<1> QED BY <1>2, <1>3

LEMMA StepO == OInv /\ [Next]_vars => OInv'
<1> SUFFICES ASSUME OInv, [Next]_vars PROVE OInv'
  OBVIOUS
<1>1. TInv'
  BY StepT DEF OInv
<1>2. Cells'
  BY CellsByte, CellsPause, CellsIrq, CellsMain DEF Next
<1>3. Once'
  BY OnceLine, OnceExit, OnceRead, OnceCopy, OnceHandle DEF Next, Irq, Main
<1> QED BY <1>1, <1>2, <1>3 DEF OInv

(* The application handles no chunk twice and none out of order, however   *)
(* chunks, interrupts and the main loop interleave: it clears the flag     *)
(* only after handling, and by then the ring's end is newer.               *)
THEOREM HandledOnce == Spec => []AtMostOnce
<1>1. OInv => AtMostOnce
  BY DEF OInv, Once, AtMostOnce
<1> QED BY <1>1, InitO, StepO, PTL DEF Spec

------------------------------------------------------------------------------
(* A lone chunk: it arrives from Used_RX_Len on, is measured, copied and   *)
(* handled.                                                                *)

Cell(s, i) == IF s + i - 1 < RECEIVE_SIZE THEN s + i - 1 ELSE s + i - 1 - RECEIVE_SIZE
InRing(c, s, l) == \A i \in 1 .. l : buf[Cell(s, i)] = <<c, i>>
Wrapped == dmaIrq \/ RX_OverRun_Flag = 1
Got == IF n > 0 THEN n ELSE lens[Len(lens)]
Stop == IF isr = "used" THEN rx_buf_used ELSE pos

Done ==
  /\ n = 0 /\ ~rtoIrq /\ isr = "none"
  /\ pc \in {"poll", "clear"} /\ (pc = "poll" => RX_Updata_Flag = 0)
Arrives ==
  /\ pc = "poll" /\ RX_Updata_Flag = 0
  /\ \/ n > 0 /\ ~rtoIrq /\ isr = "none"
     \/ n = 0 /\ rtoIrq /\ isr = "none"
     \/ n = 0 /\ ~rtoIrq /\ isr = "used" /\ ~dmaIrq
  /\ Got \in 1 .. MaxLen
  /\ InRing(Newest, Used_RX_Len, Got)
  /\ Stop + (IF Wrapped THEN RECEIVE_SIZE ELSE 0) = Used_RX_Len + Got
Measured ==
  /\ n = 0 /\ ~rtoIrq /\ isr = "none"
  /\ \/ pc = "poll" /\ RX_Updata_Flag = 1
     \/ pc \in {"get", "len", "copy"} /\ (ClearFirst => RX_Updata_Flag = 0)
  /\ pc \in {"len", "copy"} => used = Used_RX_Len
  /\ pc = "copy" => len = RX_Len
  /\ RX_Len <= RECEIVE_SIZE
  /\ Slice(Used_RX_Len, RX_Len) = Chunk(Len(lens))
Copied ==
  /\ n = 0 /\ ~rtoIrq /\ isr = "none"
  /\ pc = "handle" /\ (ClearFirst => RX_Updata_Flag = 0)
  /\ data = Chunk(Len(lens))

LInv == lone => Done \/ Arrives \/ Measured \/ Copied

(* The bookkeeping facts the argument rests on.                            *)
LoneInv == TInv /\ SyncInv /\ LInv

Numbered(c, l) == [i \in 1 .. l |-> <<c, i>>]

(* Copying the l cells before p yields what arrived from s on.             *)
LEMMA SliceIsArrived ==
  ASSUME NEW c, NEW s \in Ring, NEW p \in Ring, NEW l \in 1 .. RECEIVE_SIZE,
         p = s + l \/ p + RECEIVE_SIZE = s + l,
         InRing(c, s, l)
  PROVE  Slice(p, l) = Numbered(c, l)
<1>1. ASSUME NEW i \in 1 .. l PROVE Slice(p, l)[i] = <<c, i>>
  <2>1. buf[Cell(s, i)] = <<c, i>>
    BY DEF InRing
  <2>2. Slice(p, l)[i] = IF p > l             THEN buf[p - l + i - 1]
                         ELSE IF i <= l - p THEN buf[RECEIVE_SIZE - l + p + i - 1]
                         ELSE buf[i - (l - p) - 1]
    BY DEF Slice
  <2>3. CASE p > l
    <3>1. p - l + i - 1 = Cell(s, i)
      BY <2>3, Bounds DEF Cell, Ring
    <3> QED BY <2>1, <2>2, <2>3, <3>1
  <2>4. CASE ~(p > l) /\ i <= l - p
    <3>1. RECEIVE_SIZE - l + p + i - 1 = Cell(s, i)
      BY <2>4, Bounds DEF Cell, Ring
    <3> QED BY <2>1, <2>2, <2>4, <3>1
  <2>5. CASE ~(p > l) /\ ~(i <= l - p)
    <3>1. i - (l - p) - 1 = Cell(s, i)
      BY <2>5, Bounds DEF Cell, Ring
    <3> QED BY <2>1, <2>2, <2>5, <3>1
  <2> QED BY <2>3, <2>4, <2>5
<1>2. Slice(p, l) = [i \in 1 .. l |-> Slice(p, l)[i]]
  BY DEF Slice
<1> QED BY <1>1, <1>2 DEF Numbered

LEMMA InitLone == Init => LoneInv
  BY InitT, InitSync DEF Init, LoneInv, LInv, Done

(* The first byte falls where the reader will look for the chunk.          *)
LEMMA LoneFirst == ASSUME LoneInv, Byte, n = 0 PROVE LInv'
<1> SUFFICES ASSUME lone' PROVE Arrives'
  BY DEF LInv
<1> USE DEF LoneInv, TInv
<1>1. /\ lens \in Seq(1 .. MaxLen) /\ Len(lens) \in Nat /\ pos \in Ring
      /\ buf \in [Ring -> (0 .. MaxChunks) \X (0 .. MaxLen)]
  BY DEF LineTypes
<1>2. /\ pos = Used_RX_Len /\ RX_OverRun_Flag = 0 /\ dmaIrq = FALSE /\ rtoIrq = FALSE
      /\ isr = "none" /\ pc = "poll" /\ RX_Updata_Flag = 0
  BY DEF Byte, Idle, NoIrq, SyncInv, Sync, Booleans
<1>3. /\ pc' = "poll" /\ RX_Updata_Flag' = 0 /\ n' = 1 /\ rtoIrq' = FALSE /\ isr' = "none"
      /\ Used_RX_Len' = pos /\ RX_OverRun_Flag' = 0 /\ lens' = lens
      /\ dmaIrq' = (pos + 1 = RECEIVE_SIZE)
      /\ pos' = IF pos + 1 = RECEIVE_SIZE THEN 0 ELSE pos + 1
  BY <1>2 DEF Byte, isrVars, mainVars
<1>4. buf'[pos] = <<Len(lens) + 1, 1>>
  BY <1>1 DEF Byte
<1>5. Newest' = Len(lens) + 1 /\ Got' = 1 /\ Stop' = pos'
  BY <1>3 DEF Newest, Got, Stop
<1>6. Got' \in 1 .. MaxLen
  BY <1>5, Bounds
<1>7. InRing(Newest, Used_RX_Len, Got)'
  <2>1. \A i \in 1 .. 1 : IF pos + i - 1 < RECEIVE_SIZE
                            THEN buf'[pos + i - 1] = <<Len(lens) + 1, i>>
                            ELSE buf'[pos + i - 1 - RECEIVE_SIZE] = <<Len(lens) + 1, i>>
    BY <1>1, <1>4, Bounds DEF Ring
  <2> QED BY <1>3, <1>5, <2>1 DEF InRing, Cell
<1>8. (Stop + (IF Wrapped THEN RECEIVE_SIZE ELSE 0))' = (Used_RX_Len + Got)'
  <2>1. CASE pos + 1 = RECEIVE_SIZE
    <3>1. Wrapped' /\ pos' = 0
      BY <1>3, <2>1 DEF Wrapped
    <3> QED BY <1>1, <1>3, <1>5, <2>1, <3>1, Bounds DEF Ring
  <2>2. CASE pos + 1 # RECEIVE_SIZE
    <3>1. dmaIrq' = FALSE /\ pos' = pos + 1
      BY <1>3, <2>2
    <3>2. ~Wrapped'
      BY <1>3, <3>1 DEF Wrapped
    <3> QED BY <1>1, <1>3, <1>5, <3>1, <3>2, Bounds DEF Ring
  <2> QED BY <2>1, <2>2
<1> QED BY <1>3, <1>6, <1>7, <1>8 DEF Arrives

(* Each further byte falls behind the ones before it, never on one of      *)
(* them, because a chunk is not longer than the ring.                      *)
LEMMA LoneFurther == ASSUME LoneInv, Byte, n # 0 PROVE LInv'
<1> SUFFICES ASSUME lone' PROVE Arrives'
  BY DEF LInv
<1> USE DEF LoneInv, TInv
<1>1. /\ lens \in Seq(1 .. MaxLen) /\ Len(lens) \in Nat /\ pos \in Ring
      /\ buf \in [Ring -> (0 .. MaxChunks) \X (0 .. MaxLen)]
      /\ n \in 1 .. MaxLen - 1 /\ Used_RX_Len \in Ring
  BY Bounds DEF LineTypes, IsrTypes, Byte
<1>2. Arrives
  <2>1. lone /\ n # 0
    BY DEF Byte
  <2> QED BY <2>1 DEF LInv, Done, Measured, Copied
<1>3. rtoIrq = FALSE /\ isr = "none" /\ pc = "poll" /\ RX_Updata_Flag = 0
  BY <1>1, <1>2 DEF Arrives, Booleans
<1>4. Got = n /\ Stop = pos /\ Newest = Len(lens) + 1
  BY <1>1, <1>3 DEF Got, Stop, Newest
<1>5. /\ \A i \in 1 .. n : buf[Cell(Used_RX_Len, i)] = <<Len(lens) + 1, i>>
      /\ pos + (IF Wrapped THEN RECEIVE_SIZE ELSE 0) = Used_RX_Len + n
  BY <1>2, <1>4 DEF Arrives, InRing
<1>6. /\ pc' = "poll" /\ RX_Updata_Flag' = 0 /\ n' = n + 1 /\ rtoIrq' = FALSE /\ isr' = "none"
      /\ Used_RX_Len' = Used_RX_Len /\ RX_OverRun_Flag' = RX_OverRun_Flag /\ lens' = lens
      /\ dmaIrq' = (dmaIrq \/ pos + 1 = RECEIVE_SIZE)
      /\ pos' = IF pos + 1 = RECEIVE_SIZE THEN 0 ELSE pos + 1
  BY <1>3 DEF Byte, isrVars, mainVars
<1>7. \A q \in Ring : buf'[q] = IF q = pos THEN <<Len(lens) + 1, n + 1>> ELSE buf[q]
  BY <1>1 DEF Byte
<1>8. Newest' = Len(lens) + 1 /\ Got' = n + 1 /\ Stop' = pos'
  BY <1>1, <1>6 DEF Newest, Got, Stop
<1>9. Got' \in 1 .. MaxLen
  BY <1>1, <1>8, Bounds
<1>10. ASSUME NEW i \in 1 .. n + 1 PROVE buf'[Cell(Used_RX_Len, i)] = <<Len(lens) + 1, i>>
  <2>1. CASE i = n + 1
    <3>1. Cell(Used_RX_Len, i) = pos
      <4>1. CASE Wrapped
        BY <1>1, <1>5, <2>1, <4>1, Bounds DEF Cell, Ring
      <4>2. CASE ~Wrapped
        BY <1>1, <1>5, <2>1, <4>2, Bounds DEF Cell, Ring
      <4> QED BY <4>1, <4>2
    <3> QED BY <1>1, <1>7, <2>1, <3>1
  <2>2. CASE i \in 1 .. n
    <3>1. Cell(Used_RX_Len, i) \in Ring /\ Cell(Used_RX_Len, i) # pos
      <4>1. CASE Wrapped
        BY <1>1, <1>5, <2>2, <4>1, Bounds DEF Cell, Ring
      <4>2. CASE ~Wrapped
        BY <1>1, <1>5, <2>2, <4>2, Bounds DEF Cell, Ring
      <4> QED BY <4>1, <4>2
    <3> QED BY <1>5, <1>7, <2>2, <3>1
  <2> QED BY <1>1, <2>1, <2>2
<1>11. InRing(Newest, Used_RX_Len, Got)'
  BY <1>6, <1>8, <1>10 DEF InRing, Cell
<1>12. (Stop + (IF Wrapped THEN RECEIVE_SIZE ELSE 0))' = (Used_RX_Len + Got)'
  <2>1. CASE pos + 1 = RECEIVE_SIZE
    <3>1. ~Wrapped
      BY <1>1, <1>5, <2>1, Bounds DEF Ring
    <3>2. pos' = 0 /\ Wrapped'
      BY <1>6, <2>1 DEF Wrapped
    <3> QED BY <1>1, <1>5, <1>6, <1>8, <2>1, <3>1, <3>2, Bounds DEF Ring
  <2>2. CASE pos + 1 # RECEIVE_SIZE
    <3>1. pos' = pos + 1 /\ Wrapped' = Wrapped
      BY <1>6, <2>2 DEF Wrapped
    <3> QED BY <1>1, <1>5, <1>6, <1>8, <3>1, Bounds DEF Ring
  <2> QED BY <2>1, <2>2
<1> QED BY <1>1, <1>6, <1>9, <1>11, <1>12 DEF Arrives

LEMMA LonePause == ASSUME LoneInv, Pause PROVE LInv'
<1> SUFFICES ASSUME lone' PROVE Arrives'
  BY DEF LInv
<1> USE DEF LoneInv, TInv
<1>1. n \in 1 .. MaxLen /\ lens \in Seq(1 .. MaxLen) /\ Len(lens) \in Nat
  BY Bounds DEF Pause, LineTypes
<1>2. Arrives /\ isr = "none" /\ pc = "poll" /\ RX_Updata_Flag = 0
  BY <1>1 DEF Pause, LInv, Done, Measured, Copied, Arrives
<1>3. Len(lens') = Len(lens) + 1 /\ lens'[Len(lens')] = n /\ n' = 0
  BY <1>1 DEF Pause
<1>4. Newest' = Newest /\ Got' = Got
  BY <1>1, <1>3 DEF Newest, Got
<1>5. /\ buf' = buf /\ pos' = pos /\ dmaIrq' = dmaIrq /\ rtoIrq' = TRUE /\ isr' = "none"
      /\ rx_buf_used' = rx_buf_used /\ Used_RX_Len' = Used_RX_Len
      /\ RX_OverRun_Flag' = RX_OverRun_Flag /\ pc' = "poll" /\ RX_Updata_Flag' = 0
  BY <1>2 DEF Pause, isrVars, mainVars
<1> QED BY <1>2, <1>3, <1>4, <1>5 DEF Arrives, InRing, Cell, Stop, Wrapped

(* The handler works out how long the chunk is, and what the reader will   *)
(* copy is the chunk.                                                      *)
LEMMA LoneExit == ASSUME LoneInv, HAL_UART_RxTimoCallback_Exit PROVE LInv'
<1> SUFFICES ASSUME lone' PROVE Measured'
  BY DEF LInv
<1> USE DEF LoneInv, TInv
<1>1. /\ rx_buf_used \in Ring /\ Used_RX_Len \in Ring /\ RX_OverRun_Flag \in {0, 1}
      /\ lens \in Seq(1 .. MaxLen) /\ Len(lens) \in Nat
  BY DEF LineTypes, IsrTypes
<1>2. Arrives /\ isr = "used"
  BY DEF HAL_UART_RxTimoCallback_Exit, lineVars, LInv, Done, Measured, Copied
<1>3. n = 0 /\ rtoIrq = FALSE /\ dmaIrq = FALSE /\ pc = "poll"
  BY <1>2 DEF Arrives, Booleans
<1>4. Got = lens[Len(lens)] /\ Newest = Len(lens)
  BY <1>1, <1>3 DEF Got, Newest
<1>4a. Got \in 1 .. RECEIVE_SIZE
  BY <1>2, Bounds DEF Arrives
<1>5. rx_buf_used + (IF RX_OverRun_Flag = 1 THEN RECEIVE_SIZE ELSE 0) = Used_RX_Len + Got
  BY <1>2, <1>3 DEF Arrives, Stop, Wrapped
<1>6. rx_buf_used - Used_RX_Len + (IF RX_OverRun_Flag = 1 THEN RECEIVE_SIZE ELSE 0) = Got
  <2>1. rx_buf_used \in Int /\ Used_RX_Len \in Int /\ Got \in Int /\ RECEIVE_SIZE \in Int
    BY <1>1, <1>4a, Bounds DEF Ring
  <2>2. CASE RX_OverRun_Flag = 1
    BY <1>5, <2>1, <2>2
  <2>3. CASE RX_OverRun_Flag # 1
    BY <1>5, <2>1, <2>3
  <2> QED BY <2>2, <2>3
<1>7. RX_Len' = Got
  <2>1. Got % 65536 = Got
    BY <1>4a, Fits
  <2> QED BY <1>6, <2>1, Two16 DEF HAL_UART_RxTimoCallback_Exit, ReceivedLen, U16
<1>8. Slice(rx_buf_used, Got) = Numbered(Len(lens), Got)
  <2>1. InRing(Len(lens), Used_RX_Len, Got)
    BY <1>2, <1>4 DEF Arrives
  <2>2. rx_buf_used = Used_RX_Len + Got \/ rx_buf_used + RECEIVE_SIZE = Used_RX_Len + Got
    <3>1. rx_buf_used \in Int
      BY <1>1, Bounds DEF Ring
    <3> QED BY <1>5, <3>1
  <2>3. rx_buf_used \in Ring /\ Used_RX_Len \in Ring /\ Got \in 1 .. RECEIVE_SIZE
    BY <1>1, <1>4a
  <2> QED BY <2>1, <2>2, <2>3, SliceIsArrived
<1>9. /\ buf' = buf /\ lens' = lens /\ n' = 0 /\ rtoIrq' = FALSE /\ isr' = "none"
      /\ pc' = "poll" /\ RX_Updata_Flag' = 1 /\ Used_RX_Len' = rx_buf_used
  BY <1>3 DEF HAL_UART_RxTimoCallback_Exit, NoticeAfter, lineVars, mainVars
<1>10. Slice(Used_RX_Len, RX_Len)' = Chunk(Len(lens))'
  BY <1>4, <1>7, <1>8, <1>9 DEF Slice, Chunk, Numbered
<1>11. RX_Len' <= RECEIVE_SIZE
  BY <1>4a, <1>7, Bounds
<1> QED BY <1>9, <1>10, <1>11 DEF Measured

(* The wrap is only moved from the interrupt to the flag, and the handler  *)
(* starts at the position of the pause.                                    *)
LEMMA LoneIsr ==
  ASSUME LoneInv, HAL_UART_RxCpltCallback \/ HAL_UART_RxTimoCallback_Enter
  PROVE  LInv'
<1> SUFFICES ASSUME lone' PROVE Arrives'
  BY DEF LInv
<1> USE DEF LoneInv, TInv
<1>1. /\ UNCHANGED lineVars /\ UNCHANGED mainVars /\ RX_Updata_Flag' = RX_Updata_Flag
      /\ Used_RX_Len' = Used_RX_Len
  BY DEF HAL_UART_RxCpltCallback, HAL_UART_RxTimoCallback_Enter
<1>2. lone' = lone /\ lens' = lens /\ n' = n /\ pos' = pos /\ buf' = buf /\ pc' = pc
  BY <1>1 DEF lineVars, mainVars
<1>3. dmaIrq \/ rtoIrq
  BY DEF HAL_UART_RxCpltCallback, HAL_UART_RxTimoCallback_Enter
<1>4. Arrives
  BY <1>2, <1>3 DEF LInv, Done, Measured, Copied, SyncInv, Sync
<1>5. Newest' = Newest /\ Got' = Got
  BY <1>2 DEF Newest, Got
<1>6. InRing(Newest, Used_RX_Len, Got)'
  BY <1>1, <1>2, <1>4, <1>5 DEF Arrives, InRing, Cell
<1>7. CASE HAL_UART_RxCpltCallback
  <2>1. dmaIrq /\ RX_OverRun_Flag' = 1 /\ isr' = isr /\ rx_buf_used' = rx_buf_used /\ rtoIrq' = rtoIrq
    BY <1>7 DEF HAL_UART_RxCpltCallback
  <2>2. Wrapped /\ Wrapped' /\ Stop' = Stop
    BY <1>2, <2>1 DEF Wrapped, Stop
  <2>3. isr = "none"
    BY <1>4, <2>1 DEF Arrives
  <2> QED BY <1>1, <1>2, <1>4, <1>5, <1>6, <2>1, <2>2, <2>3 DEF Arrives
<1>8. CASE HAL_UART_RxTimoCallback_Enter
  <2>1. /\ rtoIrq /\ rtoIrq' = FALSE /\ isr = "none" /\ isr' = "used" /\ dmaIrq' = dmaIrq
        /\ ~dmaIrq /\ rx_buf_used' = pos /\ RX_OverRun_Flag' = RX_OverRun_Flag
    BY <1>8 DEF HAL_UART_RxTimoCallback_Enter
  <2>2. Wrapped' = Wrapped /\ Stop' = Stop
    BY <2>1 DEF Wrapped, Stop
  <2> QED BY <1>1, <1>2, <1>4, <1>5, <1>6, <2>1, <2>2 DEF Arrives
<1> QED BY <1>7, <1>8

(* The reader takes the chunk through its steps.                           *)
LEMMA LoneMain == ASSUME LoneInv, Main PROVE LInv'
<1> SUFFICES ASSUME lone' PROVE (Done \/ Arrives \/ Measured \/ Copied)'
  BY DEF LInv
<1> USE DEF LoneInv, TInv
<1>1. /\ UNCHANGED lineVars /\ UNCHANGED isrVars /\ dmaIrq' = dmaIrq /\ rtoIrq' = rtoIrq
  BY LineKept DEF Main, Get_RX_Updata_Flag, GetReceData_Used, GetReceData_Len,
     GetReceData_Copy, ModbusHandle, Clear_RX_Updata_Flag
<1>2. /\ build' = build /\ lone' = lone /\ lens' = lens /\ n' = n /\ pos' = pos /\ buf' = buf
      /\ isr' = isr /\ rx_buf_used' = rx_buf_used /\ Used_RX_Len' = Used_RX_Len
      /\ RX_Len' = RX_Len /\ RX_OverRun_Flag' = RX_OverRun_Flag
  BY <1>1 DEF lineVars, isrVars
<1>3. Done \/ Arrives \/ Measured \/ Copied
  BY <1>2 DEF LInv
<1>4. (Slice(Used_RX_Len, RX_Len))' = Slice(Used_RX_Len, RX_Len)
  BY <1>2 DEF Slice
<1>5. (Chunk(Len(lens)))' = Chunk(Len(lens))
  BY <1>2 DEF Chunk
<1>6. pc' = pc /\ RX_Updata_Flag' = RX_Updata_Flag /\ Arrives => Arrives'
  BY <1>1, <1>2 DEF Arrives, Newest, Got, Stop, Wrapped, InRing, Cell
<1>7. CASE Get_RX_Updata_Flag
  <2>1. pc = "poll" /\ RX_Updata_Flag \in {0, 1}
    BY <1>7 DEF Get_RX_Updata_Flag, MainTypes
  <2>2. CASE RX_Updata_Flag = 0
    <3>1. pc' = pc /\ RX_Updata_Flag' = RX_Updata_Flag
      BY <1>7, <2>2 DEF Get_RX_Updata_Flag
    <3>2. Done \/ Arrives
      BY <1>3, <2>1, <2>2 DEF Measured, Copied
    <3> QED BY <1>1, <1>2, <1>6, <3>1, <3>2 DEF Done
  <2>3. CASE RX_Updata_Flag = 1
    <3>1. Measured
      BY <1>3, <2>1, <2>3 DEF Done, Arrives, Copied
    <3>2. pc' = "get" /\ (ClearFirst => RX_Updata_Flag' = 0)
      BY <1>7, <2>3 DEF Get_RX_Updata_Flag, ClearsBefore
    <3>3. Measured'
      BY <1>1, <1>2, <1>4, <1>5, <3>1, <3>2 DEF Measured, ClearFirst
    <3> QED BY <3>3
  <2> QED BY <2>1, <2>2, <2>3
<1>8. CASE GetReceData_Used \/ GetReceData_Len
  <2>1. Measured
    BY <1>3, <1>8 DEF GetReceData_Used, GetReceData_Len, Done, Arrives, Copied
  <2>2. Measured'
    BY <1>1, <1>2, <1>4, <1>5, <1>8, <2>1 DEF GetReceData_Used, GetReceData_Len, Measured, ClearFirst
  <2> QED BY <2>2
<1>9. CASE GetReceData_Copy
  <2>1. Measured /\ pc = "copy"
    BY <1>3, <1>9 DEF GetReceData_Copy, Done, Arrives, Copied
  <2>2. /\ used = Used_RX_Len /\ len = RX_Len /\ RX_Len <= RECEIVE_SIZE
        /\ Slice(Used_RX_Len, RX_Len) = Chunk(Len(lens))
    BY <2>1 DEF Measured
  <2>3. ~(used > RECEIVE_SIZE) /\ ~(len > RECEIVE_SIZE)
    BY <2>2, Bounds, Two16 DEF IsrTypes, Ring
  <2>4. data' = Chunk(Len(lens)) /\ pc' = "handle" /\ RX_Updata_Flag' = RX_Updata_Flag
    BY <1>9, <2>2, <2>3 DEF GetReceData_Copy
  <2>5. Copied'
    BY <1>1, <1>2, <1>5, <2>1, <2>4 DEF Measured, Copied, ClearFirst
  <2> QED BY <2>5
<1>10. CASE ModbusHandle
  <2>1. Copied
    BY <1>3, <1>10 DEF ModbusHandle, Done, Arrives, Measured
  <2>2. Done'
    BY <1>1, <1>2, <1>10, <2>1 DEF ModbusHandle, ClearsBefore, ClearFirst, Copied, Done
  <2> QED BY <2>2
<1>11. CASE Clear_RX_Updata_Flag
  <2>1. Done
    BY <1>3, <1>11 DEF Clear_RX_Updata_Flag, Arrives, Measured, Copied
  <2>2. Done'
    BY <1>1, <1>2, <1>11, <2>1 DEF Clear_RX_Updata_Flag, Done
  <2> QED BY <2>2
<1> QED BY <1>7, <1>8, <1>9, <1>10, <1>11 DEF Main

LEMMA StepLone == LoneInv /\ [Next]_vars => LoneInv'
<1> SUFFICES ASSUME LoneInv, [Next]_vars PROVE LoneInv'
  OBVIOUS
<1>1. TInv' /\ SyncInv'
  BY StepT, StepSync DEF LoneInv
<1>2. LInv'
  <2>1. CASE UNCHANGED vars
    BY <2>1 DEF vars, lineVars, isrVars, mainVars, LoneInv, LInv, Done, Arrives, Measured,
       Copied, Newest, Got, Stop, Wrapped, InRing, Cell, Slice, Chunk, ClearFirst
  <2> QED
    BY <2>1, LoneFirst, LoneFurther, LonePause, LoneExit, LoneIsr, LoneMain DEF Next, Irq
<1> QED BY <1>1, <1>2 DEF LoneInv

(* A chunk that began on an idle device and has no other behind it is      *)
(* copied out whole and in order, for every size of ring, every length and *)
(* every place in the ring.                                                *)
THEOREM LoneIntact == Spec => []LoneChunkIntact
<1>1. LoneInv => LoneChunkIntact
  BY DEF LoneInv, LInv, Done, Arrives, Measured, Copied, LoneChunkIntact, NoIrq
<1> QED BY <1>1, InitLone, StepLone, PTL DEF Spec

------------------------------------------------------------------------------
(* The thread and the semaphore                                             *)

Awake == WithSem /\ pc = "poll" /\ RX_Updata_Flag = 1 => usart_sem > 0

LEMMA StepAwake == ASSUME TInv, Awake, [Next]_vars PROVE Awake'
<1> USE DEF Awake
<1>1. usart_sem \in Nat /\ RX_Updata_Flag \in {0, 1}
  BY Bounds DEF TInv, MainTypes
<1>2. CASE Byte \/ Pause \/ HAL_UART_RxCpltCallback \/ HAL_UART_RxTimoCallback_Enter
  BY <1>2 DEF Byte, Pause, HAL_UART_RxCpltCallback, HAL_UART_RxTimoCallback_Enter,
       lineVars, mainVars, WithSem
<1>3. CASE HAL_UART_RxTimoCallback_Exit
  BY <1>1, <1>3 DEF HAL_UART_RxTimoCallback_Exit, SemAfter, lineVars, mainVars, WithSem
<1>4. CASE Get_RX_Updata_Flag
  BY <1>1, <1>4 DEF Get_RX_Updata_Flag, lineVars, WithSem
<1>5. CASE GetReceData_Used \/ GetReceData_Len \/ GetReceData_Copy
  BY <1>5 DEF GetReceData_Used, GetReceData_Len, GetReceData_Copy, lineVars
<1>6. CASE ModbusHandle
  BY <1>6 DEF ModbusHandle, ClearsBefore, ClearFirst, WithSem, lineVars
<1>7. CASE Clear_RX_Updata_Flag
  BY <1>7 DEF Clear_RX_Updata_Flag, lineVars
<1>8. CASE UNCHANGED vars
  BY <1>8 DEF vars, lineVars, mainVars, WithSem
<1> QED BY <1>2, <1>3, <1>4, <1>5, <1>6, <1>7, <1>8 DEF Next, Irq, Main

(* Under RT-Thread the Modbus thread never goes to sleep while the update  *)
(* flag is set: every time the flag is set a semaphore comes with it, and  *)
(* the thread clears the flag before it waits again.                       *)
THEOREM NeverSleeps == Spec => []NoSleepOnNotice
<1>1. Init => Awake
  BY DEF Init, Awake
<1>2. TInv /\ Awake => NoSleepOnNotice
  BY Bounds DEF TInv, MainTypes, Awake, NoSleepOnNotice
<1> QED BY <1>1, <1>2, InitT, StepT, StepAwake, PTL DEF Spec
=============================================================================
