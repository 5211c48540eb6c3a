---------------------------- MODULE ModbusTxProofs ----------------------------
(***************************************************************************)
(* For both builds and every set of requests: nobody starts a transmission *)
(* into a running one, a reset or a new baud rate waits for the answer,    *)
(* and every step is one of module Transmitter.                            *)
(***************************************************************************)
EXTENDS ModbusTx, SequenceTheorems, TLAPS

Places == {"idle", "head", "tail", "check", "on", "take", "dma", "callback",
           "reinit_wait", "reinit", "reset_wait", "reset", "clear"}

Types ==
  /\ RTT \in BOOLEAN /\ TX_Cplt_Flag \in BOOLEAN /\ TX_Lock \in {0, 1}
  /\ dma = [busy |-> dma.busy, sent |-> dma.sent] /\ dma.busy \in BOOLEAN
  /\ pc \in [Actors -> Places]

(* Each suspended thread is queued once, where it waits, and only while    *)
(* the semaphore is taken.                                                 *)
Queue ==
  /\ waiters \in Seq(Actors)
  /\ \A i, j \in 1 .. Len(waiters) : waiters[i] = waiters[j] => i = j
  /\ \A i \in 1 .. Len(waiters) : pc[waiters[i]] \in Waits
  /\ waiters # << >> => RTT /\ TX_Lock = 0

(* RT-Thread: the semaphore is free, or the DMA or one thread has it; it   *)
(* is never lost.                                                          *)
Account ==
  RTT =>
    /\ TX_Lock = 0 => dma.busy \/ \E a \in Actors : Holds(a)
    /\ TX_Lock = 1 => ~dma.busy /\ \A a \in Actors : ~Holds(a)
    /\ dma.busy => \A a \in Actors : ~Holds(a)
    /\ ~(Holds("hand") /\ Holds("up"))

(* Bare metal: the flag is down from the wait until the transmission ends, *)
(* and one call runs at a time.                                            *)
Turns ==
  ~RTT =>
    /\ TX_Cplt_Flag => ~dma.busy
    /\ \A a \in Actors : pc[a] = "dma" => ~TX_Cplt_Flag /\ ~dma.busy
    /\ \A a \in Actors : Holds(a) => ~dma.busy
    /\ pc["hand"] = "idle" \/ pc["up"] = "idle"

IInv == Types /\ Queue /\ Account /\ Turns

------------------------------------------------------------------------------
LEMMA InitInv == Init => IInv
<1> SUFFICES ASSUME Init PROVE IInv
  OBVIOUS
<1>1. Types
  BY ModbusTxAssumption DEF ModbusTxAssumption, Init, Types, Idle, Places
<1>2. waiters = << >> /\ ~dma.busy /\ TX_Lock = 1 /\ \A a \in Actors : pc[a] = "idle"
  BY DEF Init, Idle
<1>3. Queue
  BY <1>2 DEF Queue
<1>4. Account /\ Turns
  BY <1>2 DEF Account, Turns, Holds, Actors
<1> QED BY <1>1, <1>3, <1>4 DEF IInv

(* A step of one actor from one place where it holds nothing to another.   *)
LEMMA Moves ==
  ASSUME IInv, NEW a \in Actors, NEW q \in Places,
         MayRun(a), pc[a] \notin Waits, ~Holds(a),
         q \notin {"dma", "reinit", "reset"},
         pc' = [pc EXCEPT ![a] = q],
         UNCHANGED <<RTT, TX_Cplt_Flag, TX_Lock, waiters, dma>>
  PROVE  IInv'
<1>1. Types' BY DEF IInv, Types
<1>2. \A b \in Actors : Holds(b)' <=> Holds(b)
  BY DEF IInv, Types, Holds
<1>3. Queue'
  BY DEF IInv, Types, Queue, MayRun, Blocked
<1>4. Account' BY <1>2 DEF IInv, Account, Actors
<1>5. Turns'
  BY DEF IInv, Types, Turns, MayRun, Actors, Holds
<1> QED BY <1>1, <1>3, <1>4, <1>5 DEF IInv

(* rt_sem_release by the only holder, with the transmitter at rest: the    *)
(* first waiter, if there is one, becomes the only holder.                 *)
LEMMA Released ==
  ASSUME Types, Queue, RTT, TX_Lock = 0,
         NEW p \in [Actors -> Places],
         \A a \in Actors : p[a] \notin {"dma", "reinit", "reset"},
         \A i \in 1 .. Len(waiters) : p[waiters[i]] = pc[waiters[i]],
         Sem_Release(p),
         UNCHANGED RTT, TX_Cplt_Flag' \in BOOLEAN,
         dma' = [busy |-> dma.busy, sent |-> dma.sent]', dma'.busy = FALSE
  PROVE  IInv'
<1>1. CASE waiters = << >>
  <2>1. TX_Lock' = 1 /\ pc' = p /\ waiters' = << >>
    BY <1>1 DEF Sem_Release
  <2>2. Types'
    BY <2>1 DEF Types
  <2>3. Queue'
    BY <2>1 DEF Queue
  <2>4. \A a \in Actors : ~Holds(a)'
    BY <2>1 DEF Holds
  <2>5. Account' /\ Turns'
    BY <2>1, <2>4 DEF Account, Turns, Actors
  <2> QED BY <2>2, <2>3, <2>5 DEF IInv
<1>2. CASE waiters # << >>
  <2> DEFINE w == Head(waiters)
  <2>1. /\ w = waiters[1] /\ w \in Actors /\ 1 \in 1 .. Len(waiters)
        /\ waiters' = Tail(waiters) /\ TX_Lock' = 0
        /\ pc' = [p EXCEPT ![w] = After(p[w])]
    BY <1>2 DEF Queue, Sem_Release
  <2>2. After(p[w]) \in Places
    BY <2>1 DEF Queue, Waits, After, Places
  <2>3. /\ waiters' \in Seq(Actors) /\ Len(waiters') = Len(waiters) - 1
        /\ \A i \in 1 .. Len(waiters') : /\ waiters'[i] = waiters[i + 1]
                                          /\ i + 1 \in 1 .. Len(waiters)
    BY <1>2, <2>1, HeadTailProperties DEF Queue
  <2>4. Types'
    BY <2>1, <2>2 DEF Types
  <2>5. \A i \in 1 .. Len(waiters') : waiters'[i] # w
    BY <2>1, <2>3 DEF Queue
  <2>6. \A i \in 1 .. Len(waiters') : pc'[waiters'[i]] \in Waits
    BY <2>1, <2>3, <2>5 DEF Queue
  <2>7. Queue'
    BY <2>1, <2>3, <2>6 DEF Queue
  <2>8. \A a \in Actors : Holds(a)' <=> a = w
    <3>1. p[w] \in Waits
      BY <2>1 DEF Queue
    <3>2. After(p[w]) \in {"dma", "reinit", "reset"}
      BY <3>1 DEF Waits, After
    <3> QED BY <2>1, <3>2 DEF Holds
  <2>9. Account' /\ Turns'
    BY <2>1, <2>8 DEF Account, Turns, Actors
  <2> QED BY <2>4, <2>7, <2>9 DEF IInv
<1> QED BY <1>1, <1>2

------------------------------------------------------------------------------
LEMMA SendsStep ==
  ASSUME IInv, NEW a \in Actors,
         FillHead(a) \/ FillTail(a) \/ MDB_Snd_Msg_RTU(a) \/ TX_ON(a)
  PROVE  IInv'
<1>1. /\ MayRun(a) /\ pc[a] \notin Waits /\ ~Holds(a)
      /\ UNCHANGED <<RTT, TX_Cplt_Flag, TX_Lock, waiters, dma>>
  BY DEF FillHead, FillTail, MDB_Snd_Msg_RTU, TX_ON, At, Waits, Holds, txVars
<1>2. \E q \in Places : /\ q \notin {"dma", "reinit", "reset"}
                        /\ pc' = [pc EXCEPT ![a] = q]
  BY DEF FillHead, FillTail, MDB_Snd_Msg_RTU, TX_ON, Goto, Return, Places
<1> QED BY <1>1, <1>2, Moves

LEMMA HandStep ==
  ASSUME IInv, ModbusHandle \/ CallBack \/ Clear_RX_Updata_Flag
  PROVE  IInv'
<1>1. /\ "hand" \in Actors /\ MayRun("hand") /\ pc["hand"] \notin Waits /\ ~Holds("hand")
      /\ UNCHANGED <<RTT, TX_Cplt_Flag, TX_Lock, waiters, dma>>
  BY DEF ModbusHandle, CallBack, Clear_RX_Updata_Flag, At, Waits, Holds, txVars, Actors
<1>2. \E q \in Places : /\ q \notin {"dma", "reinit", "reset"}
                        /\ pc' = [pc EXCEPT !["hand"] = q]
  BY DEF ModbusHandle, CallBack, Clear_RX_Updata_Flag, Goto, Places
<1> QED BY <1>1, <1>2, Moves

LEMMA UpStep ==
  ASSUME IInv, SensorEvent
  PROVE  IInv'
<1>1. /\ "up" \in Actors /\ MayRun("up") /\ pc["up"] \notin Waits /\ ~Holds("up")
      /\ pc' = [pc EXCEPT !["up"] = "head"] /\ "head" \in Places
      /\ UNCHANGED <<RTT, TX_Cplt_Flag, TX_Lock, waiters, dma>>
  BY DEF SensorEvent, Goto, At, Waits, Holds, txVars, Actors, Places
<1> QED BY <1>1, Moves

(* A thread takes the free semaphore, or queues for it.                    *)
LEMMA TakeStep ==
  ASSUME IInv, NEW a \in Actors, MayRun(a), pc[a] \in Waits, Sem_Take(a),
         UNCHANGED <<RTT, dma>>
  PROVE  IInv'
<1>1. MustWait(pc[a]) /\ RTT /\ UNCHANGED TX_Cplt_Flag
  BY DEF MustWait, Sem_Take
<1>2. CASE TX_Lock > 0
  <2>1. /\ TX_Lock = 1 /\ TX_Lock' = 0 /\ waiters' = << >> /\ waiters = << >>
        /\ pc' = [pc EXCEPT ![a] = After(pc[a])]
    BY <1>1, <1>2 DEF IInv, Types, Queue, Sem_Take, Goto
  <2>2. After(pc[a]) \in Places /\ After(pc[a]) \in {"dma", "reinit", "reset"}
    BY DEF Waits, After, Places
  <2>3. ~dma.busy /\ \A b \in Actors : Holds(b)' <=> b = a
    BY <1>1, <2>1, <2>2 DEF IInv, Types, Account, Holds
  <2>4. Types' /\ Queue'
    BY <1>1, <2>1, <2>2 DEF IInv, Types, Queue
  <2>5. Account' /\ Turns'
    BY <1>1, <2>1, <2>3 DEF Account, Turns, Actors
  <2> QED BY <2>4, <2>5 DEF IInv
<1>3. CASE TX_Lock = 0
  <2>1. waiters' = Append(waiters, a) /\ UNCHANGED <<TX_Lock, pc>>
    BY <1>1, <1>3 DEF Sem_Take, Queued
  <2>2. \A i \in 1 .. Len(waiters) : waiters[i] # a
    BY DEF MayRun, Blocked
  <2>3. /\ waiters' \in Seq(Actors) /\ Len(waiters') = Len(waiters) + 1
        /\ waiters'[Len(waiters) + 1] = a
        /\ \A i \in 1 .. Len(waiters) : waiters'[i] = waiters[i]
    BY <2>1, AppendProperties DEF IInv, Queue
  <2>4. Len(waiters) \in Nat
    BY DEF IInv, Queue
  <2>5. Queue'
    BY <1>1, <1>3, <2>1, <2>2, <2>3, <2>4 DEF IInv, Queue
  <2> QED BY <1>1, <2>1, <2>5 DEF IInv, Types, Account, Turns, Holds
<1> QED BY <1>2, <1>3 DEF IInv, Types

(* The main loop finds the flag up; Send_Data takes it down.               *)
LEMMA CpltStep ==
  ASSUME IInv, NEW a \in Actors, MayRun(a), pc[a] \in Waits, Cplt_Wait(a),
         UNCHANGED <<RTT, dma>>
  PROVE  IInv'
<1>1. /\ ~RTT /\ TX_Cplt_Flag /\ TX_Cplt_Flag' = (pc[a] # "take")
      /\ pc' = [pc EXCEPT ![a] = After(pc[a])] /\ UNCHANGED <<TX_Lock, waiters>>
  BY DEF IInv, Types, Cplt_Wait, MustWait, Goto
<1>2. After(pc[a]) \in Places /\ (After(pc[a]) = "dma" <=> pc[a] = "take")
  BY DEF Waits, After, Places
<1>3. ~dma.busy /\ \A b \in Actors \ {a} : pc[b] = "idle" /\ pc'[b] = "idle"
  BY <1>1 DEF IInv, Types, Turns, MayRun
<1>4. Types' /\ Queue' /\ Account'
  BY <1>1, <1>2 DEF IInv, Types, Queue, Account
<1>5. \A b \in Actors : pc'[b] = "dma" => ~TX_Cplt_Flag'
  BY <1>1, <1>2, <1>3 DEF IInv, Types
<1>6. Turns'
  BY <1>1, <1>3, <1>5 DEF Turns, Actors
<1> QED BY <1>4, <1>6 DEF IInv

LEMMA DmaStart ==
  ASSUME IInv, NEW a \in Actors, Transmit_DMA(a)
  PROVE  IInv'
<1>1. /\ MayRun(a) /\ pc[a] = "dma" /\ Holds(a)
      /\ UNCHANGED <<RTT, TX_Cplt_Flag, TX_Lock, waiters>>
  BY DEF Transmit_DMA, At, Holds
<1>2. ~dma.busy
  BY <1>1 DEF IInv, Types, Account, Turns
<1>3. dma' = [busy |-> TRUE, sent |-> << >>]
  BY <1>2 DEF Transmit_DMA
<1>4. PICK q \in Places : /\ pc' = [pc EXCEPT ![a] = q]
                          /\ q \in {"idle", "callback", "clear"}
  BY DEF Transmit_DMA, Goto, Return, Places
<1>5. Types'
  BY <1>1, <1>3, <1>4 DEF IInv, Types
<1>6. Queue'
  BY <1>1, <1>4 DEF IInv, Types, Queue, MayRun, Blocked
<1>7. RTT => TX_Lock = 0 /\ \A b \in Actors : ~Holds(b)'
  BY <1>1, <1>4 DEF IInv, Types, Account, Holds, Actors
<1>8. Account'
  BY <1>1, <1>3, <1>7 DEF Account, Actors
<1>9. ~RTT => ~TX_Cplt_Flag /\ \A b \in Actors \ {a} : pc'[b] = "idle"
  BY <1>1, <1>4 DEF IInv, Types, Turns, MayRun
<1>10. ~RTT => \A b \in Actors : ~Holds(b)'
  BY <1>4, <1>9 DEF IInv, Types, Holds
<1>11. Turns'
  BY <1>1, <1>9, <1>10 DEF Turns, Holds, Actors
<1> QED BY <1>5, <1>6, <1>8, <1>11 DEF IInv

LEMMA CpltIrq ==
  ASSUME IInv, HAL_UART_TxCpltCallback
  PROVE  IInv'
<1>1. /\ dma.busy /\ dma' = [busy |-> FALSE, sent |-> << >>] /\ UNCHANGED RTT
      /\ TX_Cplt_Flag' = TRUE
  BY DEF HAL_UART_TxCpltCallback, SignalsEnd, Idle, IInv, Types
<1>2. CASE RTT
  <2>1. Sem_Release(pc) /\ TX_Lock = 0 /\ \A a \in Actors : ~Holds(a)
    BY <1>1, <1>2 DEF HAL_UART_TxCpltCallback, SignalsEnd, IInv, Types, Account
  <2> QED BY <1>1, <1>2, <2>1, Released DEF IInv, Types, Holds
<1>3. CASE ~RTT
  <2>1. UNCHANGED <<TX_Lock, waiters, pc>>
    BY <1>3 DEF HAL_UART_TxCpltCallback
  <2> QED BY <1>1, <1>3, <2>1 DEF IInv, Types, Queue, Account, Turns
<1> QED BY <1>2, <1>3

LEMMA ReInitStep ==
  ASSUME IInv, MB_USART_ReInit
  PROVE  IInv'
<1> DEFINE p == [pc EXCEPT !["hand"] = "clear"]
<1>1. /\ "hand" \in Actors /\ MayRun("hand") /\ pc["hand"] = "reinit" /\ Holds("hand")
      /\ UNCHANGED <<RTT, TX_Cplt_Flag, dma>>
  BY DEF MB_USART_ReInit, At, Holds, Actors
<1>2. p \in [Actors -> Places]
  BY DEF IInv, Types, Places
<1>3. CASE RTT
  <2>1. Sem_Release(p)
    BY <1>3 DEF MB_USART_ReInit
  <2>2. TX_Lock = 0 /\ ~dma.busy /\ ~Holds("up")
    BY <1>1, <1>3 DEF IInv, Types, Account
  <2>3. \A a \in Actors : p[a] \notin {"dma", "reinit", "reset"}
    BY <2>2 DEF IInv, Types, Holds, Actors
  <2>4. \A i \in 1 .. Len(waiters) : p[waiters[i]] = pc[waiters[i]]
    BY <1>1 DEF IInv, Types, Queue, MayRun, Blocked
  <2>5. dma'.busy = FALSE
    BY <1>1, <2>2 DEF IInv, Types
  <2> HIDE DEF p
  <2> QED BY <1>1, <1>2, <1>3, <2>1, <2>2, <2>3, <2>4, <2>5, Released DEF IInv, Types
<1>4. CASE ~RTT
  <2>1. pc' = p /\ UNCHANGED <<TX_Lock, waiters>>
    BY <1>4 DEF MB_USART_ReInit
  <2> QED BY <1>1, <1>2, <1>4, <2>1 DEF IInv, Types, Queue, Account, Turns, MayRun, Actors
<1> QED BY <1>3, <1>4

LEMMA ResetStep ==
  ASSUME IInv, MB_System_Reset
  PROVE  IInv'
<1>1. /\ TX_Cplt_Flag' = TRUE /\ TX_Lock' = 1 /\ waiters' = << >> /\ UNCHANGED RTT
      /\ dma' = [busy |-> FALSE, sent |-> << >>] /\ pc' = [a \in Actors |-> "idle"]
  BY DEF MB_System_Reset, PowerOn, Idle
<1> QED BY <1>1 DEF IInv, Types, Queue, Account, Turns, Holds, Places, Actors

LEMMA StepInv == IInv /\ [Next]_vars => IInv'
<1> SUFFICES ASSUME IInv, [Next]_vars PROVE IInv'
  OBVIOUS
<1>1. ASSUME UNCHANGED <<RTT, TX_Cplt_Flag, TX_Lock, waiters, pc>>,
             dma' = [busy |-> dma.busy, sent |-> dma'.sent]
      PROVE  IInv'
  BY <1>1 DEF IInv, Types, Queue, Account, Turns, Holds
<1>2. CASE HostSends \/ HAL_UART_RxTimoCallback \/ UNCHANGED vars
  BY <1>1, <1>2 DEF HostSends, HAL_UART_RxTimoCallback, vars, txVars, IInv, Types
<1>3. CASE DmaRead
  BY <1>1, <1>3 DEF DmaRead, IInv, Types
<1>4. CASE HAL_UART_TxCpltCallback
  BY <1>4, CpltIrq
<1>5. ASSUME NEW a \in Actors, Sends(a) PROVE IInv'
  <2>1. CASE FillHead(a) \/ FillTail(a) \/ MDB_Snd_Msg_RTU(a) \/ TX_ON(a)
    BY <2>1, SendsStep
  <2>2. CASE WaitForTx(a)
    BY <2>2, TakeStep, CpltStep DEF WaitForTx
  <2>3. CASE Transmit_DMA(a)
    BY <2>3, DmaStart
  <2> QED BY <1>5, <2>1, <2>2, <2>3 DEF Sends
<1>6. CASE SensorEvent
  BY <1>6, UpStep
<1>7. CASE ModbusHandle \/ CallBack \/ Clear_RX_Updata_Flag
  BY <1>7, HandStep
<1>8. CASE MB_USART_ReInit
  BY <1>8, ReInitStep
<1>9. CASE MB_System_Reset
  BY <1>9, ResetStep
<1> QED BY <1>2, <1>3, <1>4, <1>5, <1>6, <1>7, <1>8, <1>9
     DEF Next, Hand, Up, Hardware, Actors

LEMMA Inductive == Spec => []IInv
  BY InitInv, StepInv, PTL DEF Spec

------------------------------------------------------------------------------
(* In both builds and whatever the host asks, Send_Data starts the DMA     *)
(* only when no transmission is going on.                                  *)
THEOREM Exclusive == Spec => []TxExclusive
<1>1. IInv => TxExclusive
  BY DEF IInv, Types, Account, Turns, Holds, TxExclusive
<1> QED BY <1>1, Inductive, PTL

(* In both builds a reset or a new baud rate finds the transmitter at      *)
(* rest: the answer to the command has left.                               *)
THEOREM AnswersLeave == Spec => []AnswerFirst
<1>1. IInv => AnswerFirst
  BY DEF IInv, Types, Account, Turns, Holds, AnswerFirst, Actors
<1> QED BY <1>1, Inductive, PTL

------------------------------------------------------------------------------
(* Bare metal, nobody is past the check for the freeze while it holds: the *)
(* callback that freezes runs while the upload is idle.                    *)
Thawed == ~RTT /\ Freeze => \A a \in Actors : pc[a] \notin {"on", "take", "dma"}

LEMMA ThawedStep == Types /\ Thawed /\ [Next]_vars => Thawed'
<1> SUFFICES ASSUME Types, Thawed, [Next]_vars, ~RTT', Freeze'
             PROVE  \A a \in Actors : pc'[a] \notin {"on", "take", "dma"}
  BY DEF Thawed
<1> USE DEF Types, Thawed, Goto, At
<1>1. CASE HostSends \/ HAL_UART_RxTimoCallback \/ DmaRead \/ UNCHANGED vars
  BY <1>1 DEF HostSends, HAL_UART_RxTimoCallback, DmaRead, vars, txVars
<1>2. CASE HAL_UART_TxCpltCallback
  BY <1>2 DEF HAL_UART_TxCpltCallback
<1>3. ASSUME NEW a \in Actors, Sends(a)
      PROVE  \A b \in Actors : pc'[b] \notin {"on", "take", "dma"}
  <2>1. CASE FillHead(a)
    BY <2>1 DEF FillHead, txVars
  <2>2. CASE FillTail(a)
    BY <2>2 DEF FillTail, txVars, MayRun
  <2>3. CASE MDB_Snd_Msg_RTU(a)
    BY <2>3 DEF MDB_Snd_Msg_RTU, Dropped, Return
  <2>4. CASE TX_ON(a)
    BY <2>4 DEF TX_ON
  <2>5. CASE WaitForTx(a)
    BY <2>5 DEF WaitForTx, Sem_Take, Cplt_Wait, Waits, After
  <2>6. CASE Transmit_DMA(a)
    BY <2>6 DEF Transmit_DMA
  <2> QED BY <1>3, <2>1, <2>2, <2>3, <2>4, <2>5, <2>6 DEF Sends
<1>4. CASE SensorEvent
  BY <1>4 DEF SensorEvent, txVars
<1>5. CASE ModbusHandle
  BY <1>5 DEF ModbusHandle, txVars
<1>6. CASE CallBack
  BY <1>6 DEF CallBack, txVars, MayRun
<1>7. CASE Clear_RX_Updata_Flag
  BY <1>7 DEF Clear_RX_Updata_Flag, txVars
<1>8. CASE MB_USART_ReInit
  BY <1>8 DEF MB_USART_ReInit
<1>9. CASE MB_System_Reset
  BY <1>9 DEF MB_System_Reset, PowerOn
<1> QED BY <1>1, <1>2, <1>3, <1>4, <1>5, <1>6, <1>7, <1>8, <1>9
     DEF Next, Hand, Up, Hardware, Actors

(* Bare metal, a frozen device starts no transmission, whatever the host   *)
(* asks and whenever the upload falls due.                                 *)
THEOREM FrozenIsSilent == Spec => FrozenSilent
<1> DEFINE FInv == Types /\ Thawed
<1>1. Init => FInv
  BY InitInv DEF Init, IInv, Thawed
<1>2. IInv /\ FInv /\ [Next]_vars => FInv'
  <2> SUFFICES ASSUME IInv, FInv, [Next]_vars PROVE FInv'
    OBVIOUS
  <2>1. IInv'
    BY StepInv, Zenon
  <2>2. Thawed'
    BY ThawedStep, Zenon
  <2> QED BY <2>1, <2>2 DEF IInv
<1>3. IInv /\ FInv /\ [Next]_vars => [~RTT /\ ~dma.busy /\ dma'.busy => ~Freeze]_vars
  <2> SUFFICES ASSUME Types, Thawed, ~RTT, Next, ~dma.busy, dma'.busy, Freeze
               PROVE  FALSE
    OBVIOUS
  <2>1. \A a \in Actors : ~Transmit_DMA(a)
    BY DEF Thawed, Transmit_DMA, At
  <2>2. \/ UNCHANGED dma
        \/ DmaRead \/ HAL_UART_TxCpltCallback \/ MB_System_Reset
    BY <2>1 DEF Next, txVars, HostSends, Hand, Up, Hardware, Sends, ModbusHandle, CallBack,
           MB_USART_ReInit, Clear_RX_Updata_Flag, SensorEvent, FillHead, FillTail,
           MDB_Snd_Msg_RTU, TX_ON, WaitForTx, HAL_UART_RxTimoCallback, Actors
  <2>3. ~DmaRead /\ ~HAL_UART_TxCpltCallback
    BY DEF DmaRead, HAL_UART_TxCpltCallback
  <2>4. ~MB_System_Reset
    BY DEF MB_System_Reset, PowerOn, Idle
  <2> QED BY <2>2, <2>3, <2>4
<1> QED BY <1>1, <1>2, <1>3, Inductive, PTL DEF Spec, FrozenSilent

------------------------------------------------------------------------------
(* Types of everything the transmitter's own invariant leaves out          *)

Pieces == Frames \cup (Frames \X Frames)

Data ==
  /\ Send_Buf \in [head : Frames, tail : Frames, crc : Frames \X Frames]
  /\ n \in [Actors -> 0 .. Names - 1]
  /\ dma.sent \in Seq(Pieces) /\ Len(dma.sent) <= 3

Handling ==
  /\ RTT \in Builds /\ dir \in {"rx", "tx"}
  /\ Freeze \in BOOLEAN /\ RX_Updata_Flag \in BOOLEAN /\ Check_Addr \in BOOLEAN
  /\ line \in Requests \cup {Foreign, NoReq} /\ Receive_Buf \in Requests \cup {Foreign, NoReq}
  /\ ModBus_CallBack \in {"none", "freeze", "reinit", "reset", "send"}
  /\ pc["up"] \in {"idle", "head", "tail", "check", "on", "take", "dma"}

LEMMA InitData == Init => Data /\ Handling
<1> SUFFICES ASSUME Init PROVE Data /\ Handling
  OBVIOUS
<1>1. NoFrame \in Frames
  BY DEF Frames
<1>2. n \in [Actors -> 0 .. Names - 1]
  BY ModbusTxAssumption DEF Init
<1>3. dma.sent = << >>
  BY DEF Init, Idle
<1>4. dma.sent \in Seq(Pieces) /\ Len(dma.sent) <= 3
  BY <1>3
<1>5. Data
  BY <1>1, <1>2, <1>4 DEF Init, Data
<1>6. Handling
  BY DEF Init, Handling, Actors
<1> QED BY <1>5, <1>6

LEMMA FrameType == ASSUME Data, NEW a \in Actors PROVE Frame(a) \in Frames
  BY DEF Data, Frame, Frames

(* What keeps the buffer, the names and what the DMA read.                 *)
LEMMA BufferKept ==
  ASSUME [Next]_vars, \A a \in Actors : ~FillHead(a) /\ ~FillTail(a) /\ ~MDB_Snd_Msg_RTU(a),
         ~MB_System_Reset
  PROVE  Send_Buf' = Send_Buf
  BY DEF Next, vars, HostSends, Hand, Up, Hardware, Sends, ModbusHandle, CallBack,
     MB_USART_ReInit, Clear_RX_Updata_Flag, SensorEvent, TX_ON, WaitForTx, Transmit_DMA,
     HAL_UART_RxTimoCallback, DmaRead, HAL_UART_TxCpltCallback, Actors

LEMMA NamesStep ==
  ASSUME Data, [Next]_vars
  PROVE  /\ n' \in [Actors -> 0 .. Names - 1]
         /\ n' # n => ModbusHandle \/ SensorEvent
<1>1. CASE ModbusHandle
  BY <1>1, ModbusTxAssumption DEF ModbusHandle, Data, Actors
<1>2. CASE SensorEvent
  BY <1>2, ModbusTxAssumption DEF SensorEvent, Data, Actors
<1>3. CASE ~ModbusHandle /\ ~SensorEvent
  <2>1. n' = n
    BY <1>3 DEF Next, vars, HostSends, Hand, Up, Hardware, Sends, CallBack, MB_USART_ReInit,
       MB_System_Reset, Clear_RX_Updata_Flag, FillHead, FillTail, MDB_Snd_Msg_RTU, TX_ON,
       WaitForTx, Transmit_DMA, HAL_UART_RxTimoCallback, DmaRead, HAL_UART_TxCpltCallback
  <2> QED BY <2>1 DEF Data
<1> QED BY <1>1, <1>2, <1>3

LEMMA SentStep ==
  ASSUME Types, Data, [Next]_vars
  PROVE  \/ dma'.sent = dma.sent
         \/ dma'.sent = << >>
         \/ DmaRead /\ dma'.sent = Append(dma.sent, Piece(Len(dma.sent) + 1))
<1>1. CASE DmaRead
  BY <1>1 DEF DmaRead, Types
<1>2. CASE HAL_UART_TxCpltCallback \/ MB_System_Reset
  BY <1>2 DEF HAL_UART_TxCpltCallback, MB_System_Reset, PowerOn, Idle
<1>3. CASE \E a \in Actors : Transmit_DMA(a)
  BY <1>3 DEF Transmit_DMA, Types
<1>4. CASE ~DmaRead /\ ~HAL_UART_TxCpltCallback /\ ~MB_System_Reset
             /\ \A a \in Actors : ~Transmit_DMA(a)
  <2>1. dma' = dma
    BY <1>4 DEF Next, vars, txVars, HostSends, Hand, Up, Hardware, Sends, ModbusHandle,
       CallBack, MB_USART_ReInit, Clear_RX_Updata_Flag, SensorEvent, FillHead, FillTail,
       MDB_Snd_Msg_RTU, TX_ON, WaitForTx, HAL_UART_RxTimoCallback, Actors
  <2> QED BY <2>1
<1> QED BY <1>1, <1>2, <1>3, <1>4

LEMMA StepData == ASSUME Types, Data, [Next]_vars PROVE Data'
<1>1. Send_Buf' \in [head : Frames, tail : Frames, crc : Frames \X Frames]
  <2>1. CASE \E a \in Actors : FillHead(a) \/ FillTail(a) \/ MDB_Snd_Msg_RTU(a)
    BY <2>1, FrameType DEF FillHead, FillTail, MDB_Snd_Msg_RTU, TailOf, Data
  <2>2. CASE MB_System_Reset
    BY <2>2 DEF MB_System_Reset, PowerOn, Frames
  <2>3. CASE ~MB_System_Reset /\ \A a \in Actors : ~FillHead(a) /\ ~FillTail(a) /\ ~MDB_Snd_Msg_RTU(a)
    BY <2>3, BufferKept DEF Data
  <2> QED BY <2>1, <2>2, <2>3
<1>2. dma'.sent \in Seq(Pieces) /\ Len(dma'.sent) <= 3
  <2>1. CASE DmaRead /\ dma'.sent = Append(dma.sent, Piece(Len(dma.sent) + 1))
    <3>1. Piece(Len(dma.sent) + 1) \in Pieces
      BY DEF Piece, Pieces, Data
    <3>2. Len(dma.sent) \in Nat /\ Len(dma.sent) < 3
      BY <2>1 DEF DmaRead, Data
    <3> QED BY <2>1, <3>1, <3>2, AppendProperties DEF Data
  <2>2. CASE dma'.sent = << >>
    BY <2>2
  <2> QED BY <2>1, <2>2, SentStep DEF Data
<1> QED BY <1>1, <1>2, NamesStep DEF Data

(* A release moves a thread that waits, never one that does not.           *)
LEMMA ReleaseUp ==
  ASSUME Types, Queue, Handling, NEW p \in [Actors -> Places], p["up"] = pc["up"],
         Sem_Release(p)
  PROVE  pc'["up"] \in {"idle", "head", "tail", "check", "on", "take", "dma"}
<1>1. CASE waiters = << >>
  BY <1>1 DEF Sem_Release, Handling
<1>2. CASE waiters # << >>
  <2>1. Head(waiters) = waiters[1] /\ 1 \in 1 .. Len(waiters) /\ Head(waiters) \in Actors
    BY <1>2 DEF Queue
  <2>2. pc' = [p EXCEPT ![Head(waiters)] = After(p[Head(waiters)])]
    BY <1>2 DEF Sem_Release
  <2>3. CASE Head(waiters) = "up"
    <3>1. pc["up"] = "take"
      BY <2>1, <2>3 DEF Queue, Waits, Handling
    <3> QED BY <2>2, <2>3, <3>1 DEF After, Actors
  <2>4. CASE Head(waiters) # "up"
    BY <2>2, <2>4 DEF Handling, Actors
  <2> QED BY <2>3, <2>4
<1> QED BY <1>1, <1>2

LEMMA StepHandling == ASSUME IInv, Handling, [Next]_vars PROVE Handling'
<1> USE DEF IInv, Types, Handling
<1>1. CASE HostSends
  BY <1>1, ModbusTxAssumption DEF HostSends, txVars, handVars
<1>2. CASE HAL_UART_RxTimoCallback
  BY <1>2 DEF HAL_UART_RxTimoCallback, txVars
<1>3. CASE ModbusHandle
  BY <1>3 DEF ModbusHandle, txVars, rxVars, Goto, Actors
<1>4. CASE SensorEvent
  BY <1>4 DEF SensorEvent, txVars, rxVars, handVars, Goto, Actors
<1>5. ASSUME NEW a \in Actors, FillHead(a) \/ FillTail(a) PROVE Handling'
  <2>1. /\ UNCHANGED <<RTT, dir, line, RX_Updata_Flag, Receive_Buf, Check_Addr>>
        /\ pc'["up"] \in {"idle", "head", "tail", "check", "on", "take", "dma"}
    BY <1>5 DEF FillHead, FillTail, txVars, rxVars, handVars, Goto, Actors
  <2>2. Freeze' \in BOOLEAN /\ ModBus_CallBack' \in {"none", "freeze", "reinit", "reset", "send"}
    BY <1>5 DEF FillHead, FillTail, handVars, CallBackOf
  <2> QED BY <2>1, <2>2
<1>6. ASSUME NEW a \in Actors, MDB_Snd_Msg_RTU(a) \/ TX_ON(a) PROVE Handling'
  BY <1>6 DEF MDB_Snd_Msg_RTU, TX_ON, DirAtCheck, rxVars, handVars, Goto, Return, Actors
<1>7. ASSUME NEW a \in Actors, WaitForTx(a) PROVE Handling'
  <2>1. pc' = pc \/ pc' = [pc EXCEPT ![a] = After(pc[a])]
    BY <1>7 DEF WaitForTx, Sem_Take, Cplt_Wait, Goto
  <2>2. pc[a] \in Waits
    BY <1>7 DEF WaitForTx
  <2>3. pc'["up"] \in {"idle", "head", "tail", "check", "on", "take", "dma"}
    BY <2>1, <2>2 DEF Waits, After, Actors
  <2> QED BY <1>7, <2>3 DEF WaitForTx, rxVars, handVars
<1>8. ASSUME NEW a \in Actors, Transmit_DMA(a) PROVE Handling'
  BY <1>8 DEF Transmit_DMA, rxVars, handVars, Goto, Return
<1>9. CASE DmaRead
  BY <1>9 DEF DmaRead, rxVars, handVars
<1>10. CASE HAL_UART_TxCpltCallback
  <2>1. pc'["up"] \in {"idle", "head", "tail", "check", "on", "take", "dma"}
    BY <1>10, ReleaseUp DEF HAL_UART_TxCpltCallback
  <2> QED BY <1>10, <2>1 DEF HAL_UART_TxCpltCallback, rxVars, handVars
<1>11. CASE CallBack
  BY <1>11 DEF CallBack, txVars, rxVars, Goto
<1>12. CASE MB_USART_ReInit
  <2> DEFINE p == [pc EXCEPT !["hand"] = "clear"]
  <2>1. p \in [Actors -> Places] /\ p["up"] = pc["up"]
    BY DEF Places, Actors
  <2>2. Sem_Release(p) \/ pc' = p
    BY <1>12 DEF MB_USART_ReInit
  <2>3. pc'["up"] \in {"idle", "head", "tail", "check", "on", "take", "dma"}
    <3> HIDE DEF p
    <3> QED BY <2>1, <2>2, ReleaseUp
  <2> QED BY <1>12, <2>3 DEF MB_USART_ReInit, rxVars, handVars
<1>13. CASE MB_System_Reset
  BY <1>13 DEF MB_System_Reset, PowerOn, Actors
<1>14. CASE Clear_RX_Updata_Flag
  BY <1>14 DEF Clear_RX_Updata_Flag, txVars, Goto, Actors
<1>15. CASE UNCHANGED vars
  BY <1>15 DEF vars, txVars, rxVars, handVars
<1> QED
  BY <1>1, <1>2, <1>3, <1>4, <1>5, <1>6, <1>7, <1>8, <1>9, <1>10, <1>11, <1>12, <1>13, <1>14,
     <1>15 DEF Next, Hand, Up, Hardware, Sends, Actors

LEMMA DataInv == Spec => [](IInv /\ Data /\ Handling)
<1>1. IInv /\ Data /\ Handling /\ [Next]_vars => Data' /\ Handling'
  BY StepData, StepHandling DEF IInv
<1> QED BY <1>1, InitData, InitInv, StepInv, PTL DEF Spec

(* Every variable keeps its range; the queue of the semaphore never holds  *)
(* more than the two threads.                                              *)
THEOREM TxTypes == Spec => []TypeOK
<1>1. IInv /\ Data /\ Handling => TypeOK
  <2> SUFFICES ASSUME IInv, Data, Handling PROVE TypeOK
    OBVIOUS
  <2>1. Len(waiters) <= 2
    <3>1. \A i \in 1 .. Len(waiters) : waiters[i] = "hand" \/ waiters[i] = "up"
      BY DEF IInv, Queue, Actors
    <3>2. SUFFICES ASSUME Len(waiters) > 2 PROVE FALSE
      BY DEF IInv, Queue
    <3>3. 1 \in 1 .. Len(waiters) /\ 2 \in 1 .. Len(waiters) /\ 3 \in 1 .. Len(waiters)
      BY <3>2 DEF IInv, Queue
    <3> QED BY <3>1, <3>3 DEF IInv, Queue
  <2> QED BY <2>1 DEF IInv, Types, Data, Handling, TypeOK
<1> QED BY <1>1, DataInv, PTL

------------------------------------------------------------------------------
(* Bare metal, a frame is whole from its tail on, and every CRC is that of *)
(* a whole frame, also the one the DMA read.                               *)

Built ==
  ~RTT =>
    /\ \A a \in Actors : pc[a] = "tail" => Send_Buf.head = Frame(a)
    /\ \A a \in Actors : pc[a] \in {"check", "on", "take", "dma", "callback"}
                           => Send_Buf.head = Send_Buf.tail
    /\ Send_Buf.crc[1] = Send_Buf.crc[2]
    /\ Len(dma.sent) = 3 => dma.sent[3][1] = dma.sent[3][2]

LEMMA BuiltSent ==
  ASSUME IInv, Data, Built, [Next]_vars, ~RTT
  PROVE  Len(dma'.sent) = 3 => dma'.sent[3][1] = dma'.sent[3][2]
<1>1. CASE DmaRead /\ dma'.sent = Append(dma.sent, Piece(Len(dma.sent) + 1))
  <2>1. SUFFICES ASSUME Len(dma'.sent) = 3 PROVE dma'.sent[3][1] = dma'.sent[3][2]
    OBVIOUS
  <2>2. dma.sent \in Seq(Pieces)
    BY DEF Data
  <2>3. Len(dma.sent) = 2 /\ dma'.sent[3] = Piece(3)
    <3>1. Piece(Len(dma.sent) + 1) \in Pieces
      BY DEF Piece, Pieces, Data
    <3>2. dma'.sent[Len(dma.sent) + 1] = Piece(Len(dma.sent) + 1)
      BY <1>1, <2>2, <3>1, AppendProperties
    <3>3. Len(dma'.sent) = Len(dma.sent) + 1
      BY <1>1, <2>2, <3>1, AppendProperties
    <3>4. Len(dma.sent) + 1 = 3 /\ Len(dma.sent) = 2
      <4>1. Len(dma.sent) \in Nat /\ \A k \in Nat : k + 1 = 3 => k = 2
        BY <2>2
      <4>2. Len(dma.sent) + 1 = 3
        BY <2>1, <3>3, Zenon
      <4> QED BY <4>1, <4>2, Zenon
    <3> QED BY <3>2, <3>4, Zenon
  <2> QED BY <2>3 DEF Piece, Built
<1>2. CASE dma'.sent = << >>
  BY <1>2
<1> QED BY <1>1, <1>2, SentStep DEF IInv, Built

LEMMA StepBuilt == ASSUME IInv, Data, Built, [Next]_vars PROVE Built'
<1>0. RTT' = RTT
  BY DEF Next, vars, txVars, HostSends, Hand, Up, Hardware, Sends, ModbusHandle, CallBack,
     MB_USART_ReInit, MB_System_Reset, Clear_RX_Updata_Flag, SensorEvent, FillHead, FillTail,
     MDB_Snd_Msg_RTU, TX_ON, WaitForTx, Transmit_DMA, HAL_UART_RxTimoCallback, DmaRead,
     HAL_UART_TxCpltCallback
<1> SUFFICES ASSUME ~RTT PROVE Built'
  BY <1>0 DEF Built
<1> USE DEF IInv, Types
<1>1. Len(dma'.sent) = 3 => dma'.sent[3][1] = dma'.sent[3][2]
  BY BuiltSent
<1>2. ASSUME NEW a \in Actors, FillHead(a) PROVE Built'
  <2>1. /\ pc' = [pc EXCEPT ![a] = "tail"] /\ n' = n
        /\ Send_Buf' = [Send_Buf EXCEPT !.head = Frame(a)]
        /\ \A b \in Actors \ {a} : pc[b] = "idle"
    BY <1>2 DEF FillHead, Goto, At, MayRun
  <2>2. Send_Buf'.head = Frame(a) /\ Send_Buf'.crc = Send_Buf.crc
    BY <2>1 DEF Data
  <2>3. \A b \in Actors : pc'[b] = IF b = a THEN "tail" ELSE "idle"
    BY <2>1
  <2> QED BY <1>1, <2>1, <2>2, <2>3 DEF Built, Frame
<1>3. ASSUME NEW a \in Actors, FillTail(a) PROVE Built'
  <2>1. /\ pc[a] = "tail" /\ pc' = [pc EXCEPT ![a] = "check"] /\ n' = n
        /\ Send_Buf' = [Send_Buf EXCEPT !.tail = Frame(a)]
        /\ \A b \in Actors \ {a} : pc[b] = "idle"
    BY <1>3 DEF FillTail, TailOf, Goto, At, MayRun
  <2>2. /\ Send_Buf'.tail = Frame(a) /\ Send_Buf'.head = Send_Buf.head
        /\ Send_Buf'.crc = Send_Buf.crc /\ Send_Buf.head = Frame(a)
    BY <2>1 DEF Data, Built
  <2>3. \A b \in Actors : pc'[b] = IF b = a THEN "check" ELSE "idle"
    BY <2>1
  <2> QED BY <1>1, <2>2, <2>3 DEF Built
<1>4. ASSUME NEW a \in Actors, MDB_Snd_Msg_RTU(a) PROVE Built'
  <2>1. /\ pc[a] = "check" /\ n' = n /\ \A b \in Actors \ {a} : pc[b] = "idle" /\ pc'[b] = "idle"
        /\ pc'[a] # "tail"
    BY <1>4 DEF MDB_Snd_Msg_RTU, Goto, At, MayRun, Return
  <2>2. Send_Buf.head = Send_Buf.tail
    BY <2>1 DEF Built
  <2>3. /\ Send_Buf'.head = Send_Buf.head /\ Send_Buf'.tail = Send_Buf.tail
        /\ Send_Buf'.crc = Send_Buf.crc \/ Send_Buf'.crc = <<Send_Buf.head, Send_Buf.tail>>
    BY <1>4 DEF MDB_Snd_Msg_RTU, Data
  <2>4. Send_Buf'.crc[1] = Send_Buf'.crc[2]
    BY <2>2, <2>3 DEF Built
  <2>5. \A b \in Actors : pc'[b] # "tail"
    BY <2>1
  <2> QED BY <1>1, <2>2, <2>3, <2>4, <2>5 DEF Built
<1>5. ASSUME NEW a \in Actors, Send_Buf' = Send_Buf, n' = n, NEW q \in Places,
             q \in {"on", "take", "dma", "callback"}
               => pc[a] \in {"check", "on", "take", "dma", "callback"},
             q = "check" => pc[a] = "callback",
             q # "tail", pc' = [pc EXCEPT ![a] = q]
      PROVE  Built'
  <2>1. \A b \in Actors : pc'[b] = "tail" => pc[b] = "tail"
    BY <1>5
  <2>2. \A b \in Actors : pc'[b] \in {"check", "on", "take", "dma", "callback"}
                            => pc[b] \in {"check", "on", "take", "dma", "callback"}
    BY <1>5
  <2> QED BY <1>1, <1>5, <2>1, <2>2 DEF Built, Frame
<1>6. ASSUME NEW a \in Actors, TX_ON(a) PROVE Built'
  BY <1>5, <1>6 DEF TX_ON, At, Goto, Places
<1>7. ASSUME NEW a \in Actors, WaitForTx(a) PROVE Built'
  <2>1. /\ pc[a] \in Waits /\ pc' = [pc EXCEPT ![a] = After(pc[a])]
        /\ Send_Buf' = Send_Buf /\ n' = n
    BY <1>7 DEF WaitForTx, Sem_Take, Cplt_Wait, Goto
  <2>2. /\ After(pc[a]) \in Places \ {"tail", "check"}
        /\ After(pc[a]) \in {"on", "take", "dma", "callback"} => pc[a] = "take"
    BY <2>1 DEF Waits, After, Places
  <2> QED BY <1>5, <2>1, <2>2
<1>8. ASSUME NEW a \in Actors, Transmit_DMA(a) PROVE Built'
  BY <1>5, <1>8 DEF Transmit_DMA, At, Goto, Return, Places
<1>9. CASE CallBack
  BY <1>5, <1>9 DEF CallBack, At, Goto, Places, Actors
<1>10. CASE MB_USART_ReInit \/ Clear_RX_Updata_Flag
  BY <1>5, <1>10 DEF MB_USART_ReInit, Clear_RX_Updata_Flag, At, Goto, Places, Actors
<1>11. ASSUME NEW a \in Actors, pc[a] = "idle", \A b \in Actors \ {a} : pc[b] = "idle",
              Send_Buf' = Send_Buf, NEW q \in {"head", "clear"}, pc' = [pc EXCEPT ![a] = q]
       PROVE  Built'
  <2>1. \A b \in Actors : pc'[b] \in {"idle", "head", "clear"}
    BY <1>11
  <2> QED BY <1>1, <1>11, <2>1 DEF Built
<1>12. CASE ModbusHandle
  BY <1>11, <1>12 DEF ModbusHandle, At, MayRun, Goto, Actors
<1>13. CASE SensorEvent
  BY <1>11, <1>13 DEF SensorEvent, At, MayRun, Goto, Actors
<1>14. CASE MB_System_Reset
  BY <1>1, <1>14 DEF MB_System_Reset, PowerOn, Built
<1>15. CASE HostSends \/ HAL_UART_RxTimoCallback \/ DmaRead \/ HAL_UART_TxCpltCallback
              \/ UNCHANGED vars
  <2>1. Send_Buf' = Send_Buf /\ n' = n /\ pc' = pc
    BY <1>15 DEF HostSends, HAL_UART_RxTimoCallback, DmaRead, HAL_UART_TxCpltCallback, vars
  <2> QED BY <1>1, <2>1 DEF Built, Frame
<1> QED
  BY <1>2, <1>3, <1>4, <1>6, <1>7, <1>8, <1>9, <1>10, <1>12, <1>13, <1>14, <1>15
  DEF Next, Hand, Up, Hardware, Sends, Actors

(* Bare metal, what leaves the device with a good CRC is one frame as one  *)
(* call built it, even if an upload overwrites an answer on its way out.   *)
THEOREM GoodFrames == Spec => []GoodCrcMeansBuilt
<1>1. Init => Built
  BY DEF Init, Built, Idle
<1>2. IInv /\ Data /\ Handling /\ Built => GoodCrcMeansBuilt
  BY DEF Handling, Data, Built, GoodCrcMeansBuilt
<1>3. IInv /\ Data /\ Handling /\ Built /\ [Next]_vars => Built'
  BY StepBuilt
<1> QED BY <1>1, <1>2, <1>3, DataInv, PTL DEF Spec

------------------------------------------------------------------------------
(* Who has the transmitter                                                 *)

HolderIs ==
  /\ \A a \in Actors : Holder = a <=> Holds(a)
  /\ Holder = "line" <=> dma.busy
  /\ Holder = "nobody" <=> ~dma.busy /\ \A a \in Actors : ~Holds(a)

LEMMA HolderOf == IInv => HolderIs
<1> SUFFICES ASSUME IInv PROVE HolderIs
  OBVIOUS
<1>1. /\ ~(Holds("hand") /\ Holds("up"))
      /\ dma.busy => ~Holds("hand") /\ ~Holds("up")
  BY DEF IInv, Types, Account, Turns, Holds, Actors
<1> QED BY <1>1 DEF HolderIs, Holder, Actors

(* A step that leaves alone who holds the transmitter, the queue and       *)
(* whether a frame is on the line is a stutter.                            *)
LEMMA Same ==
  ASSUME UNCHANGED <<RTT, waiters, Freeze>>, dma'.busy = dma.busy,
         \A a \in Actors : Holds(a)' <=> Holds(a)
  PROVE  UNCHANGED T!tvars
  BY DEF T!tvars, Holder, Actors

LEMMA SameStep ==
  ASSUME Types,
         \/ HostSends \/ HAL_UART_RxTimoCallback \/ DmaRead \/ ModbusHandle \/ SensorEvent
         \/ Clear_RX_Updata_Flag \/ UNCHANGED vars
         \/ \E a \in Actors : FillHead(a) \/ MDB_Snd_Msg_RTU(a) \/ TX_ON(a)
  PROVE  UNCHANGED T!tvars
<1>1. UNCHANGED <<RTT, waiters, Freeze>> /\ dma'.busy = dma.busy
  BY DEF HostSends, HAL_UART_RxTimoCallback, DmaRead, ModbusHandle, SensorEvent,
         Clear_RX_Updata_Flag, vars, txVars, FillHead, MDB_Snd_Msg_RTU, TX_ON, Types
<1>2. CASE UNCHANGED pc
  BY <1>1, <1>2, Same DEF Holds
<1>3. CASE \E a \in Actors : /\ pc[a] \notin {"dma", "reinit", "reset"}
                            /\ \E q \in Places \ {"dma", "reinit", "reset"} : pc' = [pc EXCEPT ![a] = q]
  <2>1. \A a \in Actors : Holds(a)' <=> Holds(a)
    BY <1>3 DEF Types, Holds
  <2> QED BY <1>1, <2>1, Same
<1>4. \/ UNCHANGED pc
      \/ \E a \in Actors : /\ pc[a] \notin {"dma", "reinit", "reset"}
                          /\ \E q \in Places \ {"dma", "reinit", "reset"} : pc' = [pc EXCEPT ![a] = q]
  BY DEF HostSends, HAL_UART_RxTimoCallback, DmaRead, ModbusHandle, SensorEvent,
         Clear_RX_Updata_Flag, vars, FillHead, MDB_Snd_Msg_RTU, TX_ON, At, Goto, Return,
         Places, Actors
<1> QED BY <1>2, <1>3, <1>4

(* Filling the tail may thaw the device, the callback may freeze it.       *)
LEMMA SpeakStep ==
  ASSUME Types, NEW a \in Actors, FillTail(a)
  PROVE  T!Speak \/ UNCHANGED T!tvars
<1>1. /\ UNCHANGED <<RTT, waiters, dma>> /\ (Freeze' = Freeze \/ Freeze' = FALSE)
      /\ \A b \in Actors : Holds(b)' <=> Holds(b)
  BY DEF FillTail, txVars, Types, Holds, At, Goto
<1>2. Holder' = Holder
  BY <1>1 DEF Holder, Actors
<1> QED BY <1>1, <1>2 DEF T!Speak, T!tvars

LEMMA SilenceStep ==
  ASSUME IInv, CallBack
  PROVE  T!Silence \/ UNCHANGED T!tvars
<1>1. /\ UNCHANGED <<RTT, waiters, dma>> /\ pc["hand"] = "callback"
      /\ Freeze' = (Freeze \/ ModBus_CallBack = "freeze")
      /\ \E q \in Places \ {"dma", "reinit", "reset"} : pc' = [pc EXCEPT !["hand"] = q]
  BY DEF CallBack, txVars, At, Goto, Places
<1>2. \A b \in Actors : Holds(b)' <=> Holds(b)
  BY <1>1 DEF IInv, Types, Holds
<1>3. Holder' = Holder
  BY <1>1, <1>2 DEF Holder, Actors
<1>4. ~RTT => \A b \in Actors : ~Holds(b)
  BY DEF CallBack, At, MayRun, Actors, Holds
<1>5. ~RTT => Holder \notin Actors
  BY <1>4 DEF Holder, Actors
<1>6. CASE RTT \/ ModBus_CallBack # "freeze"
  BY <1>1, <1>3, <1>6 DEF T!tvars
<1>7. CASE ~RTT /\ ModBus_CallBack = "freeze"
  BY <1>1, <1>3, <1>5, <1>7 DEF T!Silence
<1> QED BY <1>6, <1>7

LEMMA WaitStep ==
  ASSUME IInv, IInv', NEW a \in Actors, WaitForTx(a)
  PROVE  T!Take(a) \/ T!Wait(a)
<1>1. /\ MayRun(a) /\ pc[a] \in Waits /\ MustWait(pc[a]) /\ UNCHANGED <<RTT, dma, Freeze>>
      /\ HolderIs /\ HolderIs'
  <2>1. HolderIs'
    BY HolderOf, PTL
  <2> QED BY <2>1, HolderOf DEF WaitForTx, MustWait
<1>2. After(pc[a]) \in {"dma", "reinit", "reset"}
  BY <1>1 DEF Waits, After
<1>3. ASSUME pc' = [pc EXCEPT ![a] = After(pc[a])], UNCHANGED waiters,
             ~dma.busy, \A b \in Actors : ~Holds(b)
      PROVE  T!Take(a)
  <2>1. Holder = "nobody"
    BY <1>1, <1>3 DEF HolderIs
  <2>2. Holds(a)'
    BY <1>2, <1>3 DEF IInv, Types, Holds
  <2>3. Holder' = a
    BY <1>1, <2>2 DEF HolderIs
  <2> QED BY <1>1, <1>3, <2>1, <2>3 DEF T!Take
<1>4. CASE Cplt_Wait(a)
  <2>1. /\ ~RTT /\ TX_Cplt_Flag
        /\ pc' = [pc EXCEPT ![a] = After(pc[a])] /\ UNCHANGED waiters
    BY <1>1, <1>4 DEF Cplt_Wait, Goto
  <2>2. ~Holds(a) /\ \A b \in Actors \ {a} : ~Holds(b)
    BY <1>1, <2>1 DEF MayRun, Waits, Holds
  <2>3. ~dma.busy
    BY <2>1 DEF IInv, Turns
  <2> QED BY <1>3, <2>1, <2>2, <2>3
<1>5. CASE Sem_Take(a) /\ TX_Lock > 0
  <2>1. /\ RTT /\ TX_Lock = 1
        /\ pc' = [pc EXCEPT ![a] = After(pc[a])] /\ UNCHANGED waiters
    BY <1>1, <1>5 DEF Sem_Take, Goto, IInv, Types
  <2> QED BY <1>3, <2>1 DEF IInv, Account
<1>6. CASE Sem_Take(a) /\ TX_Lock = 0
  <2>1. RTT /\ waiters' = Append(waiters, a) /\ UNCHANGED pc
    BY <1>1, <1>6 DEF Sem_Take, Queued
  <2>2. Holder # "nobody"
    BY <1>1, <1>6, <2>1 DEF IInv, Account, HolderIs
  <2>3. Holder' = Holder
    BY <1>1, <2>1 DEF Holder, Holds
  <2> QED BY <1>1, <2>1, <2>2, <2>3 DEF T!Wait
<1> QED BY <1>4, <1>5, <1>6 DEF WaitForTx, IInv, Types

LEMMA BeginStep ==
  ASSUME IInv, Thawed, NEW a \in Actors, Transmit_DMA(a)
  PROVE  T!Begin(a)
<1>1. pc[a] = "dma" /\ Holds(a) /\ UNCHANGED <<RTT, waiters, Freeze>>
  BY DEF Transmit_DMA, At, Holds
<1>2. Holder = a
  BY <1>1, HolderOf DEF HolderIs
<1>3. ~dma.busy
  BY <1>1 DEF IInv, Types, Account, Turns
<1>4. dma'.busy
  BY <1>3 DEF Transmit_DMA
<1>5. IInv'
  BY DmaStart
<1>6. HolderIs'
  BY <1>5, HolderOf, PTL
<1>7. Holder' = "line"
  BY <1>4, <1>6 DEF HolderIs
<1>8. ~(Freeze /\ ~RTT)
  BY <1>1 DEF Thawed
<1> QED BY <1>1, <1>2, <1>7, <1>8 DEF T!Begin

(* Giving the semaphore back hands the transmitter on.                     *)
LEMMA PassStep ==
  ASSUME IInv, IInv', RTT, NEW p, Sem_Release(p), UNCHANGED <<RTT, Freeze>>,
         p \in [Actors -> Places], \A a \in Actors : p[a] \notin {"dma", "reinit", "reset"},
         \A i \in 1 .. Len(waiters) : p[waiters[i]] = pc[waiters[i]],
         ~dma'.busy
  PROVE  T!PassOn
<1>1. HolderIs'
  BY HolderOf, PTL
<1>2. CASE waiters = << >>
  <2>1. pc' = p /\ UNCHANGED waiters
    BY <1>2 DEF Sem_Release
  <2>2. Holder' = "nobody"
    BY <1>1, <2>1 DEF HolderIs, Holds
  <2> QED BY <1>2, <2>1, <2>2 DEF T!PassOn
<1>3. CASE waiters # << >>
  <2>1. PICK w \in Actors : /\ w = waiters[1] /\ w = Head(waiters) /\ 1 \in 1 .. Len(waiters)
                            /\ waiters' = Tail(waiters) /\ pc' = [p EXCEPT ![w] = After(p[w])]
    BY <1>3 DEF IInv, Queue, Sem_Release
  <2>2. p[w] \in Waits
    BY <2>1 DEF IInv, Queue
  <2>3. After(p[w]) \in {"dma", "reinit", "reset"}
    BY <2>2 DEF Waits, After
  <2>4. Holds(w)'
    BY <2>1, <2>3 DEF Holds
  <2>5. Holder' = w
    BY <1>1, <2>1, <2>4 DEF HolderIs
  <2> QED BY <1>3, <2>1, <2>5 DEF T!PassOn
<1> QED BY <1>2, <1>3

LEMMA EndStep ==
  ASSUME IInv, IInv', HAL_UART_TxCpltCallback
  PROVE  T!End
<1>1. /\ dma.busy /\ ~dma'.busy /\ UNCHANGED <<RTT, Freeze>>
  BY DEF HAL_UART_TxCpltCallback, Idle
<1>2. Holder = "line" /\ \A a \in Actors : ~Holds(a)
  BY <1>1, HolderOf DEF HolderIs, IInv, Types, Account, Turns, Actors
<1>3. CASE RTT
  <2>1. Sem_Release(pc)
    BY <1>3 DEF HAL_UART_TxCpltCallback, SignalsEnd
  <2>2. T!PassOn
    BY <1>1, <1>2, <1>3, <2>1, PassStep DEF IInv, Types, Holds
  <2> QED BY <1>1, <1>2, <2>2 DEF T!End
<1>4. CASE ~RTT
  <2>1. UNCHANGED <<waiters, pc>> /\ waiters = << >>
    BY <1>4 DEF HAL_UART_TxCpltCallback, IInv, Queue
  <2>2. Holder' = "nobody"
    BY <1>1, <1>2, <2>1 DEF Holder, Holds, Actors
  <2>3. T!PassOn
    BY <2>1, <2>2 DEF T!PassOn
  <2> QED BY <1>1, <1>2, <2>3 DEF T!End
<1> QED BY <1>3, <1>4

LEMMA GiveUpStep ==
  ASSUME IInv, IInv', MB_USART_ReInit
  PROVE  T!GiveUp("hand")
<1> DEFINE p == [pc EXCEPT !["hand"] = "clear"]
<1>1. /\ "hand" \in Actors /\ MayRun("hand") /\ Holds("hand") /\ UNCHANGED <<RTT, dma, Freeze>>
      /\ pc["hand"] = "reinit"
  BY DEF MB_USART_ReInit, At, Holds, Actors
<1>2. Holder = "hand" /\ ~dma.busy /\ ~Holds("up")
  BY <1>1, HolderOf DEF HolderIs, IInv, Account, Turns, MayRun, Actors, Holds
<1>3. /\ p \in [Actors -> Places]
      /\ \A a \in Actors : p[a] \notin {"dma", "reinit", "reset"}
      /\ \A i \in 1 .. Len(waiters) : p[waiters[i]] = pc[waiters[i]]
  BY <1>1, <1>2 DEF IInv, Types, Queue, Holds, Actors, Places, MayRun, Blocked
<1>4. CASE RTT
  <2>1. Sem_Release(p)
    BY <1>4 DEF MB_USART_ReInit
  <2> HIDE DEF p
  <2>2. T!PassOn
    BY <1>1, <1>2, <1>3, <1>4, <2>1, PassStep
  <2> QED BY <1>1, <1>2, <2>2 DEF T!GiveUp
<1>5. CASE ~RTT
  <2>1. pc' = p /\ UNCHANGED waiters /\ waiters = << >>
    BY <1>5 DEF MB_USART_ReInit, IInv, Queue
  <2>2. Holder' = "nobody"
    BY <1>1, <1>2, <1>3, <2>1 DEF Holder, Holds, Actors
  <2>3. T!PassOn
    BY <2>1, <2>2 DEF T!PassOn
  <2> QED BY <1>1, <1>2, <2>3 DEF T!GiveUp
<1> QED BY <1>4, <1>5

LEMMA ResetsStep ==
  ASSUME IInv, MB_System_Reset
  PROVE  T!Reset("hand")
<1>1. "hand" \in Actors /\ Holds("hand")
  BY DEF MB_System_Reset, At, Holds, Actors
<1>2. Holder = "hand"
  BY <1>1, HolderOf DEF HolderIs
<1>3. waiters' = << >> /\ ~Freeze' /\ Holder' = "nobody"
  BY DEF MB_System_Reset, PowerOn, Holder, Holds, Idle, Actors
<1> QED BY <1>2, <1>3 DEF T!Reset

------------------------------------------------------------------------------
(* In both builds and whatever the host asks, sending is that of an        *)
(* orderly transmitter: it has one owner, goes to who waited longest, is   *)
(* never lost, and bare metal a frozen device begins no frame.             *)
THEOREM Implements == Spec => Transmits
<1> USE DEF Actors
<1>1. Init => T!TInit
  BY DEF Init, T!TInit, Holder, Holds, Idle
<1>2. IInv /\ IInv' /\ Thawed /\ [Next]_vars => [T!TNext]_(T!tvars)
  <2> SUFFICES ASSUME IInv, IInv', Thawed, [Next]_vars
               PROVE  T!TNext \/ UNCHANGED T!tvars
    OBVIOUS
  <2> USE DEF T!TNext
  <2>1. CASE \/ HostSends \/ HAL_UART_RxTimoCallback \/ DmaRead \/ ModbusHandle \/ SensorEvent
             \/ Clear_RX_Updata_Flag \/ UNCHANGED vars
    BY <2>1, SameStep DEF IInv
  <2>2. ASSUME NEW a \in Actors, Sends(a) PROVE T!TNext \/ UNCHANGED T!tvars
    <3>1. CASE FillHead(a) \/ MDB_Snd_Msg_RTU(a) \/ TX_ON(a)
      BY <3>1, SameStep DEF IInv
    <3>2. CASE FillTail(a)
      BY <3>2, SpeakStep DEF IInv
    <3>3. CASE WaitForTx(a)
      BY <3>3, WaitStep
    <3>4. CASE Transmit_DMA(a)
      BY <3>4, BeginStep
    <3> QED BY <2>2, <3>1, <3>2, <3>3, <3>4 DEF Sends
  <2>3. CASE HAL_UART_TxCpltCallback
    BY <2>3, EndStep
  <2>4. CASE CallBack
    BY <2>4, SilenceStep
  <2>5. CASE MB_USART_ReInit
    BY <2>5, GiveUpStep
  <2>6. CASE MB_System_Reset
    BY <2>6, ResetsStep
  <2> QED BY <2>1, <2>2, <2>3, <2>4, <2>5, <2>6 DEF Next, Hand, Up, Hardware
<1>3. Init => Thawed
  BY DEF Init, Thawed
<1>4. IInv /\ Thawed /\ [Next]_vars => Thawed'
  BY ThawedStep DEF IInv
<1> QED BY <1>1, <1>2, <1>3, <1>4, Inductive, PTL DEF Spec, Transmits, T!TSpec

==============================================================================
