# Verification of the capacitive liquid-level sensor firmware

The firmware measures a liquid level with a capacitance-to-digital chip and an
ADC, drives an analogue output, and answers a host over RS-485 with Modbus RTU.
It runs on an STM32F072, bare metal (`src/BC_Cap_Sensor`) or under RT-Thread
(`src/BC_Cap_Sensor_RTT`, whose APP and BSP files are the same), behind a serial
bootloader (`src/STM32F072_BOOT`). These TLA+ modules model the parts where
interrupts, DMA, flash operations, power failures and two senders meet, and the
commands that change how a running device measures. TLC checks them on small
instances; TLAPS proves most of the safety properties for every instance.

The first half of this file is the inventory; then come the modules, runs,
bounds and fairness, the proofs, the findings, and the plan.

## 1. The system and its components

Paths are relative to `src/BC_Cap_Sensor` unless they say otherwise. The
sources are encoded in GB18030.

| Component | State | Operations | Hard part |
|---|---|---|---|
| Parameter store, `APP/Src/In_Flash_app.c` | three copies of the parameters, one flash page each, each with an "initialised" and a "written" mark | `InFlash_Write3T_MultiBytes`, `InFlash_SystemParam_Check`, `Check_Device_Param` | a reset between any two flash operations, also during a repair |
| Flash driver, `BSP/Src/In_Flash.c` | flash pages, `Flash_Buf` | erase, program, read-modify-write of a page | only whole pages erase; programming over data fails |
| UART reception, `APP/Src/usart_app.c` | DMA ring, `RX_Len`, `Used_RX_Len`, overrun and update flags | receiver-timeout and wrap interrupts, `GetReceData` | DMA, interrupts and loop are concurrent |
| Transmission, `APP/Src/ModBusRtu.c`, `usart_app.c` | `Send_Buf`, DMA, direction pin, `TX_Cplt_Flag` or `TX_Lock` | `Send_Data`, callbacks, automatic upload | two senders, one buffer, one line |
| Modbus commands, `APP/Src/ModBus_Conf.c` | parameters in RAM and flash, callback, freeze | functions 03 04 05 10 25 26 27 2A 2B 41, calibration | several slow flash writes in a command |
| RT-Thread build, `src/BC_Cap_Sensor_RTT/applications/main.c` | threads, semaphores, mailboxes | Modbus, upload, ADC and PCap threads | priorities, lost wake-ups |
| ADC sampling and DAC, `APP/Src/adc_app.c` | `ADC_Updata_Flag`, mailbox, DMA buffer | start conversion, completion interrupt | a flag cleared after the start |
| Capacitance, `APP/Src/Picocap_app.c` | filter queue and counters | filters, unit conversion, DAC value | arithmetic at its limits |
| PCap driver, `BSP/Src/Picocap.c` | registers of the chip | SPI reads and writes | - |
| Byte order, `APP/Src/TypeConvert.c` | - | conversions | - |
| Watchdog, `BSP/Src/iwdg_bsp.c` | counter | refresh | a flash write is a quarter of its second |
| Main loop, `Src/main.c` | - | polls the parts above | order of polling and clearing |
| Bootloader, `src/STM32F072_BOOT/Src/main.c`, `APP/Src/menu_uart.c`, `APP/Src/flash_if.c` | flag page, application area, packet counters and checksum | start-up decision, messages 1 to 4 | power failures, repeated messages |
| Bootloader line codec, `src/STM32F072_BOOT/APP/Src/modbus_ascii.c` | `RX_buf`, decoded in place | ASCII frames, LRC | disturbed frames, their error paths |
| Bootloader serial port | the same ring | the same, flag cleared first | the same |

How they interact:

* Line and DMA fill the ring with no help from the processor; the interrupts
  compute lengths and set the update flag; the loop (or, under RT-Thread, the
  Modbus thread, woken by `usart_sem`) copies the frame out and hands it to the
  command handler. A command may write parameters three times over, which
  stalls the processor, interrupts included, while the DMA goes on.
* The handler's answer and the automatic upload use the same `Send_Buf`, DMA
  channel and direction pin. The completion interrupt ends a transmission and
  switches the line driver back to receiving.
* A command may leave a callback (new baud rate, freeze, reset, second answer)
  that runs after its answer.
* Function 41 resets the device once its answer has left. The bootloader then
  waits two seconds for a host, or for ever if an upgrade has begun and not ended,
  and starts the application.

What makes each component correct:

* *store*: a reset at any point leaves a device that starts by itself on
  parameters that are old or new, not mixed and not erased;
* *reception*: a frame that does not collide with another is handled once and
  whole, wherever it lies in the ring; the bookkeeping recovers after collisions;
* *transmission*: one transmission at a time, through an enabled driver,
  answers before their consequences, no sender stuck, the line given back;
* *commands*: what is answered is what was stored; lengths stay in the buffers;
* *sampling*: sampling never stops; *filters*: outputs within range, no overflow;
* *line codec*: a frame arrives as it was sent or not at all;
* *bootloader*: only whole images are started; no power failure or lost message
  makes the device unusable.

`PROJECT.json` lists each hazard of this code at its line, with the
properties that cover it.

## 2. The modules

| Module | Models | Composes |
|---|---|---|
| `ParamStore` | store, flash driver, writes and resets of the commands, power | - |
| `MCParamStore` | two instances for TLC | `ParamStore` |
| `ParamStoreProofs`, `StoreRecoveryProofs` | theorems | `ParamStore` |
| `UartRx` | ring, interrupts, main loop or thread; application and bootloader | - |
| `UartRxProofs` | theorems | `UartRx` |
| `Transmitter` | what sending promises, without flags or builds (abstract) | - |
| `ModbusTx` | handler, callbacks, upload, DMA, driver; bare metal and RT-Thread | implements `Transmitter` |
| `MCModbusTx` | request sets for TLC | `ModbusTx` |
| `ModbusTxProofs` | theorems | `ModbusTx` |
| `Bootloader` | device, flags, application area, host, power | - |
| `BootloaderProofs` | theorems | `Bootloader` |
| `AsciiCodec` | operators of the line codec | - |
| `AsciiLine` | a host's frames on a disturbed line, `RecvData`, checks and reply of the handler | `AsciiCodec` |
| `MCAsciiLine` | instances for TLC | `AsciiLine` |
| `SequenceFolds` | lemmas on folds and sums over sequences | - |
| `AsciiLineProofs` | theorems | `AsciiLine`, `SequenceFolds` |
| `LevelSensor` | measuring chain: filters, compensation, conversion, output | - |
| `Device` | the Modbus commands at work on that chain, restarts | `LevelSensor` |
| `AdcSampling` | ADC, completion interrupt, reader | - |
| `MCDevice` | instances for TLC | `Device`, `AdcSampling` |
| `DeviceProofs` | theorems | `Device`, `AdcSampling`, `SequenceFolds` |

### ParamStore

`flash` is the three copies; an address is one word of the parameter area and a
page holds one copy. Erasing a page and programming a word are one action each
(`Erase_Page`, `Program_Word`); everything between two of them that only touches
RAM is part of the action that follows. `drv` is the operation the driver is in,
`Flash_Buf` its page image, `pc` which caller waits for it: the start
(`boot`, `basic`), the check (`check`), the factory write with its retry counter
(`default`), the running program (`run`), a parameter command (`write`) or the
version strings (`info`). `WriteParam` picks one of `Fields` and new data, as
functions 05, 10, 26, 27 and the calibrations do through
`InFlash_Write3T_MultiBytes`; `WriteInfo` is function 2A, which rewrites the rest
of the running copy's page and so rebuilds the parameters beside it. `Crash`
happens between any two flash operations and loses RAM. Flash programming
follows the chip: a word that is not erased accepts only 0x0000 and otherwise
fails, and every caller but one ignores the failure. `FlashFault` makes an
operation fail that should not. `old`, `new`, `hit` and `agreed` only observe.

A command is one `Write3T` call. Functions 10 and 27 make several in a row;
each of them is a command here, so what holds is that each register's write is
atomic, not the whole function. Fields of several bytes are one `Fields` member.
The order of the `Bak` pages and the early exits are those of the code.

### UartRx

A cell of the ring holds which chunk and which place of it was written there;
`pos` is the DMA's position. `Byte` writes one and raises the wrap interrupt at
the end of the ring, `Pause` raises the receiver-timeout interrupt.
`HAL_UART_RxTimoCallback` is split where it reads the DMA counter, because the
wrap may happen there; `GetReceData` is split between its reads of
`Used_RX_Len` and `RX_Len`. 16-bit differences wrap (`U16`). `build` is
chosen at the start: the bootloader (`ClearFirst`) clears the flag before the frame
is handled, the application after it, and its RT-Thread build (`WithSem`) waits on
a semaphore.

The two orders trade one loss for the other, and the runs show both sides: the
application never handles a frame twice (`AtMostOnce`), but a frame that arrives
while another is handled goes unnoticed; the bootloader notices every pause
(`EveryPauseServed`), but may look at one frame twice, which its host, waiting
for each reply, does not provoke. Neither property holds for the other order.
A dropped frame is what a Modbus master's timeout is for, so it is not a finding.

### ModbusTx

A frame in `Send_Buf` is a head, a tail and the CRC over what the buffer held
when it was computed; `dma` reads the three pieces while the program runs on, so
an overwritten buffer shows. `hand` is the Modbus handler with its callbacks,
`up` the automatic upload. Bare metal the two alternate in the main loop and
wait for `TX_Cplt_Flag`; with `RTT` they are threads, `hand` preempting `up`,
with `TX_Lock` released by the interrupt straight to the longest waiter.
`pc` follows `Send_Data`: build head and tail, check freeze and broadcast, switch
the driver on, wait, start the DMA; then `callback`, `reinit` and `reset` with
their own waits. A drop after the CRC check is `Dropped`.

`Transmitter` is what this adds up to for a user of the line: one owner at a
time, handed over first come first served, no frame while silent. The mapping:
the holder is the actor past its wait, `"line"` while the DMA sends, otherwise
nobody; the queue is `waiters`; the device is silent when frozen, bare metal only
(section 5 says why).

### Bootloader

`page` holds the device address and the two flags, `app` the application area in
units of a packet, `wr` the read-modify-write of the flag page in progress. `pc`
is `main`'s place: the flag writes at start, the wait, the erasing and programming
of the area, the jump. The host is external: it sends message 1 (start, packet
count), 2 (erase), 3 (packets) and 4 (execute), repeats what is not answered,
starts again after a refusal, and may abandon an upgrade (`Resumes`) with another
image next. A corrupted ASCII frame is lost, as `AsciiLine` shows but for its
findings. `count` is the packet count this host puts into message 1.

Assumptions, each from the code: the image fits (`Packets <= AppSize`), for
`FLASH_If_Write` acknowledges what lies beyond the area without programming it;
message 1 carries the packet count, for with a count of zero the flags stay
marked, and a power failure during the transfer then starts an incomplete
application (the run has both kinds of host; `ExecMeansWhole` holds for both, the
properties with `count > 0` for one); an upgrade begins at message 1, and an
abandoned one is begun again there or asked for its start (`Resumes`), for message
2 does not reset the counters of the upgrade before, and message 4 right after it
would be granted on their strength; the host tries address 255 too, for the flag
page may be erased; the pages of the area are not write-protected (`menu_uart.c`
161-167). No call in the sources protects them: the only one to
`FLASH_If_WriteProtectionConfig` takes protection away. In a device protected by
other means message 2 would program the option bytes and call
`HAL_FLASH_OB_Launch`, which resets it before the erase.

### AsciiCodec and AsciiLine

Characters are ASCII codes, since what the properties are about is the encoding.
The host's `Frame` and checksum are written from the format, independently of the
device's operators, and are what both directions are compared with. `line` holds
the characters that were not looked at; an LF makes a chunk of them (`Chunks`), which
`Recv` copies over the front of `buf` and decodes in place, one action per result of
`RecvData`. `Ignore`, `Refuse` and `Execute` are `HandleFrameInformation` from there
on. What a message does is `Bootloader`'s; here it gets either answer, and message 3
may leave its data, decoded, at the front of the buffer. `Disturbed` changes, loses or
adds one character of a frame, so a false LF splits it and a lost one joins it to the
next. `sent` and `spoilt` only observe.

`rcvlen` is not initialised and two of the errors do not assign it, so it may fit or not
(`Unassigned`). Reading 65535 bytes from a buffer at the start of 16 KB of RAM ends in
HardFault (`Recv_Empty`). The handler is through with a chunk before the next LF; what
else may happen then is `UartRx`. Two disturbances within one frame can cancel out in
a sum of eight bits and are left out. A frame of any message fits the buffer, whose
size is below 2^16 as a length is a `uint16_t` (`AsciiLineAssumption`).

### LevelSensor and Device

`ram` is the parameters in use, `flash` their bytes, each with the form it was
written in: commands write some as integers and the capacitance limits as the
host's float, and start-up reads all as integers (`Load`). `range` is the filter's own copy
of the limits. `Measure` is the capacitance branch of the main loop with every
call it makes: a sample is clipped and collected, every `DataBufMax` of them are
averaged without their extremes, the average passes both windows, is compensated,
converted and put out. Unsigned differences wrap at `Word` and `HalfWord`, and a
division by a difference that wrapped to zero saturates.

`Device` adds functions 03, 04, 05, 10, 25, 26 and 27, one action each; a request
is register, value and what follows. A command is one step, as in the bare-metal
loop: `ParamStore` has its flash writes and `ModbusTx` its answer. `Capture` and
`SetEnabled` are the calibrations of AD, DA and temperature: points captured over
several commands, stored when the calibration is switched off. `Send_Buf` holds
the front of a frame, which a refused function 25 answers with unchanged. `Restart`
loads the parameters again. `session` and `answer` only observe.

Left out or assumed: a reply of more than 14 registers overruns the buffer before
its length is checked, so hosts ask for at most 14 (which is already too long to be
sent); the interval of the upload is below 256; the data of the second register of
a request come from behind the message, so they are any of `Stale`; the outputs,
uninitialised until the first conversion, start at either extreme. A host finds a
device with limits that are unsigned 32-bit words and points of the output that are
16-bit ones, as their variables are. If it calibrates by capture alone, the device
also has tables in order and does not compensate, as the factory table leaves it
(`SetupAssumption`; `In_Flash_app.c:22-60` has compensation off and the points
1 < 20900 < 47000 < 65535 and 130 < 580 < 930 < 1130): without this the output need
not rise, for function 27 may have stored any table before.

### AdcSampling

The interrupt stops the ADC and sets the flag; the loop, or the thread of lowest
priority, reads, starts the ADC again and then clears the flag. A round of
conversions outlasts those two statements unless a thread takes the processor
between them, which only RT-Thread allows (`threaded`).

## 3. Runs, bounds and fairness

| Run | Question |
|---|---|
| `param_store` | Up to three resets at any flash operations, also inside repairs: after one, is the running copy old or new as a whole; after all, does the written mark certify its copy and the device run on valid parameters? Does a settled store stay untouched by a start? |
| `param_faults` | Flash operations that fail, and a reset: does the start end? |
| `uart_rx` | For application, RT-Thread build and bootloader: chunks of every length at every place of the ring, back to back or apart: is a lone frame handled once, whole; is a wake-up or a pause lost? |
| `tx` | Answers, callbacks and uploads against one transmitter, from the loop and from threads: is it exclusive, do answers precede resets, does the driver return to receiving, does every sender return, does it all implement `Transmitter`? From the loop, does a mixed frame show by its CRC and is a frozen device silent? |
| `boot_upgrade` | Losses, repeats, aborted upgrades, power failures: is only a whole image granted and started, can the device hang, does it come back? |
| `ascii_line` | One disturbance of any frame, by characters at every edge of the codec's ranges: do undisturbed frames arrive, whatever came before, is a disturbed one ever taken for another message, are replies readable? |
| `device` | Commands, calibrations, measurements and restarts in any order: do filter and conversion agree, does a restart keep what was set, do tables come from one session and rise, is every answer in its request's name? Beside it the ADC: does sampling go on, are results read undisturbed? |
| `param_defaults`, `tx_driven`, `boot_marked`, `device_empty`, `ascii_returns` | The findings of section 5. |

Bounds, and why they are enough:

* `ProDefaultLen = 5`: two basic addresses (the initialised mark and the device
  address), two calibration addresses written together, one of which has the
  factory value 0xFF like `CAPADMAX`, and the written mark. Every branch treats an
  address alike but for these kinds. `Data` has a zero, which the flash accepts
  over anything, and a value it does not. Three addresses where operations
  fail; there no property looks at values.
* `MaxCrashes` counts resets before the device is up again and starts anew with
  the next command, so histories are unbounded. Three: a reset in the write, one
  in its repair and one in the repair of that. `MaxFaults = 4` exceeds the retry
  limit of three.
* `RECEIVE_SIZE = 4`, `MaxLen = 4`: chunks up to the ring's size at every offset,
  exact ends and wraps. Three chunks: one being handled, one pending, one
  arriving. Deadlock is not checked in these runs because the host stops there.
* `ModbusTx` has no bound on requests or uploads. The run has one frame name for
  each actor, so that it tells the frames of the two apart but not one upload from
  the next, and its requests leave out the broadcasts that are not answered;
  `GoodFrames`, `FrozenIsSilent` and the other theorems have neither limit.
  `tx_driven` has two names and every request.
* `Packets = 3`, `AppSize = 4`: a first, a middle and a last packet, and an area
  larger than the image. Two images show mixtures. `MaxMishaps = 4` losses,
  repeats, aborts or power failures in an upgrade's course.
* `Device`: capacitances and outputs have five values, so that four ascending
  points and a value outside them exist; an average has two samples, of which one is
  dropped, and the filter levels have windows of 1 and 1, 2 and 1, 3 and 2 cells: no
  third to drop, a third to drop, and two windows of unequal length. Each host has
  the commands that act on one part of the device (capacitance range, limits, AD, DA,
  temperature, filter, conversation), so that state spaces add up. Those that
  calibrate AD or DA come twice: a level that only rises takes four values and a
  complete ascending table is captured, a level free to fall takes three, for
  captures out of order. The direct writes of function 27 to the tables are those to
  `CapDAHigh` and `CapADLow`; the others go the same way. The ADC shares no state
  with the commands and runs beside a host that sends nothing. Both loop for ever.

* `AsciiLine`: three messages, among them one for another device and one whose data
  reads like an address when it is cut; `BufSize` has room for a frame joined to the
  next. The state between frames is what the buffer and the line hold, so two frames
  in a row show every pair. Frames come in any number, and one of them is disturbed
  (`MaxDamage`).

Fairness is weak but where noted:

* `ParamStore`: the processor takes its next step. Commands and resets are not
  fair; both are bounded while the device is not up.
* `UartRx`: the pause after the last byte comes, a pending interrupt is served,
  the loop runs.
* `ModbusTx`: the DMA and the timeout go on. Strong fairness of `Hand`, whose
  flag the loop looks at in every pass (or which has the highest priority), and of
  an upload begun, which goes on in the loop or whenever the handler sleeps:
  either may be disabled by the other again and again and is not forgotten.
* `Bootloader`: the device runs, the host repeats an unanswered message and reads
  the reply, and the operator starts an upgrade of a device that waits for ever.

## 4. What is proved

`tlapm` checks the proofs for every value of the constants that satisfies
its module's named assumption (`ParamStoreAssumption`, `UartRxAssumption`,
`ModbusTxAssumption`, `BootloaderAssumption`, `LevelSensorAssumption`,
`DeviceAssumption` and `SetupAssumption`, `AsciiLineAssumption`); no bound of section 3
is used. A theorem that needs more of its
constants says so in its statement.

`ParamStoreProofs`, for any `MaxCrashes` and `MaxFaults`:

* `TypeCorrect`: `Spec => []TypeOK` for the store. The strengthening keeps the
  check's counter on an address while a repair is in hand.
* `FlagCertified` (`FlagCertifiesCopy`) and `RunsOnValidParams`
  (`RunParamsValid`), as long as no flash operation fails that should not. The
  inductive invariant `IInv` is needed because neither property says anything of
  a copy under construction. `Certified` extends the certificate to the image
  the copy in hand will have; `Driver` says the page in hand holds the words
  programmed so far and is erased beyond, the mark being the last word; `Request`
  says no command writes the mark, or an erased value to a checked address;
  `CheckLoop` says that where the check loop has been, two marked copies leave no
  erased byte in the third, so the mark it may write at the very end is earned;
  `Marks` says which copies bear the mark while the others are rewritten. The
  delicate case is the repair of a byte that should be 0xFF (`Patching`): the
  driver does not erase the page then and programs over data, which fails, so
  the page keeps what it had.

`StoreRecoveryProofs`, for the same constants, as long as no flash operation fails:

* `RecoversWhole` (`RecoveredWhole`) and `CleanBoot` (`CleanBootReadOnly`). Both need
  the content of all three copies along the way from a command to the device being up
  again, which `Story` gives, in terms of the image each copy will have when the page
  in hand is done (`Img`), because a repair changes that image in one step and the
  erasing and programming after it do not. `Settling` says what the check leaves
  alone: an address is settled when the copies agree there or two of them are
  erased. `Commanding` gives each copy in a command, `Undisturbed` a start without a reset
  before it: either `Sound`, all settled and marked, so that the check finds nothing to do;
  or `Empty`, a new device, whose copies hold parts of the factory table and no mark.
  `Disturbed` follows the one reset: `Forward`, the running copy has the new image
  and at most backup 1 is incomplete, or `Backward`, both backups have the old one. No
  repair leaves either, since it writes only what two copies agree on
  (`ForwardStays`, `BackedStays`), and two equal marked copies keep the check from
  the factory table (`Outvoted`).

`UartRxProofs`, for every ring size, chunk length and number of chunks:

* `InSync` (`IdleInSync`): at rest the receiver agrees with the DMA, whatever
  collided before. `SyncInv` relates the wrap flag, the pending interrupts and the
  positions.
* `ReceiverTypes` (`TypeOK`), `NeverSleeps` (`NoSleepOnNotice`): the semaphore is
  bounded because every release has a chunk of its own behind it (`Sems`), and a
  flag that is up while the thread is at its wait has a release to wake it
  (`Awake`).
* `HandledOnce` (`AtMostOnce`): cells hold ever newer chunks along the ring and
  what was handled is older than what may still be read (`OInv`).
* `LoneIntact` (`LoneChunkIntact`): a lone chunk passes four phases. It arrives in
  the cells from `Used_RX_Len` to the DMA's position (`Arrives`), the interrupts
  have measured exactly these cells (`Measured`), they are copied out (`Copied`),
  the frame is handled (`Done`). The wrapped case is where the difference of
  positions needs 16 bits and the ring fewer than 2^15 cells.

`ModbusTxProofs`, for every set of requests and both builds unless noted:

* `TxTypes` (`TypeOK`).
* `Exclusive` (`TxExclusive`) and `AnswersLeave` (`AnswerFirst`), for both builds and
  every set of requests. Neither is inductive: that the DMA is free when an actor
  is past its wait rests on who may be past it. Under RT-Thread `Account` says the
  semaphore is free, or the DMA or exactly one thread has it, and `Queue` that the
  suspended threads are queued once, where they wait, and only while it is taken;
  the lemma `Released` covers the hand-over from both places that release. Bare
  metal `Turns` says the flag is down from the wait to the completion interrupt,
  and one call runs at a time.
* `FrozenIsSilent` (`FrozenSilent`), bare metal: while the device is frozen nobody
  is past the check for it, since the callback that freezes runs when no upload
  is under way. Under RT-Thread it is not so (section 5).
* `GoodFrames` (`GoodCrcMeansBuilt`), bare metal: what the DMA
  has read so far are pieces of the buffer as it was, the tail and the CRC of a frame
  with a right CRC belong to the same frame, and the CRC covers what its sender built.
* `Implements` (`Transmits`): every step of `ModbusTx` is one of `Transmitter` or
  changes nothing there. The lemmas on `HolderOf` compute the holder after each kind of
  step from `Account` or `Turns`; the hand-over by the semaphore is `PassOn`.

`BootloaderProofs`, for every image size, number of mishaps and host that takes up
an abandoned upgrade at message 1 or asks for its execution (`Resumes \subseteq
{"start", "execute"}`; for hosts that begin at message 2 or 3 `ExecMeansWhole` is
false, section 2):

* `BootTypes` (`TypeOK`), `GrantedIsWhole` (`ExecMeansWhole`), `StartedIsWhole`
  (`BootsOnlyWhole`), `NoHang` (`NeverHangs`). None is inductive: a granted image is
  whole because of all packets before. `Transfer` says the packets acknowledged are
  those of one image, in place and counted once in the checksum. `Talk` bounds how far
  the two messages on the line may lag behind the device: no message 2 reaches a
  transfer that has begun, and a header finds the area erased. `Service` says
  the upgrade flag certifies the application and is gone from flash before the
  first page of the area is erased, which is what a power failure in between needs.

`SequenceFolds` has what the next two need of `FoldLeft`, a recursive function over
the places of a sequence. Induction over the numbers is carried out on a set, those up
to which something holds (`SetInduction`, `Counting`): it has a least number it lacks,
or lacks none. From that: a fold exists and is unique step by step (`FoldExists`,
`FoldKeeps`), sums grow by what is appended (`SumOfAppend`), and differ when one
summand does (`SumOfChanged`).

`AsciiLineProofs`, for every set of messages, key, noise and number of disturbances:

* `HexRoundTrip`, a byte's two characters pass the check and decode to it, and
  `CharacterTells`, a character of another value always makes another byte.
* `AsciiLineTypeOK` (`TypeOK`), `FrameDelivered` (`Delivered`), `FrameNeverMisread`
  (`NeverMisread`), `ReplyIsReadable` (`ReplyReadable`). The inductive invariant `IInv`
  was first an invariant of two runs. Its heart is `LineGood`, over the line and not
  the buffer, because whether a chunk will be read as a message is settled when the
  frame is disturbed. It says that every part of the line between two line ends is
  refused by `RecvData` before the checksum or decodes to a message and its checksum
  but for one byte (`Fine`), and of a line with no end yet that a CR within spoils what
  follows, unless only the last LF is missing (`Open`). `ChangedGood`, `LostGood` and
  `InsertedGood` show that each disturbance of a frame leaves such parts, `ConcatGood`
  and `RestGood` that joining and taking off chunks keeps them. `LrcTells` then says the
  checksum finds the one byte. `Accepted` and `Refused` carry this through the buffer,
  in which a chunk is decoded over itself.

`DeviceProofs`, for every scale, filter table, host and start:

* `LimitsInStep` (`RangesAgree`), `ParametersReload` (`ReloadSame`), `OneSession`
  (`ADFromOneSession`), `Answered` (`AnswersRequest`). That every
  command stores what it sets, in a form that loads as the same value or as a named
  exception, is one lemma on how parameters change (`Changes`) and one per command
  that it changes them so. `SInv` says that while AD calibration is enabled its
  flags are this session's points, and otherwise too few for a table.
* `DeviceTyped` (`TypeOK`). The strengthening `TInv` has what the operators need:
  parameters other than B are natural numbers, points of the output below 2^16, points
  captured for it within the converter's scale, and windows as long as the level in
  use says, which is why a change of the level stops the filter. The sort without
  extremes is two nested folds of exchanges (`PassSteps`, `UpSteps`, `DownSteps`) that
  keep the cells' number and type; no average divides by zero. A table may be
  anything a host wrote: on a segment the divisor is positive (`InterpolatedTyped`).
* `AveragesOfMiddle` (`MiddleAverages`). A pass upward leaves the largest cell of its
  part last (`PassUp`), one downward the smallest first (`PassDown`), and both only
  rearrange that part (`Shuffled`). So after each tail pass the cells behind are
  at least those before (`TailSorted`), the head passes keep that and do the like in
  front (`HeadSorted`), and the middle is what a full sort would have there. Where in the
  chain this is used, and that nothing but a delivery empties the buffer of a running
  filter (`OnlyDeliverEmpties`), rests on `TInv`.
* `CapturedOutputRises` (`MonotoneOutput`), for devices calibrated by capture only.
  The range check of `Calibration` is what matters: a table is only replaced by one in
  order (`CalibrationOrders`), so `Captured` holds, which says so of the table in
  use and adds that limits are unsigned words stored as integers. Then no
  difference wraps between the limits (`ShareWithin`), the share of the scale does not
  fall (`ShareMonotone`), nor the output on a segment (`InterpolatedMonotone`) or
  from one to the next (`OnTableMonotone`). The lemmas on quotients rest on the
  definition of division alone.
* `SamplingGoesOn` (`NotStalled`) and `ReadsUndisturbed` (`ReadUndisturbed`) from
  `AInv`, which places the flag and the ADC at each step of the reader.

Every invariant and every action property of the passing runs is proved. The
properties of the runs of section 5 do not hold. Out of the prover's reach
and left to TLC: liveness (`ComesUp`, `LoneChunkAccepted`, `EveryPauseServed`,
`RecoversByUpgrade`, `HearsAgain`, `SendersReturn`) and ENABLED.

## 5. Findings

* `param_defaults`: `InFlash_SystemParam_Check` writes the factory table as soon as
  one copy lacks the written mark, or three bytes differ at one address, while
  the comment over that branch says "if all three copies are wrong". A reset at
  the wrong moment of a parameter change can cost the calibration although a
  right copy is left. `RecoveredWhole` states exactly what may be lost when.
* `tx_driven`: `Send_Data` enables the line driver before it waits for the
  transmission before, whose completion interrupt disables it. An upload due
  while an answer goes out is sent through a driver that receives.
* `boot_marked`: the bootloader rewrites both flags at every start by erasing
  their page; a power failure in between leaves a device in service waiting for
  the host for ever, though the comments say the flags are marked where there is
  an application. `RecoversByUpgrade` shows that an upgrade gets it back.
* `device_empty`: `Sensor_PCap_DataConvert` subtracts the zero point unsigned, so
  its branch for a rate below zero never runs and an average below the zero point is
  shown as a full tank. The filter clips to the range, but a calibration of the
  zero point leaves older averages in the windows; until they have passed, the
  device reports full.
* `ascii_returns`: `RecvData` takes the conversion's error value 0 for a length. One
  hexadecimal character lost or added on the line makes the checksum run over 65535
  bytes, past the end of RAM, and the bootloader hangs until its power is cycled,
  though the comments list an error for every such frame. `Bootloader`'s mishaps
  contain the power cycle.

What the models show to hold only in part: under RT-Thread the handler may
overwrite an upload half built before its CRC is computed, and the CRC then covers
the mixture; an upload already past its freeze check leaves after the freeze. So
`GoodCrcMeansBuilt` and `FrozenSilent` speak of the main loop only. Under
RT-Thread sampling stops for good when the reading thread loses the processor
between start and clearing for a whole round (`NotStalled` names the case). After
two of `RecvData`'s errors the bootloader's handler looks at raw characters and an
unassigned length; the rest of a split frame may then be refused in the name of no
message, so `ReplyReadable` is about decoded packets.

Behaviour the models contain and no document of the repository rules out, so that
the properties name it as an exception or are silent about it: function 27 stores
the limits as the host's float bytes, which start-up reads as an integer; function
10 uses an offset B that start-up reads a hundred lower; a function 25 refused for
missing write enable is answered with the front of an earlier frame; the value of
the second register of functions 10 and 27 is read past the message; restoring the
factory range leaves a captured end behind, which the next capture completes;
`TemperInAirAD` is never assigned, so temperature calibration captures equal ends
and stores nothing; the backup of the range is kept only if flash was erased, and
the factory table leaves it written; a byte that should be 0xFF, as in `CAPADMAX`
by default, is not repaired, because the driver does not erase for it, so that
copies may go on differing there; the length of a packet counts the checksum's
byte when the checksum is wrong, so that a damaged frame of the right length is
not answered and one whose length field says one too many is. A late repeat of
message 1 after message 2 can leave a completed upgrade with one flag unmarked;
the device then waits for the host at its next start, which `RecoversByUpgrade`
covers.

## 6. What is not modelled

* Vendored code: ST's HAL, CMSIS and the RT-Thread kernel. They are almost all of
  the repository's lines, and with both programs' sources repeated in the
  RT-Thread project, the reason why the map covers a small share of it. What
  is used of them appears as external definitions.
* The PCap chip's SPI protocol and the set-up of peripherals: register input and
  output without a state of its own.
* The capacitance thread of the RT-Thread build, which may run between two
  assignments of a command; `Device` has the atomic commands of the main loop.
* Write protection: the branch of message 2 that lifts it and resets the device
  (`menu_uart.c` 161-167, `flash_if.c` 142-216), for nothing in the sources sets it.
* Real time: a timeout may come at any moment its cause allows, and the
  watchdog's reset is among the crashes of `ParamStore` wherever it comes.
* Temperature from samples, a linear function; function 2B, which reads
  strings; wording of tables; IDE output; `src/BC_Cap_Sensor_DAC`, an earlier copy
  of the flash driver without the rest of its program.

## 7. Plan

Built, in order of importance: `ParamStore`, `UartRx`, `Bootloader`, `ModbusTx`
with `Transmitter`, the commands (`Device`) on filters and conversion
(`LevelSensor`), `AdcSampling` and the line codec (`AsciiLine`), with their
theorems. What is left:

1. An abstract store (a change is there or not) that `ParamStore` implements, with
   `RecoveredWhole`'s exceptions as explicit steps.
2. An abstract upgrade (an image replaces another, or none) that `Bootloader`
   implements.
3. A finer `Device` for RT-Thread: the capacitance thread between the assignments
   of a command, thread priorities, and which commands outlast the watchdog's second.
4. `AsciiLine` composed with `UartRx`, for chunks that arrive while one is handled.
