# TLA+ specification of the FOX-1 camera experiment board

This directory models the firmware under `STM32L1_Code/` (the "Exp4" camera
board) together with what it talks to: the IHU on the serial line, for which the
repository has a simulator, the camera with its frame FIFO, and the MRAM that
holds the coded image. The modules are checked with TLC on small instances; the
theorems in the `*_proofs` modules are checked with TLAPS for every value of the
constants.

## The system

The board runs two threads on ChibiOS/RT. `main` starts the serial driver, then
`UART_Thread`, then configures the SPI bus (`configureSPIFlash`), then starts the
camera thread, which takes one picture at once.

| Part | State | Operations | Talks to |
|---|---|---|---|
| `UART_Thread` (uart_iface.c) | read buffer, next line number | wait for an event, read 6 bytes, check, answer `R` (ready?) and `T` (next line) | serial driver, the two flags, MRAM |
| Serial driver (serial.c, serial_lld.c, chqueues.c, chevents.c) | input queue, output queue, interrupt enables, pending events, listener | receive and transmit interrupts, blocking read, non-blocking write, broadcast, wait | the line, `UART_Thread` |
| Kernel mutexes and scheduler (chmtx.c, chschd.c, chlists.c) | ready list, priorities, owner and queue of each mutex, owned mutexes of each thread | lock, try-lock, unlock, unlock all, sleep, wake, round robin | the SPI bus lock |
| Camera thread (camera_iface.c) | segment, row group, flags | configure, set the window, wait for frames, read the FIFO, encode, close | camera, encoder, flags |
| SCCB (camera_iface.c) | two pads, the camera's registers | register read and write cycles | camera |
| Block coder (jpegenc.c) | predictors, run of zeros | quantise, zigzag, code words | encoder output |
| Encoder output (jpegenc.c, encoder.c) | bit buffer, byte buffer, predictors, MRAM address | `writebits`, `flushbits`, `writebyte`, `write_RSI`, `huffman_stop`, `write_jpeg` | MRAM |
| MRAM (spi_flash.c) | memory, bus mutex, write enable latch, open frame | byte and block read and write | both threads |
| Line index (spi_flash.c) | `line_data` entries in the MRAM | `generateLineIndex`, `readLineFromSPI` | MRAM, `UART_Thread` |
| IHU simulator (IHU_Simulator/) | line counter, size of the line, output file | command loop, `send_CMD`, `get_REPLY`, `get_IMG` | serial line |

What is hard here, and what must hold:

* **Wake-ups.** The input event is raised only by a byte that finds the input
  queue empty, and `chEvtWaitOne` hands out one bit at a time. Commands that pile
  up must not be forgotten.
* **Framing.** Commands are six bytes by position; nothing resynchronises.
* **Queues at their limit.** Input bytes and reply bytes are dropped silently.
* **Preemption between two flag reads.** The camera thread has the higher
  priority and writes two flags that `UART_Thread` reads one after the other.
* **Priorities through chains of owners.** A thread that waits for a mutex can be
  boosted, and then its queue, the next owner and the ready list must follow.
* **A shared bus with a latch.** A block goes to the MRAM byte by byte while
  other threads run; a stray command would be taken as data.
* **A free-running camera.** Write enable is switched at times the camera does
  not know of; the FIFO must hold one whole frame of the right window.
* **A line that both sides drive.** The SDA pad is switched back to an output
  while the camera still acknowledges.
* **Bit and byte boundaries.** Code words straddle bytes, 0xFF is stuffed,
  markers are not, the buffer is flushed at `BUFFSIZE` bytes (256 with `RELEASE`,
  which the firmware's Makefile:181 sets, else 128) and at line ends, and the memory
  ignores writes of one byte.
* **Tables written out by hand.** The code words must be those that the header's
  tables describe, and the reciprocals must undo its quantisers.
* **Recovery from lost markers.** The index must find the other lines.
* **A receiver that trusts its reads.** The simulator takes what one `read`
  returns, and its loop over the lines shares its counter with an inner loop.

PROJECT.json lists these hazards one by one, each at its line and with the
properties that would catch it.

## Modules

    CameraFlags <-- UartThread --> SerialDriver        IhuSystem --> CameraFlags
        ^ implements
    CameraThread <-- CameraSystem --> Sccb --implements--> CameraRegisters

    ChMutex --implements--> BusLock <-- SpiFlash --implements--> FlashMemory
                                              \--> FlashRequests <--/
    BlockCoder --> BlockDecoder --> JpegTables      JpegWriter      LineIndex

(`-->`: EXTENDS.) Each `MC*` module gives constants for TLC.

**`SerialDriver`** holds the driver's state and its operations as actions on that
state only. Every operator is one critical section of the code. A broadcast
makes *all* bits of the listener's mask pending, because the kernel signals the
mask the listener registered and not the flags (`chEvtBroadcastFlagsI`).
`LateEnd` is the case in which one interrupt handles TXE and TC together and
writes CR1 back from the value it read first.

**`CameraFlags`** is the abstract specification of `cameraHealth` and
`cameraThreadDone`: busy and healthy, at most one failure, done for good.

**`UartThread`** extends both. Its control points are the places where the thread
can be preempted with an effect: `boot` (before registering), `wait`
(`chEvtWaitOne`), `read` (between bytes of `sdRead`), `status` and `line` (after
`cameraHealth` was tested), `write` (between bytes of a reply). A command byte is
a symbol; a reply is the list of lengths given to `sdAsynchronousWrite`, which
keeps the case of length 0 (1024 masked to 10 bits), a write that runs until the
queue is full. `IhuSend` is `send_CMD`, from an IHU that need not wait for
replies; the constant `IhuEarly` says whether it may speak before the thread
listens. `seen` is the history of mishaps: a byte `"early"`, a byte
dropped by the full input queue (`"dropped"`), a frame discarded silently (`"silent"`), a reply
begun when the output queue had too little room (`"crowded"`) or cut short
(`"truncated"`). `told` is the last answer
to a ready query.

**`CameraThread`** has one action per step of `cameraControlThread`. Every VSYNC
poll is a control point of its own. The camera (`FrameStart`, `SendRows`,
`FrameEnd`) is external hardware modelled from how the code uses it: VSYNC high
while rows are sent, write pointer reset between frames. Pixels are replaced by
where they came from: frame, window, place in the frame. `configureCam` and
`setupSegment` are one step with either outcome of their read-back. It implements
`CameraFlags` (`ImplementsFlags`). **`CameraSystem`** puts it together with `Sccb`:
while the thread is in `configureCam` the bus runs through whole cycles, and the
thread goes on between two of them. `PartsHold` shows that it behaves as
`CameraThread` for the thread and as `Sccb` for the bus. The cycles of `setupSegment`
stay one step.

**`Sccb`** is below that: the register cycles as programs of operations on the
pads of SCL and SDA, one action per pad operation, against a decoder of the edges
that stands for the OV7670. Between the ninth bit and the next one, both sides
may drive SDA against each other; the level is then either. `CameraRegisters` is
the file of registers that the callers believe in: `ImplementsRegisters` shows
that a cycle with a dispute may be lost, and a read then returns ones, but that it
never changes another register or writes another value.

**`ChMutex`** is the kernel: one action per critical section of the running
thread, the ready list and all queues as sequences, and inheritance exactly as in
the loop of `chMtxLockS`, which walks from owner to owner (`Boost`, one turn of it).
`HandOver` is the hand-over of one mutex; `chMtxUnlock` does it once, and
`chMtxUnlockAll` once for each mutex of the list. `BusLock` is what the kernel
promises: one holder, and a release that hands the lock on. `ImplementsLock`
says so for every mutex.

**`SpiFlash`** is built on `BusLock`: `spiAcquireBus`, the frame for the write
enable, the command, each data byte, the frame's end, write disable, release.
`FlashMemory` is what spi_flash.h means by "thread safe": somewhere between call
and return, all of the access happens at once. The refinement (`Atomic`) puts that
moment where the address has been sent: from then on the bytes still to come count
as written. `FlashRequests` has the requests and the cells of the MRAM that they
mean. `FlashMemory` says itself which writes are ignored (`Ignored`); the check in the
code (`Refused`, `RefusedFacts`) and the address it sends (`flash_addr`) are in
`SpiFlash`. In both a write that runs past the last cell goes on at cell 0, which is
what the MRAM does and not what the header says: `FlashOverrun` shows that.

**`BlockCoder`** is `huffman_encode`, one action per coefficient: quantiser
(multiplication with a reciprocal and a shift), zigzag order, runs of zeros, code
words, predictors and their reset. What the DCT gives is any coefficient of a set
in `-1024..1023`. **`BlockDecoder`** is a baseline decoder that knows only what
the header says: numbers of codes by length, symbols, quantisers, the blocks of an
MCU. **`JpegTables`** has the tables of jpegenc.c. `TablesFit` collects what the
tables have to be for the code around them to be right: the shortest code of the header
with which a word begins is the whole word and means its symbol, the quantisers leave
no magnitude without a code, and a reciprocal is 1024 over its quantiser to the
nearest number. It is an assumption with no constant in it, and TLC evaluates it.

**`JpegWriter`** is everything below `huffman_encode`. A line is "some words given
to `writebits`". The byte width `W` is a constant, so that TLC can use 2-bit bytes;
`bitbuf.buf` has `4*W` bits and keeps its stale high bits as in the code.
`flashWriteBytes` is one step on the memory, which `ImplementsMemory` of `SpiFlash`
justifies, with the address wrap and both of its early returns. `stream`, `marks`
and `holes` are history: every byte given to `writebyte`, where markers are, and
what the memory ignored.

**`LineIndex`** is `generateLineIndex`, one action per kind of loop turn, and
`readLineFromSPI` as an operator. It starts from an image that satisfies
`ImageOK`: unambiguous 0xFF bytes, one numbered marker for each line, whole except for
lost second bytes, and a whole end marker. `ImageForIndex` proves that `JpegWriter`
leaves such an image in the MRAM.
At this commit nothing in the firmware calls `generateLineIndex`; the module
states what it does if it is called after `jpeg_close`.

**`IhuSystem`** composes the simulator's command loop, `get_REPLY` and `get_IMG`
with the replies `UART_Thread` makes, header fields included, and with
`CameraFlags`. A `read` takes what has arrived and may return less than it was
asked for; a `read`, or the `write` to the file, may fail (`Fails`), and then the
simulator exits, except after the checksum, where nobody looks at the result. The
simulator's `|` is `ShiftOr`, in arithmetic; `MCIhuSystem` assumes that it is the `|` of
`Bitwise`, and TLC evaluates that for every byte. `upset` is the history of what the
simulator does not expect: a short read, a failed call, a line whose length needs more
than seven bits, Failed instead of a line. `ReadyQuery` reads both flags in one step,
which uart_iface.c:205-213 does in two; `UartThread` has the two steps, and no property
here speaks of the difference.

## Runs

| Run | Checks | Bounds |
|---|---|---|
| `UartThread` | `TypeOK`, `WakeupKept`, `FramingKept`, `RepliesWhole`, `StatusMonotone`, `EveryCommandAnswered` | 2 commands without waiting, early bytes, 1 line error in the first of them, lines of 0, 3 and 8, length field of 8, queues of 8 and 12 bytes |
| `ChMutex` | `TypeOK`, `InheritanceExact`, `NoInversion`, `HighestWaiterNext`, `ImplementsLock` | 5 threads of 4 priorities, 3 mutexes, 2 owned by one thread |
| `SpiFlash` | `TypeOK`, `QuietWhenFree`, `ImplementsMemory`, `EveryCallReturns` | 2 threads, 3 cells, 6 overlapping requests, one refused and one that wraps |
| `CameraSystem` | `TypeOK`, `ImageLinesRight`, `DoneMeansImage`, `BusTypeOK`, `BusFree`, `ImplementsFlags`, `Terminates`, `ImplementsRegisters` | 3 row groups per half image, frame numbers modulo 3; bytes on the bus of 2 bits, an even and an odd register, every value |
| `BlockCoder` | `DecoderFollows`, `CoefficientsNear`, and `TablesFit` | 2 MCUs; 11 coefficients for Y, 7 for Cb, 2 for Cr |
| `JpegWriter` | `TypeOK`, `FlashHoldsStream`, `Unambiguous`, `LineIndependent`, `EndMarkerWritten`, `BitsRecovered` | 2 lines of at most 3 words out of 6, 2-bit bytes, buffer of 4 |
| `LineIndex` | `IndexTypeOK`, `IndexRight`, `OnlyWholeLines`, `ScanEnds` | 5 lines out of 3 bodies, 4 restart markers, every set of lost markers without 4 neighbours |
| `IhuSystem` | `OutputIsLines`, `LineNumberRight`, `WaitsForReply`, `EveryLineArrives` | bytes of 3 bits, lengths 0, 1, 2, 3, 5 and 9, images of 4 lines, 5 lines sent, 1 call that is cut short or fails |

Why the bounds are enough for the cases of interest:

* Two commands of six bytes overflow the input queue of 8, and a second command
  can arrive at every point of the handling of the first. In an output queue of 12 two
  status replies fit, and the reply to a line and another one do not, so that
  `RepliesWhole` is checked on both sides; the length 8 wraps to 0 with a length field
  of 8, and then a write of 0 bytes fills the queue. An error in the first command
  disturbs both; one in the last would have nothing behind it to disturb.
* Five threads allow a chain of three owners with a thread of the highest
  priority at its end, two waiters of equal priority, and the idle thread.
* Requests of two bytes on three cells overlap in one, and one of them wraps; two
  threads are enough for a call to come in between any two steps of another.
* Three row groups tell a partial frame from a whole one and a group from its
  neighbours; three frame numbers tell a frame from the next two.
* A byte of two bits has a first and a last bit, and the last bit of an address
  or a value, 0 or 1, decides whether the line is in dispute.
* Every coefficient position is reached with every run of zeros that it allows,
  and the coefficients, extreme and middling, become levels of every magnitude
  that the quantiser there leaves. The second MCU needs the predictors of the
  first, and the line's end resets them. `NumBlocks` is 40 in the code.
* A buffer of 4 two-bit bytes is filled by data, by stuffing and by markers in
  every position, and a line can leave 0, 1, 2 or 3 bytes.
* Five lines with four markers make the marker number wrap once.
* With three-bit bytes, 5 has the sign bit of a `char`, 9 needs both bytes of the
  length, and a line number has one bit, so that it wraps at the third line. Lines of 1
  and 2 are shorter than `Lines - 1`, where the simulator's loop ends, and 3 is not.
* In the bus part of `CameraSystem`, cycles follow each other without end, so that
  every cycle is seen behind every other.

Runs that are expected to fail, each with the line of the repository it
contradicts (quoted in PROJECT.json, "findings"):

* `CameraReady`: after a failed configuration the board reports ready without an
  image. (`DoneMeansImage` says when there is one.)
* `JpegOneByte`: a restart marker's second byte, alone in the buffer, is not
  written. (`FlashHoldsStream` and `EndMarkerWritten` say that nothing else is
  lost, and never the end marker.)
* `FlashOverrun`: a write that runs past the last of the 128 KiB is not refused, as
  spi_flash.h:156-157 says, but carried out, and its rest goes to address 0.
* `SixtyMessages`: cmd_api.c:224 reuses the counter of the loop over the lines for
  the bytes of a line. The first line of 59 bytes or more ends `get_IMG`, whose
  comment at line 157 expects 60 messages; then board and simulator wait for each
  other. Shorter lines only would never end it. (`LeftAtLongLine` proves where it ends.)

Behaviours of the code that a passing property states as they are. For all but
`CoefficientsNear` the sources promise nothing else; `ImplementsMemory` also has the
wrap of `FlashOverrun`:

* `WakeupKept`: a command queued behind a silently discarded one stays unread, and
  so does one received between `sdStart` and `chEvtRegisterMask`. These are the only
  two ways to lose a wake-up.
* `StatusMonotone`: a camera that fails between the two flag reads is answered
  ready once; from then on it is answered failed.
* `RepliesWhole`: a reply that finds too little room in the output queue is sent
  in part. With the queue of the code, 128 bytes (halconf.h:324), that is any line
  of more than 120 bytes, unless bytes leave while the reply is queued. A line of
  length 1024 becomes a write of 0 bytes, which runs until the queue is full.
* `OnlyWholeLines`: an index entry that this image has not set is believed all the
  same.
* `CoefficientsNear`: a large coefficient can come out a level away from the
  rounded quotient that the comment of `quantize` promises (data -998, quantiser
  50: the level is -19, the quotient -19.96), but less than one quantiser step
  away. Its margin is small: the largest deviation found is 0.96 of a step. No run
  states the comment (jpegenc.c:282) as a property.
* `DecoderFollows`: the code words in use are those of the header. One that is not
  in use is wrong: `HCACbits[6][9]` (jpegenc.c:248) is 0xFFAF, which belongs to run
  7, size 3; the header gives 0xFFAD. Chroma levels have at most 7 bits: `TablesFit`
  covers just the magnitudes that the quantisers leave (`DcTop`, `AcTop`).

## Fairness

* `UartThread`: weak fairness of the receive step (the line delivers the rest of
  a command that was begun), of the transmit interrupts and of the thread. The
  thread is scheduled because the only thread of higher priority ends
  (`Terminates`) and `main` lowers itself to idle. The IHU and line errors have
  no fairness.
* `UartThread`, `EveryCommandAnswered`: a write of 0 bytes goes on for as long as the
  transmitter makes room for the bytes that it queues, so the property leaves it out
  (`EndlessWrite`), and with it the mishaps `errors`, `"early"` and `"dropped"`.
* `CameraSystem`: weak fairness of the camera, which sends frames all the time;
  strong fairness of the thread, because a poll must see a VSYNC level that
  comes and goes: a level lasts far longer than one turn of the polling loop, and
  the thread has the highest priority. A camera that stops is outside this
  assumption, and then the thread polls for ever (see the hazards). A cycle on the bus
  goes on once begun (weak fairness of `configureCam`), and strong fairness of the thread
  ends the configuration, which has finitely many cycles in the code.
* `SpiFlash`: weak fairness of each thread inside a call. Waits are for transfers
  and delays that end, and for the mutex, which is handed over; no fairness makes
  a thread call or stop calling.
* `LineIndex`: the loop runs.
* `IhuSystem`: weak fairness of the board and of the simulator: a command is
  answered, and a `read` returns once its bytes have arrived. A call that fails has no
  fairness, so that no property holds because one must fail. The camera has none.

`PromptWEN` is an assumption of the runs on the camera thread and of `ImageLines`: write
enable is cleared in the gap after the frame whose end was polled. The code does
not bound interrupt latency, and nothing detects a late WEN.

Where a run says `CHECK_DEADLOCK FALSE`, the system really may stop: the IHU has
sent its commands, the image is closed, the scan is done, or, in `ChMutex`,
threads wait for each other in a cycle, which nested locks of the kernel allow.

## Proofs

37 theorems in 8 modules, each for every value of the constants under the module's own
assumptions (`CapAssumption`, `UartAssumption`, `WriterAssumption`,
`FlashAssumption`, `LockAssumption`, `CameraAssumption`, `IndexAssumption`,
`KernelAssumption`, `SccbAssumption`, `IhuAssumption`, `CoderAssumption`,
`Pow2Assumption`, `TablesFit`; TLC evaluates them in the
runs). Each module names one inductive invariant `IInv`, proves `Init => IInv` and
`IInv /\ [Next]_vars => IInv'` with one step per action, and derives the theorems.
(`SpiFlash_proofs` is about two specifications; the second, `IndexSpec`, has `ScanIInv`.)

`UartThread_proofs`, for all queue sizes, command sets, line lengths and bounds:

* `TypeCorrect`: `Spec => []TypeOK`; among others no queue exceeds its capacity.
* `NoLostWakeup`: `Spec => []WakeupKept`. `WakeupKept` alone is not inductive:
  that bytes in the input queue wake a waiting thread depends on the reply just
  written. The invariant adds that a non-empty output queue has its interrupt
  enabled (`TxArmed`), that a reply under way has something left to write, and
  that at each control point an input event is pending, or the queue is empty,
  or the transmit interrupt that will raise one is enabled.
* `StatusAnswersMonotone`: `Spec => StatusMonotone`, from an invariant that ties
  the last answer to the flags and the flags to the progress of the camera thread.
* `RepliesComplete`: `[]RepliesWhole`, from `RoomInv`: what is left of a reply
  always fits what is left of the queue. Interrupts only make room.
* `FramesAligned`: `[]FramingKept`, from `FramingInv`: buffer, input queue and line
  are one stream (`Stream`) that stays made of whole commands however the bytes
  move between them.

`JpegWriter_proofs`, for all byte widths, buffer and memory sizes, code words and
numbers of lines:

* `TypeCorrect`: the byte buffer never reaches `BUFFSIZE` between calls, and the
  bit buffer never holds more than three bytes of bits.
* `StreamStored`: `[]FlashHoldsStream`, from "the buffer is the end of the
  stream" (`BufInv`), "the rest is in the memory apart from holes" (`HeldInv`)
  and "before a flush at a line end the stream ends in a marker" (`MarkInv`).
* `StreamUnambiguous`: `[]Unambiguous`, from `MarkInv`: an 0xFF at the end of the
  stream is always followed by its second byte next.
* `LinesIndependent`: `[]LineIndependent`, from the bits pending at each control
  point (`BitsInv`).
* `EndMarkerStored`: `[]EndMarkerWritten`. The extra invariant `EndInv` says that
  the end marker is begun with an empty buffer, so that its two bytes are in one
  write, and that holes lie only in the part already handed over.
* `StreamDecodes`: `[]BitsRecovered`. `RecInv` says what the decoder's bits are at each
  control point (with ones behind them once `flushbits` has run) and that a byte is
  stuffed only behind an 0xFF of the same line. `BitsShifted` and `BitsTaken` say of
  numbers of any width that shifting in appends bits and taking a byte out splits them,
  from the recurrence of the powers of two alone; `LineGrows` that a byte more in the
  stream is a piece more for the decoder, or none when it is a stuffed one.
* `ImageForIndex`: with the board's byte values (`BoardBytes`), `Spec => []IndexReady`:
  once the image is closed and fits, what is in the MRAM satisfies `ImageOK` of
  `LineIndex` for the places of its markers. `EndsInv` keeps these places in order, one
  for each line. What no encoder can promise stays a condition (`LostHarmless`): where a
  second byte was lost lies none that looks like a marker's, and not all of `RstCount`
  neighbours lost theirs. No run checks it, as `LineIndex` needs bytes of 8 bits and
  TLC's integers have no 2^32.

`SpiFlash_proofs`, for any number of threads, memory size and set of requests:

* `TypeCorrect` and `QuietBus` (`[]QuietWhenFree`), from `LockInv` (who is inside a
  transaction holds the bus) and `FrameInv` (frame, address and latch follow from
  the holder's control point).
* `ImplementsAtomicMemory`: `Spec => ImplementsMemory`. `DataInv` adds that the
  bytes transferred so far are where the request says. With the refinement mapping
  the transfer of a byte is a stutter; `RefusedFacts` shows that the code's check,
  made with a subtraction, is the one that `FlashMemory` makes; the lemmas on addresses (`DivMod` and those
  after it) show that no two bytes of a request share a cell.

`CameraThread_proofs`, for every number of row groups:

* `TypeCorrect`; `DoneImage` (`[]DoneMeansImage`), from the length of the image at
  each control point (`LengthInv`) and `FlagsInv`; `FlagsProtocol`
  (`Spec => ImplementsFlags`): every step is one of `CameraFlags` or a stutter.
* `PartsHold`: `SystemSpec => Spec /\ BusSpec`, by which these theorems and those of
  `Sccb_proofs` are theorems about `CameraSystem`.
* `ImageLines`: `PromptWEN` implies `Spec => []ImageLinesRight`. `FifoInv` says
  which rows of the frame being sent are in the FIFO at each poll, `ImageInv` where
  each encoded row group came from.

`SpiFlash_proofs` also has the theorems on `LineIndex`, for every image with `ImageOK`, 1, 2, 4 or 8 restart markers and
any number of lines and slots:

* `IndexTypeCorrect`, `WholeLinesOnly` (`[]OnlyWholeLines`) and `LinesFound`
  (`[]IndexRight`). `LineInv` says that `line` is the last whole line the scan has
  passed; as fewer than `RstCount` neighbours lost their markers, the number in the
  next marker can mean only its own line (`NextNumber`, `MarkedFacts`). `IndexInv`
  says what every slot holds at every moment, `LastInv` where its line begins, and
  `ReadExact` that such an entry gives just those bytes.

`ChMutex_proofs`, for any finite set of threads, any set of mutexes, any priorities
above the idle thread's, and any number of mutexes that a thread may own:

* `TypeCorrect`, `PrioritiesExact` (`[]InheritanceExact`), `InversionNever`
  (`[]NoInversion`), `HighestNext` (`HighestWaiterNext`) and `MutexIsLock`
  (`Spec => ImplementsLock`, the refinement of `BusLock` for every mutex).
* The invariant adds to the types that the ready list and every queue are in the order
  of the priorities and without repetitions (`IsList`), that nothing ready is above the
  running thread (`Scheduled`), and states exact priorities as bounds from both sides
  (`Exact`). Only the order of the queues makes "the first waiter" the highest one, so
  `InheritanceExact` and `HighestWaiterNext` are not inductive without it.
* The loop of `chMtxLockS` breaks `Exact` in the middle: `BoostInv` carries, from turn
  to turn, that the priorities are exact for all but the thread whose turn is next, that
  each turn raises one more thread to the priority of the running one, and that the
  lists stay in order. As a thread is raised once at most, the loop is over after as
  many turns as there are threads. The turns of `chMtxUnlockAll` are done in the same
  way. `InversionNever` follows the chain of owners by one more induction: priorities
  do not fall along it.

`Sccb_proofs`, for every width of a byte, every pair of addresses that differ in the last
bit, every set of registers and cycles:

* `TypeCorrect`, `BusIsFree` (`[]BusFree`) and `CyclesAreAccesses`
  (`BusSpec => ImplementsRegisters`).
* `CycleIs` turns the two cycles, which are sequences put together from parts, into
  chains of single operations. The invariant (`InCycle`) names each place in these
  chains (`Start1` to `Idle2`) by the operations left and says what the camera must have
  decoded there: which byte, how many of its bits, and where a lost dispute may have
  left it (`Lost`). There is one lemma for each place (`FromStart1`, ...), which goes to
  the next place and says what the step is for the register file: `Quiet` steps
  are stutters or a dispute, the fall of the clock after the last bit of a value is the
  store. A dispute can lose a value or a read, and never the address of a
  register, because the bit before it, the last of `CAM_ADDR_W`, is 0.

`IhuSystem_proofs`, for all widths of a byte, numbers of lines, sets of lengths and
bounds:

* `OutputWhole` (`[]OutputIsLines`), `NumbersRight` (`[]LineNumberRight`), `OneAtATime`
  (`[]WaitsForReply`) and `LeftAtLongLine` (`[]EndsAtLongLine`). The four come from one
  invariant: as long as nothing has upset the simulator, commands, bytes on the line and
  the simulator's place are one of six situations (`Exchange`), and the lines sent so
  far were all short enough for the loop to go on (`History`). None of the four is
  inductive alone. Failed calls are steps of the system like any other; `NoFailure` is
  what the steps need of them. No run checks `EndsAtLongLine`: it says why the run
  `SixtyMessages` fails.

`BlockCoder_proofs`, for all coefficients in `-1024..1023` and any number of MCUs in a
line; of the tables only `TablesFit` is used:

* `DecoderKeepsStep` (`[]DecoderFollows`) and `CoefficientsClose`
  (`[]CoefficientsNear`), from one invariant. `DecoderFollows` is not inductive alone: a
  difference has a code only if both predictors are levels that the first reciprocal can
  give (`Size(dc[x]) <= Reciprocal(x, 0)`), and a run only if `zerorun < i`.
* `Matched`: whatever bits come behind a word that fits the table, the word is the
  shortest code they begin with. `ValueRead`: `Extend` undoes `huffman_bits` for
  every number and its magnitude, from the recurrence of the powers of two alone.
  Together they give what one symbol does to the decoder (`ReadDc`, `ReadLevel`,
  `ReadZeros`, `ReadEnd`).
* A step of the encoder writes up to three words for sixteen zeros each and a level, or the
  end of a block: `ReadIs` unfolds the function of `Read`, and `StepDC`, `StepLevel`,
  `StepZero`, `StepEnd` follow its five turns.
* `QuantizeNear`: a reciprocal `r` with `|q*r - 1024| <= q/2` brings the level times `q`
  within `q - 1` of the coefficient, and no level is larger than `r`.

What loops, folds and concatenations compute is proved by induction over the natural
numbers. The library's induction theorems take an operator as a parameter, which the
provers cannot instantiate; `Least` derives, from `WFMin` and the well-foundedness of
`<`, that a set of numbers has a least one, and `Induction` from it that a *set* with 0
and all successors holds every number. Functions that are defined by recursion are
unfolded after their existence has been proved by the same induction (as `FlatExists`
does for `FlattenSeq`).

Only model-checked: liveness (`EveryCommandAnswered`, `Terminates`, `ScanEnds`,
`EveryCallReturns`, `EveryLineArrives`), which is beyond the prover. Every safety
invariant, action property and refinement of the passing runs is a theorem. The four
runs that are expected to fail check what does not hold. `TablesFit` is used and not
proved: it speaks of more than 300 given numbers, and TLC evaluates it.

## Not modelled

* DCT, conversion of pixels and watermark: arithmetic on pixels with no state.
  `BlockCoder` allows any coefficient instead.
* The kernel's other objects (semaphores, messages, mailboxes, pools, timers,
  changes of priority): the firmware's threads do not use them. `ChMutex` treats
  every wait that is not for a mutex as a sleep.
* The content of a line in `UartThread` (lengths only; header fields are in
  `IhuSystem`), and of the two checksum bytes, which nobody verifies.
* The stand-in for the board in the simulator (`DUMMY_EXP4`), `img_assemble`, the
  encoder's host tools, pin setup and `configureSPIFlash`: pure I/O or start-up code.
* Calls of the simulator that fail without a change of what it does next: `write` in
  `send_CMD` only prints (the command is lost, and both sides wait), `open` of
  output.dat is not checked rightly, and a `write` to it that is cut short shortens the
  loop over the bytes.
* In `IhuSystem`, the board's own output queue of 128 bytes (uart_iface.c:134-136): it
  cuts lines of 121 to 127 bytes, which the simulator would see as a short read.
  `UartThread` has the queue (`RepliesWhole`).
* A line that is asked for between the start of `UART_Thread` (main.c:82) and the end of
  `configureSPIFlash` (main.c:85).
* Register headers, other ports, boards and drivers of ChibiOS/RT and the ST
  libraries, by far most of the repository's lines: the firmware is not built with
  them, or they describe hardware.

## Left to do

1. `CameraThread` over `JpegWriter`: lines closed in order, an aborted image.
2. `LineIndex` behind `IhuSystem`: which bytes of the image reach the file when
   index entries are missing.
