# crypt-chat, verified

A TLA+ development of crypt-chat: the bare-metal firmware of a DTEK-V (RISC-V)
board that receives framed messages over a bit-banged UART, deciphers or
enciphers them and answers, and the Python client that talks to it over TCP
through an ESP8266 bridge. Paths below are relative to the repository root
(`src/uart.c` is the firmware's UART driver); in `PROJECT.json` they carry the
prefix of the checkout directory.

Run a check with `tlc -config X.cfg M`, a proof with `tlapm M_proofs.tla`.

## 1. The system

| Part | Source | State it keeps | Operations |
|---|---|---|---|
| UART bit receiver | `src/uart.c` | `rx_state`, sample and bit counters, shift register | `uart_rx_isr`, once per timer period (an eighth of a bit) |
| Receive ring | `src/uart.c` | 256 slots, head (interrupt), tail (main), debug counters | push or drop in the interrupt; `uart_rx_available`, `uart_rx_getc` in main |
| UART transmitter, delays | `src/uart.c` | none; busy waiting | `uart_tx_char`, `uart_tx_bytes` |
| Framer | `src/chat_framer.c` | state, buffer, index, length, inactivity counter, `has_frame` | feed, tick, check_timeout, take |
| Wire codec | `src/chat_protocol.c` | none | `crc16_ccitt`, `byte_stuff`, `byte_unstuff` |
| AEAD packing | `src/aead.c` | `s_nonce_ctr`, the key | encrypt_pack, decrypt_unpack |
| ChaCha20, Poly1305 | `src/chacha20.c`, `src/poly1305.c` | none between calls | key stream, one-time authenticator |
| Main loop | `src/main.c` | `send_flag`, LED, counters | poll ring, process frame, button, timeout |
| Traps and boot | `src/boot.S`, `src/dtekv-lib.c`, `init` of `src/main.c` | CSRs, handler pointers, device registers | boot, `init`, dispatch to the timer, button and switch handlers, ecall |
| Drivers | `src/devices.c` | registers of the GPIO banks, displays, LEDs | read, change, write of a register |
| Debug and utilities | `src/dtekv-lib.c`, `src/utils.c` | none | printing over JTAG, number formatting, strings |
| Python client | `chat_client_protocol.py` | `stop_event`, socket, its own framer, the library's nonce counter | receive thread, main thread |
| ESP8266 bridge | not in the repository | a serial line and a TCP stream | forwards bytes both ways |

**How they meet.** The timer interrupt and the main loop share the ring; the
button interrupt and the main loop share `send_flag`; interrupts are never
masked while main runs. Main feeds every byte it pops to the framer, takes a
frame as soon as it is complete, decodes it, transforms the text (the board's
own user id asks for encryption, any other for decryption) and transmits the
answer while bytes keep arriving. The client's two threads share `stop_event`
and the socket, and its main thread shares the TCP connection with the bridge.

**What is hard.** No lock anywhere: main is interrupted between any two memory
accesses. A boot that inherits pending interrupts, a running timer and old
memory from the program before. Two clocks on one serial line, and samples that
come late because another handler is at work. Frames that are damaged, cut off
or mixed with noise, and a timeout that must bring the framer back. A ring that
overflows while main transmits. A flag cleared by one side and set by the
other; a level read before the edge that announced it is cleared. Registers
that many pins share and that read otherwise than they were written. A stream
that `recv` cuts anywhere, a connection that goes away under either thread, and
a socket closed while the other thread uses it. Arithmetic whose carries matter
on values that no random test meets. Each of these is an entry under `hazards`
in `PROJECT.json`, at its line, with the properties that would catch it.

## 2. The modules

| Module | Models | State and actions ↔ code |
|---|---|---|
| `ByteQueue` | promise of the ring | bounded FIFO that loses bytes only when full |
| `RxRing` | the ring | variables are the C variables; one action per memory access of main (`UartRxAvailable`, `GetcTest`, `GetcLoad`, `GetcAdvance`), one for the whole interrupt |
| `RxRing_proofs` | theorems about `RxRing` | |
| `RxSampler` | `uart_rx_isr`; the waveform of `uart_tx_char` | variables of the receiver, and a line in CPU cycles with a sender's clock of its own; a sample may be late |
| `RxSampler_proofs` | theorems about `RxSampler` | |
| `FrameDecoder` | promise of a framer | in terms of the bytes of the frame under way, without states |
| `Framer` | `chat_framer.c` as main drives it | variables are the fields of the struct; `Feed`, `TimeoutRecovery`, `Take` |
| `Framer_proofs` | theorems about `Framer` | |
| `CommonLemmas` | lemmas the proofs share | induction over the naturals, powers and bits, quotients and remainders, frames, streams of whole frames |
| `Bits`, `Bytes`, `Numerals` | C's bitwise operators and powers of two; the widths of a byte; the number that digits stand for | recursive functions, so that they can be reasoned about |
| `ChatProtocol` | `chat_protocol.c`, the frame encoders and decoders of both ends | operators with the names of the functions |
| `Codec` | drives `ChatProtocol` over all messages, a byte longer at each step | what the codec promises is stated here |
| `Aead` | `aead.c` | operators; the key stream and the tag are parameters |
| `Board` | the firmware | instances of `RxRing` and `Framer` with their own variables, `ChatProtocol`, `Aead`, the button; `pc` is the place of main in its loop |
| `Board_proofs` | theorems about `Board` | |
| `Client` | the Python client | `rx` and `main` are the places of its two threads; what it prints is `shown` (messages) and `raw` (bytes outside frames); a receive thread that died of a text it could not print is at `failed` |
| `Client_proofs` | theorems about `Client` | |
| `Nonces` | the nonce counters over restarts | a new client starts at 1; the board's counter lies in `.data`, which `boot.S` does not touch (it clears `.bss`), so it starts at 1 when the program is loaded and goes on after a reset |
| `Trap` | `boot.S`, `init`, `handle_interrupt`, `handle_exception`, the handlers of `main.c` | CSRs, handler pointers, device registers; one action per access to a device or to a variable that a handler shares with the program |
| `Trap_proofs` | theorems about `Trap` | |
| `Poly1305` | `poly1305_auth` | the limbs after each block, beside the number they should stand for |
| `ChaCha20`, `Rfc8439Examples` | `chacha20.c`; the examples of its RFC | the state of the context and the working copy; a call, a quarter round and the use of a block are one action each |
| `Printing` | `print_dec`, `print_udec`, `print_hex`, `print_bin`, `utoa` | operators; the state is the word that is printed |
| `Displays` | the seven-segment functions of `devices.c` | the six registers |
| `Gpio` | the GPIO functions of `devices.c` | direction and data registers of two banks, and the world's levels |
| `Algorithms_proofs` | theorems about `Poly1305`, `Gpio`, `Printing` and `Displays` | |
| `MCAlgorithms` | puts the sequential modules into one run | `topic` is the part a behaviour is about; the others stand still |

The `MC` modules give constants their values for TLC. `Trap` and `Board` meet
at the button: `Trap` has the handler access by access, `Board` has it as one
step beside the whole main loop, and keeps the button down until its interrupt
is taken. What the hardware makes of three of its accesses is not in the
repository, and `Trap` has each reading (`hardware`, which no step changes):

| Access | Readings | Who says so |
|---|---|---|
| `csrsi mie, 16` | sets the bits of a five-bit mask; sets bit 16 | the RISC-V manual; `src/boot.S:184` to `193` and `docs/docs.md:391` |
| writing 0 to the timer's status | clears TO; does not, only a 1 does | the code (`src/dtekv-lib.c:145`, `src/uart.c`); `docs/docs.md:211` and `docs/docs.md:360` |
| the button's request | ends with its cause; is latched until it is cleared in the controller, which no code does | the code (`src/dtekv-lib.c:182`); `docs/docs.md:364` |

A property that does not hold under all of them names the one it needs. `Board` composes the
ring, framer, codec and cipher and states, as refinements, that it uses ring
and framer as their own modules assume (`UsesRingProperly`,
`UsesFramerProperly`), so what is proved of those modules holds on the board (`ComponentsSafe`).
`Client` has a framer of its own, written anew in Python; it is held against the
same `FrameDecoder` as the board's.

**Grain.** A push is one step: the handler is not interrupted. Main takes a
step per access to anything an interrupt handler touches. `process_frame` and
`send_message` touch nothing a handler touches, so each is one step; bytes that
arrive while they transmit (for a longest frame, hundreds of milliseconds) are
in the model bytes that arrive before or after, as many as there are, with the
same effect on the ring: it fills and drops. In the client a step is what one
thread does between two accesses to something shared.

**Scale.** Widths are parameters. The checked instances of the board and the
client have bytes of four bits, a CRC of eight and one byte each of nonce and
tag; reserved bytes, length limits and truncation to a byte keep their places
relative to these widths. The codec by itself runs at its real widths, with the
code's reserved bytes and its CRC, which is checked against its published check
value (`CrcCheckValue`); there only the limits on messages and frames are small, so
that messages reach them. Poly1305 is checked with limbs of
four bits, where the rare carries are frequent; the real masks are checked
against the clamping rule (`MasksAreClamping`). ChaCha20 runs at its real width,
on the examples that RFC 8439 prints; a word is a pair of halves, because TLC's
integers are no wider than a signed word. The displays have their real size,
printed words have twelve bits, and the GPIO driver two banks of two pins. All
these sizes but those of ChaCha20 and the displays are taken away by the proofs.

## 3. The runs

Passing runs:

| Run | Question | Bounds, and why they are enough |
|---|---|---|
| `rx_ring` | Is the ring a queue under every interleaving? `LoadedByteIsStillThere`, `AvailableNeverGoesStale`, `NothingLostInside`, `ImplementsByteQueue`, `EveryByteIsPopped` | 4 slots, 6 arrivals of 3 values: the ring wraps, fills, drops and drains; the size is then taken away by the proofs |
| `rx_sampler` | Does the receiver hear every byte once and intact? `EachByteHeardIntact`, `HeardBeforeFrameEnds` | the timer has a period of 39 units of ten cycles; all phases; senders at 285, 300 and 312 units per bit (nominal 312.5) with samples up to 27, 12 and 0 units late; back to back or apart, four bytes with every pattern of neighbours, noise. The settings are the limits: 284, 285/28, 300/13, 312/1 and 313 fail. See below |
| `framer` | Does the framer recognise exactly the frames? `ImplementsFrameDecoder`, `NeverOverruns`, `FramerRecovers` | bytes 0..4, buffer of 3: lengths zero, shortest, longest and too long; timeout of 2 |
| `board` | Does the whole firmware answer whole frames, only these, once and in order, and is a press ever lost? `OnlyIntactFramesAnswered`, `EveryFrameAnswered`, `PressRemembered`, `PressIsSent`, `UsesFramerProperly`, `UsesRingProperly` | two chunks, or one and two presses, or four presses: chunks out of two kinds of whole frame, a wrong CRC, a wrong tag under a right CRC, a cut-off frame; arriving before, while or after main works, with timeouts between any two bytes; a ring of ten slots, smaller than two chunks, so that bytes are dropped. `MaxArrivals` is out of reach here: the chunks bound the arrivals |
| `trap` | Does the board boot from any state, and serve every interrupt? `NoTrapUnhandled`, `SteadyPressIsSeen` (under every reading of the hardware); `SendsNeverExceedPresses` (if a request ends with its cause), `NoTimeoutServedTwice` (if writing 0 clears TO), `SamplesForEver` (if `csrsi` takes bit numbers and a request ends with its cause) | all readings of the hardware; every combination of memory, masks, pending edges and timer that a program before may leave; two delays, so that a delay follows a delay; three presses and their releases at any point: a press, one in the handler of the first, and one in the handler of a release |
| `client` | Does the client show what came, send what was typed, and end? `OnlyWholeFramesShown`, `EveryFrameShown`, `RawOnlyAfterDamage`, `SentIsReadable`, `NothingLateIsSent`, `LeavesQuietly`, `DeafClientEnds`, `ImplementsFrameDecoder` | two chunks out of eight (two messages of the board and one of the client's own; one whose tag is wrong and whose bytes are no UTF-8, one that the output cannot print; a damaged frame, a cut-off one, loose bytes), cut anywhere by `recv` into one or two bytes, one line out of three (blank, with reserved bytes, too long for a frame), one disconnect or reset anywhere |
| `algorithms` | Are the sequential parts right? | each by itself: |
| Poly1305 | `LimbsFit`, `AccumulatorRight`, `TagRight` | six keys `r` with many ones, two blocks of four byte values; accumulators between p and 2^130 and carries into the second limb occur |
| codec | `FrameRoundTrip`, `NoSyncInside`, `DamageIsRejected` | all messages to five bytes over a plain and both reserved bytes; frames of ten bytes, so that some do not fit; every change of one byte. A stuffed payload of 256 bytes, whose length no longer fits its byte, is out of reach at this width and left to the proof |
| ChaCha20 | `StreamIsRfc8439` | the encryption of RFC 8439 2.4.2, two blocks long, in one call and in two that meet at a block; the Poly1305 key of 2.6.2, block zero |
| printing | `PrintsReadBack` | all words of twelve bits, as unsigned, signed, to each number of hexadecimal and binary digits, and in five bases; two bases there are no digits for |
| displays | `DisplaysRead` | numbers at the limits of six digits and of the conversion, texts too long and with characters that have no segments, in any order; the table of characters is the code's |
| GPIO | `PinsReadTrue` | any order of the operations on all pins of both banks, while the levels of inputs change |

Runs that show a disagreement between the code and what the repository says of
it, described in section 5: `trap_lost_press`, `rx_sampler_mid_bit`,
`trap_csrsi`, `client_timeout`, `nonces_client`.

The types of `RxRing`, `Board`, `Trap` and `Client` (`TypeOK`) are proved and not part of
their runs; those of `RxSampler` document its variables.

**The law of the receiver.** `WithinTolerance` in `RxSampler`: a sender's bit
cell and the delay of the latest sample together last no longer than eight
timer periods, and a frame of ten cells no shorter than seventy-three. The run checks
it at its corners (285 + 27 = 300 + 12 = 312 + 0 = 8 × 39, and 10 × 285 just
above 73 × 39), the settings one beyond fail, and `RxSampler_proofs` proves that
it is enough for every period. The first condition is the first data sample,
which a late or slow start puts before the leading edge of its cell; the second is the
push, which must come before the frame is over. With the interval of 390 that
`uart_rx_init_interrupt` computes, eight periods are 3120 cycles, and the cell
of an exact 9600 baud sender is 3125: it lies just outside. Whether the hardware's
period is the value written or one more is not in the repository (with 391 the
sum is 3128 and leaves three cycles for delays). So the receiver depends on a
sender that is a little fast, and the first data sample at the leading edge of
its cell (section 5) is what uses up the margin.

**The ring in `board`** has ten slots for a reason: with eight, dropped bytes
splice two chunks of the instance into a frame whose eight-bit CRC and four-bit
tag match by chance. That is a matter of the scaled widths, not of the code.

**Deadlock** is checked except where the system may stop: the client ends, and
the parts of `algorithms` end with their longest input.

**Fairness.** The main loop of a bare-metal program never stops: in `RxRing`
`WF_vars(Main)`; in `Framer` weak fairness of main's next step while a frame is
under way; in `Board` `[]<><<Main>>_pc`, which is the same because main has a
step at every place. A pending button interrupt is taken (`WF_vars(ButtonIsr)`),
since interrupts are enabled while main runs. In `Trap` a handler runs to its
end and a timer that runs expires (weak fairness); an interrupt that is pending
again and again is taken, and the program, interrupted again and again, gets time
between (strong fairness of `TakeInterrupt` and `Main`, since the other
interrupt and the handler disable them each time). The latter says that
handlers are shorter than a timer period; the timer's and the button's are a few
dozen instructions against 390 cycles. It cannot be said of a controller that
requests the button's handler again as soon as it has returned, so
`SamplesForEver` leaves that reading out. In `Client` each thread goes on until it ends or, the
main thread, sits in `input()`: weak fairness of `RxMoves` and `MainMoves`, which
say of each step of a thread only where it moves the thread. Nothing is asked of the sender, the line, the finger on
the button, the keyboard or the bridge. `PressIsSent` holds because the line
falls silent in every behaviour of the model: with a sender that never pauses
the code never leaves its inner loop, and looks neither at the button nor at the
timeout.

## 4. What is proved

Checked by TLAPS for every ring size (from two), buffer size, timeout below the
largest unsigned int, set of bytes, set of chunks and of typed lines, number of
them, of delays and of presses, size of the GPIO banks, timer period, width of Poly1305's limbs,
width of bytes, CRC and printed words, and set of numbers and texts displayed. The
assumptions are stated in the modules, and TLC evaluates them in every run:
`RingAssumption`, `FramerAssumption`, `TrapAssumption`, `GpioAssumption`,
`SamplerAssumption`, and for the compositions `BoardAssumption` and
`ClientAssumption`, which say of the constants that sizes are numbers and bytes
are bytes (that a ring has two slots, and that the nonce counter has two
values). The widths of the codec and the cipher have `BytesAssumption`,
`CodecAssumption` (the reserved bytes are two bytes, the sync byte none of the
escape codes, a frame no longer than a byte has values, the CRC's polynomial odd and no wider than the CRC) and
`AeadAssumption`; `MessagesAssumption` has user ids and messages made of bytes.
`PrintingAssumption` says that a word has no more decimal digits than
`UDEC_DIGITS` (ten in the code, for 32 bits), which is what makes 10^9 the right divisor
to start with; `DisplaysAssumption` has numbers that are not negative. `PolyAssumption` has the limbs of Poly1305 at
least four bits wide, a block two bits short of five limbs, and its keys, masks and
bytes in their ranges. The provers know nothing of exponents: a power of two is
the recursive function `pow2` of `Bits`, and what is used of it is proved
(`PowIs`, `PowAdds`). `CipherAssumption` has the keystream consist of bytes and the tag of
`TAG_LEN` bytes: all that is used of ChaCha20 and Poly1305 here. `ChunksAssumption` of `Board` and `Client` ties what a chunk is said to
carry to its bytes: a chunk that says something is a frame of the wire format,
which the board answers whatever its nonce counter is, and in which the client
reads just that. It is about the senders, not about the code under proof; every
other chunk may be anything.

`RxRing_proofs`:

- `TypeCorrect`, `LoadedByteStays`, `AvailableStaysTrue`, `CountersAgree`: the
  type invariant and the three safety invariants. The inductive invariant
  `IInv` is their conjunction; the safety invariants need the types for the
  arithmetic of the indices, and each is preserved by a push because `Full`
  keeps the head from the slot the reader is at. The lemmas `CountIs`, `FullIs`,
  `CountAfterPush` and `CountAfterAdvance` turn arithmetic modulo the size into
  case distinctions.
- `RingImplementsByteQueue`: the ring implements `ByteQueue` with one byte less
  of room than it has slots. The queue is read off the slots between tail and
  head; a push appends to it (`PushAppends`), the write of the tail takes its
  head (`AdvanceTakesHead`, which needs `LoadedByteIsStillThere`), all other
  steps of main leave it alone.

`Framer_proofs`:

- `TypeCorrect`, `NoOverrun`: the type invariant, and that the overrun branch
  with its `CHAT_FRAMER_ERROR` is dead code. `IInv` adds to the types that in
  DATA the announced length is acceptable and the index below it
  (`PayloadStarted`), that a waiting frame waits in PLAINTEXT with its length
  (`FrameWaitsInPlaintext`), and that the tick counter stays at or below the
  timeout (`TicksStopAtLimit`); without the last one the counter could reach its
  width, and without the second a feed could follow an untaken frame.
- `FramerImplementsDecoder`: the framer implements `FrameDecoder`. The bytes of
  the frame under way are read back from state, length and buffer; the three
  kinds of byte (`HeaderByteRefines`, `LengthByteRefines`, `PayloadByteRefines`)
  and the timeout (`TimeoutRefines`) are shown to be its steps. The decoder's
  state does not name the byte it was fed, so a framer that ignored bytes would
  pass as one that stutters; `HearsEveryByte`, which is part of the property,
  forbids that.

`Trap_proofs`, five invariants on top of each other, under every reading of the hardware:

- `TypeCorrect`: the types, with the shape of a trap (`Typed`).
- `HandlersInTime`: no interrupt is taken before its handler is installed, from
  any state that an earlier program left. `Installed` adds what is installed at
  which place of `init`, and that interrupts are enabled one by one only
  after `start` has cleared what was enabled before and the handlers are there.
- `HeldPressSeenUnlessRaced`: a held button has been seen, or its edge is
  pending, or it was pressed between the handler's reading of the level and its
  clearing of the edge. `PressKept` adds that outside of that stretch a press
  that was seen leaves no edge behind, and inside of it the edge is captured.
- `NoPressSentTwice`: where a request ends with its cause, main sends no more
  messages than there were presses. (With a controller that latches it the handler
  comes back, reads the level again and sets `send_flag` again, for as long as
  the button is held: one press, many messages.) The
  message a press pays for is counted where it is: in the press that is not
  yet seen, in the handler's local, in `send_flag`, in main's hands between
  clearing the flag and sending, or among those sent (`NoMoreThanPressed`);
  `PressKept` is what forbids a second handler to find the same press.

- `TimeoutsServedOnce`: where writing 0 clears TO, every sample answers a timeout
  of its own, from any state of the timer that an earlier program left. Wherever
  TO is set the timer has expired since the last sample, and the handler
  clears TO before it samples. (Where only a 1 clears it, the handler is taken again as
  soon as it has returned, and the samples follow each other at no known rate.)

`RxSampler_proofs`:

- `BytesHeardIntact`, `NoByteMissed`: under `WithinTolerance`, each push delivers
  the oldest byte not yet received, bit for bit, noise makes no byte, and no
  byte is missed. The hypothesis is on the theorems and not in the model, since the code
  does not enforce it. The invariant counts the samples since the one that
  found the start bit (`Taken`) and says that their number times the period is
  the time since the edge of that bit, up to a period and the delay (`InStep`).
  From it follow the levels that the deciding samples read (`StartLevel`, `DataLevel`,
  `StopLevel`) and that a frame is not over before its push (`PushedInTime`).
  A sample so late that it meets the next start bit while the receiver is still in
  its stop bit is a case of its own (`Waiting`): the bit is found one sample later.

`Algorithms_proofs`:

- `LimbsStayInWidth`, `NoCarryIsLost`: `LimbsFit` and `AccumulatorRight`, for
  every key, message and width of limbs. `PolyInv` joins them with the
  key's range (`KeyFits`): its limbs fit, whatever the masks, and the last is a quarter of the
  others. Every sum and product of a block is bounded by
  a multiple of the square of a quarter limb (`ProductBounds`, `ReducedIs`), so
  nothing wraps and the sums may be read as polynomials in the width of a
  limb. As such, the five sums stand for the product of the accumulator and the key up
  to multiples of P (`ProductIs`, where the factor 5 folds what lies above 2^130),
  and the carries keep it so (`CarriesAre`, `ReducedIs`, `TimesModPIs`). The limbs that
  a block of bytes is cut into stand for its number (`NumberIs`, `BlockLimbsAre`).
- `TagIsRight`: `TagRight`. After the last block the carries go round once, leaving limbs
  that fit (`CarriedIs`); the subtraction of P and the choice between the two
  results give the remainder itself, the values between P and 2^130 included
  (`CanonicalIs`); packing the limbs into words drops what is above the tag
  (`PackedIs`). The last carry is at most 62, and the second limb takes it only if a
  limb has six bits, so `LIMB_BITS >= 6` is a hypothesis of this theorem; the
  code has 26. The run has four, where TLC finds it to hold too.
- `OutputsKeepTheirLevels`: with any number of pins, an output keeps and reads
  what was last written to it, and an input reads what it is given. The
  invariant `LevelsStored` adds that a level is known of outputs only, and that the register
  holds it; a write keeps it because no two pins share a bit (`PinsApart`) and
  because the register reads the level of an output (`LevelsAreHigh`).
- `NumbersReadBack`: `PrintsReadBack`, for words of any width. The number that
  digits stand for is found from the left (`NumberOfReads`, `OneMoreDigit`).
  `print_udec`: after each turn the digits printed, the divisor and the rest make up the
  word, and the rest has no more digits than turns are left (`UdecGood`,
  `UdecTurn`, `UdecStaysGood`); so the divisor is never zero before the last turn, and the digit never
  above nine. `print_dec` negates the smallest int into itself, and prints it
  right because it is printed as unsigned (`DecReads`). `print_hex` and
  `print_bin` are one lemma (`FixedReads`); `utoa` ends, in any base from 2, after at most as
  many digits as the word has bits (`UtoaRestFalls`), and turns them round
  (`UtoaReads`).
- `DisplaysShowIt`: `DisplaysRead`. No two digits look alike (`DigitsApart`), so a
  number reads as its digits do (`DigitsRead`): nibbles for `display_hex`, and for
  `display_decimal` the remainders of six divisions, of which the last leaves one digit
  because the number was limited first (`DecimalIsRead`). `display_string`: after i
  characters those that can be shown fill the displays from the left and the
  rest is blank (`Fills`, `CharFills`), with the position one left of what has been filled.

`Board_proofs`:

- `NoPressForgotten`: `PressRemembered`. It is inductive as it stands: an
  interrupt between main's test, its reset of `send_flag` and the transmission
  sets the flag again, and only the transmission ends the promise.
- `RingUsedProperly`, `FramerUsedProperly`: the board's loop is, seen from the
  ring, the loop of `RxRing`, and seen from the framer a behaviour of `Framer`.
  The invariant `BInv` joins the invariants of both modules with `Handover`: a
  frame waits in the framer just while main is about to process it, so none is
  overwritten and none taken twice. `ComponentsSafe` draws the conclusion: the
  safety invariants of the ring and the framer hold on the board.
- `WholeFramesAreAnswered`: `EveryFrameAnswered`. The invariant `AnswerInv` looks
  at all that is on its way through the board as one stream (`Flight`): the bytes
  the framer holds, the byte main has popped, the unread bytes of the ring, and
  what is still on the line. While nothing is spoilt, it is a stream of whole
  frames, and as many as are still to be answered (`OnlyFramesInFlight`). An
  interrupt or a pop moves a byte within the stream and leaves it as it is, a chunk adds a frame at
  its end, `process_frame` takes one from its front and answers it. When main
  has worked off the ring, the stream is a frame that is not complete, and that
  cannot be made of whole frames unless there are none.
- `TypeCorrect`: the types of the whole firmware, from the invariants above and
  `ButtonTypeOK` for the button, the LED and `send_flag`.

`Client_proofs`:

- `TypeCorrect`: the types, with the length of the frame under way.
- `LeavesWithoutComplaint`, `LateLinesStay`: how the threads agree on the end. The
  inductive invariant `EndInv` says that the socket is closed after `stop_event`
  is set (`StopBeforeClose`) and that no late line passes the check
  (`ChecksBeforeSend`).
- `ClientImplementsDecoder`: the framer written in Python implements
  `FrameDecoder`, as the one written in C does, with `HearsEveryByte`.
- `FramesReadBack`, `SyncOnlyAtStart`: `FrameRoundTrip` and `NoSyncInside`, for every user id and
  message, whatever the length, and every width of bytes and CRC, the length included
  at which the board's frame cannot be heard: 256 stuffed bytes, announced as none
  (`FullFrameIsUnheard`); the client refuses such a message. `byte_stuff` and
  `byte_unstuff` take one step for each byte (`StuffTakesSteps`,
  `UnstuffTakesSteps`). The induction over the message keeps `StuffedWell`: what
  has been stuffed is free of sync bytes, and whatever the frame goes on with,
  unstuffing it reads first what has been put in (`Reads`). The escape codes are
  the case that matters (`ReadEscaped`): an escape at the end of what was stuffed
  so far would make the next byte be read as its code.
- `DamageDetected`: `DamageIsRejected`, for every message, every width, and every
  CRC polynomial that is odd. A bit shifted out of the CRC leaves its trace in
  the lowest bit, where the shift has left a zero and an odd polynomial a one; so
  no turn of the CRC maps two values to one (`CrcBitInjective`,
  `CrcByteInjective`), and two messages of one length that differ in one byte keep
  different CRCs to the end (`CrcTellsApart`). A damaged byte of the stuffed
  frame is a damaged byte of the payload, or an escape code that does not exist:
  unstuffing both frames side by side (`InStep`, `StaysInStep`, `DamageShows`) finds
  either a failure or two payloads of one length that differ in one place. If that
  is one of the CRC's two bytes, the CRC is compared with another value than before
  (`OtherPayloadFails`). Damage that makes or unmakes an escape moves every byte behind
  it and is left out, since no CRC of two bytes promises to detect that.
- `SentLinesAreRead`: `SentIsReadable`, the board reads every line as it was
  typed. The same keystream added twice cancels (`XorCancels` of `CommonLemmas`), nonce, ciphertext and tag are found where they
  were put (`PackedReadsBack`), and the codec brings them across. `SendInv` adds
  what the main thread holds: a line that was typed, under a counter that
  gives a nonce. Lines longer than the board's buffer are excluded: the
  board does not decipher them, see section 5.
- `WholeFramesAreShown`: `EveryFrameShown`, along the same argument as on the
  board: what the framer holds, what `recv` has returned and what waits in the
  socket is a stream of whole frames. `recv` cuts it anywhere, which leaves the
  stream as it is. A frame counts as shown once, or as none if it is an echo
  (`ShowInv`).
- `WholeFramesNeverRaw`: `RawOnlyAfterDamage`, from the same stream. While
  nothing is spoilt, a byte outside a frame can only be the first of the next
  one, a sync byte, and so is not printed.

`CommonLemmas`. The library's induction theorems take an operator as
a parameter, which the provers cannot instantiate, so induction over the naturals is
stated for a set of numbers: a set with zero that is closed under the successor is
all of them (`InductionOnNat`, from `LeastNatural`). That a recursive function
exists at all, so that its equation may be used, is proved from it as well
(`RecursionTo`, `RecursionOnNat`; `PowersAre` for the powers of two and of ten).
C's bitwise operators are recursive in both numbers; their
facts (`XorIs`, `XorCancels`, `XorInjective`, `XorBelow`, `AndBounds`, `OrJoins`) are proved by induction on the sum
of the two. The provers treat a quotient by a variable as opaque, so what is needed of
quotients and remainders (`DivModUnique`, `DivDiv`, `ModShift`, `ModMod`) is proved
from their definition. A stream of whole frames is
likewise the least set of pairs of stream and count that has the empty stream
and is closed under a frame at the end (`Counts`); that such a stream is empty
or begins with a frame and goes on as such a stream (`FrameFirst`) is proved
without recursion.

**Only model-checked:**

- `OnlyWholeFramesShown`, `OnlyIntactFramesAnswered`: they say that damage is
  not taken for a message, which no CRC can promise for all chunks; they hold of
  the chunks of the instances, whose damage the CRC detects.
- `StreamIsRfc8439`: it says what the examples of the RFC say, three
  inputs of fixed size; and the tag of Poly1305 with limbs of four or five bits.
- `ClientNoncesStartAnew` and the other properties of section 5, which fail.
- All liveness: fairness and ENABLED are beyond the prover.

## 5. Where code and documents disagree

With a run that shows it:

1. `trap_lost_press`: `src/main.c:46` says "Press BTN1 to send switch values".
   `handle_interrupt` reads the button's level (`src/dtekv-lib.c:179`) before it
   reads and clears the edge capture (180 to 183). A press that falls between
   the two, while the handler works on the edge of the release before, is read as
   up and its edge cleared: it is lost however long the button is held.
2. `rx_sampler_mid_bit`: `src/uart.c:227` calls the sample of a data bit
   "Middle sample". The count starts in the middle of the start bit, so the
   fourth sample after it lies at the leading edge of the cell. The receiver
   works with a sender that is a little fast, and has no margin for slower ones
   (section 3).
3. `trap_csrsi`: `src/boot.S:184` has `enable_interrupt` enable the timer's
   interrupt, and `README.md:20` has the receiver run in it. The instructions are
   `csrsi mie, 16`, `17` and `18`, whose operand is, by the RISC-V manual, a
   mask of five bits and not a bit number: they set the bits {4}, {0, 4} and
   {1, 4} of `mie`, none of the board's interrupts. On such a processor the line is
   never sampled and the button never heard. `SamplesForEver` shows what happens
   when the operand is taken for a bit number, as the comments and
   `docs/docs.md:391-393` have it.
4. `client_timeout`: `README.md:72` and `PROTOCOL.md:40` have partial frames
   dropped after about a second. The board does; the client has no timeout.
5. `nonces_client`: `PROTOCOL.md:31` has the client draw random nonces. It uses
   the counter of `aead.c`, which starts at 1 in every process.

Without a run:

- A stuffed payload of exactly 256 bytes is sent by `src/main.c:90` with length
  byte 0, which every receiver refuses; the client raises `ValueError` at that
  length. `FrameRoundTrip` states it as the one exception.
- `PROTOCOL.md:32` says messages with invalid tags are dropped. The board does;
  the client's `_try_decrypt` returns the message as it came
  (`chat_client_protocol.py:203`), which is then displayed, or, if it is not UTF-8,
  its length (`<binary: n bytes>`).
- `chat_client_protocol.py:189` announces that messages "will be decrypted and
  displayed". A text that the output's encoding has no characters for makes
  `print` raise `UnicodeEncodeError` (244), which only `receive_thread` catches
  (266): the thread ends, the connection stays open, and the client goes on
  sending without hearing (`RxFrameFails`). `DeafClientEnds` is about lost
  connections and does not hold of this.
- The button's message is sent in plain text (`src/main.c:126` has a TODO),
  while `README.md:5` describes encrypted messages.
- The client defines `CHAT_MAX_MESSAGE` (`chat_client_protocol.py:27`) and never
  uses it: an encrypted line longer than 127 bytes that still fits a frame is
  sent, and the board, which has no room for it, shows nothing.
- `src/main.c` refuses to send a text of 127 bytes, which its own
  `transform_message` may produce: the nonce is spent and the LED toggled, and
  nothing is sent.
- The header of ChaCha20 (`include/chacha20.h:85`) says that `chacha20_xor` can
  be called in several steps on one context. A call that ends inside a block drops
  the rest of that block, so the steps must be multiples of 64 bytes (the runs
  cut there). The code makes one call per message.
- The tag covers the cipher text only, without the padding and lengths of the
  AEAD construction of RFC 8439.
- `docs/docs.md:364`: the pending bit of the external interrupt controller must
  be cleared by a write to 0x04000010, "or the interrupt will keep firing".
  `handle_interrupt` only clears the edge capture of the button. If the controller
  is as described, a press is sent again and again while the button is held, and
  the handler, taken again as soon as it returns, may starve the program.
- `docs/docs.md:211` has the timer's TO bit cleared by writing 1; the code writes
  0 (`src/dtekv-lib.c:145`, `src/uart.c`). If only a 1 clears it, the first
  timeout is served for ever.
- `docs/docs.md:440` has exceptions other than ecall skip the faulting
  instruction; `handle_exception` halts.
- `docs/docs.md:18` has `printc` block until there is room; it gives up after 100000
  attempts.
- `printf` prints `%p` as `0x0x...`, since `print_hex` has a prefix of its own
  (`src/utils.c:41-45`). `itoa` indexes its digits with a negative remainder for
  every negative value (`src/utils.c:193`). `sleep_ms` never returns when its
  target lies beyond the largest value of `get_time_ms` (`src/utils.c:247-250`).
  Nothing calls the three.
- A level written to a GPIO pin while it is an input is not kept: the next write
  to its bank stores what the pin reads (`src/devices.c:211-231`).
  `uart_init` sets the direction first, and `PinsReadTrue` speaks of outputs.

## 6. What is not modelled

- **Traps**: the saving of registers; the switches' interrupt, which is masked at
  its source unless an earlier program has set `SW_IRQ_MASK` (nothing here writes
  it), and whose handler prints; exceptions other than the
  ecall of the boot, which halt the board. What a handler that prints would cost the
  receiver is the lateness of `RxSampler`.
- **Transmitter**: in `Board` a frame is transmitted whole. How long a turn of
  `busywait_cycles` takes is the compiler's choice, and longer than the cycle that
  its argument stands for. The older blocking interface (`uart_putc`,
  `uart_getc` and their kin) is left out; nothing calls it.
- **Drivers**: LEDs other than LED 0, and the reading of switches and buttons,
  are single masked accesses.
- **Utilities**: `printf`, the memory and register dumps, `itoa`, `sleep_ms` and
  the string helpers, called by nothing or by printing alone; and the printing of
  characters, which waits for the JTAG queue. **`proto.h`**: a header for another
  format, which nothing includes.
- **The bridge** is external: a serial line with a clock of its own for the
  board, a TCP stream that may close or reset for the client.
- In the client: command line, key override, and an interrupt inside
  `sendall`, which is taken as one before it. The bytes printed outside frames are
  kept as such (`raw`); one that the output cannot print is skipped by the code
  (`except ValueError`, of which `UnicodeEncodeError` is a kind), which is
  left out. Characters are bytes, and which texts are not UTF-8 or cannot be
  printed are parameters (`NotUtf8`, `NotPrintable`).

## 7. Plan

Modelled in order of importance; done so far: ring, framer, sampler with late
samples, codec, board, client, nonces, boot and traps, Poly1305, ChaCha20,
printing, displays and GPIO, and the proofs of the ring, framer, sampler,
traps, GPIO, codec, board, client, Poly1305, printing and displays.

Left: `Chat`, board and client composed over a line that loses and cuts, against
an abstract message service.
