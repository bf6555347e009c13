-------------------------------- MODULE Gpio --------------------------------
(***************************************************************************)
(* The GPIO driver of src/src/devices.c over its two banks of pins.  The    *)
(* data register of a bank drives the pins that are outputs, and reads     *)
(* back the levels of all its pins; so gpio_write and gpio_toggle, which   *)
(* read it, change a bit and write it, also store the levels of inputs.    *)
(* A register is the set of its bits that are one.                         *)
(***************************************************************************)
EXTENDS Integers

CONSTANTS
  BANK_PINS,      \* pins of the first bank (20)
  GPIO_PIN_COUNT  \* pins of both (40)

ASSUME GpioAssumption == BANK_PINS \in Nat /\ GPIO_PIN_COUNT \in Nat

Pins == 0..(GPIO_PIN_COUNT - 1)
Banks == {1, 2}
Unknown == -1

VARIABLES
  gpio_dir,   \* of each bank, the bits that are outputs
  gpio_data,  \* of each bank, the levels its outputs have
  outside,    \* the pins that are high if they are inputs
  written     \* history: the level last written to a pin since it is an output

gpioVars == <<gpio_dir, gpio_data, outside, written>>

-----------------------------------------------------------------------------
(* A pin's bank, and its bit there. *)
Bank(pin) == IF pin < BANK_PINS THEN 1 ELSE 2
Bit(pin) == IF pin < BANK_PINS THEN pin ELSE pin - BANK_PINS

IsOutput(pin) == Bit(pin) \in gpio_dir[Bank(pin)]

High(pin) ==
  IF IsOutput(pin) THEN Bit(pin) \in gpio_data[Bank(pin)] ELSE pin \in outside

(* What the data register of a bank reads. *)
Levels(bank) == {Bit(pin) : pin \in {p \in Pins : Bank(p) = bank /\ High(p)}}

gpio_read(pin) ==
  IF pin \in Pins /\ Bit(pin) \in Levels(Bank(pin)) THEN 1 ELSE 0

-----------------------------------------------------------------------------
(* The pins keep the levels that an earlier program has written.           *)
GpioInit ==
  /\ gpio_dir = [bank \in Banks |-> {}]
  /\ gpio_data \in [Banks -> {{}, {Bit(pin) : pin \in Pins}}]
  /\ outside = {}
  /\ written = [pin \in Pins |-> Unknown]

(* All pins are inputs; the data registers are left alone. *)
gpio_init ==
  /\ gpio_dir' = [bank \in Banks |-> {}]
  /\ written' = [pin \in Pins |-> Unknown]
  /\ UNCHANGED <<gpio_data, outside>>

gpio_set_direction(pin, output) ==
  /\ pin \in Pins
  /\ gpio_dir' = [gpio_dir EXCEPT ![Bank(pin)] =
                    IF output THEN @ \union {Bit(pin)} ELSE @ \ {Bit(pin)}]
  /\ written' = IF output THEN written ELSE [written EXCEPT ![pin] = Unknown]
  /\ UNCHANGED <<gpio_data, outside>>

(* The bits of a register once the bit of a pin has its value. *)
WithBit_Alone(levels, pin, value) ==
  IF value = 1 THEN {Bit(pin)} ELSE levels \ {Bit(pin)}
WithBit(levels, pin, value) ==
  IF value = 1 THEN levels \union {Bit(pin)} ELSE levels \ {Bit(pin)}

Store(pin, value) ==
  /\ gpio_data' = [gpio_data EXCEPT ![Bank(pin)] =
                     WithBit(Levels(Bank(pin)), pin, value)]
  /\ written' = IF IsOutput(pin) THEN [written EXCEPT ![pin] = value] ELSE written
  /\ UNCHANGED <<gpio_dir, outside>>

gpio_write(pin, value) == pin \in Pins /\ Store(pin, value)

gpio_toggle(pin) == pin \in Pins /\ Store(pin, 1 - gpio_read(pin))

(* The other end of a pin changes its level, whoever drives it. *)
PinMoves(pin) ==
  /\ outside' = IF pin \in outside THEN outside \ {pin} ELSE outside \union {pin}
  /\ UNCHANGED <<gpio_dir, gpio_data, written>>

(* Pins out of range are refused, and change nothing. *)
GpioNext ==
  \/ gpio_init
  \/ \E pin \in Pins :
       \/ \E output \in BOOLEAN : gpio_set_direction(pin, output)
       \/ \E value \in {0, 1} : gpio_write(pin, value)
       \/ gpio_toggle(pin)
       \/ PinMoves(pin)

GpioSpec == GpioInit /\ [][GpioNext]_gpioVars

-----------------------------------------------------------------------------
(* The transmit line is a pin of a register that other pins share: whatever *)
(* is done with them, and whatever levels come in, an output keeps and     *)
(* reads the level last written to it (devices.c:211 to 231), and an input *)
(* reads the level it is given (233 to 249).  Nothing is said of a level   *)
(* written while the pin was an input: the next write to its bank may      *)
(* overwrite it.                                                           *)
PinsReadTrue ==
  \A pin \in Pins :
    IF IsOutput(pin)
      THEN written[pin] = Unknown \/ gpio_read(pin) = written[pin]
      ELSE gpio_read(pin) = (IF pin \in outside THEN 1 ELSE 0)
=============================================================================
