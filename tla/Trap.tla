-------------------------------- MODULE Trap --------------------------------
(***************************************************************************)
(* From the first instruction of src/src/boot.S to the main loop, and the   *)
(* traps that interrupt it: _isr_handler, handle_exception and             *)
(* handle_interrupt of src/src/dtekv-lib.c, my_button_handler and init of  *)
(* src/src/main.c.  Every access to a device register or to a variable     *)
(* that a handler shares with the program is one step; the button and the  *)
(* timer move at any time.  The hardware masks interrupts while a trap is  *)
(* handled, so handlers do not nest.                                       *)
(*                                                                         *)
(* The board boots with whatever an earlier program left in memory and in  *)
(* the devices.  What its hardware makes of three of the accesses is not   *)
(* in the repository, whose code, comments and documents disagree: the     *)
(* model has each reading, and a property names the one it needs.          *)
(***************************************************************************)
EXTENDS Integers

CONSTANTS
  Delays,       \* the delays of a millisecond that uart_init makes (10)
  MaxPresses,   \* bound: presses of the button in one behaviour
  \* readings of the hardware
  CsrsiTakes,   \* the operand of csrsi for a "mask", as the RISC-V manual has
                \* it, or a "bit" number, as the comments of boot.S have it
  TOClearedBy,  \* the timer's TO is cleared by writing "zero", as the code
                \* does, or "one", as docs.md:211 has it
  EICRequests   \* the interrupt controller asks for the button's handler while
                \* an edge is captured ("level"), or, as docs.md:364 has it,
                \* until it is cleared itself ("latch"), which no code does

ASSUME TrapAssumption ==
  /\ Delays \in Nat \ {0}
  /\ MaxPresses \in Nat
  /\ CsrsiTakes \subseteq {"bit", "mask"}
  /\ TOClearedBy \subseteq {"zero", "one"}
  /\ EICRequests \subseteq {"level", "latch"}

VARIABLES
  hardware,      \* the reading that is true of this board: csrsi, to, eic
  \* the processor
  pc,            \* where boot code, init and main are, or return to
  mie,           \* the interrupts enabled one by one, a set of bit numbers
  MIE, MPIE,     \* the global enable, and what it was before the trap
  trap, stage,   \* the trap being handled, and the place in its handler
  button_state,  \* locals of handle_interrupt
  edge_bits,
  \* memory
  button_isr, timer_isr, send_flag,
  delayed,       \* the counter of delay_ms
  \* devices
  button, btn_edge, btn_mask,
  eic,           \* the button's request, where the controller latches it
  timer,         \* stopped, running once, or sampling: continuous with interrupt
  timeout,       \* its status bit
  \* history
  presses,       \* presses since the board was started
  sends,         \* messages main has sent because of send_flag, counted until
                 \* they outnumber the presses
  seen,          \* a handler has read the level of the latest press, or init
                 \* has discarded it
  raced,         \* it came in the middle of a handler, see Press
  ticked         \* the timer has expired since the last sample

cpuVars == <<mie, MIE, MPIE, trap, stage, button_state, edge_bits>>
memVars == <<button_isr, timer_isr, send_flag, delayed>>
buttonVars == <<button, btn_edge, btn_mask, eic, presses, seen, raced>>
timerVars == <<timer, timeout, ticked>>
board == <<pc, cpuVars, memVars, buttonVars, timerVars, sends>>
vars == <<hardware, board>>

Sources == {"timer", "button"}
Irq == [timer |-> 16, switches |-> 17, button |-> 18]
Timers == {"stopped", "once", "sampling"}
Stages == {"none", "level", "edge", "ack", "call", "mret"}

(* What boot.S and init do, in the order they do it, up to the main loop. *)
After_EnablesEarly ==
  [start |-> "bss", bss |-> "ecall", ecall |-> "button_isr",
   button_isr |-> "button_mask", button_mask |-> "button_edge",
   button_edge |-> "delay", wait |-> "sample", sample |-> "enable_timer",
   enable_timer |-> "enable_switches",
   enable_switches |-> "enable_button", enable_button |-> "enable",
   enable |-> "timer_isr", timer_isr |-> "test"]
After_SamplesEarly ==
  [start |-> "bss", bss |-> "ecall", ecall |-> "button_isr",
   button_isr |-> "button_mask", button_mask |-> "button_edge",
   button_edge |-> "timer_isr", timer_isr |-> "sample", sample |-> "delay",
   wait |-> "enable_timer", enable_timer |-> "enable_switches",
   enable_switches |-> "enable_button", enable_button |-> "enable",
   enable |-> "test"]
After ==
  [start |-> "bss", bss |-> "ecall", ecall |-> "button_isr",
   button_isr |-> "button_mask", button_mask |-> "button_edge",
   button_edge |-> "delay", wait |-> "timer_isr", timer_isr |-> "sample",
   sample |-> "enable_timer", enable_timer |-> "enable_switches",
   enable_switches |-> "enable_button", enable_button |-> "enable",
   enable |-> "test"]

Loop == {"test", "clear", "send"}
Places == DOMAIN After \union {"delay"} \union Loop

(* The places before init clears what the button has captured so far. *)
Early == {"start", "bss", "ecall", "button_isr", "button_mask", "button_edge"}

Init ==
  /\ hardware \in [csrsi : CsrsiTakes, to : TOClearedBy, eic : EICRequests]
  /\ pc = "start"
  /\ mie \in SUBSET {Irq[source] : source \in Sources}
  /\ MIE \in {0, 1}
  /\ MPIE \in {0, 1}
  /\ trap = "none"
  /\ stage = "none"
  /\ button_state = 0
  /\ edge_bits = 0
  /\ button_isr \in {"null", "my_button_handler"}
  /\ timer_isr \in {"null", "my_timer_isr"}
  /\ send_flag \in {0, 1}
  /\ delayed = 0
  /\ button \in {0, 1}
  /\ btn_edge \in {0, 1}
  /\ btn_mask \in {0, 1}
  /\ eic \in IF hardware.eic = "latch" THEN {0, 1} ELSE {0}
  /\ timer \in Timers
  /\ timeout \in {0, 1}
  /\ presses = 0
  /\ sends = 0
  /\ seen = TRUE
  /\ raced = FALSE
  /\ ticked = TRUE

-----------------------------------------------------------------------------
(* boot.S, init and main, while no trap is handled. *)

At(place) == pc = place /\ trap = "none"

(* Interrupts off, trap vector, stack; then the variables without a value. *)
Start ==
  /\ At("start")
  /\ mie' = {}
  /\ pc' = After.start
  /\ UNCHANGED <<MIE, MPIE, trap, stage, button_state, edge_bits, memVars,
                 buttonVars, timerVars, sends>>

ClearBss ==
  /\ At("bss")
  /\ button_isr' = "null"
  /\ timer_isr' = "null"
  /\ send_flag' = 0
  /\ pc' = After.bss
  /\ UNCHANGED <<cpuVars, delayed, buttonVars, timerVars, sends>>

(* The welcome message is printed by a trap. *)
Ecall ==
  /\ At("ecall")
  /\ trap' = "ecall"
  /\ stage' = "call"
  /\ MPIE' = MIE
  /\ MIE' = 0
  /\ UNCHANGED <<pc, mie, button_state, edge_bits, memVars, buttonVars,
                 timerVars, sends>>

SetButtonIsr ==
  /\ At("button_isr")
  /\ button_isr' = "my_button_handler"
  /\ pc' = After.button_isr
  /\ UNCHANGED <<cpuVars, timer_isr, send_flag, delayed, buttonVars, timerVars,
                 sends>>

(* The controller's latch, when the button's mask and capture bits are so. *)
Latched(mask, edge) ==
  IF hardware.eic = "latch" /\ mask = 1 /\ edge = 1 THEN 1 ELSE eic

UnmaskButton ==
  /\ At("button_mask")
  /\ btn_mask' = 1
  /\ eic' = Latched(1, btn_edge)
  /\ pc' = After.button_mask
  /\ UNCHANGED <<cpuVars, memVars, button, btn_edge, presses, seen, raced,
                 timerVars, sends>>

EdgeAfterInit_Kept == btn_edge
EdgeAfterInit == 0
ForgetEdges ==
  /\ At("button_edge")
  /\ btn_edge' = EdgeAfterInit
  /\ pc' = After.button_edge
  /\ UNCHANGED <<cpuVars, memVars, button, btn_mask, eic, presses, seen, raced,
                 timerVars, sends>>

(* timer_delay_cycles, called by uart_init through delay_ms: a timeout that *)
(* an earlier program has left behind ends the first delay at once.        *)
StartDelay ==
  /\ At("delay")
  /\ timer' = "once"
  /\ pc' = "wait"
  /\ UNCHANGED <<cpuVars, memVars, buttonVars, timeout, ticked, sends>>

(* What writing 0 to the timer's status leaves of TO. *)
TOAfterZero_Kept == timeout
TOAfterZero == IF hardware.to = "zero" THEN 0 ELSE timeout

MoreDelays == delayed + 1 < Delays
EndDelay ==
  /\ At("wait")
  /\ timeout = 1
  /\ timeout' = TOAfterZero
  /\ IF MoreDelays
       THEN delayed' = delayed + 1 /\ pc' = "delay"
       ELSE delayed' = 0 /\ pc' = After.wait
  /\ UNCHANGED <<cpuVars, button_isr, timer_isr, send_flag, buttonVars, timer,
                 ticked, sends>>

SetTimerIsr ==
  /\ At("timer_isr")
  /\ timer_isr' = "my_timer_isr"
  /\ pc' = After.timer_isr
  /\ UNCHANGED <<cpuVars, button_isr, send_flag, delayed, buttonVars, timerVars,
                 sends>>

(* uart_rx_init_interrupt. *)
StartSampling ==
  /\ At("sample")
  /\ timer' = "sampling"
  /\ pc' = After.sample
  /\ UNCHANGED <<cpuVars, memVars, buttonVars, timeout, ticked, sends>>

(* The bits that csrsi sets; its operand has five. *)
csrsi(n) ==
  IF hardware.csrsi = "bit" THEN {n} ELSE {b \in 0..4 : (n \div 2^b) % 2 = 1}

(* enable_interrupt: the sources one by one, then all of them. *)
EnableSource(place, source) ==
  /\ At(place)
  /\ mie' = mie \union csrsi(Irq[source])
  /\ pc' = After[place]
  /\ UNCHANGED <<MIE, MPIE, trap, stage, button_state, edge_bits, memVars,
                 buttonVars, timerVars, sends>>

EnableAll ==
  /\ At("enable")
  /\ MIE' = 1
  /\ pc' = After.enable
  /\ UNCHANGED <<mie, MPIE, trap, stage, button_state, edge_bits, memVars,
                 buttonVars, timerVars, sends>>

(* The part of the main loop that answers the button. *)
TestSendFlag ==
  /\ At("test")
  /\ pc' = IF send_flag = 1 THEN "clear" ELSE "test"
  /\ UNCHANGED <<cpuVars, memVars, buttonVars, timerVars, sends>>

ClearSendFlag ==
  /\ At("clear")
  /\ send_flag' = 0
  /\ pc' = "send"
  /\ UNCHANGED <<cpuVars, button_isr, timer_isr, delayed, buttonVars, timerVars,
                 sends>>

SendMessage ==
  /\ At("send")
  /\ sends' = IF sends > presses THEN sends ELSE sends + 1
  /\ pc' = "test"
  /\ UNCHANGED <<cpuVars, memVars, buttonVars, timerVars>>

Main ==
  \/ Start
  \/ ClearBss
  \/ Ecall
  \/ SetButtonIsr
  \/ UnmaskButton
  \/ ForgetEdges
  \/ StartDelay
  \/ EndDelay
  \/ SetTimerIsr
  \/ StartSampling
  \/ EnableSource("enable_timer", "timer")
  \/ EnableSource("enable_switches", "switches")
  \/ EnableSource("enable_button", "button")
  \/ EnableAll
  \/ TestSendFlag
  \/ ClearSendFlag
  \/ SendMessage

-----------------------------------------------------------------------------
(* The handlers. *)

Pending(source) ==
  CASE source = "timer"  -> timer = "sampling" /\ timeout = 1
    [] source = "button" ->
         IF hardware.eic = "latch" THEN eic = 1 ELSE btn_mask = 1 /\ btn_edge = 1

(* What handle_interrupt does for the button, in its order. *)
ButtonOrder_ClearsFirst ==
  [entry |-> "edge", edge |-> "ack", ack |-> "level", level |-> "call",
   call |-> "mret"]
ButtonOrder_ClearsLast ==
  [entry |-> "level", level |-> "edge", edge |-> "call", call |-> "ack",
   ack |-> "mret"]
ButtonOrder ==
  [entry |-> "level", level |-> "edge", edge |-> "ack", ack |-> "call",
   call |-> "mret"]

(* An interrupt is taken between two steps of the program; before the trap  *)
(* vector is set it would not come here.                                   *)
TakeInterrupt(source) ==
  /\ trap = "none"
  /\ pc # "start"
  /\ MIE = 1
  /\ Irq[source] \in mie
  /\ Pending(source)
  /\ trap' = source
  /\ stage' = IF source = "timer" THEN "ack" ELSE ButtonOrder.entry
  /\ MPIE' = MIE
  /\ MIE' = 0
  /\ UNCHANGED <<pc, mie, button_state, edge_bits, memVars, buttonVars,
                 timerVars, sends>>

ReadLevel ==
  /\ trap = "button" /\ stage = "level"
  /\ button_state' = button
  /\ seen' = (seen \/ button = 1)
  /\ stage' = ButtonOrder.level
  /\ UNCHANGED <<pc, mie, MIE, MPIE, trap, edge_bits, memVars, button, btn_edge,
                 btn_mask, eic, presses, raced, timerVars, sends>>

ReadEdge ==
  /\ trap = "button" /\ stage = "edge"
  /\ edge_bits' = btn_edge
  /\ stage' = ButtonOrder.edge
  /\ UNCHANGED <<pc, mie, MIE, MPIE, trap, button_state, memVars, buttonVars,
                 timerVars, sends>>

(* Writing ones clears the bits that are one in what is written; nobody    *)
(* writes to the controller.                                               *)
ClearEdge ==
  /\ trap = "button" /\ stage = "ack"
  /\ btn_edge' = IF edge_bits = 1 THEN 0 ELSE btn_edge
  /\ stage' = ButtonOrder.ack
  /\ UNCHANGED <<pc, mie, MIE, MPIE, trap, button_state, edge_bits, memVars,
                 button, btn_mask, eic, presses, seen, raced, timerVars, sends>>

(* my_button_handler; without a handler the state is printed. *)
CallButtonIsr ==
  /\ trap = "button" /\ stage = "call"
  /\ send_flag' = IF button_isr # "null" /\ button_state = 1 THEN 1 ELSE send_flag
  /\ stage' = ButtonOrder.call
  /\ UNCHANGED <<pc, mie, MIE, MPIE, trap, button_state, edge_bits, button_isr,
                 timer_isr, delayed, buttonVars, timerVars, sends>>

ClearTimeout ==
  /\ trap = "timer" /\ stage = "ack"
  /\ timeout' = TOAfterZero
  /\ stage' = "call"
  /\ UNCHANGED <<pc, mie, MIE, MPIE, trap, button_state, edge_bits, memVars,
                 buttonVars, timer, ticked, sends>>

(* uart_rx_isr clears the bit once more and takes a sample. *)
CallTimerIsr ==
  /\ trap = "timer" /\ stage = "call"
  /\ IF timer_isr = "null"
       THEN UNCHANGED <<timeout, ticked>>
       ELSE timeout' = TOAfterZero /\ ticked' = FALSE
  /\ stage' = "mret"
  /\ UNCHANGED <<pc, mie, MIE, MPIE, trap, button_state, edge_bits, memVars,
                 buttonVars, timer, sends>>

(* handle_exception prints the message. *)
HandleException ==
  /\ trap = "ecall" /\ stage = "call"
  /\ stage' = "mret"
  /\ UNCHANGED <<pc, mie, MIE, MPIE, trap, button_state, edge_bits, memVars,
                 buttonVars, timerVars, sends>>

(* An interrupt returns to where it came from, an ecall behind itself. *)
ReturnPlace_Same == pc
ReturnPlace == IF trap = "ecall" THEN After.ecall ELSE pc
Mret ==
  /\ stage = "mret"
  /\ pc' = ReturnPlace
  /\ trap' = "none"
  /\ stage' = "none"
  /\ MIE' = MPIE
  /\ MPIE' = 1
  /\ UNCHANGED <<mie, button_state, edge_bits, memVars, buttonVars, timerVars,
                 sends>>

Handler ==
  \/ ReadLevel
  \/ ReadEdge
  \/ ClearEdge
  \/ CallButtonIsr
  \/ ClearTimeout
  \/ CallTimerIsr
  \/ HandleException
  \/ Mret

-----------------------------------------------------------------------------
(* The devices. *)

(* Both edges are captured.  A press before init has cleared the capture     *)
(* bits is discarded on purpose; one between the reading of the level and  *)
(* the clearing of the edge is in a race with the handler.                 *)
Press ==
  /\ button = 0
  /\ presses < MaxPresses
  /\ button' = 1
  /\ btn_edge' = 1
  /\ eic' = Latched(btn_mask, 1)
  /\ presses' = presses + 1
  /\ seen' = (pc \in Early)
  /\ raced' = (trap = "button" /\ stage \in {"edge", "ack"})
  /\ UNCHANGED <<pc, cpuVars, memVars, btn_mask, timerVars, sends>>

Release ==
  /\ button = 1
  /\ button' = 0
  /\ btn_edge' = 1
  /\ eic' = Latched(btn_mask, 1)
  /\ UNCHANGED <<pc, cpuVars, memVars, btn_mask, presses, seen, raced, timerVars,
                 sends>>

TimerExpires ==
  /\ timer # "stopped"
  /\ timeout' = 1
  /\ ticked' = TRUE
  /\ timer' = IF timer = "once" THEN "stopped" ELSE timer
  /\ UNCHANGED <<pc, cpuVars, memVars, buttonVars, sends>>

Next ==
  /\ \/ Main
     \/ Handler
     \/ \E source \in Sources : TakeInterrupt(source)
     \/ Press
     \/ Release
     \/ TimerExpires
  /\ UNCHANGED hardware

Spec == Init /\ [][Next]_vars

(* A trap handler runs to its end, and a timer that runs expires.  Interrupts *)
(* interrupt the program again and again but leave it time between: its      *)
(* fairness is strong, and so is that of each interrupt beside the other.   *)
(* This cannot be asked of hardware that requests a handler again as soon   *)
(* as it has returned, so the liveness properties leave it out.             *)
FairSpec ==
  /\ Spec
  /\ WF_board(Handler)
  /\ WF_board(TimerExpires)
  /\ SF_board(Main)
  /\ \A source \in Sources : SF_board(TakeInterrupt(source))

-----------------------------------------------------------------------------
TypeOK ==
  /\ hardware \in [csrsi : CsrsiTakes, to : TOClearedBy, eic : EICRequests]
  /\ pc \in Places
  /\ mie \in SUBSET (0..31)
  /\ MIE \in {0, 1} /\ MPIE \in {0, 1}
  /\ trap \in Sources \union {"none", "ecall"}
  /\ stage \in Stages
  /\ button_state \in {0, 1} /\ edge_bits \in {0, 1}
  /\ button_isr \in {"null", "my_button_handler"}
  /\ timer_isr \in {"null", "my_timer_isr"}
  /\ send_flag \in {0, 1}
  /\ delayed \in 0..(Delays - 1)
  /\ button \in {0, 1} /\ btn_edge \in {0, 1} /\ btn_mask \in {0, 1}
  /\ eic \in {0, 1}
  /\ timer \in Timers
  /\ timeout \in {0, 1}
  /\ presses \in Nat /\ sends \in Nat
  /\ seen \in BOOLEAN /\ raced \in BOOLEAN /\ ticked \in BOOLEAN

(* No interrupt, not even one that an earlier program has left pending, is  *)
(* taken before its handler is installed (main.c:29 to 42): the press      *)
(* would be lost, or a line printed in place of a sample.                  *)
NoTrapUnhandled ==
  /\ trap = "timer" => timer_isr = "my_timer_isr"
  /\ trap = "button" => button_isr = "my_button_handler"

(* A button that is held, with no edge captured and no handler at work, has *)
(* been seen by the handler: it loses no press but one that comes between  *)
(* its reading of the level and its clearing of the edge.                  *)
SteadyPressIsSeen ==
  button = 1 /\ btn_edge = 0 /\ trap # "button" => seen \/ raced

(* "Press BTN1 to send switch values" (main.c:46) knows no such exception;   *)
(* dtekv-lib.c:179 to 183 do.                                              *)
HeldPressIsSeen ==
  button = 1 /\ btn_edge = 0 /\ trap # "button" => seen

(* The level is read before the edge is cleared, so that no press is taken  *)
(* for two, whichever edge the handler runs for: main never sends more     *)
(* messages than there were presses, unless the controller latches the     *)
(* request: then a press is sent again and again while the button is held. *)
SendsNeverExceedPresses == hardware.eic = "level" => sends <= presses

(* Where writing 0 clears TO, no two samples answer one timeout: none that  *)
(* the delays of uart_init or the handler have used up comes back.         *)
NoTimeoutServedTwice ==
  hardware.to = "zero" => (trap = "timer" /\ stage = "call" => ticked)

(* A step of the timer's handler that samples the receive line, in the     *)
(* main loop.                                                              *)
Sampling == trap = "timer" /\ stage = "call" /\ pc \in Loop

(* Where csrsi takes bit numbers, as boot.S:191 to 193 use it, and requests *)
(* end with their cause, the program boots and then takes samples for ever: *)
(* no delay takes the timer away again, no stale timeout or early interrupt *)
(* stops the boot, interrupts come back on after every handler.            *)
SamplesForEver ==
  hardware.csrsi = "bit" /\ hardware.eic = "level" => []<>Sampling

(* boot.S:184, "Enables timer interrupt (IRQ 16)", and README.md:20, "RX via *)
(* timer ISR", have the board sample its line whatever csrsi takes.        *)
TimerInterruptEnabled == []<>Sampling
=============================================================================
