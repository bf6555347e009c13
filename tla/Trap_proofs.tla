----------------------------- MODULE Trap_proofs -----------------------------
(***************************************************************************)
(* Proofs about boot and traps, for every number of presses and delays: no  *)
(* interrupt comes before its handler, and what becomes of a press.        *)
(***************************************************************************)
EXTENDS Trap, TLAPS

USE TrapAssumption

-----------------------------------------------------------------------------
(* The places that boot code and init go through, and where each leads. *)

LEMMA PlacesAre ==
  Places = {"start", "bss", "ecall", "button_isr", "button_mask", "button_edge",
            "delay", "wait", "timer_isr", "sample", "enable_timer",
            "enable_switches", "enable_button", "enable", "test", "clear", "send"}
BY DEF Places, After, Loop

LEMMA AfterIs ==
  /\ After.start = "bss" /\ After.bss = "ecall" /\ After.ecall = "button_isr"
  /\ After.button_isr = "button_mask" /\ After.button_mask = "button_edge"
  /\ After.button_edge = "delay" /\ After.wait = "timer_isr"
  /\ After.timer_isr = "sample" /\ After.sample = "enable_timer"
  /\ After["enable_timer"] = "enable_switches"
  /\ After["enable_switches"] = "enable_button"
  /\ After["enable_button"] = "enable" /\ After.enable = "test"
BY DEF After

(* Whatever csrsi takes its operand for, it sets bits of the register. *)
LEMMA CsrsiSetsBits ==
  ASSUME NEW source \in DOMAIN Irq
  PROVE  csrsi(Irq[source]) \in SUBSET (0..31)
<1>1. Irq[source] \in 0..31
  BY DEF Irq
<1>2. 0..4 \subseteq 0..31
  OBVIOUS
<1> QED
  BY <1>1, <1>2, Zenon DEF csrsi

LEMMA LatchIsBit ==
  ASSUME eic \in {0, 1}, NEW mask, NEW edge
  PROVE  Latched(mask, edge) \in {0, 1}
BY Zenon DEF Latched

LEMMA TOIsBit ==
  ASSUME timeout \in {0, 1}
  PROVE  TOAfterZero \in {0, 1}
BY Zenon DEF TOAfterZero

LEMMA OrderIs ==
  /\ ButtonOrder.entry = "level" /\ ButtonOrder.level = "edge"
  /\ ButtonOrder.edge = "ack" /\ ButtonOrder.ack = "call"
  /\ ButtonOrder.call = "mret"
BY DEF ButtonOrder

-----------------------------------------------------------------------------
(* Types.  A trap is handled when there is one, and an ecall is the one of  *)
(* the boot code.                                                          *)

TrapShape ==
  /\ trap = "none" <=> stage = "none"
  /\ trap = "ecall" => stage \in {"call", "mret"} /\ pc = "ecall"
  /\ trap = "timer" => stage \in {"ack", "call", "mret"}

Typed == TypeOK /\ TrapShape

LEMMA TypedAlways == Spec => []Typed
<1> USE PlacesAre, AfterIs, OrderIs, TOIsBit DEF Stages, Sources, Timers
<1>1. Init => Typed
  <2>1. Init => seen \in BOOLEAN /\ raced \in BOOLEAN
    BY Zenon DEF Init
  <2>2. 0 \in 0..(Delays - 1)
    OBVIOUS
  <2>3. Init => mie \in SUBSET (0..31)
    BY DEF Init, Irq
  <2>4. Init => ticked \in BOOLEAN /\ eic \in {0, 1}
    BY Zenon DEF Init
  <2> QED
    BY <2>1, <2>2, <2>3, <2>4 DEF Init, Typed, TypeOK, TrapShape
<1>2. Typed /\ [Next]_vars => Typed'
  <2> SUFFICES ASSUME Typed, [Next]_vars PROVE Typed'
    OBVIOUS
  <2>0. hardware' = hardware
    BY DEF Next, vars
  <2> USE <2>0 DEF Typed, TypeOK, TrapShape, At, cpuVars, memVars, buttonVars,
              timerVars
  <2>1. CASE Start
    BY <2>1 DEF Start
  <2>2. CASE ClearBss
    BY <2>2 DEF ClearBss
  <2>3. CASE Ecall
    BY <2>3 DEF Ecall
  <2>4. CASE SetButtonIsr
    BY <2>4 DEF SetButtonIsr
  <2>5. CASE UnmaskButton
    <3>1. eic' \in {0, 1}
      BY <2>5, LatchIsBit, Zenon DEF UnmaskButton
    <3> QED
      BY <2>5, <3>1 DEF UnmaskButton
  <2>6. CASE ForgetEdges
    BY <2>6 DEF ForgetEdges, EdgeAfterInit
  <2>7. CASE StartDelay
    BY <2>7 DEF StartDelay
  <2>8. CASE EndDelay
    BY <2>8 DEF EndDelay, MoreDelays
  <2>9. CASE SetTimerIsr
    BY <2>9 DEF SetTimerIsr
  <2>10. CASE StartSampling
    BY <2>10 DEF StartSampling
  <2>11. ASSUME NEW place \in {"enable_timer", "enable_switches", "enable_button"},
                NEW source \in DOMAIN Irq, EnableSource(place, source)
         PROVE  Typed'
    <3>1. csrsi(Irq[source]) \in SUBSET (0..31)
      BY CsrsiSetsBits
    <3>2. mie' \in SUBSET (0..31)
      BY <2>11, <3>1 DEF EnableSource
    <3>3. After[place] \in {"enable_switches", "enable_button", "enable"}
      OBVIOUS
    <3>4. pc' \in Places /\ pc # "ecall" /\ UNCHANGED <<trap, stage>>
      BY <2>11, <3>3 DEF EnableSource
    <3> QED
      BY <2>11, <3>2, <3>4 DEF EnableSource
  <2>12. CASE \/ EnableSource("enable_timer", "timer")
              \/ EnableSource("enable_switches", "switches")
              \/ EnableSource("enable_button", "button")
    BY <2>11, <2>12 DEF Irq
  <2>13. CASE EnableAll
    BY <2>13 DEF EnableAll
  <2>14. CASE TestSendFlag
    BY <2>14 DEF TestSendFlag
  <2>15. CASE ClearSendFlag
    BY <2>15 DEF ClearSendFlag
  <2>16. CASE SendMessage
    BY <2>16 DEF SendMessage
  <2>17. CASE ReadLevel
    BY <2>17 DEF ReadLevel
  <2>18. CASE ReadEdge
    BY <2>18 DEF ReadEdge
  <2>19. CASE ClearEdge
    BY <2>19 DEF ClearEdge
  <2>20. CASE CallButtonIsr
    BY <2>20 DEF CallButtonIsr
  <2>21. CASE ClearTimeout
    BY <2>21 DEF ClearTimeout
  <2>22. CASE CallTimerIsr
    <3>1. ticked' \in BOOLEAN
      BY <2>22, Zenon DEF CallTimerIsr
    <3>2. timeout' \in {0, 1}
      BY <2>22, TOIsBit, Zenon DEF CallTimerIsr
    <3> QED
      BY <2>22, <3>1, <3>2 DEF CallTimerIsr
  <2>23. CASE HandleException
    BY <2>23 DEF HandleException
  <2>24. CASE Mret
    BY <2>24 DEF Mret, ReturnPlace
  <2>25. ASSUME NEW source \in Sources, TakeInterrupt(source) PROVE Typed'
    BY <2>25 DEF TakeInterrupt
  <2>26. CASE Press
    <3>1. eic' \in {0, 1}
      BY <2>26, LatchIsBit, Zenon DEF Press
    <3> QED
      BY <2>26, <3>1 DEF Press
  <2>27. CASE Release
    <3>1. eic' \in {0, 1}
      BY <2>27, LatchIsBit, Zenon DEF Release
    <3> QED
      BY <2>27, <3>1 DEF Release
  <2>28. CASE TimerExpires
    BY <2>28 DEF TimerExpires
  <2>29. CASE UNCHANGED vars
    BY <2>29 DEF vars, board
  <2> QED
    BY <2>1, <2>2, <2>3, <2>4, <2>5, <2>6, <2>7, <2>8, <2>9, <2>10, <2>11,
       <2>12, <2>13, <2>14, <2>15, <2>16, <2>17, <2>18, <2>19, <2>20, <2>21,
       <2>22, <2>23, <2>24, <2>25, <2>26, <2>27, <2>28, <2>29
       DEF Next, Main, Handler
<1> QED
  BY <1>1, <1>2, PTL DEF Spec

(* Every variable keeps its type, and the delays of uart_init are counted   *)
(* up to their number, whatever an earlier program left behind.            *)
THEOREM TypeCorrect == Spec => []TypeOK
<1>1. Typed => TypeOK
  BY DEF Typed
<1> QED
  BY <1>1, TypedAlways, PTL
-----------------------------------------------------------------------------
(* Handlers are installed before any interrupt is enabled, so that none is  *)
(* taken at a place where its handler is missing.                          *)

Ready ==
  {"enable_timer", "enable_switches", "enable_button", "enable"} \union Loop

Installed ==
  /\ pc \notin {"start", "bss", "ecall", "button_isr"}
       => button_isr = "my_button_handler"
  /\ pc \in {"sample"} \union Ready => timer_isr = "my_timer_isr"
  /\ pc # "start" /\ mie # {} => pc \in Ready
  /\ trap \in Sources => pc \in Ready

LEMMA InstalledAlways == Spec => []Installed
<1> USE AfterIs DEF Sources, Loop, Ready
<1>1. Init => Installed
  BY DEF Init, Installed
<1>2. Typed /\ Installed /\ [Next]_vars => Installed'
  <2> SUFFICES ASSUME Typed, Installed, [Next]_vars PROVE Installed'
    OBVIOUS
  <2>0. hardware' = hardware
    BY DEF Next, vars
  <2> USE PlacesAre, <2>0 DEF Typed, TypeOK, TrapShape, Installed, At, cpuVars,
              memVars, buttonVars, timerVars
  <2>1. CASE Start
    BY <2>1 DEF Start
  <2>2. CASE ClearBss
    BY <2>2 DEF ClearBss
  <2>3. CASE Ecall
    BY <2>3 DEF Ecall
  <2>4. CASE SetButtonIsr
    BY <2>4 DEF SetButtonIsr
  <2>5. CASE UnmaskButton \/ ForgetEdges
    BY <2>5 DEF UnmaskButton, ForgetEdges
  <2>6. CASE StartDelay \/ EndDelay
    BY <2>6 DEF StartDelay, EndDelay
  <2>7. CASE SetTimerIsr
    BY <2>7 DEF SetTimerIsr
  <2>8. CASE StartSampling
    BY <2>8 DEF StartSampling
  <2>9. CASE EnableSource("enable_timer", "timer")
    BY <2>9 DEF EnableSource
  <2>10. CASE \/ EnableSource("enable_switches", "switches")
              \/ EnableSource("enable_button", "button")
    BY <2>10 DEF EnableSource
  <2>11. CASE EnableAll
    BY <2>11 DEF EnableAll
  <2>12. CASE TestSendFlag \/ ClearSendFlag \/ SendMessage
    BY <2>12 DEF TestSendFlag, ClearSendFlag, SendMessage
  <2>13. CASE ReadLevel \/ ReadEdge \/ ClearEdge \/ CallButtonIsr
    BY <2>13 DEF ReadLevel, ReadEdge, ClearEdge, CallButtonIsr
  <2>14. CASE ClearTimeout \/ CallTimerIsr \/ HandleException
    BY <2>14 DEF ClearTimeout, CallTimerIsr, HandleException
  <2>15. CASE Mret
    BY <2>15 DEF Mret, ReturnPlace
  <2>16. ASSUME NEW source \in Sources, TakeInterrupt(source)
         PROVE  Installed'
    BY <2>16 DEF TakeInterrupt
  <2>17. CASE Press \/ Release \/ TimerExpires
    BY <2>17 DEF Press, Release, TimerExpires
  <2>18. CASE UNCHANGED vars
    BY <2>18 DEF vars, board
  <2> QED
    BY <2>1, <2>2, <2>3, <2>4, <2>5, <2>6, <2>7, <2>8, <2>9, <2>10, <2>11,
       <2>12, <2>13, <2>14, <2>15, <2>16, <2>17, <2>18 DEF Next, Main, Handler
<1> QED
  BY <1>1, <1>2, TypedAlways, PTL DEF Spec

(* No interrupt finds its handler missing, whatever was pending before boot. *)
THEOREM HandlersInTime == Spec => []NoTrapUnhandled
<1>1. Installed => NoTrapUnhandled
  BY DEF Installed, NoTrapUnhandled, Ready, Loop, Sources
<1> QED
  BY <1>1, InstalledAlways, PTL

-----------------------------------------------------------------------------
(* What becomes of a press.  While the handler is between its reading of   *)
(* the level and its clearing of the edge, the edge is captured; outside   *)
(* of it a press that has been seen has no edge captured any more.  Both   *)
(* need a controller that requests the handler only while there is an edge. *)

InWindow == trap = "button" /\ stage \in {"edge", "ack"}

PressKept ==
  /\ pc \in Early => seen
  /\ pc = "clear" => send_flag = 1
  /\ InWindow /\ button = 1 => seen \/ raced
  /\ button = 1 /\ btn_edge = 0 => seen \/ raced
  /\ hardware.eic = "level" =>
       /\ trap = "button" /\ stage \in {"level", "edge", "ack"} => btn_edge = 1
       /\ trap = "button" /\ stage = "ack" => edge_bits = 1
       /\ pc \notin Early /\ button = 1 /\ seen /\ ~InWindow => btn_edge = 0

(* Each press pays for one message: the message is in the press until the   *)
(* handler reads the level, then in the handler, in the flag, and in main's *)
(* hands between the clearing of the flag and the sending.                 *)
One(condition) == IF condition THEN 1 ELSE 0
Credit ==
  sends + One(pc = "send")
        + One(pc \notin {"start", "bss"} /\ send_flag = 1)
        + One(trap = "button" /\ stage \in {"edge", "ack", "call"} /\ button_state = 1)
        + One(button = 1 /\ ~seen)

NoMoreThanPressed == hardware.eic = "level" => Credit <= presses
LEMMA PressKeptAlways == Spec => []PressKept
<1> USE AfterIs, OrderIs DEF Sources, Loop, Ready, Early, InWindow
<1>1. Init => PressKept
  BY DEF Init, PressKept
<1>2. Typed /\ Installed /\ PressKept /\ [Next]_vars => PressKept'
  <2> SUFFICES ASSUME Typed, Installed, PressKept, [Next]_vars PROVE PressKept'
    OBVIOUS
  <2>0. hardware' = hardware
    BY DEF Next, vars
  <2> USE PlacesAre, <2>0 DEF Typed, TypeOK, TrapShape, Installed, PressKept, At,
              cpuVars, memVars, buttonVars, timerVars
  <2>1. CASE Start \/ ClearBss \/ SetButtonIsr \/ UnmaskButton
    BY <2>1 DEF Start, ClearBss, SetButtonIsr, UnmaskButton
  <2>2. CASE Ecall
    BY <2>2 DEF Ecall
  <2>3. CASE ForgetEdges
    BY <2>3 DEF ForgetEdges, EdgeAfterInit
  <2>4. CASE StartDelay \/ EndDelay \/ SetTimerIsr \/ StartSampling
    BY <2>4 DEF StartDelay, EndDelay, SetTimerIsr, StartSampling
  <2>5. CASE EnableSource("enable_timer", "timer")
    BY <2>5 DEF EnableSource
  <2>6. CASE \/ EnableSource("enable_switches", "switches")
              \/ EnableSource("enable_button", "button")
    BY <2>6 DEF EnableSource
  <2>7. CASE EnableAll
    BY <2>7 DEF EnableAll
  <2>8. CASE TestSendFlag \/ ClearSendFlag \/ SendMessage
    BY <2>8 DEF TestSendFlag, ClearSendFlag, SendMessage
  <2>9. CASE ReadLevel
    BY <2>9 DEF ReadLevel
  <2>10. CASE ReadEdge
    BY <2>10 DEF ReadEdge
  <2>11. CASE ClearEdge
    BY <2>11 DEF ClearEdge
  <2>12. CASE CallButtonIsr
    BY <2>12 DEF CallButtonIsr
  <2>13. CASE ClearTimeout \/ CallTimerIsr \/ HandleException
    BY <2>13 DEF ClearTimeout, CallTimerIsr, HandleException
  <2>14. CASE Mret
    BY <2>14 DEF Mret, ReturnPlace
  <2>15. ASSUME NEW source \in Sources, TakeInterrupt(source)
         PROVE  PressKept'
    BY <2>15 DEF TakeInterrupt, Pending
  <2>16. CASE Press
    <3>1. (seen' <=> pc \in Early) /\ (raced' <=> InWindow)
      BY <2>16, Zenon DEF Press
    <3>2. /\ button' = 1 /\ btn_edge' = 1
          /\ UNCHANGED <<pc, trap, stage, edge_bits, send_flag>>
      BY <2>16 DEF Press
    <3> QED
      BY <3>1, <3>2
  <2>17. CASE Release
    BY <2>17 DEF Release
  <2>18. CASE TimerExpires
    BY <2>18 DEF TimerExpires
  <2>19. CASE UNCHANGED vars
    BY <2>19 DEF vars, board
  <2> QED
    BY <2>1, <2>2, <2>3, <2>4, <2>5, <2>6, <2>7, <2>8, <2>9, <2>10, <2>11,
       <2>12, <2>13, <2>14, <2>15, <2>16, <2>17, <2>18, <2>19
       DEF Next, Main, Handler
<1> QED
  BY <1>1, <1>2, TypedAlways, InstalledAlways, PTL DEF Spec

(* The handler loses no press but one in its window, whatever the hardware. *)
THEOREM HeldPressSeenUnlessRaced == Spec => []SteadyPressIsSeen
<1>1. PressKept => SteadyPressIsSeen
  BY DEF PressKept, SteadyPressIsSeen
<1> QED
  BY <1>1, PressKeptAlways, PTL

LEMMA CreditAlways == Spec => []NoMoreThanPressed
<1> USE AfterIs, OrderIs DEF Sources, Loop, Ready, Early, InWindow
<1>1. Init => NoMoreThanPressed
  BY DEF Init, NoMoreThanPressed, Credit, One
<1>2. Typed /\ Installed /\ PressKept /\ NoMoreThanPressed /\ [Next]_vars
        => NoMoreThanPressed'
  <2> SUFFICES ASSUME Typed, Installed, PressKept, NoMoreThanPressed, [Next]_vars
               PROVE  NoMoreThanPressed'
    OBVIOUS
  <2>0. hardware' = hardware
    BY DEF Next, vars
  <2> USE PlacesAre, <2>0 DEF Typed, TypeOK, TrapShape, Installed, PressKept, At,
              NoMoreThanPressed, Credit, One, cpuVars, memVars, buttonVars,
              timerVars
  <2>1. CASE Start \/ ClearBss \/ SetButtonIsr \/ UnmaskButton
    BY <2>1 DEF Start, ClearBss, SetButtonIsr, UnmaskButton
  <2>2. CASE Ecall
    BY <2>2 DEF Ecall
  <2>3. CASE ForgetEdges
    BY <2>3 DEF ForgetEdges, EdgeAfterInit
  <2>4. CASE StartDelay \/ EndDelay \/ SetTimerIsr \/ StartSampling
    BY <2>4 DEF StartDelay, EndDelay, SetTimerIsr, StartSampling
  <2>5. CASE EnableSource("enable_timer", "timer")
    BY <2>5 DEF EnableSource
  <2>6. CASE \/ EnableSource("enable_switches", "switches")
              \/ EnableSource("enable_button", "button")
    BY <2>6 DEF EnableSource
  <2>7. CASE EnableAll
    BY <2>7 DEF EnableAll
  <2>8. CASE TestSendFlag \/ ClearSendFlag \/ SendMessage
    <3>1. CASE TestSendFlag
      BY <3>1 DEF TestSendFlag
    <3>2. CASE ClearSendFlag
      BY <3>2 DEF ClearSendFlag
    <3>3. CASE SendMessage
      BY <3>3 DEF SendMessage
    <3> QED
      BY <2>8, <3>1, <3>2, <3>3
  <2>9. CASE ReadLevel
    <3>1. hardware.eic = "level" /\ button = 1 => ~seen
      BY <2>9 DEF ReadLevel
    <3>2. seen' <=> seen \/ button = 1
      BY <2>9, Zenon DEF ReadLevel
    <3>3. /\ trap = "button" /\ stage = "level" /\ stage' = "edge"
          /\ button_state' = button
          /\ UNCHANGED <<pc, trap, send_flag, sends, presses, button>>
      BY <2>9 DEF ReadLevel
    <3> QED
      BY <3>1, <3>2, <3>3
  <2>10. CASE ReadEdge
    BY <2>10 DEF ReadEdge
  <2>11. CASE ClearEdge
    BY <2>11 DEF ClearEdge
  <2>12. CASE CallButtonIsr
    BY <2>12 DEF CallButtonIsr
  <2>13. CASE ClearTimeout \/ CallTimerIsr \/ HandleException
    BY <2>13 DEF ClearTimeout, CallTimerIsr, HandleException
  <2>14. CASE Mret
    BY <2>14 DEF Mret, ReturnPlace
  <2>15. ASSUME NEW source \in Sources, TakeInterrupt(source)
         PROVE  NoMoreThanPressed'
    BY <2>15 DEF TakeInterrupt, Pending
  <2>16. CASE Press
    BY <2>16 DEF Press
  <2>17. CASE Release
    BY <2>17 DEF Release
  <2>18. CASE TimerExpires
    BY <2>18 DEF TimerExpires
  <2>19. CASE UNCHANGED vars
    BY <2>19 DEF vars, board
  <2> QED
    BY <2>1, <2>2, <2>3, <2>4, <2>5, <2>6, <2>7, <2>8, <2>9, <2>10, <2>11,
       <2>12, <2>13, <2>14, <2>15, <2>16, <2>17, <2>18, <2>19
       DEF Next, Main, Handler
<1> QED
  BY <1>1, <1>2, TypedAlways, InstalledAlways, PressKeptAlways, PTL DEF Spec

(* No press is taken for two, where the button's request ends with its      *)
(* cause.                                                                  *)
THEOREM NoPressSentTwice == Spec => []SendsNeverExceedPresses
<1>1. Typed /\ NoMoreThanPressed => SendsNeverExceedPresses
  BY DEF Typed, TypeOK, NoMoreThanPressed, Credit, One, SendsNeverExceedPresses
<1> QED
  BY <1>1, TypedAlways, CreditAlways, PTL

-----------------------------------------------------------------------------
(* A timeout that has been served. *)

TimeoutsTicked ==
  hardware.to = "zero" =>
    /\ timeout = 1 => ticked
    /\ trap = "timer" /\ stage \in {"ack", "call"} => ticked

(* No two samples answer one timeout, where writing 0 clears it. *)
THEOREM TimeoutsServedOnce == Spec => []NoTimeoutServedTwice
<1>1. Init => TimeoutsTicked
  BY DEF Init, TimeoutsTicked
<1>2. Typed /\ Installed /\ TimeoutsTicked /\ [Next]_vars => TimeoutsTicked'
  <2> SUFFICES ASSUME Typed, Installed, TimeoutsTicked, [Next]_vars
               PROVE  TimeoutsTicked'
    OBVIOUS
  <2>0. hardware' = hardware
    BY DEF Next, vars
  <2> USE <2>0, OrderIs DEF Typed, TypeOK, TrapShape, Installed, TimeoutsTicked, At,
              Sources, cpuVars, memVars, buttonVars, timerVars
  <2>1. CASE Start \/ ClearBss \/ Ecall \/ SetButtonIsr \/ UnmaskButton \/ ForgetEdges
    BY <2>1 DEF Start, ClearBss, Ecall, SetButtonIsr, UnmaskButton, ForgetEdges
  <2>2. CASE StartDelay \/ EndDelay \/ SetTimerIsr \/ StartSampling
    BY <2>2 DEF StartDelay, EndDelay, TOAfterZero, SetTimerIsr, StartSampling
  <2>3. CASE \/ EnableSource("enable_timer", "timer")
             \/ EnableSource("enable_switches", "switches")
             \/ EnableSource("enable_button", "button")
             \/ EnableAll
    BY <2>3 DEF EnableSource, EnableAll
  <2>4. CASE TestSendFlag \/ ClearSendFlag \/ SendMessage
    BY <2>4 DEF TestSendFlag, ClearSendFlag, SendMessage
  <2>5. CASE ReadLevel \/ ReadEdge \/ ClearEdge \/ CallButtonIsr
    BY <2>5 DEF ReadLevel, ReadEdge, ClearEdge, CallButtonIsr
  <2>6. CASE ClearTimeout
    BY <2>6 DEF ClearTimeout, TOAfterZero
  <2>7. CASE CallTimerIsr
    BY <2>7 DEF CallTimerIsr, TOAfterZero
  <2>8. CASE HandleException \/ Mret
    BY <2>8 DEF HandleException, Mret
  <2>9. ASSUME NEW source \in Sources, TakeInterrupt(source)
        PROVE  TimeoutsTicked'
    BY <2>9 DEF TakeInterrupt, Pending
  <2>10. CASE Press \/ Release
    BY <2>10 DEF Press, Release
  <2>11. CASE TimerExpires
    BY <2>11 DEF TimerExpires
  <2>12. CASE UNCHANGED vars
    BY <2>12 DEF vars, board
  <2> QED
    BY <2>1, <2>2, <2>3, <2>4, <2>5, <2>6, <2>7, <2>8, <2>9, <2>10, <2>11, <2>12
       DEF Next, Main, Handler
<1>3. TimeoutsTicked => NoTimeoutServedTwice
  BY DEF TimeoutsTicked, NoTimeoutServedTwice
<1> QED
  BY <1>1, <1>2, <1>3, TypedAlways, InstalledAlways, PTL DEF Spec
=============================================================================
