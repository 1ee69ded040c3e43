----------------------------- MODULE FrontPanel -----------------------------
(***************************************************************************)
(* The front panel as pinballd drives it: the probe makes the drivers the  *)
(* ID PROM lists, in its order (Probulator.cpp, DriverList.h); then a      *)
(* timer polls the buttons on the expander (drivers/button/Direct.cpp) and *)
(* clients set indicators (Client::updateIndicators).  The chips outlive   *)
(* the process, and any bus transfer may fail.  Ft6336 has the touch       *)
(* driver, PinballServer the clients.                                      *)
(***************************************************************************)
EXTENDS Pca9535, Pca9955

CONSTANTS
  Proms,      (* ID PROM contents: [drivers, map]                          *)
  Requests,   (* indicator requests: functions from indicators to values   *)
  NButtons,   (* pins 0 .. NButtons - 1 have buttons, active high          *)
  LedOe,      (* the LED controller's output enable, active low            *)
  LcdReset    (* the display's reset line, active low                      *)

Buttons == {p \in Pins : p < NButtons}

ASSUME PanelAssumption ==
  /\ NButtons \in Nat
  /\ {LedOe, LcdReset} \subseteq Pins \ Buttons /\ LedOe # LcdReset
  /\ \A p \in Proms : p.map \in Seq(Entry) /\ p.drivers \in Seq({"touch", "lcd", "led"})
  /\ \A req \in Requests : /\ DOMAIN req \subseteq Indicators
                            /\ \A i \in DOMAIN req : req[i] \in Brightness \cup Color \cup {Invalid}

VARIABLES
  prom,       (* what the ID PROM says                                     *)
  pc,         (* "exited", "crashed", "probe" or "loop"                    *)
  todo, ops,  (* drivers still to make; steps left of the one being made   *)
  expander,   (* gFrontIoExpander is set                                   *)
  direct, leds,     (* the button and the LED driver are registered        *)
  buttonLastState,  (* the buttons found pressed by the last poll          *)
  told,       (* the buttons clients were told are pressed                 *)
  asked       (* the last value accepted for each indicator                *)

buttonVars == <<direct, buttonLastState, told>>
ledVars == <<leds, channels, asked>>
vars == <<prom, pc, todo, ops, expander, buttonVars, ledVars, pwm, expanderVars, high>>

Init ==
  /\ prom \in Proms
  /\ pc = "exited"
  /\ todo = << >> /\ ops = << >>
  /\ expander = FALSE /\ NoExpander
  /\ direct = FALSE /\ buttonLastState = {} /\ told = {}
  /\ leds = FALSE /\ channels = NoLeds
  /\ asked = [i \in Indicators |-> Off]
  /\ chipCfg = Pins /\ chipOut = Pins
  /\ high = {}
  /\ pwm = Dark

(***************************************************************************)
(* The end of the process                                                  *)
(***************************************************************************)
Ends(how) ==
  /\ pc' = how
  /\ todo' = << >> /\ ops' = << >>
  /\ expander' = FALSE
  /\ cfgPort' = Unwritten({}) /\ outputPort' = Unwritten({})
  /\ direct' = FALSE /\ buttonLastState' = {} /\ told' = {}
  /\ leds' = FALSE /\ channels' = NoLeds
  /\ asked' = [i \in Indicators |-> Off]
  /\ UNCHANGED prom

(* Probulator's destructor: the LED driver's writes 0 to every channel; if *)
(* that throws, the process is terminated.                                 *)
CleanUp(lit) ==
  \/ ~leds /\ pwm' = lit /\ Ends("exited")
  \/ leds /\ pwm' = Dark /\ Ends("exited")
  \/ leds /\ pwm' = lit /\ Ends("crashed")

(* An exception leaves a callback: main() catches it, or it cannot get     *)
(* through libevent's frames and the process aborts.                       *)
LoopThrows(lit) ==
  \/ CleanUp(lit)
  \/ pwm' = lit /\ Ends("crashed")

(* SIGINT, SIGTERM, SIGHUP.                                                *)
HandleTermination ==
  /\ pc = "loop"
  /\ CleanUp(pwm)
  /\ UNCHANGED <<chipCfg, chipOut, high>>

Kill ==
  /\ pc \in {"probe", "loop"}
  /\ Ends("crashed")
  /\ UNCHANGED <<pwm, chipCfg, chipOut, high>>

(***************************************************************************)
(* The probe                                                               *)
(***************************************************************************)
Start ==
  /\ pc \in {"exited", "crashed"}
  /\ pc' = "probe"
  /\ todo' = prom.drivers
  /\ UNCHANGED <<prom, ops, expander, buttonVars, ledVars, pwm, expanderVars, high>>

(* The steps of each driver's constructor, in gSupportedDrivers.           *)
InitGpio == [n \in 1 .. NButtons |-> <<"configure", n - 1, Input>>]
LcdSteps == <<<<"expander">>, <<"configure", LcdReset, Output>>,
              <<"set", LcdReset, TRUE>>, <<"set", LcdReset, FALSE>>, <<"set", LcdReset, TRUE>>,
              <<"display">>>> \o InitGpio \o <<<<"direct">>>>
LedSteps == <<<<"configure", LedOe, Output>>, <<"set", LedOe, FALSE>>, <<"leds">>>>
Steps(driver) ==
  CASE driver = "lcd"   -> LcdSteps
    [] driver = "led"   -> LedSteps
    [] driver = "touch" -> <<<<"touch">>>>

NextDriver ==
  /\ pc = "probe" /\ ops = << >> /\ todo # << >>
  /\ ops' = Steps(Head(todo))
  /\ todo' = Tail(todo)
  /\ UNCHANGED <<prom, pc, expander, buttonVars, ledVars, pwm, expanderVars, high>>

(* gFrontIoExpander is dereferenced before any driver made it.             *)
NullExpander ==
  /\ pc = "probe" /\ ops # << >>
  /\ Head(ops)[1] \in {"configure", "set"} /\ ~expander
  /\ Ends("crashed")
  /\ UNCHANGED <<pwm, chipCfg, chipOut, high>>

ExpanderStep(op) ==
  \/ op[1] = "expander" /\ ~expander /\ NewExpander /\ expander' = TRUE
  \/ op[1] = "configure" /\ expander /\ ConfigurePin(op[2], op[3]) /\ UNCHANGED expander
  \/ op[1] = "set" /\ expander /\ SetPinState(op[2], op[3]) /\ UNCHANGED expander
  \/ op[1] \in {"display", "direct", "leds", "touch"} /\ UNCHANGED <<expander, expanderVars>>

(* Pca9955's constructor and driverDidRegister().                          *)
MakeLeds ==
  /\ LedMapOK(prom.map)
  /\ leds' = TRUE /\ channels' = ReadLedMap(prom.map)
  /\ pwm' = Dark

DriverStep ==
  /\ pc = "probe" /\ ops # << >>
  /\ ExpanderStep(Head(ops))
  /\ IF Head(ops)[1] = "leds" THEN MakeLeds ELSE UNCHANGED <<leds, channels, pwm>>
  /\ direct' = (direct \/ Head(ops)[1] = "direct")
  /\ ops' = Tail(ops)
  /\ UNCHANGED <<prom, pc, todo, buttonLastState, told, asked, high>>

(* A driver's constructor throws, for a transfer that failed or for what   *)
(* the PROM says, and main() returns 1.  What a failing transfer was to    *)
(* write may have reached the chip.                                        *)
StepThrows ==
  /\ pc = "probe" /\ ops # << >>
  /\ LET op == Head(ops) IN
       /\ op[1] \in {"configure", "set"} => expander
       /\ CASE op[1] = "expander"  -> chipCfg' \in PartWritten(chipCfg, Unwritten(Pins))
            [] op[1] = "configure" -> chipCfg' \in PartWritten(chipCfg, Configured(op[2], op[3]))
            [] OTHER               -> UNCHANGED chipCfg
       /\ IF op[1] = "set" THEN chipOut' \in PartWritten(chipOut, PinSet(op[2], op[3]))
                           ELSE UNCHANGED chipOut
       /\ \/ CleanUp(pwm)
          \/ op[1] = "leds" /\ LedMapOK(prom.map) /\ CleanUp(Dark)
  /\ UNCHANGED high

EnterLoop ==
  /\ pc = "probe" /\ ops = << >> /\ todo = << >>
  /\ pc' = "loop"
  /\ UNCHANGED <<prom, todo, ops, expander, buttonVars, ledVars, pwm, expanderVars, high>>

(***************************************************************************)
(* The loop                                                                *)
(***************************************************************************)
Press(b) ==
  /\ high' = IF b \in high THEN high \ {b} ELSE high \cup {b}
  /\ UNCHANGED <<prom, pc, todo, ops, expander, buttonVars, ledVars, pwm, expanderVars>>

(* The state masked with buttonBits.                                       *)
Pressed(state) == state \cap Buttons

(* Mutant of Changes: only presses are changes.                            *)
Presses(now) == [b \in now \ buttonLastState |-> TRUE]

(* The changes updateButtonState() puts into its message.                  *)
Changes(now) ==
  [b \in {c \in Buttons : (c \in now) # (c \in buttonLastState)} |-> b \in now]

(* A poll tells the changes to every client, then takes the state over.    *)
UpdateButtonState ==
  /\ pc = "loop" /\ direct
  /\ \E now \in {Pressed(state) : state \in PinStates} :
       /\ told' = {b \in Buttons : IF b \in DOMAIN Changes(now) THEN Changes(now)[b]
                                                               ELSE b \in told}
       /\ buttonLastState' = now
  /\ UNCHANGED <<prom, pc, todo, ops, expander, direct, ledVars, pwm, expanderVars, high>>

PollThrows ==
  /\ pc = "loop" /\ direct
  /\ LoopThrows(pwm)
  /\ UNCHANGED <<chipCfg, chipOut, high>>

Thrown(req) == {i \in DOMAIN req : Throws(req[i], i)}

(* A request whose values are all in order.                                *)
UpdateIndicators(req) ==
  /\ pc = "loop"
  /\ Thrown(req) = {}
  /\ pwm' = Applied(req)
  /\ asked' = [i \in Indicators |-> IF i \in DOMAIN req THEN req[i] ELSE asked[i]]
  /\ UNCHANGED <<prom, pc, todo, ops, expander, buttonVars, leds, channels, expanderVars, high>>

(* A value throws, or a transfer fails: in the order of an unordered_map   *)
(* any part of the others has been applied by then.                        *)
UpdateThrows(req) ==
  /\ pc = "loop"
  /\ Thrown(req) # {} \/ leds
  /\ LET target == Applied([i \in DOMAIN req \ Thrown(req) |-> req[i]])
     IN  \E reached \in SUBSET Chans :
           LoopThrows([ch \in Chans |-> IF ch \in reached THEN target[ch] ELSE pwm[ch]])
  /\ UNCHANGED <<chipCfg, chipOut, high>>

Next ==
  \/ Start \/ NextDriver \/ NullExpander \/ DriverStep \/ StepThrows \/ EnterLoop
  \/ HandleTermination \/ Kill
  \/ \E b \in Buttons : Press(b)
  \/ UpdateButtonState \/ PollThrows
  \/ \E req \in Requests : UpdateIndicators(req) \/ UpdateThrows(req)

Spec == Init /\ [][Next]_vars

(***************************************************************************)
(* Properties                                                              *)
(***************************************************************************)
TypeOK ==
  /\ prom \in Proms
  /\ pc \in {"exited", "crashed", "probe", "loop"}
  /\ \A n \in DOMAIN todo : todo[n] \in {"touch", "lcd", "led"}
  /\ {expander, direct, leds} \subseteq BOOLEAN
  /\ buttonLastState \subseteq Buttons /\ told \subseteq Buttons
  /\ \A i \in Indicators : asked[i] \in Brightness \cup Color
  /\ ExpanderTypeOK /\ LedTypeOK

(* While pinballd serves, every channel of every indicator has the level   *)
(* of the last value accepted for that indicator since it started: no      *)
(* other indicator shares the channel, nothing of an earlier process is    *)
(* left in the chip, and no request is half applied.                       *)
IndicatorsShown ==
  pc = "loop" =>
    \A i \in DOMAIN channels : \A k \in DOMAIN channels[i] :
      pwm[channels[i][k]] = Component(asked[i], k)

(* Three drivers share the expander's registers.  Once all are made, the   *)
(* display is out of reset and the LED outputs are enabled, whatever the   *)
(* order of the PROM, earlier processes and failed transfers left.         *)
PanelEnabled ==
  pc = "loop" =>
    /\ direct => LcdReset \in chipOut \ chipCfg
    /\ leds => LedOe \notin chipOut \cup chipCfg

(* A button clients are told is pressed was pressed when it was polled: no *)
(* output the expander drives itself, no reset line and no bit of an       *)
(* earlier process is ever taken for one.                                  *)
NoGhostPress == [][\A b \in told' \ told : b \in high]_vars

(* A button that was released, and stays so, is told to be.                *)
ReleaseTold ==
  \A b \in Buttons : (b \in told /\ b \notin high) ~> (b \notin told \/ b \in high)

=============================================================================
