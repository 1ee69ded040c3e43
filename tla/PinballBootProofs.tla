-------------------------- MODULE PinballBootProofs --------------------------
(***************************************************************************)
(* pinballd as systemd runs it, for every interval of the watchdog, every  *)
(* content of the ID PROM, every order of drivers and every request: first *)
(* what FrontPanel promises of the panel by itself, then that the whole    *)
(* daemon is such a panel, and what the watchdog and systemd do to it.     *)
(***************************************************************************)
EXTENDS PinballBoot, InductionLemmas, FiniteSetTheorems

(***************************************************************************)
(* The indicators                                                          *)
(***************************************************************************)
(* A LED map gives an indicator the channels of one of its entries, the    *)
(* first of them.                                                          *)
LEMMA FirstEntryIsOne ==
  ASSUME NEW map \in Seq(Entry), NEW i, NEW m \in DOMAIN map, map[m].key = i
  PROVE  FirstEntry(map, i) \in DOMAIN map /\ map[FirstEntry(map, i)].key = i
<1> DEFINE Named == {n \in DOMAIN map : map[n].key = i}
<1>1. Named \subseteq Nat /\ Named # {}
  BY DEF Entry
<1>2. PICK n \in Named : \A j \in Named : <<j, n>> \notin OpToRel(<, Nat)
  BY <1>1, NatLessThanWellFounded, WFMin
<1>3. ASSUME NEW j \in 1 .. n - 1 PROVE map[j].key # i
  <2>1. j \in DOMAIN map /\ j \in Nat /\ n \in Nat /\ j < n
    <3>1. Len(map) \in Nat /\ DOMAIN map = 1 .. Len(map)
      BY LenProperties
    <3>2. n \in 1 .. Len(map)
      BY <1>2, <3>1
    <3> QED BY <3>1, <3>2
  <2>2. <<j, n>> \in OpToRel(<, Nat)
    BY <2>1 DEF OpToRel
  <2> QED BY <1>2, <2>1, <2>2
<1> QED BY <1>2, <1>3 DEF FirstEntry

(* Each channel is the k-th of one indicator, for one k.                   *)
Disjoint ==
  \A i, j \in DOMAIN channels : \A k \in DOMAIN channels[i], l \in DOMAIN channels[j] :
    channels[i][k] = channels[j][l] => i = j /\ k = l

(* IndicatorsShown from the moment the LED driver is there.                *)
Shown ==
  \A i \in DOMAIN channels : \A k \in DOMAIN channels[i] :
    pwm[channels[i][k]] = Component(asked[i], k)

NothingAsked == asked = [i \in Indicators |-> Off]

ChannelsOK ==
  /\ DOMAIN channels \subseteq Indicators
  /\ \A i \in DOMAIN channels : \A k \in DOMAIN channels[i] : channels[i][k] \in Chans

ShownInv ==
  /\ prom \in Proms
  /\ ChannelsOK /\ Disjoint /\ Shown
  /\ pc # "loop" => NothingAsked

LEMMA ShownInit == Init => ShownInv
BY DEF Init, NoLeds, ShownInv, ChannelsOK, Disjoint, Shown, NothingAsked

(* However the process ends, no indicator has a channel any more.          *)
LEMMA EndsShown ==
  ASSUME ShownInv, NEW how \in {"exited", "crashed"}, Ends(how)
  PROVE  ShownInv'
BY DEF Ends, NoLeds, ShownInv, ChannelsOK, Disjoint, Shown, NothingAsked

LEMMA CleanUpShown ==
  ASSUME ShownInv, NEW lit, CleanUp(lit)
  PROVE  ShownInv'
BY EndsShown DEF CleanUp

LEMMA LoopThrowsShown ==
  ASSUME ShownInv, NEW lit, LoopThrows(lit)
  PROVE  ShownInv'
BY EndsShown, CleanUpShown DEF LoopThrows

(* The LED driver: readLedMap() made sure that the map is disjoint, the    *)
(* constructor cleared what the chip showed, and nothing was asked for.    *)
LEMMA MakeLedsShown ==
  ASSUME ShownInv, MakeLeds, pc = "probe", UNCHANGED <<prom, pc, asked>>
  PROVE  ShownInv'
<1> DEFINE map == prom.map
           At(i) == FirstEntry(map, i)
<1>1. map \in Seq(Entry)
  BY PanelAssumption DEF ShownInv
<1>2. DOMAIN channels' = {map[n].key : n \in DOMAIN map}
  BY DEF MakeLeds, ReadLedMap
<1>3. ASSUME NEW i \in DOMAIN channels'
      PROVE  /\ At(i) \in DOMAIN map /\ map[At(i)].key = i
             /\ channels'[i] = map[At(i)].indices
             /\ i \in Indicators
  <2>1. PICK n \in DOMAIN map : map[n].key = i
    BY <1>2
  <2>2. map[n] \in Entry
    BY <1>1
  <2> QED BY <1>1, <2>1, <2>2, FirstEntryIsOne DEF MakeLeds, ReadLedMap, Entry
<1>4. ASSUME NEW i \in DOMAIN channels', NEW k \in DOMAIN channels'[i]
      PROVE  channels'[i][k] \in Chans
  <2>1. map[At(i)] \in Entry
    BY <1>1, <1>3, ElementOfSeq
  <2>2. map[At(i)].indices \in Seq(Chans)
    BY <2>1 DEF Entry
  <2> QED BY <1>3, <2>2
<1>5. Disjoint'
  <2> SUFFICES ASSUME NEW i \in DOMAIN channels', NEW j \in DOMAIN channels',
                      NEW k \in DOMAIN channels'[i], NEW l \in DOMAIN channels'[j],
                      channels'[i][k] = channels'[j][l]
               PROVE  i = j /\ k = l
    BY DEF Disjoint
  <2>1. At(i) = At(j) /\ k = l
    BY <1>3 DEF MakeLeds, LedMapOK
  <2> QED BY <1>3, <2>1
<1>6. Shown'
  <2> SUFFICES ASSUME NEW i \in DOMAIN channels', NEW k \in DOMAIN channels'[i]
               PROVE  pwm'[channels'[i][k]] = Component(asked'[i], k)
    BY DEF Shown
  <2>1. asked'[i] = Off
    BY <1>3 DEF ShownInv, NothingAsked
  <2> QED BY <1>4, <2>1 DEF MakeLeds, Dark, Component, Off
<1> QED BY <1>3, <1>4, <1>5, <1>6 DEF ShownInv, ChannelsOK, NothingAsked

LEMMA DriverShown == ShownInv /\ DriverStep => ShownInv'
<1> SUFFICES ASSUME ShownInv, DriverStep PROVE ShownInv'
  OBVIOUS
<1>1. CASE Head(ops)[1] = "leds"
  BY <1>1, MakeLedsShown DEF DriverStep
<1>2. CASE Head(ops)[1] # "leds"
  BY <1>2 DEF DriverStep, ShownInv, ChannelsOK, Disjoint, Shown, NothingAsked
<1> QED BY <1>1, <1>2

(* A request reaches the channels of the indicators it names and no other  *)
(* one, each with the component that is its own.                           *)
LEMMA AppliedIsAsked ==
  ASSUME ShownInv, NEW req \in Requests,
         NEW i \in DOMAIN channels, NEW k \in DOMAIN channels[i]
  PROVE  Applied(req)[channels[i][k]] =
           IF i \in DOMAIN req THEN Component(req[i], k) ELSE pwm[channels[i][k]]
<1> DEFINE ch == channels[i][k]
           driver == CHOOSE j \in DOMAIN req : Drives(j, ch)
           place == CHOOSE n \in DOMAIN channels[driver] : channels[driver][n] = ch
<1>1. ch \in Chans
  BY DEF ShownInv, ChannelsOK
<1>2. ASSUME NEW j, Drives(j, ch) PROVE j = i
  BY <1>2 DEF Drives, ShownInv, Disjoint
<1>3. CASE i \in DOMAIN req
  <2>1. Drives(i, ch)
    BY DEF Drives
  <2>2. Applied(req)[ch] = Component(req[driver], place)
    BY <1>1, <1>3, <2>1 DEF Applied
  <2>3. driver = i
    BY <1>2, <1>3, <2>1
  <2>4. place = k
    BY <2>3 DEF ShownInv, Disjoint
  <2> QED BY <1>3, <2>2, <2>3, <2>4
<1>4. CASE i \notin DOMAIN req
  <2>1. ~ \E j \in DOMAIN req : Drives(j, ch)
    BY <1>2, <1>4
  <2>2. Applied(req)[ch] = pwm[ch]
    BY <1>1, <2>1 DEF Applied
  <2> QED BY <1>4, <2>2
<1> QED BY <1>3, <1>4

LEMMA UpdateShown ==
  ASSUME ShownInv, NEW req \in Requests, UpdateIndicators(req)
  PROVE  ShownInv'
<1>1. Shown'
  <2> SUFFICES ASSUME NEW i \in DOMAIN channels, NEW k \in DOMAIN channels[i]
               PROVE  pwm'[channels[i][k]] = Component(asked'[i], k)
    BY DEF Shown, UpdateIndicators
  <2>1. asked'[i] = IF i \in DOMAIN req THEN req[i] ELSE asked[i]
    BY DEF UpdateIndicators, ShownInv, ChannelsOK
  <2>2. pwm[channels[i][k]] = Component(asked[i], k)
    BY DEF ShownInv, Shown
  <2> QED BY <2>1, <2>2, AppliedIsAsked DEF UpdateIndicators
<1> QED BY <1>1 DEF UpdateIndicators, ShownInv, ChannelsOK, Disjoint

LEMMA ShownStep == ShownInv /\ [Next]_vars => ShownInv'
<1> USE DEF ShownInv, ChannelsOK, Disjoint, Shown, NothingAsked
<1> SUFFICES ASSUME ShownInv, [Next]_vars PROVE ShownInv'
  OBVIOUS
<1>1. CASE Start
  BY <1>1 DEF Start, ledVars
<1>2. CASE NextDriver
  BY <1>2 DEF NextDriver, ledVars
<1>3. CASE NullExpander
  BY <1>3, EndsShown DEF NullExpander
<1>4. CASE DriverStep
  BY <1>4, DriverShown
<1>5. CASE StepThrows
  BY <1>5, CleanUpShown DEF StepThrows
<1>6. CASE EnterLoop
  BY <1>6 DEF EnterLoop, ledVars
<1>7. CASE HandleTermination
  BY <1>7, CleanUpShown DEF HandleTermination
<1>8. CASE Kill
  BY <1>8, EndsShown DEF Kill
<1>9. ASSUME NEW b \in Buttons, Press(b) PROVE ShownInv'
  BY <1>9 DEF Press, ledVars
<1>10. CASE UpdateButtonState
  BY <1>10 DEF UpdateButtonState, ledVars
<1>11. CASE PollThrows
  BY <1>11, LoopThrowsShown DEF PollThrows
<1>12. ASSUME NEW req \in Requests, UpdateIndicators(req) PROVE ShownInv'
  BY <1>12, UpdateShown
<1>13. ASSUME NEW req \in Requests, UpdateThrows(req) PROVE ShownInv'
  BY <1>13, LoopThrowsShown DEF UpdateThrows
<1>14. CASE UNCHANGED vars
  BY <1>14 DEF vars, ledVars
<1> QED
  BY <1>1, <1>2, <1>3, <1>4, <1>5, <1>6, <1>7, <1>8, <1>9, <1>10, <1>11, <1>12,
     <1>13, <1>14 DEF Next

(* In service every channel of every indicator has the level of the value  *)
(* last accepted for it, whatever order the drivers came in, whatever the  *)
(* chip showed before, and whichever transfers failed.                     *)
THEOREM IndicatorsCorrect == Spec => []IndicatorsShown
<1>1. ShownInv => IndicatorsShown
  BY DEF ShownInv, Shown, IndicatorsShown
<1> QED BY <1>1, ShownInit, ShownStep, PTL DEF Spec

(***************************************************************************)
(* The expander                                                            *)
(***************************************************************************)
(* Two halves of a register are all of it, so what is in the chip after an *)
(* update is the value, if the chip had what was written last.             *)
LEMMA WrittenIsValue ==
  ASSUME NEW chip, chip \subseteq Pins, NEW reg, reg.value \subseteq Pins,
         \A v \in reg.last : v = chip
  PROVE  Written(chip, reg, DirtyHalves(reg)) = reg.value
<1> SUFFICES ASSUME NEW p \in Pins
             PROVE  p \in Written(chip, reg, DirtyHalves(reg)) <=> p \in reg.value
  BY DEF Written, DirtyHalves, Halves
<1>1. PICK h \in Halves : p \in h
  BY PinsAssumption DEF Halves
<1>2. \A g \in Halves : p \in g => g = h
  BY <1>1, PinsAssumption DEF Halves
<1>3. CASE h \in DirtyHalves(reg)
  BY <1>1, <1>3 DEF Written, DirtyHalves
<1>4. CASE h \notin DirtyHalves(reg)
  <2>1. p \notin UNION DirtyHalves(reg)
    BY <1>2, <1>4 DEF DirtyHalves
  <2>2. PICK v \in reg.last : v \cap h = reg.value \cap h
    BY <1>4 DEF DirtyHalves
  <2> QED BY <1>1, <2>1, <2>2 DEF Written
<1> QED BY <1>3, <1>4

(* configurePin() makes an output of a pin, whatever the mode.             *)
LEMMA ConfiguredIsOutput ==
  ASSUME NEW pin, NEW mode
  PROVE  Configured(pin, mode) = [cfgPort EXCEPT !.value = @ \ {pin}]
BY DEF Configured, Has, Input

(* A register's cached value is what the chip has, once it was written.    *)
InStep(reg, chip) ==
  /\ reg \in [value : SUBSET Pins, last : SUBSET SUBSET Pins]
  /\ chip \subseteq Pins
  /\ \A v \in reg.last : v = reg.value /\ v = chip

LEMMA UpdateInStep ==
  ASSUME NEW reg, NEW chip, InStep(reg, chip), NEW value \in SUBSET Pins
  PROVE  LET set == [reg EXCEPT !.value = value]
         IN  /\ Written(chip, set, DirtyHalves(set)) = value
             /\ InStep([set EXCEPT !.last = {set.value}], value)
<1> DEFINE set == [reg EXCEPT !.value = value]
<1>1. set.value = value /\ set.last = reg.last
  BY DEF InStep
<1>2. Written(chip, set, DirtyHalves(set)) = value
  BY <1>1, WrittenIsValue DEF InStep
<1>3. InStep([set EXCEPT !.last = {set.value}], value)
  BY <1>1 DEF InStep
<1> QED BY <1>2, <1>3

(***************************************************************************)
(* The order of the drivers' steps                                         *)
(***************************************************************************)
Drivers == {"touch", "lcd", "led"}
LcdLen == NButtons + 7
LenOf(driver) == CASE driver = "lcd" -> LcdLen [] driver = "led" -> 3 [] driver = "touch" -> 1

LcdOps == {<<"expander">>, <<"configure", LcdReset, Output>>, <<"set", LcdReset, TRUE>>,
           <<"set", LcdReset, FALSE>>, <<"display">>, <<"direct">>}
ButtonOps == {<<"configure", n - 1, Input>> : n \in 1 .. NButtons}
LedOps == {<<"configure", LedOe, Output>>, <<"set", LedOe, FALSE>>, <<"leds">>, <<"touch">>}
OpSet == LcdOps \cup ButtonOps \cup LedOps

LEMMA PanelConstants ==
  /\ NButtons \in Nat /\ Pins \subseteq Nat
  /\ LedOe \in Pins \ Buttons /\ LcdReset \in Pins \ Buttons /\ LedOe # LcdReset
BY PanelAssumption, PinsAssumption

LEMMA LcdStepsAre ==
  /\ LcdSteps \in Seq(OpSet) /\ Len(LcdSteps) = LcdLen
  /\ LcdSteps[1] = <<"expander">> /\ LcdSteps[2] = <<"configure", LcdReset, Output>>
  /\ LcdSteps[3] = <<"set", LcdReset, TRUE>> /\ LcdSteps[4] = <<"set", LcdReset, FALSE>>
  /\ LcdSteps[5] = <<"set", LcdReset, TRUE>> /\ LcdSteps[6] = <<"display">>
  /\ \A k \in 7 .. NButtons + 6 : LcdSteps[k] = <<"configure", k - 7, Input>>
  /\ LcdSteps[LcdLen] = <<"direct">>
<1> DEFINE first == <<<<"expander">>, <<"configure", LcdReset, Output>>,
              <<"set", LcdReset, TRUE>>, <<"set", LcdReset, FALSE>>, <<"set", LcdReset, TRUE>>,
              <<"display">>>>
           last == <<<<"direct">>>>
<1>1. first \in Seq(OpSet) /\ Len(first) = 6
  <2>1. LcdOps \subseteq OpSet
    BY DEF OpSet
  <2>2. first \in Seq(LcdOps) /\ Len(first) = 6
    BY DEF LcdOps
  <2> QED BY <2>1, <2>2
<1>0. /\ first[1] = <<"expander">> /\ first[2] = <<"configure", LcdReset, Output>>
      /\ first[3] = <<"set", LcdReset, TRUE>> /\ first[4] = <<"set", LcdReset, FALSE>>
      /\ first[5] = <<"set", LcdReset, TRUE>> /\ first[6] = <<"display">>
  OBVIOUS
<1>9. last[1] = <<"direct">>
  OBVIOUS
<1>2. last \in Seq(OpSet) /\ Len(last) = 1
  <2>1. <<"direct">> \in OpSet
    BY DEF OpSet, LcdOps
  <2> QED BY <2>1
<1>3. InitGpio \in Seq(OpSet) /\ Len(InitGpio) = NButtons
  <2>1. \A n \in 1 .. NButtons : <<"configure", n - 1, Input>> \in ButtonOps
    BY DEF ButtonOps
  <2>2. \A n \in 1 .. NButtons : <<"configure", n - 1, Input>> \in OpSet
    BY <2>1 DEF OpSet
  <2> QED BY <2>2, PanelConstants DEF InitGpio
<1>4. /\ first \o InitGpio \in Seq(OpSet) /\ Len(first \o InitGpio) = 6 + NButtons
      /\ \A k \in 1 .. 6 + NButtons : (first \o InitGpio)[k] =
           IF k <= 6 THEN first[k] ELSE InitGpio[k - 6]
  BY <1>1, <1>3, ConcatProperties, PanelConstants
<1>5. /\ LcdSteps \in Seq(OpSet) /\ Len(LcdSteps) = LcdLen
      /\ \A k \in 1 .. LcdLen : LcdSteps[k] =
           IF k <= 6 + NButtons THEN (first \o InitGpio)[k] ELSE last[k - (6 + NButtons)]
  BY <1>2, <1>4, ConcatProperties, PanelConstants DEF LcdSteps, LcdLen
<1> HIDE DEF first, last
<1>6. ASSUME NEW k \in 1 .. 6 PROVE LcdSteps[k] = first[k]
  <2>1. k \in 1 .. LcdLen /\ k \in 1 .. 6 + NButtons /\ k <= 6 /\ k <= 6 + NButtons
    BY PanelConstants DEF LcdLen
  <2>2. LcdSteps[k] = (first \o InitGpio)[k]
    BY ONLY <1>5, <2>1
  <2>3. (first \o InitGpio)[k] = first[k]
    BY ONLY <1>4, <2>1
  <2> QED BY ONLY <2>2, <2>3
<1>7. ASSUME NEW k \in 7 .. NButtons + 6 PROVE LcdSteps[k] = <<"configure", k - 7, Input>>
  <2>1. k \in 1 .. LcdLen /\ k \in 1 .. 6 + NButtons /\ ~(k <= 6) /\ k <= 6 + NButtons
    BY PanelConstants DEF LcdLen
  <2>2. LcdSteps[k] = InitGpio[k - 6]
    BY ONLY <1>4, <1>5, <2>1
  <2>3. k - 6 \in 1 .. NButtons /\ (k - 6) - 1 = k - 7
    BY PanelConstants
  <2> QED BY <2>2, <2>3 DEF InitGpio
<1>8. LcdSteps[LcdLen] = <<"direct">>
  <2>1. /\ LcdLen \in 1 .. LcdLen /\ ~(LcdLen <= 6 + NButtons)
        /\ LcdLen - (6 + NButtons) = 1
    BY PanelConstants DEF LcdLen
  <2> QED BY <1>5, <1>9, <2>1
<1>10. /\ LcdSteps[1] = first[1] /\ LcdSteps[2] = first[2] /\ LcdSteps[3] = first[3]
       /\ LcdSteps[4] = first[4] /\ LcdSteps[5] = first[5] /\ LcdSteps[6] = first[6]
  BY <1>6
<1>11. /\ LcdSteps[1] = <<"expander">> /\ LcdSteps[2] = <<"configure", LcdReset, Output>>
       /\ LcdSteps[3] = <<"set", LcdReset, TRUE>> /\ LcdSteps[4] = <<"set", LcdReset, FALSE>>
       /\ LcdSteps[5] = <<"set", LcdReset, TRUE>> /\ LcdSteps[6] = <<"display">>
  BY ONLY <1>0, <1>10
<1> QED BY <1>5, <1>11, <1>7, <1>8

LEMMA StepsAre ==
  ASSUME NEW driver \in Drivers
  PROVE  Steps(driver) \in Seq(OpSet) /\ Len(Steps(driver)) = LenOf(driver)
<1>0. LedOps \subseteq OpSet
  BY DEF OpSet
<1>1. LedSteps \in Seq(LedOps) /\ Len(LedSteps) = 3
  BY DEF LedSteps, LedOps
<1>2. <<<<"touch">>>> \in Seq(LedOps) /\ Len(<<<<"touch">>>>) = 1
  BY DEF LedOps
<1>3. CASE driver = "lcd"
  BY <1>3, LcdStepsAre DEF Steps, LenOf
<1>4. CASE driver = "led"
  <2>1. Steps(driver) = LedSteps /\ LenOf(driver) = 3
    BY <1>4 DEF Steps, LenOf
  <2> QED BY <1>0, <1>1, <2>1
<1>5. CASE driver = "touch"
  <2>1. Steps(driver) = <<<<"touch">>>> /\ LenOf(driver) = 1
    BY <1>5 DEF Steps, LenOf
  <2> QED BY <1>0, <1>2, <2>1
<1> QED BY <1>3, <1>4, <1>5 DEF Drivers

(***************************************************************************)
(* What the expander's registers hold                                      *)
(***************************************************************************)
(* The drivers never set another output than the reset line.               *)
Registers ==
  /\ InStep(cfgPort, chipCfg) /\ InStep(outputPort, chipOut)
  /\ expander \in BOOLEAN
  /\ IF expander THEN cfgPort.last # {} ELSE NoExpander
  /\ outputPort.value \subseteq {LcdReset}

PanelOut == LcdReset \in outputPort.value \ cfgPort.value /\ outputPort.last # {}
LedsOut  == LedOe \notin cfgPort.value /\ outputPort.last # {}

Driven ==
  /\ direct \in BOOLEAN /\ leds \in BOOLEAN
  /\ direct => expander /\ PanelOut
  /\ leds => expander /\ LedsOut

(* ops is what is left of the driver's steps from the k-th on.             *)
At(driver, k) ==
  /\ k \in 1 .. LenOf(driver)
  /\ Len(ops) = LenOf(driver) - k + 1
  /\ \A i \in 1 .. Len(ops) : ops[i] = Steps(driver)[k - 1 + i]

LcdAt(k) ==
  /\ k >= 2 => expander /\ ~direct
  /\ k >= 3 => LcdReset \notin cfgPort.value
  /\ k >= 6 => PanelOut
LedAt(k) ==
  /\ k >= 2 => expander /\ LedOe \notin cfgPort.value
  /\ k >= 3 => LedsOut
Progress(driver, k) ==
  /\ driver = "lcd" => LcdAt(k)
  /\ driver = "led" => LedAt(k)

Making ==
  /\ todo \in Seq(Drivers) /\ ops \in Seq(OpSet)
  /\ ops # << >> => \E driver \in Drivers, k \in Nat : At(driver, k) /\ Progress(driver, k)

PinInv ==
  /\ Registers /\ Driven /\ Making
  /\ prom \in Proms /\ told \subseteq Buttons /\ high \subseteq Pins

LEMMA UnwrittenInStep ==
  ASSUME NEW bits \in SUBSET Pins, NEW chip \in SUBSET Pins
  PROVE  InStep(Unwritten(bits), chip)
<1>1. Unwritten(bits) \in [value : SUBSET Pins, last : SUBSET SUBSET Pins]
  BY DEF Unwritten
<1> QED BY <1>1 DEF InStep, Unwritten

LEMMA PinInit == Init => PinInv
<1> SUFFICES ASSUME Init PROVE PinInv
  OBVIOUS
<1>1. Registers
  <2>1. InStep(cfgPort, chipCfg) /\ InStep(outputPort, chipOut)
    BY UnwrittenInStep DEF Init, NoExpander
  <2> QED BY <2>1 DEF Init, Registers, NoExpander, Unwritten
<1>2. Driven
  BY DEF Init, Driven
<1>3. Making
  BY DEF Init, Making
<1> QED BY <1>1, <1>2, <1>3 DEF Init, PinInv

(* The end of a process forgets the registers, which only the chips keep.  *)
LEMMA EndsPins ==
  ASSUME PinInv, NEW how, Ends(how), chipCfg' \subseteq Pins, chipOut' \subseteq Pins,
         high' \subseteq Pins
  PROVE  PinInv'
<1>1. Registers'
  <2>1. InStep(cfgPort, chipCfg)' /\ InStep(outputPort, chipOut)'
    BY UnwrittenInStep DEF Ends
  <2> QED BY <2>1 DEF Ends, Registers, NoExpander, Unwritten
<1>2. Driven'
  BY DEF Ends, Driven
<1>3. Making'
  BY DEF Ends, Making
<1> QED BY <1>1, <1>2, <1>3 DEF Ends, PinInv

LEMMA CleanUpPins ==
  ASSUME PinInv, NEW lit, CleanUp(lit), chipCfg' \subseteq Pins, chipOut' \subseteq Pins,
         high' \subseteq Pins
  PROVE  PinInv'
BY EndsPins DEF CleanUp

(* What the chip holds after a transfer that failed is still pins.         *)
LEMMA PartIsPins ==
  ASSUME NEW chip, chip \subseteq Pins, NEW reg, reg.value \subseteq Pins,
         NEW part \in PartWritten(chip, reg)
  PROVE  part \subseteq Pins
BY DEF PartWritten, Written

LEMMA ConfigurePins ==
  ASSUME Registers, expander, NEW pin, NEW mode, ConfigurePin(pin, mode), UNCHANGED expander
  PROVE  /\ Registers' /\ cfgPort'.value = cfgPort.value \ {pin}
         /\ UNCHANGED outputPort
<1> DEFINE value == cfgPort.value \ {pin}
           set == [cfgPort EXCEPT !.value = value]
<1>1. Configured(pin, mode) = set
  BY ConfiguredIsOutput
<1>2. value \in SUBSET Pins
  BY DEF Registers, InStep
<1>3. Written(chipCfg, set, DirtyHalves(set)) = value /\ InStep([set EXCEPT !.last = {set.value}], value)
  BY <1>2, UpdateInStep DEF Registers
<1>4. /\ chipCfg' = value /\ cfgPort' = [set EXCEPT !.last = {set.value}]
      /\ UNCHANGED <<outputPort, chipOut>>
  BY <1>1, <1>3 DEF ConfigurePin, UpdateConfigPort
<1>5. cfgPort'.value = value /\ cfgPort'.last # {}
  BY <1>4 DEF Registers, InStep
<1>6. InStep(cfgPort', chipCfg')
  BY <1>3, <1>4
<1> QED BY <1>4, <1>5, <1>6 DEF Registers, InStep

LEMMA SetPins ==
  ASSUME Registers, expander, NEW pin \in Pins, NEW asserted \in BOOLEAN,
         asserted => pin = LcdReset, SetPinState(pin, asserted), UNCHANGED expander
  PROVE  /\ Registers' /\ outputPort'.last # {}
         /\ outputPort'.value = IF asserted THEN outputPort.value \cup {pin}
                                            ELSE outputPort.value \ {pin}
         /\ UNCHANGED cfgPort
<1> DEFINE value == IF asserted THEN outputPort.value \cup {pin} ELSE outputPort.value \ {pin}
           set == [outputPort EXCEPT !.value = value]
<1>1. PinSet(pin, asserted) = set
  BY DEF PinSet, Registers, InStep
<1>2. value \in SUBSET Pins
  BY DEF Registers, InStep
<1>3. Written(chipOut, set, DirtyHalves(set)) = value /\ InStep([set EXCEPT !.last = {set.value}], value)
  <2>1. InStep(outputPort, chipOut)
    BY DEF Registers
  <2> HIDE DEF value
  <2> QED BY <1>2, <2>1, UpdateInStep
<1>4. /\ chipOut' = value /\ outputPort' = [set EXCEPT !.last = {set.value}]
      /\ UNCHANGED <<cfgPort, chipCfg>>
  BY <1>1, <1>3 DEF SetPinState, UpdateOutputPort
<1>5. outputPort'.value = value /\ outputPort'.last # {}
  BY <1>4 DEF Registers, InStep
<1>6. InStep(outputPort', chipOut')
  BY <1>3, <1>4
<1>7. value \subseteq {LcdReset}
  BY DEF Registers
<1>8. IF expander' THEN cfgPort'.last # {} ELSE NoExpander'
  BY <1>4 DEF Registers
<1> QED BY <1>4, <1>5, <1>6, <1>7, <1>8 DEF Registers

(* The driver object of the expander is new: it makes inputs of all pins.  *)
LEMMA NewPins ==
  ASSUME Registers, ~expander, NewExpander, expander' = TRUE
  PROVE  Registers'
<1> DEFINE set == Unwritten(Pins)
<1>1. set.value = Pins /\ set.last = {}
  BY DEF Unwritten
<1>2. Written(chipCfg, set, DirtyHalves(set)) = Pins
  BY <1>1, WrittenIsValue DEF Registers, InStep
<1>3. chipCfg' = Pins /\ cfgPort' = [set EXCEPT !.last = {Pins}]
  BY <1>1, <1>2 DEF NewExpander, UpdateConfigPort
<1>4. cfgPort' = [value |-> Pins, last |-> {Pins}]
  BY <1>3 DEF Unwritten
<1>5. InStep(cfgPort', chipCfg') /\ cfgPort'.last # {}
  <2>1. cfgPort'.value = Pins /\ cfgPort'.last = {Pins}
    BY <1>4
  <2>2. cfgPort' \in [value : SUBSET Pins, last : SUBSET SUBSET Pins]
    BY <1>4
  <2> QED BY <1>3, <2>1, <2>2 DEF InStep
<1>6. InStep(outputPort', chipOut') /\ outputPort'.value = {}
  <2>1. InStep(Unwritten({}), chipOut)
    BY UnwrittenInStep DEF Registers, InStep
  <2> QED BY <2>1 DEF NewExpander, Unwritten
<1> QED BY <1>5, <1>6 DEF Registers

(* What a step of a driver does, by the kind of the step.                  *)
Means(op) ==
  /\ op[1] = "expander" =>
       ~expander /\ NewExpander /\ expander' = TRUE /\ UNCHANGED <<direct, leds>>
  /\ op[1] = "configure" =>
       expander /\ ConfigurePin(op[2], op[3]) /\ UNCHANGED <<expander, direct, leds>>
  /\ op[1] = "set" =>
       expander /\ SetPinState(op[2], op[3]) /\ UNCHANGED <<expander, direct, leds>>
  /\ op[1] \in {"display", "touch"} => UNCHANGED <<expander, expanderVars, direct, leds>>
  /\ op[1] = "direct" => UNCHANGED <<expander, expanderVars, leds>> /\ direct' = TRUE
  /\ op[1] = "leds" => UNCHANGED <<expander, expanderVars, direct>> /\ leds' = TRUE

LEMMA StepMeans ==
  ASSUME PinInv, DriverStep, NEW op, Head(ops) = op
  PROVE  Means(op)
<1>1. direct \in BOOLEAN
  BY DEF PinInv, Driven
<1>2. ExpanderStep(op) /\ direct' = (direct \/ op[1] = "direct")
  BY DEF DriverStep
<1>3. op[1] # "leds" => UNCHANGED leds
  BY DEF DriverStep
<1>4. op[1] = "leds" => leds' = TRUE
  BY DEF DriverStep, MakeLeds
<1> QED BY <1>1, <1>2, <1>3, <1>4 DEF ExpanderStep, Means

LEMMA ConfigureMeans ==
  ASSUME NEW pin, NEW mode, Means(<<"configure", pin, mode>>)
  PROVE  expander /\ ConfigurePin(pin, mode) /\ UNCHANGED <<expander, direct, leds>>
<1> DEFINE op == <<"configure", pin, mode>>
<1>1. op[1] = "configure" /\ op[2] = pin /\ op[3] = mode
  OBVIOUS
<1> QED BY <1>1 DEF Means

LEMMA SetMeans ==
  ASSUME NEW pin, NEW on, Means(<<"set", pin, on>>)
  PROVE  expander /\ SetPinState(pin, on) /\ UNCHANGED <<expander, direct, leds>>
<1> DEFINE op == <<"set", pin, on>>
<1>1. op[1] = "set" /\ op[2] = pin /\ op[3] = on
  OBVIOUS
<1> QED BY <1>1 DEF Means

(* The rest of a driver's steps follows the one just taken.                *)
LEMMA NextAt ==
  ASSUME PinInv, ops # << >>, NEW driver \in Drivers, NEW k \in Nat, At(driver, k),
         ops' = Tail(ops), UNCHANGED <<prom, todo, told, high>>, Registers', Driven',
         k + 1 <= LenOf(driver) => Progress(driver, k + 1)'
  PROVE  PinInv'
<1>1. ops \in Seq(OpSet) /\ Len(ops) \in Nat \ {0}
  BY DEF PinInv, Making
<1>2. /\ ops' \in Seq(OpSet) /\ Len(ops') = Len(ops) - 1
      /\ \A i \in 1 .. Len(ops') : ops'[i] = ops[i + 1]
  BY <1>1
<1>0. LenOf(driver) \in Nat
  BY PanelConstants DEF LenOf, LcdLen, Drivers
<1>3. ASSUME ops' # << >> PROVE At(driver, k + 1)' /\ k + 1 <= LenOf(driver)
  <2>1. Len(ops') # 0
    BY <1>2, <1>3
  <2>2. Len(ops) = LenOf(driver) - k + 1
    BY DEF At
  <2>3. Len(ops') = LenOf(driver) - (k + 1) + 1 /\ k + 1 \in 1 .. LenOf(driver)
    BY <1>0, <1>1, <1>2, <2>1, <2>2 DEF At
  <2>4. ASSUME NEW i \in 1 .. Len(ops') PROVE ops'[i] = Steps(driver)[k + 1 - 1 + i]
    <3>1. ops'[i] = ops[i + 1]
      BY <1>2
    <3>2. i + 1 \in 1 .. Len(ops) /\ k - 1 + (i + 1) = k + 1 - 1 + i
      BY <1>1, <1>2
    <3> QED BY <3>1, <3>2 DEF At
  <2>5. LenOf(driver)' = LenOf(driver) /\ Steps(driver)' = Steps(driver)
    BY DEF LenOf, LcdLen, Steps, LcdSteps, LedSteps, InitGpio
  <2> QED BY <2>3, <2>4, <2>5 DEF At
<1>4. Making'
  <2>1. todo' \in Seq(Drivers)
    BY DEF PinInv, Making
  <2>2. ASSUME ops' # << >>
        PROVE  \E d \in Drivers, n \in Nat : At(d, n)' /\ Progress(d, n)'
    <3>1. At(driver, k + 1)' /\ Progress(driver, k + 1)'
      BY <1>3, <2>2
    <3>2. k + 1 \in Nat
      OBVIOUS
    <3> QED BY <3>1, <3>2
  <2> QED BY <1>2, <2>1, <2>2 DEF Making
<1> QED BY <1>4 DEF PinInv

LEMMA DriverPins == PinInv /\ DriverStep => PinInv'
<1> SUFFICES ASSUME PinInv, DriverStep PROVE PinInv'
  OBVIOUS
<1>1. PICK driver \in Drivers, k \in Nat : At(driver, k) /\ Progress(driver, k)
  BY DEF PinInv, Making, DriverStep
<1> DEFINE op == Head(ops)
<1>2. op = Steps(driver)[k] /\ k \in 1 .. LenOf(driver)
  <2>1. ops \in Seq(OpSet) /\ Len(ops) \in Nat \ {0} /\ op = ops[1]
    BY DEF PinInv, Making, DriverStep
  <2>2. 1 \in 1 .. Len(ops) /\ k - 1 + 1 = k
    BY <2>1
  <2> QED BY <1>1, <2>1, <2>2 DEF At
<1>3. SUFFICES /\ Registers' /\ Driven'
               /\ k + 1 <= LenOf(driver) => Progress(driver, k + 1)'
  BY <1>1, NextAt DEF DriverStep
<1>4. Registers /\ Driven
  BY DEF PinInv
<1>8. Means(op)
  BY StepMeans
<1> HIDE DEF op
<1>5. CASE driver = "lcd"
  <2>0. LcdAt(k) /\ op = LcdSteps[k] /\ k \in 1 .. LcdLen
    BY <1>1, <1>2, <1>5 DEF Progress, Steps, LenOf
  <2> SUFFICES /\ Registers' /\ Driven'
               /\ k + 1 <= LcdLen => LcdAt(k + 1)'
    BY <1>5 DEF Progress, LenOf
  <2>1. CASE k = 1
    <3>1. op[1] = "expander"
      BY <2>0, <2>1, LcdStepsAre
    <3>2. ~expander /\ NewExpander /\ expander' = TRUE /\ UNCHANGED <<direct, leds>>
      BY <3>1, <1>8 DEF Means
    <3>3. Registers'
      BY <1>4, <3>2, NewPins
    <3>4. direct = FALSE /\ leds = FALSE
      BY <1>4, <3>2 DEF Driven
    <3>5. Driven' /\ expander' /\ ~direct'
      BY <3>2, <3>4 DEF Driven
    <3>6. k + 1 = 2
      BY <2>1
    <3> QED BY <3>3, <3>5, <3>6 DEF LcdAt
  <2>2. CASE k = 2
    <3>1. op = <<"configure", LcdReset, Output>>
      BY <2>0, <2>2, LcdStepsAre
    <3>2. expander /\ ConfigurePin(LcdReset, Output) /\ UNCHANGED <<expander, direct, leds>>
      BY <1>8, <3>1, ConfigureMeans
    <3>3. Registers' /\ cfgPort'.value = cfgPort.value \ {LcdReset} /\ UNCHANGED outputPort
      BY <1>4, <3>2, ConfigurePins
    <3>4. ~direct
      BY <2>0, <2>2 DEF LcdAt
    <3>5. Driven' /\ expander' /\ ~direct' /\ LcdReset \notin cfgPort'.value
      BY <1>4, <3>2, <3>3, <3>4 DEF Driven, LedsOut
    <3>6. k + 1 = 3
      BY <2>2
    <3> QED BY <3>3, <3>5, <3>6 DEF LcdAt
  <2>3. CASE k \in {3, 4, 5}
    <3>1. PICK on \in BOOLEAN : op = <<"set", LcdReset, on>> /\ (k = 5 => on)
      BY <2>0, <2>3, LcdStepsAre
    <3>2. expander /\ SetPinState(LcdReset, on) /\ UNCHANGED <<expander, direct, leds>>
      BY <1>8, <3>1, SetMeans
    <3>3. /\ Registers' /\ outputPort'.last # {} /\ UNCHANGED cfgPort
          /\ on => LcdReset \in outputPort'.value
      BY <1>4, <3>2, SetPins, PanelConstants
    <3>4. ~direct /\ LcdReset \notin cfgPort.value
      BY <2>0, <2>3 DEF LcdAt
    <3>5. Driven'
      BY <1>4, <3>2, <3>3, <3>4 DEF Driven, LedsOut
    <3>6. expander' /\ ~direct' /\ LcdReset \notin cfgPort'.value
      BY <3>2, <3>3, <3>4
    <3>7. k = 5 => PanelOut'
      BY <3>1, <3>3, <3>6 DEF PanelOut
    <3>8. k + 1 >= 6 => k = 5
      BY <2>3
    <3> QED BY <3>3, <3>5, <3>6, <3>7, <3>8 DEF LcdAt
  <2>4. CASE k = 6
    <3>1. op[1] = "display"
      BY <2>0, <2>4, LcdStepsAre
    <3>2. UNCHANGED <<expander, expanderVars, direct, leds>>
      BY <3>1, <1>8 DEF Means
    <3>3. Registers' /\ Driven'
      BY <1>4, <3>2 DEF Registers, InStep, NoExpander, Driven, PanelOut, LedsOut, expanderVars, portVars
    <3> QED BY <2>0, <2>4, <3>2, <3>3 DEF LcdAt, PanelOut, expanderVars, portVars
  <2>5. CASE k \in 7 .. NButtons + 6
    <3>1. op = <<"configure", k - 7, Input>>
      BY <2>0, <2>5, LcdStepsAre
    <3>2. expander /\ ConfigurePin(k - 7, Input) /\ UNCHANGED <<expander, direct, leds>>
      BY <1>8, <3>1, ConfigureMeans
    <3>3. Registers' /\ cfgPort'.value = cfgPort.value \ {k - 7} /\ UNCHANGED outputPort
      BY <1>4, <3>2, ConfigurePins
    <3>4. k >= 6 /\ k >= 2
      BY <2>5
    <3>5. PanelOut /\ ~direct
      BY <2>0, <3>4 DEF LcdAt
    <3>6. PanelOut'
      BY <3>3, <3>5 DEF PanelOut
    <3>7. Driven'
      BY <1>4, <3>2, <3>3, <3>5 DEF Driven, LedsOut
    <3> QED BY <3>2, <3>3, <3>5, <3>6, <3>7 DEF LcdAt, PanelOut
  <2>6. CASE k = LcdLen
    <3>1. op[1] = "direct"
      BY <2>0, <2>6, LcdStepsAre
    <3>2. UNCHANGED <<expander, expanderVars, leds>> /\ direct' = TRUE
      BY <3>1, <1>8 DEF Means
    <3>3. expander /\ PanelOut
      BY <2>0, <2>6, PanelConstants DEF LcdAt, LcdLen
    <3>4. Registers' /\ Driven'
      BY <1>4, <3>2, <3>3 DEF Registers, InStep, NoExpander, Driven, PanelOut, LedsOut, expanderVars, portVars
    <3>5. ~(k + 1 <= LcdLen)
      BY <2>6, PanelConstants DEF LcdLen
    <3> QED BY <3>4, <3>5
  <2> QED BY <2>0, <2>1, <2>2, <2>3, <2>4, <2>5, <2>6, PanelConstants DEF LcdLen
<1>6. CASE driver = "led"
  <2>0. LedAt(k) /\ op = LedSteps[k] /\ k \in 1 .. 3
    BY <1>1, <1>2, <1>6 DEF Progress, Steps, LenOf
  <2> SUFFICES /\ Registers' /\ Driven'
               /\ k + 1 <= 3 => LedAt(k + 1)'
    BY <1>6 DEF Progress, LenOf
  <2>1. CASE k = 1
    <3>1. op = <<"configure", LedOe, Output>>
      BY <2>0, <2>1 DEF LedSteps
    <3>2. expander /\ ConfigurePin(LedOe, Output) /\ UNCHANGED <<expander, direct, leds>>
      BY <1>8, <3>1, ConfigureMeans
    <3>3. Registers' /\ cfgPort'.value = cfgPort.value \ {LedOe} /\ UNCHANGED outputPort
      BY <1>4, <3>2, ConfigurePins
    <3>4. Driven' /\ expander' /\ LedOe \notin cfgPort'.value
      BY <1>4, <3>2, <3>3 DEF Driven, PanelOut, LedsOut
    <3>5. k + 1 = 2
      BY <2>1
    <3> QED BY <3>3, <3>4, <3>5 DEF LedAt
  <2>2. CASE k = 2
    <3>1. op = <<"set", LedOe, FALSE>>
      BY <2>0, <2>2 DEF LedSteps
    <3>2. expander /\ SetPinState(LedOe, FALSE) /\ UNCHANGED <<expander, direct, leds>>
      BY <1>8, <3>1, SetMeans
    <3>3. /\ Registers' /\ outputPort'.last # {} /\ UNCHANGED cfgPort
          /\ outputPort'.value = outputPort.value \ {LedOe}
      BY <1>4, <3>2, SetPins, PanelConstants
    <3>4. expander' /\ LedOe \notin cfgPort'.value
      BY <2>0, <2>2, <3>2, <3>3 DEF LedAt
    <3>5. PanelOut => PanelOut'
      BY <3>3, PanelConstants DEF PanelOut
    <3>6. Driven' /\ LedsOut'
      BY <1>4, <3>2, <3>3, <3>4, <3>5 DEF Driven, LedsOut
    <3> QED BY <3>3, <3>4, <3>6 DEF LedAt
  <2>3. CASE k = 3
    <3>1. op[1] = "leds"
      BY <2>0, <2>3 DEF LedSteps
    <3>2. UNCHANGED <<expander, expanderVars, direct>> /\ leds' = TRUE
      BY <3>1, <1>8 DEF Means
    <3>3. expander /\ LedsOut
      BY <2>0, <2>3 DEF LedAt
    <3>4. Registers' /\ Driven'
      BY <1>4, <3>2, <3>3 DEF Registers, InStep, NoExpander, Driven, PanelOut, LedsOut, expanderVars, portVars
    <3> QED BY <2>3, <3>4
  <2> QED BY <2>0, <2>1, <2>2, <2>3
<1>7. CASE driver = "touch"
  <2>1. op[1] = "touch"
    BY <1>2, <1>7 DEF Steps, LenOf
  <2>2. UNCHANGED <<expander, expanderVars, direct, leds>>
    BY <2>1, <1>8 DEF Means
  <2>3. Registers' /\ Driven'
    BY <1>4, <2>2 DEF Registers, InStep, NoExpander, Driven, PanelOut, LedsOut, expanderVars, portVars
  <2> QED BY <1>7, <2>3 DEF Progress
<1> QED BY <1>5, <1>6, <1>7 DEF Drivers

(* No other pins are ever set.                                             *)
LEMMA SetsPanelPins ==
  ASSUME NEW op \in OpSet, op[1] = "set"
  PROVE  op[2] \in {LcdReset, LedOe}
<1>1. CASE op \in LcdOps
  <2>1. CASE op = <<"set", LcdReset, TRUE>>
    BY <2>1
  <2>6. CASE op = <<"set", LcdReset, FALSE>>
    BY <2>6
  <2>2. CASE op = <<"expander">>
    BY <2>2
  <2>4. CASE op = <<"display">>
    BY <2>4
  <2>5. CASE op = <<"direct">>
    BY <2>5
  <2>3. CASE op = <<"configure", LcdReset, Output>>
    BY <2>3
  <2> QED BY <1>1, <2>1, <2>2, <2>3, <2>4, <2>5, <2>6 DEF LcdOps
<1>2. CASE op \in ButtonOps
  <2>1. PICK n \in 1 .. NButtons : op = <<"configure", n - 1, Input>>
    BY <1>2 DEF ButtonOps
  <2> QED BY <2>1
<1>3. CASE op \in LedOps
  <2>1. CASE op = <<"set", LedOe, FALSE>>
    BY <2>1
  <2>2. CASE op = <<"leds">> \/ op = <<"touch">>
    BY <2>2
  <2>3. CASE op = <<"configure", LedOe, Output>>
    BY <2>3
  <2> QED BY <1>3, <2>1, <2>2, <2>3 DEF LedOps
<1> QED BY <1>1, <1>2, <1>3 DEF OpSet

(* A constructor that throws part way leaves pins in the chips, no more.   *)
LEMMA ThrowsPins == PinInv /\ StepThrows => PinInv'
<1> SUFFICES ASSUME PinInv, StepThrows PROVE PinInv'
  OBVIOUS
<1> DEFINE op == Head(ops)
<1>1. /\ CASE op[1] = "expander"  -> chipCfg' \in PartWritten(chipCfg, Unwritten(Pins))
            [] op[1] = "configure" -> chipCfg' \in PartWritten(chipCfg, Configured(op[2], op[3]))
            [] OTHER               -> UNCHANGED chipCfg
      /\ IF op[1] = "set" THEN chipOut' \in PartWritten(chipOut, PinSet(op[2], op[3]))
                          ELSE UNCHANGED chipOut
      /\ CleanUp(pwm) \/ CleanUp(Dark)
      /\ UNCHANGED high
  BY DEF StepThrows
<1>2. chipCfg \subseteq Pins /\ chipOut \subseteq Pins /\ high \subseteq Pins
  BY DEF PinInv, Registers, InStep
<1>3. Unwritten(Pins).value \subseteq Pins /\ Configured(op[2], op[3]).value \subseteq Pins
  BY ConfiguredIsOutput DEF PinInv, Registers, InStep, Unwritten
<1>4. op[1] = "set" => PinSet(op[2], op[3]).value \subseteq Pins
  <2>0. ops \in Seq(OpSet) /\ ops # << >>
    BY DEF PinInv, Making, StepThrows
  <2>5. Len(ops) \in Nat \ {0} /\ op = ops[1]
    BY <2>0
  <2>6. 1 \in 1 .. Len(ops)
    BY <2>5
  <2>1. op \in OpSet
    BY ONLY <2>0, <2>5, <2>6
  <2> HIDE DEF op
  <2>3. op[1] = "set" => op[2] \in {LcdReset, LedOe}
    BY <2>1, SetsPanelPins
  <2>4. op[1] = "set" => PinSet(op[2], op[3]).value \subseteq outputPort.value \cup {op[2]}
    BY DEF PinSet, PinInv, Registers, InStep
  <2> QED BY <2>3, <2>4, PanelConstants DEF PinSet, PinInv, Registers, InStep
<1>5. chipCfg' \subseteq Pins
  BY <1>1, <1>2, <1>3, PartIsPins
<1>6. chipOut' \subseteq Pins
  BY <1>1, <1>2, <1>4, PartIsPins
<1> QED BY <1>1, <1>2, <1>5, <1>6, CleanUpPins

(* What a poll can find pressed is driven high from outside, or by the     *)
(* expander, which only ever drives the reset line.                        *)
LEMMA PollPins ==
  ASSUME PinInv, UpdateButtonState
  PROVE  PinInv' /\ \A b \in told' \ told : b \in high
<1>1. PICK state \in PinStates :
        /\ told' = {b \in Buttons : IF b \in DOMAIN Changes(Pressed(state))
                                      THEN Changes(Pressed(state))[b] ELSE b \in told}
        /\ buttonLastState' = Pressed(state)
  BY DEF UpdateButtonState
<1>2. UNCHANGED <<prom, todo, ops, expander, direct, leds, expanderVars, high>>
  BY DEF UpdateButtonState, ledVars
<1>3. Registers' /\ Driven' /\ Making'
  <2>1. Registers' /\ Driven'
    BY <1>2 DEF PinInv, Registers, InStep, NoExpander, Driven, PanelOut, LedsOut, expanderVars,
                portVars
  <2>2. Making'
    BY <1>2 DEF PinInv, Making, At, Progress, LcdAt, LedAt, PanelOut, LedsOut, expanderVars,
                portVars
  <2> QED BY <2>1, <2>2
<1>4. told' \subseteq Buttons
  BY <1>1
<1>5. ASSUME NEW b \in told' \ told PROVE b \in high
  <2>1. b \in Buttons /\ b \in DOMAIN Changes(Pressed(state)) /\ Changes(Pressed(state))[b]
    BY <1>1
  <2>2. b \in state
    BY <2>1 DEF Changes, Pressed
  <2>3. chipOut \subseteq {LcdReset}
    BY DEF PinInv, Registers, InStep, UpdateButtonState, Driven, PanelOut
  <2>4. b \in Pins /\ b # LcdReset
    BY <2>1, PanelConstants DEF Buttons
  <2>5. (b \in state) \in {b \in high} \cup (IF b \in chipCfg THEN {} ELSE {b \in chipOut})
    BY <2>4 DEF PinStates
  <2> QED BY <2>2, <2>3, <2>4, <2>5
<1> QED BY <1>2, <1>3, <1>4, <1>5 DEF PinInv

(* Nothing in the loop but a poll tells clients of buttons.                *)
LEMMA PinStep == PinInv /\ [Next]_vars => PinInv' /\ \A b \in told' \ told : b \in high
<1> SUFFICES ASSUME PinInv, [Next]_vars
             PROVE  PinInv' /\ \A b \in told' \ told : b \in high
  OBVIOUS
<1>0. chipCfg \subseteq Pins /\ chipOut \subseteq Pins /\ high \subseteq Pins
  BY DEF PinInv, Registers, InStep
<1>1. ASSUME UNCHANGED <<prom, todo, ops, expander, direct, told, leds, expanderVars>>, high' \subseteq Pins
      PROVE  PinInv' /\ \A b \in told' \ told : b \in high
  <2>1. Registers' /\ Driven'
    BY <1>1 DEF PinInv, Registers, InStep, NoExpander, Driven, PanelOut, LedsOut, expanderVars,
                portVars
  <2>2. Making'
    BY <1>1 DEF PinInv, Making, At, Progress, LcdAt, LedAt, PanelOut, LedsOut, expanderVars,
                portVars
  <2> QED BY <1>1, <2>1, <2>2 DEF PinInv
<1>2. ASSUME NEW how, Ends(how), chipCfg' \subseteq Pins, chipOut' \subseteq Pins, UNCHANGED high
      PROVE  PinInv' /\ \A b \in told' \ told : b \in high
  <2>1. told' = {}
    BY <1>2 DEF Ends
  <2> QED BY <1>0, <1>2, <2>1, EndsPins
<1>3. ASSUME NEW lit, LoopThrows(lit), UNCHANGED <<chipCfg, chipOut, high>>
      PROVE  PinInv' /\ \A b \in told' \ told : b \in high
  BY <1>0, <1>2, <1>3 DEF LoopThrows, CleanUp
<1>4. CASE Start
  <2>1. UNCHANGED <<prom, ops, expander, direct, told, leds, expanderVars, high>>
    BY <1>4 DEF Start, buttonVars, ledVars
  <2>2. todo' \in Seq(Drivers)
    BY <1>4, PanelAssumption DEF Start, Drivers, PinInv
  <2>3. Registers' /\ Driven'
    BY <2>1 DEF PinInv, Registers, InStep, NoExpander, Driven, PanelOut, LedsOut, expanderVars,
                portVars
  <2>4. Making'
    BY <2>1, <2>2 DEF PinInv, Making, At, Progress, LcdAt, LedAt, PanelOut, LedsOut,
                expanderVars, portVars
  <2> QED BY <2>1, <2>3, <2>4 DEF PinInv
<1>5. CASE NextDriver
  <2>1. UNCHANGED <<prom, expander, direct, told, leds, expanderVars, high>>
    BY <1>5 DEF NextDriver, buttonVars, ledVars
  <2>2. todo \in Seq(Drivers) /\ todo # << >>
    BY <1>5 DEF NextDriver, PinInv, Making
  <2>3. PICK driver \in Drivers : driver = Head(todo)
    BY <2>2
  <2>4. ops' = Steps(driver) /\ todo' \in Seq(Drivers)
    BY <1>5, <2>2, <2>3 DEF NextDriver
  <2>5. Registers' /\ Driven'
    BY <2>1 DEF PinInv, Registers, InStep, NoExpander, Driven, PanelOut, LedsOut, expanderVars,
                portVars
  <2>6. ops' \in Seq(OpSet) /\ Len(ops') = LenOf(driver)
    BY <2>4, StepsAre
  <2>7. LenOf(driver) \in Nat \ {0}
    BY PanelConstants DEF LenOf, LcdLen, Drivers
  <2>8. At(driver, 1)'
    <3>1. \A i \in 1 .. Len(ops') : ops'[i] = Steps(driver)[1 - 1 + i]
      BY <2>4, <2>6, <2>7
    <3>2. 1 \in 1 .. LenOf(driver) /\ Len(ops') = LenOf(driver) - 1 + 1
      BY <2>6, <2>7
    <3>3. LenOf(driver)' = LenOf(driver) /\ Steps(driver)' = Steps(driver)
      BY DEF LenOf, LcdLen, Steps, LcdSteps, LedSteps, InitGpio
    <3> QED BY <3>1, <3>2, <3>3 DEF At
  <2>9. Progress(driver, 1)'
    BY DEF Progress, LcdAt, LedAt
  <2>10. Making'
    BY <2>4, <2>6, <2>8, <2>9 DEF Making
  <2> QED BY <2>1, <2>5, <2>10 DEF PinInv
<1>6. CASE NullExpander
  BY <1>0, <1>2, <1>6 DEF NullExpander
<1>7. CASE DriverStep
  <2>1. UNCHANGED told
    BY <1>7 DEF DriverStep
  <2> QED BY <1>7, <2>1, DriverPins
<1>8. CASE StepThrows
  <2>1. told' = {}
    BY <1>8 DEF StepThrows, CleanUp, Ends
  <2> QED BY <1>8, <2>1, ThrowsPins
<1>9. CASE EnterLoop
  BY <1>0, <1>1, <1>9 DEF EnterLoop, buttonVars, ledVars
<1>10. CASE HandleTermination
  BY <1>0, <1>3, <1>10 DEF HandleTermination, LoopThrows
<1>11. CASE Kill
  BY <1>0, <1>2, <1>11 DEF Kill
<1>12. ASSUME NEW b \in Buttons, Press(b)
       PROVE  PinInv' /\ \A c \in told' \ told : c \in high
  <2>1. high' \subseteq Pins
    BY <1>0, <1>12 DEF Press, Buttons
  <2> QED BY <1>1, <1>12, <2>1 DEF Press, buttonVars, ledVars
<1>13. CASE UpdateButtonState
  BY <1>13, PollPins
<1>14. CASE PollThrows
  BY <1>3, <1>14 DEF PollThrows
<1>15. ASSUME NEW req \in Requests, UpdateIndicators(req)
       PROVE  PinInv' /\ \A b \in told' \ told : b \in high
  BY <1>0, <1>1, <1>15 DEF UpdateIndicators, buttonVars
<1>16. ASSUME NEW req \in Requests, UpdateThrows(req)
       PROVE  PinInv' /\ \A b \in told' \ told : b \in high
  BY <1>3, <1>16 DEF UpdateThrows
<1>17. CASE UNCHANGED vars
  BY <1>0, <1>1, <1>17 DEF vars, buttonVars, ledVars
<1> QED
  BY <1>4, <1>5, <1>6, <1>7, <1>8, <1>9, <1>10, <1>11, <1>12, <1>13, <1>14, <1>15,
     <1>16, <1>17 DEF Next

(* Whatever the order of the drivers and the failures before, the display  *)
(* is out of reset and the LED outputs are enabled while pinballd serves.  *)
THEOREM PanelEnabledCorrect == Spec => []PanelEnabled
<1>1. ASSUME PinInv PROVE PanelEnabled
  <2>1. direct => LcdReset \in chipOut /\ LcdReset \notin chipCfg
    BY <1>1 DEF PinInv, Registers, InStep, Driven, PanelOut
  <2>2. outputPort.last # {} => chipOut \subseteq {LcdReset}
    BY <1>1 DEF PinInv, Registers, InStep
  <2>3. leds => LedOe \notin chipOut /\ LedOe \notin chipCfg
    BY <1>1, <2>2, PanelConstants DEF PinInv, Registers, InStep, Driven, LedsOut
  <2> QED BY <2>1, <2>3 DEF PanelEnabled
<1>2. PinInv /\ [Next]_vars => PinInv'
  BY PinStep
<1> QED BY <1>1, <1>2, PinInit, PTL DEF Spec

(* No client is ever told of a press of a button nobody presses.           *)
THEOREM PressesAreReal == Spec => NoGhostPress
<1>1. PinInv /\ [Next]_vars => PinInv'
  BY PinStep
<1>2. PinInv /\ [Next]_vars => [\A b \in told' \ told : b \in high]_vars
  BY PinStep
<1> QED BY <1>1, <1>2, PinInit, PTL DEF Spec, NoGhostPress

(***************************************************************************)
(* The daemon is a panel                                                   *)
(***************************************************************************)
LEMMA DiesOfPanel == Dies => [Next]_vars
BY DEF Dies, EarlyEnd, panelVars, vars, Next

(* Whatever main(), systemd and the watchdog do, the panel takes a step of *)
(* its own or none.                                                        *)
LEMMA PanelStep == [BootNext]_bootVars => [Next]_vars
<1> SUFFICES ASSUME [BootNext]_bootVars PROVE [Next]_vars
  OBVIOUS
<1>1. ASSUME UNCHANGED panelVars PROVE UNCHANGED vars
  BY <1>1 DEF panelVars, vars
<1>2. CASE StartUp
  <2>1. CASE SetUp \/ ScanBus \/ ReadKey
    BY <1>1, <2>1 DEF SetUp, ScanBus, ReadKey
  <2>2. CASE SecondPass
    BY <2>2 DEF SecondPass, Next
  <2>3. CASE MakeDrivers
    BY <2>3 DEF MakeDrivers, Next
  <2>4. CASE StartUpThrows
    BY <1>1, <2>4 DEF StartUpThrows, EarlyEnd, Next
  <2>5. CASE SayReady
    BY <2>5 DEF SayReady, Next
  <2> QED BY <1>2, <2>1, <2>2, <2>3, <2>4, <2>5 DEF StartUp
<1>3. CASE Loop
  <2>1. CASE Poll
    BY <2>1 DEF Poll, Next
  <2>2. CASE Serve
    BY <1>1, <2>2 DEF Serve, Next
  <2>3. CASE TellSystemd \/ TurnEnds
    BY <1>1, <2>3 DEF TellSystemd, TurnEnds
  <2>4. CASE CallbackThrows
    BY <2>4 DEF CallbackThrows, Next
  <2>5. CASE Terminate
    BY <2>5 DEF Terminate, Next
  <2> QED BY <1>3, <2>1, <2>2, <2>3, <2>4, <2>5 DEF Loop
<1>4. CASE Outside
  <2>1. CASE Tick \/ Signal
    BY <1>1, <2>1 DEF Tick, Signal
  <2>2. CASE Untrapped
    BY <1>1, <2>2 DEF Untrapped, EarlyEnd
  <2>3. CASE Crash
    BY <2>3, DiesOfPanel DEF Crash
  <2>4. CASE PressButton
    BY <2>4 DEF PressButton, Next
  <2> QED BY <1>4, <2>1, <2>2, <2>3, <2>4 DEF Outside
<1>5. CASE Systemd
  <2>1. CASE StartProcess
    BY <1>1, <2>1 DEF StartProcess
  <2>2. CASE StartTimeout \/ WatchdogExpires
    BY <2>2, DiesOfPanel DEF StartTimeout, WatchdogExpires
  <2> QED BY <1>5, <2>1, <2>2 DEF Systemd
<1>6. CASE UNCHANGED bootVars
  BY <1>1, <1>6 DEF bootVars
<1> QED BY <1>2, <1>3, <1>4, <1>5, <1>6 DEF BootNext

(* The daemon under systemd implements the panel by itself: what the panel *)
(* promises holds for start-ups that fail anywhere, restarts and kills by  *)
(* the watchdog too.                                                       *)
THEOREM BootImplementsPanel == BootSpec => Spec
<1>1. BootInit => Init
  BY DEF BootInit
<1> QED BY <1>1, PanelStep, PTL DEF BootSpec, Spec

(* No press is made up in the daemon systemd runs, killed and restarted    *)
(* anywhere: the expander's outputs never look like buttons.               *)
THEOREM BootPressesAreReal == BootSpec => NoGhostPress
BY BootImplementsPanel, PressesAreReal, PTL

(* Nor does the panel lose the display or the LEDs.                        *)
THEOREM BootPanelEnabled == BootSpec => []PanelEnabled
BY BootImplementsPanel, PanelEnabledCorrect, PTL

(* The indicators are right in the daemon systemd runs.                    *)
THEOREM BootIndicatorsCorrect == BootSpec => []IndicatorsShown
BY BootImplementsPanel, IndicatorsCorrect, PTL

(***************************************************************************)
(* The watchdog                                                            *)
(***************************************************************************)
(* The event falls due before systemd has gone without it for half of the  *)
(* interval.  What can come on top of that half is the rest of the turn it *)
(* fell due in and, while the event is queued, the turn that calls it back *)
(* as well.                                                                *)
WatchInv ==
  /\ timer \in Int /\ quiet \in 0 .. WatchdogSec /\ turn \in Int
  /\ queued \in BOOLEAN /\ before \in 0 .. 4 * Half
  /\ -(quiet + WatchdogSec) <= timer /\ quiet + timer <= Half
  /\ ~Serving => quiet = 0 /\ turn = Idle
  /\ turn = Idle => ~queued /\ quiet <= Half + before
  /\ turn # Idle => /\ 0 <= turn /\ turn <= WatchdogSec + quiet
                    /\ ~queued => quiet <= Half + turn
                    /\ queued => quiet <= Half + before + turn
  /\ queued => timer <= 0 /\ turn <= quiet

LEMMA HalfFacts == Half \in Nat \ {0} /\ WatchdogSec = 2 * Half /\ Idle = -1
BY WatchdogAssumption DEF WatchdogSec, Idle

LEMMA WatchInit == BootInit => WatchInv
<1> SUFFICES ASSUME BootInit PROVE WatchInv
  OBVIOUS
<1>1. timer = Half /\ quiet = 0 /\ turn = Idle /\ before = 0 /\ main # "panel"
  BY DEF BootInit, WatchdogInit
<1>2. queued \in BOOLEAN /\ ~queued
  BY DEF BootInit, WatchdogInit
<1> QED BY <1>1, <1>2, HalfFacts DEF WatchInv

(* While a process runs systemd has the unit started.                      *)
UnitInv == main # "off" => unit \notin {"inactive", "restart"}

LEMMA UnitStep == UnitInv /\ [BootNext]_bootVars => UnitInv'
<1> SUFFICES ASSUME UnitInv, [BootNext]_bootVars PROVE UnitInv'
  OBVIOUS
<1>1. ASSUME NEW status, ProcessEnds(status) PROVE UnitInv'
  BY <1>1 DEF ProcessEnds, UnitInv
<1>2. CASE StartUp
  <2>1. CASE StartUpThrows
    BY <1>1, <2>1 DEF StartUpThrows, EarlyEnd
  <2>2. CASE ~StartUpThrows
    BY <1>2, <2>2 DEF StartUp, SetUp, ScanBus, ReadKey, PromFound, SecondPass, MakeDrivers,
                      SayReady, UnitInv
  <2> QED BY <2>1, <2>2
<1>3. CASE Loop
  BY <1>1, <1>3 DEF Loop, Poll, Serve, TellSystemd, TurnEnds, CallbackThrows, Terminate, UnitInv
<1>4. CASE Dies
  BY <1>1, <1>4 DEF Dies, EarlyEnd
<1>5. CASE Outside
  BY <1>1, <1>4, <1>5
     DEF Outside, Tick, Signal, Untrapped, Crash, PressButton, EarlyEnd, UnitInv
<1>6. CASE Systemd
  BY <1>4, <1>6 DEF Systemd, StartProcess, StartTimeout, WatchdogExpires, UnitInv
<1>7. CASE UNCHANGED bootVars
  BY <1>7 DEF bootVars, UnitInv
<1> QED BY <1>2, <1>3, <1>5, <1>6, <1>7 DEF BootNext

(* The process ends, and with it the watchdog.                             *)
LEMMA EndsWatch ==
  ASSUME NEW status, ProcessEnds(status)
  PROVE  WatchInv'
<1>1. timer' = Half /\ quiet' = 0 /\ turn' = Idle /\ before' = 0
  BY DEF ProcessEnds, WatchdogOff
<1>2. queued' \in BOOLEAN /\ ~queued'
  BY DEF ProcessEnds, WatchdogOff
<1> QED BY <1>1, <1>2, HalfFacts DEF WatchInv

LEMMA DiesWatch == Dies => WatchInv'
BY EndsWatch DEF Dies, EarlyEnd

LEMMA StartUpWatch == WatchInv /\ StartUp => WatchInv'
<1> SUFFICES ASSUME WatchInv, StartUp PROVE WatchInv'
  OBVIOUS
<1>1. CASE SetUp \/ ScanBus
  BY <1>1, HalfFacts DEF SetUp, ScanBus, WatchInv, Serving, watchdogVars
<1>2. CASE ReadKey
  BY <1>2, HalfFacts DEF ReadKey, PromFound, WatchInv, Serving, watchdogVars
<1>3. CASE SecondPass
  <2>1. ~Serving /\ ~Serving'
    BY <1>3 DEF SecondPass, PromFound, Start, Serving
  <2> QED BY <1>3, <2>1, HalfFacts DEF SecondPass, WatchInv, watchdogVars
<1>4. CASE MakeDrivers
  <2>1. ~Serving /\ ~Serving'
    BY <1>4 DEF MakeDrivers, NextDriver, DriverStep, Serving
  <2> QED BY <1>4, <2>1, HalfFacts DEF MakeDrivers, WatchInv, watchdogVars
<1>5. CASE StartUpThrows
  BY <1>5, EndsWatch DEF StartUpThrows, EarlyEnd
<1>6. CASE SayReady
  <2>1. /\ Serving' /\ quiet' = 0 /\ turn' = 0 /\ timer' = timer /\ before' = 0
        /\ queued' = (timer <= 0)
    BY <1>6 DEF SayReady, EnterLoop, WatchdogStart, Serving
  <2>2. ~Serving
    BY <1>6 DEF SayReady, EnterLoop, Serving
  <2> QED BY <2>1, <2>2, HalfFacts DEF WatchInv
<1> QED BY <1>1, <1>2, <1>3, <1>4, <1>5, <1>6 DEF StartUp

LEMMA LoopWatch == WatchInv /\ Loop => WatchInv'
<1> SUFFICES ASSUME WatchInv, Loop PROVE WatchInv'
  OBVIOUS
<1>1. CASE Poll \/ Serve
  <2>1. Serving /\ Serving'
    BY <1>1 DEF Poll, Serve, Serving, UpdateButtonState, UpdateIndicators, panelVars
  <2>2. turn = Idle /\ turn' = 0 /\ timer' = timer /\ quiet' = quiet /\ before' = before
    BY <1>1 DEF Poll, Serve, BeginTurn
  <2>3. queued' \in BOOLEAN /\ (queued' <=> timer <= 0)
    <3>1. BeginTurn
      BY <1>1 DEF Poll, Serve
    <3> DEFINE due == timer <= 0
    <3>2. queued' = due
      BY <3>1 DEF BeginTurn
    <3>3. due \in BOOLEAN
      OBVIOUS
    <3> HIDE DEF due
    <3>4. queued' \in BOOLEAN /\ (queued' <=> due)
      BY <3>2, <3>3
    <3> QED BY <3>4 DEF due
  <2> QED BY <2>1, <2>2, <2>3, HalfFacts DEF WatchInv
<1>2. CASE TurnEnds
  <2>1. Serving /\ Serving'
    BY <1>2 DEF TurnEnds, Serving, panelVars
  <2>2. /\ turn # Idle /\ ~queued /\ turn' = Idle /\ before' = turn
        /\ timer' = timer /\ quiet' = quiet /\ queued' = queued
    BY <1>2 DEF TurnEnds, EndTurn
  <2> QED BY <2>1, <2>2, HalfFacts DEF WatchInv
<1>3. CASE TellSystemd
  <2>1. Serving /\ Serving'
    BY <1>3 DEF TellSystemd, Serving, panelVars
  <2>2. /\ queued /\ quiet' = 0 /\ turn' = turn /\ before' = before
        /\ timer' = IF timer + Half >= -turn THEN timer + Half ELSE Half - turn
    BY <1>3 DEF TellSystemd, Kick, Again
  <2>3. turn # Idle /\ 0 <= turn /\ turn <= WatchdogSec /\ timer <= 0
    BY <2>2, HalfFacts DEF WatchInv
  <2>4. timer' \in Int /\ -WatchdogSec <= timer' /\ timer' <= Half
    BY <2>2, <2>3, HalfFacts DEF WatchInv
  <2>5. queued' \in BOOLEAN /\ ~queued'
    BY <1>3 DEF TellSystemd, Kick
  <2> QED BY <2>1, <2>2, <2>3, <2>4, <2>5, HalfFacts DEF WatchInv
<1>4. CASE CallbackThrows \/ Terminate
  BY <1>4, EndsWatch DEF CallbackThrows, Terminate
<1> QED BY <1>1, <1>2, <1>3, <1>4 DEF Loop

LEMMA TickWatch == WatchInv /\ Tick => WatchInv'
<1> SUFFICES ASSUME WatchInv, Tick PROVE WatchInv'
  OBVIOUS
<1>0. Serving' = Serving
  BY DEF Tick, panelVars, Serving
<1>1. CASE Serving /\ TickIdle
  BY <1>0, <1>1, HalfFacts DEF TickIdle, Expired, WatchInv
<1>2. CASE Serving /\ TickBusy
  BY <1>0, <1>2, HalfFacts DEF TickBusy, Expired, WatchInv
<1>3. CASE ~Serving /\ TickStart
  BY <1>0, <1>3, HalfFacts DEF TickStart, WatchInv
<1> QED BY <1>1, <1>2, <1>3 DEF Tick

LEMMA WatchStep == WatchInv /\ UnitInv /\ [BootNext]_bootVars => WatchInv'
<1> SUFFICES ASSUME WatchInv, UnitInv, [BootNext]_bootVars PROVE WatchInv'
  OBVIOUS
<1>1. ASSUME UNCHANGED watchdogVars, Serving' = Serving PROVE WatchInv'
  BY <1>1 DEF WatchInv, watchdogVars
<1>2. CASE StartUp
  BY <1>2, StartUpWatch
<1>3. CASE Loop
  BY <1>3, LoopWatch
<1>4. CASE Outside
  <2>1. CASE Tick
    BY <2>1, TickWatch
  <2>2. CASE Signal \/ PressButton
    BY <1>1, <2>2 DEF Signal, PressButton, Press, Serving, panelVars
  <2>3. CASE Untrapped
    BY <2>3, EndsWatch DEF Untrapped, EarlyEnd
  <2>4. CASE Crash
    BY <2>4, DiesWatch DEF Crash
  <2> QED BY <1>4, <2>1, <2>2, <2>3, <2>4 DEF Outside
<1>5. CASE Systemd
  <2>1. CASE StartProcess
    <3>1. UNCHANGED watchdogVars /\ ~Serving'
      BY <2>1 DEF StartProcess, Serving
    <3>2. ~Serving
      BY <2>1 DEF StartProcess, UnitInv, Serving
    <3> QED BY <1>1, <3>1, <3>2 DEF Serving
  <2>2. CASE StartTimeout \/ WatchdogExpires
    BY <2>2, DiesWatch DEF StartTimeout, WatchdogExpires
  <2> QED BY <1>5, <2>1, <2>2 DEF Systemd
<1>6. CASE UNCHANGED bootVars
  BY <1>1, <1>6 DEF bootVars, panelVars, Serving
<1> QED BY <1>2, <1>3, <1>4, <1>5, <1>6 DEF BootNext

(* For any interval systemd only finds the watchdog expired when callbacks *)
(* have run for half of it without a pause, in at most two turns.          *)
THEOREM NoFalseAlarmCorrect == BootSpec => []NoFalseAlarm
<1>1. WatchInv => NoFalseAlarm
  BY HalfFacts DEF WatchInv, NoFalseAlarm, Expired, Busy
<1>2. BootInit => WatchInv /\ UnitInv
  BY WatchInit DEF BootInit, UnitInv
<1>3. WatchInv /\ UnitInv /\ [BootNext]_bootVars => (WatchInv /\ UnitInv)'
  BY WatchStep, UnitStep
<1> QED BY <1>1, <1>2, <1>3, PTL DEF BootSpec

(***************************************************************************)
(* The end for good                                                        *)
(***************************************************************************)
(* Of all the ways the process can end, only a signal and an exception in  *)
(* service make systemd leave the unit alone.                              *)
THEOREM NeverGivesUpCorrect == BootSpec => NeverGivesUp
<1> DEFINE Excused == unit # "inactive" /\ unit' = "inactive" => term \/ Serving
<1>1. [BootNext]_bootVars => [Excused]_bootVars
  <2> SUFFICES ASSUME BootNext PROVE Excused
    OBVIOUS
  <2>1. CASE StartUp
    BY <2>1 DEF StartUp, SetUp, ScanBus, ReadKey, SecondPass, MakeDrivers, StartUpThrows,
                SayReady, EarlyEnd, ProcessEnds
  <2>2. CASE Loop
    BY <2>2 DEF Loop, Poll, Serve, TellSystemd, TurnEnds, CallbackThrows, Terminate
  <2>3. CASE Outside
    BY <2>3 DEF Outside, Tick, Signal, Untrapped, Crash, Dies, PressButton, EarlyEnd,
                ProcessEnds
  <2>4. CASE Systemd
    BY <2>4 DEF Systemd, StartProcess, StartTimeout, WatchdogExpires, Dies, EarlyEnd,
                ProcessEnds
  <2> QED BY <2>1, <2>2, <2>3, <2>4 DEF BootNext
<1> QED BY <1>1, PTL DEF BootSpec, NeverGivesUp

(***************************************************************************)
(* Types                                                                   *)
(***************************************************************************)
(* The part of the panel's types that PinInv does not have.                *)
PanelTypes ==
  /\ pc \in {"exited", "crashed", "probe", "loop"}
  /\ buttonLastState \subseteq Buttons
  /\ \A i \in Indicators : asked[i] \in Brightness \cup Color
  /\ LedTypeOK

LEMMA LightFacts ==
  /\ 0 \in Levels /\ Off \in Brightness \cup Color /\ Dark \in [Chans -> Levels]
BY LedAssumption DEF Levels, Off, Brightness, Dark

(* What is not thrown at is a brightness or a colour, with a level for     *)
(* every channel.                                                          *)
LEMMA ComponentLevel ==
  ASSUME NEW v \in Brightness \cup Color, NEW k \in Nat \ {0}
  PROVE  Component(v, k) \in Levels
<1>1. CASE v \in Brightness
  BY <1>1 DEF Brightness, Component
<1>2. CASE v \in Color
  <2>1. PICK n \in 1 .. 3 : v.comps \in [1 .. n -> Levels]
    BY <1>2 DEF Color
  <2>2. v.kind = "color"
    BY <1>2 DEF Color
  <2>3. v.comps \in Seq(Levels)
    BY <2>1, SeqDef
  <2>4. k <= Len(v.comps) => v.comps[k] \in Levels
    BY <2>3, ElementOfSeq
  <2> QED BY <2>2, <2>4, LightFacts DEF Component
<1> QED BY <1>1, <1>2

LEMMA AppliedLevels ==
  ASSUME LedTypeOK, NEW req, \A i \in DOMAIN req : req[i] \in Brightness \cup Color
  PROVE  Applied(req) \in [Chans -> Levels]
<1> SUFFICES ASSUME NEW ch \in Chans PROVE Applied(req)[ch] \in Levels
  BY DEF Applied
<1>1. CASE \E i \in DOMAIN req : Drives(i, ch)
  <2> DEFINE i == CHOOSE j \in DOMAIN req : Drives(j, ch)
             k == CHOOSE n \in DOMAIN channels[i] : channels[i][n] = ch
  <2>1. i \in DOMAIN req /\ Drives(i, ch)
    BY <1>1
  <2>2. channels[i] \in Seq(Chans)
    BY <2>1 DEF Drives, LedTypeOK
  <2>3. k \in DOMAIN channels[i]
    BY <2>1 DEF Drives
  <2>4. k \in Nat \ {0}
    <3> HIDE DEF i, k
    <3>1. DOMAIN channels[i] = 1 .. Len(channels[i]) /\ Len(channels[i]) \in Nat
      BY <2>2, LenProperties
    <3> QED BY <2>3, <3>1
  <2>5. Applied(req)[ch] = Component(req[i], k)
    BY <1>1 DEF Applied
  <2> HIDE DEF i, k
  <2> QED BY <2>1, <2>4, <2>5, ComponentLevel
<1>2. CASE ~ \E i \in DOMAIN req : Drives(i, ch)
  BY <1>2 DEF Applied, LedTypeOK
<1> QED BY <1>1, <1>2

LEMMA TypesInit == Init => PanelTypes
BY LightFacts DEF Init, PanelTypes, LedTypeOK, NoLeds

LEMMA EndsTypes ==
  ASSUME NEW how \in {"exited", "crashed"}, Ends(how), pwm' \in [Chans -> Levels]
  PROVE  PanelTypes'
BY LightFacts DEF Ends, PanelTypes, LedTypeOK, NoLeds

LEMMA CleanUpTypes ==
  ASSUME NEW lit \in [Chans -> Levels], CleanUp(lit)
  PROVE  PanelTypes'
BY EndsTypes, LightFacts DEF CleanUp

LEMMA LoopThrowsTypes ==
  ASSUME NEW lit \in [Chans -> Levels], LoopThrows(lit)
  PROVE  PanelTypes'
BY EndsTypes, CleanUpTypes DEF LoopThrows

LEMMA MakeLedsTypes ==
  ASSUME prom \in Proms, MakeLeds
  PROVE  LedTypeOK'
<1> DEFINE map == prom.map
<1>1. map \in Seq(Entry)
  BY PanelAssumption
<1>2. ASSUME NEW i \in DOMAIN channels'
      PROVE  i \in Indicators /\ channels'[i] \in Seq(Chans)
  <2>1. PICK n \in DOMAIN map : map[n].key = i
    BY <1>2 DEF MakeLeds, ReadLedMap
  <2>2. FirstEntry(map, i) \in DOMAIN map
    BY <1>1, <2>1, FirstEntryIsOne
  <2>3. map[n] \in Entry /\ map[FirstEntry(map, i)] \in Entry
    BY <1>1, <2>1, <2>2
  <2> QED BY <1>2, <2>1, <2>3 DEF MakeLeds, ReadLedMap, Entry
<1> QED BY <1>2, LightFacts DEF MakeLeds, LedTypeOK

LEMMA UpdateTypes ==
  ASSUME PanelTypes, NEW req \in Requests, UpdateIndicators(req) \/ UpdateThrows(req)
  PROVE  PanelTypes'
<1>1. /\ LedTypeOK /\ pwm \in [Chans -> Levels]
      /\ \A i \in DOMAIN req \ Thrown(req) : req[i] \in Brightness \cup Color
  BY PanelAssumption DEF PanelTypes, LedTypeOK, Thrown, Throws
<1>2. CASE UpdateIndicators(req)
  <2>1. Applied(req) \in [Chans -> Levels]
    BY <1>1, <1>2, AppliedLevels DEF UpdateIndicators
  <2> QED BY <1>1, <1>2, <2>1 DEF UpdateIndicators, PanelTypes, LedTypeOK, buttonVars
<1>3. CASE UpdateThrows(req)
  <2> DEFINE target == Applied([i \in DOMAIN req \ Thrown(req) |-> req[i]])
  <2>1. target \in [Chans -> Levels]
    BY <1>1, AppliedLevels
  <2>2. PICK reached \in SUBSET Chans :
          LoopThrows([ch \in Chans |-> IF ch \in reached THEN target[ch] ELSE pwm[ch]])
    BY <1>3 DEF UpdateThrows
  <2> HIDE DEF target
  <2>3. [ch \in Chans |-> IF ch \in reached THEN target[ch] ELSE pwm[ch]] \in [Chans -> Levels]
    BY <1>1, <2>1
  <2> QED BY <2>2, <2>3, LoopThrowsTypes
<1> QED BY <1>2, <1>3

LEMMA TypesStep == prom \in Proms /\ PanelTypes /\ [Next]_vars => PanelTypes'
<1> SUFFICES ASSUME prom \in Proms, PanelTypes, [Next]_vars PROVE PanelTypes'
  OBVIOUS
<1>0. pwm \in [Chans -> Levels] /\ Dark \in [Chans -> Levels]
  BY LightFacts DEF PanelTypes, LedTypeOK
<1>1. CASE \/ Start \/ NextDriver \/ EnterLoop \/ UNCHANGED vars \/ \E b \in Buttons : Press(b)
  BY <1>1 DEF Start, NextDriver, EnterLoop, Press, vars, buttonVars, ledVars, PanelTypes,
              LedTypeOK
<1>2. CASE NullExpander \/ Kill
  BY <1>0, <1>2, EndsTypes DEF NullExpander, Kill
<1>3. CASE StepThrows
  BY <1>0, <1>3, CleanUpTypes DEF StepThrows
<1>4. CASE HandleTermination
  BY <1>0, <1>4, CleanUpTypes DEF HandleTermination
<1>5. CASE PollThrows
  BY <1>0, <1>5, LoopThrowsTypes DEF PollThrows
<1>6. CASE UpdateButtonState
  BY <1>6 DEF UpdateButtonState, Pressed, ledVars, PanelTypes, LedTypeOK
<1>7. CASE DriverStep
  <2>1. LedTypeOK'
    BY <1>7, MakeLedsTypes DEF DriverStep, PanelTypes, LedTypeOK
  <2> QED BY <1>7, <2>1 DEF DriverStep, PanelTypes
<1>8. ASSUME NEW req \in Requests, UpdateIndicators(req) \/ UpdateThrows(req)
      PROVE  PanelTypes'
  BY <1>8, UpdateTypes
<1> QED BY <1>1, <1>2, <1>3, <1>4, <1>5, <1>6, <1>7, <1>8 DEF Next

(* The panel's registers, indicators and drivers keep their types.         *)
LEMMA PanelTypeCorrect == PinInv /\ PanelTypes => TypeOK
<1> SUFFICES ASSUME PinInv, PanelTypes PROVE TypeOK
  OBVIOUS
<1>1. ExpanderTypeOK
  BY DEF PinInv, Registers, InStep, ExpanderTypeOK
<1>2. \A n \in DOMAIN todo : todo[n] \in {"touch", "lcd", "led"}
  BY ElementOfSeq, LenProperties DEF PinInv, Making, Drivers
<1> QED BY <1>1, <1>2 DEF PinInv, Registers, Driven, PanelTypes, TypeOK

(* What the probe learns.                                                  *)
ProbeTypes ==
  /\ main \in {"off", "setup", "scan", "probe", "panel"}
  /\ unit \in {"inactive", "activating", "active", "restart"}
  /\ {term, hwRevision} \subseteq BOOLEAN
  /\ idpromAddress \in Addresses \cup {0}
  /\ key \in Nat
  /\ hwSerial = Nothing \/ hwSerial \in {<<s>> : s \in {prom.text, PointedSerial}}

LEMMA PromStays == [Next]_vars => prom' = prom
BY DEF Next, vars, Start, NextDriver, NullExpander, DriverStep, StepThrows, EnterLoop,
       HandleTermination, Kill, Press, UpdateButtonState, PollThrows, UpdateIndicators,
       UpdateThrows, LoopThrows, CleanUp, Ends

LEMMA ProbeEnds ==
  ASSUME NEW status, ProcessEnds(status)
  PROVE  ProbeTypes'
BY DEF ProcessEnds, ProbeTypes

LEMMA ProbeStep == prom \in Proms /\ ProbeTypes /\ [BootNext]_bootVars => ProbeTypes'
<1> SUFFICES ASSUME prom \in Proms, ProbeTypes, [BootNext]_bootVars PROVE ProbeTypes'
  OBVIOUS
<1>1. prom' = prom /\ PointedSerial' = PointedSerial
  BY PanelStep, PromStays DEF PointedSerial
<1>2. ASSUME UNCHANGED probeVars, main' \in {main, "off", "setup", "scan", "probe", "panel"},
             unit' \in {unit, "activating", "active"}, term' \in BOOLEAN
      PROVE  ProbeTypes'
  BY <1>1, <1>2 DEF probeVars, ProbeTypes
<1>3. term \in BOOLEAN
  BY DEF ProbeTypes
<1>4. CASE StartUp
  <2>1. CASE SetUp \/ SecondPass \/ MakeDrivers \/ SayReady
    BY <1>2, <1>3, <2>1 DEF SetUp, SecondPass, MakeDrivers, SayReady
  <2>2. CASE ScanBus
    BY <1>1, <2>2, BootAssumption DEF ScanBus, ProbeTypes
  <2>3. CASE ReadKey
    BY <1>1, <2>3 DEF ReadKey, ProbeTypes
  <2>4. CASE StartUpThrows
    BY <2>4, ProbeEnds DEF StartUpThrows, EarlyEnd
  <2> QED BY <1>4, <2>1, <2>2, <2>3, <2>4 DEF StartUp
<1>5. CASE Loop
  <2>1. CASE Poll \/ Serve \/ TellSystemd \/ TurnEnds
    BY <1>2, <1>3, <2>1 DEF Poll, Serve, TellSystemd, TurnEnds
  <2>2. CASE CallbackThrows \/ Terminate
    BY <2>2, ProbeEnds DEF CallbackThrows, Terminate
  <2> QED BY <1>5, <2>1, <2>2 DEF Loop
<1>6. CASE Tick \/ Signal \/ PressButton \/ StartProcess \/ UNCHANGED bootVars
  BY <1>2, <1>3, <1>6 DEF Tick, Signal, PressButton, StartProcess, bootVars
<1>7. CASE Untrapped \/ Crash \/ StartTimeout \/ WatchdogExpires
  BY <1>7, ProbeEnds DEF Untrapped, Crash, StartTimeout, WatchdogExpires, Dies, EarlyEnd
<1> QED BY <1>4, <1>5, <1>6, <1>7 DEF BootNext, Outside, Systemd

LEMMA WatchTypes == WatchInv => WatchdogTypeOK
BY HalfFacts DEF WatchInv, WatchdogTypeOK

(* The daemon systemd runs keeps its types, the panel's, the watchdog's    *)
(* and the probe's: a serial number is the one the PROM gives or the one   *)
(* it points to.                                                           *)
THEOREM BootTypeCorrect == BootSpec => []BootTypeOK
<1> DEFINE BootInv == PinInv /\ PanelTypes /\ ProbeTypes /\ WatchInv /\ UnitInv
<1>1. BootInit => BootInv
  <2>1. BootInit => UnitInv
    BY DEF BootInit, UnitInv
  <2>3. BootInit => ProbeTypes
    <3> SUFFICES ASSUME BootInit PROVE ProbeTypes
      OBVIOUS
    <3>1. /\ main = "off" /\ unit = "inactive" /\ term = FALSE /\ hwRevision = FALSE
          /\ idpromAddress = 0 /\ key = 1 /\ hwSerial = Nothing
      BY DEF BootInit, ProbeInit
    <3> QED BY <3>1 DEF ProbeTypes
  <2>2. BootInit => Init
    BY DEF BootInit
  <2> QED BY <2>1, <2>2, <2>3, PinInit, TypesInit, WatchInit
<1>2. BootInv /\ [BootNext]_bootVars => BootInv'
  <2>1. PinInv => prom \in Proms
    BY DEF PinInv
  <2> QED BY <2>1, PanelStep, PinStep, TypesStep, ProbeStep, WatchStep, UnitStep
<1>3. BootInv => BootTypeOK
  BY PanelTypeCorrect, WatchTypes DEF ProbeTypes, BootTypeOK
<1> QED BY <1>1, <1>2, <1>3, PTL DEF BootSpec

(***************************************************************************)
(* What the PROM says of the board                                         *)
(***************************************************************************)
(* What is known comes from the keys before the next one to be read, and   *)
(* the drivers wait for all of them.                                       *)
KeysRead ==
  /\ key \in Nat \ {0} /\ key - 1 <= Len(prom.keys)
  /\ hwRevision <=> \E k \in 1 .. key - 1 : prom.keys[k] = "revision"
  /\ (\E k \in 1 .. key - 1 : prom.keys[k] = "serialPointer") => hwSerial # Nothing
  /\ main = "panel" => key > Len(prom.keys)

LEMMA KeysOfProm ==
  ASSUME prom \in Proms
  PROVE  /\ prom.keys \in Seq(STRING) /\ Len(prom.keys) \in Nat
         /\ DOMAIN prom.keys = 1 .. Len(prom.keys)
<1>1. prom.keys \in Seq(STRING)
  BY BootAssumption
<1> QED BY <1>1, LenProperties

(* No key has been read where none is left to know of.                     *)
LEMMA NoKeyRead ==
  ASSUME prom \in Proms, prom' = prom, key' = 1, hwRevision' = FALSE, main' # "panel"
  PROVE  KeysRead'
<1>1. key' - 1 = 0 /\ key' \in Nat \ {0} /\ 1 .. key' - 1 = {}
  OBVIOUS
<1>2. 0 <= Len(prom.keys)
  BY KeysOfProm
<1> QED BY <1>1, <1>2 DEF KeysRead

LEMMA ReadKeyReads ==
  ASSUME prom \in Proms, prom' = prom, KeysRead, ReadKey
  PROVE  KeysRead'
<1>1. /\ main = "probe" /\ main' = main /\ key <= Len(prom.keys) /\ key' = key + 1
      /\ hwRevision' = (hwRevision \/ prom.keys[key] = "revision")
  BY DEF ReadKey, PromFound
<1>2. key \in Nat \ {0} /\ Len(prom.keys) \in Nat
  BY KeysOfProm DEF KeysRead
<1>3. /\ key' \in Nat \ {0} /\ key' - 1 <= Len(prom.keys)
      /\ \A k \in 1 .. key' - 1 : k = key \/ k \in 1 .. key - 1
      /\ \A k \in 1 .. key - 1 : k \in 1 .. key' - 1
      /\ key \in 1 .. key' - 1
  BY <1>1, <1>2
<1>4. hwRevision' <=> \E k \in 1 .. key' - 1 : prom.keys[k] = "revision"
  <2>1. hwRevision <=> \E k \in 1 .. key - 1 : prom.keys[k] = "revision"
    BY DEF KeysRead
  <2> QED BY <1>1, <1>3, <2>1, Zenon
<1>5. (\E k \in 1 .. key' - 1 : prom.keys[k] = "serialPointer") => hwSerial' # Nothing
  <2> SUFFICES ASSUME NEW k \in 1 .. key' - 1, prom.keys[k] = "serialPointer"
               PROVE  hwSerial' # Nothing
    OBVIOUS
  <2>1. k \in 1 .. key - 1 => hwSerial # Nothing
    BY DEF KeysRead
  <2>2. \A x : <<x>> # Nothing
    BY DEF Nothing
  <2>3. CASE prom.keys[key] \in {"serialString", "serialPointer"}
    BY <2>2, <2>3 DEF ReadKey
  <2>4. CASE prom.keys[key] \notin {"serialString", "serialPointer"}
    BY <1>3, <2>1, <2>4 DEF ReadKey
  <2> QED BY <2>3, <2>4
<1> QED BY <1>1, <1>3, <1>4, <1>5 DEF KeysRead

LEMMA KeysStep == prom \in Proms /\ KeysRead /\ [BootNext]_bootVars => KeysRead'
<1> SUFFICES ASSUME prom \in Proms, KeysRead, [BootNext]_bootVars PROVE KeysRead'
  OBVIOUS
<1>1. prom' = prom
  BY PanelStep, PromStays
<1>2. ASSUME UNCHANGED <<key, hwRevision, hwSerial>>,
             main' = "panel" => key > Len(prom.keys)
      PROVE  KeysRead'
  BY <1>1, <1>2 DEF KeysRead
<1>3. ASSUME NEW status, ProcessEnds(status) PROVE KeysRead'
  BY <1>1, <1>3, NoKeyRead DEF ProcessEnds
<1>4. CASE StartUp
  <2>1. CASE SetUp \/ ScanBus
    BY <1>2, <2>1 DEF SetUp, ScanBus, probeVars
  <2>2. CASE ReadKey
    BY <1>1, <2>2, ReadKeyReads
  <2>3. CASE SecondPass
    BY <1>2, <2>3 DEF SecondPass, probeVars
  <2>4. CASE MakeDrivers \/ SayReady
    BY <1>2, <2>4 DEF MakeDrivers, SayReady, probeVars, KeysRead
  <2>5. CASE StartUpThrows
    BY <1>3, <2>5 DEF StartUpThrows, EarlyEnd
  <2> QED BY <1>4, <2>1, <2>2, <2>3, <2>4, <2>5 DEF StartUp
<1>5. CASE Loop
  <2>1. CASE Poll \/ Serve \/ TellSystemd \/ TurnEnds
    BY <1>2, <2>1 DEF Poll, Serve, TellSystemd, TurnEnds, probeVars, KeysRead
  <2>2. CASE CallbackThrows \/ Terminate
    BY <1>3, <2>2 DEF CallbackThrows, Terminate
  <2> QED BY <1>5, <2>1, <2>2 DEF Loop
<1>6. CASE Tick \/ Signal \/ PressButton \/ UNCHANGED bootVars
  BY <1>2, <1>6 DEF Tick, Signal, PressButton, bootVars, probeVars, KeysRead
<1>7. CASE StartProcess
  BY <1>2, <1>7 DEF StartProcess, probeVars
<1>8. CASE Untrapped \/ Crash \/ StartTimeout \/ WatchdogExpires
  BY <1>3, <1>8 DEF Untrapped, Crash, StartTimeout, WatchdogExpires, Dies, EarlyEnd
<1> QED BY <1>4, <1>5, <1>6, <1>7, <1>8 DEF BootNext, Outside, Systemd

(* When the drivers are made the whole PROM has been read, whatever the    *)
(* order of its keys, and a serial number from an EEPROM decodes to all    *)
(* the bytes its text has room for, for serial numbers of any length.      *)
THEOREM BoardKnownCorrect == BootSpec => []BoardKnown
<1> DEFINE Probed == prom \in Proms /\ ProbeTypes /\ KeysRead
<1>1. BootInit => Probed
  <2> SUFFICES ASSUME BootInit PROVE Probed
    OBVIOUS
  <2>1. /\ prom \in Proms /\ main = "off" /\ unit = "inactive" /\ term = FALSE
        /\ hwRevision = FALSE /\ idpromAddress = 0 /\ key = 1 /\ hwSerial = Nothing
    BY DEF BootInit, Init, ProbeInit
  <2>2. ProbeTypes
    BY <2>1 DEF ProbeTypes
  <2>3. 0 <= Len(prom.keys) /\ 1 .. key - 1 = {} /\ key - 1 = 0
    BY <2>1, KeysOfProm
  <2>4. KeysRead
    BY <2>1, <2>3 DEF KeysRead
  <2> QED BY <2>1, <2>2, <2>4
<1>2. Probed /\ [BootNext]_bootVars => Probed'
  <2>1. prom \in Proms /\ [BootNext]_bootVars => prom' \in Proms
    BY PanelStep, PromStays
  <2> QED BY <2>1, ProbeStep, KeysStep
<1>3. Probed => BoardKnown
  <2> SUFFICES ASSUME Probed, main = "panel"
               PROVE  /\ hwRevision <=> \E k \in DOMAIN prom.keys : prom.keys[k] = "revision"
                      /\ \A k \in DOMAIN prom.keys :
                           prom.keys[k] = "serialPointer" /\ hwSerial # <<prom.text>> =>
                             /\ hwSerial # Nothing
                             /\ Decode(hwSerial[1]) =
                                  SubSeq(prom.serial, 1, (5 * Len(prom.serial)) \div 8)
    BY DEF BoardKnown
  <2>1. DOMAIN prom.keys = 1 .. key - 1
    <3>1. key \in Nat /\ key - 1 <= Len(prom.keys) /\ key > Len(prom.keys)
      BY DEF KeysRead
    <3>2. Len(prom.keys) = key - 1
      BY <3>1, KeysOfProm
    <3> QED BY <3>2, KeysOfProm
  <2>2. hwRevision <=> \E k \in DOMAIN prom.keys : prom.keys[k] = "revision"
    BY <2>1 DEF KeysRead
  <2>3. ASSUME NEW k \in DOMAIN prom.keys, prom.keys[k] = "serialPointer",
               hwSerial # <<prom.text>>
        PROVE  /\ hwSerial # Nothing
               /\ Decode(hwSerial[1]) =
                    SubSeq(prom.serial, 1, (5 * Len(prom.serial)) \div 8)
    <3>1. hwSerial # Nothing
      BY <2>1, <2>3 DEF KeysRead
    <3>2. hwSerial = <<PointedSerial>>
      BY <2>3, <3>1 DEF ProbeTypes
    <3>3. hwSerial[1] = Encode(prom.serial, Len(prom.serial))
      BY <3>2 DEF PointedSerial
    <3>4. prom.serial \in Seq(Byte)
      BY BootAssumption
    <3> QED BY <3>1, <3>3, <3>4, DecodesEncoded
  <2> QED BY <2>2, <2>3
<1> QED BY <1>1, <1>2, <1>3, PTL DEF BootSpec

(***************************************************************************)
(* The words for the display                                               *)
(***************************************************************************)
Word == {"upper", "lower", "data", "read"} \X Byte

LEMMA OneValue ==
  ASSUME NEW v PROVE SetToSeq({v}) = <<v>>
<1> DEFINE lists == [1 .. Cardinality({v}) -> {v}]
<1>0. Cardinality({v}) = 1
  BY FS_Singleton, Zenon
<1>1. Cardinality({v}) = 1 /\ 1 .. 1 = {1}
  BY <1>0
<1>2. \A f \in lists : f = <<v>>
  BY <1>1
<1>3. <<v>> \in lists /\ IsInjective(<<v>>)
  BY <1>1 DEF IsInjective
<1> HIDE DEF lists
<1>4. (CHOOSE f \in lists : IsInjective(f)) = <<v>>
  BY <1>2, <1>3
<1> QED BY <1>4 DEF SetToSeq, lists

LEMMA NoValue == SetToSeq({}) = << >>
<1> DEFINE lists == [1 .. Cardinality({}) -> {}]
<1>1. Cardinality({}) = 0 /\ 1 .. 0 = {}
  BY FS_EmptySet
<1>2. \A f \in lists : f = << >>
  BY <1>1
<1>3. << >> \in lists /\ IsInjective(<< >>)
  BY <1>1 DEF IsInjective
<1> HIDE DEF lists
<1>4. (CHOOSE f \in lists : IsInjective(f)) = << >>
  BY <1>2, <1>3
<1> QED BY <1>4 DEF SetToSeq, lists

(* A command of two words, and one with a third word.                      *)
Command(s, a) ==
  /\ s \in Seq(Word) /\ Len(s) = 2
  /\ s[1] = <<"upper", a[1]>> /\ s[2] = <<"lower", a[2]>>
LongCommand(s, a, kind, v) ==
  /\ s \in Seq(Word) /\ Len(s) = 3
  /\ s[1] = <<"upper", a[1]>> /\ s[2] = <<"lower", a[2]>> /\ s[3] = <<kind, v>>

LEMMA RegWriteWords ==
  ASSUME NEW a \in Byte \X Byte
  PROVE  Command(RegWrite(a, {}), a)
<1> DEFINE first == <<<<"upper", a[1]>>, <<"lower", a[2]>>>>
<1>1. {<<"data", w>> : w \in {}} = {}
  OBVIOUS
<1>2. first \in Seq(Word) /\ Len(first) = 2
  BY DEF Word
<1>3. first[1] = <<"upper", a[1]>> /\ first[2] = <<"lower", a[2]>>
  OBVIOUS
<1>4. RegWrite(a, {}) = first \o << >>
  BY <1>1, NoValue DEF RegWrite
<1> HIDE DEF first
<1>5. first \o << >> = first
  BY <1>2, ConcatEmptySeq
<1> QED BY <1>2, <1>3, <1>4, <1>5 DEF Command

LEMMA LongWords ==
  ASSUME NEW s, NEW a, Command(s, a), NEW kind \in {"data", "read"}, NEW v \in Byte
  PROVE  LongCommand(s \o <<<<kind, v>>>>, a, kind, v)
<1> DEFINE last == <<<<kind, v>>>>
<1>1. s \in Seq(Word) /\ Len(s) = 2 /\ last \in Seq(Word) /\ Len(last) = 1 /\ last[1] = <<kind, v>>
  BY DEF Command, Word
<1> HIDE DEF last
<1>2. /\ s \o last \in Seq(Word) /\ Len(s \o last) = Len(s) + Len(last)
      /\ \A m \in 1 .. Len(s) + Len(last) :
           (s \o last)[m] = IF m <= Len(s) THEN s[m] ELSE last[m - Len(s)]
  BY <1>1, ConcatProperties
<1>3. 1 \in 1 .. 3 /\ 2 \in 1 .. 3 /\ 3 \in 1 .. 3 /\ 1 <= 2 /\ 2 <= 2 /\ ~(3 <= 2) /\ 3 - 2 = 1 /\ 2 + 1 = 3
  OBVIOUS
<1>4. (s \o last)[1] = s[1] /\ (s \o last)[2] = s[2] /\ (s \o last)[3] = <<kind, v>>
  BY <1>1, <1>2, <1>3
<1> QED BY <1>1, <1>2, <1>3, <1>4 DEF Command, LongCommand, last

LEMMA RegWriteValue ==
  ASSUME NEW a \in Byte \X Byte, NEW v \in Byte
  PROVE  LongCommand(RegWrite(a, {v}), a, "data", v)
<1>1. {<<"data", w>> : w \in {v}} = {<<"data", v>>}
  OBVIOUS
<1>2. {<<"data", w>> : w \in {}} = {}
  OBVIOUS
<1> DEFINE first == <<<<"upper", a[1]>>, <<"lower", a[2]>>>>
<1>3. first \in Seq(Word) /\ Len(first) = 2
  BY DEF Word
<1>4. Command(first, a)
  BY <1>3 DEF Command
<1>5. RegWrite(a, {v}) = first \o <<<<"data", v>>>>
  BY <1>1, OneValue DEF RegWrite
<1> QED BY <1>4, <1>5, LongWords

LEMMA RegReadWords ==
  ASSUME NEW a \in Byte \X Byte
  PROVE  LongCommand(RegRead(a), a, "read", 0)
<1>1. 0 \in Byte
  BY DEF Byte
<1> QED BY <1>1, RegWriteWords, LongWords DEF RegRead

LEMMA InitRegsAre ==
  /\ Len(InitRegs) \in Nat /\ DOMAIN InitRegs = 1 .. Len(InitRegs)
  /\ \A n \in 1 .. Len(InitRegs) :
       InitRegs[n][1] \in Byte \X Byte /\ InitRegs[n][2] \in Byte
<1>1. InitRegs \in Seq((Byte \X Byte) \X Byte)
  BY DisplayAssumption DEF Byte
<1>2. \A n \in 1 .. Len(InitRegs) : InitRegs[n] \in (Byte \X Byte) \X Byte
  BY <1>1, ElementOfSeq
<1>3. Len(InitRegs) \in Nat /\ DOMAIN InitRegs = 1 .. Len(InitRegs)
  BY <1>1, LenProperties
<1> QED BY <1>2, <1>3

(* Reading leaves the chip's registers alone.                              *)
NoData(s, n) == s \in Seq(Word) /\ Len(s) = n /\ \A k \in 1 .. n : s[k][1] # "data"

LEMMA ReadsThree ==
  ASSUME NEW ss \in Seq(Seq(Word)), Len(ss) = 3,
         \A i \in 1 .. 3 : \E a : LongCommand(ss[i], a, "read", 0)
  PROVE  NoData(Joined(ss), 9)
<1>1. \A i \in 1 .. 3 : /\ Len(ss[i]) = 3
                        /\ ss[i][1][1] # "data" /\ ss[i][2][1] # "data" /\ ss[i][3][1] # "data"
  BY DEF LongCommand
<1>2. Joined(ss) \in Seq(Word) /\ ThreeEach(Joined(ss), ss, 3)
  BY <1>1, JoinedThrees, JoinedType
<1>3. \A i \in 1 .. 3 : /\ Joined(ss)[3 * i - 2][1] # "data"
                        /\ Joined(ss)[3 * i - 1][1] # "data"
                        /\ Joined(ss)[3 * i][1] # "data"
  BY <1>1, <1>2 DEF ThreeEach
<1>4. \A k \in 1 .. 9 : \E i \in 1 .. 3 : k \in {3 * i - 2, 3 * i - 1, 3 * i}
  <2> TAKE k \in 1 .. 9
  <2>1. CASE k <= 3
    BY <2>1
  <2>2. CASE k \in 4 .. 6
    BY <2>2
  <2>3. CASE k \in 7 .. 9
    BY <2>3
  <2> QED BY <2>1, <2>2, <2>3
<1>5. Len(Joined(ss)) = 9
  BY <1>2 DEF ThreeEach
<1> QED BY <1>2, <1>3, <1>4, <1>5 DEF NoData

LEMMA ReadIdsAre == NoData(ReadIds, 18)
<1> DEFINE s == [n \in 1 .. 3 |-> RegRead(<<4, n - 1>>)]
           t == [n \in 1 .. 3 |-> RegRead(<<217 + n, 0>>)]
<1>1. \A n \in 1 .. 3 : <<4, n - 1>> \in Byte \X Byte /\ <<217 + n, 0>> \in Byte \X Byte
  BY DEF Byte
<1>2. \A n \in 1 .. 3 : /\ LongCommand(s[n], <<4, n - 1>>, "read", 0)
                        /\ LongCommand(t[n], <<217 + n, 0>>, "read", 0)
  BY <1>1, RegReadWords
<1>3. \A n \in 1 .. 3 : s[n] \in Seq(Word) /\ t[n] \in Seq(Word)
  BY <1>2 DEF LongCommand
<1>4. s \in Seq(Seq(Word)) /\ t \in Seq(Seq(Word)) /\ Len(s) = 3 /\ Len(t) = 3
  BY <1>3
<1>5. ReadIds = Joined(s) \o Joined(t)
  BY DEF ReadIds
<1> HIDE DEF s, t
<1>6. NoData(Joined(s), 9) /\ NoData(Joined(t), 9)
  BY <1>2, <1>4, ReadsThree
<1> DEFINE u == Joined(s)
           v == Joined(t)
<1>7. u \in Seq(Word) /\ v \in Seq(Word) /\ Len(u) = 9 /\ Len(v) = 9
  BY <1>6 DEF NoData
<1> HIDE DEF u, v
<1>8. /\ u \o v \in Seq(Word) /\ Len(u \o v) = Len(u) + Len(v)
      /\ \A k \in 1 .. Len(u) + Len(v) : (u \o v)[k] = IF k <= Len(u) THEN u[k] ELSE v[k - Len(u)]
  BY <1>7, ConcatProperties
<1>9. \A k \in 1 .. 18 : (u \o v)[k][1] # "data"
  <2> TAKE k \in 1 .. 18
  <2>1. k \in 1 .. Len(u) + Len(v) /\ (k <= 9 => k \in 1 .. 9) /\ (~(k <= 9) => k - 9 \in 1 .. 9)
    BY <1>7
  <2> QED BY <1>6, <1>7, <1>8, <2>1 DEF NoData, u, v
<1> QED BY <1>5, <1>7, <1>8, <1>9 DEF NoData, u, v

(* The three words of the n-th entry, from the place at on.                *)
EntryAt(s, at, n) ==
  /\ s[at + 1] = <<"upper", InitRegs[n][1][1]>>
  /\ s[at + 2] = <<"lower", InitRegs[n][1][2]>>
  /\ s[at + 3] = <<"data", InitRegs[n][2]>>

LEMMA InitSequenceIs ==
  /\ RunInitSequence \in Seq(Word) /\ Len(RunInitSequence) = 3 * Len(InitRegs)
  /\ \A n \in 1 .. Len(InitRegs) : EntryAt(RunInitSequence, 3 * (n - 1), n)
<1> DEFINE N  == Len(InitRegs)
           ss == [n \in DOMAIN InitRegs |-> RegWrite(InitRegs[n][1], {InitRegs[n][2]})]
<1>1. \A n \in 1 .. N : LongCommand(ss[n], InitRegs[n][1], "data", InitRegs[n][2])
  BY InitRegsAre, RegWriteValue
<1>2. \A n \in 1 .. N : ss[n] \in Seq(Word) /\ Len(ss[n]) = 3
  BY <1>1 DEF LongCommand
<1>3. ss = [n \in 1 .. N |-> ss[n]] /\ N \in Nat
  BY InitRegsAre
<1>4. RunInitSequence = Joined(ss)
  BY DEF RunInitSequence
<1> HIDE DEF ss
<1>5. ss \in Seq(Seq(Word)) /\ Len(ss) = N
  BY <1>2, <1>3
<1>6. Joined(ss) \in Seq(Word) /\ ThreeEach(Joined(ss), ss, N)
  BY <1>2, <1>5, JoinedThrees, JoinedType
<1>7. ASSUME NEW n \in 1 .. N PROVE EntryAt(Joined(ss), 3 * (n - 1), n)
  <2>1. /\ 3 * (n - 1) + 1 = 3 * n - 2 /\ 3 * (n - 1) + 2 = 3 * n - 1
        /\ 3 * (n - 1) + 3 = 3 * n
    BY <1>3
  <2>2. /\ Joined(ss)[3 * n - 2] = ss[n][1] /\ Joined(ss)[3 * n - 1] = ss[n][2]
        /\ Joined(ss)[3 * n] = ss[n][3]
    BY <1>6 DEF ThreeEach
  <2>3. LongCommand(ss[n], InitRegs[n][1], "data", InitRegs[n][2])
    BY <1>1
  <2> QED BY <2>1, <2>2, <2>3 DEF EntryAt, LongCommand
<1> QED BY <1>4, <1>6, <1>7 DEF ThreeEach

LEMMA EnableDisplayIs ==
  /\ EnableDisplay \in Seq(Word) /\ Len(EnableDisplay) = 4
  /\ EnableDisplay[1] = <<"upper", 17>> /\ EnableDisplay[2] = <<"lower", 0>>
  /\ EnableDisplay[3] = <<"upper", 41>> /\ EnableDisplay[4] = <<"lower", 0>>
<1> DEFINE u == RegWrite(SleepOut, {})
           v == RegWrite(TurnOn, {})
<1>1. SleepOut \in Byte \X Byte /\ TurnOn \in Byte \X Byte
  BY DEF SleepOut, TurnOn, Byte
<1>2. Command(u, SleepOut) /\ Command(v, TurnOn)
  BY <1>1, RegWriteWords
<1>3. EnableDisplay = u \o v
  BY DEF EnableDisplay
<1> HIDE DEF u, v
<1>4. /\ u \in Seq(Word) /\ v \in Seq(Word) /\ Len(u) = 2 /\ Len(v) = 2
      /\ u[1] = <<"upper", 17>> /\ u[2] = <<"lower", 0>>
      /\ v[1] = <<"upper", 41>> /\ v[2] = <<"lower", 0>>
  BY <1>2 DEF Command, SleepOut, TurnOn
<1>5. /\ u \o v \in Seq(Word) /\ Len(u \o v) = Len(u) + Len(v)
      /\ \A k \in 1 .. Len(u) + Len(v) : (u \o v)[k] = IF k <= Len(u) THEN u[k] ELSE v[k - Len(u)]
  BY <1>4, ConcatProperties
<1>6. /\ 1 \in 1 .. 4 /\ 2 \in 1 .. 4 /\ 3 \in 1 .. 4 /\ 4 \in 1 .. 4 /\ 2 + 2 = 4
      /\ 1 <= 2 /\ 2 <= 2 /\ ~(3 <= 2) /\ ~(4 <= 2) /\ 3 - 2 = 1 /\ 4 - 2 = 2
  OBVIOUS
<1>7. (u \o v)[1] = u[1] /\ (u \o v)[2] = u[2] /\ (u \o v)[3] = v[1] /\ (u \o v)[4] = v[2]
  BY <1>4, <1>5, <1>6
<1> QED BY <1>3, <1>4, <1>5, <1>6, <1>7

(* All of them: eighteen for the identification, three for each entry, and *)
(* four to turn the display on.                                            *)
WordsTotal == 22 + 3 * Len(InitRegs)

LEMMA DisplayWordsAre ==
  /\ Len(DisplayWords) = WordsTotal
  /\ \A k \in 1 .. 18 : DisplayWords[k] \in Word /\ DisplayWords[k][1] # "data"
  /\ \A n \in 1 .. Len(InitRegs) : EntryAt(DisplayWords, 18 + 3 * (n - 1), n)
  /\ DisplayWords[WordsTotal - 3] = <<"upper", 17>>
  /\ DisplayWords[WordsTotal - 2] = <<"lower", 0>>
  /\ DisplayWords[WordsTotal - 1] = <<"upper", 41>>
  /\ DisplayWords[WordsTotal] = <<"lower", 0>>
<1> DEFINE N == Len(InitRegs)
           u == ReadIds
           v == RunInitSequence
           w == EnableDisplay
<1>0. N \in Nat
  BY InitRegsAre
<1>1. u \in Seq(Word) /\ Len(u) = 18 /\ \A k \in 1 .. 18 : u[k][1] # "data"
  BY ReadIdsAre DEF NoData
<1>2. v \in Seq(Word) /\ Len(v) = 3 * N /\ \A n \in 1 .. N : EntryAt(v, 3 * (n - 1), n)
  BY InitSequenceIs
<1>3. /\ w \in Seq(Word) /\ Len(w) = 4
      /\ w[1] = <<"upper", 17>> /\ w[2] = <<"lower", 0>>
      /\ w[3] = <<"upper", 41>> /\ w[4] = <<"lower", 0>>
  BY EnableDisplayIs
<1>4. DisplayWords = (u \o v) \o w
  BY DEF DisplayWords
<1> HIDE DEF u, v, w, N
<1>5. /\ u \o v \in Seq(Word) /\ Len(u \o v) = Len(u) + Len(v)
      /\ \A k \in 1 .. Len(u) + Len(v) : (u \o v)[k] = IF k <= Len(u) THEN u[k] ELSE v[k - Len(u)]
  BY <1>1, <1>2, ConcatProperties
<1> DEFINE t == u \o v
<1> HIDE DEF t
<1>6. /\ t \in Seq(Word) /\ Len(t) = 18 + 3 * N
      /\ \A k \in 1 .. 18 + 3 * N : t[k] = IF k <= 18 THEN u[k] ELSE v[k - 18]
  <2>1. /\ t \in Seq(Word) /\ Len(t) = Len(u) + Len(v)
        /\ \A k \in 1 .. Len(u) + Len(v) : t[k] = IF k <= Len(u) THEN u[k] ELSE v[k - Len(u)]
    BY <1>5 DEF t
  <2>2. Len(u) = 18 /\ Len(v) = 3 * N
    BY <1>1, <1>2
  <2> QED BY <2>1, <2>2
<1>7. /\ t \o w \in Seq(Word) /\ Len(t \o w) = Len(t) + Len(w)
      /\ \A k \in 1 .. Len(t) + Len(w) : (t \o w)[k] = IF k <= Len(t) THEN t[k] ELSE w[k - Len(t)]
  <2>1. t \in Seq(Word) /\ w \in Seq(Word)
    BY <1>3, <1>6
  <2> QED BY <2>1, ConcatProperties
<1> DEFINE s == t \o w
<1>8. /\ Len(s) = 22 + 3 * N
      /\ \A k \in 1 .. 22 + 3 * N : s[k] = IF k <= 18 + 3 * N THEN t[k] ELSE w[k - (18 + 3 * N)]
  BY <1>0, <1>3, <1>6, <1>7
<1> HIDE DEF s
<1>9. ASSUME NEW k \in 1 .. 18 PROVE s[k] \in Word /\ s[k][1] # "data"
  <2>1. k \in 1 .. 22 + 3 * N /\ k <= 18 + 3 * N /\ k \in 1 .. 18 + 3 * N /\ k <= 18
    BY <1>0
  <2>2. s[k] = u[k] /\ u[k] \in Word
    BY <1>1, <1>6, <1>8, <2>1, ElementOfSeq
  <2> QED BY <1>1, <2>2
<1>10. ASSUME NEW n \in 1 .. N PROVE EntryAt(s, 18 + 3 * (n - 1), n)
  <2>1. ASSUME NEW j \in 1 .. 3 PROVE s[18 + 3 * (n - 1) + j] = v[3 * (n - 1) + j]
    <3> DEFINE k == 18 + 3 * (n - 1) + j
    <3>1. /\ k \in 1 .. 22 + 3 * N /\ k <= 18 + 3 * N /\ k \in 1 .. 18 + 3 * N /\ ~(k <= 18)
          /\ k - 18 = 3 * (n - 1) + j
      BY <1>0
    <3> HIDE DEF k
    <3>2. s[k] = v[k - 18]
      BY <1>6, <1>8, <3>1
    <3> QED BY <3>1, <3>2 DEF k
  <2>2. 1 \in 1 .. 3 /\ 2 \in 1 .. 3 /\ 3 \in 1 .. 3
    OBVIOUS
  <2>3. EntryAt(v, 3 * (n - 1), n)
    BY <1>2
  <2> DEFINE at == 18 + 3 * (n - 1)
             from == 3 * (n - 1)
  <2>4. s[at + 1] = v[from + 1] /\ s[at + 2] = v[from + 2] /\ s[at + 3] = v[from + 3]
    BY <2>1, <2>2, Zenon
  <2> HIDE DEF at, from
  <2>5. EntryAt(v, from, n) => EntryAt(s, at, n)
    BY <2>4 DEF EntryAt
  <2> QED BY <2>3, <2>5 DEF at, from
<1>11. ASSUME NEW j \in 1 .. 4 PROVE s[18 + 3 * N + j] = w[j]
  <2> DEFINE k == 18 + 3 * N + j
  <2>1. k \in 1 .. 22 + 3 * N /\ ~(k <= 18 + 3 * N) /\ k - (18 + 3 * N) = j
    BY <1>0
  <2> HIDE DEF k
  <2>2. s[k] = w[k - (18 + 3 * N)]
    BY <1>8, <2>1
  <2> QED BY <2>1, <2>2 DEF k
<1>12. /\ WordsTotal = 22 + 3 * N
       /\ WordsTotal - 3 = 18 + 3 * N + 1 /\ WordsTotal - 2 = 18 + 3 * N + 2
       /\ WordsTotal - 1 = 18 + 3 * N + 3 /\ WordsTotal = 18 + 3 * N + 4
  BY <1>0 DEF WordsTotal, N
<1>13. 1 \in 1 .. 4 /\ 2 \in 1 .. 4 /\ 3 \in 1 .. 4 /\ 4 \in 1 .. 4
  OBVIOUS
<1>14. /\ s[WordsTotal - 3] = w[1] /\ s[WordsTotal - 2] = w[2]
       /\ s[WordsTotal - 1] = w[3] /\ s[WordsTotal] = w[4]
  BY ONLY <1>11, <1>12, <1>13, Zenon
<1>15. DisplayWords = s
  BY <1>4 DEF s, t
<1>16. \A n \in 1 .. Len(InitRegs) : EntryAt(s, 18 + 3 * (n - 1), n)
  BY <1>10 DEF N
<1> QED BY <1>3, <1>8, <1>9, <1>12, <1>14, <1>15, <1>16

(***************************************************************************)
(* What the display makes of them                                          *)
(***************************************************************************)
Receives(f, chip, n) ==
  f = [k \in 0 .. n |-> IF k = 0 THEN {chip}
                                 ELSE {Received(c, DisplayWords[k]) : c \in f[k - 1]}]

LEMMA ReceivesValues ==
  ASSUME NEW n \in Nat, NEW chip, NEW f, Receives(f, chip, n)
  PROVE  /\ f[0] = {chip}
         /\ \A k \in 1 .. n : f[k] = {Received(c, DisplayWords[k]) : c \in f[k - 1]}
<1>1. 0 \in 0 .. n /\ \A i \in 1 .. n : i \in 0 .. n /\ i # 0
  OBVIOUS
<1>2. f[0] = {chip}
  BY <1>1 DEF Receives
<1>3. ASSUME NEW k \in 1 .. n PROVE f[k] = {Received(c, DisplayWords[k]) : c \in f[k - 1]}
  BY <1>1 DEF Receives
<1> QED BY <1>2, <1>3

LEMMA ReceivesExists ==
  ASSUME NEW n \in Nat, NEW chip
  PROVE  \E f : Receives(f, chip, n)
<1> DEFINE Reached == {k \in 0 .. n : \E f : Receives(f, chip, k)}
           Turn(x, k) == {Received(c, DisplayWords[k]) : c \in x}
<1>1. 0 \in Reached
  <2> DEFINE f == [i \in 0 .. 0 |-> {chip}]
  <2>1. \A i \in 0 .. 0 : i = 0
    OBVIOUS
  <2>2. Receives(f, chip, 0)
    BY <2>1, Zenon DEF Receives
  <2> QED BY <2>2
<1>2. ASSUME NEW k \in 1 .. n, k - 1 \in Reached PROVE k \in Reached
  <2>1. PICK f : Receives(f, chip, k - 1)
    BY <1>2
  <2>2. k # 0 /\ k \in Nat /\ k - 1 \in Nat /\ k - 1 \in 0 .. k /\ k - 1 # k
    OBVIOUS
  <2> DEFINE g == [i \in 0 .. k |-> IF i = k THEN Turn(f[k - 1], k) ELSE f[i]]
             h == [i \in 0 .. k |-> IF i = 0 THEN {chip} ELSE Turn(g[i - 1], i)]
  <2>0. f[0] = {chip} /\ \A i \in 1 .. k - 1 : f[i] = Turn(f[i - 1], i)
    BY <2>1, <2>2, ReceivesValues
  <2>6. h = [i \in 0 .. k |-> IF i = 0 THEN {chip}
                              ELSE {Received(c, DisplayWords[i]) : c \in g[i - 1]}]
    OBVIOUS
  <2> HIDE DEF Turn
  <2>3. ASSUME NEW i \in 0 .. k PROVE g[i] = h[i]
    <3>1. CASE i = k
      <4>1. h[i] = Turn(g[k - 1], k)
        BY <2>2, <3>1
      <4>2. g[k - 1] = f[k - 1]
        BY <2>2
      <4>3. g[i] = Turn(f[k - 1], k)
        BY <2>2, <3>1
      <4> QED BY <4>1, <4>2, <4>3
    <3>2. CASE i # k /\ i = 0
      <4>1. g[i] = f[0] /\ h[i] = {chip}
        BY <3>2
      <4> QED BY <4>1, <2>0
    <3>3. CASE i # k /\ i # 0
      <4>1. i \in 1 .. k - 1 /\ i - 1 \in 0 .. k /\ i - 1 # k
        BY <2>2, <3>3
      <4>2. g[i] = f[i] /\ g[i - 1] = f[i - 1]
        BY <3>3, <4>1
      <4>3. h[i] = Turn(g[i - 1], i)
        BY <3>3
      <4>4. f[i] = Turn(f[i - 1], i)
        BY <2>0, <4>1
      <4> QED BY <4>2, <4>3, <4>4
    <3> QED BY <3>1, <3>2, <3>3
  <2>4. g = h
    BY <2>3
  <2>5. Receives(g, chip, k)
    BY ONLY <2>4, <2>6 DEF Receives
  <2> QED BY <2>5
<1> HIDE DEF Reached
<1>3. 0 .. n \subseteq Reached
  BY <1>1, <1>2, UpTo
<1>4. n \in Reached
  BY <1>3
<1> QED BY <1>4 DEF Reached

LEMMA SentIs ==
  ASSUME NEW n \in Nat, NEW chip
  PROVE  \E f : Receives(f, chip, n) /\ Sent(chip, n) = f[n]
<1> DEFINE f == CHOOSE f : Receives(f, chip, n)
<1>1. Receives(f, chip, n)
  BY ReceivesExists
<1>2. Sent(chip, n) = f[n]
  BY DEF Sent, Receives
<1> QED BY <1>1, <1>2

(* A controller, whatever its fields hold.                                 *)
IsChip(c) ==
  /\ c = [upper |-> c.upper, lower |-> c.lower, page |-> c.page, regs |-> c.regs,
          awake |-> c.awake, on |-> c.on]
  /\ c.awake \in BOOLEAN /\ c.on \in BOOLEAN

LEMMA UpperReceived ==
  ASSUME NEW c, IsChip(c), NEW v, NEW d, d = Received(c, <<"upper", v>>)
  PROVE  /\ IsChip(d) /\ d.upper = v
         /\ d.lower = c.lower /\ d.page = c.page /\ d.regs = c.regs
         /\ d.awake = c.awake /\ d.on = c.on
<1>1. d = [c EXCEPT !.upper = v]
  BY DEF Received
<1>2. d = [upper |-> v, lower |-> c.lower, page |-> c.page, regs |-> c.regs,
           awake |-> c.awake, on |-> c.on]
  BY <1>1 DEF IsChip
<1> QED BY <1>2 DEF IsChip

LEMMA LowerReceived ==
  ASSUME NEW c, IsChip(c), NEW v, NEW d, d = Received(c, <<"lower", v>>)
  PROVE  /\ IsChip(d) /\ d.lower = v
         /\ d.upper = c.upper /\ d.page = c.page /\ d.regs = c.regs
         /\ d.awake <=> c.awake \/ <<c.upper, v>> = SleepOut
         /\ d.on <=> c.on \/ <<c.upper, v>> = TurnOn
<1> DEFINE awake == c.awake \/ <<c.upper, v>> = SleepOut
           on    == c.on \/ <<c.upper, v>> = TurnOn
<1>1. d = [c EXCEPT !.lower = v, !.awake = awake, !.on = on]
  BY DEF Received
<1>2. awake \in BOOLEAN /\ on \in BOOLEAN
  OBVIOUS
<1> HIDE DEF awake, on
<1>3. d = [upper |-> c.upper, lower |-> v, page |-> c.page, regs |-> c.regs,
           awake |-> awake, on |-> on]
  BY <1>1 DEF IsChip
<1>4. /\ IsChip(d) /\ d.lower = v /\ d.upper = c.upper /\ d.page = c.page /\ d.regs = c.regs
      /\ d.awake = awake /\ d.on = on
  BY <1>2, <1>3 DEF IsChip
<1> QED BY <1>2, <1>4 DEF awake, on

(* A value for the register r, or for the page if that is what it is for.  *)
Stored(d, c, a, r, v) ==
  /\ IsChip(d)
  /\ a = Page => d.page = v /\ d.regs = c.regs
  /\ a # Page => /\ d.page = c.page
                 /\ d.regs = [q \in DOMAIN c.regs \cup {r} |-> IF q = r THEN v ELSE c.regs[q]]

LEMMA DataReceived ==
  ASSUME NEW c, IsChip(c), NEW v, NEW d, d = Received(c, <<"data", v>>)
  PROVE  Stored(d, c, <<c.upper, c.lower>>, Register(<<c.upper, c.lower>>, c.page), v)
<1> DEFINE reg  == Register(<<c.upper, c.lower>>, c.page)
           regs == [q \in DOMAIN c.regs \cup {reg} |-> IF q = reg THEN v ELSE c.regs[q]]
<1>1. CASE <<c.upper, c.lower>> = Page
  <2>1. d = [c EXCEPT !.page = v]
    BY <1>1 DEF Received
  <2>2. d = [upper |-> c.upper, lower |-> c.lower, page |-> v, regs |-> c.regs,
             awake |-> c.awake, on |-> c.on]
    BY <2>1 DEF IsChip
  <2>3. IsChip(d) /\ d.page = v /\ d.regs = c.regs
    BY <2>2 DEF IsChip
  <2> QED BY <1>1, <2>3 DEF Stored
<1>2. CASE <<c.upper, c.lower>> # Page
  <2>1. d = [c EXCEPT !.regs = regs]
    BY <1>2 DEF Received
  <2> HIDE DEF regs
  <2>2. d = [upper |-> c.upper, lower |-> c.lower, page |-> c.page, regs |-> regs,
             awake |-> c.awake, on |-> c.on]
    BY <2>1 DEF IsChip
  <2>3. IsChip(d) /\ d.page = c.page /\ d.regs = regs
    BY <2>2 DEF IsChip
  <2> QED BY <1>2, <2>3 DEF regs, Stored
<1> QED BY <1>1, <1>2

LEMMA ReadReceived ==
  ASSUME NEW c, NEW v PROVE Received(c, <<"read", v>>) = c
BY DEF Received

(* What is no value leaves the page and the registers alone.               *)
LEMMA NoDataReceived ==
  ASSUME NEW c, IsChip(c), NEW word \in Word, word[1] # "data", NEW d, d = Received(c, word)
  PROVE  IsChip(d) /\ d.page = c.page
<1>1. word = <<word[1], word[2]>> /\ word[1] \in {"upper", "lower", "read"}
  BY DEF Word
<1>2. CASE word[1] = "upper"
  BY <1>1, <1>2, UpperReceived
<1>3. CASE word[1] = "lower"
  BY <1>1, <1>3, LowerReceived
<1>4. CASE word[1] = "read"
  BY <1>1, <1>4, ReadReceived
<1> QED BY <1>1, <1>2, <1>3, <1>4

(* The m-th entry's register has its value, or a later one's, when the     *)
(* display has received n entries.                                         *)
Held(c, m, n) ==
  \/ InitRegs[m][1] = Page
  \/ \E l \in m + 1 .. n : MeantFor(l) = MeantFor(m) /\ InitRegs[l][1] # Page
  \/ MeantFor(m) \in DOMAIN c.regs /\ c.regs[MeantFor(m)] = InitRegs[m][2]

Filled(c, n) == IsChip(c) /\ c.page = PageAt(n + 1) /\ \A m \in 1 .. n : Held(c, m, n)

LEMMA FirstPage == PageAt(1) = 0
<1>1. 1 .. 1 - 1 = {}
  OBVIOUS
<1> QED BY <1>1 DEF PageAt

LEMMA NextPage ==
  ASSUME NEW n \in Nat \ {0}
  PROVE  PageAt(n + 1) = IF InitRegs[n][1] = Page THEN InitRegs[n][2] ELSE PageAt(n)
<1> DEFINE earlier == {m \in 1 .. n - 1 : InitRegs[m][1] = Page}
           selects == {m \in 1 .. n : InitRegs[m][1] = Page}
<1>1. PageAt(n + 1) = IF selects = {} THEN 0 ELSE InitRegs[Max(selects)][2]
  <2>1. 1 .. (n + 1) - 1 = 1 .. n
    OBVIOUS
  <2> QED BY <2>1 DEF PageAt
<1>2. PageAt(n) = IF earlier = {} THEN 0 ELSE InitRegs[Max(earlier)][2]
  BY DEF PageAt
<1>3. CASE InitRegs[n][1] = Page
  <2>1. n \in selects /\ \A m \in selects : m \in Nat /\ m <= n
    BY <1>3
  <2> HIDE DEF selects
  <2>2. \A x \in selects : (\A y \in selects : x >= y) => x = n
    BY <2>1
  <2>3. \A y \in selects : n >= y
    BY <2>1
  <2>4. Max(selects) = n
    BY <2>1, <2>2, <2>3 DEF Max
  <2>5. selects # {}
    BY <2>1
  <2> QED BY <1>1, <1>3, <2>4, <2>5
<1>4. CASE InitRegs[n][1] # Page
  <2>1. \A m \in 1 .. n : m = n \/ m \in 1 .. n - 1
    OBVIOUS
  <2>2. selects = earlier
    BY <1>4, <2>1
  <2> QED BY <1>1, <1>2, <1>4, <2>2
<1> QED BY <1>3, <1>4

(* One entry more.                                                         *)
LEMMA EntryReceived ==
  ASSUME NEW n \in 1 .. Len(InitRegs), NEW b, Filled(b, n - 1),
         NEW c, c = Received(b, <<"upper", InitRegs[n][1][1]>>),
         NEW d, d = Received(c, <<"lower", InitRegs[n][1][2]>>),
         NEW e, e = Received(d, <<"data", InitRegs[n][2]>>)
  PROVE  Filled(e, n)
<1> DEFINE a == InitRegs[n][1]
           v == InitRegs[n][2]
<1>1. n \in Nat \ {0} /\ (n - 1) + 1 = n
  BY InitRegsAre
<1>2. a = <<a[1], a[2]>>
  BY InitRegsAre
<1>3. IsChip(b) /\ b.page = PageAt(n) /\ \A m \in 1 .. n - 1 : Held(b, m, n - 1)
  BY <1>1 DEF Filled
<1>4. IsChip(c) /\ c.upper = a[1] /\ c.page = PageAt(n) /\ c.regs = b.regs
  BY <1>3, UpperReceived
<1>5. /\ IsChip(d) /\ d.upper = a[1] /\ d.lower = a[2]
      /\ d.page = PageAt(n) /\ d.regs = b.regs
  BY <1>4, LowerReceived
<1>6. <<d.upper, d.lower>> = a
  BY <1>2, <1>5
<1>7. Register(<<d.upper, d.lower>>, d.page) = MeantFor(n)
  BY <1>5, <1>6 DEF MeantFor
<1>8. Stored(e, d, a, MeantFor(n), v)
  BY <1>5, <1>6, <1>7, DataReceived
<1>11. IsChip(e) /\ (a = Page => e.page = v /\ e.regs = b.regs)
  BY <1>5, <1>8 DEF Stored
<1>12. ASSUME a # Page
       PROVE  /\ e.page = PageAt(n)
              /\ e.regs = [q \in DOMAIN b.regs \cup {MeantFor(n)} |->
                             IF q = MeantFor(n) THEN v ELSE b.regs[q]]
  BY <1>5, <1>8, <1>12 DEF Stored
<1>9. e.page = PageAt(n + 1)
  BY <1>1, <1>11, <1>12, NextPage
<1>10. ASSUME NEW m \in 1 .. n PROVE Held(e, m, n)
  <2>1. CASE m = n
    <3>1. CASE a = Page
      BY <2>1, <3>1 DEF Held
    <3>2. CASE a # Page
      <4>1. MeantFor(n) \in DOMAIN e.regs /\ e.regs[MeantFor(n)] = v
        BY <1>12, <3>2
      <4> QED BY <2>1, <4>1 DEF Held
    <3> QED BY <3>1, <3>2
  <2>2. CASE m \in 1 .. n - 1
    <3>0. Held(b, m, n - 1)
      BY <1>3, <2>2
    <3>1. CASE InitRegs[m][1] = Page
      BY <3>1 DEF Held
    <3>2. CASE \E l \in m + 1 .. n - 1 : MeantFor(l) = MeantFor(m) /\ InitRegs[l][1] # Page
      <4>1. PICK l \in m + 1 .. n - 1 : MeantFor(l) = MeantFor(m) /\ InitRegs[l][1] # Page
        BY <3>2
      <4>2. l \in m + 1 .. n
        BY <1>1, <2>2
      <4> QED BY <4>1, <4>2 DEF Held
    <3>3. CASE MeantFor(m) \in DOMAIN b.regs /\ b.regs[MeantFor(m)] = InitRegs[m][2]
      <4>1. CASE a = Page
        <5>1. e.regs = b.regs
          BY <1>11, <4>1
        <5> QED BY <3>3, <5>1 DEF Held
      <4>2. CASE a # Page /\ MeantFor(m) = MeantFor(n)
        <5>1. n \in m + 1 .. n
          BY <1>1, <2>2
        <5> QED BY <4>2, <5>1 DEF Held
      <4>3. CASE a # Page /\ MeantFor(m) # MeantFor(n)
        <5>1. MeantFor(m) \in DOMAIN e.regs /\ e.regs[MeantFor(m)] = b.regs[MeantFor(m)]
          BY <1>12, <3>3, <4>3
        <5> QED BY <3>3, <5>1 DEF Held
      <4> QED BY <4>1, <4>2, <4>3
    <3> QED BY <3>0, <3>1, <3>2, <3>3 DEF Held
  <2>3. m = n \/ m \in 1 .. n - 1
    BY <1>1
  <2> QED BY <2>1, <2>2, <2>3
<1> QED BY <1>9, <1>10, <1>11 DEF Filled

(* From wherever it was, a display that was reset and got all the words is *)
(* initialised.                                                            *)
Ready(c) == c.awake /\ c.on /\ \A n \in 1 .. Len(InitRegs) : Held(c, n, Len(InitRegs))

LEMMA AllReceived ==
  ASSUME NEW c \in Sent(DisplayReset, Len(DisplayWords))
  PROVE  Ready(c)
<1> DEFINE N == Len(InitRegs)
           W == WordsTotal
<1>0. N \in Nat /\ W \in Nat /\ W = 22 + 3 * N
  BY InitRegsAre DEF WordsTotal
<1>1. Len(DisplayWords) = W
  BY DisplayWordsAre
<1>2. PICK f : Receives(f, DisplayReset, W) /\ Sent(DisplayReset, W) = f[W]
  BY <1>0, SentIs
<1>3. /\ f[0] = {DisplayReset}
      /\ \A k \in 1 .. W : f[k] = {Received(b, DisplayWords[k]) : b \in f[k - 1]}
  BY <1>0, <1>2, ReceivesValues
<1>4. ASSUME NEW k \in 1 .. W, NEW d \in f[k]
      PROVE  \E b \in f[k - 1] : d = Received(b, DisplayWords[k])
  BY <1>3
<1> DEFINE Early == {k \in 0 .. 18 : \A b \in f[k] : IsChip(b) /\ b.page = 0}
<1>5. 0 \in Early
  <2>1. IsChip(DisplayReset) /\ DisplayReset.page = 0
    BY DEF IsChip, DisplayReset
  <2> QED BY <1>3, <2>1
<1>6. ASSUME NEW k \in 1 .. 18, k - 1 \in Early PROVE k \in Early
  <2> SUFFICES ASSUME NEW d \in f[k] PROVE IsChip(d) /\ d.page = 0
    OBVIOUS
  <2>1. k \in 1 .. W
    BY <1>0
  <2>2. PICK b \in f[k - 1] : d = Received(b, DisplayWords[k])
    BY <1>4, <2>1
  <2>3. IsChip(b) /\ b.page = 0
    BY <1>6
  <2>4. DisplayWords[k] \in Word /\ DisplayWords[k][1] # "data"
    BY DisplayWordsAre
  <2> QED BY <2>2, <2>3, <2>4, NoDataReceived
<1> HIDE DEF Early
<1>7. 0 .. 18 \subseteq Early
  BY <1>5, <1>6, UpTo
<1>8. \A b \in f[18] : IsChip(b) /\ b.page = 0
  BY <1>7 DEF Early
<1> DEFINE Entered == {n \in 0 .. N : \A b \in f[18 + 3 * n] : Filled(b, n)}
<1>9. 0 \in Entered
  <2>1. 18 + 3 * 0 = 18 /\ 0 + 1 = 1 /\ 1 .. 0 = {} /\ 0 \in 0 .. N
    BY <1>0
  <2>2. \A b \in f[18] : Filled(b, 0)
    BY <1>8, <2>1, FirstPage DEF Filled
  <2> QED BY <2>1, <2>2
<1>10. ASSUME NEW n \in 1 .. N, n - 1 \in Entered PROVE n \in Entered
  <2> DEFINE at == 18 + 3 * (n - 1)
  <2>1. /\ at + 1 \in 1 .. W /\ at + 2 \in 1 .. W /\ at + 3 \in 1 .. W
        /\ (at + 1) - 1 = at /\ (at + 2) - 1 = at + 1 /\ (at + 3) - 1 = at + 2
        /\ 18 + 3 * n = at + 3 /\ n \in 0 .. N
    BY <1>0
  <2>2. \A b \in f[at] : Filled(b, n - 1)
    BY <1>10
  <2>3. EntryAt(DisplayWords, at, n)
    BY DisplayWordsAre
  <2> HIDE DEF at
  <2>4. ASSUME NEW e \in f[at + 3] PROVE Filled(e, n)
    <3>1. PICK d \in f[at + 2] : e = Received(d, DisplayWords[at + 3])
      BY <1>4, <2>1
    <3>2. PICK g \in f[at + 1] : d = Received(g, DisplayWords[at + 2])
      BY <1>4, <2>1
    <3>3. PICK b \in f[at] : g = Received(b, DisplayWords[at + 1])
      BY <1>4, <2>1
    <3>4. /\ g = Received(b, <<"upper", InitRegs[n][1][1]>>)
          /\ d = Received(g, <<"lower", InitRegs[n][1][2]>>)
          /\ e = Received(d, <<"data", InitRegs[n][2]>>)
      BY <2>3, <3>1, <3>2, <3>3 DEF EntryAt
    <3>5. Filled(b, n - 1)
      BY <2>2
    <3> QED BY <3>4, <3>5, EntryReceived
  <2> QED BY <2>1, <2>4
<1> HIDE DEF Entered
<1>11. 0 .. N \subseteq Entered
  BY <1>0, <1>9, <1>10, UpTo
<1>12. \A b \in f[18 + 3 * N] : Filled(b, N)
  <2>1. N \in Entered
    BY <1>0, <1>11
  <2> QED BY <2>1 DEF Entered
<1> HIDE DEF W
<1>13. /\ W \in 1 .. W /\ W - 1 \in 1 .. W /\ W - 2 \in 1 .. W /\ W - 3 \in 1 .. W
       /\ (W - 1) - 1 = W - 2 /\ (W - 2) - 1 = W - 3 /\ (W - 3) - 1 = 18 + 3 * N
  BY <1>0
<1>14. /\ DisplayWords[W - 3] = <<"upper", 17>> /\ DisplayWords[W - 2] = <<"lower", 0>>
       /\ DisplayWords[W - 1] = <<"upper", 41>> /\ DisplayWords[W] = <<"lower", 0>>
  BY DisplayWordsAre DEF W
<1>15. c \in f[W]
  BY <1>1, <1>2
<1>16. PICK c3 \in f[W - 1] : c = Received(c3, <<"lower", 0>>)
  BY <1>4, <1>13, <1>14, <1>15
<1>17. PICK c2 \in f[W - 2] : c3 = Received(c2, <<"upper", 41>>)
  <2>1. \E b \in f[(W - 1) - 1] : c3 = Received(b, DisplayWords[W - 1])
    BY <1>4, <1>13
  <2> QED BY <1>13, <1>14, <2>1
<1>18. PICK c1 \in f[W - 3] : c2 = Received(c1, <<"lower", 0>>)
  <2>1. \E b \in f[(W - 2) - 1] : c2 = Received(b, DisplayWords[W - 2])
    BY <1>4, <1>13
  <2> QED BY <1>13, <1>14, <2>1
<1>19. PICK c0 \in f[18 + 3 * N] : c1 = Received(c0, <<"upper", 17>>)
  BY <1>4, <1>13, <1>14
<1>20. Filled(c0, N)
  BY <1>12
<1>21. IsChip(c1) /\ c1.upper = 17 /\ c1.regs = c0.regs
  BY <1>19, <1>20, UpperReceived DEF Filled
<1>22. IsChip(c2) /\ c2.awake /\ c2.regs = c0.regs
  BY <1>18, <1>21, LowerReceived DEF SleepOut
<1>23. IsChip(c3) /\ c3.awake /\ c3.upper = 41 /\ c3.regs = c0.regs
  BY <1>17, <1>22, UpperReceived
<1>24. c.awake /\ c.on /\ c.regs = c0.regs
  BY <1>16, <1>23, LowerReceived DEF TurnOn
<1>25. \A m \in 1 .. N : Held(c, m, N)
  BY <1>20, <1>24 DEF Filled, Held
<1> QED BY <1>24, <1>25 DEF Ready

LEMMA ReadyIs == DisplayReady <=> Ready(lcd)
BY InitRegsAre DEF DisplayReady, Ready, Held

(***************************************************************************)
(* The display in the panel                                                *)
(***************************************************************************)
(* From the reset to the first word the display is as reset; from the last *)
(* word on it is ready.                                                    *)
DisplayAt(k) ==
  /\ k \in {5, 6} => lcd = DisplayReset
  /\ k >= 7 => DisplayReady

DisplayInv ==
  /\ direct => DisplayReady
  /\ \A k \in Nat : At("lcd", k) => DisplayAt(k)

(* The driver being made is known by the last of its steps.                *)
LEMMA LastStep ==
  ASSUME PinInv, ops # << >>, NEW driver \in Drivers, NEW k \in Nat, At(driver, k)
  PROVE  /\ Len(ops) \in Nat \ {0} /\ LenOf(driver) \in Nat \ {0}
         /\ ops[Len(ops)] = <<"direct">> <=> driver = "lcd"
<1>1. Len(ops) \in Nat \ {0}
  BY DEF PinInv, Making
<1>2. LenOf(driver) \in Nat \ {0}
  BY PanelConstants DEF LenOf, LcdLen, Drivers
<1>3. ops[Len(ops)] = Steps(driver)[LenOf(driver)]
  <2>1. /\ Len(ops) = LenOf(driver) - k + 1 /\ Len(ops) \in 1 .. Len(ops)
        /\ k - 1 + Len(ops) = LenOf(driver)
    BY <1>1, <1>2 DEF At
  <2>2. ops[Len(ops)] = Steps(driver)[k - 1 + Len(ops)]
    BY <2>1 DEF At
  <2> QED BY <2>1, <2>2
<1>4. CASE driver = "lcd"
  <2>1. Steps(driver) = LcdSteps /\ LenOf(driver) = LcdLen
    BY <1>4 DEF Steps, LenOf
  <2> QED BY <1>1, <1>2, <1>3, <1>4, <2>1, LcdStepsAre
<1>5. CASE driver = "led"
  <2>1. Steps(driver)[LenOf(driver)] = <<"leds">>
    BY <1>5 DEF Steps, LenOf, LedSteps
  <2>2. <<"leds">> # <<"direct">>
    OBVIOUS
  <2> QED BY <1>1, <1>2, <1>3, <1>5, <2>1, <2>2
<1>6. CASE driver = "touch"
  <2>1. Steps(driver)[LenOf(driver)] = <<"touch">>
    BY <1>6 DEF Steps, LenOf
  <2>2. <<"touch">> # <<"direct">>
    OBVIOUS
  <2> QED BY <1>1, <1>2, <1>3, <1>6, <2>1, <2>2
<1> QED BY <1>4, <1>5, <1>6 DEF Drivers

(* So far the display's driver has done what the steps before did.         *)
LEMMA LcdProgress ==
  ASSUME PinInv, NEW k \in Nat, At("lcd", k)
  PROVE  /\ LcdAt(k) /\ k \in 1 .. LcdLen /\ ops # << >>
         /\ Head(ops) = LcdSteps[k]
<1>1. "lcd" \in Drivers /\ LenOf("lcd") = LcdLen /\ LcdLen \in Nat /\ Steps("lcd") = LcdSteps
  BY PanelConstants DEF Drivers, LenOf, LcdLen, Steps
<1>2. k \in 1 .. LcdLen /\ Len(ops) = LcdLen - k + 1
  BY <1>1 DEF At
<1>3. ops \in Seq(OpSet) /\ Len(ops) \in Nat \ {0}
  BY <1>1, <1>2 DEF PinInv, Making
<1>4. ops # << >> /\ Head(ops) = ops[1]
  BY <1>3
<1>5. ops[1] = LcdSteps[k]
  <2>1. 1 \in 1 .. Len(ops) /\ k - 1 + 1 = k
    BY <1>3
  <2> QED BY <1>1, <2>1 DEF At
<1>6. PICK driver \in Drivers, j \in Nat : At(driver, j) /\ Progress(driver, j)
  BY <1>4 DEF PinInv, Making
<1>7. driver = "lcd"
  BY <1>1, <1>4, <1>6, LastStep
<1>8. j = k
  BY <1>1, <1>2, <1>6, <1>7 DEF At
<1> QED BY <1>2, <1>4, <1>5, <1>6, <1>7, <1>8 DEF Progress

LcdKnown == \A k \in Nat : At("lcd", k) => LcdAt(k)

LEMMA KnownNow == PinInv => LcdKnown
BY LcdProgress DEF LcdKnown

LEMMA KnownNext == PinInv' => LcdKnown'
BY KnownNow, PTL

(* A step of a driver that leaves the display's driver at its k-th step    *)
(* was the one before.                                                     *)
LEMMA LcdBefore ==
  ASSUME PinInv, PinInv', DriverStep, NEW k \in Nat, At("lcd", k)'
  PROVE  k - 1 \in Nat /\ At("lcd", k - 1)
<1>1. PICK driver \in Drivers, j \in Nat : At(driver, j)
  BY DEF PinInv, Making, DriverStep
<1>2. ops \in Seq(OpSet) /\ Len(ops) \in Nat \ {0} /\ ops # << >> /\ ops' = Tail(ops)
  BY DEF PinInv, Making, DriverStep
<1>3. ops' \in Seq(OpSet) /\ Len(ops') = Len(ops) - 1 /\ \A i \in 1 .. Len(ops') : ops'[i] = ops[i + 1]
  BY <1>2
<1>4. LenOf("lcd") = LcdLen /\ LcdLen \in Nat /\ Steps("lcd") = LcdSteps /\ "lcd" \in Drivers
  BY PanelConstants DEF Drivers, LenOf, LcdLen, Steps
<1>5. LenOf("lcd")' = LcdLen /\ Steps("lcd")' = LcdSteps
  BY DEF LenOf, LcdLen, Steps, LcdSteps, LedSteps, InitGpio
<1>6. /\ k \in 1 .. LcdLen /\ Len(ops') = LcdLen - k + 1
      /\ \A i \in 1 .. Len(ops') : ops'[i] = LcdSteps[k - 1 + i]
  BY <1>5 DEF At
<1>7. Len(ops') \in 1 .. Len(ops') /\ Len(ops') + 1 = Len(ops)
  BY <1>2, <1>3, <1>4, <1>6
<1>8. ops[Len(ops)] = ops'[Len(ops')]
  BY <1>3, <1>7
<1>9. ops'[Len(ops')] = <<"direct">>
  <2>1. k - 1 + Len(ops') = LcdLen
    BY <1>4, <1>6
  <2>2. ops'[Len(ops')] = LcdSteps[k - 1 + Len(ops')]
    BY <1>6, <1>7
  <2> QED BY <2>1, <2>2, LcdStepsAre
<1>10. driver = "lcd"
  BY <1>1, <1>2, <1>8, <1>9, LastStep
<1>11. Len(ops) = LcdLen - j + 1
  BY <1>1, <1>4, <1>10 DEF At
<1>12. j = k - 1
  BY <1>4, <1>6, <1>7, <1>11
<1> QED BY <1>1, <1>10, <1>12

LEMMA ReadyNext == DisplayReady' <=> Ready(lcd')
<1>1. Len(InitRegs) \in Nat /\ DOMAIN InitRegs = 1 .. Len(InitRegs)
  BY InitRegsAre
<1> QED BY <1>1 DEF DisplayReady, Ready, Held

LEMMA ReadyKept == lcd' = lcd /\ DisplayReady => DisplayReady'
BY ReadyIs, ReadyNext

(* A display whose line is high is not reset by a step.                    *)
LEMMA OutOfReset == PinInv' /\ PanelOut' => ~DisplayLow
BY DEF PinInv, Registers, InStep, PanelOut, DisplayLow

(* Driving the line low resets the display.                                *)
LEMMA LowResets ==
  ASSUME PinInv, DriverStep, At("lcd", 4), DisplayStep(Len(DisplayWords))
  PROVE  lcd' = DisplayReset
<1>1. LcdAt(4) /\ ops # << >> /\ Head(ops) = LcdSteps[4]
  BY LcdProgress
<1>2. Head(ops) = <<"set", LcdReset, FALSE>>
  BY <1>1, LcdStepsAre
<1> DEFINE op == Head(ops)
<1>3. Means(op)
  BY StepMeans
<1> HIDE DEF op
<1>4. op = <<"set", LcdReset, FALSE>>
  BY <1>2 DEF op
<1>5. expander /\ SetPinState(LcdReset, FALSE) /\ UNCHANGED expander
  BY <1>3, <1>4, SetMeans
<1>6. Registers
  BY DEF PinInv
<1>7. /\ Registers' /\ outputPort'.last # {} /\ UNCHANGED cfgPort
      /\ outputPort'.value = outputPort.value \ {LcdReset}
  BY <1>5, <1>6, SetPins, PanelConstants
<1>8. LcdReset \notin chipOut'
  BY <1>7 DEF Registers, InStep
<1>9. LcdReset \notin cfgPort'.value /\ expander'
  BY <1>1, <1>5, <1>7 DEF LcdAt
<1>10. LcdReset \notin chipCfg'
  BY <1>7, <1>9 DEF Registers, InStep
<1>11. DisplayLow
  BY <1>8, <1>10 DEF DisplayLow
<1> QED BY <1>11 DEF DisplayStep

(* Without a reset only the display's own step changes it.                 *)
LEMMA DisplayStays ==
  ASSUME ~DisplayLow, ~InDisplay, NEW n, DisplayStep(n) PROVE lcd' = lcd
BY DEF DisplayStep

LEMMA DisplayMade ==
  ASSUME ~DisplayLow, InDisplay, DisplayStep(Len(DisplayWords)), lcd = DisplayReset
  PROVE  DisplayReady'
<1>1. lcd' \in Sent(lcd, Len(DisplayWords))
  BY DEF DisplayStep
<1> QED BY <1>1, AllReceived, ReadyNext

(* The display's own step is the sixth of its driver.                      *)
LEMMA SixthIsDisplay ==
  ASSUME PinInv, NEW k \in Nat, At("lcd", k)
  PROVE  InDisplay <=> k = 6
<1>1. k \in 1 .. LcdLen /\ ops # << >> /\ Head(ops) = LcdSteps[k]
  BY LcdProgress
<1>2. NButtons \in Nat /\ LcdLen = NButtons + 7
  BY PanelConstants DEF LcdLen
<1>3. CASE k = 6
  BY <1>1, <1>3, LcdStepsAre DEF InDisplay
<1>4. CASE k \in 1 .. 5
  <2>1. LcdSteps[k][1] \in {"expander", "configure", "set"}
    BY <1>4, LcdStepsAre
  <2> QED BY <1>1, <1>4, <2>1 DEF InDisplay
<1>5. CASE k \in 7 .. NButtons + 6
  <2>1. LcdSteps[k][1] = "configure"
    BY <1>5, LcdStepsAre
  <2>2. k # 6
    BY <1>5
  <2> QED BY <1>1, <2>1, <2>2 DEF InDisplay
<1>6. CASE k = LcdLen
  <2>1. LcdSteps[k][1] = "direct"
    BY <1>6, LcdStepsAre
  <2>2. k # 6
    BY <1>2, <1>6
  <2> QED BY <1>1, <2>1, <2>2 DEF InDisplay
<1> QED BY <1>1, <1>2, <1>3, <1>4, <1>5, <1>6

LEMMA InDisplayIsLcd ==
  ASSUME PinInv, InDisplay PROVE At("lcd", 6)
<1>1. ops # << >> /\ Head(ops)[1] = "display"
  BY DEF InDisplay
<1>2. PICK driver \in Drivers, k \in Nat : At(driver, k)
  BY <1>1 DEF PinInv, Making
<1>3. ops \in Seq(OpSet) /\ Len(ops) \in Nat \ {0} /\ Head(ops) = ops[1]
  BY <1>1 DEF PinInv, Making
<1>4. Head(ops) = Steps(driver)[k] /\ k \in 1 .. LenOf(driver)
  <2>1. 1 \in 1 .. Len(ops) /\ k - 1 + 1 = k
    BY <1>3
  <2> QED BY <1>2, <1>3, <2>1 DEF At
<1>5. CASE driver = "lcd"
  <2>1. At("lcd", k)
    BY <1>2, <1>5
  <2>2. k = 6
    BY <2>1, SixthIsDisplay
  <2> QED BY <2>1, <2>2
<1>6. CASE driver = "led"
  <2>1. k \in 1 .. 3 /\ Head(ops) = LedSteps[k]
    BY <1>4, <1>6 DEF LenOf, Steps
  <2>2. LedSteps[k][1] \in {"configure", "set", "leds"}
    BY <2>1 DEF LedSteps
  <2> QED BY <1>1, <2>1, <2>2
<1>7. CASE driver = "touch"
  <2>1. Head(ops) = <<"touch">>
    BY <1>4, <1>7 DEF LenOf, Steps
  <2> QED BY <1>1, <2>1
<1> QED BY <1>5, <1>6, <1>7 DEF Drivers

LEMMA DriverDisplay ==
  ASSUME PinInv, PinInv', DisplayInv, DriverStep, DisplayStep(Len(DisplayWords))
  PROVE  DisplayInv'
<1>1. ASSUME direct' PROVE DisplayReady'
  <2>1. ~DisplayLow
    BY <1>1, OutOfReset DEF PinInv, Driven
  <2>2. direct \/ Head(ops)[1] = "direct"
    BY <1>1 DEF DriverStep
  <2>3. ~InDisplay
    <3> SUFFICES ASSUME InDisplay PROVE FALSE
      OBVIOUS
    <3>1. At("lcd", 6) /\ 6 \in Nat
      BY InDisplayIsLcd
    <3>2. LcdAt(6)
      BY <3>1, LcdProgress
    <3>3. ~direct /\ Head(ops)[1] = "display"
      BY <3>2 DEF LcdAt, InDisplay
    <3> QED BY <2>2, <3>3
  <2>4. lcd' = lcd
    BY <2>1, <2>3, DisplayStays
  <2>5. CASE direct
    BY <2>4, <2>5, ReadyKept DEF DisplayInv
  <2>6. CASE Head(ops)[1] = "direct"
    <3>1. PICK driver \in Drivers, k \in Nat : At(driver, k)
      BY DEF PinInv, Making, DriverStep
    <3>2. ops \in Seq(OpSet) /\ Len(ops) \in Nat \ {0} /\ Head(ops) = ops[1]
      BY DEF PinInv, Making, DriverStep
    <3>3. Head(ops) = Steps(driver)[k] /\ k \in 1 .. LenOf(driver)
      <4>1. 1 \in 1 .. Len(ops) /\ k - 1 + 1 = k
        BY <3>2
      <4> QED BY <3>1, <3>2, <4>1 DEF At
    <3>4. driver = "lcd"
      <4>1. CASE driver = "led"
        <5>1. k \in 1 .. 3 /\ Head(ops) = LedSteps[k]
          BY <3>3, <4>1 DEF LenOf, Steps
        <5>2. LedSteps[k][1] \in {"configure", "set", "leds"}
          BY <5>1 DEF LedSteps
        <5> QED BY <2>6, <5>1, <5>2
      <4>2. CASE driver = "touch"
        <5>1. Head(ops) = <<"touch">>
          BY <3>3, <4>2 DEF LenOf, Steps
        <5> QED BY <2>6, <5>1
      <4> QED BY <4>1, <4>2 DEF Drivers
    <3>5. At("lcd", k) /\ k \in 1 .. LcdLen /\ Head(ops) = LcdSteps[k]
      BY <3>1, <3>3, <3>4 DEF LenOf, Steps
    <3>6. k >= 7
      <4>1. \A j \in 1 .. 6 : LcdSteps[j][1] # "direct"
        BY LcdStepsAre
      <4> QED BY <2>6, <3>5, <4>1
    <3>7. DisplayReady
      BY <3>5, <3>6 DEF DisplayInv, DisplayAt
    <3> QED BY <2>4, <3>7, ReadyKept
  <2> QED BY <2>2, <2>5, <2>6
<1>2. ASSUME NEW k \in Nat, At("lcd", k)' PROVE DisplayAt(k)'
  <2>1. k - 1 \in Nat /\ At("lcd", k - 1)
    BY <1>2, LcdBefore
  <2>2. DisplayAt(k - 1)
    BY <2>1 DEF DisplayInv
  <2>3. InDisplay <=> k - 1 = 6
    BY <2>1, SixthIsDisplay
  <2>4. k >= 6 => PanelOut'
    <3>1. LcdAt(k)'
      BY <1>2, KnownNext DEF LcdKnown
    <3> QED BY <3>1 DEF LcdAt
  <2>5. k >= 6 => ~DisplayLow
    BY <2>4, OutOfReset
  <2>6. CASE k < 5
    BY <2>6 DEF DisplayAt
  <2>7. CASE k = 5
    <3>1. k - 1 = 4
      BY <2>7
    <3>2. lcd' = DisplayReset
      BY <2>1, <3>1, LowResets
    <3>3. ~(k >= 7)
      BY <2>7
    <3> QED BY <3>2, <3>3 DEF DisplayAt, DisplayReset
  <2>8. CASE k = 6
    <3>1. k - 1 = 5 /\ k >= 6 /\ ~(k >= 7)
      BY <2>8
    <3>2. lcd' = lcd
      BY <2>3, <2>5, <3>1, DisplayStays
    <3>3. lcd = DisplayReset
      BY <2>2, <3>1 DEF DisplayAt
    <3> QED BY <3>1, <3>2, <3>3 DEF DisplayAt, DisplayReset
  <2>9. CASE k = 7
    <3>1. k - 1 = 6 /\ k >= 6 /\ k \notin {5, 6}
      BY <2>9
    <3>2. lcd = DisplayReset
      BY <2>2, <3>1 DEF DisplayAt
    <3>3. DisplayReady'
      BY <2>3, <2>5, <3>1, <3>2, DisplayMade
    <3> QED BY <3>1, <3>3 DEF DisplayAt
  <2>10. CASE k > 7
    <3>1. k - 1 >= 7 /\ k - 1 # 6 /\ k >= 6 /\ k \notin {5, 6}
      BY <2>10
    <3>2. lcd' = lcd
      BY <2>3, <2>5, <3>1, DisplayStays
    <3>3. DisplayReady
      BY <2>2, <3>1 DEF DisplayAt
    <3>4. DisplayReady'
      BY <3>2, <3>3, ReadyKept
    <3> QED BY <3>1, <3>4 DEF DisplayAt
  <2> QED BY <2>6, <2>7, <2>8, <2>9, <2>10
<1> QED BY <1>1, <1>2 DEF DisplayInv

LEMMA DisplayUntouched == DisplayInv /\ UNCHANGED <<lcd, direct, ops>> => DisplayInv'
<1> SUFFICES ASSUME DisplayInv, lcd' = lcd, direct' = direct, ops' = ops PROVE DisplayInv'
  OBVIOUS
<1>1. DisplayReady => DisplayReady'
  BY ReadyKept
<1>2. ASSUME NEW k \in Nat, At("lcd", k)' PROVE DisplayAt(k)'
  <2>1. LenOf("lcd")' = LenOf("lcd") /\ Steps("lcd")' = Steps("lcd")
    BY DEF LenOf, LcdLen, Steps, LcdSteps, LedSteps, InitGpio
  <2>2. At("lcd", k)
    BY <1>2, <2>1 DEF At
  <2> QED BY <1>1, <2>2 DEF DisplayInv, DisplayAt, DisplayReset
<1> QED BY <1>1, <1>2 DEF DisplayInv

(* However a process ends, no driver is being made any more.               *)
LEMMA DisplayEnds == direct' = FALSE /\ ops' = << >> => DisplayInv'
<1> SUFFICES ASSUME direct' = FALSE, ops' = << >> PROVE DisplayInv'
  OBVIOUS
<1>1. LcdLen \in Nat /\ LenOf("lcd")' = LcdLen
  BY PanelConstants DEF LenOf, LcdLen
<1>2. ASSUME NEW k \in Nat, At("lcd", k)' PROVE FALSE
  <2>1. k \in 1 .. LcdLen /\ Len(ops') = LcdLen - k + 1
    BY <1>1, <1>2 DEF At
  <2>2. Len(ops') = 0
    OBVIOUS
  <2> QED BY <1>1, <2>1, <2>2
<1> QED BY <1>2 DEF DisplayInv

(* The next driver begins with its first step.                             *)
LEMMA NextDriverDisplay ==
  ASSUME PinInv, PinInv', DisplayInv, NextDriver, DisplayStep(Len(DisplayWords))
  PROVE  DisplayInv'
<1>1. todo \in Seq(Drivers) /\ todo # << >> /\ ops = << >> /\ UNCHANGED direct
  BY DEF NextDriver, PinInv, Making, buttonVars
<1>2. PICK driver \in Drivers : driver = Head(todo)
  BY <1>1
<1>3. ops' = Steps(driver) /\ Len(ops') = LenOf(driver) /\ ops' \in Seq(OpSet)
  BY <1>2, StepsAre DEF NextDriver
<1>4. LcdLen \in Nat /\ LcdLen >= 7 /\ LenOf("lcd")' = LcdLen /\ Steps("lcd")' = LcdSteps
  <2>1. LcdLen \in Nat /\ LcdLen >= 7
    BY PanelConstants DEF LcdLen
  <2>2. LenOf("lcd")' = LcdLen
    BY DEF LenOf, LcdLen
  <2>3. Steps("lcd")' = LcdSteps
    BY DEF Steps, LcdSteps, LedSteps, InitGpio
  <2> QED BY <2>1, <2>2, <2>3
<1>5. ASSUME NEW k \in Nat, At("lcd", k)' PROVE k = 1
  <2>1. /\ k \in 1 .. LcdLen /\ Len(ops') = LcdLen - k + 1
        /\ \A i \in 1 .. Len(ops') : ops'[i] = LcdSteps[k - 1 + i]
    BY <1>4, <1>5 DEF At
  <2>2. Len(ops') \in 1 .. Len(ops') /\ k - 1 + Len(ops') = LcdLen
    BY <1>4, <2>1
  <2>3. ops'[Len(ops')] = <<"direct">>
    BY <2>1, <2>2, LcdStepsAre
  <2>4. CASE driver = "lcd"
    BY <1>3, <1>4, <2>1, <2>4 DEF LenOf
  <2>5. CASE driver = "led"
    <3>1. ops' = LedSteps /\ Len(ops') = 3
      BY <1>3, <2>5 DEF LenOf, Steps
    <3>2. ops'[3] = <<"leds">>
      BY <3>1 DEF LedSteps
    <3> QED BY <2>3, <3>1, <3>2
  <2>6. CASE driver = "touch"
    <3>1. ops' = <<<<"touch">>>> /\ Len(ops') = 1
      BY <1>3, <2>6 DEF LenOf, Steps
    <3> QED BY <2>3, <3>1
  <2> QED BY <2>4, <2>5, <2>6 DEF Drivers
<1>6. ASSUME direct' PROVE DisplayReady'
  <2>1. ~DisplayLow
    BY <1>6, OutOfReset DEF PinInv, Driven
  <2>2. lcd' = lcd
    BY <1>1, <2>1, DisplayStays DEF InDisplay
  <2> QED BY <1>1, <1>6, <2>2, ReadyKept DEF DisplayInv
<1> QED BY <1>5, <1>6 DEF DisplayInv, DisplayAt

LEMMA EndsDisplay == ASSUME NEW how, Ends(how) PROVE DisplayInv'
BY DisplayEnds DEF Ends

LEMMA CleanUpDisplay == ASSUME NEW lit, CleanUp(lit) PROVE DisplayInv'
BY EndsDisplay DEF CleanUp

LEMMA DiesDisplay == DisplayInv /\ Dies => DisplayInv'
<1> SUFFICES ASSUME DisplayInv, Dies PROVE DisplayInv'
  OBVIOUS
<1>1. CASE Kill
  BY <1>1, EndsDisplay DEF Kill
<1>2. CASE EarlyEnd("failure")
  BY <1>2, DisplayUntouched DEF EarlyEnd, panelVars, buttonVars
<1> QED BY <1>1, <1>2 DEF Dies

LEMMA DisplayInvStep ==
  PinInv /\ PinInv' /\ DisplayInv /\ [BootNext]_bootVars => DisplayInv'
<1> SUFFICES ASSUME PinInv, PinInv', DisplayInv, [BootNext]_bootVars PROVE DisplayInv'
  OBVIOUS
<1>1. ASSUME UNCHANGED panelVars PROVE DisplayInv'
  BY <1>1, DisplayUntouched DEF panelVars, buttonVars
<1>2. CASE StartUp
  <2>1. CASE SetUp \/ ScanBus \/ ReadKey
    BY <1>1, <2>1 DEF SetUp, ScanBus, ReadKey
  <2>2. CASE SecondPass
    BY <2>2, DisplayUntouched DEF SecondPass, Start, buttonVars
  <2>3. CASE MakeDrivers
    BY <2>3, DriverDisplay, NextDriverDisplay DEF MakeDrivers
  <2>4. CASE StartUpThrows
    BY <1>1, <2>4, CleanUpDisplay, EndsDisplay DEF StartUpThrows, EarlyEnd, StepThrows, NullExpander
  <2>5. CASE SayReady
    BY <2>5, DisplayUntouched DEF SayReady, EnterLoop, buttonVars
  <2> QED BY <1>2, <2>1, <2>2, <2>3, <2>4, <2>5 DEF StartUp
<1>3. CASE Loop
  <2>1. CASE Poll
    BY <2>1, DisplayUntouched DEF Poll, UpdateButtonState
  <2>2. CASE Serve
    BY <1>1, <2>2, DisplayUntouched DEF Serve, UpdateIndicators, buttonVars
  <2>3. CASE TellSystemd \/ TurnEnds
    BY <1>1, <2>3 DEF TellSystemd, TurnEnds
  <2>4. CASE CallbackThrows
    BY <2>4, CleanUpDisplay, EndsDisplay DEF CallbackThrows, PollThrows, UpdateThrows, LoopThrows
  <2>5. CASE Terminate
    BY <2>5, CleanUpDisplay DEF Terminate, HandleTermination
  <2> QED BY <1>3, <2>1, <2>2, <2>3, <2>4, <2>5 DEF Loop
<1>4. CASE Outside
  <2>1. CASE Tick \/ Signal
    BY <1>1, <2>1 DEF Tick, Signal
  <2>2. CASE Untrapped
    BY <1>1, <2>2 DEF Untrapped, EarlyEnd
  <2>3. CASE Crash
    BY <2>3, DiesDisplay DEF Crash
  <2>4. CASE PressButton
    BY <2>4, DisplayUntouched DEF PressButton, Press, buttonVars
  <2> QED BY <1>4, <2>1, <2>2, <2>3, <2>4 DEF Outside
<1>5. CASE Systemd
  <2>1. CASE StartProcess
    BY <1>1, <2>1 DEF StartProcess
  <2>2. CASE StartTimeout \/ WatchdogExpires
    BY <2>2, DiesDisplay DEF StartTimeout, WatchdogExpires
  <2> QED BY <1>5, <2>1, <2>2 DEF Systemd
<1>6. CASE UNCHANGED bootVars
  BY <1>1, <1>6 DEF bootVars
<1> QED BY <1>2, <1>3, <1>4, <1>5, <1>6 DEF BootNext

(* In service the display is fully initialised and out of reset, and the   *)
(* LED outputs are enabled: for every panel's table of registers, order of *)
(* drivers, and history of words lost half way, kills and restarts.        *)
THEOREM PanelReadyCorrect == BootSpec => []PanelReady
<1>1. BootInit => PinInv /\ DisplayInv
  <2>1. BootInit => PinInv
    BY PinInit DEF BootInit
  <2>2. ASSUME BootInit PROVE DisplayInv
    <3>1. direct = FALSE /\ ops = << >> /\ Len(ops) = 0
      BY <2>2 DEF BootInit, Init
    <3>2. LcdLen \in Nat /\ LenOf("lcd") = LcdLen
      BY PanelConstants DEF LenOf, LcdLen
    <3>3. \A k \in Nat : ~At("lcd", k)
      BY <3>1, <3>2 DEF At
    <3> QED BY <3>1, <3>3 DEF DisplayInv
  <2> QED BY <2>1, <2>2
<1>2. PinInv /\ DisplayInv /\ [BootNext]_bootVars => PinInv' /\ DisplayInv'
  BY PanelStep, PinStep, DisplayInvStep
<1>3. DisplayInv => (pc = "loop" /\ direct => DisplayReady)
  BY DEF DisplayInv
<1>4. BootSpec => [](pc = "loop" /\ direct => DisplayReady)
  BY <1>1, <1>2, <1>3, PTL DEF BootSpec
<1> QED BY <1>4, BootPanelEnabled, PTL DEF PanelReady

=============================================================================
