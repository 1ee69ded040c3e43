------------------------------- MODULE Pca9535 -------------------------------
(***************************************************************************)
(* The GPIO expander of the front panel and its driver,                    *)
(* drivers/gpio/Pca9535: cached configuration and output registers, of     *)
(* which only the halves that changed are written.  A register is the set  *)
(* of its bits that are 1, a std::optional a set of at most one value.     *)
(* The polarity register is left out: it is written once, with 0.          *)
(*                                                                         *)
(* Of the chip, outside the repository: a configuration bit of 1 makes an  *)
(* input; reading gives the level at a pin, input or not; both registers   *)
(* are all ones after power-on and outlive the process.                    *)
(***************************************************************************)
EXTENDS Naturals

CONSTANT Pins   (* the pins something is connected to                      *)

ASSUME PinsAssumption == Pins \subseteq 0 .. 15

VARIABLES
  cfgPort, outputPort,  (* RegData: value, and what was written last       *)
  chipCfg, chipOut,     (* the chip's registers                            *)
  high                  (* pins something outside drives high              *)

portVars == <<cfgPort, outputPort>>
expanderVars == <<portVars, chipCfg, chipOut>>

(* GpioChip::PinMode.                                                      *)
Input  == 0
Output == 1

(* "mode & flag", for a flag of one bit or none.                           *)
Has(mode, flag) == flag > 0 /\ (mode \div flag) % 2 = 1

Halves == {Pins \cap 0 .. 7, Pins \cap 8 .. 15}

Unwritten(bits) == [value |-> bits, last |-> {}]

(* Mutant of DirtyHalves: what was never written counts as 0.              *)
DirtyFromZero(reg) ==
  LET last == IF reg.last = {} THEN {} ELSE CHOOSE v \in reg.last : TRUE
  IN  {h \in Halves : last \cap h # reg.value \cap h}

DirtyHalves(reg) == {h \in Halves : \A v \in reg.last : v \cap h # reg.value \cap h}

Written(chip, reg, halves) == (chip \ UNION halves) \cup (reg.value \cap UNION halves)

(* updatePartialRegister(): all dirty halves are written.                  *)
UpdateConfigPort(reg) ==
  /\ chipCfg' = Written(chipCfg, reg, DirtyHalves(reg))
  /\ cfgPort' = [reg EXCEPT !.last = {reg.value}]
UpdateOutputPort(reg) ==
  /\ chipOut' = Written(chipOut, reg, DirtyHalves(reg))
  /\ outputPort' = [reg EXCEPT !.last = {reg.value}]

(* The cached registers after configurePin(), setPinState().               *)
Configured(pin, mode) ==
  IF Has(mode, Input) THEN [cfgPort EXCEPT !.value = @ \cup {pin}]
                      ELSE [cfgPort EXCEPT !.value = @ \ {pin}]

PinSet(pin, asserted) ==
  [outputPort EXCEPT !.value = IF asserted THEN @ \cup {pin} ELSE @ \ {pin}]

(* A new driver object; its constructor makes every pin an input.          *)
NoExpander == cfgPort = Unwritten({}) /\ outputPort = Unwritten({})
NewExpander ==
  /\ UpdateConfigPort(Unwritten(Pins))
  /\ outputPort' = Unwritten({})
  /\ UNCHANGED chipOut

ConfigurePin(pin, mode) ==
  /\ UpdateConfigPort(Configured(pin, mode))
  /\ UNCHANGED <<outputPort, chipOut>>

SetPinState(pin, asserted) ==
  /\ UpdateOutputPort(PinSet(pin, asserted))
  /\ UNCHANGED <<cfgPort, chipCfg>>

(* A transfer failed: any part of the dirty halves has reached the chip.   *)
PartWritten(chip, reg) == {Written(chip, reg, halves) : halves \in SUBSET DirtyHalves(reg)}

(* What getPinState() can return.  A pin the chip drives against somebody  *)
(* else reads as either.                                                   *)
PinStates ==
  {r \in SUBSET Pins : \A p \in Pins :
     (p \in r) \in {p \in high} \cup (IF p \in chipCfg THEN {} ELSE {p \in chipOut})}

ExpanderTypeOK ==
  /\ \A reg \in {cfgPort, outputPort} :
       reg.value \subseteq Pins /\ \A v \in reg.last : v \subseteq Pins
  /\ chipCfg \subseteq Pins /\ chipOut \subseteq Pins
  /\ high \subseteq Pins

==============================================================================
