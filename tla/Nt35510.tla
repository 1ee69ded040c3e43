------------------------------- MODULE Nt35510 -------------------------------
(***************************************************************************)
(* The display controller and its driver, drivers/lcd/Nt35510.cpp: the     *)
(* constructor sends words over SPI, two for a command and a third one for *)
(* its value, and any of them can fail; then it is not used again.         *)
(*                                                                         *)
(* Of the chip, outside the repository: a command is the two halves of an  *)
(* address; those from 0xb000 on have a register on each page, and 0xf004  *)
(* selects the page; it keeps all that while its reset line is high.  A    *)
(* word cut short is dropped, because the constructor raises the select    *)
(* line.  The key that unlocks the pages is an ordinary register here.     *)
(***************************************************************************)
EXTENDS Integers, Records, SequencesExt

CONSTANT InitRegs   (* gPanelData[0].initRegs: pairs of address and value  *)

ASSUME DisplayAssumption ==
  LET octet == 0 .. 255 IN InitRegs \in Seq((octet \X octet) \X octet)

VARIABLE lcd        (* the controller                                      *)

Page     == <<240, 4>>
SleepOut == <<17, 0>>
TurnOn   == <<41, 0>>

DisplayReset ==
  [upper |-> 0, lower |-> 0, page |-> 0, regs |-> << >>, awake |-> FALSE, on |-> FALSE]

(* Mutant of RegWrite: a value of 0 is taken for none.                     *)
RegWriteNonZero(address, value) ==
  <<<<"upper", address[1]>>, <<"lower", address[2]>>>>
    \o SetToSeq({<<"data", v>> : v \in value \ {0}})

(* The words of a command.  An std::optional is a set of at most one value.*)
RegWrite(address, value) ==
  <<<<"upper", address[1]>>, <<"lower", address[2]>>>>
    \o SetToSeq({<<"data", v>> : v \in value})
RegRead(address) == RegWrite(address, {}) \o <<<<"read", 0>>>>

ReadIds == Joined([n \in 1 .. 3 |-> RegRead(<<4, n - 1>>)])
             \o Joined([n \in 1 .. 3 |-> RegRead(<<217 + n, 0>>)])
RunInitSequence ==
  Joined([n \in DOMAIN InitRegs |-> RegWrite(InitRegs[n][1], {InitRegs[n][2]})])
EnableDisplay == RegWrite(SleepOut, {}) \o RegWrite(TurnOn, {})

(* All the words of the constructor.                                       *)
DisplayWords == ReadIds \o RunInitSequence \o EnableDisplay

Register(address, page) == <<IF address[1] >= 176 THEN page ELSE 0, address>>

(* What the chip makes of a word.                                          *)
Received(chip, word) ==
  LET address == <<chip.upper, chip.lower>>
      reg     == Register(address, chip.page)
  IN  CASE word[1] = "upper" -> [chip EXCEPT !.upper = word[2]]
        [] word[1] = "lower" ->
             [chip EXCEPT !.lower = word[2],
                          !.awake = @ \/ <<chip.upper, word[2]>> = SleepOut,
                          !.on    = @ \/ <<chip.upper, word[2]>> = TurnOn]
        [] word[1] = "data" /\ address = Page -> [chip EXCEPT !.page = word[2]]
        [] word[1] = "data" /\ address # Page ->
             [chip EXCEPT !.regs = [r \in DOMAIN @ \cup {reg} |->
                                      IF r = reg THEN word[2] ELSE @[r]]]
        [] word[1] = "read"  -> chip

(* What it can be after the first n words: a set, of one member.           *)
Sent(chip, n) ==
  LET after[k \in 0 .. n] ==
        IF k = 0 THEN {chip} ELSE {Received(c, DisplayWords[k]) : c \in after[k - 1]}
  IN  after[n]

(* The page and the register an entry of InitRegs is meant for.            *)
PageAt(n) ==
  LET selects == {m \in 1 .. n - 1 : InitRegs[m][1] = Page}
  IN  IF selects = {} THEN 0 ELSE InitRegs[Max(selects)][2]
MeantFor(n) == Register(InitRegs[n][1], PageAt(n))

(* Every register has the last value the panel's data gives it, on the     *)
(* page it belongs to, and the display is awake and on.                    *)
DisplayReady ==
  /\ lcd.awake /\ lcd.on
  /\ \A n \in DOMAIN InitRegs :
       \/ InitRegs[n][1] = Page
       \/ \E m \in n + 1 .. Len(InitRegs) : MeantFor(m) = MeantFor(n) /\ InitRegs[m][1] # Page
       \/ MeantFor(n) \in DOMAIN lcd.regs /\ lcd.regs[MeantFor(n)] = InitRegs[n][2]

=============================================================================
