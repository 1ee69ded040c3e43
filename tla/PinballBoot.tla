----------------------------- MODULE PinballBoot -----------------------------
(***************************************************************************)
(* pinballd as systemd runs it (pinballd.service): main() sets up the      *)
(* event loop, looks for the ID PROM and reads it twice, says READY, and   *)
(* serves, supervised by the watchdog; it is restarted after a failure and *)
(* left alone after an exit with status 0.  FrontPanel has the drivers and *)
(* the chips, and takes part in every step of this module from the second  *)
(* reading on; what interrupts them is added here.                         *)
(*                                                                         *)
(* Of systemd: SIGTERM, SIGINT and SIGHUP count as a clean end; a start    *)
(* that never says READY is killed, and so is a daemon whose watchdog      *)
(* expired; five seconds between restarts stay below its start limit.      *)
(***************************************************************************)
EXTENDS FrontPanel, Watchdog, IdProm, Nt35510

CONSTANTS
  Addresses,   (* of the bus, where an ID PROM may answer                  *)
  Cuts         (* bound: words of the display sent when its constructor is *)
               (* interrupted                                              *)

ASSUME BootAssumption ==
  /\ Addresses \subseteq Nat \ {0} /\ Cuts \subseteq Nat
  /\ \A p \in Proms : p.at \in Addresses /\ p.keys \in Seq(STRING) /\ p.serial \in Seq(Byte)

VARIABLES
  main,            (* how far main() is; "off" when no process runs        *)
  unit,            (* the state systemd has for the unit                   *)
  term,            (* a signal is waiting for the event loop               *)
  idpromAddress,   (* 0 when there is none                                 *)
  key,             (* the next key of the payload's map, in the first pass *)
  hwRevision,      (* a revision is known                                  *)
  hwSerial         (* the serial number, once it is known                  *)

probeVars == <<idpromAddress, key, hwRevision, hwSerial>>
panelVars ==
  <<prom, pc, todo, ops, expander, buttonVars, ledVars, pwm, expanderVars, high, lcd>>
bootVars == <<panelVars, watchdogVars, main, unit, term, probeVars>>

Nothing == << >>

ProbeInit == idpromAddress = 0 /\ key = 1 /\ hwRevision = FALSE /\ hwSerial = Nothing

BootInit ==
  /\ Init /\ lcd = DisplayReset
  /\ WatchdogInit
  /\ main = "off" /\ unit = "inactive" /\ term = FALSE
  /\ ProbeInit

(***************************************************************************)
(* The end of the process                                                  *)
(***************************************************************************)
(* Mutant of ProcessEnds: the unit has no Restart=on-failure.              *)
StaysFailed(status) ==
  /\ main' = "off"
  /\ unit' = "failed"
  /\ term' = FALSE
  /\ idpromAddress' = 0 /\ key' = 1 /\ hwRevision' = FALSE /\ hwSerial' = Nothing
  /\ WatchdogOff

(* Restart=on-failure.  Status is "clean" or "failure".                    *)
ProcessEnds(status) ==
  /\ main' = "off"
  /\ unit' = IF status = "clean" THEN "inactive" ELSE "restart"
  /\ term' = FALSE
  /\ idpromAddress' = 0 /\ key' = 1 /\ hwRevision' = FALSE /\ hwSerial' = Nothing
  /\ WatchdogOff

(* Before the drivers there is nothing of the panel to clean up.           *)
EarlyEnd(status) == ProcessEnds(status) /\ UNCHANGED panelVars

(* What the display has received when the process is gone.                 *)
InDisplay == ops # << >> /\ Head(ops)[1] = "display"
DisplayCut == \E n \in Cuts : lcd' \in IF InDisplay THEN Sent(lcd, n) ELSE {lcd}

Dies ==
  \/ main = "panel" /\ Kill /\ DisplayCut /\ ProcessEnds("failure")
  \/ main # "panel" /\ EarlyEnd("failure")

(***************************************************************************)
(* Start-up                                                                *)
(***************************************************************************)
StartProcess ==
  /\ unit \in {"inactive", "restart"}
  /\ main' = "setup" /\ unit' = "activating"
  /\ UNCHANGED <<panelVars, watchdogVars, term, probeVars>>

(* The event loop, with the watchdog's timer, the signals and the socket.  *)
SetUp ==
  /\ main = "setup"
  /\ main' = "scan"
  /\ UNCHANGED <<panelVars, watchdogVars, unit, term, probeVars>>

(* Probulator's constructor: the first address whose header is right, of   *)
(* those that can be read; a read that fails is passed over.               *)
ScanBus ==
  /\ main = "scan"
  /\ idpromAddress' \in {0, prom.at}
  /\ main' = "probe"
  /\ UNCHANGED <<panelVars, watchdogVars, unit, term, key, hwRevision, hwSerial>>

(* The serial number in an EEPROM of its own: the text is given as many    *)
(* characters as there are bytes, so the end of it is missing.             *)
PointedSerial == Encode(prom.serial, Len(prom.serial))

(* probe() throws before it reads the payload if there is no PROM.         *)
PromFound == main = "probe" /\ idpromAddress # 0

(* Mutant of ReadKey: the drivers are made in the first pass.              *)
ReadKeyOrDrivers ==
  /\ PromFound
  /\ key <= Len(prom.keys)
  /\ IF prom.keys[key] = "drivers"
     THEN Start /\ main' = "panel" /\ UNCHANGED lcd
     ELSE UNCHANGED <<panelVars, main>>
  /\ key' = key + 1
  /\ hwRevision' = (hwRevision \/ prom.keys[key] = "revision")
  /\ hwSerial' = IF prom.keys[key] = "serialPointer" THEN <<PointedSerial>> ELSE hwSerial
  /\ UNCHANGED <<watchdogVars, unit, term, idpromAddress>>

(* One key of the first pass of parseIdpromPayload().  A pointer after a   *)
(* serial number is an error; a string replaces what is known.             *)
ReadKey ==
  /\ PromFound
  /\ key <= Len(prom.keys)
  /\ key' = key + 1
  /\ hwRevision' = (hwRevision \/ prom.keys[key] = "revision")
  /\ \/ prom.keys[key] = "serialString" /\ hwSerial' = <<prom.text>>
     \/ prom.keys[key] = "serialPointer" /\ hwSerial = Nothing /\ hwSerial' = <<PointedSerial>>
     \/ prom.keys[key] \notin {"serialString", "serialPointer"} /\ UNCHANGED hwSerial
  /\ UNCHANGED <<panelVars, watchdogVars, main, unit, term, idpromAddress>>

(* The second pass only looks for the drivers.                             *)
SecondPass ==
  /\ PromFound
  /\ key > Len(prom.keys)
  /\ Start
  /\ main' = "panel"
  /\ UNCHANGED <<lcd, watchdogVars, unit, term, probeVars>>

(* The display while a driver is made: reset when its line is driven low.  *)
DisplayLow == LcdReset \notin chipCfg' \cup chipOut'
DisplayStep(n) ==
  lcd' \in CASE DisplayLow                -> {DisplayReset}
            [] ~DisplayLow /\ InDisplay  -> Sent(lcd, n)
            [] ~DisplayLow /\ ~InDisplay -> {lcd}

MakeDrivers ==
  /\ main = "panel"
  /\ NextDriver \/ DriverStep
  /\ DisplayStep(Len(DisplayWords))
  /\ UNCHANGED <<watchdogVars, main, unit, term, probeVars>>

(* Mutant of StartUpThrows: main() returns 0.                              *)
ReturnsZero ==
  \/ main \in {"setup", "scan", "probe"} /\ EarlyEnd("clean")
  \/ /\ main = "panel"
     /\ StepThrows \/ NullExpander
     /\ \E n \in Cuts : DisplayStep(n)
     /\ ProcessEnds("clean")

(* Any step of start-up can throw or, before the first try, abort; a       *)
(* missing PROM and a PROM that is not in order do.  main() returns 1.     *)
StartUpThrows ==
  \/ main \in {"setup", "scan", "probe"} /\ EarlyEnd("failure")
  \/ /\ main = "panel"
     /\ StepThrows \/ NullExpander
     /\ \E n \in Cuts : DisplayStep(n)
     /\ ProcessEnds("failure")

(* Mutant of SayReady: what came before the loop is forgotten.             *)
ForgetSignals ==
  /\ main = "panel"
  /\ EnterLoop
  /\ unit' = "active"
  /\ term' = FALSE
  /\ WatchdogStart
  /\ UNCHANGED <<lcd, main, probeVars>>

SayReady ==
  /\ main = "panel"
  /\ EnterLoop
  /\ unit' = "active"
  /\ WatchdogStart
  /\ UNCHANGED <<lcd, main, term, probeVars>>

(***************************************************************************)
(* The loop                                                                *)
(***************************************************************************)
Serving == main = "panel" /\ pc = "loop"

Poll ==
  /\ Serving /\ BeginTurn
  /\ UpdateButtonState
  /\ UNCHANGED <<lcd, main, unit, term, probeVars>>

(* An indicator request, or a callback that does not concern the panel.    *)
Serve ==
  /\ Serving /\ BeginTurn
  /\ \/ (\E req \in Requests : UpdateIndicators(req)) /\ UNCHANGED lcd
     \/ UNCHANGED panelVars
  /\ UNCHANGED <<main, unit, term, probeVars>>

TellSystemd ==
  /\ Serving /\ Kick
  /\ UNCHANGED <<panelVars, main, unit, term, probeVars>>

TurnEnds ==
  /\ Serving /\ EndTurn
  /\ UNCHANGED <<panelVars, main, unit, term, probeVars>>

Status == IF pc' = "exited" THEN "clean" ELSE "failure"

(* A callback throws: what main() catches ends with status 0.              *)
CallbackThrows ==
  /\ Serving
  /\ PollThrows \/ \E req \in Requests : UpdateThrows(req)
  /\ ProcessEnds(Status)
  /\ UNCHANGED lcd

(* The signal's callback leaves the loop.                                  *)
Terminate ==
  /\ Serving /\ turn = Idle
  /\ term
  /\ HandleTermination
  /\ ProcessEnds(Status)
  /\ UNCHANGED lcd

(***************************************************************************)
(* The outside                                                             *)
(***************************************************************************)
Tick ==
  /\ \/ Serving /\ (TickIdle \/ TickBusy)
     \/ main # "off" /\ ~Serving /\ TickStart
  /\ UNCHANGED <<panelVars, main, unit, term, probeVars>>

Signal ==
  /\ main # "off"
  /\ term' = TRUE
  /\ UNCHANGED <<panelVars, watchdogVars, main, unit, probeVars>>

(* Before the loop's handlers are there a signal just ends the process.    *)
Untrapped == main = "setup" /\ term /\ EarlyEnd("clean")

Crash == main # "off" /\ Dies
StartTimeout == unit = "activating" /\ Dies
WatchdogExpires == unit = "active" /\ Expired /\ Dies

PressButton ==
  /\ \E b \in Buttons : Press(b)
  /\ UNCHANGED <<lcd, watchdogVars, main, unit, term, probeVars>>

StartUp == \/ SetUp \/ ScanBus \/ ReadKey \/ SecondPass \/ MakeDrivers
           \/ StartUpThrows \/ SayReady
Loop == Poll \/ Serve \/ TellSystemd \/ TurnEnds \/ CallbackThrows \/ Terminate
Outside == Tick \/ Signal \/ Untrapped \/ Crash \/ PressButton
Systemd == StartProcess \/ StartTimeout \/ WatchdogExpires

BootNext == StartUp \/ Loop \/ Outside \/ Systemd

BootSpec == BootInit /\ [][BootNext]_bootVars

(* Time passes, systemd acts, and the loop serves each event in some turn, *)
(* if it makes turns.  That a turn ever ends is not assumed, nor that      *)
(* start-up does.                                                          *)
BootFairSpec ==
  /\ BootSpec
  /\ WF_bootVars(Tick)
  /\ WF_bootVars(unit = "restart" /\ StartProcess)
  /\ WF_bootVars(WatchdogExpires)
  /\ WF_bootVars(StartTimeout)
  /\ SF_bootVars(Poll) /\ SF_bootVars(Terminate)

(***************************************************************************)
(* Properties                                                              *)
(***************************************************************************)
BootTypeOK ==
  /\ TypeOK /\ WatchdogTypeOK
  /\ main \in {"off", "setup", "scan", "probe", "panel"}
  /\ unit \in {"inactive", "activating", "active", "restart"}
  /\ {term, hwRevision} \subseteq BOOLEAN
  /\ idpromAddress \in Addresses \cup {0}
  /\ key \in Nat
  /\ hwSerial = Nothing \/ hwSerial \in {<<s>> : s \in {prom.text, PointedSerial}}

(* The watchdog only expires when callbacks have run for half its interval *)
(* without a pause, in the present turn of the loop and the one before it: *)
(* no start-up, however slow, no longer run of short turns and no late     *)
(* kick makes systemd kill a daemon that works.                            *)
NoFalseAlarm == Expired => Busy >= Half

(* Watchdog.h, line 11: "If this message is skipped, we'll get restarted.  *)
(* This is used to recover from hangs".  A long turn ends by itself, or    *)
(* with it the process does, and a new one starts.                         *)
HangRecovered ==
  turn >= Half ~> \/ Serving /\ turn = Idle
                  \/ main = "setup"
                  \/ unit = "inactive"

(* A signal ends the daemon whenever it comes: during start-up, which      *)
(* never looks for one, during a turn, and when the daemon hangs.          *)
TerminationHeeded == term ~> main = "off"

(* In service the shared expander enables the LED outputs and keeps the    *)
(* display out of reset, and the display is fully initialised: wherever an *)
(* earlier process was stopped, and whatever it left in either chip.       *)
PanelReady == PanelEnabled /\ (pc = "loop" /\ direct => DisplayReady)

(* Only a signal, or an exception main() catches in its loop, leaves the   *)
(* daemon down for good; a PROM that cannot be read is read again.         *)
NeverGivesUp ==
  [][unit # "inactive" /\ unit' = "inactive" => term \/ Serving]_bootVars

(* When the first driver is made, what the PROM says of the board is       *)
(* known, whatever the order of its keys; a serial number read from an     *)
(* EEPROM is exact in the bits its text has room for.                      *)
BoardKnown ==
  main = "panel" =>
    /\ hwRevision <=> \E k \in DOMAIN prom.keys : prom.keys[k] = "revision"
    /\ \A k \in DOMAIN prom.keys :
         prom.keys[k] = "serialPointer" /\ hwSerial # <<prom.text>> =>
           /\ hwSerial # Nothing
           /\ Decode(hwSerial[1]) = SubSeq(prom.serial, 1, (5 * Len(prom.serial)) \div 8)

=============================================================================
