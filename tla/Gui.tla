--------------------------------- MODULE Gui ---------------------------------
(***************************************************************************)
(* The GUI process: main() from start to exit, the version screen that     *)
(* tests the indicators and gives way to the home screen, the RPC clients  *)
(* of loadd and pinballd, and the renderer, whose one callback runs when a *)
(* page flip is done.  Either daemon can stop and start again; the clients *)
(* do not connect again.                                                   *)
(*                                                                         *)
(* An exception that meets libevent's C frames either reaches the catch    *)
(* in main() or ends the process; both are possible outcomes here.  A      *)
(* widget library outside the repository draws and calls viewWillAppear(). *)
(***************************************************************************)
EXTENDS Framebuffer, Sequences

CONSTANTS
  MaxMeas,    (* bound: measurements loadd sends                           *)
  MaxFaults,  (* bound: refused system calls, and kills                    *)
  InCap       (* bound: user events waiting, in the socket or the screen   *)

ASSUME GuiAssumption == MaxMeas \in Nat /\ MaxFaults \in Nat /\ InCap \in Nat

VARIABLES
  pc,          (* where main() is; "off" when no process runs              *)
  ended,       (* how the last process ended, or "no"                      *)
  view,        (* the root view controller                                 *)
  timerCount,  (* the version screen's                                     *)
  label,       (* the measurement in the home screen's labels              *)
  uiQueue,     (* user events the screen has not processed                 *)
  told,        (* the indicators pinballd was last told to light           *)
  load, pin,   (* the two clients' connections                             *)
  measIn,      (* measurements waiting in load                             *)
  uiIn,        (* user events waiting in pin                               *)
  loadd, pinballd,   (* the daemons accept connections                     *)
  meas,        (* measurements made                                        *)
  pinLost,     (* pinballd was stopped at some time                        *)
  faults

screenVars == <<view, timerCount, label, uiQueue, told>>
loadVars == <<load, measIn>>
pinVars == <<pin, uiIn>>
daemonVars == <<loadd, pinballd, meas, pinLost>>
vars == <<fbVars, tty, pc, ended, screenVars, loadVars, pinVars, daemonVars, faults>>

(* What pinballd broadcasts; the client passes some of it to the screen.   *)
UiKinds == {"firstTouch", "otherTouch", "button", "encoder"}
Queued == {"firstTouch", "button"}

(* The indicator test: what each step lights and what it puts out.         *)
Modes == {"modeCc", "modeCv", "modeCw", "modeExt"}
Faulty == {"overheat", "overcurrent", "error"}
Indicators == Modes \cup Faulty \cup {"loadOn", "menu", "status", "trigger"}
LastLedStep == 4
LedTestOn == << Modes \cup {"loadOn", "menu", "status"},
                Faulty \cup {"loadOn", "status", "trigger"},
                {"status", "trigger"},
                {},
                {"status"} >>
(* Mutant of LedTestOff: step 0 only names what it lights.                 *)
OffAfterLit == << {},
                  Modes \cup {"menu"},
                  Faulty \cup {"loadOn"},
                  {"status"},
                  {} >>
LedTestOff == << Faulty \cup {"trigger"},
                 Modes \cup {"menu"},
                 Faulty \cup {"loadOn"},
                 {"status", "trigger"},
                 {} >>

Init ==
  /\ FbInit /\ tty = "text"
  /\ pc = "off" /\ ended = "no"
  /\ view = "none" /\ timerCount = 0 /\ label = 0 /\ uiQueue = 0 /\ told = {}
  /\ load = "none" /\ measIn = << >> /\ pin = "none" /\ uiIn = << >>
  /\ loadd = TRUE /\ pinballd = TRUE
  /\ meas = 0 /\ pinLost = FALSE /\ faults = 0

Fault == faults < MaxFaults /\ faults' = faults + 1
NoFault == UNCHANGED faults

(* A request of PinballClient, sendRaw(): after EOF it is written to       *)
(* descriptor 0, before that to a socket nobody reads.                     *)
CanSend == pin = "open"
RunLedTest(step) ==
  CanSend /\ told' = (told \ LedTestOff[step + 1]) \cup LedTestOn[step + 1]
DisableIndicators == CanSend /\ told' = {}
SetDesiredBroadcasts == CanSend

(***************************************************************************)
(* Ends                                                                    *)
(***************************************************************************)
ProcessGone(how) ==
  /\ pc' = "off" /\ ended' = how
  /\ view' = "none" /\ timerCount' = 0 /\ label' = 0 /\ uiQueue' = 0
  /\ load' = "none" /\ measIn' = << >> /\ pin' = "none" /\ uiIn' = << >>
  /\ FbGone
  /\ UNCHANGED daemonVars

Abort == ProcessGone("abort") /\ UNCHANGED <<tty, told>>
EnableTty(how) == ProcessGone(how) /\ tty' = "text"

(* Mutant of CleanUp: exit() in place of the end of main().                *)
ExitAtOnce(how) == ProcessGone(how) /\ UNCHANGED <<tty, told, faults>>

(* What main() does after its loop.  Its two requests to pinballd are      *)
(* outside of any try; ~Framebuffer() throws if the terminal refuses.      *)
CleanUp(how) ==
  \/ SetDesiredBroadcasts /\ DisableIndicators /\ EnableTty(how) /\ NoFault
  \/ ~CanSend /\ Abort /\ NoFault
  \/ Abort /\ Fault

(***************************************************************************)
(* Start-up                                                                *)
(***************************************************************************)
Start ==
  /\ pc = "off"
  /\ pc' = "clients" /\ ended' = "no"
  /\ UNCHANGED <<fbVars, tty, screenVars, loadVars, pinVars, daemonVars, faults>>

ConnectClients ==
  /\ pc = "clients"
  /\ \/ /\ loadd /\ pinballd
        /\ load' = "open" /\ pin' = "open"
        /\ pc' = "drm"
        /\ NoFault
        /\ UNCHANGED <<fbVars, tty, ended, screenVars, measIn, uiIn, daemonVars>>
     \/ /\ ~(loadd /\ pinballd)
        /\ ProcessGone("return1")
        /\ NoFault /\ UNCHANGED <<tty, told>>

(* The constructor takes the terminal before it looks for an output; its   *)
(* destructor does not run if it throws after that.                        *)
OpenFramebuffer ==
  /\ pc = "drm"
  /\ \/ /\ InitKms
        /\ tty' = "graphics"
        /\ pc' = "gui"
        /\ NoFault
        /\ UNCHANGED <<ended, screenVars, loadVars, pinVars, daemonVars>>
     \/ /\ ProcessGone("return1")
        /\ tty' \in {tty, "graphics"}
        /\ Fault /\ UNCHANGED told

(* The version screen appears, which sends the first step of the indicator *)
(* test, and user events are asked for; if either throws, main() returns   *)
(* and its locals are destroyed.                                           *)
MakeGui ==
  /\ pc = "gui"
  /\ \/ /\ RunLedTest(0) /\ SetDesiredBroadcasts
        /\ view' = "version" /\ timerCount' = 0
        /\ pc' = "loop"
        /\ NoFault
        /\ UNCHANGED <<fbVars, tty, ended, label, uiQueue, loadVars, pinVars, daemonVars>>
     \/ ~CanSend /\ UNCHANGED told /\ EnableTty("return1") /\ NoFault
     \/ (RunLedTest(0) \/ UNCHANGED told) /\ EnableTty("return1") /\ Fault

(***************************************************************************)
(* The event loop                                                          *)
(***************************************************************************)
(* The next step of the indicator test; after the last one the home screen *)
(* takes over and listens to measurements.                                 *)
TimerCallback ==
  /\ pc = "loop" /\ view = "version"
  /\ \/ /\ timerCount' = timerCount + 1
        /\ RunLedTest(timerCount')
        /\ view' = IF timerCount' = LastLedStep THEN "home" ELSE "version"
        /\ NoFault
        /\ UNCHANGED <<fbVars, tty, pc, ended, label, uiQueue, loadVars, pinVars, daemonVars>>
     \/ ~CanSend /\ Abort /\ NoFault
     \/ Abort /\ Fault
     \/ DisableIndicators /\ EnableTty("exception") /\ Fault

(* processMeasurement(): nobody listens before the home screen appears.    *)
LoaddRead ==
  /\ pc = "loop"
  /\ measIn # << >>
  /\ measIn' = Tail(measIn)
  /\ label' = IF view = "home" THEN Head(measIn) ELSE label
  /\ UNCHANGED <<fbVars, tty, pc, ended, view, timerCount, uiQueue, told, load, pinVars,
                 daemonVars, faults>>

(* processUiEvent(): the first finger and the buttons go to the screen.    *)
PinballRead ==
  /\ pc = "loop"
  /\ uiIn # << >>
  /\ uiIn' = Tail(uiIn)
  /\ uiQueue' = IF Head(uiIn) \in Queued THEN uiQueue + 1 ELSE uiQueue
  /\ UNCHANGED <<fbVars, tty, pc, ended, view, timerCount, label, told, loadVars, pin,
                 daemonVars, faults>>

(* bevEvent(): EOF is logged.                                              *)
LoaddEof ==
  /\ pc = "loop"
  /\ load = "eof" /\ measIn = << >>
  /\ load' = "closed"
  /\ UNCHANGED <<fbVars, tty, pc, ended, screenVars, measIn, pinVars, daemonVars, faults>>

PinballEof ==
  /\ pc = "loop"
  /\ pin = "eof" /\ uiIn = << >>
  /\ pin' = "closed"
  /\ UNCHANGED <<fbVars, tty, pc, ended, screenVars, loadVars, uiIn, daemonVars, faults>>

(* The flip is done: the renderer's callback processes the user events,    *)
(* draws the screen and copies it out, and the next flip is asked for.     *)
FlipDone ==
  /\ pc = "loop"
  /\ PageFlipHandler(label)
  /\ uiQueue' = 0
  /\ UNCHANGED <<pc, ended, view, timerCount, label, told, loadVars, pinVars, daemonVars, faults>>

FlipFails ==
  /\ pc = "loop" /\ flipEvent
  /\ Fault
  /\ \/ /\ FlipRefused(label)
        /\ uiQueue' = 0
        /\ UNCHANGED <<pc, ended, view, timerCount, label, told, loadVars, pinVars, daemonVars>>
     \/ Abort

(* A signal: the loop is left, and main() cleans up.                       *)
HandleTermination == pc = "loop" /\ CleanUp("signal")

(***************************************************************************)
(* The outside                                                             *)
(***************************************************************************)
Kill ==
  /\ pc # "off"
  /\ ProcessGone("killed")
  /\ Fault /\ UNCHANGED <<tty, told>>

LoaddSends ==
  /\ load = "open"
  /\ meas < MaxMeas
  /\ meas' = meas + 1
  /\ measIn' = Append(measIn, meas')
  /\ UNCHANGED <<fbVars, tty, pc, ended, screenVars, load, pinVars, loadd, pinballd,
                 pinLost, faults>>

PinballSends ==
  /\ pin = "open" /\ pc = "loop"
  /\ Len(uiIn) + uiQueue < InCap
  /\ \E kind \in UiKinds : uiIn' = Append(uiIn, kind)
  /\ UNCHANGED <<fbVars, tty, pc, ended, screenVars, loadVars, pin, daemonVars, faults>>

LoaddChanges ==
  /\ loadd' = ~loadd
  /\ load' = IF loadd /\ load = "open" THEN "eof" ELSE load
  /\ UNCHANGED <<fbVars, tty, pc, ended, screenVars, measIn, pinVars, pinballd, meas,
                 pinLost, faults>>

PinballChanges ==
  /\ pinballd' = ~pinballd
  /\ pin' = IF pinballd /\ pin = "open" THEN "eof" ELSE pin
  /\ pinLost' = TRUE
  /\ UNCHANGED <<fbVars, tty, pc, ended, screenVars, loadVars, uiIn, loadd, meas, faults>>

Scanout ==
  /\ Vblank
  /\ UNCHANGED <<pc, ended, screenVars, loadVars, pinVars, daemonVars, faults>>

Environment == Kill \/ LoaddSends \/ PinballSends \/ LoaddChanges \/ PinballChanges
Process == \/ Start \/ ConnectClients \/ OpenFramebuffer \/ MakeGui
           \/ TimerCallback \/ LoaddRead \/ PinballRead \/ LoaddEof \/ PinballEof
           \/ FlipDone \/ FlipFails \/ HandleTermination

Next == Environment \/ Process \/ Scanout

Spec == Init /\ [][Next]_vars

(* The display has a vertical blanking, the event loop serves each active  *)
(* event, and the version screen's timer is persistent.                    *)
FairSpec ==
  /\ Spec
  /\ WF_vars(Scanout) /\ WF_vars(FlipDone)
  /\ WF_vars(LoaddRead) /\ WF_vars(PinballRead) /\ WF_vars(TimerCallback)

(***************************************************************************)
(* Properties                                                              *)
(***************************************************************************)
TypeOK ==
  /\ FbTypeOK
  /\ pc \in {"off", "clients", "drm", "gui", "loop"}
  /\ ended \in {"no", "signal", "exception", "return1", "abort", "killed"}
  /\ view \in {"none", "version", "home"}
  /\ timerCount \in 0 .. LastLedStep
  /\ label \in 0 .. MaxMeas /\ meas \in 0 .. MaxMeas
  /\ uiQueue \in 0 .. InCap
  /\ told \subseteq Indicators
  /\ {load, pin} \subseteq {"none", "open", "eof", "closed"}
  /\ measIn \in Seq(1 .. MaxMeas) /\ uiIn \in Seq(UiKinds)
  /\ Len(uiIn) + uiQueue <= InCap
  /\ {loadd, pinballd, pinLost} \subseteq BOOLEAN
  /\ faults \in 0 .. MaxFaults

(* While the GUI runs, exactly one flip is under way, pending in the       *)
(* kernel or done and not handled: a second one would be refused, and      *)
(* without one nothing is ever drawn or handled again.                     *)
FlipChain ==
  pc = "loop" => /\ ~(pending # NoFb /\ flipEvent)
                 /\ pending # NoFb \/ flipEvent \/ faults > 0

(* However the GUI ends, whatever loadd does, the terminal is a text       *)
(* console again, unless pinballd was gone or a system call was refused.   *)
ConsoleBack == pc = "off" /\ tty = "graphics" => pinLost \/ faults > 0

(* After the indicator test the status indicator is lit and no other one,  *)
(* whatever an earlier process that was killed in its test left lit.       *)
LampsAfterTest == view = "home" => told = {"status"}

Shown == IF scanout \in Buffers THEN content[scanout] ELSE 0

(* A measurement that reaches the home screen is shown, or a later one is. *)
MeasurementShown ==
  \A n \in 1 .. MaxMeas :
    (view = "home" /\ \E i \in DOMAIN measIn : measIn[i] = n)
      ~> (Shown >= n \/ pc # "loop" \/ faults > 0)

(* User events are processed, although only a page flip processes them.    *)
InputHandled == uiQueue > 0 ~> (uiQueue = 0 \/ faults > 0)

=============================================================================
