------------------------------ MODULE GuiProofs ------------------------------
(***************************************************************************)
(* What Gui promises, for any number of measurements, user events, refused *)
(* system calls and kills: its types, one page flip at a time, the         *)
(* terminal that is given back, the indicators after their test.           *)
(***************************************************************************)
EXTENDS Gui, TLAPS, SequenceTheorems

(***************************************************************************)
(* The indicator test                                                      *)
(***************************************************************************)
(* What is lit after each step: the first one names every indicator, so it *)
(* does not matter what was lit before.                                    *)
After == << Modes \cup {"loadOn", "menu", "status"},
            Faulty \cup {"loadOn", "status", "trigger"},
            {"status", "trigger"},
            {} >>

LampsInv ==
  /\ told \subseteq Indicators
  /\ view = "version" => timerCount \in 0 .. 3 /\ told = After[timerCount + 1]
  /\ view = "home" => told = {"status"}

LEMMA FirstStep ==
  ASSUME told \subseteq Indicators, RunLedTest(0)
  PROVE  told' = After[1]
<1>1. told' = (told \ LedTestOff[1]) \cup LedTestOn[1]
  BY DEF RunLedTest
<1>2. LedTestOff[1] = Faulty \cup {"trigger"} /\ LedTestOn[1] = After[1]
  BY DEF LedTestOff, LedTestOn, After
<1>3. told \ LedTestOff[1] \subseteq LedTestOn[1]
  BY <1>2 DEF Indicators, After
<1> QED BY <1>1, <1>2, <1>3

LEMMA NextStep ==
  ASSUME NEW step \in 0 .. 3, told = After[step + 1], RunLedTest(step + 1)
  PROVE  IF step = 3 THEN told' = {"status"} ELSE told' = After[step + 2]
<1>1. told' = (told \ LedTestOff[step + 2]) \cup LedTestOn[step + 2]
  BY DEF RunLedTest
<1>2. CASE step = 0
  BY <1>1, <1>2 DEF LedTestOff, LedTestOn, After, Modes, Faulty
<1>3. CASE step = 1
  BY <1>1, <1>3 DEF LedTestOff, LedTestOn, After, Modes, Faulty
<1>4. CASE step = 2
  BY <1>1, <1>4 DEF LedTestOff, LedTestOn, After, Modes, Faulty
<1>5. CASE step = 3
  BY <1>1, <1>5 DEF LedTestOff, LedTestOn, After, Modes, Faulty
<1> QED BY <1>2, <1>3, <1>4, <1>5

LEMMA LampsInit == Init => LampsInv
BY DEF Init, LampsInv

LEMMA LampsStep == LampsInv /\ [Next]_vars => LampsInv'
<1> SUFFICES ASSUME LampsInv, [Next]_vars PROVE LampsInv'
  OBVIOUS
<1>1. ASSUME NEW how, ProcessGone(how), told' = told \/ told' = {} \/ RunLedTest(0)
      PROVE  LampsInv'
  <2>1. told' \subseteq Indicators
    <3>1. After[1] \subseteq Indicators
      BY DEF After, Indicators
    <3> QED BY <1>1, <3>1, FirstStep DEF LampsInv
  <2> QED BY <1>1, <2>1 DEF ProcessGone, LampsInv
<1>2. ASSUME UNCHANGED <<view, timerCount, told>> PROVE LampsInv'
  BY <1>2 DEF LampsInv
<1>3. CASE Start
  BY <1>2, <1>3 DEF Start, screenVars
<1>4. CASE ConnectClients
  BY <1>1, <1>2, <1>4 DEF ConnectClients, screenVars
<1>5. CASE OpenFramebuffer
  BY <1>1, <1>2, <1>5 DEF OpenFramebuffer, screenVars
<1>6. CASE MakeGui
  <2>1. CASE RunLedTest(0) /\ view' = "version" /\ timerCount' = 0
    <3>1. told' = After[1]
      BY <2>1, FirstStep DEF LampsInv
    <3>2. After[1] \subseteq Indicators
      BY DEF After, Indicators
    <3> QED BY <2>1, <3>1, <3>2 DEF LampsInv
  <2>2. CASE (RunLedTest(0) \/ UNCHANGED told) /\ EnableTty("return1")
    BY <1>1, <2>2 DEF EnableTty
  <2> QED BY <1>6, <2>1, <2>2 DEF MakeGui
<1>7. CASE TimerCallback
  <2>1. CASE /\ timerCount' = timerCount + 1 /\ RunLedTest(timerCount')
             /\ view' = IF timerCount' = LastLedStep THEN "home" ELSE "version"
    <3>1. PICK step \in 0 .. 3 : step = timerCount /\ told = After[step + 1]
      BY <1>7 DEF TimerCallback, LampsInv
    <3>2. RunLedTest(step + 1)
      BY <2>1, <3>1 DEF RunLedTest, CanSend
    <3>3. CASE step = 3
      <4>1. told' = {"status"} /\ view' = "home"
        BY <2>1, <3>1, <3>2, <3>3, NextStep DEF LastLedStep
      <4> QED BY <4>1 DEF LampsInv, Indicators
    <3>4. CASE step # 3
      <4>1. told' = After[step + 2] /\ view' = "version" /\ timerCount' = step + 1
        BY <2>1, <3>1, <3>2, <3>4, NextStep DEF LastLedStep
      <4>2. After[step + 2] \subseteq Indicators
        <5>1. After[2] \subseteq Indicators /\ After[3] \subseteq Indicators /\ After[4] \subseteq Indicators
          BY DEF After, Indicators
        <5>2. step = 0 \/ step = 1 \/ step = 2
          BY <3>4
        <5> QED BY <5>1, <5>2
      <4>3. step + 1 \in 0 .. 3 /\ (step + 1) + 1 = step + 2
        BY <3>4
      <4> QED BY <4>1, <4>2, <4>3 DEF LampsInv
    <3> QED BY <3>3, <3>4
  <2>2. CASE Abort
    BY <1>1, <2>2 DEF Abort
  <2>3. CASE DisableIndicators /\ EnableTty("exception")
    BY <1>1, <2>3 DEF DisableIndicators, EnableTty
  <2> QED BY <1>7, <2>1, <2>2, <2>3 DEF TimerCallback
<1>8. CASE LoaddRead \/ PinballRead \/ LoaddEof \/ PinballEof
  BY <1>2, <1>8 DEF LoaddRead, PinballRead, LoaddEof, PinballEof, screenVars
<1>9. CASE FlipDone \/ FlipFails
  BY <1>1, <1>2, <1>9 DEF FlipDone, FlipFails, Abort
<1>10. CASE HandleTermination
  BY <1>1, <1>10 DEF HandleTermination, CleanUp, DisableIndicators, Abort, EnableTty
<1>11. CASE Kill
  BY <1>1, <1>11 DEF Kill
<1>12. CASE LoaddSends \/ PinballSends \/ LoaddChanges \/ PinballChanges \/ Scanout
  BY <1>2, <1>12 DEF LoaddSends, PinballSends, LoaddChanges, PinballChanges, Scanout, screenVars
<1>13. CASE UNCHANGED vars
  BY <1>2, <1>13 DEF vars, screenVars
<1> QED
  BY <1>3, <1>4, <1>5, <1>6, <1>7, <1>8, <1>9, <1>10, <1>11, <1>12, <1>13
  DEF Next, Process, Environment

(* The home screen only ever appears with the status indicator lit and no  *)
(* other, whatever earlier processes left lit, wherever they were killed.  *)
THEOREM LampsCorrect == Spec => []LampsAfterTest
<1>1. LampsInv => LampsAfterTest
  BY DEF LampsInv, LampsAfterTest
<1> QED BY <1>1, LampsInit, LampsStep, PTL DEF Spec

(***************************************************************************)
(* Types                                                                   *)
(***************************************************************************)
LEMMA TypeInit == Init => TypeOK
<1> SUFFICES ASSUME Init PROVE TypeOK
  OBVIOUS
<1>1. FbTypeOK
  <2>1. content \in [Buffers -> Nat]
    BY DEF Init, FbInit
  <2> QED BY <2>1 DEF Init, FbInit, FbTypeOK, Buffers, Console, NoFb
<1>2. measIn \in Seq(1 .. MaxMeas) /\ uiIn \in Seq(UiKinds) /\ Len(uiIn) = 0
  BY EmptySeq DEF Init
<1>3. 0 \in 0 .. MaxMeas /\ 0 \in 0 .. InCap /\ 0 \in 0 .. MaxFaults /\ 0 \in 0 .. LastLedStep
  BY GuiAssumption DEF LastLedStep
<1>4. Len(uiIn) + uiQueue <= InCap
  BY <1>2, GuiAssumption DEF Init
<1> QED BY <1>1, <1>2, <1>3, <1>4 DEF Init, TypeOK

LEMMA GoneTyped ==
  ASSUME TypeOK, NEW how \in {"no", "signal", "exception", "return1", "abort", "killed"},
         ProcessGone(how), tty' \in {"text", "graphics"}, told' \subseteq Indicators,
         faults' \in 0 .. MaxFaults
  PROVE  TypeOK'
<1>1. FbTypeOK'
  <2>1. content' \in [Buffers -> Nat]
    BY DEF ProcessGone, FbGone
  <2>2. 0 \in Buffers
    BY DEF Buffers
  <2> QED BY <2>1, <2>2 DEF ProcessGone, FbGone, FbTypeOK
<1>2. measIn' \in Seq(1 .. MaxMeas) /\ uiIn' \in Seq(UiKinds) /\ Len(uiIn') = 0
  BY EmptySeq DEF ProcessGone
<1>3. 0 \in 0 .. MaxMeas /\ 0 \in 0 .. InCap /\ 0 \in 0 .. LastLedStep
  BY GuiAssumption DEF LastLedStep
<1>4. Len(uiIn') + uiQueue' <= InCap
  BY <1>2, GuiAssumption DEF ProcessGone
<1>5. {loadd', pinballd', pinLost'} \subseteq BOOLEAN /\ meas' \in 0 .. MaxMeas
  BY DEF ProcessGone, TypeOK, daemonVars
<1> QED BY <1>1, <1>2, <1>3, <1>4, <1>5 DEF ProcessGone, TypeOK

LEMMA FaultTyped ==
  ASSUME TypeOK, Fault \/ NoFault
  PROVE  faults' \in 0 .. MaxFaults
BY GuiAssumption DEF TypeOK, Fault, NoFault

LEMMA TypeStep == TypeOK /\ LampsInv /\ LampsInv' /\ [Next]_vars => TypeOK'
<1> SUFFICES ASSUME TypeOK, LampsInv, LampsInv', [Next]_vars PROVE TypeOK'
  OBVIOUS
<1> USE GuiAssumption
<1>0. /\ {tty, "text", "graphics"} \subseteq {"text", "graphics"}
      /\ told \subseteq Indicators /\ told' \subseteq Indicators
  BY DEF TypeOK, FbTypeOK, LampsInv
<1>1. ASSUME NEW how \in {"signal", "exception", "return1", "abort", "killed"},
             ProcessGone(how), tty' \in {tty, "text", "graphics"}, Fault \/ NoFault
      PROVE  TypeOK'
  BY <1>0, <1>1, GoneTyped, FaultTyped
<1>2. ASSUME Abort, Fault \/ NoFault PROVE TypeOK'
  BY <1>0, <1>1, <1>2 DEF Abort
<1>3. ASSUME NEW how \in {"signal", "exception", "return1"}, EnableTty(how), Fault \/ NoFault
      PROVE  TypeOK'
  BY <1>0, <1>1, <1>3 DEF EnableTty
<1>4. CASE Start
  BY <1>4 DEF Start, TypeOK, FbTypeOK, fbVars, screenVars, loadVars, pinVars, daemonVars
<1>5. CASE ConnectClients
  <2>1. CASE ProcessGone("return1")
    BY <1>0, <1>1, <1>5, <2>1 DEF ConnectClients
  <2>2. CASE /\ load' = "open" /\ pin' = "open" /\ pc' = "drm" /\ NoFault
             /\ UNCHANGED <<fbVars, tty, ended, screenVars, measIn, uiIn, daemonVars>>
    BY <2>2 DEF TypeOK, FbTypeOK, fbVars, screenVars, daemonVars, NoFault
  <2> QED BY <1>5, <2>1, <2>2 DEF ConnectClients
<1>6. CASE OpenFramebuffer
  <2>1. CASE ProcessGone("return1") /\ tty' \in {tty, "graphics"} /\ Fault /\ UNCHANGED told
    BY <1>0, <1>1, <2>1
  <2>2. CASE /\ InitKms /\ tty' = "graphics" /\ pc' = "gui" /\ NoFault
             /\ UNCHANGED <<ended, screenVars, loadVars, pinVars, daemonVars>>
    <3>0. content' \in [Buffers -> Nat]
      BY <2>2 DEF InitKms
    <3>1. 0 \in Buffers /\ 1 \in Buffers
      BY DEF Buffers
    <3>2. FbTypeOK'
      BY <2>2, <3>0, <3>1 DEF InitKms, FbTypeOK
    <3> QED BY <2>2, <3>2 DEF TypeOK, screenVars, loadVars, pinVars, daemonVars, NoFault
  <2> QED BY <1>6, <2>1, <2>2 DEF OpenFramebuffer
<1>7. CASE MakeGui
  <2>2. CASE EnableTty("return1") /\ (NoFault \/ Fault) /\ (RunLedTest(0) \/ UNCHANGED told)
    BY <1>3, <2>2
  <2>3. CASE /\ RunLedTest(0) /\ view' = "version" /\ timerCount' = 0 /\ pc' = "loop" /\ NoFault
             /\ UNCHANGED <<fbVars, tty, ended, label, uiQueue, loadVars, pinVars, daemonVars>>
    BY <1>0, <2>3 DEF TypeOK, FbTypeOK, fbVars, loadVars, pinVars, daemonVars, NoFault, LastLedStep
  <2> QED BY <1>7, <2>2, <2>3 DEF MakeGui
<1>8. CASE TimerCallback
  <2>1. CASE DisableIndicators /\ EnableTty("exception") /\ Fault
    BY <1>3, <2>1 DEF DisableIndicators
  <2>2. CASE Abort /\ (NoFault \/ Fault)
    BY <1>2, <2>2
  <2>3. CASE /\ timerCount' = timerCount + 1 /\ RunLedTest(timerCount') /\ NoFault
             /\ view' = IF timerCount' = LastLedStep THEN "home" ELSE "version"
             /\ UNCHANGED <<fbVars, tty, pc, ended, label, uiQueue, loadVars, pinVars, daemonVars>>
    <3>1. timerCount' \in 0 .. LastLedStep
      BY <1>8, <2>3 DEF TimerCallback, LampsInv, LastLedStep
    <3> QED BY <1>0, <2>3, <3>1 DEF TypeOK, FbTypeOK, fbVars, loadVars, pinVars, daemonVars, NoFault
  <2> QED BY <1>8, <2>1, <2>2, <2>3 DEF TimerCallback
<1>9. CASE LoaddRead
  BY <1>9, HeadTailProperties DEF LoaddRead, TypeOK, FbTypeOK, fbVars, pinVars, daemonVars
<1>10. CASE PinballRead
  <2>1. uiIn \in Seq(UiKinds) /\ uiIn # << >> /\ uiIn' = Tail(uiIn)
    BY <1>10 DEF PinballRead, TypeOK
  <2>2. uiIn' \in Seq(UiKinds) /\ Len(uiIn') = Len(uiIn) - 1 /\ Len(uiIn) \in Nat \ {0}
    BY <2>1
  <2>3. uiQueue' \in 0 .. InCap /\ Len(uiIn') + uiQueue' <= InCap
    BY <1>10, <2>2 DEF PinballRead, TypeOK
  <2> QED BY <1>10, <2>2, <2>3 DEF PinballRead, TypeOK, FbTypeOK, fbVars, loadVars, daemonVars
<1>11. CASE LoaddEof
  BY <1>11 DEF LoaddEof, TypeOK, FbTypeOK, fbVars, screenVars, pinVars, daemonVars
<1>12. CASE PinballEof
  BY <1>12 DEF PinballEof, TypeOK, FbTypeOK, fbVars, screenVars, loadVars, daemonVars
<1>13. ASSUME PageFlipHandler(label) \/ FlipRefused(label) PROVE FbTypeOK'
  <2>1. NextFb \in Buffers /\ label \in Nat
    BY DEF NextFb, Buffers, TypeOK
  <2>2. content' \in [Buffers -> Nat]
    BY <1>13, <2>1 DEF PageFlipHandler, FlipRefused, TypeOK, FbTypeOK
  <2> QED BY <1>13, <2>1, <2>2 DEF PageFlipHandler, FlipRefused, RequestFbFlip, TypeOK, FbTypeOK
<1>14. ASSUME UNCHANGED uiIn, uiQueue' = 0 PROVE Len(uiIn') + uiQueue' <= InCap
  <2>1. Len(uiIn) \in Nat
    BY DEF TypeOK
  <2> QED BY <1>14, <2>1 DEF TypeOK
<1>15. CASE FlipDone
  BY <1>13, <1>14, <1>15 DEF FlipDone, TypeOK, loadVars, pinVars, daemonVars
<1>16. CASE FlipFails
  <2>1. CASE Abort
    BY <1>2, <1>16, <2>1 DEF FlipFails
  <2>2. CASE /\ FlipRefused(label) /\ uiQueue' = 0
             /\ UNCHANGED <<pc, ended, view, timerCount, label, told, loadVars, pinVars, daemonVars>>
    BY <1>13, <1>14, <1>16, <2>2, FaultTyped DEF FlipFails, TypeOK, loadVars, pinVars, daemonVars
  <2> QED BY <1>16, <2>1, <2>2 DEF FlipFails
<1>17. CASE HandleTermination
  BY <1>2, <1>3, <1>17 DEF HandleTermination, CleanUp, DisableIndicators
<1>18. CASE Kill
  BY <1>0, <1>1, <1>18 DEF Kill
<1>19. CASE LoaddSends
  <2>1. meas + 1 \in 1 .. MaxMeas
    BY <1>19 DEF LoaddSends, TypeOK
  <2>2. measIn' \in Seq(1 .. MaxMeas)
    BY <1>19, <2>1, AppendProperties DEF LoaddSends, TypeOK
  <2> QED BY <1>19, <2>1, <2>2 DEF LoaddSends, TypeOK, FbTypeOK, fbVars, screenVars, pinVars
<1>20. CASE PinballSends
  <2>1. PICK kind \in UiKinds : uiIn' = Append(uiIn, kind)
    BY <1>20 DEF PinballSends
  <2>2. uiIn' \in Seq(UiKinds) /\ Len(uiIn') = Len(uiIn) + 1 /\ Len(uiIn) \in Nat
    BY <2>1, AppendProperties, LenProperties DEF TypeOK
  <2>3. Len(uiIn') + uiQueue' <= InCap
    BY <1>20, <2>2 DEF PinballSends, TypeOK, screenVars
  <2> QED BY <1>20, <2>2, <2>3 DEF PinballSends, TypeOK, FbTypeOK, fbVars, screenVars, loadVars,
                                   daemonVars
<1>21. CASE LoaddChanges
  BY <1>21 DEF LoaddChanges, TypeOK, FbTypeOK, fbVars, screenVars, pinVars
<1>22. CASE PinballChanges
  BY <1>22 DEF PinballChanges, TypeOK, FbTypeOK, fbVars, screenVars, loadVars
<1>23. CASE Scanout
  BY <1>23 DEF Scanout, Vblank, TypeOK, FbTypeOK, screenVars, loadVars, pinVars, daemonVars
<1>24. CASE UNCHANGED vars
  BY <1>24 DEF vars, TypeOK, FbTypeOK, fbVars, screenVars, loadVars, pinVars, daemonVars
<1> QED
  BY <1>4, <1>5, <1>6, <1>7, <1>8, <1>9, <1>10, <1>11, <1>12, <1>15, <1>16, <1>17, <1>18,
     <1>19, <1>20, <1>21, <1>22, <1>23, <1>24 DEF Next, Process, Environment

(* The GUI's members, queues and connections keep their types, whatever    *)
(* the daemons, the display and the clock do.                              *)
THEOREM TypeCorrect == Spec => []TypeOK
BY TypeInit, TypeStep, LampsInit, LampsStep, PTL DEF Spec

(***************************************************************************)
(* One flip at a time                                                      *)
(***************************************************************************)
(* From the moment the display is open a flip is under way; it comes from  *)
(* the kernel to the event and back, never in both places.                 *)
FlipInv ==
  /\ faults \in Nat
  /\ pc \in {"gui", "loop"} => /\ ~(pending # NoFb /\ flipEvent)
                               /\ pending # NoFb \/ flipEvent \/ faults > 0

LEMMA FlipStep == FlipInv /\ [Next]_vars => FlipInv'
<1> SUFFICES ASSUME FlipInv, [Next]_vars PROVE FlipInv'
  OBVIOUS
<1>1. ASSUME NEW how, ProcessGone(how), Fault \/ NoFault PROVE FlipInv'
  BY <1>1 DEF ProcessGone, Fault, NoFault, FlipInv
<1>2. ASSUME UNCHANGED <<fbVars, pc, faults>> PROVE FlipInv'
  BY <1>2 DEF fbVars, FlipInv
<1>3. CASE Start
  BY <1>3 DEF Start, FlipInv
<1>4. CASE ConnectClients
  BY <1>1, <1>4 DEF ConnectClients, FlipInv, NoFault
<1>5. CASE OpenFramebuffer
  BY <1>1, <1>5 DEF OpenFramebuffer, InitKms, NoFb, FlipInv, NoFault
<1>6. CASE MakeGui
  BY <1>1, <1>6 DEF MakeGui, EnableTty, fbVars, FlipInv, NoFault
<1>7. CASE TimerCallback
  BY <1>1, <1>2, <1>7 DEF TimerCallback, Abort, EnableTty, NoFault
<1>8. CASE LoaddRead \/ PinballRead \/ LoaddEof \/ PinballEof
  BY <1>2, <1>8 DEF LoaddRead, PinballRead, LoaddEof, PinballEof
<1>9. NextFb # NoFb
  BY DEF NextFb, NoFb
<1>10. CASE FlipDone
  BY <1>9, <1>10 DEF FlipDone, PageFlipHandler, RequestFbFlip, FlipInv
<1>11. CASE FlipFails
  <2>1. CASE Abort
    BY <1>1, <1>11, <2>1 DEF FlipFails, Abort
  <2>2. CASE FlipRefused(label) /\ UNCHANGED pc
    BY <1>11, <2>2 DEF FlipFails, FlipRefused, Fault, FlipInv
  <2> QED BY <1>11, <2>1, <2>2 DEF FlipFails
<1>12. CASE HandleTermination
  BY <1>1, <1>12 DEF HandleTermination, CleanUp, Abort, EnableTty
<1>13. CASE Kill
  BY <1>1, <1>13 DEF Kill
<1>14. CASE LoaddSends \/ PinballSends \/ LoaddChanges \/ PinballChanges
  BY <1>2, <1>14 DEF LoaddSends, PinballSends, LoaddChanges, PinballChanges
<1>15. CASE Scanout
  BY <1>15 DEF Scanout, Vblank, FlipInv
<1>16. CASE UNCHANGED vars
  BY <1>2, <1>16 DEF vars
<1> QED
  BY <1>3, <1>4, <1>5, <1>6, <1>7, <1>8, <1>10, <1>11, <1>12, <1>13, <1>14, <1>15, <1>16
  DEF Next, Process, Environment

(* While the GUI runs, exactly one flip is under way unless the kernel     *)
(* refused one: drawing and events never stop by themselves.               *)
THEOREM FlipChainCorrect == Spec => []FlipChain
<1>1. Init => FlipInv
  BY DEF Init, FlipInv
<1>2. FlipInv => FlipChain
  BY DEF FlipInv, FlipChain
<1> QED BY <1>1, <1>2, FlipStep, PTL DEF Spec

(***************************************************************************)
(* The console                                                             *)
(***************************************************************************)
(* A connection to pinballd that is lost was lost by pinballd's end, and   *)
(* the terminal is only left in graphics mode for a reason.                *)
ConsoleInv ==
  /\ faults \in Nat /\ pinLost \in BOOLEAN
  /\ pc \in {"off", "clients", "drm"} /\ tty = "graphics" => pinLost \/ faults > 0
  /\ pc \in {"drm", "gui", "loop"} /\ pin # "open" => pinLost

LEMMA ConsoleStep == ConsoleInv /\ [Next]_vars => ConsoleInv'
<1> SUFFICES ASSUME ConsoleInv, [Next]_vars PROVE ConsoleInv'
  OBVIOUS
<1>1. ASSUME NEW how, ProcessGone(how), Fault PROVE ConsoleInv'
  BY <1>1 DEF ProcessGone, Fault, daemonVars, ConsoleInv
<1>2. ASSUME NEW how, EnableTty(how), NoFault \/ Fault PROVE ConsoleInv'
  BY <1>1, <1>2 DEF EnableTty, ProcessGone, NoFault, daemonVars, ConsoleInv
<1>3. ASSUME Abort, NoFault, ~CanSend, pc \in {"gui", "loop"} PROVE ConsoleInv'
  BY <1>3 DEF Abort, ProcessGone, NoFault, CanSend, daemonVars, ConsoleInv
<1>4. ASSUME UNCHANGED <<tty, pc, pin, pinLost, faults>> PROVE ConsoleInv'
  BY <1>4 DEF ConsoleInv
<1>5. CASE Start
  BY <1>5 DEF Start, pinVars, daemonVars, ConsoleInv
<1>6. CASE ConnectClients
  BY <1>6 DEF ConnectClients, ProcessGone, daemonVars, NoFault, ConsoleInv
<1>7. CASE OpenFramebuffer
  BY <1>1, <1>7 DEF OpenFramebuffer, pinVars, daemonVars, NoFault, ConsoleInv
<1>8. CASE MakeGui
  <2>1. CASE EnableTty("return1") /\ (NoFault \/ Fault)
    BY <1>2, <2>1
  <2>2. CASE CanSend /\ pc' = "loop" /\ NoFault /\ UNCHANGED <<tty, pinVars, daemonVars>>
    BY <2>2 DEF CanSend, pinVars, daemonVars, NoFault, ConsoleInv
  <2> QED BY <1>8, <2>1, <2>2 DEF MakeGui, RunLedTest
<1>9. CASE TimerCallback
  <2>1. CASE Abort /\ ((NoFault /\ ~CanSend) \/ Fault)
    BY <1>1, <1>3, <1>9, <2>1 DEF TimerCallback, Abort
  <2>2. CASE EnableTty("exception") /\ Fault
    BY <1>2, <2>2
  <2>3. CASE NoFault /\ UNCHANGED <<tty, pc, pinVars, daemonVars>>
    BY <1>4, <2>3 DEF pinVars, daemonVars, NoFault
  <2> QED BY <1>9, <2>1, <2>2, <2>3 DEF TimerCallback
<1>10. CASE LoaddRead \/ PinballRead \/ LoaddEof
  BY <1>4, <1>10 DEF LoaddRead, PinballRead, LoaddEof, pinVars, daemonVars
<1>11. CASE PinballEof
  BY <1>11 DEF PinballEof, daemonVars, ConsoleInv
<1>12. CASE FlipDone
  BY <1>4, <1>12 DEF FlipDone, PageFlipHandler, pinVars, daemonVars
<1>13. CASE FlipFails
  <2>1. CASE Abort
    BY <1>1, <1>13, <2>1 DEF FlipFails, Abort
  <2>2. CASE FlipRefused(label) /\ UNCHANGED <<pc, pinVars, daemonVars>>
    BY <1>13, <2>2 DEF FlipFails, FlipRefused, Fault, pinVars, daemonVars, ConsoleInv
  <2> QED BY <1>13, <2>1, <2>2 DEF FlipFails
<1>14. CASE HandleTermination
  <2>1. CASE EnableTty("signal") /\ NoFault
    BY <1>2, <2>1
  <2>2. CASE ~CanSend /\ Abort /\ NoFault
    BY <1>3, <1>14, <2>2 DEF HandleTermination
  <2>3. CASE Abort /\ Fault
    BY <1>1, <2>3 DEF Abort
  <2> QED BY <1>14, <2>1, <2>2, <2>3 DEF HandleTermination, CleanUp
<1>15. CASE Kill
  BY <1>1, <1>15 DEF Kill
<1>16. CASE LoaddSends \/ PinballSends \/ LoaddChanges \/ Scanout
  BY <1>4, <1>16 DEF LoaddSends, PinballSends, LoaddChanges, Scanout, Vblank, pinVars, daemonVars
<1>17. CASE PinballChanges
  BY <1>17 DEF PinballChanges, ConsoleInv
<1>18. CASE UNCHANGED vars
  BY <1>4, <1>18 DEF vars, pinVars, daemonVars
<1> QED
  BY <1>5, <1>6, <1>7, <1>8, <1>9, <1>10, <1>11, <1>12, <1>13, <1>14, <1>15, <1>16, <1>17, <1>18
  DEF Next, Process, Environment

(* Only a pinballd that was stopped, a refused system call or a kill leaves*)
(* the user in front of a terminal in graphics mode.                       *)
THEOREM ConsoleCorrect == Spec => []ConsoleBack
<1>1. ASSUME Init PROVE ConsoleInv
  <2>1. pc = "off" /\ tty = "text" /\ faults = 0 /\ pinLost = FALSE
    BY <1>1 DEF Init
  <2> QED BY <2>1 DEF ConsoleInv
<1>2. ConsoleInv => ConsoleBack
  BY DEF ConsoleInv, ConsoleBack
<1> QED BY <1>1, <1>2, ConsoleStep, PTL DEF Spec
=============================================================================
