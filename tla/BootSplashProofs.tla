--------------------------- MODULE BootSplashProofs ---------------------------
(***************************************************************************)
(* The boot splash for any number of clients, descriptors and columns, and *)
(* any values and texts: its set of descriptors, and what its screen shows.*)
(***************************************************************************)
EXTENDS BootSplash, TLAPS, SequenceTheorems, WellFoundedInduction

(* accept() finds the lowest free descriptor when there is a free one.     *)
LEMMA LowestFreeIsFree == FreeFds # {} => LowestFree \in FreeFds
<1> SUFFICES ASSUME FreeFds # {} PROVE LowestFree \in FreeFds
  OBVIOUS
<1>1. FreeFds \subseteq Nat
  BY SplashAssumption DEF FreeFds
<1>2. PICK f \in FreeFds : \A g \in FreeFds : <<g, f>> \notin OpToRel(<, Nat)
  BY <1>1, NatLessThanWellFounded, WFMin
<1>3. ASSUME NEW g \in FreeFds PROVE f <= g
  <2>1. g \in Nat /\ f \in Nat /\ ~(g < f)
    BY <1>1, <1>2 DEF OpToRel
  <2> QED BY <2>1
<1> QED BY <1>3 DEF LowestFree

LEMMA MessageValues ==
  /\ \A m \in Messages : m.type = "progress" => m.value \in Percents
  /\ \A m \in Messages : m.type = "message" => m.value \in Texts
BY DEF Messages

(* What a turn may make of the drawer's values.                            *)
LEMMA ValuesFrom ==
  ASSUME SocketTypeOK(Messages, {})
  PROVE  /\ \A old, v : v \in Values("progress", old) =>
               v \in Percents \/ (Said("progress") = {} /\ v = old)
         /\ \A old, v : v \in Values("message", old) =>
               v \in Texts \/ (Said("message") = {} /\ v = old)
<1>1. ASSUME NEW c \in Conns, up[c] # << >> PROVE Head(up[c]) \in Messages
  BY <1>1, HeadTailProperties DEF SocketTypeOK
<1>2. ASSUME NEW type, NEW c \in Said(type)
      PROVE  c \in Conns /\ up[c] # << >> /\ Head(up[c]).type = type
  BY DEF Said, Ready, Watched, Held
<1>3. \A c \in Said("progress") : Head(up[c]).value \in Percents
  BY <1>1, <1>2, MessageValues
<1>4. \A c \in Said("message") : Head(up[c]).value \in Texts
  BY <1>1, <1>2, MessageValues
<1>5. ASSUME NEW old, NEW v \in Values("progress", old)
      PROVE  v \in Percents \/ (Said("progress") = {} /\ v = old)
  BY <1>3 DEF Values
<1>6. ASSUME NEW old, NEW v \in Values("message", old)
      PROVE  v \in Texts \/ (Said("message") = {} /\ v = old)
  BY <1>4 DEF Values
<1> QED BY <1>5, <1>6

(***************************************************************************)
(* Type correctness                                                        *)
(***************************************************************************)
(* TypeOK, with the drawer's other values.                                 *)
DrawerTypeOK ==
  /\ progressString \in Texts \cup {0}
  /\ dirty \subseteq Parts
  /\ bar \in [1 .. Columns -> {"console", "empty", "filled"}]

SplashTypeOK == TypeOK /\ DrawerTypeOK

LEMMA TypeInit == Init => SplashTypeOK
<1> SUFFICES ASSUME Init PROVE SplashTypeOK
  OBVIOUS
<1>1. SocketTypeOK(Messages, {})
  BY EmptySeq DEF Init, SocketInit, SocketTypeOK
<1>2. DrawerTypeOK /\ progress = 0 /\ text = -1
  BY DEF Init, DrawerInit, DrawerTypeOK
<1> QED BY <1>1, <1>2 DEF Init, SplashTypeOK, TypeOK

LEMMA DrawType == SplashTypeOK /\ Draw => DrawerTypeOK' /\ progress' = progress
                                          /\ text' \in Texts \cup {-1, 0}
<1> SUFFICES ASSUME SplashTypeOK, Draw
             PROVE  DrawerTypeOK' /\ progress' = progress /\ text' \in Texts \cup {-1, 0}
  OBVIOUS
<1>1. bar' \in [1 .. Columns -> {"console", "empty", "filled"}]
  <2>1. DrawProgressBar(bar) \in [1 .. Columns -> {"console", "empty", "filled"}]
    BY DEF SplashTypeOK, DrawerTypeOK, DrawProgressBar
  <2> QED BY <2>1 DEF Draw, SplashTypeOK, DrawerTypeOK
<1>2. text' \in Texts \cup {-1, 0}
  BY DEF Draw, DrawProgressString, SplashTypeOK, TypeOK, DrawerTypeOK
<1> QED BY <1>1, <1>2 DEF Draw, SplashTypeOK, DrawerTypeOK

LEMMA StartType == SplashTypeOK /\ StartUp => SplashTypeOK'
<1> SUFFICES ASSUME SplashTypeOK, StartUp PROVE SplashTypeOK'
  OBVIOUS
<1>1. DrawerTypeOK' /\ progress' = progress /\ text' \in Texts \cup {-1, 0}
  <2>1. CASE Draw
    BY <2>1, DrawType
  <2>2. CASE UNCHANGED drawerVars
    BY <2>2 DEF drawerVars, SplashTypeOK, DrawerTypeOK, TypeOK
  <2> QED BY <2>1, <2>2 DEF StartUp, NoConsole, NoFramebuffer, NoListener
<1>2. /\ pc' \in {"start", "enter", "select", "draw", "leave", "off"}
      /\ tty' \in {"text", "graphics"} /\ refused' \in BOOLEAN
  BY DEF StartUp, AfterTest, NoConsole, NoFramebuffer, NoListener, SplashTypeOK, TypeOK
<1> QED BY <1>1, <1>2 DEF StartUp, SplashTypeOK, TypeOK, SocketTypeOK, sockVars

LEMMA LeaveType == SplashTypeOK /\ LeaveLoop => SplashTypeOK'
<1> SUFFICES ASSUME SplashTypeOK, LeaveLoop PROVE SplashTypeOK'
  OBVIOUS
<1>1. /\ servEnd' \in [Conns -> {"none", "queued", "open", "closed"}]
      /\ out' \in [Conns -> Seq({})]
      /\ dialled' \in Seq(Conns)
  BY EmptySeq DEF LeaveLoop, ProcessExit, CloseServerEnds, SplashTypeOK, TypeOK, SocketTypeOK
<1>2. DrawerTypeOK' /\ UNCHANGED <<progress, text>>
  BY DEF LeaveLoop, drawerVars, SplashTypeOK, DrawerTypeOK
<1> QED
  BY <1>1, <1>2 DEF LeaveLoop, ProcessExit, SplashTypeOK, TypeOK, SocketTypeOK

(* One round of handleEvents(), with or without a new client.              *)
LEMMA HandleType ==
  ASSUME SplashTypeOK, NEW accepted \in SUBSET Conns, HandleClients(accepted),
         accepted # {} => FreeFds # {}
  PROVE  /\ up' \in [Conns -> Seq(Messages)]
         /\ servEnd' \in [Conns -> {"none", "queued", "open", "closed"}]
         /\ fdOf' \in [Conns -> Fds \cup {0}]
         /\ clientSockets' \subseteq Fds
         /\ gRun' \in BOOLEAN
         /\ DrawerTypeOK'
         /\ progress' \in Percents \cup {0} /\ text' \in Texts \cup {-1, 0}
<1>1. up' \in [Conns -> Seq(Messages)]
  <2>1. \A c \in Ready \ Ended : up[c] # << >>
    BY DEF Ended
  <2>2. \A c \in Conns : up[c] # << >> => Tail(up[c]) \in Seq(Messages)
    BY HeadTailProperties DEF SplashTypeOK, TypeOK, SocketTypeOK
  <2> QED BY <2>1, <2>2 DEF HandleClients, SplashTypeOK, TypeOK, SocketTypeOK
<1>2. servEnd' \in [Conns -> {"none", "queued", "open", "closed"}]
  BY DEF HandleClients, SplashTypeOK, TypeOK, SocketTypeOK
<1>3. accepted # {} => LowestFree \in Fds
  BY LowestFreeIsFree DEF FreeFds
<1>4. fdOf' \in [Conns -> Fds \cup {0}]
  BY <1>3 DEF HandleClients, SplashTypeOK, TypeOK
<1>5. clientSockets' \subseteq Fds
  BY <1>3 DEF HandleClients, ForgetDead, SplashTypeOK, TypeOK
<1>6. PICK p \in Values("progress", progress), t \in Values("message", progressString) :
        SetValues(p, t, (IF Said("progress") = {} THEN {} ELSE {"progress"})
                        \cup (IF Said("message") = {} THEN {} ELSE {"string"}))
  BY DEF HandleClients
<1>7. p \in Percents \cup {0} /\ t \in Texts \cup {0}
  BY ValuesFrom DEF SplashTypeOK, TypeOK, DrawerTypeOK
<1>8. DrawerTypeOK' /\ progress' \in Percents \cup {0} /\ text' \in Texts \cup {-1, 0}
  BY <1>6, <1>7 DEF HandleClients, SetValues, DrawerTypeOK, SplashTypeOK, TypeOK, Parts
<1> QED BY <1>1, <1>2, <1>4, <1>5, <1>8 DEF HandleClients, SplashTypeOK, TypeOK

LEMMA TurnType == SplashTypeOK /\ HandleEvents => SplashTypeOK'
<1> SUFFICES ASSUME SplashTypeOK, HandleEvents PROVE SplashTypeOK'
  OBVIOUS
<1>1. dialled \in Seq(Conns)
  BY DEF SplashTypeOK, TypeOK, SocketTypeOK
<1>2. CASE dialled = << >> /\ HandleClients({}) /\ UNCHANGED dialled
  BY <1>1, <1>2, HandleType DEF HandleEvents, SplashTypeOK, TypeOK, SocketTypeOK
<1>3. CASE /\ dialled # << >> /\ FreeFds # {}
           /\ HandleClients({Head(dialled)}) /\ dialled' = Tail(dialled)
  <2>1. {Head(dialled)} \in SUBSET Conns /\ dialled' \in Seq(Conns)
    BY <1>1, <1>3, HeadTailProperties
  <2> QED
    BY <1>3, <2>1, HandleType DEF HandleEvents, SplashTypeOK, TypeOK, SocketTypeOK
<1>4. CASE UNCHANGED <<dialled, up, servEnd, fdOf, clientSockets, gRun, drawerVars>>
  BY <1>4 DEF HandleEvents, SplashTypeOK, TypeOK, SocketTypeOK, DrawerTypeOK, drawerVars
<1> QED BY <1>2, <1>3, <1>4 DEF HandleEvents

LEMMA TypeStep == SplashTypeOK /\ [Next]_vars => SplashTypeOK'
<1> SUFFICES ASSUME SplashTypeOK, [Next]_vars PROVE SplashTypeOK'
  OBVIOUS
<1> USE DEF SplashTypeOK, TypeOK, SocketTypeOK, DrawerTypeOK
<1>1. CASE StartUp
  BY <1>1, StartType
<1>2. CASE LeaveLoop
  BY <1>2, LeaveType
<1>3. CASE EnterSelect
  BY <1>3 DEF EnterSelect, sockVars, drawerVars
<1>4. CASE HandleEvents
  BY <1>4, TurnType
<1>5. CASE DrawTurn
  <2>1. DrawerTypeOK' /\ progress' = progress /\ text' \in Texts \cup {-1, 0}
    BY <1>5, DrawType DEF DrawTurn, drawerVars
  <2> QED BY <1>5, <2>1 DEF DrawTurn, AfterTest, sockVars
<1>6. CASE Signal
  BY <1>6 DEF Signal, sockVars, drawerVars
<1>7. ASSUME NEW c \in Conns, SplashConnect(c) PROVE SplashTypeOK'
  <2>1. Append(dialled, c) \in Seq(Conns)
    BY AppendProperties
  <2> QED BY <1>7, <2>1 DEF SplashConnect, Dial, splashVars, drawerVars
<1>8. ASSUME NEW c \in Conns, SubmitMessage(c) PROVE SplashTypeOK'
  <2>1. PICK msg \in Messages : PeerWrite(c, msg)
    BY <1>8 DEF SubmitMessage
  <2>2. Append(up[c], msg) \in Seq(Messages)
    BY AppendProperties
  <2> QED BY <1>8, <2>1, <2>2 DEF SubmitMessage, PeerWrite, splashVars, drawerVars
<1>9. ASSUME NEW c \in Conns, SplashDisconnect(c) PROVE SplashTypeOK'
  BY <1>9 DEF SplashDisconnect, PeerClose, splashVars, drawerVars
<1>10. CASE UNCHANGED vars
  BY <1>10 DEF vars, sockVars, splashVars, drawerVars
<1> QED
  BY <1>1, <1>2, <1>3, <1>4, <1>5, <1>6, <1>7, <1>8, <1>9, <1>10 DEF Next

(* The splash's state keeps its type: no descriptor but one of its own is  *)
(* ever in its set, with any number of clients.                            *)
THEOREM TypeCorrect == Spec => []TypeOK
<1>1. SplashTypeOK => TypeOK
  BY DEF SplashTypeOK
<1> QED BY <1>1, TypeInit, TypeStep, PTL DEF Spec

(***************************************************************************)
(* The screen                                                              *)
(***************************************************************************)
Reference == [x \in 1 .. Columns |-> IF x <= progress THEN "filled" ELSE "empty"]

(* What is not flagged is on the screen, and when the loop has been at     *)
(* DrawTurn nothing that changes is flagged.                               *)
ScreenInv ==
  /\ "progress" \notin dirty => bar = Reference
  /\ "string" \notin dirty => text = progressString
  /\ pc \in {"enter", "select", "leave"} => dirty \cap {"progress", "string"} = {}

LEMMA ScreenInit == Init => ScreenInv
BY DEF Init, DrawerInit, Parts, ScreenInv

(* The drawn bar is the reference: what is beyond the end is cut, and of   *)
(* the old bar nothing is left.                                            *)
LEMMA BarIsReference == SplashTypeOK => DrawProgressBar(bar) = Reference
<1> SUFFICES ASSUME SplashTypeOK, NEW x \in 1 .. Columns
             PROVE  DrawProgressBar(bar)[x] = Reference[x]
  BY DEF DrawProgressBar, Reference
<1>1. progress \in Int /\ Columns \in Nat \ {0}
  BY SplashAssumption, DrawerAssumption DEF SplashTypeOK, TypeOK
<1>2. x > Clamped(progress) <=> x > progress
  BY <1>1 DEF Clamped
<1>3. Clamped(progress) \in Int /\ (x <= Clamped(progress) => progress > 0)
  BY <1>1 DEF Clamped
<1>4. CASE x > Clamped(progress)
  <2>1. ~(progress > 0 /\ x <= Clamped(progress)) /\ ~(x <= progress)
    BY <1>1, <1>2, <1>3, <1>4
  <2>2. DrawProgressBar(bar)[x] = "empty"
    BY <1>4, <2>1 DEF DrawProgressBar
  <2> QED BY <2>1, <2>2 DEF Reference
<1>5. CASE ~(x > Clamped(progress))
  BY <1>1, <1>2, <1>3, <1>5 DEF DrawProgressBar, Reference
<1> QED BY <1>4, <1>5

LEMMA DrawScreen ==
  ASSUME SplashTypeOK, ScreenInv, Draw
  PROVE  /\ dirty' \cap {"progress", "string"} = {}
         /\ bar' = Reference' /\ text' = progressString'
<1>1. dirty' \cap {"progress", "string"} = {}
  BY DEF Draw
<1>2. Reference' = Reference
  BY DEF Draw, Reference
<1>3. bar' = Reference
  BY BarIsReference DEF Draw, ScreenInv
<1>4. text' = progressString'
  BY DEF Draw, DrawProgressString, ScreenInv
<1> QED BY <1>1, <1>2, <1>3, <1>4

(* What a turn changes it flags.                                           *)
LEMMA HandleScreen ==
  ASSUME SplashTypeOK, ScreenInv, NEW accepted, HandleClients(accepted), pc' = "draw"
  PROVE  ScreenInv'
<1>1. PICK p \in Values("progress", progress), t \in Values("message", progressString) :
        SetValues(p, t, (IF Said("progress") = {} THEN {} ELSE {"progress"})
                        \cup (IF Said("message") = {} THEN {} ELSE {"string"}))
  BY DEF HandleClients
<1>2. UNCHANGED <<bar, text>>
  BY DEF HandleClients
<1>3. ASSUME "progress" \notin dirty' PROVE bar' = Reference'
  <2>1. Said("progress") = {} /\ "progress" \notin dirty
    BY <1>1, <1>3 DEF SetValues
  <2>2. p = progress
    BY <2>1 DEF Values
  <2> QED BY <1>1, <1>2, <2>1, <2>2 DEF SetValues, Reference, ScreenInv
<1>4. ASSUME "string" \notin dirty' PROVE text' = progressString'
  <2>1. Said("message") = {} /\ "string" \notin dirty
    BY <1>1, <1>4 DEF SetValues
  <2>2. t = progressString
    BY <2>1 DEF Values
  <2> QED BY <1>1, <1>2, <2>1, <2>2 DEF SetValues, ScreenInv
<1> QED BY <1>3, <1>4 DEF ScreenInv

LEMMA ScreenStep == SplashTypeOK /\ ScreenInv /\ [Next]_vars => ScreenInv'
<1> SUFFICES ASSUME SplashTypeOK, ScreenInv, [Next]_vars PROVE ScreenInv'
  OBVIOUS
<1>1. CASE StartUp
  <2>1. CASE Draw
    BY <2>1, DrawScreen DEF ScreenInv
  <2>2. CASE UNCHANGED drawerVars /\ pc' = "off"
    BY <2>2 DEF drawerVars, ScreenInv, Reference
  <2> QED BY <1>1, <2>1, <2>2 DEF StartUp, NoConsole, NoFramebuffer, NoListener
<1>2. CASE LeaveLoop
  BY <1>2 DEF LeaveLoop, drawerVars, ScreenInv, Reference
<1>3. CASE EnterSelect
  BY <1>3 DEF EnterSelect, drawerVars, ScreenInv, Reference
<1>4. CASE HandleEvents
  <2>1. CASE \E accepted : HandleClients(accepted)
    BY <1>4, <2>1, HandleScreen DEF HandleEvents
  <2>2. CASE UNCHANGED drawerVars
    BY <1>4, <2>2 DEF HandleEvents, drawerVars, ScreenInv, Reference
  <2> QED BY <1>4, <2>1, <2>2 DEF HandleEvents, drawerVars
<1>5. CASE DrawTurn
  <2>1. CASE IsDirty
    BY <1>5, <2>1, DrawScreen DEF DrawTurn, ScreenInv
  <2>2. CASE ~IsDirty
    BY <1>5, <2>2 DEF DrawTurn, IsDirty, drawerVars, ScreenInv, Reference
  <2> QED BY <2>1, <2>2
<1>6. CASE Signal
  BY <1>6 DEF Signal, drawerVars, ScreenInv, Reference
<1>7. CASE UNCHANGED <<pc, drawerVars>>
  BY <1>7 DEF drawerVars, ScreenInv, Reference
<1>8. ASSUME NEW c \in Conns, SplashConnect(c) \/ SubmitMessage(c) \/ SplashDisconnect(c)
      PROVE  ScreenInv'
  BY <1>7, <1>8 DEF SplashConnect, SubmitMessage, SplashDisconnect, splashVars
<1>9. CASE UNCHANGED vars
  BY <1>7, <1>9 DEF vars, splashVars
<1> QED
  BY <1>1, <1>2, <1>3, <1>4, <1>5, <1>6, <1>8, <1>9 DEF Next

(* Whenever the splash waits, the screen shows what was handled last, for  *)
(* any width of the bar and any values and texts of its clients.           *)
THEOREM PaintedCorrect == Spec => []Painted
<1>1. ScreenInv => Painted
  BY DEF ScreenInv, Painted, UpToDate, Reference
<1>2. SplashTypeOK /\ ScreenInv /\ [Next]_vars => (SplashTypeOK /\ ScreenInv)'
  BY TypeStep, ScreenStep
<1>3. Init => SplashTypeOK /\ ScreenInv
  BY TypeInit, ScreenInit
<1> QED BY <1>1, <1>2, <1>3, PTL DEF Spec

(***************************************************************************)
(* The descriptors                                                         *)
(***************************************************************************)
(* What waits to be accepted was dialled, once.                            *)
Backlogged ==
  /\ \A i \in 1 .. Len(dialled) : servEnd[dialled[i]] = "queued"
  /\ \A i, j \in 1 .. Len(dialled) : dialled[i] = dialled[j] => i = j
  /\ \A c \in Conns : peerEnd[c] = "unused" => servEnd[c] = "none"

Forgotten == \A c \in Held \ Watched : peerEnd[c] = "closed" /\ up[c] = << >>

Descriptors ==
  /\ \A c \in Held : fdOf[c] \in Fds
  /\ SocketsOpen
  /\ Forgotten

TableInv == SplashTypeOK /\ Backlogged /\ Descriptors

LEMMA TableInit == Init => TableInv
<1> SUFFICES ASSUME Init PROVE TableInv
  OBVIOUS
<1>1. Len(dialled) = 0 /\ Held = {}
  BY EmptySeq DEF Init, SocketInit, Held
<1>2. Backlogged
  BY <1>1 DEF Init, SocketInit, Backlogged
<1>3. Descriptors
  BY <1>1 DEF Init, Descriptors, SocketsOpen, Forgotten, Watched
<1> QED BY <1>2, <1>3, TypeInit DEF TableInv

(* Nothing of the table depends on more than this.                         *)
LEMMA TableUnchanged ==
  ASSUME Descriptors, UNCHANGED <<servEnd, fdOf, clientSockets>>,
         \A c \in Conns : /\ up'[c] # up[c] => peerEnd[c] = "open"
                          /\ peerEnd'[c] # peerEnd[c] => peerEnd[c] = "open"
  PROVE  Descriptors'
<1>1. Held' = Held /\ Watched' = Watched /\ Held \subseteq Conns
  BY DEF Held, Watched
<1>2. SocketsOpen'
  BY <1>1 DEF Descriptors, SocketsOpen
<1>3. ASSUME NEW c \in Held \ Watched PROVE peerEnd'[c] = "closed" /\ up'[c] = << >>
  <2>1. c \in Conns /\ peerEnd[c] = "closed" /\ up[c] = << >>
    BY <1>1 DEF Descriptors, Forgotten
  <2> QED BY <2>1
<1> QED BY <1>1, <1>2, <1>3 DEF Descriptors, Forgotten

(* Dead and closed clients leave the set, and a new one enters it under a  *)
(* descriptor nobody holds.                                                *)
LEMMA HandleTable ==
  ASSUME TableInv, NEW accepted \in SUBSET Conns, HandleClients(accepted),
         UNCHANGED peerEnd, accepted # {} => FreeFds # {},
         \A c \in accepted : servEnd[c] = "queued",
         \A c, d \in accepted : c = d
  PROVE  Descriptors'
<1> DEFINE n == LowestFree
           bad == Said("bad")
<1>1. /\ bad \subseteq Ready /\ Ended \subseteq Ready /\ Ready \subseteq Watched
      /\ Watched \subseteq Held /\ Held \subseteq Conns
      /\ \A c \in bad : c \notin Ended
      /\ \A c \in accepted : c \notin Held
  BY DEF Said, Ended, Ready, Watched, Held
<1>2. /\ \A c \in Conns : servEnd'[c] = IF c \in accepted THEN "open"
                                        ELSE IF c \in bad THEN "closed" ELSE servEnd[c]
      /\ \A c \in Conns : fdOf'[c] = IF c \in accepted THEN n
                                     ELSE IF c \in bad THEN 0 ELSE fdOf[c]
      /\ clientSockets' = (clientSockets \cup (IF accepted = {} THEN {} ELSE {n}))
                          \ {fdOf[c] : c \in Ended \cup bad}
      /\ \A c \in Conns : up'[c] = IF c \in Ready \ Ended THEN Tail(up[c]) ELSE up[c]
  <2>0. \A c \in accepted : c \notin Said("bad")
    BY <1>1
  <2>1. \A c \in Conns : servEnd'[c] = IF c \in accepted THEN "open"
                                       ELSE IF c \in bad THEN "closed" ELSE servEnd[c]
    BY <2>0 DEF HandleClients
  <2>2. \A c \in Conns : fdOf'[c] = IF c \in accepted THEN n
                                    ELSE IF c \in bad THEN 0 ELSE fdOf[c]
    BY <2>0 DEF HandleClients
  <2>3. clientSockets' = (clientSockets \cup (IF accepted = {} THEN {} ELSE {n}))
                         \ {fdOf[c] : c \in Ended \cup bad}
    BY DEF HandleClients, ForgetDead
  <2>4. \A c \in Conns : up'[c] = IF c \in Ready \ Ended THEN Tail(up[c]) ELSE up[c]
    BY DEF HandleClients
  <2> QED BY <2>1, <2>2, <2>3, <2>4
<1>3. accepted # {} => n \in Fds /\ \A c \in Held : fdOf[c] # n
  BY LowestFreeIsFree DEF FreeFds
<1>4. /\ \A c \in Held : fdOf[c] \in Fds
      /\ \A f \in clientSockets : \E c \in Held : fdOf[c] = f
      /\ \A c, d \in Held : fdOf[c] = fdOf[d] => c = d
      /\ Forgotten
  BY DEF TableInv, Descriptors, SocketsOpen
<1> HIDE DEF n, bad
<1>5. Held' = (Held \ bad) \cup accepted
  BY <1>1, <1>2 DEF Held
<1>6. \A c \in Held' : fdOf'[c] \in Fds
  BY <1>1, <1>2, <1>3, <1>4, <1>5
<1>7. ASSUME NEW f \in clientSockets' PROVE \E c \in Held' : fdOf'[c] = f
  <2>1. CASE accepted # {} /\ f = n
    BY <2>1, <1>2, <1>5
  <2>2. CASE f \in clientSockets
    <3>1. PICK c \in Held : fdOf[c] = f
      BY <2>2, <1>4
    <3>2. c \notin bad /\ c \notin accepted
      BY <3>1, <1>1, <1>2, <1>7
    <3> QED BY <3>1, <3>2, <1>1, <1>2, <1>5
  <2> QED BY <2>1, <2>2, <1>2
<1>8. ASSUME NEW c \in Held', NEW d \in Held', fdOf'[c] = fdOf'[d] PROVE c = d
  <2>1. CASE c \in accepted /\ d \in accepted
    BY <2>1
  <2>2. CASE c \notin accepted /\ d \notin accepted
    BY <2>2, <1>1, <1>2, <1>4, <1>5, <1>8
  <2>3. CASE c \in accepted /\ d \notin accepted
    BY <2>3, <1>1, <1>2, <1>3, <1>5, <1>8
  <2>4. CASE c \notin accepted /\ d \in accepted
    BY <2>4, <1>1, <1>2, <1>3, <1>5, <1>8
  <2> QED BY <2>1, <2>2, <2>3, <2>4
<1>9. ASSUME NEW c \in Held' \ Watched' PROVE peerEnd'[c] = "closed" /\ up'[c] = << >>
  <2>1. fdOf'[c] \notin clientSockets' /\ c \in Conns
    BY <1>1, <1>5 DEF Watched
  <2>2. CASE c \in accepted
    <3>1. n \in clientSockets' /\ fdOf'[c] = n
      BY <2>1, <2>2, <1>1, <1>2, <1>3
    <3> QED BY <2>1, <3>1
  <2>3. CASE c \notin accepted
    <3>1. c \in Held /\ c \notin bad /\ fdOf'[c] = fdOf[c]
      BY <2>1, <2>3, <1>1, <1>2, <1>5
    <3>2. CASE c \in Watched
      <4>1. fdOf[c] \in clientSockets
        BY <3>2 DEF Watched
      <4>2. PICK d \in Ended \cup bad : fdOf[d] = fdOf[c]
        BY <2>1, <3>1, <4>1, <1>2
      <4>3. c \in Ended
        BY <3>1, <4>2, <1>1, <1>4
      <4>4. peerEnd[c] = "closed" /\ up[c] = << >>
        BY <4>3 DEF Ended, Ready
      <4> QED BY <2>1, <4>3, <4>4, <1>2
    <3>3. CASE c \notin Watched
      <4>1. peerEnd[c] = "closed" /\ up[c] = << >>
        BY <3>1, <3>3, <1>4 DEF Forgotten
      <4> QED BY <2>1, <3>3, <4>1, <1>1, <1>2
    <3> QED BY <3>2, <3>3
  <2> QED BY <2>2, <2>3
<1> QED BY <1>6, <1>7, <1>8, <1>9 DEF Descriptors, SocketsOpen, Forgotten

LEMMA HandleBacklog ==
  ASSUME TableInv, HandleEvents
  PROVE  Backlogged'
<1>1. dialled \in Seq(Conns)
  BY DEF TableInv, SplashTypeOK, TypeOK, SocketTypeOK
<1>2. ASSUME NEW c \in Conns, servEnd[c] # "open",
             dialled = << >> \/ c # Head(dialled)
      PROVE  servEnd'[c] = servEnd[c]
  <2>1. c \notin Said("bad")
    BY <1>2 DEF Said, Ready, Watched, Held
  <2>2. CASE HandleClients({}) /\ dialled = << >>
    BY <2>1, <2>2 DEF HandleClients
  <2>3. CASE HandleClients({Head(dialled)}) /\ dialled # << >>
    BY <1>2, <2>1, <2>3 DEF HandleClients
  <2>4. CASE UNCHANGED servEnd
    BY <2>4
  <2> QED BY <2>2, <2>3, <2>4 DEF HandleEvents
<1>3. \A c \in Conns : peerEnd'[c] = "unused" => servEnd'[c] = "none"
  <2> SUFFICES ASSUME NEW c \in Conns, peerEnd'[c] = "unused" PROVE servEnd'[c] = "none"
    OBVIOUS
  <2>1. servEnd[c] = "none"
    BY DEF TableInv, Backlogged, HandleEvents
  <2>2. dialled = << >> \/ c # Head(dialled)
    <3> SUFFICES ASSUME dialled # << >> PROVE servEnd[Head(dialled)] = "queued"
      BY <2>1
    <3>1. Head(dialled) = dialled[1] /\ 1 \in 1 .. Len(dialled)
      BY <1>1, EmptySeq
    <3> QED BY <3>1 DEF TableInv, Backlogged
  <2> QED BY <1>2, <2>1, <2>2
<1>4. CASE UNCHANGED dialled /\ dialled = << >>
  BY <1>3, <1>4, EmptySeq DEF Backlogged
<1>5. CASE UNCHANGED <<dialled, servEnd>>
  BY <1>3, <1>5 DEF TableInv, Backlogged
<1>6. CASE dialled # << >> /\ dialled' = Tail(dialled)
  <2>1. /\ Len(dialled) \in Nat \ {0} /\ Len(dialled') = Len(dialled) - 1
        /\ \A i \in 1 .. Len(dialled') : dialled'[i] = dialled[i + 1]
        /\ Head(dialled) = dialled[1]
    BY <1>1, <1>6, HeadTailProperties, EmptySeq
  <2>2. ASSUME NEW i \in 1 .. Len(dialled')
        PROVE  servEnd'[dialled'[i]] = "queued"
    <3>1. i + 1 \in 1 .. Len(dialled) /\ 1 \in 1 .. Len(dialled) /\ i + 1 # 1
      BY <2>1
    <3>2. dialled[i + 1] # Head(dialled) /\ servEnd[dialled[i + 1]] = "queued"
      BY <2>1, <3>1 DEF TableInv, Backlogged
    <3>3. dialled[i + 1] \in Conns
      BY <1>1, <3>1, ElementOfSeq
    <3> QED BY <1>2, <2>1, <3>2, <3>3
  <2>3. ASSUME NEW i \in 1 .. Len(dialled'), NEW j \in 1 .. Len(dialled'),
               dialled'[i] = dialled'[j]
        PROVE  i = j
    <3>1. i + 1 \in 1 .. Len(dialled) /\ j + 1 \in 1 .. Len(dialled)
      BY <2>1
    <3>2. i + 1 = j + 1
      BY <2>1, <2>3, <3>1 DEF TableInv, Backlogged
    <3> QED BY <3>2
  <2> QED BY <1>3, <2>2, <2>3 DEF Backlogged
<1> QED BY <1>4, <1>5, <1>6 DEF HandleEvents

LEMMA TurnTable == TableInv /\ HandleEvents => Descriptors'
<1> SUFFICES ASSUME TableInv, HandleEvents PROVE Descriptors'
  OBVIOUS
<1>1. dialled \in Seq(Conns) /\ UNCHANGED peerEnd
  BY DEF TableInv, SplashTypeOK, TypeOK, SocketTypeOK, HandleEvents
<1>2. CASE HandleClients({})
  BY <1>1, <1>2, HandleTable
<1>3. CASE dialled # << >> /\ FreeFds # {} /\ HandleClients({Head(dialled)})
  <2>1. Head(dialled) = dialled[1] /\ 1 \in 1 .. Len(dialled) /\ Head(dialled) \in Conns
    BY <1>1, <1>3, EmptySeq, HeadTailProperties
  <2>2. servEnd[Head(dialled)] = "queued"
    BY <2>1 DEF TableInv, Backlogged
  <2> QED BY <1>1, <1>3, <2>1, <2>2, HandleTable
<1>4. CASE UNCHANGED <<up, servEnd, fdOf, clientSockets>>
  BY <1>1, <1>4, TableUnchanged DEF TableInv
<1> QED BY <1>2, <1>3, <1>4 DEF HandleEvents

LEMMA DialTable ==
  ASSUME TableInv, NEW c \in Conns, SplashConnect(c)
  PROVE  Backlogged' /\ Descriptors'
<1>1. /\ dialled \in Seq(Conns) /\ dialled' = Append(dialled, c)
      /\ servEnd[c] = "none" /\ servEnd' = [servEnd EXCEPT ![c] = "queued"]
      /\ servEnd \in [Conns -> {"none", "queued", "open", "closed"}]
      /\ peerEnd \in [Conns -> {"unused", "open", "closed"}]
      /\ peerEnd[c] = "unused" /\ peerEnd' = [peerEnd EXCEPT ![c] = "open"]
      /\ UNCHANGED <<up, fdOf, clientSockets>>
  BY DEF TableInv, SplashTypeOK, TypeOK, SocketTypeOK, Backlogged, SplashConnect, Dial,
     splashVars
<1>2. /\ Len(dialled) \in Nat
      /\ Len(dialled') = Len(dialled) + 1
      /\ \A i \in 1 .. Len(dialled) : dialled'[i] = dialled[i] /\ dialled[i] \in Conns
      /\ dialled'[Len(dialled) + 1] = c
  BY <1>1, AppendProperties, LenProperties, ElementOfSeq
<1>3. \A i \in 1 .. Len(dialled) : dialled[i] # c
  BY <1>1 DEF TableInv, Backlogged
<1>4. \A i \in 1 .. Len(dialled') : i \in 1 .. Len(dialled) \/ i = Len(dialled) + 1
  BY <1>2
<1>5. Backlogged'
  <2>1. \A i \in 1 .. Len(dialled') : servEnd'[dialled'[i]] = "queued"
    BY <1>1, <1>2, <1>4 DEF TableInv, Backlogged
  <2>2. \A i, j \in 1 .. Len(dialled') : dialled'[i] = dialled'[j] => i = j
    BY <1>2, <1>3, <1>4 DEF TableInv, Backlogged
  <2>3. \A d \in Conns : peerEnd'[d] = "unused" => servEnd'[d] = "none"
    BY <1>1 DEF TableInv, Backlogged
  <2> QED BY <2>1, <2>2, <2>3 DEF Backlogged
<1>6. Held' = Held /\ Watched' = Watched /\ c \notin Held /\ Held \subseteq Conns
  BY <1>1 DEF Held, Watched
<1>7. Descriptors'
  BY <1>1, <1>6 DEF TableInv, Descriptors, SocketsOpen, Forgotten
<1> QED BY <1>5, <1>7

LEMMA TableStep == TableInv /\ [Next]_vars => TableInv'
<1> SUFFICES ASSUME TableInv, [Next]_vars PROVE Backlogged' /\ Descriptors'
  BY TypeStep DEF TableInv
<1>0. ASSUME UNCHANGED sockVars, UNCHANGED <<fdOf, clientSockets>>
      PROVE  Backlogged' /\ Descriptors'
  BY <1>0, TableUnchanged DEF TableInv, Backlogged, sockVars
<1>1. CASE StartUp \/ EnterSelect \/ DrawTurn \/ Signal
  BY <1>0, <1>1 DEF StartUp, EnterSelect, DrawTurn, Signal
<1>2. CASE LeaveLoop
  <2>1. /\ dialled' = << >> /\ clientSockets' = {}
        /\ \A c \in Conns : servEnd'[c] \notin {"open", "queued"}
        /\ \A c \in Conns : servEnd[c] = "none" => servEnd'[c] = "none"
        /\ UNCHANGED peerEnd
    BY <1>2 DEF LeaveLoop, ProcessExit, CloseServerEnds
  <2>2. Held' = {} /\ Len(dialled') = 0
    BY <2>1, EmptySeq DEF Held
  <2>3. Backlogged'
    BY <2>1, <2>2 DEF TableInv, Backlogged
  <2> QED BY <2>1, <2>2, <2>3 DEF Descriptors, SocketsOpen, Forgotten, Watched
<1>3. CASE HandleEvents
  BY <1>3, HandleBacklog, TurnTable
<1>4. ASSUME NEW c \in Conns, SplashConnect(c) PROVE Backlogged' /\ Descriptors'
  BY <1>4, DialTable
<1>5. ASSUME NEW c \in Conns, SubmitMessage(c) PROVE Backlogged' /\ Descriptors'
  <2>1. /\ peerEnd[c] = "open" /\ \A d \in Conns : d # c => up'[d] = up[d]
        /\ UNCHANGED <<dialled, peerEnd, servEnd, fdOf, clientSockets>>
    BY <1>5 DEF SubmitMessage, PeerWrite, splashVars, TableInv, SplashTypeOK, TypeOK,
                SocketTypeOK
  <2> QED BY <2>1, TableUnchanged DEF TableInv, Backlogged
<1>6. ASSUME NEW c \in Conns, SplashDisconnect(c) PROVE Backlogged' /\ Descriptors'
  <2>1. /\ peerEnd[c] = "open" /\ peerEnd'[c] = "closed"
        /\ \A d \in Conns : d # c => peerEnd'[d] = peerEnd[d]
        /\ UNCHANGED <<dialled, up, servEnd, fdOf, clientSockets>>
    BY <1>6 DEF SplashDisconnect, PeerClose, splashVars, TableInv, SplashTypeOK, TypeOK,
                SocketTypeOK
  <2> QED BY <2>1, TableUnchanged DEF TableInv, Backlogged
<1>7. CASE UNCHANGED vars
  BY <1>0, <1>7 DEF vars, splashVars
<1> QED BY <1>1, <1>2, <1>3, <1>4, <1>5, <1>6, <1>7 DEF Next

THEOREM TableInvariant == Spec => []TableInv
BY TableInit, TableStep, PTL DEF Spec

(* Every descriptor in the set is open and one client's, for any number of *)
(* clients that come, go and send anything.                                *)
THEOREM SocketsOpenCorrect == Spec => []SocketsOpen
<1>1. TableInv => SocketsOpen
  BY DEF TableInv, Descriptors
<1> QED BY <1>1, TableInvariant, PTL

(* Only a client that has gone, with all it sent handled, is forgotten.    *)
THEOREM OnlyDeadForgottenCorrect == Spec => []OnlyDeadForgotten
<1>1. TableInv => OnlyDeadForgotten
  BY DEF TableInv, Descriptors, Forgotten, OnlyDeadForgotten
<1> QED BY <1>1, TableInvariant, PTL
=============================================================================
