------------------------------ MODULE BootSplash ------------------------------
(***************************************************************************)
(* The boot splash, splash/main.cpp and splash/RpcListener.cpp: one loop   *)
(* around select() over a listening socket and its clients, ended by a     *)
(* request to quit or by a signal, with the Drawer that paints what the    *)
(* clients, programs that use remotelib, ask for.                          *)
(*                                                                         *)
(* Of the kernel, outside the repository: a signal interrupts a select()   *)
(* that blocks, and only that; accept() returns the lowest free            *)
(* descriptor, and fails when there is none.                               *)
(***************************************************************************)
EXTENDS RpcSocket, Drawer, FiniteSets

CONSTANTS
  Fds,       (* descriptors the process has for clients                    *)
  Percents,  (* progress values a client sends, in columns                 *)
  Texts      (* messages a client sends                                    *)

ASSUME SplashAssumption == /\ Fds \subseteq Nat \ {0} /\ IsFiniteSet(Fds)
                           /\ Percents \subseteq Int /\ Texts \subseteq Nat

VARIABLES
  pc,             (* "start", "enter", "select" that blocks, "draw",       *)
                  (* "leave", "off"                                        *)
  gRun,
  tty,            (* "text" or "graphics"                                  *)
  refused,        (* a system call of start-up or of the end failed        *)
  fdOf,           (* the descriptor of each open connection, or 0          *)
  clientSockets   (* the member: a set of descriptors                      *)

splashVars == <<pc, gRun, tty, refused, fdOf, clientSockets>>
vars == <<sockVars, splashVars, drawerVars>>

(* "bad" is any record that is short or of a type not handled, a version   *)
(* string among them; the type that asks for nothing is never sent.        *)
Messages == [type : {"progress"}, value : Percents] \cup [type : {"message"}, value : Texts]
            \cup [type : {"terminate", "bad"}, value : {0}]

Held == {c \in Conns : servEnd[c] = "open"}
FreeFds == Fds \ {fdOf[c] : c \in Held}
LowestFree == CHOOSE f \in FreeFds : \A g \in FreeFds : f <= g

Init ==
  /\ SocketInit /\ DrawerInit
  /\ pc = "start" /\ gRun = TRUE
  /\ tty = "text" /\ refused = FALSE
  /\ fdOf = [c \in Conns |-> 0]
  /\ clientSockets = {}

(***************************************************************************)
(* main()                                                                  *)
(***************************************************************************)
(* The condition of the loop, tested at the end of a step.                 *)
AfterTest == IF gRun THEN "enter" ELSE "leave"

(* The steps of start-up that may throw.  None is in a try, so terminal    *)
(* and screen stay as they are.                                            *)
NoConsole == UNCHANGED <<tty, drawerVars>>
NoFramebuffer == tty' = "graphics" /\ UNCHANGED drawerVars
NoListener == tty' = "graphics" /\ Draw

(* Up to the loop: the console is disabled, the framebuffer mapped, all of *)
(* it drawn, and the socket opened.                                        *)
StartUp ==
  /\ pc = "start"
  /\ \/ /\ pc' = AfterTest
        /\ tty' = "graphics" /\ Draw
        /\ UNCHANGED refused
     \/ /\ pc' = "off"
        /\ NoConsole \/ NoFramebuffer \/ NoListener
        /\ refused' = TRUE
  /\ UNCHANGED <<sockVars, gRun, fdOf, clientSockets>>

(* The turn ends with a drawing, whether or not handleEvents() threw and   *)
(* whether or not the loop goes on.                                        *)
DrawTurn ==
  /\ pc = "draw"
  /\ pc' = AfterTest
  /\ IF IsDirty THEN Draw ELSE UNCHANGED drawerVars
  /\ UNCHANGED <<sockVars, gRun, tty, refused, fdOf, clientSockets>>

(* EnableConsole() is not in a try either.                                 *)
LeaveLoop ==
  /\ pc = "leave"
  /\ pc' = "off"
  /\ ProcessExit
  /\ clientSockets' = {} /\ fdOf' = [c \in Conns |-> 0]
  /\ \/ tty' = "text" /\ UNCHANGED refused
     \/ tty' = tty /\ refused' = TRUE
  /\ UNCHANGED <<gRun, drawerVars>>

(***************************************************************************)
(* RpcListener                                                             *)
(***************************************************************************)
Watched == {c \in Held : fdOf[c] \in clientSockets}
Ready == {c \in Watched : up[c] # << >> \/ peerEnd[c] = "closed"}
Said(type) == {c \in Ready : up[c] # << >> /\ Head(up[c]).type = type}
Values(type, old) == IF Said(type) = {} THEN {old} ELSE {Head(up[c]).value : c \in Said(type)}
Ended == {c \in Ready : up[c] = << >>}

Quiet == dialled = << >> /\ Ready = {}

(* handleEvents() up to select(), which blocks if nothing is ready.        *)
EnterSelect ==
  /\ pc = "enter" /\ Quiet
  /\ pc' = "select"
  /\ UNCHANGED <<sockVars, gRun, tty, refused, fdOf, clientSockets, drawerVars>>

(* Mutants of ForgetDead: a client that sent nonsense is closed and kept;  *)
(* one that sent anything but progress is forgotten; so is the new one.    *)
KeepClosed(added) == clientSockets' = (clientSockets \cup added) \ {fdOf[c] : c \in Ended}
ForgetQuiet(added) ==
  clientSockets' = (clientSockets \cup added) \ {fdOf[c] : c \in Ready \ Said("progress")}
ForgetNew(added) == clientSockets' = clientSockets \ {fdOf[c] : c \in Ended \cup Said("bad")}

(* The set after one round: deadClients are taken out.                     *)
ForgetDead(added) ==
  clientSockets' = (clientSockets \cup added) \ {fdOf[c] : c \in Ended \cup Said("bad")}

(* What handleClientMessage() does for every client that is ready.  Only   *)
(* one that sent nonsense is closed; one that ended is forgotten.  The     *)
(* order is a hash table's: of two values for the drawer either stays.     *)
HandleClients(accepted) ==
  /\ up' = [c \in Conns |-> IF c \in Ready \ Ended THEN Tail(up[c]) ELSE up[c]]
  /\ servEnd' = [c \in Conns |-> CASE c \in accepted    -> "open"
                                   [] c \in Said("bad") -> "closed"
                                   [] OTHER             -> servEnd[c]]
  /\ fdOf' = [c \in Conns |-> CASE c \in accepted    -> LowestFree
                                [] c \in Said("bad") -> 0
                                [] OTHER             -> fdOf[c]]
  /\ ForgetDead(IF accepted = {} THEN {} ELSE {LowestFree})
  /\ gRun' = (gRun /\ Said("terminate") = {})
  /\ \E p \in Values("progress", progress), t \in Values("message", progressString) :
       SetValues(p, t, (IF Said("progress") = {} THEN {} ELSE {"progress"})
                       \cup (IF Said("message") = {} THEN {} ELSE {"string"}))
  /\ UNCHANGED <<bar, text>>

(* Mutant of HandleEvents: what accept() returns is not checked.           *)
AcceptUnchecked ==
  /\ pc \in {"enter", "select"} /\ dialled # << >>
  /\ pc' = "draw"
  /\ IF FreeFds = {}
     THEN /\ clientSockets' = clientSockets \cup {-1}
          /\ UNCHANGED <<dialled, up, servEnd, fdOf, gRun, drawerVars>>
     ELSE /\ HandleClients({Head(dialled)})
          /\ dialled' = Tail(dialled)
  /\ UNCHANGED <<peerEnd, down, out, tty, refused>>

(* The rest of handleEvents(): at most one client is accepted; if that     *)
(* throws, no client is handled, and main() logs it and goes on.           *)
HandleEvents ==
  /\ pc \in {"enter", "select"}
  /\ pc' = "draw"
  /\ \/ /\ dialled = << >> /\ Ready # {}
        /\ HandleClients({})
        /\ UNCHANGED dialled
     \/ /\ dialled # << >> /\ FreeFds # {}
        /\ HandleClients({Head(dialled)})
        /\ dialled' = Tail(dialled)
     \/ /\ dialled # << >> /\ FreeFds = {}
        /\ UNCHANGED <<dialled, up, servEnd, fdOf, clientSockets, gRun, drawerVars>>
  /\ UNCHANGED <<peerEnd, down, out, tty, refused>>

Listening == pc \in {"enter", "select", "draw", "leave"}

(* SignalHandler() sets the flag; select() only returns if it blocks.      *)
Signal ==
  /\ pc # "off"
  /\ gRun' = FALSE
  /\ pc' = IF pc = "select" /\ Quiet THEN "draw" ELSE pc
  /\ UNCHANGED <<sockVars, tty, refused, fdOf, clientSockets, drawerVars>>

(***************************************************************************)
(* Clients: splash_connect(), SubmitMessage(), splash_disconnect()         *)
(***************************************************************************)
SplashConnect(c) == Listening /\ Dial(c) /\ UNCHANGED <<splashVars, drawerVars>>
SubmitMessage(c) == (\E m \in Messages : PeerWrite(c, m)) /\ UNCHANGED <<splashVars, drawerVars>>
SplashDisconnect(c) == PeerClose(c) /\ UNCHANGED <<splashVars, drawerVars>>

Next ==
  \/ StartUp \/ LeaveLoop \/ EnterSelect \/ HandleEvents \/ DrawTurn \/ Signal
  \/ \E c \in Conns : SplashConnect(c) \/ SubmitMessage(c) \/ SplashDisconnect(c)

Spec == Init /\ [][Next]_vars

(* The process runs, and select() returns when there is something to read. *)
FairSpec ==
  Spec /\ WF_vars(LeaveLoop \/ EnterSelect \/ HandleEvents \/ DrawTurn)

(***************************************************************************)
(* Properties                                                              *)
(***************************************************************************)
TypeOK ==
  /\ SocketTypeOK(Messages, {})
  /\ pc \in {"start", "enter", "select", "draw", "leave", "off"}
  /\ {gRun, refused} \subseteq BOOLEAN
  /\ tty \in {"text", "graphics"}
  /\ fdOf \in [Conns -> Fds \cup {0}]
  /\ clientSockets \subseteq Fds
  /\ progress \in Percents \cup {0} /\ text \in Texts \cup {-1, 0}

(* Every descriptor in the set is open and is one client's: with a closed  *)
(* one select() would fail on every turn, with a reused one two clients    *)
(* would be taken for one.                                                 *)
SocketsOpen ==
  /\ \A f \in clientSockets : \E c \in Held : fdOf[c] = f
  /\ \A c, d \in Held : fdOf[c] = fdOf[d] => c = d

(* A descriptor is only given up when its client has gone and everything   *)
(* it sent was handled.                                                    *)
OnlyDeadForgotten ==
  pc # "off" => \A c \in Held \ Watched : peerEnd[c] = "closed" /\ up[c] = << >>

(* Whenever the splash waits, and when its loop ends, the screen shows what*)
(* was handled last, of several clients in one turn, in a turn that failed *)
(* or was the last one too.                                                *)
Painted == pc \in {"enter", "select", "leave"} => UpToDate

(* No descriptor is left for a client that waits: accept() throws on every *)
(* turn, before any client is handled.                                     *)
Deaf == dialled # << >> /\ FreeFds = {}

(* A request to quit that arrived first in its connection ends the splash. *)
QuitEnds ==
  \A c \in Conns :
    (servEnd[c] \in {"queued", "open"} /\ up[c] # << >> /\ Head(up[c]).type = "terminate")
      ~> (pc = "off" \/ Deaf)

=============================================================================
