------------------------------ MODULE Watchdog ------------------------------
(***************************************************************************)
(* A daemon's watchdog (Watchdog.cpp, EventLoop::initWatchdogEvent()): a   *)
(* persistent timer in the event loop, at half the interval systemd        *)
(* allows, that tells systemd the daemon is alive.                         *)
(*                                                                         *)
(* Of libevent, outside the repository: a turn of the loop tests the       *)
(* timers once, at its start, before it calls anything back.  A timer that *)
(* is due then is called back in that turn, behind or before the others;   *)
(* one that falls due while callbacks run waits for the next turn.  A      *)
(* persistent timer is added again relative to the time it was due, or to  *)
(* the start of the turn when that has passed by then.                     *)
(***************************************************************************)
EXTENDS Integers

CONSTANT Half    (* ticks in half the interval of the watchdog             *)

ASSUME WatchdogAssumption == Half \in Nat \ {0}

VARIABLES
  timer,   (* ticks until the event is due, negative once it is late       *)
  quiet,   (* ticks since systemd was told that the daemon is alive        *)
  turn,    (* ticks the present turn of the loop has lasted, or Idle       *)
  queued,  (* the event is among the callbacks of the present turn         *)
  before   (* history: the length of the turn before, if the loop has not  *)
           (* slept since                                                  *)

watchdogVars == <<timer, quiet, turn, queued, before>>

WatchdogSec == 2 * Half
Idle == -1
Expired == quiet = WatchdogSec

WatchdogInit ==
  timer = Half /\ quiet = 0 /\ turn = Idle /\ queued = FALSE /\ before = 0

WatchdogOff ==
  timer' = Half /\ quiet' = 0 /\ turn' = Idle /\ queued' = FALSE /\ before' = 0

(* READY=1 starts the supervision; the first turn of the loop begins.      *)
WatchdogStart ==
  /\ quiet' = 0 /\ turn' = 0 /\ before' = 0
  /\ queued' = (timer <= 0)
  /\ UNCHANGED timer

BeginTurn ==
  /\ turn = Idle
  /\ turn' = 0
  /\ queued' = (timer <= 0)
  /\ UNCHANGED <<timer, quiet, before>>

(* When a persistent timer is due again after its callback.                *)
Again == IF timer + Half >= -turn THEN timer + Half ELSE Half - turn

(* Mutant of Kick: the timer is set to the whole interval.                 *)
KickLate ==
  /\ queued
  /\ queued' = FALSE
  /\ quiet' = 0
  /\ timer' = WatchdogSec
  /\ UNCHANGED <<turn, before>>

(* Mutant of Kick: the time by which it is late is never made up for.      *)
KickFromDue ==
  /\ queued
  /\ queued' = FALSE
  /\ quiet' = 0
  /\ timer' = timer + Half
  /\ UNCHANGED <<turn, before>>

(* The event's callback.                                                   *)
Kick ==
  /\ queued
  /\ queued' = FALSE
  /\ quiet' = 0
  /\ timer' = Again
  /\ UNCHANGED <<turn, before>>

(* The last callback of the turn has returned.                             *)
EndTurn ==
  /\ turn # Idle /\ ~queued
  /\ turn' = Idle
  /\ before' = turn
  /\ UNCHANGED <<timer, quiet, queued>>

(* A tick while the loop sleeps: it does so until an event is due.         *)
TickIdle ==
  /\ turn = Idle /\ timer > 0 /\ ~Expired
  /\ timer' = timer - 1 /\ quiet' = quiet + 1
  /\ before' = 0
  /\ UNCHANGED <<turn, queued>>

(* A tick while a callback runs.                                           *)
TickBusy ==
  /\ turn # Idle /\ ~Expired
  /\ turn' = turn + 1 /\ timer' = timer - 1 /\ quiet' = quiet + 1
  /\ UNCHANGED <<queued, before>>

(* A tick before the loop runs.  Bound: once the event is late by more     *)
(* than a whole period it does not matter by how much.                     *)
TickStart ==
  /\ timer' = IF timer >= -Half THEN timer - 1 ELSE timer
  /\ UNCHANGED <<quiet, turn, queued, before>>

(* How long callbacks have run without a pause, in this turn and the one   *)
(* before it.                                                              *)
Busy == before + (IF turn = Idle THEN 0 ELSE turn)

WatchdogTypeOK ==
  /\ timer \in -4 * Half .. Half
  /\ quiet \in 0 .. WatchdogSec
  /\ turn \in {Idle} \cup 0 .. 4 * Half
  /\ queued \in BOOLEAN
  /\ before \in 0 .. 4 * Half

=============================================================================
