------------------------------- MODULE Ft6336 -------------------------------
(***************************************************************************)
(* pinballd's FT6336 touch controller driver, drivers/touch/Ft6336.cpp: a  *)
(* polling timer reads the controller in two bus transactions, first how   *)
(* many points are touched, then their register banks, and broadcasts two  *)
(* touches.  The fingers do not wait in between.                           *)
(*                                                                         *)
(* Positions are opaque: what counts is which bank, read when, a reported  *)
(* position is from; the transform of its coordinates is left out.         *)
(***************************************************************************)
EXTENDS Naturals, FiniteSets

CONSTANTS
  Positions,  (* where a finger can be                                     *)
  Null,       (* no position                                               *)
  Garbage,    (* what the uninitialised touchIds array may hold            *)
  EmptyIds    (* the touch ids, of four bits, an empty bank may give       *)

(* The points, their register banks, and the touch ids.                    *)
Slots == {0, 1}

ASSUME TouchAssumption ==
  /\ Null \notin Positions /\ Garbage \subseteq 0 .. 255
  /\ EmptyIds \in [Slots -> SUBSET (0 .. 15)] /\ 0 \notin EmptyIds[1]

VARIABLES
  finger,     (* the controller: touch id -> position of that finger       *)
  count,      (* numPoints, between the two reads of a poll; 0 otherwise   *)
  hasData,    (* p1HasData, p2HasData                                      *)
  touchIds,   (* touch id -> register bank (point) of that touch           *)
  touchPos,   (* touchPositions: point -> position                         *)
  written,    (* history: the entries of touchIds that have been written   *)
  report,     (* the two touches of the latest broadcast                   *)
  told,       (* history: what its poll counted, the fingers at its last   *)
              (* read, and what had been `written' before it               *)
  alive       (* FALSE once an exception left the timer callback           *)

cacheVars == <<hasData, touchIds, touchPos, written>>
vars == <<finger, count, cacheVars, report, told, alive>>

NoTouch == [i \in Slots |-> Null]
Down(f) == {i \in Slots : f[i] # Null}

Init ==
  /\ finger   = NoTouch
  /\ count    = 0
  /\ hasData  = [i \in Slots |-> FALSE]
  /\ touchIds \in [Slots -> Garbage]
  /\ \E p \in Positions : touchPos = [i \in Slots |-> p]
  /\ written  = {}
  /\ report   = NoTouch
  /\ told     = [points |-> 0, fingers |-> NoTouch, written |-> {}]
  /\ alive    = TRUE

(***************************************************************************)
(* The controller gives a new finger the lowest free touch id and fills    *)
(* its register banks in the order of the ids.  A bank without a finger    *)
(* may hold what was in it before (bank 0 either id, bank 1 never id 0),   *)
(* or an id that means there is none.                                      *)
(***************************************************************************)
FingerDown(p) ==
  /\ Down(finger) # Slots
  /\ LET id == IF finger[0] = Null THEN 0 ELSE 1
     IN  finger' = [finger EXCEPT ![id] = p]
  /\ UNCHANGED <<count, cacheVars, report, told, alive>>

FingerMove(id, p) ==
  /\ finger[id] \notin {Null, p}
  /\ finger' = [finger EXCEPT ![id] = p]
  /\ UNCHANGED <<count, cacheVars, report, told, alive>>

FingerUp(id) ==
  /\ finger[id] # Null
  /\ finger' = [finger EXCEPT ![id] = Null]
  /\ UNCHANGED <<count, cacheVars, report, told, alive>>

Points(f) == Cardinality(Down(f))

Bank(b) ==
  IF b < Points(finger)
  THEN LET id == IF finger[0] = Null THEN 1 ELSE b
       IN  {[id |-> id, pos |-> finger[id]]}
  ELSE [id : EmptyIds[b], pos : Positions]

(***************************************************************************)
(* The driver's cached touch data as one record, and its updates           *)
(***************************************************************************)
Cache == [has |-> hasData, ids |-> touchIds, pos |-> touchPos, written |-> written]

CacheBecomes(s) ==
  hasData' = s.has /\ touchIds' = s.ids /\ touchPos' = s.pos /\ written' = s.written

ClearTouchPoint(s, point) ==
  LET idx == IF s.ids[0] = point THEN 0 ELSE 1
  IN  [has |-> [s.has EXCEPT ![idx] = FALSE], ids |-> [s.ids EXCEPT ![idx] = 255],
       pos |-> s.pos, written |-> s.written \cup {idx}]

ClearIfData(s, point) == IF s.has[point] THEN ClearTouchPoint(s, point) ELSE s

(* Mutant of Stored: the id is stored under the point.                     *)
SwappedIndex(s, point, id) ==
  {[has |-> s.has, ids |-> [s.ids EXCEPT ![point] = id], pos |-> s.pos,
    written |-> s.written \cup {point}]}

(* touchIds[id] = point, unchecked.  Outside of the array the byte falls   *)
(* on padding, on the timer's pointer, behind the object, or on the byte   *)
(* with the two flags.                                                     *)
Stored(s, point, id) ==
  IF id \in Slots
  THEN {[has |-> s.has, ids |-> [s.ids EXCEPT ![id] = point], pos |-> s.pos,
         written |-> s.written \cup {id}]}
  ELSE {s, [has |-> [i \in Slots |-> FALSE], ids |-> s.ids, pos |-> s.pos,
            written |-> s.written]}

DecodeTouchPoint(s, point, bank) ==
  {[has |-> [t.has EXCEPT ![point] = TRUE], ids |-> t.ids,
    pos |-> [t.pos EXCEPT ![point] = bank.pos], written |-> t.written] :
     t \in Stored(s, point, bank.id)}

(* Mutant of Lifted: the second point is not cleared.                      *)
ClearsFirstOnly == ClearIfData(Cache, 0)

(* The cache when no point is touched.                                     *)
Lifted == ClearIfData(ClearIfData(Cache, 0), 1)

(* Mutant of Decoded: the second finger's lift does not clear its point.   *)
KeepsSecond(first, second) ==
  LET one == DecodeTouchPoint(Cache, 0, first)
  IN  IF count = 2 THEN UNION {DecodeTouchPoint(s, 1, second) : s \in one} ELSE one

(* The caches that decoding the banks of `count' points may lead to.       *)
Decoded(first, second) ==
  LET one == DecodeTouchPoint(Cache, 0, first)
  IN  IF count = 2 THEN UNION {DecodeTouchPoint(s, 1, second) : s \in one}
                   ELSE {ClearIfData(s, 1) : s \in one}

Reported(s, i) == s.has[i] /\ s.ids[i] # 255

(* touchPositions.at() throws when a reported id names neither point.      *)
Unsendable(s) == \E i \in Slots : Reported(s, i) /\ s.ids[i] \notin Slots

SendTouchStateUpdate(s, points) ==
  IF Unsendable(s)
  THEN alive' = FALSE /\ UNCHANGED <<report, told>>
  ELSE /\ report' = [i \in Slots |-> IF Reported(s, i) THEN s.pos[s.ids[i]] ELSE Null]
       /\ told' = [points |-> points, fingers |-> finger, written |-> written]
       /\ UNCHANGED alive

(***************************************************************************)
(* A poll                                                                  *)
(***************************************************************************)
(* Mutant of ReadLifted: sends only while a finger is down.                *)
SendOnlyTouches ==
  /\ alive /\ count = 0
  /\ Down(finger) = {}
  /\ CacheBecomes(Lifted)
  /\ UNCHANGED <<finger, count, report, told, alive>>

(* The first read finds no point: nothing more is read, and nothing sent   *)
(* unless there was data to clear.                                         *)
ReadLifted ==
  /\ alive /\ count = 0
  /\ Down(finger) = {}
  /\ CacheBecomes(Lifted)
  /\ IF hasData # [i \in Slots |-> FALSE]
     THEN SendTouchStateUpdate(Lifted, 0)
     ELSE UNCHANGED <<report, told, alive>>
  /\ UNCHANGED <<finger, count>>

ReadStatus ==
  /\ alive /\ count = 0
  /\ Down(finger) # {}
  /\ count' = Points(finger)
  /\ UNCHANGED <<finger, cacheVars, report, told, alive>>

(* The second read: the banks of as many points as the first one found.    *)
ReadBanks ==
  /\ alive /\ count # 0
  /\ \E first \in Bank(0), second \in Bank(1) : \E s \in Decoded(first, second) :
       CacheBecomes(s) /\ SendTouchStateUpdate(s, count)
  /\ count' = 0
  /\ UNCHANGED finger

UpdateTouchState == ReadLifted \/ ReadStatus \/ ReadBanks

(* A bus transfer fails, or the count of points is out of range: nothing   *)
(* catches the exception between the timer callback and main().  A write   *)
(* outside of touchIds can end the process, too.                           *)
PollThrows ==
  /\ alive
  /\ alive' = FALSE
  /\ UNCHANGED <<finger, count, cacheVars, report, told>>

Next ==
  \/ \E p \in Positions : FingerDown(p)
  \/ \E id \in Slots : FingerUp(id)
  \/ \E id \in Slots, p \in Positions : FingerMove(id, p)
  \/ UpdateTouchState
  \/ PollThrows

Spec == Init /\ [][Next]_vars

(* The persistent timer keeps firing, and a poll goes on to its end.       *)
FairSpec == Spec /\ WF_vars(UpdateTouchState)

(***************************************************************************)
(* Properties                                                              *)
(***************************************************************************)
TypeOK ==
  /\ finger   \in [Slots -> Positions \cup {Null}]
  /\ count    \in 0 .. 2
  /\ hasData  \in [Slots -> BOOLEAN]
  /\ touchIds \in [Slots -> Garbage \cup Slots \cup {255}]
  /\ touchPos \in [Slots -> Positions]
  /\ written  \subseteq Slots
  /\ report   \in [Slots -> Positions \cup {Null}]
  /\ told     \in [points : 0 .. 2, fingers : [Slots -> Positions \cup {Null}],
                   written : SUBSET Slots]
  /\ alive    \in BOOLEAN

(* The touches of the first n of the fingers f.                            *)
FirstOf(n, f) == [i \in Slots |-> IF i < n THEN f[i] ELSE Null]

(* With finger 0 down when the banks are read, and no fewer fingers than   *)
(* the poll has counted, the broadcast gives the counted ones exactly as   *)
(* the controller holds them: whoever moved, came or was swapped between   *)
(* the two reads, and whatever polls, lifts and stray ids came before.     *)
TracksFirstFinger ==
  told.fingers[0] # Null /\ told.points \in 1 .. Points(told.fingers) =>
    report = FirstOf(told.points, told.fingers)

(* Once the entry of touch 0 has been written, each poll that finds no     *)
(* point reports no touch: no order of lifts, and no bank read after its   *)
(* finger was gone, leaves flags and ids behind that make one up.          *)
NoPhantomTouch == told.points = 0 /\ 0 \in told.written => report = NoTouch

(* Once every finger is lifted, and stays so, the clients are told, if the *)
(* entry of touch 0 has been written.                                      *)
LiftReported ==
  (Down(report) # {} /\ Down(finger) = {} /\ 0 \in written) ~>
     (report = NoTouch \/ Down(finger) # {} \/ ~alive)

=============================================================================
