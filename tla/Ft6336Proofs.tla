---------------------------- MODULE Ft6336Proofs ----------------------------
(***************************************************************************)
(* What module Ft6336 guarantees for any positions, any ids an empty bank  *)
(* may give, and whatever the uninitialised touchIds array holds: the      *)
(* cache keeps its types, the first finger is told faithfully, and once    *)
(* its entry has been written no poll of an untouched panel makes a touch  *)
(* up.                                                                     *)
(***************************************************************************)
EXTENDS Ft6336, FiniteSetTheorems, TLAPS

CacheType == [has : [Slots -> BOOLEAN],
              ids : [Slots -> Garbage \cup Slots \cup {255}],
              pos : [Slots -> Positions],
              written : SUBSET Slots]

BankType == [id : Nat, pos : Positions]

LEMMA CacheTyped == TypeOK => Cache \in CacheType
BY DEF TypeOK, Cache, CacheType

(* Which fingers are down, and how many points that makes.                 *)
LEMMA DownCases ==
  ASSUME NEW f \in [Slots -> Positions \cup {Null}]
  PROVE  /\ Points(f) \in 0 .. 2
         /\ Points(f) = 0 <=> f[0] = Null /\ f[1] = Null
         /\ Points(f) = 2 <=> f[0] # Null /\ f[1] # Null
<1>1. \/ Down(f) = {}     /\ f[0] = Null /\ f[1] = Null
      \/ Down(f) = {0}    /\ f[0] # Null /\ f[1] = Null
      \/ Down(f) = {1}    /\ f[0] = Null /\ f[1] # Null
      \/ Down(f) = {0, 1} /\ f[0] # Null /\ f[1] # Null
  BY DEF Down, Slots
<1>2. /\ Cardinality({}) = 0 /\ Cardinality({0}) = 1 /\ Cardinality({1}) = 1
      /\ Cardinality({0, 1}) = 2
  <2>1. Cardinality({}) = 0 /\ Cardinality({0}) = 1 /\ Cardinality({1}) = 1
    BY FS_EmptySet, FS_Singleton
  <2>2. IsFiniteSet({0}) /\ 1 \notin {0} /\ {0} \cup {1} = {0, 1}
    BY FS_Singleton
  <2>3. Cardinality({0} \cup {1}) = Cardinality({0}) + 1
    BY <2>2, FS_AddElement
  <2> QED BY <2>1, <2>2, <2>3
<1> QED BY <1>1, <1>2 DEF Points

(***************************************************************************)
(* The updates of the cache                                                *)
(***************************************************************************)
(* The entry ClearTouchPoint resets: 0 if it names the point, else 1.      *)
LEMMA ClearFirst ==
  ASSUME NEW s \in CacheType, NEW point, s.ids[0] = point
  PROVE  /\ ClearTouchPoint(s, point) \in CacheType
         /\ ClearTouchPoint(s, point).has = [s.has EXCEPT ![0] = FALSE]
         /\ ClearTouchPoint(s, point).ids = [s.ids EXCEPT ![0] = 255]
         /\ ClearTouchPoint(s, point).pos = s.pos
         /\ ClearTouchPoint(s, point).written = s.written \cup {0}
BY DEF ClearTouchPoint, CacheType, Slots

LEMMA ClearSecond ==
  ASSUME NEW s \in CacheType, NEW point, s.ids[0] # point
  PROVE  /\ ClearTouchPoint(s, point) \in CacheType
         /\ ClearTouchPoint(s, point).has = [s.has EXCEPT ![1] = FALSE]
         /\ ClearTouchPoint(s, point).ids = [s.ids EXCEPT ![1] = 255]
         /\ ClearTouchPoint(s, point).pos = s.pos
         /\ ClearTouchPoint(s, point).written = s.written \cup {1}
BY DEF ClearTouchPoint, CacheType, Slots

LEMMA ClearType ==
  ASSUME NEW s \in CacheType, NEW point \in Slots
  PROVE  ClearIfData(s, point) \in CacheType
BY ClearFirst, ClearSecond DEF ClearIfData

(* What decoding a bank does to the cache: its id is one of the array ...  *)
LEMMA DecodeInside ==
  ASSUME NEW s \in CacheType, NEW point \in Slots, NEW bank \in BankType, bank.id \in Slots,
         NEW t \in DecodeTouchPoint(s, point, bank)
  PROVE  /\ t \in CacheType
         /\ t.has = [s.has EXCEPT ![point] = TRUE]
         /\ t.ids = [s.ids EXCEPT ![bank.id] = point]
         /\ t.pos = [s.pos EXCEPT ![point] = bank.pos]
         /\ t.written = s.written \cup {bank.id}
<1>1. PICK u \in Stored(s, point, bank.id) :
        t = [has |-> [u.has EXCEPT ![point] = TRUE], ids |-> u.ids,
             pos |-> [u.pos EXCEPT ![point] = bank.pos], written |-> u.written]
  BY DEF DecodeTouchPoint
<1>2. u = [has |-> s.has, ids |-> [s.ids EXCEPT ![bank.id] = point], pos |-> s.pos,
           written |-> s.written \cup {bank.id}]
  BY DEF Stored
<1> QED BY <1>1, <1>2 DEF CacheType, BankType, Slots

(* ... or a stray one.                                                     *)
LEMMA DecodeStray ==
  ASSUME NEW s \in CacheType, NEW point \in Slots, NEW bank \in BankType,
         bank.id \notin Slots, NEW t \in DecodeTouchPoint(s, point, bank)
  PROVE  t \in CacheType /\ t.ids = s.ids /\ t.written = s.written
<1>1. PICK u \in Stored(s, point, bank.id) :
        t = [has |-> [u.has EXCEPT ![point] = TRUE], ids |-> u.ids,
             pos |-> [u.pos EXCEPT ![point] = bank.pos], written |-> u.written]
  BY DEF DecodeTouchPoint
<1>2. \/ u = s
      \/ u = [has |-> [i \in Slots |-> FALSE], ids |-> s.ids, pos |-> s.pos,
              written |-> s.written]
  BY DEF Stored
<1>3. u \in CacheType /\ u.ids = s.ids /\ u.written = s.written
  <2> DEFINE none == [i \in Slots |-> FALSE]
  <2>1. none \in [Slots -> BOOLEAN]
    OBVIOUS
  <2>2. u = s \/ u = [has |-> none, ids |-> s.ids, pos |-> s.pos, written |-> s.written]
    BY <1>2
  <2> HIDE DEF none
  <2> QED BY <2>1, <2>2 DEF CacheType
<1> QED BY <1>1, <1>3 DEF CacheType, BankType, Slots

(* What a bank may hold: its finger, or an id not below its number.        *)
LEMMA BankCases ==
  ASSUME TypeOK, NEW b \in Slots, NEW bank \in Bank(b)
  PROVE  /\ bank \in BankType
         /\ bank.id = 0 => b = 0
         /\ b < Points(finger) /\ finger[0] # Null => bank.id = b /\ bank.pos = finger[b]
<1>0. /\ Points(finger) \in 0 .. 2
      /\ Points(finger) = 0 <=> finger[0] = Null /\ finger[1] = Null
      /\ Points(finger) = 2 <=> finger[0] # Null /\ finger[1] # Null
  BY DownCases DEF TypeOK
<1>1. CASE b < Points(finger)
  <2> DEFINE id == IF finger[0] = Null THEN 1 ELSE b
  <2>1. bank = [id |-> id, pos |-> finger[id]]
    BY <1>1 DEF Bank
  <2>2. id \in Slots /\ finger[id] # Null /\ b <= id
    BY <1>0, <1>1 DEF Slots
  <2>3. finger[id] \in Positions
    BY <2>2 DEF TypeOK
  <2> QED BY <2>1, <2>2, <2>3 DEF BankType, Slots
<1>2. CASE ~(b < Points(finger))
  <2>1. bank \in [id : EmptyIds[b], pos : Positions]
    BY <1>2 DEF Bank
  <2>2. \A i \in EmptyIds[b] : i \in Nat /\ (i = 0 => b = 0)
    BY TouchAssumption DEF Slots
  <2> QED BY <1>2, <2>1, <2>2 DEF BankType
<1> QED BY <1>1, <1>2

(* A cache the second read may lead to, as the steps that lead there.      *)
LEMMA DecodedCases ==
  ASSUME TypeOK, count # 0, NEW first \in Bank(0), NEW second \in Bank(1),
         NEW s \in Decoded(first, second)
  PROVE  \E one \in DecodeTouchPoint(Cache, 0, first) :
           /\ one \in CacheType /\ s \in CacheType
           /\ \/ count = 2 /\ s \in DecodeTouchPoint(one, 1, second)
              \/ count = 1 /\ s = ClearIfData(one, 1)
<1>1. first \in BankType /\ second \in BankType /\ 0 \in Slots /\ 1 \in Slots
  BY BankCases DEF Slots
<1>2. \A one \in DecodeTouchPoint(Cache, 0, first) : one \in CacheType
  BY <1>1, CacheTyped, DecodeInside, DecodeStray
<1>3. CASE count = 2
  <2>1. PICK one \in DecodeTouchPoint(Cache, 0, first) : s \in DecodeTouchPoint(one, 1, second)
    BY <1>3 DEF Decoded
  <2> QED BY <1>1, <1>2, <1>3, <2>1, DecodeInside, DecodeStray
<1>4. CASE count = 1
  <2>1. PICK one \in DecodeTouchPoint(Cache, 0, first) : s = ClearIfData(one, 1)
    BY <1>4 DEF Decoded
  <2> QED BY <1>1, <1>2, <1>4, <2>1, ClearType
<1> QED BY <1>3, <1>4 DEF TypeOK

(***************************************************************************)
(* Type correctness                                                        *)
(***************************************************************************)
LEMMA TypeInit == Init => TypeOK
BY TouchAssumption DEF Init, TypeOK, NoTouch, Slots

(* What is broadcast from a typed cache is typed.                          *)
LEMMA SendType ==
  ASSUME TypeOK, NEW s \in CacheType, NEW points \in 0 .. 2,
         SendTouchStateUpdate(s, points)
  PROVE  /\ report' \in [Slots -> Positions \cup {Null}]
         /\ told' \in [points : 0 .. 2, fingers : [Slots -> Positions \cup {Null}],
                       written : SUBSET Slots]
         /\ alive' \in BOOLEAN
<1>1. CASE Unsendable(s)
  <2>1. alive' = FALSE /\ report' = report /\ told' = told
    BY <1>1 DEF SendTouchStateUpdate
  <2> QED BY <2>1 DEF TypeOK
<1>2. CASE ~Unsendable(s)
  <2>1. report' = [i \in Slots |-> IF Reported(s, i) THEN s.pos[s.ids[i]] ELSE Null]
    BY <1>2 DEF SendTouchStateUpdate
  <2>2. \A i \in Slots : Reported(s, i) => s.pos[s.ids[i]] \in Positions
    BY <1>2 DEF Unsendable, CacheType
  <2> QED BY <1>2, <2>1, <2>2 DEF SendTouchStateUpdate, TypeOK
<1> QED BY <1>1, <1>2

LEMMA BecomesType ==
  ASSUME NEW s \in CacheType, CacheBecomes(s)
  PROVE  /\ hasData' \in [Slots -> BOOLEAN]
         /\ touchIds' \in [Slots -> Garbage \cup Slots \cup {255}]
         /\ touchPos' \in [Slots -> Positions]
         /\ written' \subseteq Slots
BY DEF CacheBecomes, CacheType

LEMMA TypeStep == TypeOK /\ [Next]_vars => TypeOK'
<1> SUFFICES ASSUME TypeOK, [Next]_vars PROVE TypeOK'
  OBVIOUS
<1>1. ASSUME NEW p \in Positions, FingerDown(p) PROVE TypeOK'
  BY <1>1 DEF TypeOK, FingerDown, Slots, cacheVars
<1>2. ASSUME NEW id \in Slots, FingerUp(id) PROVE TypeOK'
  BY <1>2 DEF TypeOK, FingerUp, Slots, cacheVars
<1>3. ASSUME NEW id \in Slots, NEW p \in Positions, FingerMove(id, p) PROVE TypeOK'
  BY <1>3 DEF TypeOK, FingerMove, Slots, cacheVars
<1>4. CASE ReadLifted
  <2>1. Lifted \in CacheType
    BY CacheTyped, ClearType DEF Lifted, Slots
  <2>2. CASE SendTouchStateUpdate(Lifted, 0)
    BY <1>4, <2>1, <2>2, SendType, BecomesType DEF ReadLifted, TypeOK
  <2>3. CASE UNCHANGED <<report, told, alive>>
    BY <1>4, <2>1, <2>3, BecomesType DEF ReadLifted, TypeOK
  <2> QED BY <1>4, <2>2, <2>3 DEF ReadLifted
<1>5. CASE ReadStatus
  <2>1. Points(finger) \in 0 .. 2
    BY DownCases DEF TypeOK
  <2> QED BY <1>5, <2>1 DEF TypeOK, ReadStatus, cacheVars
<1>6. CASE ReadBanks
  <2>1. PICK first \in Bank(0), second \in Bank(1) : \E s \in Decoded(first, second) :
          CacheBecomes(s) /\ SendTouchStateUpdate(s, count)
    BY <1>6 DEF ReadBanks
  <2>2. PICK s \in Decoded(first, second) : CacheBecomes(s) /\ SendTouchStateUpdate(s, count)
    BY <2>1
  <2>3. s \in CacheType
    BY <1>6, DecodedCases DEF ReadBanks
  <2>4. /\ count' = 0 /\ finger' = finger /\ count \in 0 .. 2
    BY <1>6 DEF ReadBanks, TypeOK
  <2> QED BY <2>2, <2>3, <2>4, SendType, BecomesType DEF TypeOK
<1>7. CASE PollThrows
  BY <1>7 DEF TypeOK, PollThrows, cacheVars
<1>8. CASE UNCHANGED vars
  BY <1>8 DEF TypeOK, vars, cacheVars
<1> QED BY <1>1, <1>2, <1>3, <1>4, <1>5, <1>6, <1>7, <1>8 DEF Next, UpdateTouchState

(* The cached flags, ids and positions, and the touches of every broadcast,*)
(* keep their types (updateTouchState, sendTouchStateUpdate).              *)
THEOREM TypeCorrect == Spec => []TypeOK
<1> QED BY TypeInit, TypeStep, PTL DEF Spec

(***************************************************************************)
(* The first finger                                                        *)
(***************************************************************************)
(* With finger 0 down and the counted fingers still there, the second read *)
(* leaves the cache with exactly their touches, whatever it held before.   *)
LEMMA FirstFingerRead ==
  ASSUME TypeOK, finger[0] # Null, count \in 1 .. Points(finger),
         NEW first \in Bank(0), NEW second \in Bank(1),
         NEW s \in Decoded(first, second)
  PROVE  /\ \A i \in Slots : s.has[i] <=> i < count
         /\ \A i \in Slots : i < count => s.ids[i] = i /\ s.pos[i] = finger[i]
<1>1. PICK one \in DecodeTouchPoint(Cache, 0, first) :
        /\ one \in CacheType /\ s \in CacheType
        /\ \/ count = 2 /\ s \in DecodeTouchPoint(one, 1, second)
           \/ count = 1 /\ s = ClearIfData(one, 1)
  BY DecodedCases
<1>2. /\ Points(finger) \in 0 .. 2
      /\ Points(finger) = 2 => finger[1] # Null
  BY DownCases DEF TypeOK
<1>3. first.id = 0 /\ first.pos = finger[0] /\ first \in BankType
  BY <1>2, BankCases DEF Slots
<1>4. one.has[0] /\ one.ids[0] = 0 /\ one.pos[0] = finger[0]
  <2>1. Cache \in CacheType /\ 0 \in Slots /\ first.id \in Slots
    BY <1>3, CacheTyped DEF Slots
  <2>2. /\ one.has = [Cache.has EXCEPT ![0] = TRUE]
        /\ one.ids = [Cache.ids EXCEPT ![first.id] = 0]
        /\ one.pos = [Cache.pos EXCEPT ![0] = first.pos]
    BY <1>3, <2>1, DecodeInside
  <2> QED BY <1>3, <2>1, <2>2 DEF CacheType, Slots
<1>5. CASE count = 1
  <2>1. s = ClearIfData(one, 1)
    BY <1>1, <1>5
  <2>2. /\ ClearTouchPoint(one, 1).has = [one.has EXCEPT ![1] = FALSE]
        /\ ClearTouchPoint(one, 1).ids = [one.ids EXCEPT ![1] = 255]
        /\ ClearTouchPoint(one, 1).pos = one.pos
    BY <1>1, <1>4, ClearSecond
  <2>3. s.has[0] /\ ~s.has[1] /\ s.ids[0] = 0 /\ s.pos[0] = finger[0]
    BY <1>1, <1>4, <2>1, <2>2 DEF ClearIfData, CacheType, Slots
  <2> QED BY <1>5, <2>3 DEF Slots
<1>6. CASE count = 2
  <2>1. s \in DecodeTouchPoint(one, 1, second)
    BY <1>1, <1>6
  <2>2. second.id = 1 /\ second.pos = finger[1] /\ second \in BankType
    BY <1>2, <1>6, BankCases DEF Slots
  <2>3. 1 \in Slots /\ second.id \in Slots
    BY <2>2 DEF Slots
  <2>4. /\ s.has = [one.has EXCEPT ![1] = TRUE]
        /\ s.ids = [one.ids EXCEPT ![second.id] = 1]
        /\ s.pos = [one.pos EXCEPT ![1] = second.pos]
    BY <1>1, <2>1, <2>2, <2>3, DecodeInside
  <2> QED BY <1>1, <1>4, <1>6, <2>2, <2>4 DEF CacheType, Slots
<1> QED BY <1>2, <1>5, <1>6

LEMMA TracksInit == Init => TracksFirstFinger
BY DEF Init, TracksFirstFinger, NoTouch, Slots

LEMMA TracksStep == TypeOK /\ TracksFirstFinger /\ [Next]_vars => TracksFirstFinger'
<1> SUFFICES ASSUME TypeOK, TracksFirstFinger, [Next]_vars PROVE TracksFirstFinger'
  OBVIOUS
<1>1. CASE UNCHANGED <<report, told>>
  BY <1>1 DEF TracksFirstFinger
<1>2. CASE ReadLifted /\ ~UNCHANGED <<report, told>>
  <2>1. told' = [points |-> 0, fingers |-> finger, written |-> written]
    <3>1. SendTouchStateUpdate(Lifted, 0)
      BY <1>2 DEF ReadLifted
    <3> QED BY <1>2, <3>1 DEF SendTouchStateUpdate
  <2>2. told'.points \notin 1 .. Points(told'.fingers)
    BY <2>1
  <2> QED BY <2>2 DEF TracksFirstFinger
<1>3. CASE ReadBanks /\ ~UNCHANGED <<report, told>>
  <2>1. PICK first \in Bank(0), second \in Bank(1) : \E s \in Decoded(first, second) :
          CacheBecomes(s) /\ SendTouchStateUpdate(s, count)
    BY <1>3 DEF ReadBanks
  <2>2. PICK s \in Decoded(first, second) : SendTouchStateUpdate(s, count)
    BY <2>1
  <2>3. /\ report' = [i \in Slots |-> IF Reported(s, i) THEN s.pos[s.ids[i]] ELSE Null]
        /\ told' = [points |-> count, fingers |-> finger, written |-> written]
    BY <1>3, <2>2 DEF SendTouchStateUpdate
  <2>4. ASSUME finger[0] # Null, count \in 1 .. Points(finger)
        PROVE  report' = FirstOf(count, finger)
    <3>1. /\ \A i \in Slots : s.has[i] <=> i < count
          /\ \A i \in Slots : i < count => s.ids[i] = i /\ s.pos[i] = finger[i]
      BY <2>4, FirstFingerRead
    <3>2. \A i \in Slots : (IF Reported(s, i) THEN s.pos[s.ids[i]] ELSE Null)
                           = (IF i < count THEN finger[i] ELSE Null)
      BY <3>1 DEF Reported, Slots
    <3> QED BY <2>3, <3>2 DEF FirstOf
  <2> QED BY <2>3, <2>4 DEF TracksFirstFinger
<1> QED BY <1>1, <1>2, <1>3 DEF Next, UpdateTouchState, FingerDown, FingerUp, FingerMove,
                                ReadStatus, PollThrows, vars

(* With finger 0 down at the second read, and no finger gone that the      *)
(* first one counted, the broadcast tells the counted touches as the       *)
(* controller holds them: for any cache the polls before left, and so for  *)
(* any garbage and any race of theirs.                                     *)
THEOREM TracksCorrect == Spec => []TracksFirstFinger
<1> QED BY TypeInit, TypeStep, TracksInit, TracksStep, PTL DEF Spec

(***************************************************************************)
(* No touch out of thin air                                                *)
(***************************************************************************)
(* The entry of touch 0, once written, marks it empty or names point 0: no *)
(* bank gives an id below its own number, so point 1 never gets there.     *)
EntrySound(s) == 0 \in s.written => s.ids[0] \in {0, 255}

TouchInv == TypeOK /\ EntrySound(Cache) /\ NoPhantomTouch

LEMMA ClearKeepsEntry ==
  ASSUME NEW s \in CacheType, NEW point \in Slots, EntrySound(s)
  PROVE  EntrySound(ClearIfData(s, point))
<1> DEFINE t == ClearTouchPoint(s, point)
<1>1. CASE s.ids[0] = point
  <2>1. t.ids = [s.ids EXCEPT ![0] = 255]
    BY <1>1, ClearFirst
  <2>2. t.ids[0] = 255
    BY <2>1 DEF CacheType, Slots
  <2> QED BY <2>2 DEF ClearIfData, EntrySound
<1>2. CASE s.ids[0] # point
  <2>1. t.ids = [s.ids EXCEPT ![1] = 255] /\ t.written = s.written \cup {1}
    BY <1>2, ClearSecond
  <2>2. t.ids[0] = s.ids[0] /\ (0 \in t.written => 0 \in s.written)
    BY <2>1 DEF CacheType, Slots
  <2> QED BY <2>2 DEF ClearIfData, EntrySound
<1> QED BY <1>1, <1>2

(* Bank 1 never gives id 0.                                                *)
IdFits(point, bank) == bank.id = 0 => point = 0

LEMMA DecodeKeepsEntry ==
  ASSUME NEW s \in CacheType, NEW point \in Slots, EntrySound(s), NEW bank \in BankType,
         IdFits(point, bank), NEW t \in DecodeTouchPoint(s, point, bank)
  PROVE  EntrySound(t)
<1>1. CASE bank.id \in Slots
  <2>1. PICK u \in Stored(s, point, bank.id) : t.ids = u.ids /\ t.written = u.written
    BY DEF DecodeTouchPoint
  <2>2. u.ids = [s.ids EXCEPT ![bank.id] = point] /\ u.written = s.written \cup {bank.id}
    BY <1>1, <2>1 DEF Stored
  <2> QED BY <1>1, <2>1, <2>2 DEF EntrySound, IdFits, CacheType, Slots
<1>2. CASE bank.id \notin Slots
  <2>1. t.ids = s.ids /\ t.written = s.written
    BY <1>2, DecodeStray
  <2> QED BY <2>1 DEF EntrySound
<1> QED BY <1>1, <1>2

(* Clearing both points leaves nothing to report if entry 0 is sound.      *)
LEMMA LiftClears ==
  ASSUME TypeOK, EntrySound(Cache), 0 \in written
  PROVE  \A i \in Slots : ~Reported(Lifted, i)
<1> DEFINE s == ClearIfData(Cache, 0)
<1>1. /\ Cache \in CacheType /\ Cache.ids[0] \in {0, 255} /\ 0 \in Slots /\ 1 \in Slots
  BY CacheTyped DEF EntrySound, Cache, Slots
<1>2. s \in CacheType
  BY <1>1, ClearType
<1>3. s.ids[0] \in {0, 255} /\ (s.has[0] => s.ids[0] = 255)
  <2>1. CASE ~Cache.has[0]
    BY <1>1, <2>1 DEF ClearIfData
  <2>2. CASE Cache.has[0] /\ Cache.ids[0] = 0
    <3>1. s = ClearTouchPoint(Cache, 0)
      BY <2>2 DEF ClearIfData
    <3>2. ClearTouchPoint(Cache, 0).ids = [Cache.ids EXCEPT ![0] = 255]
      BY <1>1, <2>2, ClearFirst
    <3> QED BY <1>1, <3>1, <3>2 DEF CacheType, Slots
  <2>3. CASE Cache.has[0] /\ Cache.ids[0] = 255
    <3>1. s = ClearTouchPoint(Cache, 0)
      BY <2>3 DEF ClearIfData
    <3>2. Cache.ids[0] # 0 /\ Cache \in CacheType
      BY <1>1, <2>3
    <3>3. ClearTouchPoint(Cache, 0).ids = [Cache.ids EXCEPT ![1] = 255]
      BY <3>2, ClearSecond, ZenonT(30)
    <3> QED BY <1>1, <2>3, <3>1, <3>3 DEF CacheType, Slots
  <2> QED BY <1>1, <2>1, <2>2, <2>3
<1>4. Lifted = ClearIfData(s, 1)
  BY DEF Lifted
<1> HIDE DEF s
<1>5. s.ids[0] # 1
  BY <1>3
<1>6. /\ ClearTouchPoint(s, 1).has = [s.has EXCEPT ![1] = FALSE]
      /\ ClearTouchPoint(s, 1).ids = [s.ids EXCEPT ![1] = 255]
  BY <1>2, <1>5, ClearSecond
<1>7. ~Lifted.has[1] /\ (Lifted.has[0] => Lifted.ids[0] = 255)
  BY <1>1, <1>2, <1>3, <1>4, <1>6 DEF ClearIfData, CacheType, Slots
<1> QED BY <1>7 DEF Reported, Slots

LEMMA TouchInvInit == Init => TouchInv
<1> SUFFICES ASSUME Init PROVE EntrySound(Cache) /\ NoPhantomTouch
  BY TypeInit DEF TouchInv
<1> QED BY DEF Init, EntrySound, Cache, NoPhantomTouch

LEMMA EntryBecomes ==
  ASSUME NEW s, CacheBecomes(s), EntrySound(s)
  PROVE  EntrySound(Cache)'
BY DEF CacheBecomes, EntrySound, Cache

LEMMA TouchInvStep == TouchInv /\ [Next]_vars => TouchInv'
<1> SUFFICES ASSUME TypeOK, EntrySound(Cache), NoPhantomTouch, [Next]_vars
             PROVE  EntrySound(Cache)' /\ NoPhantomTouch'
  BY TypeStep DEF TouchInv
<1>1. CASE UNCHANGED <<cacheVars, report, told>>
  BY <1>1 DEF EntrySound, Cache, NoPhantomTouch, cacheVars
<1>2. CASE ReadLifted
  <2>1. EntrySound(Cache)'
    <3>1. /\ Cache \in CacheType /\ ClearIfData(Cache, 0) \in CacheType
          /\ 0 \in Slots /\ 1 \in Slots
      BY CacheTyped, ClearType DEF Slots
    <3>2. EntrySound(Lifted)
      BY <3>1, ClearKeepsEntry DEF Lifted
    <3> QED BY <1>2, <3>2, EntryBecomes DEF ReadLifted
  <2>2. CASE UNCHANGED <<report, told>>
    BY <2>1, <2>2 DEF NoPhantomTouch
  <2>3. CASE /\ report' = [i \in Slots |-> IF Reported(Lifted, i)
                                          THEN Lifted.pos[Lifted.ids[i]] ELSE Null]
             /\ told' = [points |-> 0, fingers |-> finger, written |-> written]
    <3>1. 0 \in written => report' = NoTouch
      BY <2>3, LiftClears DEF NoTouch
    <3> QED BY <2>1, <2>3, <3>1 DEF NoPhantomTouch, NoTouch
  <2> QED BY <1>2, <2>2, <2>3 DEF ReadLifted, SendTouchStateUpdate
<1>3. CASE ReadBanks
  <2>1. PICK first \in Bank(0), second \in Bank(1) : \E s \in Decoded(first, second) :
          CacheBecomes(s) /\ SendTouchStateUpdate(s, count)
    BY <1>3 DEF ReadBanks
  <2>2. PICK s \in Decoded(first, second) : CacheBecomes(s) /\ SendTouchStateUpdate(s, count)
    BY <2>1
  <2>3. PICK one \in DecodeTouchPoint(Cache, 0, first) :
          /\ one \in CacheType /\ s \in CacheType
          /\ \/ count = 2 /\ s \in DecodeTouchPoint(one, 1, second)
             \/ count = 1 /\ s = ClearIfData(one, 1)
    BY <1>3, DecodedCases DEF ReadBanks
  <2>4. /\ first \in BankType /\ second \in BankType
        /\ second.id # 0
        /\ 0 \in Slots /\ 1 \in Slots
    BY BankCases DEF Slots
  <2>5. IdFits(0, first) /\ IdFits(1, second) /\ Cache \in CacheType
    BY <2>4, CacheTyped DEF IdFits
  <2>6. EntrySound(one)
    BY <2>4, <2>5, DecodeKeepsEntry
  <2>7. EntrySound(s)
    BY <2>3, <2>4, <2>5, <2>6, DecodeKeepsEntry, ClearKeepsEntry
  <2>8. EntrySound(Cache)'
    BY <2>2, <2>7, EntryBecomes
  <2>9. \/ UNCHANGED <<report, told>>
        \/ told' = [points |-> count, fingers |-> finger, written |-> written]
    BY <2>2 DEF SendTouchStateUpdate
  <2>10. UNCHANGED <<report, told>> \/ told'.points # 0
    BY <1>3, <2>9 DEF ReadBanks
  <2> QED BY <2>8, <2>10 DEF NoPhantomTouch
<1> QED BY <1>1, <1>2, <1>3 DEF Next, UpdateTouchState, FingerDown, FingerUp, FingerMove,
                                ReadStatus, PollThrows, vars, cacheVars

(* No poll of an untouched panel reports a touch once the entry of touch 0 *)
(* has been written, for any garbage before that and for any race between  *)
(* the two reads of the polls since.                                       *)
THEOREM PhantomFree == Spec => []NoPhantomTouch
<1>1. TouchInv => NoPhantomTouch
  BY DEF TouchInv
<1> QED BY TouchInvInit, TouchInvStep, <1>1, PTL DEF Spec
=============================================================================
