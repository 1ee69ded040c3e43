------------------------------- MODULE Pca9955 -------------------------------
(***************************************************************************)
(* The LED controller's driver, drivers/led/Pca9955, with the LED manager  *)
(* that hands it requests: which output channels an indicator has, and     *)
(* what a brightness or a colour does to them.  A PWM value is one of a    *)
(* few levels.                                                             *)
(***************************************************************************)
EXTENDS Naturals, Sequences

CONSTANTS
  Indicators,   (* LedManager::Indicator                                   *)
  Chans,        (* output channels of the chip                             *)
  MaxLevel      (* bound: the brightest level                              *)

ASSUME LedAssumption == MaxLevel \in Nat

VARIABLES
  channels,     (* indicator -> its channels, for those the PROM maps      *)
  pwm           (* the chip: channel -> level; outlives the process        *)

Levels == 0 .. MaxLevel
Dark == [ch \in Chans |-> 0]
NoLeds == [i \in {} |-> << >>]

(* A LED map as in the ID PROM: entries of an indicator and its channels,  *)
(* one number being an array of one, null being no entry.                  *)
Entry == [key : Indicators, indices : Seq(Chans)]

(* Mutant of LedMapOK: channels are only marked by entries of one number.  *)
MarksSingles(map) ==
  /\ \A i \in DOMAIN map : Len(map[i].indices) <= 3
  /\ \A i, j \in DOMAIN map :
       i # j /\ Len(map[i].indices) = 1 /\ Len(map[j].indices) = 1
         => map[i].indices # map[j].indices

(* readLedMap() throws on more than three channels and on one that is      *)
(* allocated already, in whatever entry.                                   *)
LedMapOK(map) ==
  /\ \A i \in DOMAIN map : Len(map[i].indices) <= 3
  /\ \A i, j \in DOMAIN map :
       \A k \in DOMAIN map[i].indices, l \in DOMAIN map[j].indices :
         map[i].indices[k] = map[j].indices[l] => i = j /\ k = l

(* Of two entries for an indicator emplace() keeps the first.              *)
FirstEntry(map, i) ==
  CHOOSE n \in DOMAIN map : map[n].key = i /\ \A j \in 1 .. n - 1 : map[j].key # i
ReadLedMap(map) ==
  [i \in {map[n].key : n \in DOMAIN map} |-> map[FirstEntry(map, i)].indices]

(***************************************************************************)
(* What a client can ask of an indicator: a brightness for all of its      *)
(* channels; a colour of one to three components; something else.          *)
(***************************************************************************)
Brightness == [kind : {"brightness"}, level : Levels]
Color      == [kind : {"color"}, comps : UNION {[1 .. n -> Levels] : n \in 1 .. 3}]
Invalid    == [kind |-> "invalid"]
Off        == [kind |-> "brightness", level |-> 0]

(* The level a value gives to an indicator's k-th channel: components not  *)
(* given are 0, those beyond its channels are ignored.                     *)
Component(value, k) ==
  IF value.kind = "brightness" THEN value.level
  ELSE IF k <= Len(value.comps) THEN value.comps[k] ELSE 0

(* A value of no known form throws; so does a colour for an indicator with *)
(* an empty array of channels.                                             *)
Throws(value, i) ==
  \/ value = Invalid
  \/ value.kind = "color" /\ i \in DOMAIN channels /\ channels[i] = << >>

(* The chip after the values of req, a function on indicators, were set.   *)
(* An indicator nobody has channels for is skipped, with a warning.        *)
Drives(i, ch) == i \in DOMAIN channels /\ \E k \in DOMAIN channels[i] : channels[i][k] = ch
Applied(req) ==
  [ch \in Chans |->
     IF \E i \in DOMAIN req : Drives(i, ch)
     THEN LET i == CHOOSE j \in DOMAIN req : Drives(j, ch)
              k == CHOOSE n \in DOMAIN channels[i] : channels[i][n] = ch
          IN  Component(req[i], k)
     ELSE pwm[ch]]

LedTypeOK ==
  /\ \A i \in DOMAIN channels : i \in Indicators /\ channels[i] \in Seq(Chans)
  /\ pwm \in [Chans -> Levels]

==============================================================================
