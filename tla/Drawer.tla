-------------------------------- MODULE Drawer --------------------------------
(***************************************************************************)
(* The splash's screen, splash/Drawer.cpp: values set by requests, a flag  *)
(* for each part of the screen they change, and draw(), which paints the   *)
(* parts that are flagged.  BootSplash composes it with the loop.          *)
(*                                                                         *)
(* The progress bar is a row of columns; a text is a number, 0 the one the *)
(* drawer starts with.  The banner and the version, set once before the    *)
(* first drawing, never change.                                            *)
(***************************************************************************)
EXTENDS Integers

CONSTANT Columns   (* kProgressBarWidth                                    *)

ASSUME DrawerAssumption == Columns \in Nat \ {0}

VARIABLES
  progress,         (* in columns; below 0 and beyond the end are legal    *)
  progressString,
  dirty,            (* the parts whose flag is set                         *)
  bar, text         (* what the screen shows                               *)

drawerVars == <<progress, progressString, dirty, bar, text>>

Parts == {"banner", "progress", "string", "version"}

DrawerInit ==
  /\ progress = 0 /\ progressString = 0
  /\ dirty = Parts
  /\ bar = [x \in 1 .. Columns |-> "console"] /\ text = -1

IsDirty == dirty # {}

(* setProgress() and setProgressString(), for the values given.            *)
SetValues(p, s, parts) ==
  /\ progress' = p /\ progressString' = s
  /\ dirty' = dirty \cup parts

Clamped(p) == IF p < 0 THEN 0 ELSE IF p > Columns THEN Columns ELSE p

(* The filled part, if there is progress, and then the rest.               *)
DrawProgressBar(old) ==
  [x \in 1 .. Columns |-> CASE x > Clamped(progress)                 -> "empty"
                            [] progress > 0 /\ x <= Clamped(progress) -> "filled"
                            [] OTHER                                  -> old[x]]

(* Its background is painted first: nothing of the old text stays.         *)
DrawProgressString == progressString

(* Mutant of Draw: at most one part at a time, and every flag is cleared.  *)
DrawOnePart ==
  /\ bar' = IF "progress" \in dirty THEN DrawProgressBar(bar) ELSE bar
  /\ text' = IF "string" \in dirty /\ "progress" \notin dirty
             THEN DrawProgressString ELSE text
  /\ dirty' = dirty \cap {"banner"}
  /\ UNCHANGED <<progress, progressString>>

(* draw(): the flag of the banner is set where the others are cleared.     *)
Draw ==
  /\ bar' = IF "progress" \in dirty THEN DrawProgressBar(bar) ELSE bar
  /\ text' = IF "string" \in dirty THEN DrawProgressString ELSE text
  /\ dirty' = dirty \cap {"banner"}
  /\ UNCHANGED <<progress, progressString>>

(* The screen shows what the drawer was last told.                         *)
UpToDate ==
  /\ bar = [x \in 1 .. Columns |-> IF x <= progress THEN "filled" ELSE "empty"]
  /\ text = progressString

=============================================================================
