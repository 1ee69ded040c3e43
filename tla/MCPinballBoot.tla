---------------------------- MODULE MCPinballBoot ----------------------------
(* Boards that differ in the order of the PROM's keys, of its drivers and  *)
(* in their serial numbers.                                                *)
EXTENDS PinballBoot

(* Two buttons and the two other pins, three channels, two indicators.     *)
CONSTANTS status, menu

SomePins == {0, 1, 7, 8}
TwoIndicators == {status, menu}
ThreeChans == 0 .. 2

Bright(n)  == [kind |-> "brightness", level |-> n]
Rgb(comps) == [kind |-> "color", comps |-> comps]
Set(i, v)  == [j \in {i} |-> v]
Both(v, w) == [i \in TwoIndicators |-> IF i = status THEN v ELSE w]
MCRequests == {Set(status, Bright(1)), Set(menu, Rgb(<<1>>)), Set(status, Rgb(<<0, 1, 1>>)),
               Set(status, Rgb(<<1>>)), Set(menu, Bright(0)),
               Both(Bright(1), Invalid), Both(Rgb(<<1, 0>>), Bright(1))}

Board(keys, drivers, map, serial) ==
  [at |-> 80, keys |-> keys, drivers |-> drivers, map |-> map, serial |-> serial, text |-> <<0>>]

On(i, indices) == [key |-> i, indices |-> indices]
LedMap(k) == <<On(status, <<0, 1>>), On(menu, <<k>>)>>

Boards ==
  {Board(<<"revision", "serialPointer", "drivers">>, <<"touch", "lcd", "led">>, LedMap(2),
         <<200, 7, 129, 255>>),
   Board(<<"drivers", "other", "serialPointer", "revision">>, <<"lcd", "led", "touch">>,
         <<On(status, <<2>>), On(status, <<0>>), On(menu, << >>)>>, <<1, 128, 63>>),
   Board(<<"serialString", "drivers">>, <<"lcd", "led">>, LedMap(1), << >>),
   Board(<<"serialPointer", "serialString", "drivers">>, <<"led", "lcd">>, LedMap(2), <<5>>),
   Board(<<"serialString", "serialPointer">>, << >>, << >>, <<5>>),
   Board(<<"revision">>, << >>, << >>, << >>)}

BusAddresses == {80}

(* A board with every driver, and one whose PROM is not in order.           *)
SmallBoards ==
  {Board(<<"drivers">>, <<"lcd", "led", "touch">>, LedMap(2), << >>),
   Board(<<"serialString", "serialPointer">>, << >>, << >>, <<5>>)}
BadRequest == {Set(status, Invalid)}
NoRegs == << >>
OneCut == {1}

(* Two pages with a register of the same number, and one without a page.   *)
PanelData == <<<<Page, 1>>, <<<<177, 0>>, 13>>, <<<<181, 0>>, 8>>, <<<<181, 0>>, 9>>,
               <<Page, 0>>, <<<<177, 0>>, 204>>, <<<<58, 0>>, 119>>>>
SomeCuts == {20, 36, Len(DisplayWords) - 1}
=============================================================================
