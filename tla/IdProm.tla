------------------------------- MODULE IdProm -------------------------------
(***************************************************************************)
(* The Base32 coder of Utils/Base32.h, which turns the bytes of a serial   *)
(* number into text.  A character is its place in the alphabet.            *)
(*                                                                         *)
(* Both loops keep bits in a 32 bit buffer whose upper part they never     *)
(* look at again; here those bits are dropped at once.                     *)
(***************************************************************************)
EXTENDS Integers, Sequences

Byte == 0 .. 255
Char == 0 .. 31

(* 1 << n                                                                  *)
Shift(n) == <<1, 2, 4, 8, 16, 32, 64, 128>>[n + 1]

(* The writing of one character, from a buffer that has rest bits more.    *)
Wrote(s, buffer, rest, next) ==
  [buffer |-> buffer % Shift(rest), bits |-> rest, next |-> next,
   out |-> Append(s.out, buffer \div Shift(rest))]

(* One turn of Encode()'s loop: with less than five bits left it takes the *)
(* next byte, or pads; then it writes one character.                       *)
WriteChar(bytes, s) ==
  CASE s.bits >= 5 -> Wrote(s, s.buffer, s.bits - 5, s.next)
    [] s.bits < 5 /\ s.next <= Len(bytes) ->
         Wrote(s, s.buffer * 256 + bytes[s.next], s.bits + 3, s.next + 1)
    [] s.bits < 5 /\ s.next > Len(bytes) ->
         Wrote(s, s.buffer * Shift(5 - s.bits), 0, s.next)

(* Encode() into a buffer with room for that many characters.              *)
EncodeTurn(bytes, s) ==
  IF s.bits > 0 \/ s.next <= Len(bytes) THEN WriteChar(bytes, s) ELSE s

Encode(bytes, room) ==
  LET after[n \in 0 .. room] ==
        IF n = 0 THEN [buffer |-> 0, bits |-> 0, next |-> 1, out |-> << >>]
                 ELSE EncodeTurn(bytes, after[n - 1])
  IN  after[room].out

(* One turn of Decode()'s loop, for a character of the alphabet.           *)
ReadChar(s, ch) ==
  LET buffer == s.buffer * 32 + ch
      rest   == s.bits - 3
  IN  IF s.bits < 3 THEN [buffer |-> buffer, bits |-> s.bits + 5, out |-> s.out]
                    ELSE [buffer |-> buffer % Shift(rest), bits |-> rest,
                          out |-> Append(s.out, buffer \div Shift(rest))]

Decode(chars) ==
  LET after[n \in 0 .. Len(chars)] ==
        IF n = 0 THEN [buffer |-> 0, bits |-> 0, out |-> << >>]
                 ELSE ReadChar(after[n - 1], chars[n])
  IN  after[Len(chars)].out

=============================================================================
