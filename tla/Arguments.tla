------------------------------ MODULE Arguments ------------------------------
(***************************************************************************)
(* The number parsers of the two implementations of the protocol:          *)
(* parseSigned() of UPS_Simulator_Ethernet.ino, which reads a token from   *)
(* left to right and gives up at the first digit too many, and             *)
(* _parse_signed() of firmware_sim.py, which lets int() read all of it.    *)
(*                                                                         *)
(* A token is a sequence of characters: the digits are themselves, Minus   *)
(* and Letter stand for '-' and for any other character of ASCII, which is *)
(* all the driver and the firmware exchange.                               *)
(***************************************************************************)
EXTENDS Integers, Sequences

Minus  == 10
Letter == 11
Digits == 0 .. 9

Limit == 99999

NotANumber == [ok |-> FALSE, value |-> 0]
Number(v)  == [ok |-> TRUE, value |-> v]

Negative(t) == t # <<>> /\ Head(t) = Minus
Magnitude(t) == IF Negative(t) THEN Tail(t) ELSE t

Within(v, minimum, maximum) == IF minimum <= v /\ v <= maximum THEN Number(v) ELSE NotANumber

(* one turn of the loop in parseSigned() *)
ReadDigit(parsed, c) ==
  IF parsed.ok /\ c \in Digits /\ parsed.value * 10 + c <= Limit
  THEN Number(parsed.value * 10 + c) ELSE NotANumber

(* the loop: what is read after the first n characters *)
Parsed(t) ==
  LET parsed[n \in 0 .. Len(t)] ==
        IF n = 0 THEN Number(0) ELSE ReadDigit(parsed[n - 1], t[n])
  IN parsed[Len(t)]

(* Slip: nothing need follow the sign. *)
ParseSignedBareSign(t, minimum, maximum) ==
  LET parsed == Parsed(Magnitude(t))
      value  == IF Negative(t) THEN -parsed.value ELSE parsed.value
  IN IF t # <<>> /\ parsed.ok THEN Within(value, minimum, maximum) ELSE NotANumber

ParseSigned(t, minimum, maximum) ==
  LET parsed == Parsed(Magnitude(t))
      value  == IF Negative(t) THEN -parsed.value ELSE parsed.value
  IN IF Magnitude(t) # <<>> /\ parsed.ok THEN Within(value, minimum, maximum) ELSE NotANumber

(* int(), of a token that isdigit(), however long: its value in decimal *)
PythonInt(digits) ==
  LET value[n \in 0 .. Len(digits)] == IF n = 0 THEN 0 ELSE value[n - 1] * 10 + digits[n]
  IN value[Len(digits)]

PythonParseSigned(t, minimum, maximum) ==
  LET digits == Magnitude(t)
      parsed == PythonInt(digits)
  IN IF digits # <<>> /\ (\A i \in DOMAIN digits : digits[i] \in Digits) /\ parsed <= Limit
     THEN Within(IF Negative(t) THEN -parsed ELSE parsed, minimum, maximum)
     ELSE NotANumber

-----------------------------------------------------------------------------
(* A controller sends the token character by character: long enough to     *)
(* pass the limit, with leading zeros and with signs and letters anywhere. *)
CONSTANT MaxLength

VARIABLE token

Characters == {0, 1, 9, Minus, Letter}

SendCharacter == Len(token) < MaxLength /\ \E c \in Characters : token' = Append(token, c)

SendEnd == token # <<>> /\ token' = <<>>

(* the ranges the commands ask for *)
Ranges == {<<0, 100>>, <<0, 3600>>, <<0, 65535>>, <<-1, 32767>>}

ArgumentsSpec == token = <<>> /\ [][SendCharacter \/ SendEnd]_token

(* Firmware and simulator take the same tokens for the same numbers and    *)
(* refuse the same ones.                                                   *)
ParsersAgree ==
  \A r \in Ranges : ParseSigned(token, r[1], r[2]) = PythonParseSigned(token, r[1], r[2])
=============================================================================
