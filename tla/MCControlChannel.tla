-------------------------- MODULE MCControlChannel --------------------------
(* The lengths around that of the buffer: a short line, one that fits      *)
(* exactly, one that is a byte too long and one whose end is executed. TCP *)
(* clients among themselves, and a client beside controllers on the UART.  *)
EXTENDS ControlChannel

CONSTANTS c1, c2

MCClients == {c1, c2}

Text(first, second, serial) ==
  [s \in {c1, c2, Serial1} |-> CASE s = c1 -> first [] s = c2 -> second [] OTHER -> serial]

MCTexts ==
  {Text(lines, <<k>>, <<>>) : lines \in {<<2, 3>>, <<3, 2>>}, k \in {2, 3}}
  \cup {Text(<<2>>, <<>>, <<i, j>>) : i \in {2, 3}, j \in {1, 2}}
  \cup {Text(<<5, 1>>, <<1>>, <<>>)}
=============================================================================
