--------------------------- MODULE ControlChannel ---------------------------
(***************************************************************************)
(* The control channel of UPS_Simulator_Ethernet.ino: loop() accepting TCP *)
(* clients, the newest replacing the one before, and pollStream() cutting  *)
(* the bytes of the current client, and then those of the UART, into lines *)
(* for handleCommand().                                                    *)
(*                                                                         *)
(* A byte is known by its source, its line and its place in the line; the  *)
(* place EOL is the line feed (a carriage return is skipped and left out). *)
(* Clients send byte by byte and may stop in the middle of a line, close   *)
(* their side (what they sent stays readable) or be cut off (it is lost).  *)
(* The UART has no connections: another controller may be plugged in after *)
(* any byte.  Its receive buffer is taken to be large enough.              *)
(*                                                                         *)
(* The Ethernet library listens on one socket at a time and opens the next *)
(* one when accept() has handed a client out, so at most one is waiting.   *)
(***************************************************************************)
EXTENDS Integers, Sequences

CONSTANTS
  Clients,     \* the TCP connections
  None,        \* no client
  Serial1,     \* the UART
  Capacity,    \* sizeof(netLine), sizeof(uartLine)
  Texts        \* what the sources send: of each, the lengths of its lines

Sources == Clients \cup {Serial1}

ASSUME ChannelAssumption ==
  /\ None \notin Sources /\ Serial1 \notin Clients /\ Capacity \in Nat \ {0}
  /\ \A t \in Texts : t \in [Sources -> Seq(Nat)]

EOL == 0
Byte == [from : Sources, line : Nat, place : Nat]

VARIABLES
  text,        \* the one of Texts they send
  peer,        \* the client's end of the connection
  at,          \* the next byte a source will send
  stream,      \* its bytes the firmware has not read
  waiting,     \* the connection accept() will return
  current,     \* controlClient
  netLine,     \* netLine[0 .. netLineLength)
  uartLine,    \* uartLine[0 .. uartLineLength)
  pc,          \* "accept", "poll" or "pollUart"
  handled,     \* auxiliary: the last line given to handleCommand(), and whose it was
  done,        \* auxiliary: the lines of each source that were
  replaced,    \* auxiliary: the clients a newer one replaced
  abandoned    \* auxiliary: the lines a controller on the UART left unfinished

senderVars == <<text, peer, at, abandoned>>
channelVars == <<waiting, current, replaced>>
vars == <<senderVars, stream, channelVars, netLine, uartLine, pc, handled, done>>

-----------------------------------------------------------------------------
(* The controllers.                                                        *)

Untouched == UNCHANGED <<text, current, netLine, uartLine, pc, handled, done, replaced>>

Connect(c) ==
  /\ peer[c] = "idle" /\ waiting = None
  /\ peer' = [peer EXCEPT ![c] = "open"] /\ waiting' = c
  /\ Untouched /\ UNCHANGED <<at, stream, abandoned>>

NextLine(s) == at' = [at EXCEPT ![s] = [line |-> at[s].line + 1, place |-> 1]]

SendByte(s) ==
  /\ s \in Clients => peer[s] = "open"
  /\ at[s].line \in DOMAIN text[s]
  /\ LET here == at[s]
         over == here.place > text[s][here.line]
         byte == [from |-> s, line |-> here.line, place |-> IF over THEN EOL ELSE here.place]
     IN /\ stream' = [stream EXCEPT ![s] = Append(@, byte)]
        /\ IF over THEN NextLine(s)
           ELSE at' = [at EXCEPT ![s] = [line |-> here.line, place |-> here.place + 1]]
  /\ Untouched /\ UNCHANGED <<peer, waiting, abandoned>>

Close(c) ==
  /\ peer[c] = "open" /\ peer' = [peer EXCEPT ![c] = "closed"]
  /\ Untouched /\ UNCHANGED <<at, stream, waiting, abandoned>>

CutOff(c) ==
  /\ peer[c] \in {"open", "closed"} /\ peer' = [peer EXCEPT ![c] = "cut"]
  /\ stream' = [stream EXCEPT ![c] = <<>>]
  /\ waiting' = IF waiting = c THEN None ELSE waiting
  /\ Untouched /\ UNCHANGED <<at, abandoned>>

(* Another controller on the UART begins with a line of its own. *)
Replug ==
  /\ at[Serial1].place > 1 /\ NextLine(Serial1)
  /\ abandoned' = abandoned \cup {at[Serial1].line}
  /\ Untouched /\ UNCHANGED <<peer, stream, waiting>>

-----------------------------------------------------------------------------
(* loop()                                                                  *)

(* Slip: a client that has closed its side counts as gone at once. *)
ConnectedWhileOpen(c) == peer[c] = "open"

(* EthernetClient::connected(): a closed client stays connected until its  *)
(* last byte is read.                                                      *)
Connected(c) == peer[c] = "open" \/ (peer[c] = "closed" /\ stream[c] # <<>>)

(* Slip: the half line of the old client is left in the buffer. *)
TakeOverKeepsLine ==
  /\ current' = waiting /\ waiting' = None
  /\ IF current = None THEN UNCHANGED <<stream, replaced>>
     ELSE stream' = [stream EXCEPT ![current] = <<>>] /\ replaced' = replaced \cup {current}
  /\ UNCHANGED netLine

TakeOver ==
  /\ current' = waiting /\ waiting' = None
  /\ IF current = None THEN UNCHANGED <<stream, replaced>>
     ELSE stream' = [stream EXCEPT ![current] = <<>>] /\ replaced' = replaced \cup {current}
  /\ netLine' = <<>>

(* stop() of a client that is gone; its half line stays in the buffer. *)
Stop == current' = None /\ UNCHANGED <<stream, waiting, netLine, replaced>>

AcceptClient ==
  /\ pc = "accept" /\ pc' = "poll"
  /\ \/ waiting # None /\ TakeOver
     \/ waiting = None /\ current # None /\ ~Connected(current) /\ Stop
     \/ /\ waiting = None /\ (current # None => Connected(current))
        /\ UNCHANGED <<stream, waiting, current, netLine, replaced>>
  /\ UNCHANGED <<senderVars, uartLine, handled, done>>

(* Slip: no room is kept for the terminating zero. *)
RoomForAll(length) == length < Capacity

Room(length) == length + 1 < Capacity

(* One turn of pollStream(): a byte of source s into the buffer line. *)
Take(s, line) ==
  LET c == Head(stream[s]) IN
  /\ stream' = [stream EXCEPT ![s] = Tail(@)]
  /\ \/ /\ c.place = EOL
        /\ handled' = [from |-> s, line |-> c.line, text |-> line]
        /\ done' = [done EXCEPT ![s] = @ \cup {c.line}]
     \/ c.place # EOL /\ UNCHANGED <<handled, done>>

Buffered(c, line) ==
  IF c.place # EOL /\ Room(Len(line)) THEN Append(line, c) ELSE <<>>

(* pollStream() reads on while there is anything to read. *)
ReadByte ==
  /\ pc = "poll" /\ current # None /\ stream[current] # <<>>
  /\ Take(current, netLine) /\ netLine' = Buffered(Head(stream[current]), netLine)
  /\ UNCHANGED <<senderVars, channelVars, uartLine, pc>>

(* Slip: what the client has left in its buffer goes before the line. *)
ReadSerialByteShared ==
  /\ pc = "pollUart" /\ stream[Serial1] # <<>>
  /\ Take(Serial1, netLine) /\ netLine' = Buffered(Head(stream[Serial1]), netLine)
  /\ UNCHANGED <<senderVars, channelVars, uartLine, pc>>

ReadSerialByte ==
  /\ pc = "pollUart" /\ stream[Serial1] # <<>>
  /\ Take(Serial1, uartLine) /\ uartLine' = Buffered(Head(stream[Serial1]), uartLine)
  /\ UNCHANGED <<senderVars, channelVars, netLine, pc>>

EndPoll ==
  /\ \/ pc = "poll" /\ (current # None => stream[current] = <<>>) /\ pc' = "pollUart"
     \/ pc = "pollUart" /\ stream[Serial1] = <<>> /\ pc' = "accept"
  /\ UNCHANGED <<senderVars, stream, channelVars, netLine, uartLine, handled, done>>

Init ==
  /\ text \in Texts
  /\ peer = [c \in Clients |-> "idle"]
  /\ at = [s \in Sources |-> [line |-> 1, place |-> 1]]
  /\ stream = [s \in Sources |-> <<>>]
  /\ waiting = None /\ current = None /\ netLine = <<>> /\ uartLine = <<>> /\ pc = "accept"
  /\ handled = [from |-> Serial1, line |-> 1, text |-> <<>>]
  /\ done = [s \in Sources |-> {}] /\ replaced = {} /\ abandoned = {}

LoopStep == AcceptClient \/ ReadByte \/ ReadSerialByte \/ EndPoll

Next ==
  \/ \E c \in Clients : Connect(c) \/ Close(c) \/ CutOff(c)
  \/ \E s \in Sources : SendByte(s)
  \/ Replug
  \/ LoopStep

Spec == Init /\ [][Next]_vars

(* loop() keeps running; a controller may stop at any byte. *)
FairSpec == Spec /\ WF_vars(LoopStep)

-----------------------------------------------------------------------------
(* pollStream() writes the terminating zero at buffer[length], so the line *)
(* has to be shorter than the buffer.                                      *)
TypeOK ==
  /\ text \in Texts
  /\ peer \in [Clients -> {"idle", "open", "closed", "cut"}]
  /\ at \in [Sources -> [line : Nat, place : Nat]]
  /\ stream \in [Sources -> Seq(Byte)]
  /\ waiting \in Clients \cup {None} /\ current \in Clients \cup {None}
  /\ netLine \in Seq(Byte) /\ Len(netLine) < Capacity
  /\ uartLine \in Seq(Byte) /\ Len(uartLine) < Capacity
  /\ pc \in {"accept", "poll", "pollUart"}
  /\ handled \in [from : Sources, line : Nat, text : Seq(Byte)]
  /\ done \in [Sources -> SUBSET Nat] /\ replaced \subseteq Clients
  /\ abandoned \subseteq DOMAIN text[Serial1]

(* The end of the line its line feed ends, and all of it unless it was     *)
(* longer than the buffer.                                                 *)
Whole(h) ==
  LET length == text[h.from][h.line]  size == Len(h.text) IN
  h.text # <<>> =>
    /\ length <= Capacity => size = length
    /\ \A i \in 1 .. size :
         h.text[i] = [from |-> h.from, line |-> h.line, place |-> length - size + i]

(* Every line handleCommand() gets is a whole line of one controller: no   *)
(* half line is executed or glued to another's, by a client that stops in  *)
(* the middle of a line or is taken over from, or between the two ports.   *)
(* On the UART, which nobody hangs up, a half line spoils the next line    *)
(* and no more.  (docs/CONTROL_PROTOCOL.md, "Framing": one command per     *)
(* line.)  A line a byte too long is dropped; of a longer one the end is   *)
(* filled into the buffer again and executed as a line.                    *)
LinesAreWhole ==
  Whole(handled) \/ (handled.from = Serial1 /\ handled.line - 1 \in abandoned)

(* The lines sent to their end that have been neither handled nor lost: a  *)
(* newer client or a cut connection may lose them, and nothing else.       *)
Owed ==
  {sent \in UNION {{s} \X DOMAIN text[s] : s \in Sources} :
     LET s == sent[1] n == sent[2] IN
     /\ at[s].line > n /\ n \notin done[s]
     /\ s \in Clients => peer[s] # "cut" /\ s \notin replaced
     /\ s = Serial1 => n \notin abandoned}

(* A line that was sent to its end is handled, also when its client closes *)
(* right behind it or the other port is busy.  (Senders have only so many  *)
(* lines, so that an Owed that is empty again and again owes each in turn.)*)
SentLinesAreHandled == []<>(Owed = {})
=============================================================================
