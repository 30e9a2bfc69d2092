------------------------ MODULE ControlChannelProofs ------------------------
(***************************************************************************)
(* Theorems about module ControlChannel, for any clients, any lines of any *)
(* length and a buffer of any capacity.                                    *)
(***************************************************************************)
EXTENDS ControlChannel, SequenceTheorems, TLAPS

-----------------------------------------------------------------------------
(* Type correctness.                                                       *)

SenderType ==
  /\ text \in Texts
  /\ peer \in [Clients -> {"idle", "open", "closed", "cut"}]
  /\ at \in [Sources -> [line : Nat, place : Nat]]
  /\ abandoned \subseteq DOMAIN text[Serial1]
StreamType == stream \in [Sources -> Seq(Byte)]
ConnectionType ==
  /\ waiting \in Clients \cup {None} /\ current \in Clients \cup {None}
  /\ replaced \subseteq Clients
LineType(line) == line \in Seq(Byte) /\ Len(line) < Capacity
HandlingType ==
  /\ pc \in {"accept", "poll", "pollUart"}
  /\ handled \in [from : Sources, line : Nat, text : Seq(Byte)]
  /\ done \in [Sources -> SUBSET Nat]

LEMMA TypeParts ==
  TypeOK <=> /\ SenderType /\ StreamType /\ ConnectionType
             /\ LineType(netLine) /\ LineType(uartLine) /\ HandlingType
BY DEF TypeOK, SenderType, StreamType, ConnectionType, LineType, HandlingType

LEMMA TypePartsNext ==
  /\ SenderType' /\ StreamType' /\ ConnectionType'
  /\ LineType(netLine') /\ LineType(uartLine') /\ HandlingType'
  => TypeOK'
BY DEF TypeOK, SenderType, StreamType, ConnectionType, LineType, HandlingType

LEMMA TextFacts ==
  ASSUME TypeOK, NEW s \in Sources
  PROVE  /\ text[s] \in Seq(Nat)
         /\ \A n \in DOMAIN text[s] : n \in Nat /\ n > 0 /\ text[s][n] \in Nat
<1>1. text[s] \in Seq(Nat)
  BY ChannelAssumption DEF TypeOK
<1> QED BY <1>1

LEMMA SourceFacts ==
  /\ Serial1 \in Sources /\ None \notin Sources
  /\ \A c \in Clients : c \in Sources /\ c # Serial1 /\ c # None
BY ChannelAssumption DEF Sources

LEMMA EmptyStream ==
  ASSUME TypeOK, NEW s, stream' = stream \/ stream' = [stream EXCEPT ![s] = <<>>]
  PROVE  StreamType'
<1>1. <<>> \in Seq(Byte) /\ stream \in [Sources -> Seq(Byte)]
  BY DEF TypeOK
<1>2. [stream EXCEPT ![s] = <<>>] \in [Sources -> Seq(Byte)]
  BY <1>1, Zenon
<1> QED BY <1>1, <1>2, Zenon DEF StreamType

LEMMA EmptyLine == LineType(<<>>)
BY ChannelAssumption DEF LineType

(* a buffer that takes a byte stays shorter than its capacity *)
LEMMA BufferedType ==
  ASSUME NEW c \in Byte, NEW line, LineType(line)
  PROVE  LineType(Buffered(c, line))
<1>1. CASE c.place # EOL /\ Room(Len(line))
  <2>1. Buffered(c, line) = Append(line, c)
    BY <1>1 DEF Buffered
  <2>2. Append(line, c) \in Seq(Byte) /\ Len(Append(line, c)) = Len(line) + 1
    BY DEF LineType
  <2> QED BY <1>1, <2>1, <2>2 DEF Room, LineType
<1>2. CASE ~(c.place # EOL /\ Room(Len(line)))
  <2>1. Buffered(c, line) = <<>>
    BY <1>2 DEF Buffered
  <2> QED BY <2>1, EmptyLine
<1> QED BY <1>1, <1>2

(* taking a byte off a stream *)
LEMMA TakenType ==
  ASSUME TypeOK, NEW s \in Sources, NEW line, LineType(line), stream[s] # <<>>, Take(s, line)
  PROVE  /\ Head(stream[s]) \in Byte /\ StreamType'
         /\ handled' \in [from : Sources, line : Nat, text : Seq(Byte)]
         /\ done' \in [Sources -> SUBSET Nat]
<1>1. stream[s] \in Seq(Byte)
  BY DEF TypeOK
<1>2. Head(stream[s]) \in Byte /\ Tail(stream[s]) \in Seq(Byte)
  BY <1>1
<1>3. StreamType'
  BY <1>2 DEF Take, StreamType, TypeOK
<1>4. Head(stream[s]).line \in Nat
  BY <1>2 DEF Byte
<1>5. CASE UNCHANGED <<handled, done>>
  BY <1>2, <1>3, <1>5 DEF TypeOK
<1>6. CASE /\ handled' = [from |-> s, line |-> Head(stream[s]).line, text |-> line]
           /\ done' = [done EXCEPT ![s] = @ \cup {Head(stream[s]).line}]
  <2>1. handled' \in [from : Sources, line : Nat, text : Seq(Byte)]
    BY <1>4, <1>6 DEF LineType
  <2>2. done' \in [Sources -> SUBSET Nat]
    BY <1>4, <1>6 DEF TypeOK
  <2> QED BY <1>2, <1>3, <2>1, <2>2
<1> QED BY <1>5, <1>6 DEF Take

LEMMA SendType == ASSUME TypeOK, NEW s \in Sources, SendByte(s) PROVE SenderType' /\ StreamType'
<1> DEFINE n == at[s].line
           p == at[s].place
<1>1. n \in Nat /\ p \in Nat /\ n \in DOMAIN text[s]
  BY DEF TypeOK, SendByte
<1>2. PICK q \in Nat : stream' = [stream EXCEPT ![s] = Append(@, [from |-> s, line |-> n, place |-> q])]
  <2>1. (IF p > text[s][n] THEN EOL ELSE p) \in Nat
    BY <1>1 DEF EOL
  <2> QED BY <2>1 DEF SendByte
<1>3. StreamType'
  <2>1. [from |-> s, line |-> n, place |-> q] \in Byte
    BY <1>1, <1>2 DEF Byte
  <2>2. Append(stream[s], [from |-> s, line |-> n, place |-> q]) \in Seq(Byte)
    BY <2>1 DEF TypeOK
  <2> QED BY <1>2, <2>2 DEF StreamType, TypeOK
<1>4. \/ at' = [at EXCEPT ![s] = [line |-> n + 1, place |-> 1]]
      \/ at' = [at EXCEPT ![s] = [line |-> n, place |-> p + 1]]
  BY DEF SendByte, NextLine
<1>5. at' \in [Sources -> [line : Nat, place : Nat]]
  <2>1. [line |-> n + 1, place |-> 1] \in [line : Nat, place : Nat]
    BY <1>1
  <2>2. [line |-> n, place |-> p + 1] \in [line : Nat, place : Nat]
    BY <1>1
  <2> QED BY <1>4, <2>1, <2>2 DEF TypeOK
<1> QED BY <1>3, <1>5 DEF SendByte, Untouched, TypeOK, SenderType

(* A source stands at its next line or inside one it really sends. *)
AtInv ==
  \A s \in Sources :
    /\ at[s].line >= 1 /\ at[s].place >= 1
    /\ at[s].place > 1 => /\ at[s].line \in DOMAIN text[s]
                          /\ at[s].place <= text[s][at[s].line] + 1

LEMMA TypeStep == TypeOK /\ AtInv /\ [Next]_vars => TypeOK'
<1> SUFFICES ASSUME TypeOK, AtInv, [Next]_vars PROVE TypeOK'
  OBVIOUS
<1> USE SourceFacts
<1>1. ASSUME Untouched, SenderType', StreamType', waiting' \in Clients \cup {None} PROVE TypeOK'
  <2>1. ConnectionType' /\ HandlingType'
    BY <1>1 DEF Untouched, TypeOK, ConnectionType, HandlingType
  <2>2. LineType(netLine') /\ LineType(uartLine')
    BY <1>1 DEF Untouched, TypeOK, LineType
  <2> QED BY <1>1, <2>1, <2>2, TypePartsNext
<1>2. ASSUME NEW c \in Clients, Connect(c) PROVE TypeOK'
  <2>1. SenderType' /\ StreamType' /\ waiting' \in Clients \cup {None}
    BY <1>2 DEF Connect, Untouched, TypeOK, SenderType, StreamType
  <2> QED BY <1>1, <1>2, <2>1 DEF Connect
<1>3. ASSUME NEW c \in Clients, Close(c) PROVE TypeOK'
  <2>1. SenderType' /\ StreamType' /\ waiting' \in Clients \cup {None}
    BY <1>3 DEF Close, Untouched, TypeOK, SenderType, StreamType
  <2> QED BY <1>1, <1>3, <2>1 DEF Close
<1>4. ASSUME NEW c \in Clients, CutOff(c) PROVE TypeOK'
  <2>1. SenderType' /\ StreamType' /\ waiting' \in Clients \cup {None}
    <3>1. StreamType'
      BY <1>4, EmptyStream DEF CutOff
    <3>2. peer' \in [Clients -> {"idle", "open", "closed", "cut"}]
      BY <1>4 DEF CutOff, TypeOK
    <3> QED BY <1>4, <3>1, <3>2 DEF CutOff, Untouched, TypeOK, SenderType
  <2> QED BY <1>1, <1>4, <2>1 DEF CutOff
<1>5. ASSUME NEW s \in Sources, SendByte(s) PROVE TypeOK'
  <2>1. SenderType' /\ StreamType' /\ waiting' \in Clients \cup {None}
    BY <1>5, SendType DEF SendByte, TypeOK
  <2> QED BY <1>1, <1>5, <2>1 DEF SendByte
<1>6. ASSUME Replug PROVE TypeOK'
  <2>1. at[Serial1].line \in DOMAIN text[Serial1] /\ at[Serial1].line + 1 \in Nat
    BY <1>6, SMTT(30) DEF Replug, AtInv, TypeOK
  <2>2. at' \in [Sources -> [line : Nat, place : Nat]]
    BY <1>6, <2>1 DEF Replug, NextLine, TypeOK
  <2>3. SenderType' /\ StreamType' /\ waiting' \in Clients \cup {None}
    BY <1>6, <2>1, <2>2 DEF Replug, Untouched, TypeOK, SenderType, StreamType
  <2> QED BY <1>1, <1>6, <2>3 DEF Replug
<1>7. ASSUME AcceptClient PROVE TypeOK'
  <2>1. SenderType' /\ HandlingType' /\ LineType(uartLine')
    BY <1>7 DEF AcceptClient, senderVars, TypeOK, SenderType, HandlingType, LineType
  <2>2. StreamType' /\ ConnectionType' /\ LineType(netLine')
    <3>1. CASE TakeOver
      <4>1. ConnectionType'
        BY <3>1 DEF TakeOver, TypeOK, ConnectionType
      <4>2. StreamType'
        <5>1. stream' = stream \/ stream' = [stream EXCEPT ![current] = <<>>]
          BY <3>1 DEF TakeOver
        <5> QED BY <5>1, EmptyStream
      <4> QED BY <3>1, <4>1, <4>2, EmptyLine DEF TakeOver
    <3>2. CASE Stop
      BY <3>2 DEF Stop, TypeOK, StreamType, ConnectionType, LineType
    <3>3. CASE UNCHANGED <<stream, waiting, current, netLine, replaced>>
      BY <3>3 DEF TypeOK, StreamType, ConnectionType, LineType
    <3> QED BY <1>7, <3>1, <3>2, <3>3 DEF AcceptClient
  <2> QED BY <2>1, <2>2, TypePartsNext
<1>8. ASSUME ReadByte PROVE TypeOK'
  <2>1. SenderType' /\ ConnectionType' /\ LineType(uartLine') /\ pc' \in {"accept", "poll", "pollUart"}
    BY <1>8 DEF ReadByte, senderVars, channelVars, TypeOK, SenderType, ConnectionType, LineType
  <2>2. current \in Sources /\ stream[current] # <<>> /\ Take(current, netLine) /\ LineType(netLine)
    BY <1>8 DEF ReadByte, TypeOK, LineType
  <2>3. LineType(netLine')
    BY <1>8, <2>2, TakenType, BufferedType DEF ReadByte
  <2> QED BY <2>1, <2>2, <2>3, TakenType, TypePartsNext DEF HandlingType
<1>9. ASSUME ReadSerialByte PROVE TypeOK'
  <2>1. SenderType' /\ ConnectionType' /\ LineType(netLine') /\ pc' \in {"accept", "poll", "pollUart"}
    BY <1>9 DEF ReadSerialByte, senderVars, channelVars, TypeOK, SenderType, ConnectionType, LineType
  <2>2. Serial1 \in Sources /\ stream[Serial1] # <<>> /\ Take(Serial1, uartLine) /\ LineType(uartLine)
    BY <1>9 DEF ReadSerialByte, TypeOK, LineType
  <2>3. LineType(uartLine')
    BY <1>9, <2>2, TakenType, BufferedType DEF ReadSerialByte
  <2> QED BY <2>1, <2>2, <2>3, TakenType, TypePartsNext DEF HandlingType
<1>10. ASSUME EndPoll PROVE TypeOK'
  <2>1. SenderType' /\ StreamType' /\ ConnectionType' /\ HandlingType'
    BY <1>10 DEF EndPoll, senderVars, channelVars, TypeOK, SenderType, StreamType, ConnectionType,
                HandlingType
  <2>2. LineType(netLine') /\ LineType(uartLine')
    BY <1>10 DEF EndPoll, TypeOK, LineType
  <2> QED BY <2>1, <2>2, TypePartsNext
<1>11. CASE UNCHANGED vars
  BY <1>11 DEF vars, senderVars, channelVars, TypeOK
<1> QED BY <1>2, <1>3, <1>4, <1>5, <1>6, <1>7, <1>8, <1>9, <1>10, <1>11 DEF Next, LoopStep

LEMMA AtStep == TypeOK /\ AtInv /\ [Next]_vars => AtInv'
<1> SUFFICES ASSUME TypeOK, AtInv, [Next]_vars PROVE AtInv'
  OBVIOUS
<1> USE SourceFacts
<1>1. UNCHANGED <<text, at>> => AtInv'
  BY DEF AtInv
<1>2. ASSUME NEW s \in Sources, NextLine(s), text' = text PROVE AtInv'
  <2>1. at' = [at EXCEPT ![s] = [line |-> at[s].line + 1, place |-> 1]]
    BY <1>2 DEF NextLine
  <2> QED BY <1>2, <2>1 DEF AtInv, TypeOK
<1>3. ASSUME NEW s \in Sources, SendByte(s) PROVE AtInv'
  <2>1. CASE NextLine(s)
    BY <1>2, <1>3, <2>1 DEF SendByte, Untouched
  <2>2. CASE ~NextLine(s)
    <3>1. /\ at' = [at EXCEPT ![s] = [line |-> at[s].line, place |-> at[s].place + 1]]
          /\ ~(at[s].place > text[s][at[s].line]) /\ at[s].line \in DOMAIN text[s]
          /\ text' = text
      BY <1>3, <2>2 DEF SendByte, Untouched
    <3>2. text[s][at[s].line] \in Nat /\ at[s].place \in Nat /\ at[s].line \in Nat
      BY <3>1, TextFacts DEF TypeOK
    <3>3. /\ at'[s].line = at[s].line /\ at'[s].place = at[s].place + 1
          /\ \A other \in Sources \ {s} : at'[other] = at[other]
      BY <3>1 DEF TypeOK
    <3>4. at[s].place + 1 <= text[s][at[s].line] + 1 /\ at[s].line >= 1 /\ at[s].place >= 1
      BY <3>1, <3>2 DEF AtInv
    <3> QED BY <3>1, <3>2, <3>3, <3>4 DEF AtInv
  <2> QED BY <2>1, <2>2
<1>4. Replug => AtInv'
  BY <1>2 DEF Replug, Untouched
<1>5. \A c \in Clients : Connect(c) \/ Close(c) \/ CutOff(c) => AtInv'
  BY <1>1 DEF Connect, Close, CutOff, Untouched
<1>6. LoopStep => AtInv'
  BY <1>1 DEF LoopStep, AcceptClient, ReadByte, ReadSerialByte, EndPoll, senderVars
<1>7. UNCHANGED vars => AtInv'
  BY <1>1 DEF vars, senderVars
<1> QED BY <1>3, <1>4, <1>5, <1>6, <1>7 DEF Next

LEMMA InitFacts == Init => TypeOK /\ AtInv
<1> SUFFICES ASSUME Init PROVE TypeOK /\ AtInv
  OBVIOUS
<1> USE SourceFacts
<1>1. AtInv
  BY DEF Init, AtInv
<1>2. SenderType /\ StreamType /\ ConnectionType
  BY DEF Init, SenderType, StreamType, ConnectionType
<1>3. LineType(netLine) /\ LineType(uartLine)
  BY EmptyLine DEF Init
<1>4. HandlingType
  BY DEF Init, HandlingType
<1> QED BY <1>1, <1>2, <1>3, <1>4, TypeParts

(* Whatever the controllers send, cut off or replug, the two line buffers  *)
(* never take more than fits with the terminating zero, and only lines     *)
(* that were really begun are abandoned.                                   *)
THEOREM TypeCorrect == Spec => []TypeOK
<1>1. Init => TypeOK /\ AtInv
  BY InitFacts
<1>2. TypeOK /\ AtInv /\ [Next]_vars => (TypeOK /\ AtInv)'
  BY TypeStep, AtStep
<1> QED BY <1>1, <1>2, PTL DEF Spec

-----------------------------------------------------------------------------
(* The order of the bytes of one source s, whose lines have the lengths t, *)
(* of which it abandoned those in ab: q are its bytes on the way, a stands *)
(* for the one it will send next.                                          *)

LineAt(q, a, i) == IF i <= Len(q) THEN q[i].line ELSE a.line

(* its place among the bytes of its line, the line feed behind all others  *)
PlaceAt(t, q, a, i) ==
  IF i > Len(q) THEN a.place
  ELSE IF q[i].place = EOL THEN t[q[i].line] + 1 ELSE q[i].place

(* place p of line n is followed by place p2 of line n2 *)
Succeeds(t, ab, n, p, n2, p2) ==
  \/ n2 = n /\ p2 = p + 1 /\ p <= t[n]
  \/ n2 = n + 1 /\ p2 = 1 /\ (p = t[n] + 1 \/ n \in ab)

Chain(s, t, ab, q, a) ==
  \A i \in 1 .. Len(q) :
    /\ q[i].from = s /\ q[i].line \in DOMAIN t /\ q[i].place \in 0 .. t[q[i].line]
    /\ Succeeds(t, ab, LineAt(q, a, i), PlaceAt(t, q, a, i),
                LineAt(q, a, i + 1), PlaceAt(t, q, a, i + 1))

(* b is the byte a stands for, and a2 stands for the one behind it *)
Sending(s, t, a, b, a2) ==
  /\ b \in Byte /\ a \in [line : Nat, place : Nat] /\ a2 \in [line : Nat, place : Nat]
  /\ a.line \in DOMAIN t /\ a.place >= 1 /\ a.place <= t[a.line] + 1
  /\ b.from = s /\ b.line = a.line
  /\ a.place > t[a.line] => b.place = EOL /\ a2.line = a.line + 1 /\ a2.place = 1
  /\ ~(a.place > t[a.line]) => b.place = a.place /\ a2.line = a.line /\ a2.place = a.place + 1

LEMMA ChainSend ==
  ASSUME NEW s, NEW t \in Seq(Nat), NEW ab, NEW q \in Seq(Byte), NEW a, NEW b, NEW a2,
         Sending(s, t, a, b, a2), Chain(s, t, ab, q, a)
  PROVE  /\ Chain(s, t, ab, Append(q, b), a2)
         /\ LineAt(Append(q, b), a2, 1) = LineAt(q, a, 1)
         /\ PlaceAt(t, Append(q, b), a2, 1) = PlaceAt(t, q, a, 1)
<1> DEFINE r == Append(q, b)
<1>0. /\ b \in Byte /\ a \in [line : Nat, place : Nat] /\ a2 \in [line : Nat, place : Nat]
      /\ a.line \in DOMAIN t /\ a.place >= 1 /\ a.place <= t[a.line] + 1
      /\ b.from = s /\ b.line = a.line
      /\ a.place > t[a.line] => b.place = EOL /\ a2.line = a.line + 1 /\ a2.place = 1
      /\ ~(a.place > t[a.line]) => b.place = a.place /\ a2.line = a.line /\ a2.place = a.place + 1
  BY DEF Sending
<1>1. /\ Len(q) \in Nat /\ Len(r) = Len(q) + 1 /\ r[Len(q) + 1] = b
      /\ \A i \in 1 .. Len(q) : r[i] = q[i]
  BY <1>0
<1>2. t[a.line] \in Nat
  BY <1>0
<1>3. \A i \in 1 .. Len(q) + 1 : /\ LineAt(r, a2, i) = LineAt(q, a, i)
                                 /\ PlaceAt(t, r, a2, i) = PlaceAt(t, q, a, i)
  <2> TAKE i \in 1 .. Len(q) + 1
  <2>1. CASE i <= Len(q)
    BY <1>1, <2>1 DEF LineAt, PlaceAt
  <2>2. CASE i = Len(q) + 1
    <3>1. LineAt(r, a2, i) = a.line /\ LineAt(q, a, i) = a.line
      BY <1>0, <1>1, <2>2 DEF LineAt
    <3>2. PlaceAt(t, r, a2, i) = a.place
      BY <1>0, <1>1, <1>2, <2>2, SMTT(30) DEF PlaceAt, EOL
    <3>3. PlaceAt(t, q, a, i) = a.place
      BY <1>1, <2>2 DEF PlaceAt
    <3> QED BY <3>1, <3>2, <3>3
  <2> QED BY <2>1, <2>2, <1>1
<1>4. LineAt(r, a2, Len(q) + 2) = a2.line /\ PlaceAt(t, r, a2, Len(q) + 2) = a2.place
  BY <1>1 DEF LineAt, PlaceAt
<1>5. LineAt(q, a, Len(q) + 1) = a.line /\ PlaceAt(t, q, a, Len(q) + 1) = a.place
  BY <1>1 DEF LineAt, PlaceAt
<1>6. Succeeds(t, ab, a.line, a.place, a2.line, a2.place)
  BY <1>0, <1>2 DEF Succeeds
<1>7. b.place \in 0 .. t[b.line]
  <2>1. CASE a.place > t[a.line]
    BY <1>0, <1>2, <2>1 DEF EOL
  <2>2. CASE ~(a.place > t[a.line])
    <3>1. a.place \in Nat /\ a.place <= t[a.line] /\ b.place = a.place
      BY <1>0, <1>2, <2>2
    <3> QED BY <1>0, <1>2, <3>1
  <2> QED BY <2>1, <2>2
<1>8. ASSUME NEW i \in 1 .. Len(r)
      PROVE  /\ r[i].from = s /\ r[i].line \in DOMAIN t /\ r[i].place \in 0 .. t[r[i].line]
             /\ Succeeds(t, ab, LineAt(r, a2, i), PlaceAt(t, r, a2, i),
                         LineAt(r, a2, i + 1), PlaceAt(t, r, a2, i + 1))
  <2> HIDE DEF r
  <2>1. CASE i <= Len(q)
    <3>1. i \in 1 .. Len(q) /\ i \in 1 .. Len(q) + 1 /\ i + 1 \in 1 .. Len(q) + 1
      BY <1>1, <2>1
    <3> QED BY <1>1, <1>3, <3>1 DEF Chain
  <2>2. CASE i = Len(q) + 1
    <3>1. /\ LineAt(r, a2, i) = a.line /\ PlaceAt(t, r, a2, i) = a.place
          /\ LineAt(r, a2, i + 1) = a2.line /\ PlaceAt(t, r, a2, i + 1) = a2.place
      <4>1. i \in 1 .. Len(q) + 1 /\ i + 1 = Len(q) + 2
        BY <1>1, <2>2
      <4> QED BY <1>3, <1>4, <1>5, <2>2, <4>1
    <3>2. r[i] = b
      BY <1>1, <2>2
    <3> QED BY <1>0, <1>6, <1>7, <3>1, <3>2
  <2> QED BY <1>1, <2>1, <2>2
<1>9. 1 \in 1 .. Len(q) + 1
  BY <1>1
<1> QED BY <1>3, <1>8, <1>9 DEF Chain

(* a controller that takes over in the middle of a line *)
LEMMA ChainReplug ==
  ASSUME NEW s, NEW t \in Seq(Nat), NEW ab, NEW q \in Seq(Byte),
         NEW a \in [line : Nat, place : Nat], NEW a2 \in [line : Nat, place : Nat],
         a.place > 1, a2.line = a.line + 1, a2.place = 1, Chain(s, t, ab, q, a)
  PROVE  Chain(s, t, ab \cup {a.line}, q, a2)
<1>1. Len(q) \in Nat
  OBVIOUS
<1>2. \A i \in 1 .. Len(q) : LineAt(q, a2, i) = LineAt(q, a, i)
                             /\ PlaceAt(t, q, a2, i) = PlaceAt(t, q, a, i)
  BY DEF LineAt, PlaceAt
<1>3. /\ LineAt(q, a2, Len(q) + 1) = a2.line /\ PlaceAt(t, q, a2, Len(q) + 1) = 1
      /\ LineAt(q, a, Len(q) + 1) = a.line /\ PlaceAt(t, q, a, Len(q) + 1) = a.place
  BY <1>1 DEF LineAt, PlaceAt
<1>4. ASSUME NEW i \in 1 .. Len(q)
      PROVE  Succeeds(t, ab \cup {a.line}, LineAt(q, a2, i), PlaceAt(t, q, a2, i),
                      LineAt(q, a2, i + 1), PlaceAt(t, q, a2, i + 1))
  <2>0. Succeeds(t, ab, LineAt(q, a, i), PlaceAt(t, q, a, i),
                 LineAt(q, a, i + 1), PlaceAt(t, q, a, i + 1))
    BY DEF Chain
  <2>1. CASE i < Len(q)
    <3>1. i + 1 \in 1 .. Len(q)
      BY <1>1, <2>1
    <3>2. Succeeds(t, ab, LineAt(q, a2, i), PlaceAt(t, q, a2, i),
                   LineAt(q, a2, i + 1), PlaceAt(t, q, a2, i + 1))
      BY <1>2, <2>0, <3>1
    <3> QED BY <3>2 DEF Succeeds
  <2>2. CASE i = Len(q)
    <3>1. Succeeds(t, ab, LineAt(q, a, i), PlaceAt(t, q, a, i), a.line, a.place)
      BY <1>3, <2>0, <2>2
    <3>2. a.line = LineAt(q, a, i)
      BY <3>1 DEF Succeeds
    <3>3. Succeeds(t, ab \cup {a.line}, LineAt(q, a2, i), PlaceAt(t, q, a2, i), a2.line, 1)
      BY <1>2, <3>2 DEF Succeeds
    <3> QED BY <1>3, <2>2, <3>3
  <2> QED BY <1>1, <2>1, <2>2
<1> QED BY <1>4 DEF Chain

(* c is the byte at place p of line n *)
IsAt(s, t, c, n, p) ==
  /\ c.from = s /\ c.line = n /\ n \in DOMAIN t /\ c.place \in 0 .. t[n]
  /\ c.place = EOL => p = t[n] + 1
  /\ c.place # EOL => p = c.place

LEMMA ChainTake ==
  ASSUME NEW s, NEW t \in Seq(Nat), NEW ab, NEW q \in Seq(Byte),
         NEW a \in [line : Nat, place : Nat], q # <<>>, Chain(s, t, ab, q, a)
  PROVE  /\ Chain(s, t, ab, Tail(q), a)
         /\ IsAt(s, t, Head(q), LineAt(q, a, 1), PlaceAt(t, q, a, 1))
         /\ Succeeds(t, ab, LineAt(q, a, 1), PlaceAt(t, q, a, 1),
                     LineAt(Tail(q), a, 1), PlaceAt(t, Tail(q), a, 1))
<1> DEFINE r == Tail(q)
<1>1. /\ Len(q) \in Nat \ {0} /\ Len(r) = Len(q) - 1 /\ Head(q) = q[1]
      /\ \A i \in 1 .. Len(r) : r[i] = q[i + 1]
  BY EmptySeq
<1> HIDE DEF r
<1>2. \A i \in 1 .. Len(q) : LineAt(r, a, i) = LineAt(q, a, i + 1)
                             /\ PlaceAt(t, r, a, i) = PlaceAt(t, q, a, i + 1)
  <2> SUFFICES ASSUME NEW i \in 1 .. Len(q)
               PROVE  /\ LineAt(r, a, i) = LineAt(q, a, i + 1)
                      /\ PlaceAt(t, r, a, i) = PlaceAt(t, q, a, i + 1)
    OBVIOUS
  <2>1. /\ i <= Len(r) <=> i + 1 <= Len(q)
        /\ i > Len(r) <=> i + 1 > Len(q)
        /\ i <= Len(r) => i \in 1 .. Len(r)
        /\ ~(i > Len(r)) => i \in 1 .. Len(r)
    BY <1>1
  <2>2. i \in 1 .. Len(r) => r[i] = q[i + 1]
    BY <1>1
  <2> QED BY <2>1, <2>2, Zenon DEF LineAt, PlaceAt
<1>3. ASSUME NEW i \in 1 .. Len(r)
      PROVE  /\ r[i].from = s /\ r[i].line \in DOMAIN t /\ r[i].place \in 0 .. t[r[i].line]
             /\ Succeeds(t, ab, LineAt(r, a, i), PlaceAt(t, r, a, i),
                         LineAt(r, a, i + 1), PlaceAt(t, r, a, i + 1))
  <2>1. i \in 1 .. Len(q) /\ i + 1 \in 1 .. Len(q)
    BY <1>1
  <2> QED BY <1>1, <1>2, <2>1 DEF Chain
<1>4. Chain(s, t, ab, r, a)
  BY <1>3 DEF Chain
<1>5. 1 \in 1 .. Len(q) /\ 1 <= Len(q)
  BY <1>1
<1>6. /\ q[1].from = s /\ q[1].line \in DOMAIN t /\ q[1].place \in 0 .. t[q[1].line]
      /\ Succeeds(t, ab, LineAt(q, a, 1), PlaceAt(t, q, a, 1),
                  LineAt(q, a, 1 + 1), PlaceAt(t, q, a, 1 + 1))
  BY <1>5 DEF Chain
<1>7. LineAt(q, a, 1) = q[1].line
      /\ PlaceAt(t, q, a, 1) = IF q[1].place = EOL THEN t[q[1].line] + 1 ELSE q[1].place
  BY <1>5 DEF LineAt, PlaceAt
<1>8. IsAt(s, t, q[1], LineAt(q, a, 1), PlaceAt(t, q, a, 1))
  BY <1>6, <1>7 DEF IsAt
<1> QED BY <1>1, <1>2, <1>4, <1>5, <1>6, <1>8 DEF r

LEMMA ChainEmpty ==
  ASSUME NEW s, NEW t, NEW ab, NEW a
  PROVE  /\ Chain(s, t, ab, <<>>, a)
         /\ LineAt(<<>>, a, 1) = a.line /\ PlaceAt(t, <<>>, a, 1) = a.place
BY DEF Chain, LineAt, PlaceAt

-----------------------------------------------------------------------------
(* What a buffer holds of source s when place p of line n comes next: the  *)
(* bytes right before it, from the beginning of the line or from where the *)
(* buffer was full; or anything, if the line before was abandoned.         *)

RightBefore(s, line, n, p) ==
  /\ p - Len(line) = 1 \/ p - Len(line) > Capacity
  /\ \A i \in 1 .. Len(line) :
       line[i] = [from |-> s, line |-> n, place |-> p - 1 - Len(line) + i]

Flows(s, ab, line, n, p) == n - 1 \in ab \/ RightBefore(s, line, n, p)

LEMMA FlowStart ==
  ASSUME NEW s, NEW ab, NEW n \in Nat, NEW p \in Nat,
         p = 1 \/ p > Capacity
  PROVE  Flows(s, ab, <<>>, n, p)
BY DEF Flows, RightBefore

(* one more byte at the end *)
LEMMA FlowMore ==
  ASSUME NEW s, NEW n, NEW p \in Nat, NEW line \in Seq(Byte), NEW c \in Byte,
         c.from = s, c.line = n, c.place = p, RightBefore(s, line, n, p)
  PROVE  RightBefore(s, Append(line, c), n, p + 1)
<1>0. PICK b : b = c
  OBVIOUS
<1>c. b = [from |-> s, line |-> n, place |-> p]
  BY <1>0 DEF Byte
<1>r. /\ p - Len(line) = 1 \/ p - Len(line) > Capacity
      /\ \A i \in 1 .. Len(line) :
           line[i] = [from |-> s, line |-> n, place |-> p - 1 - Len(line) + i]
  BY DEF RightBefore
<1> DEFINE more == Append(line, b)
           k == Len(line)
<1>1. /\ Len(more) = k + 1 /\ more[k + 1] = b /\ k \in Nat
      /\ \A i \in 1 .. k : more[i] = line[i]
  BY <1>0, AppendProperties, LenProperties
<1> HIDE DEF more, k
<1>2. (p + 1) - (k + 1) = p - k /\ \A i \in Nat : (p + 1) - 1 - (k + 1) + i = p - 1 - k + i
  BY <1>1, SMT
<1>3. ASSUME NEW i \in 1 .. k + 1
      PROVE  more[i] = [from |-> s, line |-> n, place |-> (p + 1) - 1 - (k + 1) + i]
  <2>1. CASE i = k + 1
    <3>1. (p + 1) - 1 - (k + 1) + (k + 1) = p
      BY <1>1, SMT
    <3> QED BY <1>1, <1>c, <2>1, <3>1, Zenon
  <2>2. CASE i # k + 1
    <3>1. i \in 1 .. k /\ i \in Nat
      BY <1>1, <2>2, SMT
    <3>2. (p + 1) - 1 - (k + 1) + i = p - 1 - k + i
      BY <1>2, <3>1, Zenon
    <3>3. more[i] = [from |-> s, line |-> n, place |-> p - 1 - k + i]
      BY <1>1, <1>r, <3>1, Zenon DEF k
    <3> QED BY <3>2, <3>3, Zenon
  <2> QED BY <2>1, <2>2, Zenon
<1>4. (p + 1) - Len(more) = 1 \/ (p + 1) - Len(more) > Capacity
  <2>1. (p + 1) - Len(more) = p - Len(line)
    BY <1>1, <1>2, Zenon DEF k
  <2> QED BY <1>r, <2>1
<1>5. ASSUME NEW i \in 1 .. Len(more)
      PROVE  more[i] = [from |-> s, line |-> n, place |-> (p + 1) - 1 - Len(more) + i]
  <2>1. i \in 1 .. k + 1 /\ Len(more) = k + 1
    BY <1>1
  <2> QED BY <1>3, <2>1
<1>6. RightBefore(s, more, n, p + 1)
  BY <1>4, <1>5, Zenon DEF RightBefore
<1> QED BY <1>0, <1>6, Zenon DEF more

LEMMA FlowFull ==
  ASSUME NEW p \in Nat, NEW k \in Nat, k < Capacity, ~(k + 1 < Capacity),
         p - k = 1 \/ p - k > Capacity
  PROVE  p + 1 > Capacity
BY ChannelAssumption, SMT

LEMMA FlowTake ==
  ASSUME NEW s, NEW t \in Seq(Nat), NEW ab, NEW line, LineType(line), NEW c \in Byte, NEW n, NEW p,
         NEW n2 \in Nat, NEW p2 \in Nat,
         IsAt(s, t, c, n, p), Succeeds(t, ab, n, p, n2, p2), Flows(s, ab, line, n, p)
  PROVE  Flows(s, ab, Buffered(c, line), n2, p2)
<1>0. /\ c.from = s /\ c.line = n /\ n \in DOMAIN t /\ c.place \in 0 .. t[n]
      /\ c.place = EOL => p = t[n] + 1
      /\ c.place # EOL => p = c.place
  BY DEF IsAt
<1>1. /\ n \in Nat /\ c.place \in Nat /\ t[n] \in Nat /\ p \in Nat
      /\ Len(line) \in Nat /\ Len(line) < Capacity /\ Capacity \in Nat \ {0}
      /\ line \in Seq(Byte)
  BY <1>0, ChannelAssumption DEF Byte, LineType, EOL
<1>2. CASE c.place = EOL
  <2>1. p2 = 1
    BY <1>0, <1>1, <1>2 DEF Succeeds
  <2>2. Buffered(c, line) = <<>>
    BY <1>2 DEF Buffered
  <2> QED BY <2>1, <2>2, FlowStart
<1>3. CASE c.place # EOL /\ n2 = n + 1
  <2>1. n \in ab
    BY <1>0, <1>1, <1>3 DEF Succeeds
  <2> QED BY <1>1, <1>3, <2>1 DEF Flows
<1>4. CASE c.place # EOL /\ n2 # n + 1
  <2>1. n2 = n /\ p = c.place /\ p2 = p + 1 /\ p \in Nat /\ p > 0
    BY <1>0, <1>1, <1>4 DEF Succeeds, EOL
  <2>2. CASE n - 1 \in ab
    BY <2>1, <2>2 DEF Flows
  <2>3. CASE RightBefore(s, line, n, p)
    <3>1. CASE Room(Len(line))
      <4>1. Buffered(c, line) = Append(line, c)
        BY <1>4, <3>1 DEF Buffered
      <4>2. RightBefore(s, Append(line, c), n, p + 1)
        BY <1>0, <1>1, <2>1, <2>3, FlowMore
      <4> QED BY <2>1, <4>1, <4>2 DEF Flows
    <3>2. CASE ~Room(Len(line))
      <4>1. Buffered(c, line) = <<>>
        BY <3>2 DEF Buffered
      <4>2. p2 > Capacity
        <5>1. p - Len(line) = 1 \/ p - Len(line) > Capacity
          BY <2>3 DEF RightBefore
        <5>2. p + 1 > Capacity
          BY <1>1, <3>2, <5>1, FlowFull DEF Room
        <5> QED BY <2>1, <5>2
      <4> QED BY <4>1, <4>2, FlowStart
    <3> QED BY <3>1, <3>2
  <2> QED BY <2>2, <2>3 DEF Flows
<1> QED BY <1>2, <1>3, <1>4

(* what a line feed ends *)
Complete(s, t, line, n) ==
  /\ line # <<>> /\ t[n] <= Capacity => Len(line) = t[n]
  /\ \A i \in 1 .. Len(line) :
       line[i] = [from |-> s, line |-> n, place |-> t[n] - Len(line) + i]

LEMMA FlowEnd ==
  ASSUME NEW s, NEW t \in Seq(Nat), NEW ab, NEW line, LineType(line), NEW n \in DOMAIN t,
         NEW p, p = t[n] + 1, Flows(s, ab, line, n, p)
  PROVE  n - 1 \in ab \/ Complete(s, t, line, n)
<1>1. /\ t[n] \in Nat /\ Len(line) \in Nat /\ Capacity \in Nat \ {0} /\ line \in Seq(Byte)
  BY ChannelAssumption DEF LineType
<1>2. line # <<>> => Len(line) > 0
  BY <1>1, EmptySeq
<1> SUFFICES ASSUME n - 1 \notin ab
             PROVE  /\ line # <<>> /\ t[n] <= Capacity => Len(line) = t[n]
                    /\ \A i \in 1 .. Len(line) :
                         line[i] = [from |-> s, line |-> n, place |-> t[n] - Len(line) + i]
  BY DEF Complete
<1>3. \A i \in 1 .. Len(line) : p - 1 - Len(line) + i = t[n] - Len(line) + i
  BY <1>1
<1>4. (p - Len(line) = 1 \/ p - Len(line) > Capacity) /\ line # <<>> /\ t[n] <= Capacity
      => Len(line) = t[n]
  BY <1>1, <1>2
<1>5. /\ p - Len(line) = 1 \/ p - Len(line) > Capacity
      /\ \A i \in 1 .. Len(line) :
           line[i] = [from |-> s, line |-> n, place |-> p - 1 - Len(line) + i]
  BY DEF Flows, RightBefore
<1> QED BY <1>3, <1>4, <1>5

-----------------------------------------------------------------------------
(* The invariant: the bytes of every source are in order, a client that is *)
(* not yet served is at its beginning, and what the buffers hold flows     *)
(* into what their ports read next.                                        *)

Given(s)      == IF s = Serial1 THEN abandoned ELSE {}
AheadLine(s)  == LineAt(stream[s], at[s], 1)
AheadPlace(s) == PlaceAt(text[s], stream[s], at[s], 1)

ChainInv == \A s \in Sources : Chain(s, text[s], Given(s), stream[s], at[s])

FlowsNow(s, line) == Flows(s, Given(s), line, AheadLine(s), AheadPlace(s))

ClientInv ==
  /\ \A c \in Clients :
       /\ peer[c] \in {"idle", "cut"} => stream[c] = <<>>
       /\ peer[c] = "idle" => at[c].line = 1 /\ at[c].place = 1 /\ c # current /\ c # waiting
  /\ waiting # None => /\ waiting # current
                       /\ AheadLine(waiting) = 1 /\ AheadPlace(waiting) = 1

FlowInv ==
  /\ current # None /\ peer[current] # "cut" => FlowsNow(current, netLine)
  /\ FlowsNow(Serial1, uartLine)

OrderInv == ChainInv /\ ClientInv /\ FlowInv /\ LinesAreWhole

LEMMA PlaceType ==
  ASSUME NEW s, NEW t \in Seq(Nat), NEW ab, NEW q \in Seq(Byte),
         NEW a \in [line : Nat, place : Nat], Chain(s, t, ab, q, a)
  PROVE  LineAt(q, a, 1) \in Nat /\ PlaceAt(t, q, a, 1) \in Nat
<1>1. CASE q = <<>>
  BY <1>1 DEF LineAt, PlaceAt
<1>2. CASE q # <<>>
  <2>1. 1 \in 1 .. Len(q) /\ q[1] \in Byte
    BY <1>2, EmptySeq
  <2>2. q[1].line \in DOMAIN t
    BY <2>1 DEF Chain
  <2>3. q[1].line \in Nat /\ q[1].place \in Nat /\ t[q[1].line] \in Nat
    BY <2>1, <2>2 DEF Byte
  <2> QED BY <2>1, <2>3 DEF LineAt, PlaceAt
<1> QED BY <1>1, <1>2

(* a source whose bytes are untouched *)
LEMMA SameSource ==
  ASSUME NEW s, text'[s] = text[s], stream'[s] = stream[s], at'[s] = at[s], Given(s)' = Given(s)
  PROVE  /\ AheadLine(s)' = AheadLine(s) /\ AheadPlace(s)' = AheadPlace(s)
         /\ Chain(s, text[s], Given(s), stream[s], at[s])
              => Chain(s, text[s], Given(s), stream[s], at[s])'
         /\ \A line : FlowsNow(s, line) => Flows(s, Given(s)', line, AheadLine(s)', AheadPlace(s)')
<1>1. AheadLine(s)' = AheadLine(s)
  BY Zenon DEF AheadLine
<1>2. AheadPlace(s)' = AheadPlace(s)
  BY Zenon DEF AheadPlace
<1>3. Chain(s, text[s], Given(s), stream[s], at[s])
        => Chain(s, text[s], Given(s), stream[s], at[s])'
  BY Zenon
<1> QED BY <1>1, <1>2, <1>3, Zenon DEF FlowsNow

LEMMA SentInOrder ==
  ASSUME TypeOK, TypeOK', AtInv, ChainInv, NEW s \in Sources, SendByte(s)
  PROVE  /\ ChainInv'
         /\ \A x \in Sources : AheadLine(x)' = AheadLine(x) /\ AheadPlace(x)' = AheadPlace(x)
<1>1. /\ text' = text /\ abandoned' = abandoned
      /\ at[s].line \in DOMAIN text[s]
      /\ \A x \in Sources \ {s} : stream'[x] = stream[x] /\ at'[x] = at[x]
  BY DEF SendByte, Untouched, NextLine, TypeOK
<1>2. \A x : Given(x)' = Given(x)
  BY <1>1 DEF Given
<1> DEFINE over == at[s].place > text[s][at[s].line]
<1>3. PICK b : /\ stream' = [stream EXCEPT ![s] = Append(@, b)]
               /\ b = [from |-> s, line |-> at[s].line,
                       place |-> IF over THEN EOL ELSE at[s].place]
  BY DEF SendByte
<1>4. /\ stream'[s] = Append(stream[s], b)
      /\ over => at'[s].line = at[s].line + 1 /\ at'[s].place = 1
      /\ ~over => at'[s].line = at[s].line /\ at'[s].place = at[s].place + 1
  <2>1. stream'[s] = Append(stream[s], b)
    BY <1>3 DEF TypeOK
  <2>2. over => at' = [at EXCEPT ![s] = [line |-> at[s].line + 1, place |-> 1]]
    BY DEF SendByte, NextLine
  <2>3. ~over => at' = [at EXCEPT ![s] = [line |-> at[s].line, place |-> at[s].place + 1]]
    BY DEF SendByte
  <2> HIDE DEF over
  <2>4. over => at'[s] = [line |-> at[s].line + 1, place |-> 1]
    BY <2>2 DEF TypeOK
  <2>5. ~over => at'[s] = [line |-> at[s].line, place |-> at[s].place + 1]
    BY <2>3 DEF TypeOK
  <2> QED BY <2>1, <2>4, <2>5
<1>5. /\ text[s] \in Seq(Nat) /\ text[s][at[s].line] \in Nat
      /\ stream[s] \in Seq(Byte) /\ at[s] \in [line : Nat, place : Nat]
      /\ at'[s] \in [line : Nat, place : Nat]
  BY <1>1, TextFacts DEF TypeOK
<1>6. at[s].place >= 1 /\ at[s].place <= text[s][at[s].line] + 1
  BY <1>1, <1>5 DEF AtInv
<1>7. /\ b \in Byte /\ b.from = s /\ b.line = at[s].line
      /\ over => b.place = EOL
      /\ ~over => b.place = at[s].place
  BY <1>3, <1>5 DEF Byte, EOL
<1>8. Chain(s, text[s], Given(s), stream[s], at[s])
  BY DEF ChainInv
<1>9. /\ Chain(s, text[s], Given(s), Append(stream[s], b), at'[s])
      /\ LineAt(Append(stream[s], b), at'[s], 1) = LineAt(stream[s], at[s], 1)
      /\ PlaceAt(text[s], Append(stream[s], b), at'[s], 1) = PlaceAt(text[s], stream[s], at[s], 1)
  <2>1. PICK t, ab, q, a, a2 : t = text[s] /\ ab = Given(s) /\ q = stream[s] /\ a = at[s] /\ a2 = at'[s]
    OBVIOUS
  <2>2. Sending(s, t, a, b, a2)
    BY <1>1, <1>4, <1>5, <1>6, <1>7, <2>1 DEF Sending
  <2>3. t \in Seq(Nat) /\ q \in Seq(Byte) /\ Chain(s, t, ab, q, a)
    BY <1>5, <1>8, <2>1
  <2>4. /\ Chain(s, t, ab, Append(q, b), a2)
        /\ LineAt(Append(q, b), a2, 1) = LineAt(q, a, 1)
        /\ PlaceAt(t, Append(q, b), a2, 1) = PlaceAt(t, q, a, 1)
    BY <2>2, <2>3, ChainSend
  <2> QED BY <2>1, <2>4
<1>10. /\ Chain(s, text[s], Given(s), stream[s], at[s])'
       /\ AheadLine(s)' = AheadLine(s) /\ AheadPlace(s)' = AheadPlace(s)
  BY <1>1, <1>2, <1>4, <1>9, Zenon DEF AheadLine, AheadPlace
<1>11. ASSUME NEW x \in Sources \ {s}
       PROVE  /\ Chain(x, text[x], Given(x), stream[x], at[x])'
              /\ AheadLine(x)' = AheadLine(x) /\ AheadPlace(x)' = AheadPlace(x)
  BY <1>1, <1>2, SameSource DEF ChainInv
<1> QED BY <1>10, <1>11 DEF ChainInv

LEMMA ReplugInOrder ==
  ASSUME TypeOK, TypeOK', AtInv, ChainInv, FlowsNow(Serial1, uartLine), Replug
  PROVE  /\ ChainInv' /\ FlowsNow(Serial1, uartLine)'
         /\ \A c \in Clients : AheadLine(c)' = AheadLine(c) /\ AheadPlace(c)' = AheadPlace(c)
                               /\ Given(c)' = Given(c)
<1>1. /\ text' = text /\ stream' = stream /\ uartLine' = uartLine
      /\ abandoned' = abandoned \cup {at[Serial1].line} /\ at[Serial1].place > 1
      /\ at' = [at EXCEPT ![Serial1] = [line |-> at[Serial1].line + 1, place |-> 1]]
  BY DEF Replug, Untouched, NextLine
<1>2. /\ \A c \in Clients : at'[c] = at[c]
      /\ at'[Serial1].line = at[Serial1].line + 1 /\ at'[Serial1].place = 1
  BY <1>1, SourceFacts DEF TypeOK
<1>3. /\ \A c \in Clients : Given(c)' = Given(c)
      /\ Given(Serial1) = abandoned /\ Given(Serial1)' = abandoned \cup {at[Serial1].line}
  BY <1>1, SourceFacts DEF Given
<1>4. ASSUME NEW c \in Clients
      PROVE  /\ AheadLine(c)' = AheadLine(c) /\ AheadPlace(c)' = AheadPlace(c)
             /\ Chain(c, text[c], Given(c), stream[c], at[c])'
  BY <1>1, <1>2, <1>3, SameSource, SourceFacts DEF ChainInv
<1>5. PICK t, q, a, a2, ab : /\ t = text[Serial1] /\ q = stream[Serial1] /\ a = at[Serial1]
                             /\ a2 = at'[Serial1] /\ ab = abandoned
  OBVIOUS
<1>6. /\ t \in Seq(Nat) /\ q \in Seq(Byte)
      /\ a \in [line : Nat, place : Nat] /\ a2 \in [line : Nat, place : Nat]
      /\ a.place > 1 /\ a2.line = a.line + 1 /\ a2.place = 1 /\ Chain(Serial1, t, ab, q, a)
  BY <1>1, <1>2, <1>3, <1>5, SourceFacts, TextFacts DEF TypeOK, ChainInv
<1>7. Chain(Serial1, t, ab \cup {a.line}, q, a2)
  BY <1>6, ChainReplug
<1>8. Chain(Serial1, text[Serial1], Given(Serial1), stream[Serial1], at[Serial1])'
  BY <1>1, <1>3, <1>5, <1>7
<1>9. ChainInv'
  BY <1>4, <1>8 DEF ChainInv, Sources
<1>10. Flows(Serial1, ab \cup {a.line}, uartLine, LineAt(q, a2, 1), PlaceAt(t, q, a2, 1))
  <2>1. CASE q = <<>>
    <3>1. LineAt(q, a2, 1) - 1 = a.line
      BY <1>6, <2>1 DEF LineAt
    <3> QED BY <3>1 DEF Flows
  <2>2. CASE q # <<>>
    <3>1. LineAt(q, a2, 1) = LineAt(q, a, 1) /\ PlaceAt(t, q, a2, 1) = PlaceAt(t, q, a, 1)
      <4>1. 1 <= Len(q)
        BY <1>6, <2>2, EmptySeq
      <4> QED BY <1>6, <4>1 DEF LineAt, PlaceAt
    <3>2. Flows(Serial1, ab, uartLine, LineAt(q, a, 1), PlaceAt(t, q, a, 1))
      BY <1>3, <1>5 DEF FlowsNow, AheadLine, AheadPlace
    <3> QED BY <3>1, <3>2 DEF Flows
  <2> QED BY <2>1, <2>2
<1>11. FlowsNow(Serial1, uartLine)'
  BY <1>1, <1>3, <1>5, <1>10 DEF FlowsNow, AheadLine, AheadPlace
<1> QED BY <1>3, <1>4, <1>9, <1>11

(* a turn of pollStream() on source s with the buffer line *)
LEMMA TakenInOrder ==
  ASSUME TypeOK, TypeOK', ChainInv, NEW s \in Sources, NEW line, LineType(line), stream[s] # <<>>,
         Take(s, line), UNCHANGED senderVars, FlowsNow(s, line)
  PROVE  /\ ChainInv'
         /\ Flows(s, Given(s)', Buffered(Head(stream[s]), line), AheadLine(s)', AheadPlace(s)')
         /\ \A x \in Sources \ {s} : AheadLine(x)' = AheadLine(x) /\ AheadPlace(x)' = AheadPlace(x)
         /\ \A x : Given(x)' = Given(x)
<1>1. /\ text' = text /\ abandoned' = abandoned /\ at' = at
      /\ stream' = [stream EXCEPT ![s] = Tail(stream[s])]
  BY DEF Take, senderVars
<1>2. /\ \A x : Given(x)' = Given(x)
      /\ stream'[s] = Tail(stream[s]) /\ \A x \in Sources \ {s} : stream'[x] = stream[x]
  BY <1>1 DEF Given, TypeOK
<1>3. ASSUME NEW x \in Sources \ {s}
      PROVE  /\ AheadLine(x)' = AheadLine(x) /\ AheadPlace(x)' = AheadPlace(x)
             /\ Chain(x, text[x], Given(x), stream[x], at[x])'
  BY <1>1, <1>2, SameSource DEF ChainInv
<1>4. PICK t, q, a, ab : t = text[s] /\ q = stream[s] /\ a = at[s] /\ ab = Given(s)
  OBVIOUS
<1>5. /\ t \in Seq(Nat) /\ q \in Seq(Byte) /\ a \in [line : Nat, place : Nat] /\ q # <<>>
      /\ Chain(s, t, ab, q, a)
  BY <1>4, TextFacts DEF TypeOK, ChainInv
<1>6. PICK c, n, p, n2, p2 :
        /\ c = Head(q) /\ n = LineAt(q, a, 1) /\ p = PlaceAt(t, q, a, 1)
        /\ n2 = LineAt(Tail(q), a, 1) /\ p2 = PlaceAt(t, Tail(q), a, 1)
  OBVIOUS
<1>7. /\ Chain(s, t, ab, Tail(q), a)
      /\ IsAt(s, t, c, n, p) /\ Succeeds(t, ab, n, p, n2, p2)
  BY <1>5, <1>6, ChainTake
<1>8. Chain(s, text[s], Given(s), stream[s], at[s])'
  BY <1>1, <1>2, <1>4, <1>7
<1>9. ChainInv'
  BY <1>3, <1>8 DEF ChainInv
<1>10. n2 = AheadLine(s)' /\ p2 = AheadPlace(s)'
  BY <1>1, <1>2, <1>4, <1>6, Zenon DEF AheadLine, AheadPlace
<1>11. n2 \in Nat /\ p2 \in Nat
  <2>1. Tail(q) \in Seq(Byte)
    BY <1>5
  <2> QED BY <1>5, <1>6, <1>7, <2>1, PlaceType
<1>12. Flows(s, ab, line, n, p)
  BY <1>4, <1>6, Zenon DEF FlowsNow, AheadLine, AheadPlace
<1>13. c \in Byte
  BY <1>5, <1>6
<1>14. Flows(s, ab, Buffered(c, line), n2, p2)
  BY <1>5, <1>7, <1>11, <1>12, <1>13, FlowTake
<1> QED BY <1>2, <1>3, <1>4, <1>6, <1>9, <1>10, <1>14

LEMMA TakenWhole ==
  ASSUME TypeOK, ChainInv, LinesAreWhole, NEW s \in Sources, NEW line, LineType(line),
         stream[s] # <<>>, Take(s, line), UNCHANGED senderVars, FlowsNow(s, line)
  PROVE  LinesAreWhole'
<1>1. text' = text /\ abandoned' = abandoned
  BY DEF senderVars
<1>2. CASE UNCHANGED handled
  BY <1>1, <1>2 DEF LinesAreWhole, Whole
<1>3. CASE /\ Head(stream[s]).place = EOL
           /\ handled' = [from |-> s, line |-> Head(stream[s]).line, text |-> line]
  <2>1. PICK t, q, a, ab : t = text[s] /\ q = stream[s] /\ a = at[s] /\ ab = Given(s)
    OBVIOUS
  <2>2. /\ t \in Seq(Nat) /\ q \in Seq(Byte) /\ a \in [line : Nat, place : Nat] /\ q # <<>>
        /\ Chain(s, t, ab, q, a)
    BY <2>1, TextFacts DEF TypeOK, ChainInv
  <2>3. PICK n, p : n = LineAt(q, a, 1) /\ p = PlaceAt(t, q, a, 1)
    OBVIOUS
  <2>4. IsAt(s, t, Head(q), n, p)
    BY <2>2, <2>3, ChainTake
  <2>5. Head(q).line = n /\ n \in DOMAIN t /\ p = t[n] + 1
    BY <1>3, <2>1, <2>4 DEF IsAt
  <2>6. Flows(s, ab, line, n, p)
    BY <2>1, <2>3, Zenon DEF FlowsNow, AheadLine, AheadPlace
  <2>7. n - 1 \in ab \/ Complete(s, t, line, n)
    BY <2>2, <2>5, <2>6, FlowEnd
  <2>8. handled' = [from |-> s, line |-> n, text |-> line]
    BY <1>3, <2>1, <2>5
  <2>9. CASE n - 1 \in ab
    <3>1. s = Serial1 /\ n - 1 \in abandoned
      BY <2>1, <2>9 DEF Given
    <3> QED BY <1>1, <2>8, <3>1 DEF LinesAreWhole
  <2>10. CASE Complete(s, t, line, n)
    <3>1. handled'.from = s /\ handled'.line = n /\ handled'.text = line /\ text'[s] = t
      BY <1>1, <2>1, <2>8
    <3>2. Whole(handled)'
      BY <2>10, <3>1, Zenon DEF Whole, Complete
    <3> QED BY <3>2 DEF LinesAreWhole
  <2> QED BY <2>7, <2>9, <2>10
<1> QED BY <1>2, <1>3 DEF Take

LEMMA OrderInit == Init => OrderInv
<1> SUFFICES ASSUME Init PROVE OrderInv
  OBVIOUS
<1>1. \A s \in Sources : stream[s] = <<>> /\ at[s] = [line |-> 1, place |-> 1]
  BY DEF Init
<1>2. ASSUME NEW s \in Sources PROVE AheadLine(s) = 1 /\ AheadPlace(s) = 1
  BY <1>1 DEF AheadLine, AheadPlace, LineAt, PlaceAt
<1>3. ChainInv
  BY <1>1, ChainEmpty DEF ChainInv
<1>4. ClientInv
  BY <1>1, SourceFacts DEF Init, ClientInv
<1>5. FlowInv
  <2>1. Flows(Serial1, Given(Serial1), <<>>, 1, 1)
    BY FlowStart
  <2> QED BY <1>2, <2>1, SourceFacts DEF Init, FlowInv, FlowsNow
<1>6. LinesAreWhole
  BY DEF Init, LinesAreWhole, Whole
<1> QED BY <1>3, <1>4, <1>5, <1>6 DEF OrderInv

(* a step of a controller that leaves what is ahead of each port *)
LEMMA AheadKept ==
  ASSUME FlowInv, UNCHANGED <<current, netLine, uartLine>>,
         NEW S, S \subseteq Sources, Serial1 \in S, current # None /\ peer'[current] # "cut" => current \in S,
         current # None /\ peer'[current] # "cut" => peer[current] # "cut",
         \A x \in S : AheadLine(x)' = AheadLine(x) /\ AheadPlace(x)' = AheadPlace(x)
                     /\ Given(x)' = Given(x)
  PROVE  FlowInv'
BY Zenon DEF FlowInv, FlowsNow

LEMMA HandledKept ==
  ASSUME LinesAreWhole, text' = text, handled' = handled, abandoned \subseteq abandoned'
  PROVE  LinesAreWhole'
BY DEF LinesAreWhole, Whole

LEMMA ControllerStep ==
  ASSUME TypeOK, TypeOK', AtInv, OrderInv,
         \/ \E c \in Clients : Connect(c) \/ Close(c) \/ CutOff(c)
         \/ \E s \in Sources : SendByte(s)
         \/ Replug
  PROVE  OrderInv'
<1> USE SourceFacts
<1>0. ChainInv /\ ClientInv /\ FlowInv /\ LinesAreWhole
  BY DEF OrderInv
<1>1. ASSUME NEW c \in Clients, Connect(c) PROVE OrderInv'
  <2>1. /\ text' = text /\ at' = at /\ stream' = stream /\ abandoned' = abandoned
        /\ peer[c] = "idle" /\ peer' = [peer EXCEPT ![c] = "open"] /\ waiting' = c
        /\ UNCHANGED <<current, netLine, uartLine, handled>>
    BY <1>1 DEF Connect, Untouched
  <2>2. \A x : Given(x)' = Given(x)
    BY <2>1 DEF Given
  <2>3. ASSUME NEW x \in Sources
        PROVE  /\ AheadLine(x)' = AheadLine(x) /\ AheadPlace(x)' = AheadPlace(x)
               /\ Chain(x, text[x], Given(x), stream[x], at[x])'
    BY <1>0, <2>1, <2>2, SameSource DEF ChainInv
  <2>4. AheadLine(c) = 1 /\ AheadPlace(c) = 1
    <3>1. stream[c] = <<>> /\ at[c].line = 1 /\ at[c].place = 1
      BY <1>0, <2>1 DEF ClientInv
    <3> QED BY <3>1 DEF AheadLine, AheadPlace, LineAt, PlaceAt
  <2>5. ClientInv'
    <3>1. c # current
      BY <1>0, <2>1 DEF ClientInv
    <3> QED BY <1>0, <2>1, <2>3, <2>4, <3>1 DEF ClientInv, TypeOK
  <2>6. FlowInv'
    <3>1. current # None /\ peer'[current] # "cut" => peer[current] # "cut"
      BY <2>1 DEF TypeOK
    <3>2. current # None => current \in Sources
      BY DEF TypeOK
    <3> QED BY <1>0, <2>1, <2>2, <2>3, <3>1, <3>2, AheadKept
  <2>7. LinesAreWhole'
    BY <1>0, <2>1, HandledKept
  <2> QED BY <2>3, <2>5, <2>6, <2>7 DEF OrderInv, ChainInv
<1>2. ASSUME NEW c \in Clients, Close(c) PROVE OrderInv'
  <2>1. /\ text' = text /\ at' = at /\ stream' = stream /\ abandoned' = abandoned
        /\ peer[c] = "open" /\ peer' = [peer EXCEPT ![c] = "closed"] /\ waiting' = waiting
        /\ UNCHANGED <<current, netLine, uartLine, handled>>
    BY <1>2 DEF Close, Untouched
  <2>2. \A x : Given(x)' = Given(x)
    BY <2>1 DEF Given
  <2>3. ASSUME NEW x \in Sources
        PROVE  /\ AheadLine(x)' = AheadLine(x) /\ AheadPlace(x)' = AheadPlace(x)
               /\ Chain(x, text[x], Given(x), stream[x], at[x])'
    BY <1>0, <2>1, <2>2, SameSource DEF ChainInv
  <2>5. ClientInv'
    <3>1. waiting # None => waiting \in Sources
      BY DEF TypeOK
    <3> QED BY <1>0, <2>1, <2>3, <3>1 DEF ClientInv, TypeOK
  <2>6. FlowInv'
    <3>1. current # None /\ peer'[current] # "cut" => peer[current] # "cut"
      BY <2>1 DEF TypeOK
    <3>2. current # None => current \in Sources
      BY DEF TypeOK
    <3> QED BY <1>0, <2>1, <2>2, <2>3, <3>1, <3>2, AheadKept
  <2>7. LinesAreWhole'
    BY <1>0, <2>1, HandledKept
  <2> QED BY <2>3, <2>5, <2>6, <2>7 DEF OrderInv, ChainInv
<1>3. ASSUME NEW c \in Clients, CutOff(c) PROVE OrderInv'
  <2>1. /\ text' = text /\ at' = at /\ stream' = [stream EXCEPT ![c] = <<>>]
        /\ abandoned' = abandoned
        /\ peer[c] # "idle" /\ peer' = [peer EXCEPT ![c] = "cut"]
        /\ waiting' = IF waiting = c THEN None ELSE waiting
        /\ UNCHANGED <<current, netLine, uartLine, handled>>
    BY <1>3 DEF CutOff, Untouched
  <2>2. /\ \A x : Given(x)' = Given(x)
        /\ stream'[c] = <<>> /\ \A x \in Sources \ {c} : stream'[x] = stream[x]
    BY <2>1 DEF Given, TypeOK
  <2>3. ASSUME NEW x \in Sources \ {c}
        PROVE  /\ AheadLine(x)' = AheadLine(x) /\ AheadPlace(x)' = AheadPlace(x)
               /\ Chain(x, text[x], Given(x), stream[x], at[x])'
    BY <1>0, <2>1, <2>2, SameSource DEF ChainInv
  <2>4. Chain(c, text[c], Given(c), stream[c], at[c])'
    BY <2>2, ChainEmpty
  <2>5. ClientInv'
    <3>1. waiting # None /\ waiting # c => waiting \in Sources \ {c}
      BY DEF TypeOK
    <3>2. \A x \in Clients :
            /\ peer'[x] \in {"idle", "cut"} => stream'[x] = <<>>
            /\ peer'[x] = "idle" => at'[x].line = 1 /\ at'[x].place = 1 /\ x # current' /\ x # waiting'
      BY <1>0, <2>1, <2>2 DEF ClientInv, TypeOK
    <3>3. waiting' # None => waiting' = waiting /\ waiting # c /\ waiting # None
      BY <2>1
    <3>4. waiting' # None => /\ waiting' # current'
                            /\ AheadLine(waiting)' = 1 /\ AheadPlace(waiting)' = 1
      <4> SUFFICES ASSUME waiting' # None
                   PROVE  waiting' # current' /\ AheadLine(waiting)' = 1 /\ AheadPlace(waiting)' = 1
        OBVIOUS
      <4>1. waiting # current /\ AheadLine(waiting) = 1 /\ AheadPlace(waiting) = 1
        BY <1>0, <3>3 DEF ClientInv
      <4>2. PICK w \in Sources \ {c} : w = waiting
        BY <3>1, <3>3
      <4>3. AheadLine(w)' = 1 /\ AheadPlace(w)' = 1
        BY <2>3, <4>1, <4>2
      <4>4. w = waiting'
        BY <3>3, <4>2
      <4> QED BY <2>1, <3>3, <4>1, <4>2, <4>3, <4>4
    <3> QED BY <3>2, <3>4 DEF ClientInv
  <2>6. FlowInv'
    <3>1. current # None /\ peer'[current] # "cut" => peer[current] # "cut" /\ current \in Sources \ {c}
      BY <2>1 DEF TypeOK
    <3> QED BY <1>0, <2>1, <2>2, <2>3, <3>1, AheadKept
  <2>7. LinesAreWhole'
    BY <1>0, <2>1, HandledKept
  <2> QED BY <2>3, <2>4, <2>5, <2>6, <2>7 DEF OrderInv, ChainInv
<1>4. ASSUME NEW s \in Sources, SendByte(s) PROVE OrderInv'
  <2>1. /\ text' = text /\ abandoned' = abandoned /\ peer' = peer /\ waiting' = waiting
        /\ \A c \in Clients \ {s} : at'[c] = at[c] /\ stream'[c] = stream[c]
        /\ UNCHANGED <<current, netLine, uartLine, handled>>
        /\ s \in Clients => peer[s] = "open"
    BY <1>4 DEF SendByte, Untouched, NextLine, TypeOK
  <2>2. \A x : Given(x)' = Given(x)
    BY <2>1 DEF Given
  <2>3. /\ ChainInv'
        /\ \A x \in Sources : AheadLine(x)' = AheadLine(x) /\ AheadPlace(x)' = AheadPlace(x)
    BY <1>0, <1>4, SentInOrder
  <2>5. ClientInv'
    <3>1. waiting # None => waiting \in Sources
      BY DEF TypeOK
    <3> QED BY <1>0, <2>1, <2>3, <3>1 DEF ClientInv
  <2>6. FlowInv'
    <3>2. current # None => current \in Sources
      BY DEF TypeOK
    <3> QED BY <1>0, <2>1, <2>2, <2>3, <3>2, AheadKept
  <2>7. LinesAreWhole'
    BY <1>0, <2>1, HandledKept
  <2> QED BY <2>3, <2>5, <2>6, <2>7 DEF OrderInv
<1>5. ASSUME Replug PROVE OrderInv'
  <2>1. /\ text' = text /\ abandoned \subseteq abandoned' /\ peer' = peer /\ waiting' = waiting
        /\ stream' = stream /\ \A c \in Clients : at'[c] = at[c]
        /\ UNCHANGED <<current, netLine, uartLine, handled>>
    BY <1>5 DEF Replug, Untouched, NextLine, TypeOK
  <2>2. FlowsNow(Serial1, uartLine)
    BY <1>0 DEF FlowInv
  <2>3. /\ ChainInv' /\ FlowsNow(Serial1, uartLine)'
        /\ \A c \in Clients : AheadLine(c)' = AheadLine(c) /\ AheadPlace(c)' = AheadPlace(c)
                              /\ Given(c)' = Given(c)
    BY <1>0, <1>5, <2>2, ReplugInOrder
  <2>5. ClientInv'
    <3>1. waiting # None => waiting \in Clients
      BY DEF TypeOK
    <3> QED BY <1>0, <2>1, <2>3, <3>1 DEF ClientInv
  <2>6. FlowInv'
    <3>1. current # None => current \in Clients
      BY DEF TypeOK
    <3>2. current # None /\ peer[current] # "cut" => FlowsNow(current, netLine)'
      BY <1>0, <2>1, <2>3, <3>1, Zenon DEF FlowInv, FlowsNow
    <3> QED BY <2>1, <2>3, <3>2, Zenon DEF FlowInv
  <2>7. LinesAreWhole'
    BY <1>0, <2>1, HandledKept
  <2> QED BY <2>3, <2>5, <2>6, <2>7 DEF OrderInv
<1> QED BY <1>1, <1>2, <1>3, <1>4, <1>5

(* nothing of the invariant changes *)
LEMMA OrderKept ==
  ASSUME OrderInv, UNCHANGED <<senderVars, stream, channelVars, netLine, uartLine, handled>>
  PROVE  OrderInv'
<1>1. ChainInv'
  BY Zenon DEF OrderInv, ChainInv, Given, senderVars
<1>2. ClientInv'
  BY Zenon DEF OrderInv, ClientInv, AheadLine, AheadPlace, senderVars, channelVars
<1>3. FlowInv'
  BY Zenon DEF OrderInv, FlowInv, FlowsNow, Given, AheadLine, AheadPlace, senderVars, channelVars
<1>4. LinesAreWhole'
  BY HandledKept DEF OrderInv, senderVars
<1> QED BY <1>1, <1>2, <1>3, <1>4 DEF OrderInv

LEMMA AcceptStep == ASSUME TypeOK, TypeOK', OrderInv, AcceptClient PROVE OrderInv'
<1> USE SourceFacts
<1>0. ChainInv /\ ClientInv /\ FlowInv /\ LinesAreWhole
  BY DEF OrderInv
<1>1. /\ text' = text /\ peer' = peer /\ at' = at /\ abandoned' = abandoned
      /\ uartLine' = uartLine /\ handled' = handled
  BY DEF AcceptClient, senderVars
<1>2. \A x : Given(x)' = Given(x)
  BY <1>1 DEF Given
<1>3. LinesAreWhole'
  BY <1>0, <1>1, HandledKept
<1>4. ASSUME waiting # None, TakeOver PROVE OrderInv'
  <2>1. /\ current' = waiting /\ waiting' = None /\ netLine' = <<>>
        /\ stream' = stream \/ (current # None /\ stream' = [stream EXCEPT ![current] = <<>>])
    BY <1>4 DEF TakeOver
  <2>2. waiting \in Clients /\ waiting # current
    BY <1>0, <1>4 DEF ClientInv, TypeOK
  <2>3. \A x \in Sources : x # current => stream'[x] = stream[x]
    BY <2>1 DEF TypeOK
  <2>4. current # None => current \in Clients /\ (stream'[current] = stream[current] \/ stream'[current] = <<>>)
    BY <2>1 DEF TypeOK
  <2>5. ASSUME NEW x \in Sources, stream'[x] = stream[x]
        PROVE  /\ AheadLine(x)' = AheadLine(x) /\ AheadPlace(x)' = AheadPlace(x)
               /\ Chain(x, text[x], Given(x), stream[x], at[x])'
               /\ \A line : FlowsNow(x, line) => Flows(x, Given(x)', line, AheadLine(x)', AheadPlace(x)')
    BY <1>0, <1>1, <1>2, <2>5, SameSource DEF ChainInv
  <2>6. ChainInv'
    <3> SUFFICES ASSUME NEW x \in Sources PROVE Chain(x, text[x], Given(x), stream[x], at[x])'
      BY DEF ChainInv
    <3>1. CASE stream'[x] = stream[x]
      BY <2>5, <3>1
    <3>2. CASE stream'[x] = <<>>
      BY <3>2, ChainEmpty
    <3> QED BY <2>3, <2>4, <3>1, <3>2
  <2>7. ClientInv'
    <3>1. ASSUME NEW c \in Clients, peer'[c] = "idle"
          PROVE  at'[c].line = 1 /\ at'[c].place = 1 /\ c # current' /\ c # waiting'
      BY <1>0, <1>1, <2>1, <3>1 DEF ClientInv
    <3>2. ASSUME NEW c \in Clients, peer'[c] \in {"idle", "cut"} PROVE stream'[c] = <<>>
      BY <1>0, <1>1, <2>3, <2>4, <3>2 DEF ClientInv
    <3> QED BY <2>1, <3>1, <3>2 DEF ClientInv
  <2>8. FlowsNow(Serial1, uartLine)'
    <3>1. stream'[Serial1] = stream[Serial1]
      BY <2>3, <2>4
    <3>2. FlowsNow(Serial1, uartLine)
      BY <1>0 DEF FlowInv
    <3> QED BY <1>1, <2>5, <3>1, <3>2, Zenon DEF FlowsNow
  <2>9. FlowsNow(current, netLine)'
    <3>1. PICK w \in Clients : w = waiting
      BY <2>2
    <3>2. stream'[w] = stream[w]
      BY <2>2, <2>3, <3>1
    <3>3. AheadLine(w) = 1 /\ AheadPlace(w) = 1
      BY <1>0, <1>4, <3>1 DEF ClientInv
    <3>4. AheadLine(w)' = 1 /\ AheadPlace(w)' = 1
      BY <2>5, <3>2, <3>3
    <3>5. Flows(w, Given(w)', <<>>, 1, 1)
      BY FlowStart
    <3>6. FlowsNow(w, netLine)'
      BY <2>1, <3>4, <3>5, Zenon DEF FlowsNow
    <3>7. current' = w
      BY <2>1, <3>1
    <3> QED BY <3>6, <3>7, Zenon DEF FlowsNow, Given, AheadLine, AheadPlace
  <2> QED BY <1>3, <2>6, <2>7, <2>8, <2>9 DEF OrderInv, FlowInv
<1>5. ASSUME Stop PROVE OrderInv'
  <2>1. current' = None /\ stream' = stream /\ waiting' = waiting /\ netLine' = netLine
    BY <1>5 DEF Stop
  <2>2. ChainInv'
    BY <1>0, <1>1, <1>2, <2>1, Zenon DEF ChainInv
  <2>3. ClientInv'
    <3>1. \A c \in Clients : c # None
      OBVIOUS
    <3>2. AheadLine(waiting)' = AheadLine(waiting) /\ AheadPlace(waiting)' = AheadPlace(waiting)
      BY <1>1, <2>1, Zenon DEF AheadLine, AheadPlace
    <3> QED BY <1>0, <1>1, <2>1, <3>1, <3>2 DEF ClientInv
  <2>4. FlowsNow(Serial1, uartLine)'
    BY <1>0, <1>1, <1>2, <2>1, Zenon DEF FlowInv, FlowsNow, AheadLine, AheadPlace
  <2> QED BY <1>3, <2>1, <2>2, <2>3, <2>4 DEF OrderInv, FlowInv
<1>6. ASSUME UNCHANGED <<stream, waiting, current, netLine, replaced>> PROVE OrderInv'
  BY <1>1, <1>6, OrderKept DEF AcceptClient, channelVars
<1> QED BY <1>4, <1>5, <1>6 DEF AcceptClient

LEMMA ReadStep ==
  ASSUME TypeOK, TypeOK', OrderInv, ReadByte \/ ReadSerialByte PROVE OrderInv'
<1> USE SourceFacts
<1>0. ChainInv /\ ClientInv /\ FlowInv /\ LinesAreWhole
  BY DEF OrderInv
<1>1. ASSUME NEW s \in Sources, NEW line, LineType(line), stream[s] # <<>>, Take(s, line),
             UNCHANGED <<senderVars, channelVars>>, FlowsNow(s, line),
             s \in Clients => s = current
      PROVE  ChainInv' /\ ClientInv' /\ LinesAreWhole'
  <2>1. ChainInv' /\ LinesAreWhole'
    BY <1>0, <1>1, TakenInOrder, TakenWhole
  <2>2. /\ peer' = peer /\ at' = at /\ waiting' = waiting /\ current' = current
        /\ \A c \in Clients \ {s} : stream'[c] = stream[c]
    BY <1>1 DEF senderVars, channelVars, Take, TypeOK
  <2>3. \A x \in Sources \ {s} : AheadLine(x)' = AheadLine(x) /\ AheadPlace(x)' = AheadPlace(x)
    BY <1>0, <1>1, TakenInOrder
  <2>4. waiting # None => waiting \in Sources \ {s}
    BY <1>0, <1>1 DEF ClientInv, TypeOK
  <2>5. s \in Clients => peer[s] \notin {"idle", "cut"}
    BY <1>0, <1>1 DEF ClientInv
  <2>6. \A c \in Clients :
          /\ peer'[c] \in {"idle", "cut"} => stream'[c] = <<>>
          /\ peer'[c] = "idle" => at'[c].line = 1 /\ at'[c].place = 1 /\ c # current' /\ c # waiting'
    BY <1>0, <2>2, <2>5 DEF ClientInv
  <2>7. waiting' # None => waiting' # current' /\ AheadLine(waiting)' = 1 /\ AheadPlace(waiting)' = 1
    <3> SUFFICES ASSUME waiting # None
                 PROVE  waiting' # current' /\ AheadLine(waiting)' = 1 /\ AheadPlace(waiting)' = 1
      BY <2>2
    <3>1. PICK w \in Sources \ {s} : w = waiting
      BY <2>4
    <3>2. AheadLine(w)' = 1 /\ AheadPlace(w)' = 1 /\ w # current
      BY <1>0, <2>3, <3>1 DEF ClientInv
    <3>3. w = waiting'
      BY <2>2, <3>1
    <3> QED BY <2>2, <3>1, <3>2, <3>3
  <2> QED BY <2>1, <2>6, <2>7 DEF ClientInv
<1>2. ASSUME ReadByte PROVE OrderInv'
  <2>1. /\ current \in Clients /\ current # None /\ stream[current] # <<>>
        /\ Take(current, netLine) /\ netLine' = Buffered(Head(stream[current]), netLine)
        /\ UNCHANGED <<senderVars, channelVars>> /\ uartLine' = uartLine
        /\ LineType(netLine)
    BY <1>2 DEF ReadByte, TypeOK, LineType
  <2>2. FlowsNow(current, netLine)
    BY <1>0, <2>1 DEF ClientInv, FlowInv
  <2>3. PICK s \in Clients : s = current
    BY <2>1
  <2>4. /\ Flows(s, Given(s)', netLine', AheadLine(s)', AheadPlace(s)')
        /\ \A x \in Sources \ {s} : AheadLine(x)' = AheadLine(x) /\ AheadPlace(x)' = AheadPlace(x)
        /\ \A x : Given(x)' = Given(x)
    BY <1>0, <2>1, <2>2, <2>3, TakenInOrder
  <2>5. FlowsNow(Serial1, uartLine)'
    BY <1>0, <2>1, <2>4, <2>3 DEF FlowInv, FlowsNow
  <2>6. FlowsNow(current, netLine)'
    <3>1. current' = s
      BY <2>1, <2>3 DEF channelVars
    <3> QED BY <2>4, <3>1, Zenon DEF FlowsNow, Given, AheadLine, AheadPlace
  <2>7. ChainInv' /\ ClientInv' /\ LinesAreWhole'
    BY <1>1, <2>1, <2>2
  <2> QED BY <2>5, <2>6, <2>7 DEF OrderInv, FlowInv
<1>3. ASSUME ReadSerialByte PROVE OrderInv'
  <2>1. /\ Serial1 \in Sources /\ stream[Serial1] # <<>>
        /\ Take(Serial1, uartLine) /\ uartLine' = Buffered(Head(stream[Serial1]), uartLine)
        /\ UNCHANGED <<senderVars, channelVars>> /\ netLine' = netLine
        /\ LineType(uartLine)
    BY <1>3 DEF ReadSerialByte, TypeOK, LineType
  <2>2. FlowsNow(Serial1, uartLine)
    BY <1>0 DEF FlowInv
  <2>4. /\ Flows(Serial1, Given(Serial1)', uartLine', AheadLine(Serial1)', AheadPlace(Serial1)')
        /\ \A x \in Sources \ {Serial1} : AheadLine(x)' = AheadLine(x) /\ AheadPlace(x)' = AheadPlace(x)
        /\ \A x : Given(x)' = Given(x)
    BY <1>0, <2>1, <2>2, TakenInOrder
  <2>5. FlowsNow(Serial1, uartLine)'
    BY <2>4, Zenon DEF FlowsNow
  <2>6. current' # None /\ peer'[current'] # "cut" => FlowsNow(current, netLine)'
    <3>0. current' = current /\ peer' = peer
      BY <2>1 DEF senderVars, channelVars
    <3> SUFFICES ASSUME current # None, peer[current] # "cut" PROVE FlowsNow(current, netLine)'
      BY <3>0
    <3>1. PICK c \in Sources \ {Serial1} : c = current
      BY DEF TypeOK
    <3>2. FlowsNow(c, netLine)
      BY <1>0, <3>1 DEF FlowInv
    <3>3. FlowsNow(c, netLine)'
      BY <2>1, <2>4, <3>1, <3>2 DEF FlowsNow
    <3>4. current' = c
      BY <3>0, <3>1
    <3> QED BY <3>3, <3>4, Zenon DEF FlowsNow, Given, AheadLine, AheadPlace
  <2>7. ChainInv' /\ ClientInv' /\ LinesAreWhole'
    BY <1>1, <2>1, <2>2
  <2> QED BY <2>5, <2>6, <2>7 DEF OrderInv, FlowInv
<1> QED BY <1>2, <1>3

LEMMA OrderStep == TypeOK /\ TypeOK' /\ AtInv /\ OrderInv /\ [Next]_vars => OrderInv'
<1> SUFFICES ASSUME TypeOK, TypeOK', AtInv, OrderInv, [Next]_vars PROVE OrderInv'
  OBVIOUS
<1>1. EndPoll => OrderInv'
  BY OrderKept DEF EndPoll
<1>2. UNCHANGED vars => OrderInv'
  BY OrderKept DEF vars
<1> QED BY <1>1, <1>2, ControllerStep, AcceptStep, ReadStep DEF Next, LoopStep

(* Every line handleCommand() gets is the whole of one line of one         *)
(* controller, or the end of one that was too long for the buffer: no half *)
(* line is executed or glued to another's, whatever clients stop in the    *)
(* middle of a line, replace one another or are cut off, for lines of any  *)
(* length and a buffer of any capacity; a half line left on the UART       *)
(* spoils the next line and no more.                                       *)
THEOREM EveryLineIsWhole == Spec => []LinesAreWhole
<1>1. Init => TypeOK /\ AtInv /\ OrderInv
  BY InitFacts, OrderInit
<1>2. TypeOK /\ AtInv /\ OrderInv /\ [Next]_vars => (TypeOK /\ AtInv /\ OrderInv)'
  BY TypeStep, AtStep, OrderStep
<1>3. OrderInv => LinesAreWhole
  BY DEF OrderInv
<1> QED BY <1>1, <1>2, <1>3, PTL DEF Spec
=============================================================================
