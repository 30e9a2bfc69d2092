-------------------------- MODULE DriverLinkProofs --------------------------
(***************************************************************************)
(* Theorems about module DriverLink, for either transport or both, any     *)
(* number of lines that _sync() may skip and any number of lines sent.     *)
(***************************************************************************)
EXTENDS DriverLink, SequenceTheorems, TLAPS

-----------------------------------------------------------------------------
(* The inductive invariant.                                                *)

(* the newest line sent *)
Newest(command) == [id |-> sent, cmd |-> command, on |-> conn]

(* The stream the firmware serves and the state of the driver's link. *)
LinkInv ==
  /\ transport = "uart" => taken = conn
  /\ taken = conn => \A i \in 1 .. Len(lines) : lines[i].on = conn
  /\ taken # conn => answers = <<>>
  /\ phase = "sync" => skipped < MaxSkip
  /\ phase \in {"sync", "reply"} => link # "none"
  /\ stage = "resetting" => call = "RESET"

Quiet == taken = conn /\ lines = <<>> /\ answers = <<>>

(* The PING of connect() waits, behind lines of the last connection that   *)
(* will never be read, for the firmware to accept the new one.             *)
Waiting ==
  /\ taken # conn /\ link = "open" /\ lines # <<>> /\ lines[Len(lines)] = Newest("PING")
  /\ \A i \in 1 .. Len(lines) - 1 : lines[i].on # conn

(* No line is on its way but that PING, and its answer comes last. *)
Pinged ==
  /\ taken = conn /\ (lines = <<>> \/ lines = <<Newest("PING")>>)
  /\ \A i \in 1 .. Len(answers) : answers[i].text = "OK PONG" => lines = <<>> /\ i = Len(answers)

(* The command is on its way, or its answer is, or the link is lost. *)
Replying ==
  /\ taken = conn
  /\ lines = <<>> \/ (lines = <<Newest(call)>> /\ answers = <<>>)
  /\ \/ answers = <<>>
     \/ Len(answers) = 1 /\ answers[1].id = sent /\ (call = "RESET" => ~armed)

(* Until a wait is given up, the streams hold what the exchange under way  *)
(* has put there and nothing else.                                         *)
ExchangeInv ==
  owed = "no" =>
    /\ phase \in {"idle", "connect"} /\ link = "open" => Quiet
    /\ phase = "sync" => Waiting \/ Pinged
    /\ phase = "reply" => Replying

-----------------------------------------------------------------------------
(* Lemmas about the streams.                                               *)

LineOf(n, c) == [id : 1 .. n, cmd : Commands, on : {c - 1, c}]
AnswerOf(n) == [id : 0 .. n, text : Texts]

(* The types of the variables that make up the streams, and of the others. *)
StreamType ==
  /\ conn \in Nat /\ taken \in {conn - 1, conn}
  /\ lines \in Seq(LineOf(sent, conn)) /\ answers \in Seq(AnswerOf(sent))
  /\ sent \in 0 .. MaxLines /\ got \in [id : 0 .. sent, for : 0 .. sent]

DriverType ==
  /\ transport \in Transports /\ link \in {"none", "open", "dead"} 
  /\ armed \in BOOLEAN /\ call \in Commands
  /\ stage \in {"outside", "arming", "body", "resetting", "raising", "cleaning"}
  /\ phase \in {"idle", "connect", "sync", "reply"}
  /\ skipped \in 0 .. MaxSkip /\ owed \in {"no", "before", "now"}
  /\ left \in {"none", "clean", "raised", "warned"}

LEMMA Types == TypeOK <=> StreamType /\ DriverType
BY DEF TypeOK, StreamType, DriverType, LineOf, AnswerOf

LEMMA OneElement ==
  ASSUME NEW x
  PROVE  /\ Len(<<x>>) = 1 /\ <<x>>[1] = x /\ Head(<<x>>) = x /\ Tail(<<x>>) = <<>> /\ <<x>> # <<>>
         /\ Append(<<>>, x) = <<x>>
OBVIOUS

LEMMA NoElement == Len(<<>>) = 0
OBVIOUS

(* A sequence with one more line at its end. *)
LongerBy(longer, l, line) ==
  /\ Len(longer) = Len(l) + 1 /\ Len(l) \in Nat /\ longer # <<>>
  /\ longer[Len(longer)] = line /\ \A i \in 1 .. Len(l) : longer[i] = l[i]

(* A line put behind the others, on the connection it was or on the next. *)
LEMMA PutFacts ==
  ASSUME NEW n \in Nat, NEW c \in Nat, NEW l \in Seq(LineOf(n, c)), NEW command \in Commands,
         NEW on \in {c, c + 1},
         on # c => \A i \in 1 .. Len(l) : l[i].on = c
  PROVE  LET line == [id |-> n + 1, cmd |-> command, on |-> on]
         IN  /\ Append(l, line) \in Seq(LineOf(n + 1, on))
             /\ LongerBy(Append(l, line), l, line)
<1> DEFINE new == [id |-> n + 1, cmd |-> command, on |-> on]
<1>1. new \in LineOf(n + 1, on)
  BY DEF LineOf
<1>2. Len(l) \in Nat /\ \A i \in 1 .. Len(l) : l[i] \in LineOf(n, c)
  BY LenProperties, ElementOfSeq
<1>3. ASSUME NEW i \in 1 .. Len(l) PROVE l[i] \in LineOf(n + 1, on)
  BY <1>2, <1>3 DEF LineOf
<1>4. l \in Seq(LineOf(n + 1, on))
  BY <1>2, <1>3, LenProperties
<1> HIDE DEF new
<1>5. LET longer == Append(l, new)
      IN  /\ longer \in Seq(LineOf(n + 1, on)) /\ Len(longer) = Len(l) + 1 /\ longer # <<>>
          /\ longer[Len(l) + 1] = new /\ \A i \in 1 .. Len(l) : longer[i] = l[i]
  BY <1>1, <1>4, AppendProperties
<1> QED BY <1>5, <1>2 DEF new, LongerBy

(* An older answer is still an answer. *)
LEMMA AnswersGrow ==
  ASSUME NEW n \in Nat, NEW a \in Seq(AnswerOf(n)) PROVE a \in Seq(AnswerOf(n + 1))
<1>1. AnswerOf(n) \subseteq AnswerOf(n + 1)
  BY DEF AnswerOf
<1> QED BY <1>1, SeqMonotonic

LEMMA TailFacts ==
  ASSUME NEW S, NEW s \in Seq(S), s # <<>>
  PROVE  /\ Tail(s) \in Seq(S) /\ Head(s) \in S /\ Head(s) = s[1]
         /\ Len(Tail(s)) = Len(s) - 1 /\ Len(s) \in Nat \ {0}
         /\ \A i \in 1 .. Len(s) - 1 : Tail(s)[i] = s[i + 1]
         /\ Len(s) = 1 => Tail(s) = <<>>
<1>1. Tail(s) \in Seq(S) /\ Len(Tail(s)) = Len(s) - 1
  BY HeadTailProperties
<1> QED BY <1>1, HeadTailProperties, EmptySeq

(* What Accept keeps. *)
LEMMA KeptFacts ==
  ASSUME NEW S, NEW s \in Seq(S), NEW old \in 0 .. Len(s)
  PROVE  LET kept == SubSeq(s, old + 1, Len(s))
         IN  /\ kept \in Seq(S) /\ Len(kept) = Len(s) - old
             /\ \A i \in 1 .. Len(s) - old : kept[i] = s[old + i]
<1>1. Len(s) \in Nat /\ \A i \in 1 .. Len(s) : s[i] \in S
  BY LenProperties, ElementOfSeq
<1>2. \A i \in old + 1 .. Len(s) : s[i] \in S
  BY <1>1
<1>3. LET kept == SubSeq(s, old + 1, Len(s))
      IN  /\ kept \in Seq(S)
          /\ Len(kept) = IF old + 1 <= Len(s) THEN Len(s) - (old + 1) + 1 ELSE 0
          /\ \A i \in 1 .. Len(s) - (old + 1) + 1 : kept[i] = s[(old + 1) + i - 1]
  BY <1>1, <1>2, SubSeqProperties
<1> QED BY <1>1, <1>3

-----------------------------------------------------------------------------
(* Type correctness.                                                       *)

LEMMA ReturnedFacts ==
  ASSUME DriverType, Returned
  PROVE  /\ phase' = "idle" /\ stage' \in {"outside", "body", "raising"}
         /\ left' \in {"none", "clean", "raised", "warned"}
BY DEF DriverType, Returned

LEMMA RaisedFacts ==
  ASSUME DriverType, Raised
  PROVE  /\ phase' = "idle" /\ stage' \in {"outside", "body", "raising"}
         /\ left' \in {"none", "clean", "raised", "warned"}
BY DEF DriverType, Raised

(* the steps that leave the streams alone, but for a reply read *)
Begins == UseOutside \/ Enter \/ UseInside \/ Leave \/ Cleanup

LEMMA BeginsFacts ==
  ASSUME Begins
  PROVE  /\ phase = "idle" /\ phase' = "connect" /\ call' \in Commands
         /\ stage' \in {"outside", "arming", "body", "resetting", "cleaning"}
         /\ stage' = "resetting" => call' = "RESET"
         /\ left' \in {left, "none"}
         /\ UNCHANGED <<link, wire, armed, skipped, sent, got, owed>>
BY DEF Begins, UseOutside, Enter, UseInside, Leave, Cleanup, Begin, Commands

LEMMA InitType == Init => StreamType /\ DriverType /\ LinkInv
<1> SUFFICES ASSUME Init PROVE StreamType /\ DriverType /\ LinkInv
  OBVIOUS
<1>1. lines \in Seq(LineOf(sent, conn)) /\ answers \in Seq(AnswerOf(sent))
  BY EmptySeq DEF Init
<1>2. StreamType
  BY <1>1, LinkAssumption DEF Init, StreamType
<1>3. DriverType
  <2>1. 0 \in 0 .. MaxSkip /\ "PING" \in Commands
    BY LinkAssumption DEF Commands
  <2> QED BY <2>1 DEF Init, DriverType
<1>4. LinkInv
  BY NoElement DEF Init, LinkInv
<1> QED BY <1>2, <1>3, <1>4

LEMMA OpenedLines ==
  ASSUME StreamType, LinkInv, NEW on \in {conn, conn + 1}, Opened(on),
         on # conn => transport = "tcp" /\ taken = conn
  PROVE  /\ lines' \in Seq(LineOf(sent + 1, on))
         /\ LongerBy(lines', lines, [id |-> sent + 1, cmd |-> "PING", on |-> on])
<1>1. "PING" \in Commands /\ sent \in Nat /\ conn \in Nat
  BY LinkAssumption DEF StreamType, Commands
<1>2. on # conn => \A i \in 1 .. Len(lines) : lines[i].on = conn
  BY DEF LinkInv
<1>3. lines \in Seq(LineOf(sent, conn))
  BY DEF StreamType
<1>4. lines' = Append(lines, [id |-> sent + 1, cmd |-> "PING", on |-> on])
  BY DEF Opened, Put
<1>5. LET line == [id |-> sent + 1, cmd |-> "PING", on |-> on]
      IN  /\ Append(lines, line) \in Seq(LineOf(sent + 1, on))
          /\ LongerBy(Append(lines, line), lines, line)
  BY <1>1, <1>2, <1>3, PutFacts
<1> QED BY <1>4, <1>5

LEMMA OpenedType ==
  ASSUME StreamType, DriverType, LinkInv, NEW on \in {conn, conn + 1}, Opened(on),
         on # conn => transport = "tcp" /\ taken = conn
  PROVE  StreamType' /\ DriverType' /\ LinkInv'
<1>1. "PING" \in Commands /\ sent \in Nat /\ conn \in Nat
  BY LinkAssumption DEF StreamType, Commands
<1>2. on # conn => \A i \in 1 .. Len(lines) : lines[i].on = conn
  BY DEF LinkInv
<1>3. /\ lines' \in Seq(LineOf(sent + 1, on))
      /\ LongerBy(lines', lines, [id |-> sent + 1, cmd |-> "PING", on |-> on])
  BY OpenedLines
<1>4. answers' \in Seq(AnswerOf(sent'))
  BY EmptySeq DEF Opened
<1>5. StreamType'
  BY <1>1, <1>3, <1>4, LinkAssumption DEF StreamType, Opened
<1>6. DriverType'
  BY LinkAssumption DEF DriverType, Opened
<1>7. LinkInv'
  <2>1. ASSUME taken' = conn', NEW i \in 1 .. Len(lines') PROVE lines'[i].on = conn'
    <3>1. on = conn /\ taken = conn
      BY <2>1, <1>1 DEF Opened, StreamType
    <3>2. CASE i = Len(lines')
      BY <3>2, <1>3, <3>1 DEF LongerBy, Opened
    <3>3. CASE i # Len(lines')
      <4>1. i \in 1 .. Len(lines) /\ lines'[i] = lines[i]
        BY <3>3, <1>3 DEF LongerBy
      <4> QED BY <4>1, <3>1 DEF LinkInv, Opened
    <3> QED BY <3>2, <3>3
  <2>2. phase' = "sync" => skipped' < MaxSkip
    BY LinkAssumption DEF Opened
  <2> QED BY <2>1, <2>2, <1>1 DEF LinkInv, Opened
<1> QED BY <1>5, <1>6, <1>7

LEMMA SyncLineType ==
  ASSUME StreamType, DriverType, LinkInv, SyncLine
  PROVE  StreamType' /\ DriverType' /\ LinkInv'
<1>1. answers' \in Seq(AnswerOf(sent)) /\ taken = conn
  <2>1. Tail(answers) \in Seq(AnswerOf(sent)) /\ <<>> \in Seq(AnswerOf(sent))
    BY TailFacts, EmptySeq DEF StreamType, SyncLine
  <2>2. answers' \in {Tail(answers), <<>>} /\ answers # <<>>
    BY DEF SyncLine
  <2> QED BY <2>1, <2>2 DEF LinkInv
<1>2. StreamType'
  BY <1>1 DEF StreamType, SyncLine
<1>3. skipped' \in 0 .. MaxSkip
  BY LinkAssumption DEF SyncLine, LinkInv, DriverType
<1>4. CASE phase' = "sync"
  <2>1. phase' = phase /\ stage' = stage /\ left' = left /\ link' = link /\ ~TriedAll(skipped')
    BY <1>4, RaisedFacts DEF SyncLine
  <2> QED BY <1>1, <1>2, <1>3, <2>1, LinkAssumption DEF SyncLine, DriverType, LinkInv, TriedAll
<1>5. CASE phase' = "connect"
  <2>1. stage' = stage /\ left' = left /\ link' = link
    BY <1>5, RaisedFacts DEF SyncLine
  <2> QED BY <1>1, <1>2, <1>3, <1>5, <2>1 DEF SyncLine, DriverType, LinkInv
<1>6. CASE phase' # "sync" /\ phase' # "connect"
  <2>1. Raised /\ link' = "none"
    BY <1>6 DEF SyncLine
  <2> QED BY <1>1, <1>2, <1>3, <2>1, RaisedFacts DEF SyncLine, DriverType, LinkInv
<1> QED BY <1>4, <1>5, <1>6

LEMMA SendLines ==
  ASSUME StreamType, DriverType, Send
  PROVE  /\ lines' \in Seq(LineOf(sent + 1, conn))
         /\ LongerBy(lines', lines, [id |-> sent + 1, cmd |-> call, on |-> conn])
<1>1. sent \in Nat /\ conn \in Nat /\ call \in Commands
  BY LinkAssumption DEF StreamType, DriverType
<1>2. lines \in Seq(LineOf(sent, conn))
  BY DEF StreamType
<1>3. lines' = Append(lines, [id |-> sent + 1, cmd |-> call, on |-> conn])
  BY DEF Send, Put
<1>4. LET line == [id |-> sent + 1, cmd |-> call, on |-> conn]
      IN  /\ Append(lines, line) \in Seq(LineOf(sent + 1, conn))
          /\ LongerBy(Append(lines, line), lines, line)
  BY <1>1, <1>2, PutFacts
<1> QED BY <1>3, <1>4

LEMMA SendType ==
  ASSUME StreamType, DriverType, LinkInv, Send
  PROVE  StreamType' /\ DriverType' /\ LinkInv'
<1>1. sent \in Nat /\ conn \in Nat /\ call \in Commands
  BY LinkAssumption DEF StreamType, DriverType
<1>2. /\ lines' \in Seq(LineOf(sent + 1, conn))
      /\ LongerBy(lines', lines, [id |-> sent + 1, cmd |-> call, on |-> conn])
  BY SendLines
<1>3. answers' \in Seq(AnswerOf(sent'))
  BY <1>1, AnswersGrow DEF Send, StreamType
<1>4. StreamType'
  BY <1>1, <1>2, <1>3, LinkAssumption DEF StreamType, Send
<1>5. DriverType'
  BY DEF DriverType, Send
<1>6. LinkInv'
  <2>1. ASSUME taken' = conn', NEW i \in 1 .. Len(lines') PROVE lines'[i].on = conn'
    <3>1. CASE i = Len(lines')
      BY <3>1, <1>2 DEF LongerBy, Send
    <3>2. CASE i # Len(lines')
      <4>1. i \in 1 .. Len(lines) /\ lines'[i] = lines[i]
        BY <3>2, <1>2 DEF LongerBy
      <4> QED BY <4>1, <2>1 DEF LinkInv, Send
    <3> QED BY <3>1, <3>2
  <2> QED BY <2>1 DEF LinkInv, Send
<1> QED BY <1>4, <1>5, <1>6

LEMMA AcceptType ==
  ASSUME StreamType, DriverType, LinkInv, Accept
  PROVE  StreamType' /\ DriverType' /\ LinkInv'
<1>1. PICK old \in 0 .. Len(lines) :
        /\ \A i \in 1 .. Len(lines) : lines[i].on = conn <=> i > old
        /\ lines' = SubSeq(lines, old + 1, Len(lines))
  BY DEF Accept
<1>2. /\ lines' \in Seq(LineOf(sent, conn)) /\ Len(lines') = Len(lines) - old /\ Len(lines) \in Nat
      /\ \A i \in 1 .. Len(lines) - old : lines'[i] = lines[old + i]
  BY <1>1, KeptFacts, LenProperties DEF StreamType
<1>3. \A i \in 1 .. Len(lines') : lines'[i].on = conn
  <2> TAKE i \in 1 .. Len(lines')
  <2>1. old + i \in 1 .. Len(lines) /\ old + i > old /\ lines'[i] = lines[old + i]
    BY <1>2
  <2> QED BY <2>1, <1>1
<1>4. answers' \in Seq(AnswerOf(sent))
  <2>1. Greeting \in AnswerOf(sent)
    <3>1. 0 \in 0 .. sent
      BY LinkAssumption DEF StreamType
    <3> QED BY <3>1 DEF Greeting, AnswerOf, Texts
  <2>2. <<Greeting, Greeting>> \in Seq(AnswerOf(sent))
    BY <2>1
  <2> QED BY <2>2 DEF Accept, StreamType
<1>5. StreamType'
  BY <1>2, <1>4 DEF StreamType, Accept
<1>6. DriverType'
  BY DEF DriverType, Accept
<1>7. LinkInv'
  BY <1>3 DEF LinkInv, Accept
<1> QED BY <1>5, <1>6, <1>7

LEMMA ExecuteType ==
  ASSUME StreamType, DriverType, LinkInv, Execute
  PROVE  StreamType' /\ DriverType' /\ LinkInv'
<1>1. /\ lines' \in Seq(LineOf(sent, conn)) /\ Head(lines) \in LineOf(sent, conn)
      /\ Len(lines') = Len(lines) - 1 /\ Len(lines) \in Nat \ {0}
      /\ \A i \in 1 .. Len(lines) - 1 : lines'[i] = lines[i + 1]
  BY TailFacts DEF Execute, StreamType
<1>2. \A i \in 1 .. Len(lines') : i + 1 \in 1 .. Len(lines) /\ lines'[i] = lines[i + 1]
  BY <1>1
<1>3. [id |-> Head(lines).id, text |-> Answer(Head(lines).cmd)] \in AnswerOf(sent)
  <2>1. Head(lines).id \in 0 .. sent
    BY <1>1, LinkAssumption DEF LineOf, StreamType
  <2>2. Answer(Head(lines).cmd) \in Texts
    BY DEF Answer, Texts
  <2> QED BY <2>1, <2>2 DEF AnswerOf
<1>4. answers' \in Seq(AnswerOf(sent)) /\ (taken # conn => answers' = answers)
  BY <1>3, AppendProperties DEF Execute, StreamType
<1>5. StreamType'
  BY <1>1, <1>4 DEF StreamType, Execute
<1>6. DriverType'
  BY DEF DriverType, Execute
<1>7. LinkInv'
  BY <1>2, <1>4 DEF LinkInv, Execute
<1> QED BY <1>5, <1>6, <1>7

LEMMA NextType ==
  ASSUME StreamType, DriverType, LinkInv, [Next]_vars
  PROVE  StreamType' /\ DriverType' /\ LinkInv'
<1>1. CASE Begins
  <2>1. StreamType' /\ DriverType'
    BY <1>1, BeginsFacts DEF StreamType, DriverType, wire
  <2> QED BY <2>1, <1>1, BeginsFacts DEF LinkInv, wire
<1>2. CASE BodyRaises
  BY <1>2 DEF BodyRaises, StreamType, DriverType, LinkInv, wire
<1>3. CASE Close
  <2>1. answers' \in Seq(AnswerOf(sent'))
    BY <1>3, EmptySeq DEF Close
  <2>2. StreamType' /\ DriverType'
    BY <1>3, <2>1 DEF Close, StreamType, DriverType
  <2> QED BY <1>3, <2>2 DEF Close, LinkInv
<1>4. CASE OpenSocket
  BY <1>4, OpenedType DEF OpenSocket
<1>5. CASE OpenSerial
  BY <1>5, OpenedType DEF OpenSerial
<1>6. CASE Unreachable \/ SendFails
  <2>1. Raised /\ UNCHANGED <<link, wire, armed, call, skipped, sent, got, owed>>
    BY <1>6 DEF Unreachable, SendFails
  <2>2. StreamType' /\ DriverType'
    BY <2>1, RaisedFacts DEF StreamType, DriverType, wire
  <2> QED BY <2>1, <2>2, RaisedFacts DEF LinkInv, wire
<1>7. CASE SyncLine
  BY <1>7, SyncLineType
<1>8. CASE SyncFails \/ ReplyLate
  <2>1. /\ Raised /\ link' \in {link, "none"} /\ owed' = "now"
        /\ UNCHANGED <<wire, armed, call, skipped, sent, got>>
    BY <1>8 DEF SyncFails, ReplyLate
  <2>2. StreamType' /\ DriverType'
    BY <2>1, RaisedFacts DEF StreamType, DriverType, wire
  <2> QED BY <2>1, <2>2, RaisedFacts DEF LinkInv, wire
<1>9. CASE Send
  BY <1>9, SendType
<1>10. CASE Reply
  <2>1. answers' \in Seq(AnswerOf(sent)) /\ Head(answers) \in AnswerOf(sent)
    BY <1>10, TailFacts DEF StreamType, Reply
  <2>2. /\ phase' = "idle" /\ stage' \in {"outside", "body", "raising"}
        /\ left' \in {"none", "clean", "raised", "warned"}
    BY <1>10, ReturnedFacts, RaisedFacts DEF Reply
  <2>3. got' \in [id : 0 .. sent, for : 0 .. sent]
    BY <1>10, <2>1, LinkAssumption DEF Reply, StreamType, AnswerOf
  <2>4. StreamType' /\ DriverType'
    BY <1>10, <2>1, <2>2, <2>3 DEF Reply, StreamType, DriverType
  <2> QED BY <1>10, <2>2, <2>4 DEF Reply, LinkInv
<1>11. CASE Accept
  BY <1>11, AcceptType
<1>12. CASE Execute
  BY <1>12, ExecuteType
<1>13. CASE LeaseExpires
  <2>1. StreamType' /\ LinkInv'
    BY <1>13 DEF LeaseExpires, StreamType, LinkInv, wire
  <2>2. DriverType'
    BY <1>13 DEF LeaseExpires, DriverType, wire
  <2> QED BY <2>1, <2>2
<1>14. CASE Drop
  <2>1. lines' \in Seq(LineOf(sent, conn)) /\ Len(lines') = 0
    BY <1>14, EmptySeq DEF Drop
  <2>2. StreamType' /\ DriverType'
    BY <1>14, <2>1 DEF Drop, StreamType, DriverType
  <2> QED BY <1>14, <2>1, <2>2 DEF Drop, LinkInv
<1>15. CASE UNCHANGED vars
  BY <1>15 DEF vars, StreamType, DriverType, LinkInv
<1> QED BY <1>1, <1>2, <1>3, <1>4, <1>5, <1>6, <1>7, <1>8, <1>9, <1>10, <1>11, <1>12, <1>13, <1>14, <1>15
           DEF Next, Begins

(* Every variable keeps its type: in particular the lines on their way are *)
(* all of the connection the firmware serves or of the one after it, and   *)
(* _sync() never skips more lines than max_lines.                          *)
THEOREM TypeCorrect == Spec => []TypeOK
<1>1. StreamType /\ DriverType /\ LinkInv /\ [Next]_vars => StreamType' /\ DriverType' /\ LinkInv'
  BY NextType
<1> QED BY <1>1, InitType, Types, PTL DEF Spec

-----------------------------------------------------------------------------
(* What the streams hold during an exchange.                               *)

LEMMA InitExchange == Init => ExchangeInv /\ Aligned
BY DEF Init, ExchangeInv, Quiet, Aligned

(* A sequence of one element, by its length. *)
LEMMA OneLong ==
  ASSUME NEW S, NEW s \in Seq(S), Len(s) = 1 PROVE s = <<s[1]>>
OBVIOUS

LEMMA OpenedExchange ==
  ASSUME StreamType, LinkInv, NEW on \in {conn, conn + 1}, Opened(on), owed' = "no",
         on # conn => transport = "tcp" /\ taken = conn,
         on = conn => transport = "uart"
  PROVE  Waiting' \/ Pinged'
<1>1. LongerBy(lines', lines, [id |-> sent + 1, cmd |-> "PING", on |-> on])
  BY OpenedLines
<1>2. conn \in Nat /\ taken \in Int
  BY DEF StreamType
<1>3. CASE on = conn
  <2>1. taken' = conn' /\ answers' = <<>> /\ lines = <<>>
    BY <1>3 DEF LinkInv, Opened
  <2>2. lines' = <<[id |-> sent', cmd |-> "PING", on |-> conn']>>
    BY <2>1, OneElement DEF Opened, Put
  <2> QED BY <2>1, <2>2, NoElement DEF Pinged, Newest
<1>4. CASE on # conn
  <2>1. taken = conn /\ on = conn + 1
    BY <1>4
  <2>2. \A i \in 1 .. Len(lines') - 1 : lines'[i].on = conn
    BY <1>1, <2>1 DEF LongerBy, LinkInv
  <2>3. lines' # <<>> /\ lines'[Len(lines')] = [id |-> sent', cmd |-> "PING", on |-> conn']
    BY <1>1 DEF LongerBy, Opened
  <2>4. taken' # conn' /\ conn' # conn /\ link' = "open"
    BY <2>1, <1>2 DEF Opened
  <2> QED BY <2>2, <2>3, <2>4 DEF Waiting, Newest
<1> QED BY <1>3, <1>4

LEMMA SyncLineExchange ==
  ASSUME StreamType, DriverType, LinkInv, ExchangeInv, SyncLine, owed = "no"
  PROVE  ExchangeInv'
<1>1. Pinged /\ answers # <<>>
  BY DEF LinkInv, ExchangeInv, SyncLine, Waiting
<1>2. /\ Head(answers) = answers[1] /\ Len(answers) \in Nat \ {0}
      /\ Len(Tail(answers)) = Len(answers) - 1
      /\ \A i \in 1 .. Len(answers) - 1 : Tail(answers)[i] = answers[i + 1]
      /\ Len(answers) = 1 => Tail(answers) = <<>>
  BY <1>1, TailFacts DEF StreamType
<1>3. CASE Synced(Head(answers).text) /\ phase' = "connect"
  <2>1. lines = <<>> /\ 1 = Len(answers)
    <3>1. 1 \in 1 .. Len(answers) /\ answers[1].text = "OK PONG"
      <4>1. Len(answers) \in Nat \ {0} => 1 \in 1 .. Len(answers)
        OBVIOUS
      <4>2. Head(answers) = answers[1] => answers[1].text = "OK PONG"
        BY <1>3 DEF Synced
      <4> QED BY <4>1, <4>2, <1>2
    <3> QED BY <3>1, <1>1 DEF Pinged
  <2>2. answers' = <<>>
    BY <1>2, <1>3, <2>1, RaisedFacts DEF SyncLine
  <2> QED BY <1>1, <1>3, <2>1, <2>2 DEF ExchangeInv, Quiet, Pinged, SyncLine
<1>4. CASE phase' = "sync"
  <2>1. answers' = Tail(answers)
    BY <1>4, RaisedFacts DEF SyncLine
  <2>2. ASSUME NEW i \in 1 .. Len(answers'), answers'[i].text = "OK PONG"
        PROVE  lines = <<>> /\ i = Len(answers')
    <3>1. i + 1 \in 1 .. Len(answers) /\ answers'[i] = answers[i + 1]
      BY <1>2, <2>1
    <3>2. lines = <<>> /\ i + 1 = Len(answers)
      BY <2>2, <3>1, <1>1 DEF Pinged
    <3> QED BY <3>2, <2>1, <1>2
  <2>3. Pinged'
    BY <1>1, <2>2 DEF Pinged, Newest, SyncLine
  <2> QED BY <1>4, <2>3 DEF ExchangeInv
<1>5. CASE Raised /\ link' = "none"
  BY <1>5, RaisedFacts DEF ExchangeInv
<1> QED BY <1>3, <1>4, <1>5 DEF SyncLine

LEMMA AcceptExchange ==
  ASSUME StreamType, DriverType, LinkInv, ExchangeInv, Accept, owed = "no"
  PROVE  ExchangeInv'
<1>1. taken # conn /\ phase \in {"idle", "connect", "sync", "reply"}
  BY DEF Accept, DriverType
<1>2. CASE phase # "sync"
  BY <1>1, <1>2 DEF ExchangeInv, Accept, Quiet, Replying
<1>3. CASE phase = "sync"
  <2>1. Waiting
    BY <1>1, <1>3 DEF ExchangeInv, Pinged
  <2>2. PICK old \in 0 .. Len(lines) :
          /\ \A i \in 1 .. Len(lines) : lines[i].on = conn <=> i > old
          /\ lines' = SubSeq(lines, old + 1, Len(lines))
    BY DEF Accept
  <2>3. Len(lines) \in Nat \ {0}
    BY <2>1, TailFacts DEF StreamType, Waiting
  <2>4. lines[Len(lines)].on = conn
    BY <2>1 DEF Waiting, Newest
  <2>5. old = Len(lines) - 1
    <3>1. Len(lines) > old
      BY <2>2, <2>3, <2>4
    <3>2. CASE Len(lines) = 1
      BY <3>1, <3>2
    <3>3. CASE Len(lines) # 1
      <4>1. Len(lines) - 1 \in 1 .. Len(lines) - 1 /\ Len(lines) - 1 \in 1 .. Len(lines)
        BY <3>3, <2>3
      <4>2. lines[Len(lines) - 1].on # conn
        BY <4>1, <2>1 DEF Waiting
      <4>3. ~(Len(lines) - 1 > old)
        BY <4>1, <4>2, <2>2
      <4> QED BY <4>1, <4>3, <3>1, <2>3
    <3> QED BY <3>2, <3>3
  <2>6. /\ lines' \in Seq(LineOf(sent, conn)) /\ Len(lines') = Len(lines) - old
        /\ \A i \in 1 .. Len(lines) - old : lines'[i] = lines[old + i]
    BY <2>2, KeptFacts DEF StreamType
  <2>7. Len(lines') = 1 /\ lines'[1] = Newest("PING")
    BY <2>1, <2>3, <2>5, <2>6 DEF Waiting
  <2>8. lines' = <<Newest("PING")>>
    BY <2>6, <2>7, OneLong
  <2>9. answers' = <<Greeting, Greeting>>
    BY <2>1 DEF Waiting, Accept
  <2>10. \A i \in 1 .. Len(answers') : answers'[i].text # "OK PONG"
    <3>1. \A g : Len(<<g, g>>) = 2 /\ <<g, g>>[1] = g /\ <<g, g>>[2] = g
      OBVIOUS
    <3>2. Greeting.text # "OK PONG"
      BY DEF Greeting
    <3>3. Len(answers') = 2 /\ answers'[1] = Greeting /\ answers'[2] = Greeting
      BY <2>9, <3>1
    <3>4. \A i \in 1 .. Len(answers') : i = 1 \/ i = 2
      BY <3>3
    <3> QED BY <3>2, <3>3, <3>4
  <2>11. Pinged'
    BY <2>8, <2>10 DEF Pinged, Newest, Accept
  <2> QED BY <1>3, <2>11 DEF ExchangeInv, Accept
<1> QED BY <1>2, <1>3

LEMMA ExecuteExchange ==
  ASSUME StreamType, DriverType, LinkInv, ExchangeInv, Execute, owed = "no"
  PROVE  ExchangeInv'
<1>1. /\ Head(lines) = lines[1] /\ Len(lines') = Len(lines) - 1 /\ Len(lines) \in Nat \ {0}
      /\ lines' \in Seq(LineOf(sent, conn))
      /\ \A i \in 1 .. Len(lines) - 1 : lines'[i] = lines[i + 1]
  BY TailFacts DEF Execute, StreamType
<1> DEFINE answer == [id |-> Head(lines).id, text |-> Answer(Head(lines).cmd)]
<1>2. CASE phase \in {"idle", "connect"}
  BY <1>2 DEF ExchangeInv, Quiet, Execute
<1>3. CASE phase = "sync" /\ Waiting
  <2>1. lines[1].on # conn
    BY <1>1, <1>3 DEF Execute, Waiting
  <2>2. Len(lines) # 1
    BY <2>1, <1>3 DEF Waiting, Newest
  <2>3. Len(lines') \in Nat \ {0}
    BY <1>1, <2>2
  <2>4. lines' # <<>> /\ lines'[Len(lines')] = lines[Len(lines)]
    BY <1>1, <2>3, NoElement
  <2>5. ASSUME NEW i \in 1 .. Len(lines') - 1 PROVE lines'[i].on # conn
    <3>1. i + 1 \in 1 .. Len(lines) - 1 /\ lines'[i] = lines[i + 1]
      BY <1>1
    <3> QED BY <3>1, <1>3 DEF Waiting
  <2>6. Waiting'
    BY <1>3, <2>4, <2>5 DEF Waiting, Newest, Execute
  <2> QED BY <1>3, <2>6 DEF ExchangeInv, Execute
<1>4. CASE phase = "sync" /\ Pinged
  <2>1. lines = <<Newest("PING")>>
    BY <1>4 DEF Pinged, Execute
  <2>2. lines' = <<>> /\ answer = [id |-> sent, text |-> "OK PONG"]
    <3>1. lines' = <<>> /\ Head(lines) = Newest("PING")
      BY <2>1, OneElement DEF Execute
    <3>2. Newest("PING").id = sent /\ Newest("PING").cmd = "PING"
      BY DEF Newest
    <3>3. Answer("PING") = "OK PONG"
      BY DEF Answer
    <3> QED BY <3>1, <3>2, <3>3
  <2>3. \A i \in 1 .. Len(answers) : answers[i].text # "OK PONG"
    BY <1>4, <2>1, OneElement DEF Pinged
  <2>4. CASE answers' = answers
    BY <1>4, <2>2, <2>3, <2>4 DEF ExchangeInv, Pinged, Execute
  <2>5. CASE answers' = Append(answers, answer)
    <3>1. Len(answers') = Len(answers) + 1 /\ \A i \in 1 .. Len(answers) : answers'[i] = answers[i]
      <4>1. answer \in AnswerOf(sent)
        <5>1. sent \in 0 .. sent
          BY LinkAssumption DEF StreamType
        <5> QED BY <2>2, <5>1 DEF AnswerOf, Texts
      <4> QED BY <4>1, <2>5, AppendProperties DEF StreamType
    <3>2. \A i \in 1 .. Len(answers') : answers'[i].text = "OK PONG" => i = Len(answers')
      <4>1. Len(answers) \in Nat
        BY LenProperties DEF StreamType
      <4>2. ASSUME NEW i \in 1 .. Len(answers'), i # Len(answers')
            PROVE  answers'[i].text # "OK PONG"
        <5>1. i \in 1 .. Len(answers)
          BY <4>1, <4>2, <3>1
        <5> QED BY <5>1, <3>1, <2>3
      <4> QED BY <4>2
    <3> QED BY <1>4, <2>2, <3>2 DEF ExchangeInv, Pinged, Execute
  <2> QED BY <2>4, <2>5 DEF Execute
<1>5. CASE phase = "reply"
  <2>1. Replying /\ lines = <<Newest(call)>> /\ answers = <<>>
    BY <1>5 DEF ExchangeInv, Replying, Execute
  <2>2. lines' = <<>> /\ Head(lines) = Newest(call)
    BY <2>1, OneElement DEF Execute
  <2>3. answers' = <<>> \/ answers' = <<answer>>
    BY <2>1, OneElement DEF Execute
  <2>4. answer.id = sent /\ (call = "RESET" => ~armed')
    BY <2>2 DEF Newest, Execute
  <2>5. answers' = <<answer>> => Len(answers') = 1 /\ answers'[1].id = sent
    BY <2>4, OneElement
  <2>6. Replying'
    BY <2>1, <2>2, <2>3, <2>4, <2>5 DEF Replying, Execute
  <2> QED BY <1>5, <2>6 DEF ExchangeInv, Execute
<1> QED BY <1>2, <1>3, <1>4, <1>5 DEF ExchangeInv, DriverType

LEMMA DropExchange ==
  ASSUME LinkInv, ExchangeInv, Drop, owed = "no"
  PROVE  ExchangeInv'
<1>1. CASE phase = "sync" /\ Waiting
  <2>1. Pinged'
    <3>1. answers' = <<>> /\ lines' = <<>> /\ taken' = conn'
      BY <1>1 DEF LinkInv, Waiting, Drop
    <3> QED BY <3>1, NoElement DEF Pinged
  <2> QED BY <1>1, <2>1 DEF ExchangeInv, Drop
<1>2. CASE phase = "sync" /\ Pinged
  <2>1. Pinged'
    BY <1>2 DEF Pinged, Drop
  <2> QED BY <1>2, <2>1 DEF ExchangeInv, Drop
<1>3. CASE phase = "reply"
  <2>1. Replying'
    BY <1>3 DEF ExchangeInv, Replying, Drop
  <2> QED BY <1>3, <2>1 DEF ExchangeInv, Drop
<1>4. CASE phase # "sync" /\ phase # "reply"
  BY <1>4 DEF ExchangeInv, Drop
<1> QED BY <1>1, <1>2, <1>3, <1>4 DEF ExchangeInv

(* The reply the driver reads is the one to the line it sent last, and the *)
(* last on its way.                                                        *)
LEMMA ReplyFacts ==
  ASSUME StreamType, ExchangeInv, Reply, owed = "no"
  PROVE  /\ taken = conn /\ lines = <<>> /\ answers' = <<>>
         /\ Head(answers).id = sent /\ (call = "RESET" => ~armed)
<1>1. Replying /\ answers # <<>>
  BY DEF ExchangeInv, Reply
<1>2. Head(answers) = answers[1] /\ (Len(answers) = 1 => Tail(answers) = <<>>)
  BY <1>1, TailFacts DEF StreamType
<1> QED BY <1>1, <1>2 DEF Replying, Reply

LEMMA NextExchange ==
  ASSUME StreamType, DriverType, LinkInv, ExchangeInv, [Next]_vars, owed' = "no"
  PROVE  ExchangeInv'
<1>1. CASE Begins
  BY <1>1, BeginsFacts DEF ExchangeInv, Quiet, wire
<1>2. CASE BodyRaises
  BY <1>2 DEF BodyRaises, ExchangeInv, Quiet, wire
<1>3. CASE Close
  BY <1>3 DEF Close, ExchangeInv
<1>4. CASE OpenSocket
  <2>1. conn \in Nat
    BY DEF StreamType
  <2>2. Waiting' \/ Pinged'
    BY <1>4, <2>1, OpenedExchange DEF OpenSocket
  <2> QED BY <1>4, <2>2 DEF ExchangeInv, OpenSocket, Opened
<1>5. CASE OpenSerial
  <2>1. Waiting' \/ Pinged'
    BY <1>5, OpenedExchange DEF OpenSerial
  <2> QED BY <1>5, <2>1 DEF ExchangeInv, OpenSerial, Opened
<1>6. CASE Unreachable \/ SendFails
  BY <1>6, RaisedFacts DEF Unreachable, SendFails, ExchangeInv
<1>7. CASE SyncLine
  BY <1>7, SyncLineExchange DEF SyncLine
<1>8. CASE SyncFails \/ ReplyLate
  BY <1>8 DEF SyncFails, ReplyLate
<1>9. CASE Send
  <2>1. Quiet
    BY <1>9 DEF Send, ExchangeInv
  <2>2. lines' = <<[id |-> sent', cmd |-> call', on |-> conn']>>
    BY <1>9, <2>1, OneElement DEF Send, Put, Quiet
  <2> QED BY <1>9, <2>1, <2>2 DEF Send, ExchangeInv, Quiet, Replying, Newest
<1>10. CASE Reply
  <2>1. phase' = "idle"
    BY <1>10, ReturnedFacts, RaisedFacts DEF Reply
  <2> QED BY <1>10, <2>1, ReplyFacts DEF ExchangeInv, Quiet, Reply
<1>11. CASE Accept
  BY <1>11, AcceptExchange DEF Accept
<1>12. CASE Execute
  BY <1>12, ExecuteExchange DEF Execute
<1>13. CASE LeaseExpires
  BY <1>13 DEF LeaseExpires, ExchangeInv, Quiet, Waiting, Pinged, Replying, Newest, wire
<1>14. CASE Drop
  BY <1>14, DropExchange DEF Drop
<1>15. CASE UNCHANGED vars
  BY <1>15 DEF vars, ExchangeInv, Quiet, Waiting, Pinged, Replying, Newest
<1> QED BY <1>1, <1>2, <1>3, <1>4, <1>5, <1>6, <1>7, <1>8, <1>9, <1>10, <1>11, <1>12, <1>13, <1>14, <1>15
           DEF Next, Begins

LEMMA NextAligned ==
  ASSUME StreamType, ExchangeInv, Aligned, [Next]_vars
  PROVE  Aligned'
<1> SUFFICES ASSUME owed' = "no" PROVE got'.id = got'.for
  BY DEF Aligned
<1>1. CASE Begins
  BY <1>1, BeginsFacts DEF Aligned
<1>2. CASE BodyRaises \/ Close \/ Unreachable \/ SendFails \/ Send
  BY <1>2 DEF BodyRaises, Close, Unreachable, SendFails, Send, Aligned
<1>3. CASE OpenSocket \/ OpenSerial
  BY <1>3 DEF OpenSocket, OpenSerial, Opened
<1>4. CASE SyncLine
  BY <1>4 DEF SyncLine, Aligned
<1>5. CASE SyncFails \/ ReplyLate
  BY <1>5 DEF SyncFails, ReplyLate
<1>6. CASE Reply
  <2>1. got' = [id |-> Head(answers).id, for |-> sent] /\ Head(answers).id = sent
    BY <1>6, ReplyFacts DEF Reply
  <2> QED BY <2>1
<1>7. CASE Accept \/ Execute \/ LeaseExpires \/ Drop \/ UNCHANGED vars
  BY <1>7 DEF Accept, Execute, LeaseExpires, Drop, vars, Aligned
<1> QED BY <1>1, <1>2, <1>3, <1>4, <1>5, <1>6, <1>7 DEF Next, Begins

LinkSound == StreamType /\ DriverType /\ LinkInv /\ ExchangeInv /\ Aligned

LEMMA LinkIsSound == Spec => []LinkSound
<1>1. Init => LinkSound
  BY InitType, InitExchange DEF LinkSound
<1>2. ASSUME LinkSound, [Next]_vars PROVE LinkSound'
  <2>1. StreamType' /\ DriverType' /\ LinkInv' /\ Aligned'
    BY <1>2, NextType, NextAligned DEF LinkSound
  <2>2. ExchangeInv'
    <3>1. CASE owed' = "no"
      BY <1>2, <3>1, NextExchange DEF LinkSound
    <3>2. CASE owed' # "no"
      BY <3>2 DEF ExchangeInv
    <3> QED BY <3>1, <3>2
  <2> QED BY <2>1, <2>2 DEF LinkSound
<1> QED BY <1>1, <1>2, PTL DEF Spec

(* The reply that command() returns is the one to the line it has sent, on *)
(* every connection on which the driver has not given up a wait, however   *)
(* often it was reconnected, the peer lost or the lease run out before.    *)
THEOREM RepliesAreAligned == Spec => []Aligned
<1>1. LinkSound => Aligned
  BY DEF LinkSound
<1> QED BY <1>1, LinkIsSound, PTL

LEMMA CleanExitStep ==
  ASSUME LinkSound, [Next]_vars, stage = "resetting", stage' = "outside", left' = "clean",
         owed' = "no"
  PROVE  ~armed'
<1>1. call = "RESET"
  BY DEF LinkSound, LinkInv
<1>2. ~ Raised
  BY DEF Raised
<1>3. CASE Reply
  BY <1>1, <1>3, ReplyFacts DEF LinkSound, Reply
<1>4. ~ Begins
  BY DEF Begins, UseOutside, Enter, UseInside, Leave, Cleanup
<1>5. CASE BodyRaises \/ Close \/ OpenSocket \/ OpenSerial \/ Send \/ Accept \/ Execute
           \/ LeaseExpires \/ Drop \/ UNCHANGED vars
  BY <1>5 DEF BodyRaises, Close, OpenSocket, OpenSerial, Opened, Send, Accept, Execute,
              LeaseExpires, Drop, wire, vars
<1>6. CASE Unreachable \/ SendFails \/ SyncFails \/ ReplyLate
  BY <1>2, <1>6 DEF Unreachable, SendFails, SyncFails, ReplyLate
<1>7. CASE SyncLine
  BY <1>2, <1>7 DEF SyncLine
<1> QED BY <1>3, <1>4, <1>5, <1>6, <1>7 DEF Next, Begins

(* armed_session() that ends without an exception or a warning leaves the  *)
(* simulator disarmed, unless a wait was given up on its last connection:  *)
(* the "OK" that __exit__ has read is the one to the reset it has sent.    *)
THEOREM CleanExitIsAlwaysSafe == Spec => CleanExitIsSafe
<1>1. LinkSound /\ [Next]_vars
        => (stage = "resetting" /\ stage' = "outside" /\ left' = "clean" /\ owed' = "no" => ~armed')
  BY CleanExitStep
<1>2. LinkSound /\ [Next]_vars
        => [stage = "resetting" /\ stage' = "outside" /\ left' = "clean" /\ owed' = "no" => ~armed']_vars
  BY <1>1
<1> QED BY <1>2, LinkIsSound, PTL DEF Spec, CleanExitIsSafe
=============================================================================
