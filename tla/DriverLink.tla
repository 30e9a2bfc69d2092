----------------------------- MODULE DriverLink -----------------------------
(***************************************************************************)
(* The Python driver (driver.py) against the simulator, line by line: the  *)
(* two transports with their connect(), _sync() and command(), the check   *)
(* of the reply, and the armed_session() context manager.                  *)
(*                                                                         *)
(* The driver matches a reply to a command only by their order.  Every     *)
(* line it sends has an id here, which the reply carries; the driver never *)
(* looks at it, the properties do.                                         *)
(*                                                                         *)
(* Over TCP each connect() is a new connection: the firmware serves the    *)
(* newest one it has accepted, greets it with two lines and forgets what   *)
(* it has not read of the one before.  The UART is one stream for ever.    *)
(* "RESET" stands for RESET and for ARM OFF, whichever the session uses.   *)
(***************************************************************************)
EXTENDS Integers, Sequences

CONSTANTS
  Transports,  \* among "tcp" (SocketLineTransport) and "uart" (SerialLineTransport)
  MaxSkip,     \* max_lines of _sync()
  MaxLines     \* bound: the lines the driver sends

ASSUME LinkAssumption ==
  Transports \subseteq {"tcp", "uart"} /\ MaxSkip \in Nat \ {0} /\ MaxLines \in Nat

Commands == {"PING", "ARM", "SET", "RESET"}
Texts == {"OK", "OK PONG", "ERR", "greeting"}

VARIABLES
  transport,   \* the one the driver was made with
  link,        \* _sock or _serial: "none", "open", or "dead" when the peer is gone
  conn, taken, \* the newest connection, and the one the firmware serves
  lines,       \* the lines on their way to the firmware
  answers,     \* the lines on their way to the driver
  armed,       \* sim.armed
  stage,       \* where the caller is in armed_session()
  call, phase, \* the command under way, and how far it is
  skipped,     \* the lines _sync() has skipped
  sent,        \* the id of the last line sent
  got,         \* auxiliary: the last reply accepted, and the line it was taken for
  owed,        \* auxiliary: whether a reply to another line may come first
  left         \* auxiliary: how the last session ended

wire == <<transport, conn, taken, lines, answers>>
vars == <<transport, link, conn, taken, lines, answers, armed, stage, call, phase, skipped, sent, got, owed, left>>

-----------------------------------------------------------------------------
(* armed_session(): what a command that returned or raised leads to.       *)

Returned ==
  /\ phase' = "idle"
  /\ stage' = CASE stage = "arming" -> "body" [] stage \in {"resetting", "cleaning"} -> "outside"
                [] OTHER -> stage
  /\ left' = CASE stage = "resetting" -> "clean" [] stage = "cleaning" -> "raised" [] OTHER -> left

(* Slip: a failed reset at the end of the session goes unreported. *)
RaisedUnlessLeaving ==
  /\ phase' = "idle"
  /\ IF stage = "body" THEN stage' \in {"body", "raising"} ELSE stage' = "outside"
  /\ left' = CASE stage = "arming" -> "raised" [] stage = "resetting" -> "clean"
               [] stage = "cleaning" -> "warned" [] OTHER -> left

(* The body of the session may catch the exception or leave with it; arm() *)
(* is called before the try, so that its failure is not cleaned up.        *)
Raised ==
  /\ phase' = "idle"
  /\ IF stage = "body" THEN stage' \in {"body", "raising"} ELSE stage' = "outside"
  /\ left' = CASE stage \in {"arming", "resetting"} -> "raised"
               [] stage = "cleaning" -> "warned" [] OTHER -> left

Begin(command, next) ==
  /\ phase = "idle" /\ phase' = "connect" /\ call' = command /\ stage' = next
  /\ UNCHANGED <<link, wire, armed, skipped, sent, got, owed>>

UseOutside == stage = "outside" /\ (\E c \in {"PING", "SET"} : Begin(c, "outside")) /\ UNCHANGED left
Enter == stage = "outside" /\ Begin("ARM", "arming") /\ left' = "none"
UseInside == stage = "body" /\ (\E c \in {"PING", "SET"} : Begin(c, "body")) /\ UNCHANGED left
Leave == stage = "body" /\ Begin("RESET", "resetting") /\ UNCHANGED left
Cleanup == stage = "raising" /\ Begin("RESET", "cleaning") /\ UNCHANGED left

BodyRaises ==
  /\ stage = "body" /\ phase = "idle" /\ stage' = "raising"
  /\ UNCHANGED <<link, wire, armed, call, phase, skipped, sent, got, owed, left>>

(* The caller gives the transport up, in the session or outside. *)
Close ==
  /\ phase = "idle" /\ link # "none" /\ link' = "none" /\ answers' = <<>>
  /\ UNCHANGED <<transport, conn, taken, lines, armed, stage, call, phase, skipped, sent, got, owed, left>>

-----------------------------------------------------------------------------
(* connect() and _sync().                                                  *)

Put(queue, command, on) == Append(queue, [id |-> sent + 1, cmd |-> command, on |-> on])

Opened(on) ==
  /\ phase = "connect" /\ link = "none" /\ sent < MaxLines
  /\ link' = "open" /\ conn' = on /\ answers' = <<>>
  /\ lines' = Put(lines, "PING", on) /\ sent' = sent + 1
  /\ phase' = "sync" /\ skipped' = 0 /\ got' = [id |-> 0, for |-> 0]
  /\ owed' = IF transport = "uart" /\ lines # <<>> THEN "before" ELSE "no"
  /\ UNCHANGED <<transport, taken, armed, stage, call, left>>

(* The firmware listens on one socket, free once it has accepted the last. *)
OpenSocket == transport = "tcp" /\ taken = conn /\ Opened(conn + 1)

(* The open port starts with reset_input_buffer(). *)
OpenSerial == transport = "uart" /\ Opened(conn)

Unreachable ==
  /\ phase = "connect" /\ link = "none" /\ Raised
  /\ UNCHANGED <<link, wire, armed, call, skipped, sent, got, owed>>

(* Slip: the first line after connect() is taken for the answer to PING. *)
SyncedAtOnce(text) == TRUE

Synced(text) == text = "OK PONG"

(* Slip: one line too many. *)
TriedAllAndOne(lines_read) == lines_read > MaxSkip

TriedAll(lines_read) == lines_read >= MaxSkip

SyncLine ==
  /\ phase = "sync" /\ answers # <<>> /\ skipped' = skipped + 1
  /\ \/ /\ Synced(Head(answers).text) /\ phase' = "connect" /\ answers' = Tail(answers)
        /\ UNCHANGED <<link, stage, left>>
     \/ /\ ~Synced(Head(answers).text)
        /\ IF TriedAll(skipped') THEN link' = "none" /\ answers' = <<>> /\ Raised
           ELSE answers' = Tail(answers) /\ UNCHANGED <<link, phase, stage, left>>
  /\ UNCHANGED <<transport, conn, taken, lines, armed, call, sent, got, owed>>

(* connect() closes the transport when _sync() fails. *)
SyncFails ==
  /\ phase = "sync" /\ answers = <<>> /\ Raised
  /\ link' = "none" /\ owed' = "now"
  /\ UNCHANGED <<wire, armed, call, skipped, sent, got>>

-----------------------------------------------------------------------------
(* command() and _strip_ok().                                              *)

Send ==
  /\ phase = "connect" /\ link = "open" /\ sent < MaxLines
  /\ lines' = Put(lines, call, conn) /\ sent' = sent + 1 /\ phase' = "reply"
  /\ UNCHANGED <<transport, link, conn, taken, answers, armed, stage, call, skipped, got, owed, left>>

Reply ==
  /\ phase = "reply" /\ answers # <<>> /\ answers' = Tail(answers)
  /\ got' = [id |-> Head(answers).id, for |-> sent]
  /\ \/ Head(answers).text # "ERR" /\ Returned
     \/ Head(answers).text = "ERR" /\ Raised
  /\ UNCHANGED <<transport, link, conn, taken, lines, armed, call, skipped, sent, owed>>

(* The transport stays open when a reply does not come in time, and its    *)
(* reply is still to come.                                                 *)
ReplyLate ==
  /\ phase = "reply" /\ answers = <<>> /\ Raised /\ owed' = "now"
  /\ UNCHANGED <<link, wire, armed, call, skipped, sent, got>>

(* A connection the peer has ended stays in _sock: every command fails.    *)
SendFails ==
  /\ phase = "connect" /\ link = "dead" /\ Raised
  /\ UNCHANGED <<link, wire, armed, call, skipped, sent, got, owed>>

-----------------------------------------------------------------------------
(* The firmware and the network.                                           *)

Greeting == [id |-> 0, text |-> "greeting"]

Accept ==
  /\ taken # conn /\ taken' = conn
  /\ \E old \in 0 .. Len(lines) :
       /\ \A i \in 1 .. Len(lines) : lines[i].on = conn <=> i > old
       /\ lines' = SubSeq(lines, old + 1, Len(lines))
  /\ answers' = IF link = "open" THEN <<Greeting, Greeting>> ELSE answers
  /\ UNCHANGED <<transport, link, conn, armed, stage, call, phase, skipped, sent, got, owed, left>>

Answer(command) ==
  CASE command = "PING" -> "OK PONG" [] command = "SET" /\ ~armed -> "ERR" [] OTHER -> "OK"

Execute ==
  /\ lines # <<>> /\ Head(lines).on = taken /\ lines' = Tail(lines)
  /\ armed' = CASE Head(lines).cmd = "ARM" -> TRUE [] Head(lines).cmd = "RESET" -> FALSE
                [] OTHER -> armed
  /\ answers' = IF link = "open" /\ taken = conn
                THEN Append(answers, [id |-> Head(lines).id, text |-> Answer(Head(lines).cmd)])
                ELSE answers
  /\ UNCHANGED <<transport, link, conn, taken, stage, call, phase, skipped, sent, got, owed, left>>

LeaseExpires ==
  /\ armed /\ armed' = FALSE
  /\ UNCHANGED <<link, wire, stage, call, phase, skipped, sent, got, owed, left>>

(* Another controller takes over, or the network is cut. *)
Drop ==
  /\ transport = "tcp" /\ link = "open" /\ link' = "dead"
  /\ lines' = <<>> /\ taken' = conn
  /\ UNCHANGED <<transport, conn, answers, armed, stage, call, phase, skipped, sent, got, owed, left>>

Init ==
  /\ transport \in Transports /\ link = "none" /\ conn = 0 /\ taken = 0 /\ lines = <<>> /\ answers = <<>>
  /\ armed = FALSE /\ stage = "outside" /\ call = "PING" /\ phase = "idle"
  /\ skipped = 0 /\ sent = 0 /\ got = [id |-> 0, for |-> 0] /\ owed = "no" /\ left = "none"

Next ==
  \/ UseOutside \/ Enter \/ UseInside \/ Leave \/ Cleanup \/ BodyRaises \/ Close
  \/ OpenSocket \/ OpenSerial \/ Unreachable \/ SyncLine \/ SyncFails
  \/ Send \/ Reply \/ ReplyLate \/ SendFails
  \/ Accept \/ Execute \/ LeaseExpires \/ Drop

Spec == Init /\ [][Next]_vars

-----------------------------------------------------------------------------
TypeOK ==
  /\ transport \in Transports /\ link \in {"none", "open", "dead"} 
  /\ conn \in Nat /\ taken \in {conn - 1, conn}
  /\ lines \in Seq([id : 1 .. sent, cmd : Commands, on : {conn - 1, conn}])
  /\ answers \in Seq([id : 0 .. sent, text : Texts])
  /\ armed \in BOOLEAN /\ call \in Commands
  /\ stage \in {"outside", "arming", "body", "resetting", "raising", "cleaning"}
  /\ phase \in {"idle", "connect", "sync", "reply"}
  /\ skipped \in 0 .. MaxSkip /\ sent \in 0 .. MaxLines
  /\ got \in [id : 0 .. sent, for : 0 .. sent] /\ owed \in {"no", "before", "now"}
  /\ left \in {"none", "clean", "raised", "warned"}

(* command() returns the reply to the line it sent, on every connection on *)
(* which no wait was given up; over the UART also only when the firmware   *)
(* had answered everything before the port was opened: a late OK PONG of a *)
(* connect() that timed out would satisfy the _sync() of the next one.     *)
Aligned == owed = "no" => got.id = got.for

(* An armed_session() that ends without an exception or a warning has      *)
(* reset the simulator, also after a lost connection and a reconnection in *)
(* the body, unless a wait was given up on the connection it ends on.      *)
CleanExitIsSafe ==
  [][stage = "resetting" /\ stage' = "outside" /\ left' = "clean" /\ owed' = "no" => ~armed']_vars

(* armed_session(): "restore a safe state when leaving the context";       *)
(* a failure to do so is an exception or a RuntimeWarning.                 *)
SessionLeavesSafe == stage = "outside" /\ left = "clean" => ~armed
=============================================================================
