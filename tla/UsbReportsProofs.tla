-------------------------- MODULE UsbReportsProofs --------------------------
(***************************************************************************)
(* Theorems about module UsbReports, for a batch of any length, any number *)
(* of tracked reports and banks, any values and any number of changes.     *)
(***************************************************************************)
EXTENDS UsbReports, SequenceTheorems, WellFoundedInduction, TLAPS

-----------------------------------------------------------------------------
(* Lemmas about the operators of the model.                                *)

LEMMA BatchFacts ==
  /\ Len(Batch) \in Nat \ {0} /\ \A i \in 1 .. Len(Batch) : Batch[i] \in Reports
  /\ Status = Batch[1] /\ Status \in Tracked /\ Tracked \subseteq Reports
  /\ \A i \in 2 .. Len(Batch) : Batch[i] # Status
  /\ Banks \in Nat \ {0} /\ MaxChanges \in Nat
  /\ Values \subseteq Nat /\ 0 \in Values /\ 1 \in Values
  /\ \A r \in Reports : \E i \in 1 .. Len(Batch) : r = Batch[i]
<1>1. Len(Batch) \in Nat \ {0}
  BY BatchAssumption, LenProperties
<1> QED BY <1>1, BatchAssumption DEF Reports, Status

(* a set of places in a sequence has a last one *)
LEMMA LastPlace ==
  ASSUME NEW n \in Nat, NEW S, S \subseteq 1 .. n, S # {}
  PROVE  \E last \in S : \A j \in S : j <= last
<1> DEFINE T == {n - i : i \in S}
<1>1. T \subseteq Nat /\ T # {}
  <2>1. \A i \in S : n - i \in Nat
    OBVIOUS
  <2> QED BY <2>1
<1>2. PICK x \in T : \A y \in T : ~ (<<y, x>> \in OpToRel(<, Nat))
  <2> HIDE DEF T
  <2> QED BY <1>1, NatLessThanWellFounded, WFMin
<1>3. \A y \in T : ~ (y < x)
  BY <1>1, <1>2 DEF OpToRel
<1>4. PICK last \in S : x = n - last
  BY <1>2
<1>5. ASSUME NEW j \in S PROVE j <= last
  <2>1. n - j \in T
    BY <1>5
  <2>2. ~ (n - j < n - last)
    BY <1>3, <1>4, <2>1
  <2> QED BY <2>2, <1>5, <1>4
<1> QED BY <1>4, <1>5

(* numbers stay numbers *)
LEMMA ItemFacts ==
  ASSUME NEW item \in Item
  PROVE  /\ item.report \in Reports /\ item.value \in Values
         /\ item.version \in 0 .. MaxChanges /\ item.version \in Int
BY BatchFacts DEF Item

-----------------------------------------------------------------------------
(* Type correctness.                                                       *)

LEMMA NewValuesType ==
  ASSUME TypeOK, NEW v \in [Reports -> Values], NewValues(v)
  PROVE  /\ val' \in [Reports -> Values] /\ version' \in 0 .. MaxChanges
         /\ version' >= version
         /\ val' = val => version' = version
BY BatchFacts DEF TypeOK, NewValues

LEMMA StatusChanged ==
  ASSUME TypeOK, NEW s \in Values
  PROVE  [val EXCEPT ![Status] = s] \in [Reports -> Values]
BY BatchFacts DEF TypeOK

LEMMA NextInBatch == ASSUME TypeOK PROVE Batch[next] \in Reports
BY BatchFacts DEF TypeOK

LEMMA NewItem ==
  ASSUME TypeOK
  PROVE  [report |-> Batch[next], value |-> val[Batch[next]], version |-> version] \in Item
BY NextInBatch DEF TypeOK, Item

LEMMA StartType == ASSUME Start PROVE pc' = "send" /\ next' \in 1 .. Len(Batch)
BY BatchFacts DEF Start

LEMMA InitType == Init => TypeOK
<1> SUFFICES ASSUME Init PROVE TypeOK
  OBVIOUS
<1>1. val \in [Reports -> Values] /\ prev \in [Tracked -> Values]
  BY BatchFacts DEF Init
<1>2. /\ view \in [Reports -> Values \cup {Unknown}]
      /\ viewVersion \in [Reports -> 0 .. MaxChanges \cup {Unknown}]
  BY DEF Init
<1>3. endpoint \in Seq(Item) /\ Len(endpoint) <= Banks
  BY BatchFacts, EmptySeq DEF Init
<1>4. version \in 0 .. MaxChanges /\ next \in 1 .. Len(Batch) /\ pc \in {"idle", "send"}
  BY BatchFacts DEF Init
<1> QED BY <1>1, <1>2, <1>3, <1>4 DEF Init, TypeOK

LEMMA NextType == TypeOK /\ [Next]_vars => TypeOK'
<1> SUFFICES ASSUME TypeOK, [Next]_vars PROVE TypeOK'
  OBVIOUS
<1>1. ASSUME NEW v \in [Reports -> Values], Command(v) PROVE TypeOK'
  BY <1>1, NewValuesType, StartType DEF Command, TypeOK
<1>2. ASSUME NEW s \in Values, EndOfPass(s) PROVE TypeOK'
  <2>1. val' \in [Reports -> Values] /\ version' \in 0 .. MaxChanges
    BY <1>2, NewValuesType, StatusChanged DEF EndOfPass
  <2>2. pc' \in {"idle", "send"} /\ next' \in 1 .. Len(Batch)
    BY <1>2, StartType DEF EndOfPass, TypeOK
  <2> QED BY <1>2, <2>1, <2>2 DEF EndOfPass, TypeOK
<1>3. CASE SendNext
  <2>1. endpoint' \in Seq(Item) /\ Len(endpoint') <= Banks
    BY <1>3, NewItem, AppendProperties, BatchFacts DEF SendNext, Queued, TypeOK
  <2>2. pc' \in {"idle", "send"} /\ next' \in 1 .. Len(Batch)
    BY <1>3, BatchFacts DEF SendNext, TypeOK
  <2>3. prev' \in [Tracked -> Values] /\ due' \in BOOLEAN /\ failed' \in BOOLEAN
    BY <1>3, BatchFacts DEF SendNext, TypeOK
  <2> QED BY <1>3, <2>1, <2>2, <2>3 DEF SendNext, TypeOK
<1>4. CASE GiveUp
  BY <1>4, BatchFacts DEF GiveUp, TypeOK
<1>5. CASE IntervalPasses
  BY <1>5 DEF IntervalPasses, TypeOK
<1>6. CASE HostPoll
  <2>1. Head(endpoint) \in Item /\ Tail(endpoint) \in Seq(Item) /\ Len(Tail(endpoint)) <= Banks
    BY <1>6, HeadTailProperties, BatchFacts DEF HostPoll, TypeOK
  <2>2. /\ Head(endpoint).report \in Reports /\ Head(endpoint).value \in Values
        /\ Head(endpoint).version \in 0 .. MaxChanges
    BY <2>1, ItemFacts
  <2>3. /\ view' \in [Reports -> Values \cup {Unknown}]
        /\ viewVersion' \in [Reports -> 0 .. MaxChanges \cup {Unknown}]
    BY <1>6, <2>2 DEF HostPoll, TypeOK
  <2> QED BY <1>6, <2>1, <2>3 DEF HostPoll, TypeOK, loopVars
<1>7. CASE UNCHANGED vars
  BY <1>7 DEF vars, TypeOK
<1> QED BY <1>1, <1>2, <1>3, <1>4, <1>5, <1>6, <1>7 DEF Next, LoopNext

(* Every variable keeps its type: sendUsbReports() stays inside the batch  *)
(* and never fills more banks than the endpoint has.                       *)
THEOREM TypeCorrect == Spec => []TypeOK
BY InitType, NextType, PTL DEF Spec

-----------------------------------------------------------------------------
(* The status is the newest thing the host has.                            *)

(* A status at least as new as v is with the host when the first n reports *)
(* in the endpoint have been polled.                                       *)
StatusBy(n, v) ==
  \/ viewVersion[Status] >= v
  \/ \E j \in 1 .. n : endpoint[j].report = Status /\ endpoint[j].version >= v

Ordered ==
  /\ \A i, j \in 1 .. Len(endpoint) : i <= j => endpoint[i].version <= endpoint[j].version
  /\ \A i \in 1 .. Len(endpoint) : endpoint[i].version <= version
  /\ \A r \in Reports : /\ viewVersion[r] <= version
                        /\ \A i \in 1 .. Len(endpoint) : viewVersion[r] <= endpoint[i].version

(* The inductive invariant: the endpoint is in the order of the versions,  *)
(* and before every report in it, and before those the batch under way has *)
(* still to send, there is a status at least as new.                       *)
OrderInv ==
  /\ Ordered
  /\ \A i \in 1 .. Len(endpoint) :
       endpoint[i].report # Status => StatusBy(i - 1, endpoint[i].version)
  /\ pc = "send" /\ next > 1 => StatusBy(Len(endpoint), version)
  /\ StatusIsNewest

LEMMA Numbers ==
  ASSUME TypeOK
  PROVE  /\ version \in Int /\ Len(endpoint) \in Nat /\ next \in Int
         /\ \A r \in Reports : viewVersion[r] \in Int /\ viewVersion[r] >= -1
         /\ \A i \in 1 .. Len(endpoint) : /\ endpoint[i] \in Item
                                          /\ endpoint[i].report \in Reports
                                          /\ endpoint[i].version \in Int
                                          /\ endpoint[i].version >= 0
<1>1. version \in Int /\ Len(endpoint) \in Nat /\ next \in Int
  BY BatchFacts, LenProperties DEF TypeOK
<1>2. \A r \in Reports : viewVersion[r] \in Int /\ viewVersion[r] >= -1
  BY BatchFacts DEF TypeOK, Unknown
<1>3. \A i \in 1 .. Len(endpoint) : endpoint[i] \in Item
  BY ElementOfSeq DEF TypeOK
<1> QED BY <1>1, <1>2, <1>3, ItemFacts, BatchFacts DEF Item

LEMMA InitOrder == Init => OrderInv
<1> SUFFICES ASSUME Init PROVE OrderInv
  OBVIOUS
<1>1. Len(endpoint) = 0 /\ next = 1 /\ version = 0
  BY DEF Init
<1>2. \A r \in Reports : viewVersion[r] = -1
  BY DEF Init, Unknown
<1>3. Status \in Reports
  BY BatchFacts
<1> QED BY <1>1, <1>2, <1>3 DEF OrderInv, Ordered, StatusIsNewest

(* values change between batches only, and versions only grow *)
LEMMA ChangeKeepsOrder ==
  ASSUME TypeOK, TypeOK', OrderInv, version' >= version, pc' = "send" => next' = 1,
         UNCHANGED <<endpoint, viewVersion>>
  PROVE  OrderInv'
<1>1. Ordered'
  <2>0. version' \in Int
    BY BatchFacts DEF TypeOK
  <2>1. \A i \in 1 .. Len(endpoint) : endpoint[i].version <= version'
    BY <2>0, Numbers DEF OrderInv, Ordered
  <2>2. \A r \in Reports : viewVersion[r] <= version'
    BY <2>0, Numbers DEF OrderInv, Ordered
  <2> QED BY <2>1, <2>2 DEF OrderInv, Ordered
<1> QED BY <1>1 DEF OrderInv, StatusBy, StatusIsNewest

LEMMA SendKeepsOrder ==
  ASSUME TypeOK, TypeOK', OrderInv, SendNext PROVE OrderInv'
<1>0. PICK n \in Nat : n = Len(endpoint)
  BY Numbers
<1> DEFINE item == [report |-> Batch[next], value |-> val[Batch[next]], version |-> version]
<1>1. n \in Nat /\ Len(endpoint') = n + 1 /\ endpoint'[n + 1] = item
  BY <1>0, NewItem, AppendProperties, Numbers DEF SendNext, Queued, TypeOK
<1>2. \A i \in 1 .. n : endpoint'[i] = endpoint[i]
  BY <1>0, NewItem, AppendProperties, Numbers DEF SendNext, Queued, TypeOK
<1>3. UNCHANGED <<version, viewVersion>> /\ item.version = version
  BY DEF SendNext
<1>4. Ordered'
  <2>1. \A i \in 1 .. n + 1 : endpoint'[i].version <= version
    BY <1>0, <1>1, <1>2, <1>3, Numbers DEF OrderInv, Ordered
  <2>2. \A i, j \in 1 .. n + 1 : i <= j => endpoint'[i].version <= endpoint'[j].version
    <3> SUFFICES ASSUME NEW i \in 1 .. n + 1, NEW j \in 1 .. n + 1, i <= j
                 PROVE  endpoint'[i].version <= endpoint'[j].version
      OBVIOUS
    <3>1. CASE j = n + 1
      BY <3>1, <2>1, <1>1, <1>3
    <3>2. CASE j # n + 1
      <4>1. i \in 1 .. n /\ j \in 1 .. n
        BY <3>2, <1>1
      <4> QED BY <1>0, <4>1, <1>2 DEF OrderInv, Ordered
    <3> QED BY <3>1, <3>2
  <2>3. \A r \in Reports, i \in 1 .. n + 1 : viewVersion[r] <= endpoint'[i].version
    <3> SUFFICES ASSUME NEW r \in Reports, NEW i \in 1 .. n + 1
                 PROVE  viewVersion[r] <= endpoint'[i].version
      OBVIOUS
    <3>1. CASE i = n + 1
      BY <1>0, <3>1, <1>1, <1>3 DEF OrderInv, Ordered
    <3>2. CASE i \in 1 .. n
      BY <1>0, <3>2, <1>2 DEF OrderInv, Ordered
    <3> QED BY <3>1, <3>2, <1>1
  <2> QED BY <1>0, <1>1, <1>3, <2>1, <2>2, <2>3 DEF OrderInv, Ordered
<1>5. \A m \in 0 .. n, v \in Int : StatusBy(m, v) => StatusBy(m, v)'
  BY <1>1, <1>2, <1>3 DEF StatusBy
<1>6. StatusBy(n + 1, version)'
  <2>1. CASE next > 1
    <3>1. StatusBy(n, version)
      BY <1>0, <2>1 DEF OrderInv, SendNext
    <3> QED BY <3>1, <1>1, <1>2, <1>3, Numbers DEF StatusBy
  <2>2. CASE next = 1
    <3>1. endpoint'[n + 1].report = Status /\ endpoint'[n + 1].version = version'
      BY <2>2, <1>1, <1>3, BatchFacts
    <3>2. n + 1 \in 1 .. n + 1 /\ version' \in Int
      BY <1>1, <1>3, Numbers
    <3> QED BY <3>1, <3>2 DEF StatusBy
  <2> QED BY <2>1, <2>2, Numbers DEF TypeOK
<1>7. ASSUME NEW i \in 1 .. n + 1, endpoint'[i].report # Status
      PROVE  StatusBy(i - 1, endpoint[i].version)'
  <2>1. CASE i \in 1 .. n
    <3>1. StatusBy(i - 1, endpoint[i].version) /\ i - 1 \in 0 .. n
      BY <1>0, <2>1, <1>7, <1>2, <1>1 DEF OrderInv
    <3>2. endpoint[i].version \in Int /\ endpoint'[i] = endpoint[i]
      BY <1>0, <1>2, <2>1, Numbers
    <3> QED BY <3>1, <3>2, <1>5
  <2>2. CASE i = n + 1
    <3>1. next > 1
      BY <2>2, <1>7, <1>1, BatchFacts DEF TypeOK
    <3>2. StatusBy(n, version)
      BY <1>0, <3>1 DEF OrderInv, SendNext
    <3> QED BY <3>2, <2>2, <1>1, <1>3, <1>5, Numbers
  <2> QED BY <2>1, <2>2, <1>1
<1>8. StatusIsNewest'
  BY <1>0, <1>3 DEF OrderInv, StatusIsNewest
<1> QED BY <1>0, <1>1, <1>3, <1>4, <1>6, <1>7, <1>8 DEF OrderInv

(* The oldest report reaches the host.  If it is not the status, one at    *)
(* least as new is there; if it is, everything the host has is older.      *)
LEMMA PollKeepsOrder ==
  ASSUME TypeOK, TypeOK', OrderInv, HostPoll PROVE OrderInv'
<1>0. PICK n \in Nat : n = Len(endpoint) - 1
  <2>1. Len(endpoint) \in Nat \ {0}
    BY EmptySeq DEF HostPoll, TypeOK
  <2> QED BY <2>1
<1> DEFINE item == endpoint[1]
<1>1. n \in Nat /\ Len(endpoint) = n + 1 /\ Len(endpoint') = n /\ \A i \in 1 .. n : endpoint'[i] = endpoint[i + 1]
  BY <1>0, HeadTailProperties, EmptySeq, Numbers DEF HostPoll, TypeOK
<1>2. 1 \in 1 .. Len(endpoint) /\ item = Head(endpoint)
  BY <1>1, Numbers DEF HostPoll
<1>3. item.report \in Reports /\ item.version \in Int
  BY <1>2, Numbers
<1>4. /\ viewVersion'[item.report] = item.version
      /\ \A r \in Reports : r # item.report => viewVersion'[r] = viewVersion[r]
  BY <1>2, <1>3 DEF HostPoll, TypeOK
<1>5. UNCHANGED <<version, pc, next>>
  BY DEF HostPoll, loopVars
<1>6. viewVersion'[Status] >= item.version /\ viewVersion'[Status] >= viewVersion[Status]
  <2>1. CASE item.report = Status
    BY <2>1, <1>2, <1>3, <1>4, BatchFacts, Numbers DEF OrderInv, Ordered
  <2>2. CASE item.report # Status
    <3>1. StatusBy(0, item.version)
      BY <2>2, <1>2 DEF OrderInv
    <3> QED BY <3>1, <2>2, <1>4, BatchFacts, Numbers DEF StatusBy
  <2> QED BY <2>1, <2>2
<1>7. \A r \in Reports : viewVersion'[r] \in Int
                         /\ (viewVersion'[r] = item.version \/ viewVersion'[r] = viewVersion[r])
  BY <1>3, <1>4, Numbers
<1>8. Ordered'
  <2>1. \A i, j \in 1 .. n : i <= j => endpoint'[i].version <= endpoint'[j].version
    <3> SUFFICES ASSUME NEW i \in 1 .. n, NEW j \in 1 .. n, i <= j
                 PROVE  endpoint'[i].version <= endpoint'[j].version
      OBVIOUS
    <3>1. i + 1 \in 1 .. Len(endpoint) /\ j + 1 \in 1 .. Len(endpoint) /\ i + 1 <= j + 1
      BY <1>1
    <3> QED BY <3>1, <1>1 DEF OrderInv, Ordered
  <2>2. \A i \in 1 .. n : /\ i + 1 \in 1 .. Len(endpoint)
                          /\ endpoint'[i].version = endpoint[i + 1].version
                          /\ item.version <= endpoint[i + 1].version
    BY <1>1, <1>2 DEF OrderInv, Ordered
  <2>3. item.version <= version
    BY <1>2 DEF OrderInv, Ordered
  <2>4. \A i \in 1 .. n : endpoint'[i].version <= version
    BY <2>2 DEF OrderInv, Ordered
  <2>5. \A r \in Reports : viewVersion'[r] <= version
    BY <2>3, <1>7 DEF OrderInv, Ordered
  <2>6. \A r \in Reports, i \in 1 .. n : viewVersion'[r] <= endpoint'[i].version
    BY <2>2, <1>7, <1>1 DEF OrderInv, Ordered
  <2> QED BY <1>1, <1>5, <2>1, <2>4, <2>5, <2>6 DEF Ordered
<1>9. ASSUME NEW m \in 1 .. n + 1, NEW v \in Int, StatusBy(m, v) PROVE StatusBy(m - 1, v)'
  <2>1. CASE viewVersion[Status] >= v
    BY <2>1, <1>6, <1>7, Numbers, BatchFacts DEF StatusBy
  <2>2. CASE \E j \in 1 .. m : endpoint[j].report = Status /\ endpoint[j].version >= v
    <3>1. PICK j \in 1 .. m : endpoint[j].report = Status /\ endpoint[j].version >= v
      BY <2>2
    <3>2. CASE j = 1
      BY <3>1, <3>2, <1>6, <1>7, <1>3, Numbers, BatchFacts DEF StatusBy
    <3>3. CASE j # 1
      <4>1. j - 1 \in 1 .. m - 1 /\ j - 1 \in 1 .. n /\ endpoint'[j - 1] = endpoint[j]
        BY <3>3, <1>1
      <4> QED BY <4>1, <3>1 DEF StatusBy
    <3> QED BY <3>2, <3>3
  <2> QED BY <1>9, <2>1, <2>2 DEF StatusBy
<1>10. ASSUME NEW i \in 1 .. n, endpoint'[i].report # Status
       PROVE  StatusBy(i - 1, endpoint[i].version)'
  <2>1. i + 1 \in 1 .. Len(endpoint) /\ endpoint'[i] = endpoint[i + 1]
    BY <1>1
  <2>2. StatusBy((i + 1) - 1, endpoint[i + 1].version)
    BY <2>1, <1>10 DEF OrderInv
  <2>3. (i + 1) - 1 = i /\ i \in 1 .. n + 1 /\ endpoint[i + 1].version \in Int
    BY <2>1, <1>1, Numbers
  <2> QED BY <2>1, <2>2, <2>3, <1>9
<1>11. pc' = "send" /\ next' > 1 => StatusBy(Len(endpoint), version)'
  <2> SUFFICES ASSUME pc = "send", next > 1 PROVE StatusBy(n, version)'
    BY <1>1, <1>5
  <2>1. StatusBy(n + 1, version) /\ n + 1 \in 1 .. n + 1 /\ (n + 1) - 1 = n
    BY <1>1, Numbers DEF OrderInv
  <2>2. StatusBy((n + 1) - 1, version)'
    BY <2>1, <1>5, <1>9, Numbers DEF StatusBy
  <2> QED BY <2>1, <2>2
<1>12. StatusIsNewest'
  <2>1. \A r \in Reports : viewVersion[Status] >= viewVersion[r]
    BY DEF OrderInv, StatusIsNewest
  <2>2. viewVersion[Status] \in Int /\ viewVersion'[Status] \in Int
    BY <1>7, Numbers, BatchFacts
  <2>3. ASSUME NEW r \in Reports PROVE viewVersion'[Status] >= viewVersion'[r]
    BY <2>1, <2>2, <2>3, <1>3, <1>6, <1>7, Numbers
  <2> QED BY <2>3 DEF StatusIsNewest
<1> QED BY <1>1, <1>8, <1>10, <1>11, <1>12 DEF OrderInv

LEMMA OrderInvariant == Spec => [](TypeOK /\ OrderInv)
<1>1. TypeOK /\ TypeOK' /\ OrderInv /\ [Next]_vars => OrderInv'
  <2> SUFFICES ASSUME TypeOK, TypeOK', OrderInv, [Next]_vars PROVE OrderInv'
    OBVIOUS
  <2>1. ASSUME NEW v \in [Reports -> Values], Command(v) PROVE OrderInv'
    BY <2>1, NewValuesType, ChangeKeepsOrder DEF Command, Start
  <2>2. ASSUME NEW s \in Values, EndOfPass(s) PROVE OrderInv'
    BY <2>2, NewValuesType, StatusChanged, ChangeKeepsOrder DEF EndOfPass, Start
  <2>3. CASE SendNext
    BY <2>3, SendKeepsOrder
  <2>4. CASE GiveUp
    BY <2>4, ChangeKeepsOrder, Numbers DEF GiveUp
  <2>5. CASE IntervalPasses
    BY <2>5, ChangeKeepsOrder, Numbers DEF IntervalPasses
  <2>6. CASE HostPoll
    BY <2>6, PollKeepsOrder
  <2>7. CASE UNCHANGED vars
    BY <2>7 DEF vars, OrderInv, Ordered, StatusBy, StatusIsNewest
  <2> QED BY <2>1, <2>2, <2>3, <2>4, <2>5, <2>6, <2>7 DEF Next, LoopNext
<1> QED BY <1>1, InitOrder, TypeCorrect, PTL DEF Spec

(* The host never holds a measurement that is newer than the status it     *)
(* has, however many batches are given up and however slowly it polls.     *)
THEOREM StatusIsAlwaysNewest == Spec => []StatusIsNewest
BY OrderInvariant, PTL DEF OrderInv

-----------------------------------------------------------------------------
(* Nothing is left behind unless a batch was given up.                     *)

LEMMA LastIsPolled ==
  ASSUME NEW r, NEW queue \in Seq(Item), NEW held, NEW k \in 1 .. Len(queue),
         queue[k].report = r, \A j \in 1 .. Len(queue) : j > k => queue[j].report # r
  PROVE  AfterPolling(r, queue, held) = queue[k].value
<1> DEFINE sent == {i \in 1 .. Len(queue) : queue[i].report = r}
<1>1. Len(queue) \in Nat
  BY LenProperties
<1>2. k \in sent /\ \A j \in sent : j <= k
  BY <1>1
<1>3. \A i \in sent : (\A j \in sent : j <= i) => i = k
  BY <1>1, <1>2
<1>4. (CHOOSE i \in sent : \A j \in sent : j <= i) = k
  BY <1>2, <1>3
<1> QED BY <1>2, <1>4 DEF AfterPolling

LEMMA NoneIsPolled ==
  ASSUME NEW r, NEW queue, NEW held, \A j \in 1 .. Len(queue) : queue[j].report # r
  PROVE  AfterPolling(r, queue, held) = held
BY DEF AfterPolling

LEMMA SomeIsLast ==
  ASSUME NEW r, NEW queue \in Seq(Item), \E j \in 1 .. Len(queue) : queue[j].report = r
  PROVE  \E k \in 1 .. Len(queue) :
           /\ queue[k].report = r
           /\ \A j \in 1 .. Len(queue) : j > k => queue[j].report # r
<1> DEFINE sent == {i \in 1 .. Len(queue) : queue[i].report = r}
<1>1. Len(queue) \in Nat
  BY LenProperties
<1>2. PICK k \in sent : \A j \in sent : j <= k
  BY <1>1, LastPlace
<1> QED BY <1>1, <1>2

(* a report put into the endpoint is what the host will have in the end *)
LEMMA PollingAppended ==
  ASSUME NEW r, NEW queue \in Seq(Item), NEW held, NEW item \in Item
  PROVE  AfterPolling(r, Append(queue, item), held)
           = IF item.report = r THEN item.value ELSE AfterPolling(r, queue, held)
<1> DEFINE longer == Append(queue, item)
<1>1. /\ Len(queue) \in Nat /\ Len(longer) = Len(queue) + 1 /\ longer \in Seq(Item)
      /\ longer[Len(queue) + 1] = item /\ \A i \in 1 .. Len(queue) : longer[i] = queue[i]
  BY AppendProperties, LenProperties
<1> HIDE DEF longer
<1>2. CASE item.report = r
  <2>1. /\ Len(queue) + 1 \in 1 .. Len(longer) /\ longer[Len(queue) + 1].report = r
        /\ \A j \in 1 .. Len(longer) : j > Len(queue) + 1 => longer[j].report # r
    BY <1>1, <1>2
  <2>2. AfterPolling(r, longer, held) = longer[Len(queue) + 1].value
    BY <1>1, <2>1, LastIsPolled
  <2> QED BY <1>1, <1>2, <2>2 DEF longer
<1>3. CASE item.report # r /\ \E j \in 1 .. Len(queue) : queue[j].report = r
  <2>1. PICK k \in 1 .. Len(queue) :
          /\ queue[k].report = r
          /\ \A j \in 1 .. Len(queue) : j > k => queue[j].report # r
    BY <1>3, SomeIsLast
  <2>2. AfterPolling(r, queue, held) = queue[k].value
    BY <2>1, LastIsPolled
  <2>3. k \in 1 .. Len(longer) /\ \A j \in 1 .. Len(longer) : j > k => longer[j].report # r
    BY <1>1, <1>3, <2>1
  <2>4. AfterPolling(r, longer, held) = longer[k].value
    BY <1>1, <2>1, <2>3, LastIsPolled
  <2> QED BY <1>1, <1>3, <2>1, <2>2, <2>4 DEF longer
<1>4. CASE item.report # r /\ \A j \in 1 .. Len(queue) : queue[j].report # r
  <2>1. \A j \in 1 .. Len(longer) : longer[j].report # r
    BY <1>1, <1>4
  <2> QED BY <1>4, <2>1, NoneIsPolled DEF longer
<1> QED BY <1>2, <1>3, <1>4

(* polling one report changes nothing of what the host will have in the end *)
LEMMA PollingOne ==
  ASSUME NEW r, NEW queue \in Seq(Item), queue # <<>>, NEW held
  PROVE  AfterPolling(r, Tail(queue), IF Head(queue).report = r THEN Head(queue).value ELSE held)
           = AfterPolling(r, queue, held)
<1> DEFINE rest == Tail(queue)
           now == IF Head(queue).report = r THEN Head(queue).value ELSE held
<1>1. /\ rest \in Seq(Item) /\ Len(rest) \in Nat /\ Len(queue) = Len(rest) + 1
      /\ \A i \in 1 .. Len(rest) : rest[i] = queue[i + 1]
      /\ Head(queue) = queue[1]
  BY HeadTailProperties, LenProperties
<1> HIDE DEF rest
<1>2. CASE \E j \in 1 .. Len(rest) : rest[j].report = r
  <2>1. PICK k \in 1 .. Len(rest) :
          rest[k].report = r /\ \A j \in 1 .. Len(rest) : j > k => rest[j].report # r
    BY <1>1, <1>2, SomeIsLast
  <2>2. AfterPolling(r, rest, now) = rest[k].value
    BY <1>1, <2>1, LastIsPolled
  <2>3. k + 1 \in 1 .. Len(queue) /\ queue[k + 1] = rest[k]
    BY <1>1
  <2>4. ASSUME NEW j \in 1 .. Len(queue), j > k + 1 PROVE queue[j].report # r
    <3>1. j - 1 \in 1 .. Len(rest) /\ j - 1 > k /\ rest[j - 1] = queue[j]
      BY <1>1, <2>4
    <3> QED BY <2>1, <3>1
  <2>5. AfterPolling(r, queue, held) = queue[k + 1].value
    BY <2>1, <2>3, <2>4, LastIsPolled
  <2> QED BY <2>2, <2>3, <2>5 DEF rest
<1>3. CASE ~ \E j \in 1 .. Len(rest) : rest[j].report = r
  <2>1. AfterPolling(r, rest, now) = now
    BY <1>3, NoneIsPolled
  <2>2. ASSUME NEW j \in 1 .. Len(queue), j > 1 PROVE queue[j].report # r
    <3>1. j - 1 \in 1 .. Len(rest) /\ rest[j - 1] = queue[j]
      BY <1>1, <2>2
    <3> QED BY <1>3, <3>1
  <2>3. CASE queue[1].report = r
    <3>1. AfterPolling(r, queue, held) = queue[1].value
      BY <1>1, <2>2, <2>3, LastIsPolled
    <3> QED BY <1>1, <2>1, <2>3, <3>1 DEF rest
  <2>4. CASE queue[1].report # r
    <3>1. \A j \in 1 .. Len(queue) : queue[j].report # r
      BY <1>1, <2>2, <2>4
    <3>2. AfterPolling(r, queue, held) = held
      BY <3>1, NoneIsPolled
    <3> QED BY <1>1, <2>1, <2>4, <3>2 DEF rest
  <2> QED BY <2>3, <2>4
<1> QED BY <1>2, <1>3

(* The inductive invariant: what the batch under way has sent will reach   *)
(* the host, and the snapshot of a quiet loop is the values themselves, so *)
(* that the pass which finds nothing worth sending has changed nothing.    *)
SentInv ==
  /\ pc = "send" => \A i \in 1 .. next - 1 : Latest(Batch[i]) = val[Batch[i]]
  /\ pc = "idle" /\ ~failed => \A r \in Tracked : prev[r] = val[r]
  /\ QuietMeansSent

LEMMA SendKeepsSent ==
  ASSUME TypeOK, SentInv, SendNext PROVE SentInv'
<1> DEFINE item == [report |-> Batch[next], value |-> val[Batch[next]], version |-> version]
<1>1. endpoint' = Append(endpoint, item) /\ UNCHANGED <<val, view>>
  BY DEF SendNext, Queued
<1>2. \A r : Latest(r)' = IF Batch[next] = r THEN val[Batch[next]] ELSE Latest(r)
  BY <1>1, NewItem, PollingAppended DEF Latest, TypeOK
<1>3. \A i \in 1 .. next : Latest(Batch[i])' = val'[Batch[i]]
  <2>1. next \in Nat
    BY BatchFacts DEF TypeOK
  <2> QED BY <1>1, <1>2, <2>1 DEF SentInv, SendNext
<1>4. CASE next < Len(Batch)
  BY <1>3, <1>4, BatchFacts DEF SentInv, SendNext, QuietMeansSent, TypeOK
<1>5. CASE next = Len(Batch)
  <2>1. \A r \in Reports : Latest(r)' = val'[r]
    BY <1>3, <1>5, BatchFacts
  <2>2. pc' = "idle" /\ \A r \in Tracked : prev'[r] = val'[r]
    BY <1>1, <1>5, BatchFacts DEF SendNext
  <2> QED BY <2>1, <2>2 DEF SentInv, QuietMeansSent
<1> QED BY <1>4, <1>5, BatchFacts DEF SendNext, TypeOK

LEMMA PollKeepsSent ==
  ASSUME TypeOK, SentInv, HostPoll PROVE SentInv'
<1>1. \A r \in Reports : Latest(r)' = Latest(r)
  <2> SUFFICES ASSUME NEW r \in Reports PROVE Latest(r)' = Latest(r)
    OBVIOUS
  <2>1. view'[r] = IF Head(endpoint).report = r THEN Head(endpoint).value ELSE view[r]
    BY DEF HostPoll, TypeOK
  <2> QED BY <2>1, PollingOne DEF HostPoll, TypeOK, Latest
<1> QED BY <1>1, BatchFacts DEF SentInv, QuietMeansSent, HostPoll, loopVars, TypeOK

LEMMA PassKeepsSent ==
  ASSUME TypeOK, SentInv, NEW s \in Values, EndOfPass(s) PROVE SentInv'
<1>1. CASE WorthSending(val')
  BY <1>1 DEF EndOfPass, Start, SentInv, QuietMeansSent
<1>2. CASE ~WorthSending(val')
  <2>1. /\ pc' = "idle" /\ \A r \in Tracked : val'[r] = prev[r]
        /\ UNCHANGED <<pc, next, prev, endpoint, view, failed>>
    BY <1>2 DEF EndOfPass, WorthSending
  <2>2. ASSUME ~failed PROVE val' = val
    <3>1. val[Status] = s
      BY <2>1, <2>2, BatchFacts DEF EndOfPass, NewValues, SentInv, TypeOK
    <3> QED BY <3>1 DEF EndOfPass, NewValues, TypeOK
  <2> QED BY <2>1, <2>2 DEF SentInv, QuietMeansSent, Latest
<1> QED BY <1>1, <1>2

LEMMA SentInvariant == Spec => []SentInv
<1>1. Init => SentInv
  BY DEF Init, SentInv, QuietMeansSent
<1>2. TypeOK /\ SentInv /\ [Next]_vars => SentInv'
  <2> SUFFICES ASSUME TypeOK, SentInv, [Next]_vars PROVE SentInv'
    OBVIOUS
  <2>1. ASSUME NEW v \in [Reports -> Values], Command(v) PROVE SentInv'
    BY <2>1 DEF Command, Start, SentInv, QuietMeansSent
  <2>2. ASSUME NEW s \in Values, EndOfPass(s) PROVE SentInv'
    BY <2>2, PassKeepsSent
  <2>3. CASE SendNext
    BY <2>3, SendKeepsSent
  <2>4. CASE GiveUp
    BY <2>4 DEF GiveUp, SentInv, QuietMeansSent
  <2>5. CASE IntervalPasses
    BY <2>5 DEF IntervalPasses, SentInv, QuietMeansSent, Latest
  <2>6. CASE HostPoll
    BY <2>6, PollKeepsSent
  <2>7. CASE UNCHANGED vars
    BY <2>7 DEF vars, SentInv, QuietMeansSent, Latest
  <2> QED BY <2>1, <2>2, <2>3, <2>4, <2>5, <2>6, <2>7 DEF Next, LoopNext
<1> QED BY <1>1, <1>2, TypeCorrect, PTL DEF Spec

(* Unless the last batch was given up, no handler and no pass leaves a     *)
(* value behind: the host has every value or it is on its way.             *)
THEOREM NothingIsLeftBehind == Spec => []QuietMeansSent
BY SentInvariant, PTL DEF SentInv
=============================================================================
