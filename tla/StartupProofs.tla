--------------------------- MODULE StartupProofs ---------------------------
(***************************************************************************)
(* Theorems about module Startup: the DHCP timer for any range of millis() *)
(* and any intervals, and the registry for the calls of setup(), which     *)
(* lock no Feature before it is set (CallsLawful).                         *)
(***************************************************************************)
EXTENDS Startup, SequenceTheorems, FiniteSetTheorems, WellFoundedInduction, TLAPS

-----------------------------------------------------------------------------
(* Arithmetic of the wrapping clock.                                       *)

LEMMA ClockFacts ==
  /\ MillisWrap \in Nat \ {0} /\ HalfWrap \in Nat /\ MaxAge \in Nat \ {0} /\ MaxBlock \in Nat
  /\ HalfWrap + HalfWrap <= MillisWrap
  /\ \A i \in Intervals : i \in Nat \ {0} /\ i < HalfWrap /\ HalfWrap + i < MaxAge
  /\ DHCP_MAINTAIN_INTERVAL_MS \in Intervals
BY DhcpAssumption DEF HalfWrap, Intervals

LEMMA Remainders ==
  ASSUME NEW w \in Nat \ {0}, NEW x \in Int
  PROVE  /\ x % w \in 0 .. w - 1
         /\ x \in 0 .. w - 1 => x % w = x
         /\ x \in w .. w + w - 1 => x % w = x - w
         /\ x \in -w .. -1 => x % w = x + w
OBVIOUS

LEMMA ClockSum ==
  ASSUME NEW m \in 0 .. MillisWrap - 1, NEW t \in Nat
  PROVE  /\ (m + t) % MillisWrap \in 0 .. MillisWrap - 1
         /\ m + t < MillisWrap => (m + t) % MillisWrap = m + t
         /\ m + t >= MillisWrap /\ t < MillisWrap => (m + t) % MillisWrap = (m + t) - MillisWrap
<1>1. MillisWrap \in Nat \ {0}
  BY ClockFacts
<1>2. /\ m + t \in Int
      /\ m + t < MillisWrap => m + t \in 0 .. MillisWrap - 1
      /\ m + t >= MillisWrap /\ t < MillisWrap
           => m + t \in MillisWrap .. MillisWrap + MillisWrap - 1
  BY <1>1
<1> QED BY <1>1, <1>2, Remainders

LEMMA ClockDifference ==
  ASSUME NEW m \in 0 .. MillisWrap - 1, NEW n \in 0 .. MillisWrap - 1
  PROVE  /\ n <= m => (m - n) % MillisWrap = m - n
         /\ m < n => (m - n) % MillisWrap = (m - n) + MillisWrap
<1>1. MillisWrap \in Nat \ {0}
  BY ClockFacts
<1>2. /\ m - n \in Int
      /\ n <= m => m - n \in 0 .. MillisWrap - 1
      /\ m < n => m - n \in -MillisWrap .. -1
  BY <1>1
<1> QED BY <1>1, <1>2, Remainders

(* The clock shows m, the deadline is n, and the true time since it was    *)
(* set, i ahead, is a: the difference of the samples tells how late it is, *)
(* until that is half the range.                                           *)
Agrees(m, n, i, a) ==
  /\ a < i => (n <= m => m - n = (MillisWrap + a) - i) /\ (m < n => m - n = a - i)
  /\ i <= a /\ a < i + HalfWrap
       => (n <= m => m - n = a - i) /\ (m < n => (m - n) + MillisWrap = a - i)

LEMMA SetAgrees ==
  ASSUME NEW m \in 0 .. MillisWrap - 1, NEW i \in Intervals
  PROVE  /\ (m + i) % MillisWrap \in 0 .. MillisWrap - 1
         /\ Agrees(m, (m + i) % MillisWrap, i, 0)
<1>1. i \in Nat \ {0} /\ i < HalfWrap /\ MillisWrap \in Nat \ {0} /\ HalfWrap \in Nat
      /\ HalfWrap + HalfWrap <= MillisWrap
  BY ClockFacts
<1>2. PICK n \in 0 .. MillisWrap - 1 : n = (m + i) % MillisWrap
  BY <1>1, ClockSum
<1>3. CASE m + i < MillisWrap
  <2>1. n = m + i
    BY <1>1, <1>2, <1>3, ClockSum
  <2>2. Agrees(m, n, i, 0)
    BY <1>1, <2>1 DEF Agrees
  <2> QED BY <2>2, <1>2
<1>4. CASE m + i >= MillisWrap
  <2>1. n = (m + i) - MillisWrap
    BY <1>1, <1>2, <1>4, ClockSum
  <2>2. Agrees(m, n, i, 0)
    BY <1>1, <2>1 DEF Agrees
  <2> QED BY <2>2, <1>2
<1> QED BY <1>1, <1>3, <1>4

LEMMA StillAgrees ==
  ASSUME NEW m \in 0 .. MillisWrap - 1, NEW n \in 0 .. MillisWrap - 1, NEW i \in Intervals,
         NEW a \in Nat, NEW t \in Nat, Agrees(m, n, i, a), a + t < i + HalfWrap
  PROVE  Agrees((m + t) % MillisWrap, n, i, a + t)
<1>1. i \in Nat \ {0} /\ i < HalfWrap /\ MillisWrap \in Nat \ {0} /\ HalfWrap \in Nat
      /\ HalfWrap + HalfWrap <= MillisWrap
  BY ClockFacts
<1>2. PICK k \in 0 .. MillisWrap - 1 : k = (m + t) % MillisWrap
  BY <1>1, ClockSum
<1>3. t < MillisWrap
  BY <1>1
<1>4. CASE m + t < MillisWrap
  <2>1. k = m + t
    BY <1>1, <1>2, <1>4, ClockSum
  <2>2. Agrees(k, n, i, a + t)
    BY <1>1, <2>1 DEF Agrees
  <2> QED BY <2>2, <1>2
<1>5. CASE m + t >= MillisWrap
  <2>1. k = (m + t) - MillisWrap
    BY <1>1, <1>2, <1>3, <1>5, ClockSum
  <2>2. Agrees(k, n, i, a + t)
    BY <1>1, <2>1 DEF Agrees
  <2> QED BY <2>2, <1>2
<1> QED BY <1>1, <1>4, <1>5

(* What Due sees. *)
LEMMA DueFacts ==
  ASSUME NEW m \in 0 .. MillisWrap - 1, NEW n \in 0 .. MillisWrap - 1, NEW i \in Intervals,
         NEW a \in Nat, Agrees(m, n, i, a)
  PROVE  /\ (m - n) % MillisWrap < HalfWrap => a >= i
         /\ ~((m - n) % MillisWrap < HalfWrap) => a < i \/ a >= i + HalfWrap
<1>1. i \in Nat \ {0} /\ i < HalfWrap /\ MillisWrap \in Nat \ {0} /\ HalfWrap \in Nat
      /\ HalfWrap + HalfWrap <= MillisWrap
  BY ClockFacts
<1>2. CASE n <= m
  <2>1. (m - n) % MillisWrap = m - n
    BY <1>2, ClockDifference
  <2> QED BY <1>1, <1>2, <2>1 DEF Agrees
<1>3. CASE m < n
  <2>1. (m - n) % MillisWrap = (m - n) + MillisWrap
    BY <1>3, ClockDifference
  <2> QED BY <1>1, <1>3, <2>1 DEF Agrees
<1> QED BY <1>1, <1>2, <1>3

-----------------------------------------------------------------------------
(* The timer.                                                              *)

TimerInv ==
  network # "down" => interval \in Intervals /\ Agrees(millis, nextDhcpMaintainMs, interval, age)

LEMMA InitTimer == DhcpInit => DhcpTypeOK /\ TimerInv
<1>1. 0 \in 0 .. MillisWrap - 1 /\ 0 \in 0 .. MaxAge
  BY ClockFacts
<1> QED BY <1>1 DEF DhcpInit, DhcpTypeOK, TimerInv

LEMMA ElapsedFacts ==
  ASSUME DhcpTypeOK, NEW t \in 0 .. MaxBlock, Elapsed(t)
  PROVE  millis' \in 0 .. MillisWrap - 1 /\ millis' = (millis + t) % MillisWrap
<1>1. millis \in 0 .. MillisWrap - 1
  BY DEF DhcpTypeOK
<1>2. t \in Nat
  BY ClockFacts
<1> QED BY <1>1, <1>2, ClockSum DEF Elapsed

LEMMA ScheduleFacts ==
  ASSUME DhcpTypeOK, NEW t \in 0 .. MaxBlock, Elapsed(t), NEW i \in Intervals, Schedule(i)
  PROVE  /\ {nextDhcpMaintainMs', millis'} \subseteq 0 .. MillisWrap - 1
         /\ interval' \in Intervals /\ age' \in 0 .. MaxAge
         /\ Agrees(millis', nextDhcpMaintainMs', interval', age')
<1>1. millis' \in 0 .. MillisWrap - 1
  BY ElapsedFacts
<1> QED BY <1>1, SetAgrees, ClockFacts DEF Schedule

LEMMA NextTimer ==
  ASSUME DhcpTypeOK, TimerInv, InitEthernet \/ DhcpLoop \/ UNCHANGED dhcpVars
  PROVE  DhcpTypeOK' /\ TimerInv'
<1>1. CASE InitEthernet
  <2>1. PICK t \in 0 .. MaxBlock : Elapsed(t)
    BY <1>1 DEF InitEthernet
  <2>2. Schedule(DHCP_MAINTAIN_INTERVAL_MS) /\ DHCP_MAINTAIN_INTERVAL_MS \in Intervals
    BY <1>1, ClockFacts DEF InitEthernet
  <2> QED BY <1>1, <2>1, <2>2, ScheduleFacts DEF InitEthernet, DhcpTypeOK, TimerInv
<1>2. CASE Maintain
  <2>1. PICK t \in 0 .. MaxBlock : Elapsed(t)
    BY <1>2 DEF Maintain
  <2>2. PICK i \in Intervals : Schedule(i)
    BY <1>2 DEF Maintain
  <2> QED BY <1>2, <2>1, <2>2, ScheduleFacts DEF Maintain, DhcpTypeOK, TimerInv
<1>3. CASE SkipMaintain
  BY <1>3 DEF SkipMaintain, DhcpTypeOK, TimerInv, timer
<1>4. CASE RestOfPass
  <2>1. PICK t \in 0 .. MaxBlock : Elapsed(t) /\ age' = Least(age + t, MaxAge)
    BY <1>4 DEF RestOfPass
  <2>2. millis' \in 0 .. MillisWrap - 1 /\ millis' = (millis + t) % MillisWrap
    BY <2>1, ElapsedFacts
  <2>3. age' \in 0 .. MaxAge /\ (age' < MaxAge => age' = age + t) /\ t \in Nat
    BY <2>1, ClockFacts DEF DhcpTypeOK, Least
  <2>4. DhcpTypeOK'
    BY <1>4, <2>2, <2>3 DEF RestOfPass, DhcpTypeOK, timer
  <2>5. network # "down" /\ network' # "down" /\ UNCHANGED timer
    BY <1>4 DEF RestOfPass
  <2>6. interval \in Intervals /\ Agrees(millis, nextDhcpMaintainMs, interval, age)
    BY <2>5 DEF TimerInv
  <2>7. CASE age' < interval + HalfWrap
    <3>1. age' = age + t
      BY <2>3, <2>6, <2>7, ClockFacts DEF DhcpTypeOK
    <3>2. /\ millis \in 0 .. MillisWrap - 1 /\ nextDhcpMaintainMs \in 0 .. MillisWrap - 1
          /\ age \in Nat /\ age + t < interval + HalfWrap
      BY <2>7, <3>1 DEF DhcpTypeOK
    <3>3. Agrees((millis + t) % MillisWrap, nextDhcpMaintainMs, interval, age + t)
      BY <2>3, <2>6, <3>2, StillAgrees
    <3>4. nextDhcpMaintainMs' = nextDhcpMaintainMs /\ interval' = interval
      BY <2>5 DEF timer
    <3>5. Agrees(millis', nextDhcpMaintainMs', interval', age')
      BY <2>2, <3>1, <3>3, <3>4
    <3> QED BY <2>4, <2>6, <3>4, <3>5 DEF TimerInv
  <2>8. CASE ~(age' < interval + HalfWrap)
    <3>1. ~(age' < interval)
      BY <2>3, <2>6, <2>8, ClockFacts
    <3> QED BY <2>4, <2>5, <2>6, <2>8, <3>1 DEF TimerInv, Agrees, timer
  <2> QED BY <2>4, <2>7, <2>8
<1>5. CASE UNCHANGED dhcpVars
  BY <1>5 DEF dhcpVars, timer, DhcpTypeOK, TimerInv
<1> QED BY <1>1, <1>2, <1>3, <1>4, <1>5 DEF DhcpLoop

LEMMA TimerStep ==
  ASSUME DhcpTypeOK, TimerInv
  PROVE  /\ Maintain => age >= interval
         /\ SkipMaintain /\ dhcpLeased /\ ~armed
              => age < interval \/ age >= interval + HalfWrap
<1>1. CASE network = "top"
  <2>1. /\ interval \in Intervals /\ Agrees(millis, nextDhcpMaintainMs, interval, age)
        /\ millis \in 0 .. MillisWrap - 1 /\ nextDhcpMaintainMs \in 0 .. MillisWrap - 1
        /\ age \in Nat
    BY <1>1 DEF TimerInv, DhcpTypeOK
  <2> QED BY <2>1, DueFacts DEF Maintain, SkipMaintain, Due
<1>2. CASE network # "top"
  BY <1>2 DEF Maintain, SkipMaintain
<1> QED BY <1>1, <1>2

-----------------------------------------------------------------------------
LEMMA TimerIsSound == StartupSpec => [](DhcpTypeOK /\ TimerInv)
<1>1. StartupInit => DhcpTypeOK /\ TimerInv
  BY InitTimer DEF StartupInit
<1>2. DhcpTypeOK /\ TimerInv /\ [StartupNext]_<<vars, dhcpVars>> => DhcpTypeOK' /\ TimerInv'
  BY NextTimer DEF StartupNext
<1> QED BY <1>1, <1>2, PTL DEF StartupSpec

(* Ethernet.maintain() is never called before the interval it was put off  *)
(* by has really passed, for every range of millis() and every pair of     *)
(* intervals below half of it, however often millis() wraps in between.    *)
THEOREM NeverMaintainedTooSoon == StartupSpec => NeverTooSoon
<1>1. DhcpTypeOK /\ TimerInv => [Maintain => age >= interval]_dhcpVars
  BY TimerStep
<1> QED BY <1>1, TimerIsSound, PTL DEF NeverTooSoon

(* A pass that is disarmed and skips it does so before it is due, or more  *)
(* than half the range of millis() after that.                             *)
THEOREM LateByHalfTheRange == StartupSpec => LateOnlyByHalfTheRange
<1>1. DhcpTypeOK /\ TimerInv
        => [SkipMaintain /\ dhcpLeased /\ ~armed
              => age < interval \/ age >= interval + HalfWrap]_dhcpVars
  BY TimerStep
<1> QED BY <1>1, TimerIsSound, PTL DEF LateOnlyByHalfTheRange

-----------------------------------------------------------------------------
(* The calls setup() consists of, piece by piece: what they set and lock,  *)
(* and that nothing is locked before it is set.                            *)

Has(s, call) == \E i \in DOMAIN s : s[i] = call
Sequence(s) == \E S : s \in Seq(S)

LEMMA Joined ==
  ASSUME NEW s, NEW t, Sequence(s), Sequence(t)
  PROVE  Sequence(s \o t) /\ \A c : Has(s \o t, c) <=> Has(s, c) \/ Has(t, c)
<1>1. PICK S : s \in Seq(S)
  BY DEF Sequence
<1>2. PICK T : t \in Seq(T)
  BY DEF Sequence
<1>3. s \in Seq(S \cup T) /\ t \in Seq(S \cup T)
  BY <1>1, <1>2, SeqMonotonic
<1>4. /\ s \o t \in Seq(S \cup T) /\ Len(s) \in Nat /\ Len(t) \in Nat
      /\ DOMAIN s = 1 .. Len(s) /\ DOMAIN t = 1 .. Len(t)
      /\ DOMAIN (s \o t) = 1 .. Len(s) + Len(t)
      /\ \A i \in 1 .. Len(s) + Len(t) : (s \o t)[i] = IF i <= Len(s) THEN s[i] ELSE t[i - Len(s)]
  BY <1>3, ConcatProperties, LenProperties
<1>5. ASSUME NEW c PROVE Has(s \o t, c) <=> Has(s, c) \/ Has(t, c)
  <2>1. ASSUME Has(s \o t, c) PROVE Has(s, c) \/ Has(t, c)
    <3>1. PICK i \in 1 .. Len(s) + Len(t) : (s \o t)[i] = c
      BY <1>4, <2>1 DEF Has
    <3>2. CASE i <= Len(s)
      BY <1>4, <3>1, <3>2 DEF Has
    <3>3. CASE i > Len(s)
      <4>1. i - Len(s) \in 1 .. Len(t) /\ t[i - Len(s)] = c
        BY <1>4, <3>1, <3>3
      <4> QED BY <1>4, <4>1 DEF Has
    <3> QED BY <1>4, <3>2, <3>3
  <2>2. ASSUME Has(s, c) PROVE Has(s \o t, c)
    <3>1. PICK i \in 1 .. Len(s) : s[i] = c
      BY <1>4, <2>2 DEF Has
    <3>2. i \in DOMAIN (s \o t) /\ (s \o t)[i] = c
      BY <1>4, <3>1
    <3> QED BY <3>2 DEF Has
  <2>3. ASSUME Has(t, c) PROVE Has(s \o t, c)
    <3>1. PICK i \in 1 .. Len(t) : t[i] = c
      BY <1>4, <2>3 DEF Has
    <3>2. i + Len(s) \in DOMAIN (s \o t) /\ (s \o t)[i + Len(s)] = c
      BY <1>4, <3>1
    <3> QED BY <3>2 DEF Has
  <2> QED BY <2>1, <2>2, <2>3
<1> QED BY <1>4, <1>5 DEF Sequence

(* no two Features share an id *)
LEMMA Injective == \A f, g \in DOMAIN FeatureId : FeatureId[f] = FeatureId[g] => f = g
BY DEF FeatureId

LEMMA Names ==
  DOMAIN FeatureId = {"iProduct", "serial", "manufacturer", "rechargeable", "presentStatus",
   "remainTimeLimit", "manufactureDate", "configVoltage", "voltage",
   "remainingCapacity", "runTimeToEmpty", "fullChargeCapacity",
   "warnCapacityLimit", "granularity1", "remnCapacityLimit",
   "delayShutdown", "delayReboot", "audibleAlarm", "capacityMode",
   "designCapacity", "granularity2", "averageTime2Full",
   "averageTime2Empty", "deviceChemistry", "oemInformation",
   "delayStartup", "percentLoad", "inputVoltage", "outputVoltage"}
BY DEF FeatureId

SetOf(f)  == [call |-> "SetFeature", id |-> FeatureId[f]]
LockOf(f) == [call |-> "LockFeature", id |-> FeatureId[f]]

(* s sets the Features F and locks the Features G, and no others *)
Content(s, F, G) ==
  /\ Sequence(s) /\ F \subseteq DOMAIN FeatureId /\ G \subseteq DOMAIN FeatureId
  /\ \A f \in F : Has(s, SetOf(f))
  /\ \A f \in G : Has(s, LockOf(f))
  /\ \A f \in DOMAIN FeatureId : Has(s, LockOf(f)) => f \in G

LEMMA ContentJoined ==
  \A s, t, F, G, H, I : Content(s, F, G) /\ Content(t, H, I) => Content(s \o t, F \cup H, G \cup I)
<1>1. SUFFICES ASSUME NEW s, NEW t, NEW F, NEW G, NEW H, NEW I, Content(s, F, G), Content(t, H, I)
               PROVE  Content(s \o t, F \cup H, G \cup I)
  OBVIOUS
<1>2. Sequence(s \o t) /\ \A c : Has(s \o t, c) <=> Has(s, c) \/ Has(t, c)
  BY <1>1, Joined DEF Content
<1> QED BY <1>1, <1>2 DEF Content

LEMMA Single == \A c : Sequence(<<c>>) /\ (\A d : Has(<<c>>, d) <=> d = c)
<1>1. ASSUME NEW c PROVE Sequence(<<c>>) /\ (\A d : Has(<<c>>, d) <=> d = c)
  <2>1. <<c>> \in Seq({c}) /\ DOMAIN <<c>> = 1 .. 1 /\ <<c>>[1] = c
    OBVIOUS
  <2>2. \A i \in 1 .. 1 : i = 1
    OBVIOUS
  <2>3. Sequence(<<c>>)
    BY <2>1, Zenon DEF Sequence
  <2>4. ASSUME NEW d PROVE Has(<<c>>, d) <=> d = c
    BY <2>1, <2>2 DEF Has
  <2> QED BY <2>3, <2>4
<1> QED BY <1>1

LEMMA ContentOfCalls ==
  ASSUME NEW f \in DOMAIN FeatureId
  PROVE  Content(Set(f), {f}, {}) /\ Content(Lock(f), {}, {f})
<1>1. Set(f) = <<SetOf(f)>> /\ Lock(f) = <<LockOf(f)>>
  BY DEF Set, Lock, SetOf, LockOf
<1>2. \A g \in DOMAIN FeatureId : SetOf(f) # LockOf(g)
  BY DEF SetOf, LockOf
<1>3. \A g \in DOMAIN FeatureId : LockOf(f) = LockOf(g) => f = g
  <2>1. \A g \in DOMAIN FeatureId : LockOf(f) = LockOf(g) => FeatureId[f] = FeatureId[g]
    BY DEF LockOf
  <2> QED BY <2>1, Injective, Zenon
<1>4. Content(Set(f), {f}, {})
  BY <1>1, <1>2, Single DEF Content
<1>5. Content(Lock(f), {}, {f})
  BY <1>1, <1>3, Single DEF Content
<1> QED BY <1>4, <1>5

LEMMA ContentOfString ==
  ASSUME NEW f \in {"deviceChemistry", "oemInformation"}
  PROVE  Content(String(f), {f}, {f})
<1> DEFINE third == [call |-> "SetFeature", id |-> StringId[f]]
<1>1. f \in DOMAIN FeatureId
  BY Names
<1>2. Content(<<third>>, {}, {})
  <2>1. \A g \in DOMAIN FeatureId : third # LockOf(g)
    BY DEF LockOf
  <2> QED BY <2>1, Single DEF Content
<1>3. String(f) = Set(f) \o Lock(f) \o <<third>>
  BY DEF String
<1>4. Content(Set(f) \o Lock(f), {f} \cup {}, {} \cup {f})
  BY <1>1, ContentOfCalls, ContentJoined
<1> HIDE DEF third
<1>5. Content(String(f), ({f} \cup {}) \cup {}, ({} \cup {f}) \cup {})
  BY <1>2, <1>3, <1>4, ContentJoined
<1>6. ({f} \cup {}) \cup {} = {f} /\ ({} \cup {f}) \cup {} = {f}
  OBVIOUS
<1> QED BY <1>5, <1>6

LEMMA OneMoreCall ==
  ASSUME NEW s, NEW F, NEW G, Content(s, F, G), NEW f \in DOMAIN FeatureId
  PROVE  Content(s \o Set(f), F \cup {f}, G) /\ Content(s \o Lock(f), F, G \cup {f})
<1>1. /\ Content(s \o Set(f), F \cup {f}, G \cup {}) /\ Content(s \o Lock(f), F \cup {}, G \cup {f})
  BY ContentOfCalls, ContentJoined
<1>2. F \cup {} = F /\ G \cup {} = G
  OBVIOUS
<1> QED BY <1>1, <1>2

(* seven calls of one kind *)
LEMMA SevenCalls ==
  ASSUME NEW s, NEW F, NEW G, Content(s, F, G),
         NEW a \in DOMAIN FeatureId, NEW b \in DOMAIN FeatureId, NEW c \in DOMAIN FeatureId,
         NEW d \in DOMAIN FeatureId, NEW e \in DOMAIN FeatureId, NEW f \in DOMAIN FeatureId,
         NEW g \in DOMAIN FeatureId
  PROVE  /\ Content(s \o Set(a) \o Set(b) \o Set(c) \o Set(d) \o Set(e) \o Set(f) \o Set(g),
                    F \cup {a, b, c, d, e, f, g}, G)
         /\ Content(s \o Lock(a) \o Lock(b) \o Lock(c) \o Lock(d) \o Lock(e) \o Lock(f) \o Lock(g),
                    F, G \cup {a, b, c, d, e, f, g})
<1>1. \A t, H, I : \A x \in DOMAIN FeatureId : Content(t, H, I)
        => Content(t \o Set(x), H \cup {x}, I) /\ Content(t \o Lock(x), H, I \cup {x})
  BY OneMoreCall
<1>2. Content(s \o Set(a) \o Set(b) \o Set(c) \o Set(d) \o Set(e) \o Set(f) \o Set(g),
              F \cup {a} \cup {b} \cup {c} \cup {d} \cup {e} \cup {f} \cup {g}, G)
  BY <1>1, Zenon
<1>3. Content(s \o Lock(a) \o Lock(b) \o Lock(c) \o Lock(d) \o Lock(e) \o Lock(f) \o Lock(g),
              F, G \cup {a} \cup {b} \cup {c} \cup {d} \cup {e} \cup {f} \cup {g})
  BY <1>1, Zenon
<1>4. \A X : X \cup {a} \cup {b} \cup {c} \cup {d} \cup {e} \cup {f} \cup {g}
             = X \cup {a, b, c, d, e, f, g}
  OBVIOUS
<1> QED BY <1>2, <1>3, <1>4

LEMMA LockAllContent == Content(LockAll, {}, DOMAIN FeatureId \ HostWritable)
<1> DEFINE one == Lock("iProduct") \o Lock("serial") \o Lock("manufacturer") \o Lock("presentStatus")
                  \o Lock("runTimeToEmpty") \o Lock("averageTime2Full")
                  \o Lock("averageTime2Empty") \o Lock("rechargeable")
           ones == {"iProduct"} \cup {"serial", "manufacturer", "presentStatus", "runTimeToEmpty",
                                      "averageTime2Full", "averageTime2Empty", "rechargeable"}
           two == one \o Lock("capacityMode") \o Lock("configVoltage") \o Lock("voltage")
                  \o Lock("percentLoad") \o Lock("inputVoltage") \o Lock("outputVoltage")
                  \o Lock("deviceChemistry")
           twos == ones \cup {"capacityMode", "configVoltage", "voltage", "percentLoad",
                              "inputVoltage", "outputVoltage", "deviceChemistry"}
           three == two \o Lock("oemInformation") \o Lock("designCapacity")
                    \o Lock("fullChargeCapacity") \o Lock("remainingCapacity")
                    \o Lock("granularity1") \o Lock("granularity2") \o Lock("manufactureDate")
           threes == twos \cup {"oemInformation", "designCapacity", "fullChargeCapacity",
                                "remainingCapacity", "granularity1", "granularity2",
                                "manufactureDate"}
<1>1. Content(one, {}, ones)
  <2>1. Content(Lock("iProduct"), {}, {"iProduct"})
    BY ContentOfCalls, Names
  <2> QED BY <2>1, SevenCalls, Names
<1>2. Content(two, {}, twos)
  <2> HIDE DEF one, ones
  <2> QED BY <1>1, SevenCalls, Names
<1>3. Content(three, {}, threes)
  <2> HIDE DEF two, twos
  <2> QED BY <1>2, SevenCalls, Names
<1>4. LockAll = three
  BY DEF LockAll
<1>5. threes = DOMAIN FeatureId \ HostWritable
  BY Names DEF HostWritable
<1> HIDE DEF three, threes
<1> QED BY <1>3, <1>4, <1>5

LEMMA SetAllContent ==
  \E F : /\ DOMAIN FeatureId \ {"iProduct", "serial", "manufacturer"} \subseteq F
         /\ Content(SetAll, F, {"deviceChemistry", "oemInformation"})
<1> DEFINE one == Set("presentStatus") \o Set("runTimeToEmpty") \o Set("averageTime2Full")
                  \o Set("averageTime2Empty") \o Set("remainTimeLimit") \o Set("delayStartup")
                  \o Set("delayReboot") \o Set("delayShutdown")
           ones == {"presentStatus"} \cup {"runTimeToEmpty", "averageTime2Full",
                      "averageTime2Empty", "remainTimeLimit", "delayStartup", "delayReboot",
                      "delayShutdown"}
           two == one \o Set("rechargeable") \o Set("capacityMode") \o Set("configVoltage")
                  \o Set("voltage") \o Set("percentLoad") \o Set("inputVoltage")
                  \o Set("outputVoltage")
           twos == ones \cup {"rechargeable", "capacityMode", "configVoltage", "voltage",
                              "percentLoad", "inputVoltage", "outputVoltage"}
           texts == two \o String("deviceChemistry") \o String("oemInformation")
           three == texts \o Set("audibleAlarm") \o Set("designCapacity")
                    \o Set("fullChargeCapacity") \o Set("remainingCapacity")
                    \o Set("warnCapacityLimit") \o Set("remnCapacityLimit") \o Set("granularity1")
           threes == twos \cup {"deviceChemistry"} \cup {"oemInformation"}
                     \cup {"audibleAlarm", "designCapacity", "fullChargeCapacity",
                           "remainingCapacity", "warnCapacityLimit", "remnCapacityLimit",
                           "granularity1"}
           Both == {"deviceChemistry", "oemInformation"}
<1>1. Content(one, ones, {})
  <2>1. Content(Set("presentStatus"), {"presentStatus"}, {})
    BY ContentOfCalls, Names
  <2> QED BY <2>1, SevenCalls, Names
<1>2. Content(two, twos, {})
  <2> HIDE DEF one, ones
  <2> QED BY <1>1, SevenCalls, Names
<1>3. Content(texts, twos \cup {"deviceChemistry"} \cup {"oemInformation"}, Both)
  <2> HIDE DEF two, twos
  <2>1. /\ Content(String("deviceChemistry"), {"deviceChemistry"}, {"deviceChemistry"})
        /\ Content(String("oemInformation"), {"oemInformation"}, {"oemInformation"})
    BY ContentOfString
  <2>2. Content(texts, twos \cup {"deviceChemistry"} \cup {"oemInformation"},
                {} \cup {"deviceChemistry"} \cup {"oemInformation"})
    BY <1>2, <2>1, ContentJoined, Zenon
  <2>3. {} \cup {"deviceChemistry"} \cup {"oemInformation"} = Both
    OBVIOUS
  <2> QED BY <2>2, <2>3
<1>4. Content(three, threes, Both)
  <2> HIDE DEF texts, twos, Both
  <2> QED BY <1>3, SevenCalls, Names
<1>5. Content(SetAll, threes \cup {"granularity2"} \cup {"manufactureDate"}, Both)
  <2>1. SetAll = three \o Set("granularity2") \o Set("manufactureDate")
    BY DEF SetAll
  <2> HIDE DEF three, threes, Both
  <2>2. Content(three \o Set("granularity2"), threes \cup {"granularity2"}, Both)
    BY <1>4, OneMoreCall, Names
  <2> QED BY <2>1, <2>2, OneMoreCall, Names
<1>6. DOMAIN FeatureId \ {"iProduct", "serial", "manufacturer"}
        \subseteq threes \cup {"granularity2"} \cup {"manufactureDate"}
  BY Names
<1> HIDE DEF threes
<1> QED BY <1>5, <1>6

LEMMA BeginContent ==
  Content(Begin, {"iProduct", "serial", "manufacturer"}, {"iProduct", "serial", "manufacturer"})
<1>1. \A s, F, G : \A f \in DOMAIN FeatureId : Content(s, F, G)
        => Content(s \o Set(f), F \cup {f}, G) /\ Content(s \o Lock(f), F, G \cup {f})
  BY OneMoreCall
<1>2. /\ "iProduct" \in DOMAIN FeatureId /\ "serial" \in DOMAIN FeatureId
      /\ "manufacturer" \in DOMAIN FeatureId
  BY Names
<1>3. Content(Set("iProduct"), {"iProduct"}, {})
  BY <1>2, ContentOfCalls
<1>4. Content(Begin, {"iProduct"} \cup {"serial"} \cup {"manufacturer"},
              {} \cup {"iProduct"} \cup {"serial"} \cup {"manufacturer"})
  BY <1>1, <1>2, <1>3, Zenon DEF Begin
<1>5. {} \cup {"iProduct"} \cup {"serial"} \cup {"manufacturer"}
      = {"iProduct", "serial", "manufacturer"}
  OBVIOUS
<1> QED BY <1>4, <1>5

(* setup() sets every Feature before it locks any, locks all but those the *)
(* host may write, and never these.                                        *)
LEMMA WhatIsLocked ==
  /\ \A f \in HostWritable : Has(Calls, SetOf(f)) /\ ~Has(Calls, LockOf(f))
  /\ \A f \in DOMAIN FeatureId \ HostWritable : Has(Calls, LockOf(f))
  /\ \A f \in DOMAIN FeatureId : Has(Begin \o SetAll, SetOf(f))
<1> DEFINE F == {"iProduct", "serial", "manufacturer"}
<1>1. Content(Begin, F, {"iProduct", "serial", "manufacturer"})
  BY BeginContent
<1>2. PICK G : DOMAIN FeatureId \ F \subseteq G
               /\ Content(SetAll, G, {"deviceChemistry", "oemInformation"})
  BY SetAllContent
<1>3. \A f \in F \cup G : Has(Begin \o SetAll, SetOf(f))
  <2>1. \E H : Content(Begin \o SetAll, F \cup G, H)
    BY <1>1, <1>2, ContentJoined
  <2> QED BY <2>1 DEF Content
<1>4. DOMAIN FeatureId \subseteq F \cup G /\ HostWritable \subseteq F \cup G
  BY <1>2, Names DEF HostWritable
<1> DEFINE Locked == {"iProduct", "serial", "manufacturer"}
                     \cup {"deviceChemistry", "oemInformation"}
                     \cup (DOMAIN FeatureId \ HostWritable)
<1>5. Content(Calls, F \cup G \cup {}, Locked)
  BY <1>1, <1>2, LockAllContent, ContentJoined DEF Calls
<1>6. Locked = DOMAIN FeatureId \ HostWritable /\ HostWritable \subseteq DOMAIN FeatureId
  BY Names DEF HostWritable
<1> HIDE DEF Locked, F
<1> QED BY <1>5, <1>6, <1>3, <1>4 DEF Content

(* In s no Feature is locked before it is set, but for those of B, which   *)
(* were set before.                                                        *)
Records == [call : {"SetFeature", "LockFeature"}, id : Nat]
Lawful(s, B) ==
  /\ s \in Seq(Records)
  /\ \A i \in DOMAIN s : s[i].call = "LockFeature"
       => (\E f \in B : s[i] = LockOf(f)) \/ (\E j \in 1 .. i - 1 : s[j].id = s[i].id)

LEMMA LawfulJoined ==
  \A s, t, B, C :
    Lawful(s, B) /\ Lawful(t, C) /\ (\A f \in C : f \in B \/ Has(s, SetOf(f))) => Lawful(s \o t, B)
<1> SUFFICES ASSUME NEW s, NEW t, NEW B, NEW C, Lawful(s, B), Lawful(t, C),
                    \A f \in C : f \in B \/ Has(s, SetOf(f))
             PROVE  Lawful(s \o t, B)
  OBVIOUS
<1>1. s \in Seq(Records) /\ t \in Seq(Records)
  BY DEF Lawful
<1>2. /\ s \o t \in Seq(Records) /\ Len(s) \in Nat /\ Len(t) \in Nat
      /\ DOMAIN s = 1 .. Len(s) /\ DOMAIN t = 1 .. Len(t)
      /\ DOMAIN (s \o t) = 1 .. Len(s) + Len(t)
      /\ \A i \in 1 .. Len(s) + Len(t) : (s \o t)[i] = IF i <= Len(s) THEN s[i] ELSE t[i - Len(s)]
  BY <1>1, ConcatProperties, LenProperties
<1> DEFINE both == s \o t
<1>3. /\ \A i \in 1 .. Len(s) : both[i] = s[i]
      /\ \A i \in 1 .. Len(t) : both[i + Len(s)] = t[i]
  BY <1>2
<1>4. DOMAIN both = 1 .. Len(s) + Len(t) /\ both \in Seq(Records)
  BY <1>2
<1> HIDE DEF both
<1>5. ASSUME NEW i \in DOMAIN both, both[i].call = "LockFeature",
             ~\E f \in B : both[i] = LockOf(f)
      PROVE  \E j \in 1 .. i - 1 : both[j].id = both[i].id
  <2>1. CASE i \in 1 .. Len(s)
    <3>1. PICK j \in 1 .. i - 1 : s[j].id = s[i].id
      BY <1>2, <1>3, <1>5, <2>1 DEF Lawful
    <3> QED BY <1>2, <1>3, <2>1, <3>1
  <2>2. ASSUME NEW k \in 1 .. Len(t), i = k + Len(s)
        PROVE  \E j \in 1 .. i - 1 : both[j].id = both[i].id
    <3>1. both[i] = t[k] /\ t[k].call = "LockFeature" /\ k \in DOMAIN t
      BY <1>2, <1>3, <1>5, <2>2
    <3>2. CASE \E f \in C : t[k] = LockOf(f)
      <4>1. PICK f \in C : t[k] = LockOf(f)
        BY <3>2
      <4>2. Has(s, SetOf(f))
        BY <1>5, <3>1, <4>1
      <4>3. PICK j \in 1 .. Len(s) : s[j] = SetOf(f)
        BY <1>2, <4>2 DEF Has
      <4>4. both[j].id = both[i].id
        BY <1>3, <3>1, <4>1, <4>3 DEF SetOf, LockOf
      <4>5. j \in 1 .. i - 1
        BY <1>2, <2>2
      <4> QED BY <4>4, <4>5
    <3>3. CASE \E j \in 1 .. k - 1 : t[j].id = t[k].id
      <4>1. PICK j \in 1 .. k - 1 : t[j].id = t[k].id
        BY <3>3
      <4>2. j \in 1 .. Len(t) /\ both[j + Len(s)] = t[j]
        BY <1>2, <1>3, <2>2, <4>1
      <4>4. both[j + Len(s)].id = both[i].id
        BY <3>1, <4>1, <4>2
      <4>3. j + Len(s) \in 1 .. i - 1
        BY <1>2, <2>2
      <4> QED BY <4>3, <4>4
    <3> QED BY <3>1, <3>2, <3>3 DEF Lawful
  <2>3. i \in 1 .. Len(s) \/ (i - Len(s) \in 1 .. Len(t) /\ i = (i - Len(s)) + Len(s))
    BY <1>2, <1>4, <1>5
  <2> QED BY <2>1, <2>2, <2>3
<1> QED BY <1>4, <1>5 DEF Lawful, both

(* what is set before is set *)
LEMMA LawfulSame == \A s, t, B : Lawful(s, B) /\ Lawful(t, B) => Lawful(s \o t, B)
BY LawfulJoined

LEMMA LawfulCalls ==
  /\ \A B : \A f \in DOMAIN FeatureId : Lawful(Set(f), B)
  /\ \A B : \A f \in B : f \in DOMAIN FeatureId => Lawful(Lock(f), B)
<1>1. \A f \in DOMAIN FeatureId : FeatureId[f] \in Nat
  BY DEF FeatureId
<1>2. ASSUME NEW c \in Records, NEW B, c.call = "LockFeature" => \E f \in B : c = LockOf(f)
      PROVE  Lawful(<<c>>, B)
  <2>1. <<c>> \in Seq(Records) /\ DOMAIN <<c>> = 1 .. 1 /\ <<c>>[1] = c
    OBVIOUS
  <2>2. \A i \in 1 .. 1 : i = 1
    OBVIOUS
  <2> QED BY <1>2, <2>1, <2>2 DEF Lawful
<1>3. ASSUME NEW f \in DOMAIN FeatureId, NEW B PROVE Lawful(Set(f), B)
  <2>1. SetOf(f) \in Records /\ SetOf(f).call # "LockFeature"
    BY <1>1 DEF Records, SetOf
  <2> QED BY <1>2, <2>1 DEF Set, SetOf
<1>4. ASSUME NEW B, NEW f \in B, f \in DOMAIN FeatureId PROVE Lawful(Lock(f), B)
  <2>1. LockOf(f) \in Records
    BY <1>1, <1>4 DEF Records, LockOf
  <2> QED BY <1>2, <2>1 DEF Lock, LockOf
<1> QED BY <1>3, <1>4

LEMMA LawfulString ==
  ASSUME NEW f \in {"deviceChemistry", "oemInformation"} PROVE Lawful(String(f), {})
<1> DEFINE third == [call |-> "SetFeature", id |-> StringId[f]]
<1>1. f \in DOMAIN FeatureId
  BY Names
<1>2. Lawful(<<third>>, {})
  <2>1. <<third>> \in Seq(Records) /\ DOMAIN <<third>> = 1 .. 1
    BY DEF Records, StringId
  <2>2. \A i \in 1 .. 1 : <<third>>[i].call # "LockFeature"
    OBVIOUS
  <2> QED BY <2>1, <2>2 DEF Lawful
<1>3. Lawful(Set(f) \o Lock(f), {})
  <2>1. Has(Set(f), SetOf(f))
    BY <1>1, ContentOfCalls DEF Content
  <2>2. Lawful(Set(f), {}) /\ Lawful(Lock(f), {f})
    BY <1>1, LawfulCalls
  <2> QED BY <2>1, <2>2, LawfulJoined
<1> HIDE DEF third
<1>4. Lawful((Set(f) \o Lock(f)) \o <<third>>, {})
  BY <1>2, <1>3, LawfulSame
<1> QED BY <1>4 DEF String, third

(* seven calls of one kind *)
LEMMA LawfulSeven ==
  ASSUME NEW s, NEW B, Lawful(s, B),
         NEW a \in DOMAIN FeatureId, NEW b \in DOMAIN FeatureId, NEW c \in DOMAIN FeatureId,
         NEW d \in DOMAIN FeatureId, NEW e \in DOMAIN FeatureId, NEW f \in DOMAIN FeatureId,
         NEW g \in DOMAIN FeatureId
  PROVE  /\ Lawful(s \o Set(a) \o Set(b) \o Set(c) \o Set(d) \o Set(e) \o Set(f) \o Set(g), B)
         /\ {a, b, c, d, e, f, g} \subseteq B
              => Lawful(s \o Lock(a) \o Lock(b) \o Lock(c) \o Lock(d) \o Lock(e) \o Lock(f) \o Lock(g), B)
<1>1. \A x \in DOMAIN FeatureId :
        Lawful(Set(x), B) /\ (x \in B => Lawful(Lock(x), B))
  BY LawfulCalls
<1>2. \A t : Lawful(t, B)
        => \A x \in DOMAIN FeatureId :
             Lawful(t \o Set(x), B) /\ (x \in B => Lawful(t \o Lock(x), B))
  BY <1>1, LawfulSame
<1>3. Lawful(s \o Set(a) \o Set(b) \o Set(c) \o Set(d) \o Set(e) \o Set(f) \o Set(g), B)
  BY <1>2, Zenon
<1>4. ASSUME {a, b, c, d, e, f, g} \subseteq B
      PROVE  Lawful(s \o Lock(a) \o Lock(b) \o Lock(c) \o Lock(d) \o Lock(e) \o Lock(f) \o Lock(g), B)
  <2>1. a \in B /\ b \in B /\ c \in B /\ d \in B /\ e \in B /\ f \in B /\ g \in B
    BY <1>4
  <2> QED BY <1>2, <2>1, Zenon
<1> QED BY <1>3, <1>4

LEMMA LockAllLawful == Lawful(LockAll, DOMAIN FeatureId)
<1> DEFINE one == Lock("iProduct") \o Lock("serial") \o Lock("manufacturer") \o Lock("presentStatus")
                  \o Lock("runTimeToEmpty") \o Lock("averageTime2Full")
                  \o Lock("averageTime2Empty") \o Lock("rechargeable")
           two == one \o Lock("capacityMode") \o Lock("configVoltage") \o Lock("voltage")
                  \o Lock("percentLoad") \o Lock("inputVoltage") \o Lock("outputVoltage")
                  \o Lock("deviceChemistry")
           three == two \o Lock("oemInformation") \o Lock("designCapacity")
                    \o Lock("fullChargeCapacity") \o Lock("remainingCapacity")
                    \o Lock("granularity1") \o Lock("granularity2") \o Lock("manufactureDate")
<1>1. Lawful(one, DOMAIN FeatureId)
  <2>1. Lawful(Lock("iProduct"), DOMAIN FeatureId)
    BY LawfulCalls, Names
  <2> QED BY <2>1, LawfulSeven, Names
<1>2. Lawful(two, DOMAIN FeatureId)
  <2> HIDE DEF one
  <2> QED BY <1>1, LawfulSeven, Names
<1>3. Lawful(three, DOMAIN FeatureId)
  <2> HIDE DEF two
  <2> QED BY <1>2, LawfulSeven, Names
<1>4. LockAll = three
  BY DEF LockAll
<1> HIDE DEF three
<1> QED BY <1>3, <1>4

LEMMA SetAllLawful == Lawful(SetAll, {})
<1> DEFINE one == Set("presentStatus") \o Set("runTimeToEmpty") \o Set("averageTime2Full")
                  \o Set("averageTime2Empty") \o Set("remainTimeLimit") \o Set("delayStartup")
                  \o Set("delayReboot") \o Set("delayShutdown")
           two == one \o Set("rechargeable") \o Set("capacityMode") \o Set("configVoltage")
                  \o Set("voltage") \o Set("percentLoad") \o Set("inputVoltage")
                  \o Set("outputVoltage")
           texts == two \o String("deviceChemistry") \o String("oemInformation")
           three == texts \o Set("audibleAlarm") \o Set("designCapacity")
                    \o Set("fullChargeCapacity") \o Set("remainingCapacity")
                    \o Set("warnCapacityLimit") \o Set("remnCapacityLimit") \o Set("granularity1")
<1>1. Lawful(one, {})
  <2>1. Lawful(Set("presentStatus"), {})
    BY LawfulCalls, Names
  <2> QED BY <2>1, LawfulSeven, Names
<1>2. Lawful(two, {})
  <2> HIDE DEF one
  <2> QED BY <1>1, LawfulSeven, Names
<1>3. Lawful(texts, {})
  <2> HIDE DEF two
  <2>1. Lawful(String("deviceChemistry"), {}) /\ Lawful(String("oemInformation"), {})
    BY LawfulString
  <2> QED BY <1>2, <2>1, LawfulSame, Zenon
<1>4. Lawful(three, {})
  <2> HIDE DEF texts
  <2> QED BY <1>3, LawfulSeven, Names
<1>5. SetAll = three \o Set("granularity2") \o Set("manufactureDate")
  BY DEF SetAll
<1> HIDE DEF three
<1>6. Lawful(Set("granularity2"), {}) /\ Lawful(Set("manufactureDate"), {})
  BY LawfulCalls, Names
<1> QED BY <1>4, <1>5, <1>6, LawfulSame, Zenon

LEMMA BeginLawful == Lawful(Begin, {})
<1> DEFINE sets == Set("iProduct") \o Set("serial") \o Set("manufacturer")
           B == {"iProduct", "serial", "manufacturer"}
<1>1. \A x \in B : Lawful(Set(x), {}) /\ Lawful(Lock(x), {x}) /\ Content(Set(x), {x}, {})
  BY LawfulCalls, ContentOfCalls, Names
<1>2. Lawful(sets, {})
  BY <1>1, LawfulSame, Zenon
<1>3. \A s, t, F, H : Content(s, F, {}) /\ Content(t, H, {}) => Content(s \o t, F \cup H, {})
  <2>1. {} \cup {} = {}
    OBVIOUS
  <2> QED BY <2>1, ContentJoined
<1>4. Content(sets, {"iProduct"} \cup {"serial"} \cup {"manufacturer"}, {})
  BY <1>1, <1>3, Zenon
<1>5. \A x \in B : Has(sets, SetOf(x))
  BY <1>4 DEF Content
<1> HIDE DEF sets
<1>6. ASSUME NEW t, Lawful(t, {}), \A x \in B : Has(t, SetOf(x)), NEW x \in B
      PROVE  Lawful(t \o Lock(x), {}) /\ \A y \in B : Has(t \o Lock(x), SetOf(y))
  <2>1. Lawful(Lock(x), {x}) /\ \A y \in {x} : Has(t, SetOf(y))
    BY <1>1, <1>6
  <2>2. Lawful(t \o Lock(x), {})
    BY <1>6, <2>1, LawfulJoined
  <2>3. Sequence(t) /\ Sequence(Lock(x))
    BY <1>6, <2>1 DEF Lawful, Sequence
  <2> QED BY <1>6, <2>2, <2>3, Joined
<1>7. Lawful(((sets \o Lock("iProduct")) \o Lock("serial")) \o Lock("manufacturer"), {})
  BY <1>2, <1>5, <1>6
<1> QED BY <1>7 DEF Begin, sets

(* No Feature is locked before it is set. *)
LEMMA CallsLawful == Lawful(Calls, {}) /\ Calls # <<>>
<1>1. Lawful(Begin \o SetAll, {})
  BY BeginLawful, SetAllLawful, LawfulSame
<1>2. Lawful(Calls, {})
  BY <1>1, LockAllLawful, LawfulJoined, WhatIsLocked DEF Calls
<1>3. Calls # <<>>
  <2>1. \E i : i \in DOMAIN Calls
    BY WhatIsLocked, Names DEF Has, HostWritable
  <2> QED BY <2>1
<1> QED BY <1>2, <1>3

-----------------------------------------------------------------------------
(* The registry.                                                           *)

LEMMA CallFacts ==
  /\ Len(Calls) \in Nat \ {0} /\ DOMAIN Calls = 1 .. Len(Calls)
  /\ \A i \in DOMAIN Calls :
       /\ Calls[i].call \in {"SetFeature", "LockFeature"}
       /\ Calls[i].call = "LockFeature"
            => \E j \in 1 .. i - 1 : Calls[j].id = Calls[i].id
<1>1. Calls \in Seq(Records) /\ Calls # <<>>
  BY CallsLawful DEF Lawful
<1>2. Len(Calls) \in Nat \ {0} /\ DOMAIN Calls = 1 .. Len(Calls)
  BY <1>1, LenProperties, EmptySeq
<1>3. \A i \in DOMAIN Calls : Calls[i] \in Records
  BY <1>1, <1>2, ElementOfSeq
<1>4. ASSUME NEW i \in DOMAIN Calls, Calls[i].call = "LockFeature"
      PROVE  \E j \in 1 .. i - 1 : Calls[j].id = Calls[i].id
  BY <1>4, CallsLawful DEF Lawful
<1>5. \A i \in DOMAIN Calls : Calls[i].call \in {"SetFeature", "LockFeature"}
  BY <1>3 DEF Records
<1> QED BY <1>2, <1>4, <1>5

(* Where the main loop is, and how many nodes there are. *)
PlaceInv ==
  /\ Len(id) <= at /\ (pc = "call" => Len(id) < at)
  /\ pc \in {"call", "done"} => reportCount = Len(id)
  /\ pc \in {"linkHalf", "link", "count"}
       => reportCount + 1 = Len(id) /\ id[Len(id)] = Calls[at].id
            /\ Calls[at].call = "SetFeature"

(* The counted nodes are linked, the one after them is being linked, and   *)
(* nothing follows it.                                                     *)
ChainInv ==
  /\ \A p \in 0 .. reportCount - 1 : pointer[p] = p + 1
  /\ \A p \in Nodes : p > reportCount => pointer[p] = Null
  /\ pc \in {"call", "done", "linkHalf"} => pointer[reportCount] = Null
  /\ pc = "link" => pointer[reportCount] = Torn
  /\ pc = "count" => pointer[reportCount] = reportCount + 1

(* Every call that has returned has left its Feature in a counted node, the *)
(* only one of its id, and in a locked one if it was to lock it.            *)
IdInv ==
  /\ \A m, n \in 1 .. Len(id) : id[m] = id[n] => m = n
  /\ \A i \in DOMAIN Calls : Returned(i) => \E n \in 1 .. reportCount : id[n] = Calls[i].id

LockInv ==
  \A i \in DOMAIN Calls : Returned(i) /\ Calls[i].call = "LockFeature"
    => \A n \in 1 .. Len(id) : id[n] = Calls[i].id => locked[n]

LEMMA TypeFacts ==
  ASSUME TypeOK
  PROVE  /\ at \in 1 .. Len(Calls) /\ at \in Nat /\ Len(id) \in Nat /\ DOMAIN id = 1 .. Len(id)
         /\ DOMAIN locked = 1 .. Len(id) /\ reportCount \in Nat /\ reportCount <= Len(id)
         /\ \A n \in 1 .. Len(id) : locked[n] \in BOOLEAN /\ id[n] \in Ids
<1>1. Len(id) \in Nat /\ DOMAIN id = 1 .. Len(id) /\ \A n \in 1 .. Len(id) : id[n] \in Ids
  BY LenProperties, ElementOfSeq DEF TypeOK
<1>2. DOMAIN locked = 1 .. Len(id) /\ \A n \in 1 .. Len(id) : locked[n] \in BOOLEAN
  BY LenProperties, ElementOfSeq DEF TypeOK
<1> QED BY <1>1, <1>2, CallFacts DEF TypeOK

LEMMA InitRegistry == Init => TypeOK /\ PlaceInv /\ ChainInv /\ IdInv /\ LockInv
<1> SUFFICES ASSUME Init PROVE TypeOK /\ PlaceInv /\ ChainInv /\ IdInv /\ LockInv
  OBVIOUS
<1>1. id = <<>> /\ locked = <<>> /\ Len(id) = 0 /\ Len(locked) = 0 /\ reportCount = 0 /\ at = 1
      /\ pc = "call"
  BY DEF Init
<1>2. id \in Seq(Ids) /\ locked \in Seq(BOOLEAN)
  BY <1>1, EmptySeq
<1>3. pointer \in [{0} \cup Nodes -> {Null, Torn} \cup Nodes] /\ value \in [Tracked -> {"sketch", "host"}]
  BY DEF Init
<1>4. TypeOK
  BY <1>1, <1>2, <1>3, CallFacts DEF TypeOK
<1>5. \A p \in {0} \cup Nodes : pointer[p] = Null
  BY DEF Init
<1>6. \A i \in DOMAIN Calls : ~ Returned(i)
  BY <1>1, CallFacts DEF Returned
<1>7. PlaceInv /\ ChainInv
  <2>1. PlaceInv
    BY <1>1 DEF PlaceInv
  <2>2. \A p \in 0 .. reportCount - 1 : FALSE
    BY <1>1
  <2>3. ChainInv
    BY <1>1, <1>5, <2>2 DEF ChainInv
  <2> QED BY <2>1, <2>3
<1>8. IdInv
  BY <1>1, <1>6 DEF IdInv
<1>9. LockInv
  BY <1>6 DEF LockInv
<1> QED BY <1>4, <1>7, <1>8, <1>9

(* The call the main loop was in has returned, and no other. *)
LEMMA ReturnFacts ==
  ASSUME TypeOK, pc # "done", Return
  PROVE  /\ pc' \in {"call", "done"} /\ at' \in DOMAIN Calls
         /\ pc' = "call" => at' = at + 1
         /\ pc' = "done" => at' = at
         /\ \A i \in DOMAIN Calls : Returned(i)' => Returned(i) \/ i = at
         /\ ~ Returned(at)
BY TypeFacts, CallFacts DEF Return, LastCall, Returned

LEMMA LockStep ==
  ASSUME TypeOK, PlaceInv, ChainInv, IdInv, LockInv, LockFeature
  PROVE  TypeOK' /\ PlaceInv' /\ ChainInv' /\ IdInv' /\ LockInv'
<1>1. /\ pc' \in {"call", "done"} /\ at' \in DOMAIN Calls
      /\ pc' = "call" => at' = at + 1
      /\ pc' = "done" => at' = at
      /\ \A i \in DOMAIN Calls : Returned(i)' => Returned(i) \/ i = at
      /\ pc = "call" /\ UNCHANGED <<pointer, id, reportCount, value>>
  BY ReturnFacts DEF LockFeature
<1>2. locked' = [n \in 1 .. Len(id) |-> locked[n] \/ id[n] = Calls[at].id]
  BY TypeFacts DEF LockFeature, LockedToo, Call
<1>3. locked' \in Seq(BOOLEAN) /\ Len(locked') = Len(id)
  BY <1>2, TypeFacts
<1>4. TypeOK'
  BY <1>1, <1>3 DEF TypeOK
<1>5. PlaceInv'
  BY <1>1, TypeFacts DEF PlaceInv
<1>6. ChainInv'
  BY <1>1 DEF ChainInv
<1>7. IdInv'
  <2>1. \E n \in 1 .. reportCount : id[n] = Calls[at].id
    <3>1. at \in DOMAIN Calls /\ Calls[at].call = "LockFeature"
      BY DEF LockFeature, Call, TypeOK
    <3>2. PICK j \in 1 .. at - 1 : Calls[j].id = Calls[at].id
      BY <3>1, CallFacts
    <3>3. j \in DOMAIN Calls /\ Returned(j)
      BY <3>1, CallFacts DEF Returned
    <3> QED BY <3>2, <3>3 DEF IdInv
  <2> QED BY <1>1, <2>1 DEF IdInv
<1>8. LockInv'
  BY <1>1, <1>2, TypeFacts DEF LockInv
<1> QED BY <1>4, <1>5, <1>6, <1>7, <1>8

(* An id that is known: the call only returns. *)
LEMMA KnownStep ==
  ASSUME TypeOK, PlaceInv, ChainInv, IdInv, LockInv, SetFeature,
         \E n \in DOMAIN id : id[n] = Call.id
  PROVE  TypeOK' /\ PlaceInv' /\ ChainInv' /\ IdInv' /\ LockInv'
<1>1. Return /\ pc = "call" /\ UNCHANGED <<pointer, id, locked, reportCount, value>>
  BY DEF SetFeature, NewNode
<1>2. /\ pc' \in {"call", "done"} /\ at' \in DOMAIN Calls
      /\ pc' = "call" => at' = at + 1
      /\ pc' = "done" => at' = at
      /\ \A i \in DOMAIN Calls : Returned(i)' => Returned(i) \/ i = at
  BY <1>1, ReturnFacts
<1>3. TypeOK'
  BY <1>1, <1>2 DEF TypeOK
<1>4. PlaceInv'
  BY <1>1, <1>2, TypeFacts DEF PlaceInv
<1>5. ChainInv'
  BY <1>1, <1>2 DEF ChainInv
<1>6. \E n \in 1 .. reportCount : id[n] = Calls[at].id
  BY <1>1, TypeFacts DEF PlaceInv, Call
<1>7. IdInv'
  BY <1>1, <1>2, <1>6 DEF IdInv
<1>8. Calls[at].call # "LockFeature"
  BY DEF SetFeature, NewNode, Call
<1>9. LockInv'
  BY <1>1, <1>2, <1>8 DEF LockInv
<1> QED BY <1>3, <1>4, <1>5, <1>7, <1>9

LEMMA NewNodeStep ==
  ASSUME TypeOK, PlaceInv, ChainInv, IdInv, LockInv, SetFeature,
         ~ \E n \in DOMAIN id : id[n] = Call.id
  PROVE  TypeOK' /\ PlaceInv' /\ ChainInv' /\ IdInv' /\ LockInv'
<1>1. /\ id' = Append(id, Call.id) /\ locked' = Append(locked, FALSE)
      /\ pc = "call" /\ pc' = "linkHalf" /\ reportCount' = reportCount
      /\ UNCHANGED <<at, pointer, value>> /\ Calls[at].call = "SetFeature"
  BY DEF SetFeature, NewNode, Call
<1>2. Call.id \in Ids /\ Call.id = Calls[at].id
  BY TypeFacts, CallFacts DEF Ids, Call
<1>3. /\ id' \in Seq(Ids) /\ Len(id') = Len(id) + 1 /\ id'[Len(id) + 1] = Calls[at].id
      /\ \A n \in 1 .. Len(id) : id'[n] = id[n]
  BY <1>1, <1>2, AppendProperties DEF TypeOK
<1>4. /\ locked' \in Seq(BOOLEAN) /\ Len(locked') = Len(id) + 1
      /\ \A n \in 1 .. Len(id) : locked'[n] = locked[n]
  BY <1>1, AppendProperties, TypeFacts DEF TypeOK
<1>5. TypeOK'
  BY <1>1, <1>3, <1>4, TypeFacts DEF TypeOK
<1>6. PlaceInv'
  BY <1>1, <1>3, TypeFacts DEF PlaceInv
<1>7. ChainInv'
  BY <1>1 DEF ChainInv
<1>8. \A i \in DOMAIN Calls : Returned(i)' <=> Returned(i)
  BY <1>1 DEF Returned
<1>9. IdInv'
  <2>1. \A n \in 1 .. Len(id) : id[n] # Calls[at].id
    BY <1>2, TypeFacts
  <2>2. \A m, n \in 1 .. Len(id') : id'[m] = id'[n] => m = n
    <3>1. \A n \in 1 .. Len(id') : n \in 1 .. Len(id) \/ n = Len(id) + 1
      BY <1>3, TypeFacts
    <3> QED BY <2>1, <3>1, <1>3 DEF IdInv
  <2>3. \A n \in 1 .. reportCount : n \in 1 .. Len(id)
    BY TypeFacts
  <2>4. \A i \in DOMAIN Calls : Returned(i)' => \E n \in 1 .. reportCount' : id'[n] = Calls[i].id
    BY <1>1, <1>3, <1>8, <2>3 DEF IdInv
  <2> QED BY <2>2, <2>4 DEF IdInv
<1>10. LockInv'
  <2>1. ASSUME NEW i \in DOMAIN Calls, Returned(i), Calls[i].call = "LockFeature",
               NEW n \in 1 .. Len(id'), id'[n] = Calls[i].id
        PROVE  locked'[n]
    <3>1. CASE n \in 1 .. Len(id)
      BY <2>1, <3>1, <1>3, <1>4 DEF LockInv
    <3>2. CASE n \notin 1 .. Len(id)
      <4>1. n = Len(id) + 1
        BY <3>2, <1>3, TypeFacts
      <4>2. PICK m \in 1 .. reportCount : id[m] = Calls[i].id
        BY <2>1 DEF IdInv
      <4>3. m \in DOMAIN id /\ id[m] = Call.id
        BY <4>1, <4>2, <2>1, <1>2, <1>3, TypeFacts
      <4> QED BY <4>3
    <3> QED BY <3>1, <3>2
  <2> QED BY <2>1, <1>8 DEF LockInv
<1> QED BY <1>5, <1>6, <1>7, <1>9, <1>10

LEMMA LinkStep ==
  ASSUME TypeOK, PlaceInv, ChainInv, IdInv, LockInv, Link
  PROVE  TypeOK' /\ PlaceInv' /\ ChainInv' /\ IdInv' /\ LockInv'
<1>1. /\ \/ pc = "linkHalf" /\ pointer' = [pointer EXCEPT ![reportCount] = Torn] /\ pc' = "link"
         \/ pc = "link" /\ pointer' = [pointer EXCEPT ![reportCount] = reportCount + 1]
              /\ pc' = "count"
      /\ UNCHANGED <<at, id, locked, reportCount, value>>
      /\ reportCount + 1 = Len(id)
  <2>1. Len(id) = reportCount + 1 /\ Len(id) - 1 = reportCount
    BY TypeFacts DEF Link, PlaceInv
  <2> QED BY <2>1 DEF Link
<1>2. reportCount \in {0} \cup Nodes /\ reportCount + 1 \in Nodes
  BY <1>1, TypeFacts, CallFacts DEF PlaceInv, Nodes
<1>3. pointer' \in [{0} \cup Nodes -> {Null, Torn} \cup Nodes]
  BY <1>1, <1>2 DEF TypeOK
<1>4. TypeOK'
  BY <1>1, <1>3 DEF TypeOK
<1>5. PlaceInv'
  BY <1>1 DEF PlaceInv
<1>6. ChainInv'
  <2>1. \A p \in {0} \cup Nodes : p # reportCount => pointer'[p] = pointer[p]
    BY <1>1 DEF TypeOK
  <2>2. /\ pc' = "link" => pointer'[reportCount] = Torn
        /\ pc' = "count" => pointer'[reportCount] = reportCount + 1
    BY <1>1, <1>2 DEF TypeOK
  <2>3. \A p \in 0 .. reportCount - 1 : p \in {0} \cup Nodes /\ p # reportCount
    BY <1>1, TypeFacts, CallFacts DEF PlaceInv, Nodes
  <2>4. \A p \in Nodes : p > reportCount => p # reportCount
    BY TypeFacts DEF Nodes
  <2> QED BY <1>1, <2>1, <2>2, <2>3, <2>4 DEF ChainInv
<1>7. \A i \in DOMAIN Calls : Returned(i)' <=> Returned(i)
  BY <1>1 DEF Returned
<1>8. IdInv'
  BY <1>1, <1>7 DEF IdInv
<1>9. LockInv'
  BY <1>1, <1>7 DEF LockInv
<1> QED BY <1>4, <1>5, <1>6, <1>8, <1>9

LEMMA CountStep ==
  ASSUME TypeOK, PlaceInv, ChainInv, IdInv, LockInv, Count
  PROVE  TypeOK' /\ PlaceInv' /\ ChainInv' /\ IdInv' /\ LockInv'
<1>1. /\ pc = "count" /\ reportCount' = reportCount + 1 /\ reportCount + 1 = Len(id)
      /\ id[Len(id)] = Calls[at].id /\ Calls[at].call = "SetFeature"
      /\ UNCHANGED <<pointer, id, locked, value>>
  BY DEF Count, PlaceInv
<1>2. /\ pc' \in {"call", "done"} /\ at' \in DOMAIN Calls
      /\ pc' = "call" => at' = at + 1
      /\ pc' = "done" => at' = at
      /\ \A i \in DOMAIN Calls : Returned(i)' => Returned(i) \/ i = at
  BY ReturnFacts DEF Count
<1>3. TypeOK'
  BY <1>1, <1>2, TypeFacts DEF TypeOK
<1>4. PlaceInv'
  BY <1>1, <1>2, TypeFacts DEF PlaceInv
<1>5. ChainInv'
  <2>1. pointer[reportCount] = reportCount + 1
    BY <1>1 DEF ChainInv
  <2>2. \A p \in 0 .. reportCount' - 1 : pointer[p] = p + 1
    <3>1. \A p \in 0 .. reportCount' - 1 : p \in 0 .. reportCount - 1 \/ p = reportCount
      BY <1>1, TypeFacts
    <3> QED BY <2>1, <3>1 DEF ChainInv
  <2>3. \A p \in Nodes : p >= reportCount' => pointer[p] = Null
    BY <1>1, TypeFacts DEF ChainInv, Nodes
  <2>4. reportCount' \in Nodes
    BY <1>1, TypeFacts, CallFacts DEF PlaceInv, Nodes
  <2>5. reportCount' >= reportCount'
    BY <1>1, TypeFacts
  <2>6. pointer[reportCount'] = Null /\ \A p \in Nodes : p > reportCount' => pointer[p] = Null
    BY <1>1, <2>3, <2>4, <2>5, TypeFacts DEF Nodes
  <2> QED BY <1>1, <1>2, <2>2, <2>6 DEF ChainInv
<1>6. IdInv'
  <2>1. Len(id) \in 1 .. reportCount' /\ \A n \in 1 .. reportCount : n \in 1 .. reportCount'
    BY <1>1, TypeFacts
  <2> QED BY <1>1, <1>2, <2>1 DEF IdInv
<1>7. LockInv'
  BY <1>1, <1>2 DEF LockInv
<1> QED BY <1>3, <1>4, <1>5, <1>6, <1>7

RegistryInv == PlaceInv /\ ChainInv /\ IdInv /\ LockInv

LEMMA NextRegistry ==
  ASSUME TypeOK, RegistryInv, [Next]_vars
  PROVE  TypeOK' /\ RegistryInv'
<1> USE DEF RegistryInv
<1>1. CASE LockFeature
  BY <1>1, LockStep
<1>2. CASE SetFeature
  BY <1>2, KnownStep, NewNodeStep
<1>3. CASE Link
  BY <1>3, LinkStep
<1>4. CASE Count
  BY <1>4, CountStep
<1>5. ASSUME NEW f \in Tracked, HostSetReport(f) PROVE TypeOK' /\ RegistryInv'
  <2>1. UNCHANGED <<at, pc, pointer, id, locked, reportCount>> /\ value' = [value EXCEPT ![f] = "host"]
    BY <1>5 DEF HostSetReport
  <2>2. TypeOK'
    BY <2>1 DEF TypeOK
  <2>3. PlaceInv' /\ ChainInv'
    BY <2>1 DEF PlaceInv, ChainInv
  <2>4. \A i \in DOMAIN Calls : Returned(i)' <=> Returned(i)
    BY <2>1 DEF Returned
  <2>5. IdInv'
    BY <2>1, <2>4 DEF IdInv
  <2>6. LockInv'
    BY <2>1, <2>4 DEF LockInv
  <2> QED BY <2>2, <2>3, <2>5, <2>6
<1>6. CASE UNCHANGED vars
  <2>1. UNCHANGED <<at, pc, pointer, id, locked, reportCount, value>>
    BY <1>6 DEF vars
  <2>2. TypeOK' /\ PlaceInv' /\ ChainInv'
    BY <2>1 DEF TypeOK, PlaceInv, ChainInv
  <2>3. IdInv' /\ LockInv'
    BY <2>1 DEF IdInv, LockInv, Returned
  <2> QED BY <2>2, <2>3
<1> QED BY <1>1, <1>2, <1>3, <1>4, <1>5, <1>6 DEF Next, SetupStep

-----------------------------------------------------------------------------
(* The walk of GetFeature() along the chain.                               *)

FirstOf(h, n) == [i \in 1 .. n |-> h[i]]

LEMMA OneMore ==
  ASSUME NEW h, NEW n \in Nat \ {0}
  PROVE  Append(FirstOf(h, n - 1), h[n]) = FirstOf(h, n)
<1> DEFINE S == {h[i] : i \in 1 .. n}
<1>1. FirstOf(h, n - 1) \in Seq(S) /\ Len(FirstOf(h, n - 1)) = n - 1
  BY DEF FirstOf
<1>2. FirstOf(h, n) \in Seq(S) /\ Len(FirstOf(h, n)) = n
  BY DEF FirstOf
<1>3. h[n] \in S
  OBVIOUS
<1> DEFINE longer == Append(FirstOf(h, n - 1), h[n])
<1>4. /\ longer \in Seq(S) /\ Len(longer) = (n - 1) + 1
      /\ \A i \in 1 .. n - 1 : longer[i] = FirstOf(h, n - 1)[i]
      /\ longer[(n - 1) + 1] = h[n]
  <2> HIDE DEF S
  <2> QED BY <1>1, <1>3, AppendProperties
<1>5. ASSUME NEW i \in 1 .. n PROVE longer[i] = FirstOf(h, n)[i]
  <2> HIDE DEF longer, S
  <2>1. CASE i = n
    BY <1>4, <2>1 DEF FirstOf
  <2>2. CASE i # n
    BY <1>4, <2>2 DEF FirstOf
  <2> QED BY <2>1, <2>2
<1> HIDE DEF longer, S
<1>6. longer = FirstOf(h, n)
  BY <1>2, <1>4, <1>5, SeqEqual
<1> QED BY <1>6 DEF longer

(* The pointers along the chain: the counted nodes, then what follows the *)
(* last of them, then nothing.                                            *)
Chain ==
  [i \in 1 .. Len(Calls) |->
     IF i <= reportCount THEN i ELSE IF i = reportCount + 1 THEN pointer[reportCount] ELSE Null]

LEMMA ChainFacts ==
  ASSUME TypeOK, RegistryInv, NEW n \in 1 .. Len(Calls)
  PROVE  Chain[n] = IF n = 1 THEN pointer[0] ELSE Follow(Chain[n - 1])
<1>1. reportCount \in Nat /\ DOMAIN id = 1 .. Len(id) /\ Len(id) \in Nat /\ reportCount <= Len(id)
      /\ Len(Calls) \in Nat
  BY TypeFacts, CallFacts
<1>2. \A p \in 0 .. reportCount - 1 : pointer[p] = p + 1
  BY DEF RegistryInv, ChainInv
<1>3. CASE n = 1
  BY <1>1, <1>2, <1>3 DEF Chain
<1>4. CASE n # 1
  <2>1. n - 1 \in 1 .. Len(Calls)
    BY <1>1, <1>4
  <2>2. CASE n - 1 < reportCount
    <3>1. Chain[n - 1] = n - 1 /\ Chain[n] = n
      BY <1>1, <2>1, <2>2 DEF Chain
    <3>2. n - 1 \in DOMAIN id /\ pointer[n - 1] = n
      BY <1>1, <1>2, <2>1, <2>2
    <3> QED BY <1>4, <3>1, <3>2 DEF Follow
  <2>3. CASE n - 1 = reportCount
    <3>1. Chain[n - 1] = n - 1 /\ Chain[n] = pointer[n - 1]
      BY <1>1, <2>1, <2>3 DEF Chain
    <3>2. n - 1 \in DOMAIN id
      BY <1>1, <2>1, <2>3
    <3> QED BY <1>4, <3>1, <3>2 DEF Follow
  <2>4. CASE n - 1 > reportCount
    <3>1. Chain[n] = Null
      BY <1>1, <2>4 DEF Chain
    <3>2. Null \notin DOMAIN id /\ Torn \notin DOMAIN id
      BY <1>1 DEF Null, Torn
    <3>3. CASE n - 1 = reportCount + 1
      <4>1. Chain[n - 1] = pointer[reportCount]
        BY <1>1, <2>1, <3>3 DEF Chain
      <4>2. pointer[reportCount] \in {Null, Torn} \/ pointer[reportCount] = reportCount + 1
        BY DEF RegistryInv, ChainInv, TypeOK
      <4>3. pointer[reportCount + 1] = Null
        <5>1. n - 1 \in Nodes /\ n - 1 > reportCount
          BY <2>1, <2>4 DEF Nodes
        <5> QED BY <5>1, <3>3 DEF RegistryInv, ChainInv
      <4> QED BY <1>4, <3>1, <3>2, <4>1, <4>2, <4>3 DEF Follow
    <3>4. CASE n - 1 > reportCount + 1
      <4>1. Chain[n - 1] = Null
        BY <1>1, <2>1, <3>4 DEF Chain
      <4> QED BY <1>4, <3>1, <3>2, <4>1 DEF Follow
    <3> QED BY <1>1, <2>4, <3>3, <3>4
  <2> QED BY <1>1, <2>2, <2>3, <2>4
<1> QED BY <1>3, <1>4

(* One turn of the loop of GetFeature(). *)
Turned(before, n) == Append(before, IF n = 1 THEN pointer[0] ELSE Follow(before[n - 1]))

LEMMA TurnsEquation ==
  ASSUME TypeOK, RegistryInv
  PROVE  Turns = [n \in 0 .. Len(Calls) |-> IF n = 0 THEN <<>> ELSE Turned(Turns[n - 1], n)]
<1> DEFINE walk == [n \in 0 .. Len(Calls) |-> FirstOf(Chain, n)]
<1>1. Len(Calls) \in Nat
  BY CallFacts
<1>2. ASSUME NEW n \in 0 .. Len(Calls)
      PROVE  walk[n] = IF n = 0 THEN <<>> ELSE Turned(walk[n - 1], n)
  <2>1. CASE n = 0
    BY <2>1 DEF FirstOf
  <2>2. CASE n # 0
    <3>1. n \in Nat \ {0} /\ n \in 1 .. Len(Calls) /\ n - 1 \in 0 .. Len(Calls)
      BY <1>1, <2>2
    <3>2. walk[n - 1] = FirstOf(Chain, n - 1) /\ walk[n] = FirstOf(Chain, n)
      BY <3>1
    <3>3. n # 1 => FirstOf(Chain, n - 1)[n - 1] = Chain[n - 1]
      BY <3>1 DEF FirstOf
    <3>4. Chain[n] = IF n = 1 THEN pointer[0] ELSE Follow(walk[n - 1][n - 1])
      <4> HIDE DEF walk
      <4> QED BY <3>1, <3>2, <3>3, ChainFacts
    <3>5. walk[n] = Append(walk[n - 1], Chain[n])
      <4> HIDE DEF walk
      <4> QED BY <3>1, <3>2, OneMore
    <3> HIDE DEF walk
    <3> QED BY <2>2, <3>4, <3>5 DEF Turned
  <2> QED BY <2>1, <2>2
<1>3. walk = [n \in 0 .. Len(Calls) |-> IF n = 0 THEN <<>> ELSE Turned(walk[n - 1], n)]
  BY <1>2
<1>4. \E f : f = [n \in 0 .. Len(Calls) |-> IF n = 0 THEN <<>> ELSE Turned(f[n - 1], n)]
  <2> HIDE DEF walk
  <2> QED BY <1>3
<1>5. Turns = CHOOSE f : f = [n \in 0 .. Len(Calls) |-> IF n = 0 THEN <<>> ELSE Turned(f[n - 1], n)]
  BY DEF Turns, Turned
<1> QED BY <1>4, <1>5

LEMMA TurnedFacts ==
  ASSUME TypeOK, RegistryInv, NEW n \in 1 .. Len(Calls)
  PROVE  Turned(FirstOf(Chain, n - 1), n) = FirstOf(Chain, n)
<1>1. n \in Nat \ {0}
  BY CallFacts
<1>2. n # 1 => FirstOf(Chain, n - 1)[n - 1] = Chain[n - 1]
  BY <1>1 DEF FirstOf
<1>3. Chain[n] = IF n = 1 THEN pointer[0] ELSE Follow(FirstOf(Chain, n - 1)[n - 1])
  BY <1>2, ChainFacts
<1> QED BY <1>1, <1>3, OneMore DEF Turned

(* After n turns current has held the first n pointers of the chain: there *)
(* is no first n for which it has not.                                     *)
LEMMA TurnsFacts ==
  ASSUME TypeOK, RegistryInv
  PROVE  \A n \in 0 .. Len(Calls) : Turns[n] = FirstOf(Chain, n)
<1> DEFINE T == {n \in 0 .. Len(Calls) : Turns[n] # FirstOf(Chain, n)}
<1>1. SUFFICES ASSUME T # {} PROVE FALSE
  OBVIOUS
<1>2. Len(Calls) \in Nat /\ T \subseteq Nat
  BY CallFacts
<1>3. PICK n \in T : \A m \in T : ~ (<<m, n>> \in OpToRel(<, Nat))
  <2> HIDE DEF T
  <2> QED BY <1>1, <1>2, NatLessThanWellFounded, WFMin
<1>4. n \in 0 .. Len(Calls) /\ Turns[n] # FirstOf(Chain, n)
  OBVIOUS
<1>5. Turns[n] = IF n = 0 THEN <<>> ELSE Turned(Turns[n - 1], n)
  <2>1. \A f : f = [k \in 0 .. Len(Calls) |-> IF k = 0 THEN <<>> ELSE Turned(Turns[k - 1], k)]
          => f[n] = IF n = 0 THEN <<>> ELSE Turned(Turns[n - 1], n)
    BY <1>4
  <2> QED BY <2>1, TurnsEquation
<1>6. CASE n = 0
  BY <1>4, <1>5, <1>6 DEF FirstOf
<1>7. CASE n # 0
  <2>1. n - 1 \in 0 .. Len(Calls) /\ n - 1 < n /\ n \in 1 .. Len(Calls)
    BY <1>2, <1>4, <1>7
  <2>2. n - 1 \notin T
    <3> HIDE DEF T
    <3> QED BY <1>2, <1>3, <1>4, <2>1 DEF OpToRel
  <2>3. Turns[n - 1] = FirstOf(Chain, n - 1)
    BY <2>1, <2>2
  <2> QED BY <1>4, <1>5, <1>7, <2>1, <2>3, TurnedFacts
<1> QED BY <1>6, <1>7

(* The interrupt dereferences the counted nodes and nothing else. *)
LEMMA DereferencedFacts ==
  ASSUME TypeOK, RegistryInv
  PROVE  Dereferenced = 1 .. reportCount /\ Dereferenced \subseteq 1 .. Len(id)
<1>1. /\ reportCount \in Nat /\ reportCount <= Len(id) /\ Len(id) \in Nat /\ Len(Calls) \in Nat
      /\ reportCount <= Len(Calls)
  BY TypeFacts, CallFacts DEF RegistryInv, PlaceInv
<1>2. Turns[reportCount] = FirstOf(Chain, reportCount)
  BY <1>1, TurnsFacts
<1>3. \A i \in 1 .. reportCount : FirstOf(Chain, reportCount)[i] = i
  BY <1>1 DEF FirstOf, Chain
<1>4. {FirstOf(Chain, reportCount)[i] : i \in 1 .. reportCount} = 1 .. reportCount
  BY <1>3
<1>5. Dereferenced = 1 .. reportCount
  BY <1>1, <1>2, <1>4 DEF Dereferenced, Null
<1> QED BY <1>1, <1>5

-----------------------------------------------------------------------------
LEMMA StartupIsSound ==
  StartupSpec => [](TypeOK /\ RegistryInv /\ DhcpTypeOK /\ TimerInv /\ (network # "down" => pc = "done"))
<1> DEFINE Sound == TypeOK /\ RegistryInv /\ DhcpTypeOK /\ TimerInv
                    /\ (network # "down" => pc = "done")
<1>1. StartupInit => Sound
  BY InitRegistry, InitTimer DEF StartupInit, RegistryInv, DhcpInit
<1>2. ASSUME Sound, [StartupNext]_<<vars, dhcpVars>> PROVE Sound'
  <2>1. TypeOK' /\ RegistryInv'
    BY <1>2, NextRegistry DEF StartupNext
  <2>2. DhcpTypeOK' /\ TimerInv'
    BY <1>2, NextTimer DEF StartupNext
  <2>3. network' # "down" => pc' = "done"
    <3>1. CASE Next /\ UNCHANGED dhcpVars
      <4>1. pc = "done" => pc' = "done"
        BY <3>1 DEF Next, SetupStep, LockFeature, SetFeature, NewNode, Link, Count, HostSetReport
      <4> QED BY <1>2, <3>1, <4>1 DEF dhcpVars
    <3>2. CASE pc = "done" /\ UNCHANGED vars
      BY <3>2 DEF vars
    <3>3. CASE UNCHANGED <<vars, dhcpVars>>
      BY <1>2, <3>3 DEF vars, dhcpVars
    <3> QED BY <1>2, <3>1, <3>2, <3>3 DEF StartupNext
  <2> QED BY <2>1, <2>2, <2>3
<1> QED BY <1>1, <1>2, PTL DEF StartupSpec

(* Every variable keeps its type, and loop() comes after setup(). *)
THEOREM TypeCorrect == StartupSpec => []StartupTypeOK
BY StartupIsSound, PTL DEF StartupTypeOK

(* Whenever the USB interrupt comes, between any two stores of the main    *)
(* loop, GetFeature() follows whole pointers to whole nodes.               *)
THEOREM NoTornPointer == StartupSpec => []NeverTorn
<1>1. TypeOK /\ RegistryInv => NeverTorn
  BY DereferencedFacts, TypeFacts DEF NeverTorn
<1> QED BY <1>1, StartupIsSound, PTL

(* From the return of its SetFeature() on, the interrupt finds a Feature,  *)
(* and finds one.                                                          *)
THEOREM RegisteredStaysFound == StartupSpec => []RegisteredIsFound
<1>1. ASSUME TypeOK, RegistryInv PROVE RegisteredIsFound
  <2>1. ASSUME NEW i \in DOMAIN Calls, Returned(i)
        PROVE  Cardinality(Named(Dereferenced, Calls[i].id)) = 1
    <3>1. PICK n \in 1 .. reportCount : id[n] = Calls[i].id
      BY <1>1, <2>1 DEF RegistryInv, IdInv
    <3>2. Named(Dereferenced, Calls[i].id) = {n}
      <4>1. Dereferenced = 1 .. reportCount /\ Dereferenced \subseteq 1 .. Len(id)
        BY <1>1, DereferencedFacts
      <4>2. DOMAIN id = 1 .. Len(id)
        BY <1>1, TypeFacts
      <4>3. \A m, k \in 1 .. Len(id) : id[m] = id[k] => m = k
        BY <1>1 DEF RegistryInv, IdInv
      <4> QED BY <3>1, <4>1, <4>2, <4>3 DEF Named
    <3> QED BY <3>2, FS_Singleton
  <2> QED BY <2>1 DEF RegisteredIsFound
<1> QED BY <1>1, StartupIsSound, PTL

(* The host writes no Feature whose LockFeature() has returned. *)
THEOREM WindowIsShut == StartupSpec => WindowEndsAtLock
<1> DEFINE Shut == \A f \in Tracked : value'[f] # value[f] =>
                     ~\E i \in DOMAIN Calls : Returned(i) /\ <<Calls[i]>> = Lock(f)
<1>1. ASSUME TypeOK, RegistryInv, [StartupNext]_<<vars, dhcpVars>> PROVE [Shut]_vars
  <2>1. SUFFICES ASSUME NEW f \in Tracked, value'[f] # value[f],
                        NEW i \in DOMAIN Calls, Returned(i), <<Calls[i]>> = Lock(f)
                 PROVE  FALSE
    OBVIOUS
  <2>2. Calls[i].call = "LockFeature" /\ Calls[i].id = FeatureId[f]
    BY <2>1 DEF Lock
  <2>3. HostSetReport(f)
    <3>1. value' # value
      BY <2>1
    <3>2. PICK g \in Tracked : HostSetReport(g)
      BY <1>1, <3>1 DEF StartupNext, Next, SetupStep, LockFeature, SetFeature, NewNode, Link, Count, vars
    <3>3. g = f
      BY <2>1, <3>2 DEF HostSetReport, TypeOK
    <3> QED BY <3>2, <3>3
  <2>4. PICK n \in GetFeature(FeatureId[f]) : ~locked[n]
    BY <2>3 DEF HostSetReport
  <2>5. n \in DOMAIN id /\ id[n] = FeatureId[f]
    BY <2>4 DEF GetFeature, Named
  <2>6. locked[n]
    BY <1>1, <2>1, <2>2, <2>5, TypeFacts DEF RegistryInv, LockInv
  <2> QED BY <2>4, <2>6
<1> QED BY <1>1, StartupIsSound, PTL DEF StartupSpec, WindowEndsAtLock

-----------------------------------------------------------------------------
(* What stays open to the host.                                            *)

(* Nothing but LockFeature() locks a node. *)
LockedInv ==
  \A n \in 1 .. Len(id) : locked[n]
    => \E i \in DOMAIN Calls : Calls[i].call = "LockFeature" /\ Calls[i].id = id[n]

LEMMA NextLocked ==
  ASSUME TypeOK, LockedInv, [Next]_vars PROVE LockedInv'
<1>1. CASE LockFeature
  <2>1. /\ id' = id /\ locked' = LockedToo(Call.id) /\ at \in DOMAIN Calls
        /\ Call = Calls[at] /\ Call.call = "LockFeature"
    BY <1>1 DEF LockFeature, TypeOK, Call
  <2>2. \A n \in 1 .. Len(id) : locked'[n] <=> locked[n] \/ id[n] = Call.id
    BY <2>1, TypeFacts DEF LockedToo
  <2> QED BY <2>1, <2>2 DEF LockedInv
<1>2. CASE SetFeature
  <2>1. CASE UNCHANGED <<id, locked>>
    BY <2>1 DEF LockedInv
  <2>2. CASE id' = Append(id, Call.id) /\ locked' = Append(locked, FALSE)
    <3>1. /\ Len(id') = Len(id) + 1
          /\ \A n \in 1 .. Len(id) : id'[n] = id[n] /\ locked'[n] = locked[n]
          /\ locked'[Len(id) + 1] = FALSE
      <4>1. Call.id \in Ids /\ FALSE \in BOOLEAN
        BY TypeFacts, CallFacts DEF Ids, Call
      <4> QED BY <2>2, <4>1, AppendProperties, TypeFacts DEF TypeOK
    <3>2. \A n \in 1 .. Len(id') : n \in 1 .. Len(id) \/ n = Len(id) + 1
      BY <3>1, TypeFacts
    <3> QED BY <3>1, <3>2 DEF LockedInv
  <2> QED BY <1>2, <2>1, <2>2 DEF SetFeature, NewNode
<1>3. CASE UNCHANGED <<id, locked>>
  BY <1>3 DEF LockedInv
<1> QED BY <1>1, <1>2, <1>3
        DEF Next, SetupStep, Link, Count, HostSetReport, vars

(* When setup() is over, the Features the host may still write are the     *)
(* delays and limits, and no other: each of the others is in the list of   *)
(* the sketch, was found by its LockFeature(), and stays locked.           *)
THEOREM OnlyLimitsAreOpen == StartupSpec => []OnlyLimitsStayOpen
<1>1. StartupInit => LockedInv
  <2>1. Init => Len(id) = 0
    BY DEF Init
  <2> QED BY <2>1 DEF StartupInit, LockedInv
<1>2. TypeOK /\ LockedInv /\ [StartupNext]_<<vars, dhcpVars>> => LockedInv'
  <2> SUFFICES ASSUME TypeOK, LockedInv, [StartupNext]_<<vars, dhcpVars>> PROVE LockedInv'
    OBVIOUS
  <2>1. [Next]_vars
    BY DEF StartupNext
  <2> QED BY <2>1, NextLocked
<1>3. ASSUME TypeOK, RegistryInv, LockedInv PROVE OnlyLimitsStayOpen
  <2> SUFFICES ASSUME pc = "done"
               PROVE  {f \in DOMAIN FeatureId :
                         \E n \in Named(Dereferenced, FeatureId[f]) : ~locked[n]} = HostWritable
    BY DEF OnlyLimitsStayOpen
  <2>1. HostWritable \subseteq DOMAIN FeatureId
    BY Names DEF HostWritable
  <2>2. ASSUME NEW f \in HostWritable
        PROVE  \E n \in Named(Dereferenced, FeatureId[f]) : ~locked[n]
    <3>1. PICK i \in DOMAIN Calls : Calls[i] = SetOf(f)
      BY WhatIsLocked DEF Has
    <3>2. Calls[i].id = FeatureId[f] /\ Returned(i)
      BY <3>1 DEF SetOf, Returned
    <3>3. PICK n \in 1 .. reportCount : id[n] = FeatureId[f]
      BY <1>3, <3>2 DEF RegistryInv, IdInv
    <3>4. n \in Named(Dereferenced, FeatureId[f]) /\ n \in 1 .. Len(id)
      BY <1>3, <3>3, DereferencedFacts, TypeFacts DEF Named
    <3>5. ~locked[n]
      <4>1. ASSUME NEW j \in DOMAIN Calls, Calls[j].call = "LockFeature",
                   Calls[j].id = FeatureId[f]
            PROVE  FALSE
        <5>1. Calls[j] = LockOf(f)
          <6>1. Calls[j] \in Records
            BY CallsLawful, CallFacts, ElementOfSeq DEF Lawful
          <6> QED BY <4>1, <6>1 DEF LockOf, Records
        <5> QED BY <5>1, WhatIsLocked DEF Has
      <4> QED BY <1>3, <3>3, <3>4, <4>1 DEF LockedInv
    <3> QED BY <3>4, <3>5
  <2>3. ASSUME NEW f \in DOMAIN FeatureId \ HostWritable,
               NEW n \in Named(Dereferenced, FeatureId[f])
        PROVE  locked[n]
    <3>1. PICK i \in DOMAIN Calls : Calls[i] = LockOf(f)
      BY WhatIsLocked DEF Has
    <3>2. Calls[i].call = "LockFeature" /\ Calls[i].id = FeatureId[f] /\ Returned(i)
      BY <3>1 DEF LockOf, Returned
    <3>3. n \in 1 .. Len(id) /\ id[n] = FeatureId[f]
      BY <1>3, TypeFacts DEF Named
    <3> QED BY <1>3, <3>2, <3>3 DEF RegistryInv, LockInv
  <2> QED BY <2>1, <2>2, <2>3
<1>4. StartupSpec => []LockedInv
  BY <1>1, <1>2, StartupIsSound, PTL DEF StartupSpec
<1> QED BY <1>3, <1>4, StartupIsSound, PTL
=============================================================================
