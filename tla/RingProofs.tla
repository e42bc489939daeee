----------------------------- MODULE RingProofs -----------------------------
(***************************************************************************)
(* What the reader of the observation ring returns, for every ring size,   *)
(* interval between records, width of a cumulative and path of ticks.      *)
(*                                                                         *)
(* The argument is told in terms of log, the history of every record: the  *)
(* ring holds the last OBSERVATION_NUM of them, and the reader, whatever   *)
(* slots it starts and ends at, computes with records that follow one      *)
(* another in log.                                                         *)
(***************************************************************************)
EXTENDS Ring, IntegerLemmas, FiniteSetTheorems

Cumulative == -CumulativeSpan .. CumulativeSpan - 1

SlotFor(i) == (i - 1) % OBSERVATION_NUM       \* where the i-th record was put

(* The i-th record has not been overwritten yet.                           *)
Retained(i) == Len(log) < i + OBSERVATION_NUM

RingType ==
  /\ now \in 1 .. MaxTime
  /\ tick \in Ticks
  /\ newest \in Slot
  /\ slots \in [Slot -> [timestamp : Nat, cumulative : Cumulative]]
  /\ log \in Seq([timestamp : 1 .. MaxTime, tick : Ticks]) /\ Len(log) # 0

(* Records are made in order, no closer together than the pool allows.     *)
RecordsSpaced ==
  /\ \A i, j \in 1 .. Len(log) : i <= j =>
       log[i].timestamp + (j - i) * OBSERVATION_UPDATE_DURATION <= log[j].timestamp
  /\ log[Len(log)].timestamp <= now

(* The ring holds the latest records, each a segment's worth of ticks      *)
(* after the one before, modulo the width of a cumulative.                 *)
RingMirrorsLog ==
  /\ newest = SlotFor(Len(log))
  /\ \A i \in 1 .. Len(log) : Retained(i) => slots[SlotFor(i)].timestamp = log[i].timestamp
  /\ \A i \in 2 .. Len(log) : Retained(i - 1) =>
       slots[SlotFor(i)].cumulative =
         Wrapping(slots[SlotFor(i - 1)].cumulative
                    + log[i].tick * (log[i].timestamp - log[i - 1].timestamp))
  /\ \A s \in Slot : s >= Len(log) => slots[s].timestamp = 0

RingInv == RingType /\ RecordsSpaced /\ RingMirrorsLog

-----------------------------------------------------------------------------
(* Wrapping is arithmetic modulo the width of a cumulative.                *)

LEMMA WrappingRange ==
  ASSUME NEW a \in Int
  PROVE  Wrapping(a) \in Cumulative
<1>1. 2 * CumulativeSpan \in Nat \ {0}
  BY RingConstants
<1>2. (a + CumulativeSpan) % (2 * CumulativeSpan) \in 0 .. 2 * CumulativeSpan - 1
  BY <1>1, FloorDiv, RingConstants
<1> QED BY <1>2, RingConstants DEF Wrapping, Cumulative

LEMMA WrappingSmall ==
  ASSUME NEW a \in Cumulative
  PROVE  Wrapping(a) = a
<1>1. 2 * CumulativeSpan \in Nat \ {0} /\ a + CumulativeSpan \in 0 .. 2 * CumulativeSpan - 1
  BY RingConstants DEF Cumulative
<1>2. (a + CumulativeSpan) % (2 * CumulativeSpan) = a + CumulativeSpan
  BY <1>1, ModSmall
<1> QED BY <1>2, RingConstants DEF Wrapping, Cumulative

LEMMA WrappingAdd ==
  ASSUME NEW a \in Int, NEW b \in Int
  PROVE  Wrapping(Wrapping(a) + b) = Wrapping(a + b)
<1> DEFINE n == 2 * CumulativeSpan
           c == a + CumulativeSpan
<1>1. n \in Nat \ {0} /\ c \in Int /\ c % n \in Int
  BY RingConstants, FloorDiv
<1>2. ((c % n) + b) % n = (c + b) % n
  BY <1>1, ModAdd
<1>3. Wrapping(a) + b + CumulativeSpan = (c % n) + b
  BY <1>1, RingConstants DEF Wrapping
<1>4. a + b + CumulativeSpan = c + b
  BY RingConstants
<1> QED BY <1>2, <1>3, <1>4 DEF Wrapping

LEMMA WrappingDifference ==
  ASSUME NEW a \in Int, NEW b \in Int
  PROVE  Wrapping(Wrapping(a) - Wrapping(b)) = Wrapping(a - b)
<1> DEFINE n == 2 * CumulativeSpan
           q == (b + CumulativeSpan) \div n
           r == Wrapping(b)
<1>1. n \in Nat \ {0} /\ b + CumulativeSpan \in Int
  BY RingConstants
<1>2. q \in Int /\ r \in Int /\ b = q * n + r
  <2> DEFINE m == (b + CumulativeSpan) % n
  <2>1. q \in Int /\ m \in Int /\ b + CumulativeSpan = q * n + m
    <3> DEFINE c == b + CumulativeSpan
    <3>1. c \in Int
      BY <1>1
    <3> HIDE DEF n, c
    <3>2. c \div n \in Int /\ c % n \in Int /\ c = (c \div n) * n + (c % n)
      BY <1>1, <3>1, FloorDiv
    <3> QED BY <3>2 DEF c
  <2>2. r = m - CumulativeSpan
    BY DEF Wrapping
  <2> HIDE DEF n, q, m, r
  <2> QED BY <1>1, <2>1, <2>2, RingConstants
<1> HIDE DEF r, q
<1>3. Wrapping(Wrapping(a) - r) = Wrapping(a - r)
  <2>1. Wrapping(a) \in Int
    BY WrappingRange DEF Cumulative
  <2>2. Wrapping(a) - r = Wrapping(a) + (-r) /\ a - r = a + (-r) /\ -r \in Int
    BY <1>2, <2>1
  <2>3. Wrapping(Wrapping(a) + (-r)) = Wrapping(a + (-r))
    BY <2>2, WrappingAdd
  <2> QED BY <2>2, <2>3
<1>4. Wrapping(a - r) = Wrapping(a - b)
  <2> DEFINE d == a - b + CumulativeSpan
  <2>1. d \in Int /\ a - r + CumulativeSpan = d + q * n
    BY <1>1, <1>2, RingConstants
  <2>2. (d + q * n) % n = d % n
    <3> HIDE DEF n, d
    <3> QED BY <1>1, <1>2, <2>1, ModPeriod
  <2> QED BY <2>1, <2>2 DEF Wrapping
<1> QED BY <1>3, <1>4 DEF r

(* No stretch of time is long enough for a cumulative to wrap twice.       *)
LEMMA CreditFits ==
  ASSUME NEW t \in Ticks, NEW seconds \in 0 .. MaxTime
  PROVE  t * seconds \in Cumulative
<1>1. t \in Int /\ MaxTime \in Nat \ {0} /\ t * MaxTime \in Cumulative
  BY RingConstants DEF Cumulative
<1>2. CASE t >= 0
  <2>1. 0 <= t * seconds /\ t * seconds <= t * MaxTime
    BY <1>1, <1>2
  <2> QED BY <1>1, <2>1, RingConstants DEF Cumulative
<1>3. CASE t < 0
  <2>1. t * seconds <= 0 /\ t * MaxTime <= t * seconds
    BY <1>1, <1>3
  <2> QED BY <1>1, <2>1, RingConstants DEF Cumulative
<1> QED BY <1>1, <1>2, <1>3

-----------------------------------------------------------------------------
(* The inductive invariant.                                                *)

LEMMA SlotForFacts ==
  ASSUME NEW i \in Nat \ {0}
  PROVE  /\ SlotFor(i) \in Slot
         /\ (SlotFor(i) + 1) % OBSERVATION_NUM = SlotFor(i + 1)
         /\ \A j \in Nat \ {0} : j < i /\ i < j + OBSERVATION_NUM => SlotFor(j) # SlotFor(i)
<1>1. OBSERVATION_NUM \in Nat \ {0} /\ i - 1 \in Int
  BY RingConstants
<1>2. SlotFor(i) \in Slot
  BY <1>1, FloorDiv DEF SlotFor, Slot
<1>3. (SlotFor(i) + 1) % OBSERVATION_NUM = SlotFor(i + 1)
  <2>1. (i - 1) + 1 = (i + 1) - 1
    OBVIOUS
  <2>2. (((i - 1) % OBSERVATION_NUM) + 1) % OBSERVATION_NUM = ((i - 1) + 1) % OBSERVATION_NUM
    <3>1. \A a, b \in Int : ((a % OBSERVATION_NUM) + b) % OBSERVATION_NUM = (a + b) % OBSERVATION_NUM
      BY <1>1, ModAdd
    <3>2. 1 \in Int
      OBVIOUS
    <3> QED BY <1>1, <3>1, <3>2, Zenon
  <2> QED BY <2>1, <2>2 DEF SlotFor
<1>4. ASSUME NEW j \in Nat \ {0}, j < i, i < j + OBSERVATION_NUM
      PROVE  SlotFor(j) # SlotFor(i)
  <2>1. j - 1 \in Int /\ j - 1 < i - 1 /\ i - 1 < (j - 1) + OBSERVATION_NUM
    BY <1>1, <1>4
  <2> QED BY <1>1, <2>1, ModApart DEF SlotFor
<1> QED BY <1>2, <1>3, <1>4

LEMMA RingInitially == Init => RingInv
<1> SUFFICES ASSUME Init PROVE RingInv
  OBVIOUS
<1> USE DEF Init
<1>1. Len(log) = 1 /\ log[1] = [timestamp |-> 1, tick |-> tick]
  OBVIOUS
<1>2. RingType
  <2>1. log \in Seq([timestamp : 1 .. MaxTime, tick : Ticks])
    BY RingConstants
  <2>2. newest \in Slot /\ now \in 1 .. MaxTime
    BY RingConstants DEF Slot
  <2>3. slots \in [Slot -> [timestamp : Nat, cumulative : Cumulative]]
    <3>1. 0 \in Cumulative /\ FirstCumulatives \subseteq Cumulative
      BY RingConstants DEF Cumulative
    <3> QED BY <3>1
  <2> QED BY <1>1, <2>1, <2>2, <2>3 DEF RingType
<1>3. RecordsSpaced
  BY <1>1, RingConstants DEF RecordsSpaced
<1>4. RingMirrorsLog
  <2>1. SlotFor(1) = 0
    BY ModSmall, RingConstants DEF SlotFor
  <2>2. \A s \in Slot : s >= 1 => slots[s].timestamp = 0
    BY DEF Slot
  <2>3. slots[0].timestamp = 1
    BY RingConstants DEF Slot
  <2> QED BY <1>1, <2>1, <2>2, <2>3 DEF RingMirrorsLog
<1> QED BY <1>2, <1>3, <1>4 DEF RingInv

LEMMA RecordTypes ==
  RingInv => /\ Len(log) \in Nat \ {0} /\ now \in 1 .. MaxTime /\ MaxTime \in Nat
             /\ \A i \in 1 .. Len(log) : /\ log[i].timestamp \in 1 .. MaxTime
                                         /\ log[i].tick \in Ticks /\ log[i].tick \in Int
             /\ slots \in [Slot -> [timestamp : Nat, cumulative : Cumulative]]
             /\ Ticks \subseteq Int /\ Cumulative \subseteq Int
<1> DEFINE Record == [timestamp : 1 .. MaxTime, tick : Ticks]
<1> HAVE RingInv
<1>1. log \in Seq(Record) /\ Len(log) # 0
  BY DEF RingInv, RingType
<1>2. Len(log) \in Nat \ {0} /\ \A i \in 1 .. Len(log) : log[i] \in Record
  <2> HIDE DEF Record
  <2> QED BY <1>1
<1>3. Ticks \subseteq Int /\ Cumulative \subseteq Int /\ MaxTime \in Nat
  BY RingConstants DEF Cumulative
<1>4. \A i \in 1 .. Len(log) : log[i].timestamp \in 1 .. MaxTime /\ log[i].tick \in Ticks
  BY <1>2
<1> QED BY <1>2, <1>3, <1>4 DEF RingInv, RingType

(* A step that records nothing leaves ring and log alone.                  *)
LEMMA QuietStep ==
  ASSUME RingInv, UNCHANGED <<slots, newest, log>>,
         now' \in now .. MaxTime, tick' \in Ticks
  PROVE  RingInv'
<1>1. RingType'
  BY RingConstants DEF RingInv, RingType
<1>2. RecordsSpaced'
  <2>1. log[Len(log)].timestamp \in Int /\ now \in Int
    BY RecordTypes
  <2> QED BY <2>1 DEF RingInv, RecordsSpaced
<1>3. RingMirrorsLog'
  BY DEF RingInv, RingMirrorsLog, SlotFor, Retained, Wrapping
<1> QED BY <1>1, <1>2, <1>3 DEF RingInv

(* What a swap does when it is recorded: the new record goes where the     *)
(* oldest was, and no other slot changes.                                  *)
Recorded(next_tick) ==
  /\ log[Len(log)].timestamp + OBSERVATION_UPDATE_DURATION <= now
  /\ tick' = next_tick /\ now' = now
  /\ newest' = SlotFor(Len(log) + 1)
  /\ slots' = [slots EXCEPT ![SlotFor(Len(log) + 1)] =
       [timestamp  |-> now,
        cumulative |-> Wrapping(slots[SlotFor(Len(log))].cumulative
                                  + tick * (now - log[Len(log)].timestamp))]]
  /\ log' = Append(log, [timestamp |-> now, tick |-> tick])

LEMMA SwapCases ==
  ASSUME RingInv, NEW next_tick \in Ticks, Swap(next_tick)
  PROVE  \/ Recorded(next_tick)
         \/ UNCHANGED <<slots, newest, log, now>> /\ tick' = next_tick
<1> DEFINE n == Len(log)
<1>1. n \in Nat \ {0} /\ OBSERVATION_NUM \in Nat \ {0} /\ OBSERVATION_UPDATE_DURATION \in Nat
  BY RingConstants DEF RingInv, RingType
<1>2. newest = SlotFor(n) /\ slots[newest].timestamp = log[n].timestamp
  BY <1>1 DEF RingInv, RingMirrorsLog, Retained
<1>3. after_newest = SlotFor(n + 1)
  BY <1>1, <1>2, SlotForFacts DEF after_newest
<1>4. log[n].timestamp \in Int /\ now \in Int
  BY <1>1, RecordTypes
<1> QED BY <1>1, <1>2, <1>3, <1>4 DEF Swap, Recorded

LEMMA AppendedLog ==
  ASSUME RingInv, NEW next_tick \in Ticks, Recorded(next_tick)
  PROVE  /\ Len(log) \in Nat \ {0} /\ Len(log') = Len(log) + 1
         /\ \A i \in 1 .. Len(log) : log'[i] = log[i]
         /\ log'[Len(log) + 1] = [timestamp |-> now, tick |-> tick]
         /\ log' \in Seq([timestamp : 1 .. MaxTime, tick : Ticks])
  BY DEF RingInv, RingType, Recorded

LEMMA RecordKeepsType ==
  ASSUME RingInv, NEW next_tick \in Ticks, Recorded(next_tick)
  PROVE  RingType'
<1>1. Len(log) \in Nat \ {0} /\ SlotFor(Len(log) + 1) \in Slot /\ SlotFor(Len(log)) \in Slot
  BY AppendedLog, SlotForFacts
<1>2. /\ slots[SlotFor(Len(log))].cumulative \in Int /\ tick \in Int /\ now \in 1 .. MaxTime
      /\ log[Len(log)].timestamp \in Int
  <2>1. slots[SlotFor(Len(log))] \in [timestamp : Nat, cumulative : Cumulative]
    BY <1>1, RecordTypes
  <2>2. tick \in Ticks
    BY DEF RingInv, RingType
  <2> QED BY <1>1, <2>1, <2>2, RecordTypes
<1>3. Wrapping(slots[SlotFor(Len(log))].cumulative + tick * (now - log[Len(log)].timestamp))
        \in Cumulative
  BY <1>2, WrappingRange
<1>4. slots' \in [Slot -> [timestamp : Nat, cumulative : Cumulative]]
  BY <1>1, <1>2, <1>3 DEF RingInv, RingType, Recorded
<1> QED BY <1>1, <1>2, <1>4, AppendedLog, SMTT(40) DEF RingInv, RingType, Recorded

LEMMA RecordKeepsSpacing ==
  ASSUME RingInv, NEW next_tick \in Ticks, Recorded(next_tick)
  PROVE  RecordsSpaced'
<1> DEFINE n == Len(log)
           gap == OBSERVATION_UPDATE_DURATION
<1>1. n \in Nat \ {0} /\ gap \in Nat /\ now \in Nat /\ now' = now
  BY AppendedLog, RingConstants DEF RingInv, RingType, Recorded
<1>2. \A i \in 1 .. n : log[i].timestamp \in Nat
  BY RecordTypes
<1>3. ASSUME NEW i \in 1 .. n
      PROVE  log[i].timestamp + ((n + 1) - i) * gap <= now
  <2>1. log[i].timestamp + (n - i) * gap <= log[n].timestamp
    <3>1. n \in 1 .. n /\ i <= n
      BY <1>1
    <3> QED BY <3>1, Zenon DEF RingInv, RecordsSpaced
  <2>2. log[n].timestamp + gap <= now
    BY DEF Recorded
  <2>3. (n - i) * gap \in Int /\ ((n + 1) - i) * gap = (n - i) * gap + gap
    BY <1>1
  <2>4. /\ log[i].timestamp \in Int /\ log[n].timestamp \in Int /\ now \in Int /\ gap \in Int
    BY <1>1, <1>2
  <2> DEFINE lapse == (n - i) * gap
             before == log[i].timestamp
             last == log[n].timestamp
  <2>5. before + lapse <= last /\ last + gap <= now /\ lapse \in Int /\ before \in Int /\ last \in Int
    BY <2>1, <2>2, <2>3, <2>4
  <2>6. before + (lapse + gap) <= now
    <3> HIDE DEF lapse, before, last, gap
    <3> QED BY <2>4, <2>5
  <2> QED BY <2>3, <2>6
<1>4. ASSUME NEW i \in 1 .. n + 1, NEW j \in 1 .. n + 1, i <= j
      PROVE  log'[i].timestamp + (j - i) * gap <= log'[j].timestamp
  <2>1. CASE j \in 1 .. n
    <3>1. i \in 1 .. n /\ log'[i] = log[i] /\ log'[j] = log[j]
      BY <1>1, <1>4, <2>1, AppendedLog
    <3> QED BY <1>4, <2>1, <3>1 DEF RingInv, RecordsSpaced
  <2>2. CASE j = n + 1 /\ i \in 1 .. n
    <3>1. log'[i] = log[i] /\ log'[j].timestamp = now
      BY <1>1, <2>2, AppendedLog
    <3> QED BY <1>3, <2>2, <3>1
  <2>3. CASE j = n + 1 /\ i = n + 1
    <3>1. log'[i].timestamp = now /\ log'[j].timestamp = now /\ (j - i) * gap = 0
      BY <1>1, <2>3, AppendedLog
    <3> QED BY <1>1, <3>1
  <2> QED BY <1>1, <1>4, <2>1, <2>2, <2>3
<1>5. log'[n + 1].timestamp = now /\ Len(log') = n + 1
  BY AppendedLog
<1> HIDE DEF n, gap
<1> QED BY <1>1, <1>4, <1>5 DEF RecordsSpaced, gap

(* The new record overwrites none that is still in the ring afterwards.    *)
LEMMA RetainedElsewhere ==
  ASSUME RingInv, NEW next_tick \in Ticks, Recorded(next_tick), NEW i \in 1 .. Len(log), Retained(i)'
  PROVE  Retained(i) /\ SlotFor(i) \in Slot /\ SlotFor(i) # SlotFor(Len(log) + 1)
<1> DEFINE n == Len(log)
<1>1. n \in Nat \ {0} /\ OBSERVATION_NUM \in Nat
  BY AppendedLog, RingConstants
<1>2. i \in Nat \ {0} /\ n + 1 \in Nat \ {0} /\ i < n + 1 /\ n + 1 < i + OBSERVATION_NUM
  BY <1>1, AppendedLog DEF Retained
<1>3. Retained(i)
  BY <1>1, <1>2 DEF Retained
<1>4. SlotFor(i) \in Slot /\ SlotFor(i) # SlotFor(n + 1)
  BY <1>2, SlotForFacts
<1> QED BY <1>3, <1>4

LEMMA RecordKeepsMirror ==
  ASSUME RingInv, NEW next_tick \in Ticks, Recorded(next_tick)
  PROVE  RingMirrorsLog'
<1> DEFINE n == Len(log)
           new == SlotFor(n + 1)
<1>1. /\ n \in Nat \ {0} /\ Len(log') = n + 1 /\ OBSERVATION_NUM \in Nat \ {0, 1}
      /\ new \in Slot /\ slots \in [Slot -> [timestamp : Nat, cumulative : Cumulative]]
  BY AppendedLog, SlotForFacts, RecordTypes, RingConstants
<1>2. /\ slots'[new].timestamp = now
      /\ slots'[new].cumulative =
           Wrapping(slots[SlotFor(n)].cumulative + tick * (now - log[n].timestamp))
      /\ \A s \in Slot : s # new => slots'[s] = slots[s]
  BY <1>1 DEF Recorded
<1>3. \A i \in 1 .. n : Retained(i)' => /\ Retained(i) /\ SlotFor(i) \in Slot
                                         /\ SlotFor(i) # new
  BY RetainedElsewhere
<1>4. ASSUME NEW i \in 1 .. n + 1, Retained(i)'
      PROVE  slots'[SlotFor(i)].timestamp = log'[i].timestamp
  <2>1. CASE i = n + 1
    BY <1>2, <2>1, AppendedLog
  <2>2. CASE i \in 1 .. n
    BY <1>2, <1>3, <1>4, <2>2, AppendedLog DEF RingInv, RingMirrorsLog
  <2> QED BY <1>1, <2>1, <2>2
<1>5. ASSUME NEW i \in 2 .. n + 1, Retained(i - 1)'
      PROVE  slots'[SlotFor(i)].cumulative =
               Wrapping(slots'[SlotFor(i - 1)].cumulative
                          + log'[i].tick * (log'[i].timestamp - log'[i - 1].timestamp))
  <2>1. i - 1 \in 1 .. n /\ Retained(i - 1) /\ slots'[SlotFor(i - 1)] = slots[SlotFor(i - 1)]
    BY <1>1, <1>2, <1>3, <1>5
  <2>2. CASE i = n + 1
    <3>1. i - 1 = n /\ SlotFor(i) = new
      BY <1>1, <2>2
    <3>2. log'[i] = [timestamp |-> now, tick |-> tick] /\ log'[i - 1] = log[n]
      BY <1>1, <2>2, <3>1, AppendedLog
    <3>3. slots'[SlotFor(i - 1)] = slots[SlotFor(n)]
      BY <2>1, <3>1
    <3> HIDE DEF new, n
    <3> QED BY <1>2, <3>1, <3>2, <3>3
  <2>3. CASE i \in 2 .. n
    <3>1. Retained(i)'
      BY <1>1, <1>5, <2>3 DEF Retained
    <3>2. slots'[SlotFor(i)] = slots[SlotFor(i)]
      BY <1>2, <1>3, <2>3, <3>1
    <3>3. log'[i] = log[i] /\ log'[i - 1] = log[i - 1]
      BY <2>1, <2>3, AppendedLog
    <3> QED BY <2>1, <2>3, <3>2, <3>3 DEF RingInv, RingMirrorsLog
  <2> QED BY <1>1, <2>2, <2>3
<1>6. ASSUME NEW s \in Slot, s >= n + 1
      PROVE  slots'[s].timestamp = 0
  <2>1. n \in 0 .. OBSERVATION_NUM - 1
    BY <1>1, <1>6 DEF Slot
  <2>2. new = n
    <3>1. n % OBSERVATION_NUM = n
      BY <1>1, <2>1, ModSmall
    <3>2. (n + 1) - 1 = n
      BY <1>1
    <3> QED BY <3>1, <3>2 DEF SlotFor
  <2> QED BY <1>1, <1>2, <1>6, <2>2, SMTT(40) DEF RingInv, RingMirrorsLog, Slot
<1>7. newest' = SlotFor(n + 1)
  BY DEF Recorded
<1> HIDE DEF new
<1> QED BY <1>1, <1>4, <1>5, <1>6, <1>7 DEF RingMirrorsLog

LEMMA RingStep == RingInv /\ [Next]_vars => RingInv'
<1> SUFFICES ASSUME RingInv, [Next]_vars PROVE RingInv'
  OBVIOUS
<1>0. now \in 1 .. MaxTime /\ tick \in Ticks /\ MaxTime \in Nat
  BY RingConstants DEF RingInv, RingType
<1>1. CASE Tick
  BY <1>0, <1>1, QuietStep DEF Tick
<1>2. ASSUME NEW next_tick \in Ticks, Swap(next_tick) PROVE RingInv'
  <2>1. CASE Recorded(next_tick)
    BY <2>1, RecordKeepsType, RecordKeepsSpacing, RecordKeepsMirror DEF RingInv
  <2>2. CASE UNCHANGED <<slots, newest, log, now>> /\ tick' = next_tick
    BY <1>0, <2>2, QuietStep
  <2> QED BY <1>2, <2>1, <2>2, SwapCases
<1>3. CASE UNCHANGED vars
  BY <1>0, <1>3, QuietStep DEF vars
<1> QED BY <1>1, <1>2, <1>3 DEF Next

LEMMA RingInvariant == Spec => []RingInv
  BY RingInitially, RingStep, PTL DEF Spec

-----------------------------------------------------------------------------
(* The reader, in terms of records: position p of the ring holds record    *)
(* RecordAt(p), and segment p is closed by it.                             *)

RecordAt(p) == Len(log) - written + 1 + p

LEMMA RingLaidOut ==
  RingInv =>
    /\ written = IF Len(log) < OBSERVATION_NUM THEN Len(log) ELSE OBSERVATION_NUM
    /\ \A p \in 0 .. written - 1 :
         /\ SlotOf(p) = SlotFor(RecordAt(p))
         /\ RecordAt(p) \in 1 .. Len(log) /\ Retained(RecordAt(p))
<1> HAVE RingInv
<1> DEFINE n == Len(log)
<1>1. n \in Nat \ {0} /\ OBSERVATION_NUM \in Nat \ {0, 1} /\ after_newest = SlotFor(n + 1)
  <2>1. newest = SlotFor(n)
    BY DEF RingInv, RingMirrorsLog
  <2> QED BY <2>1, RecordTypes, RingConstants, SlotForFacts DEF after_newest
<1>2. CASE n < OBSERVATION_NUM
  <2>1. SlotFor(n + 1) = n /\ SlotFor(n) = n - 1
    <3>1. n % OBSERVATION_NUM = n /\ (n - 1) % OBSERVATION_NUM = n - 1
      BY <1>1, <1>2, ModSmall
    <3>2. (n + 1) - 1 = n
      BY <1>1
    <3> QED BY <3>1, <3>2 DEF SlotFor
  <2>2. ~wrapped /\ written = n /\ oldest_slot = 0
    <3>1. slots[n].timestamp = 0
      BY <1>1, <1>2 DEF RingInv, RingMirrorsLog, Slot
    <3>2. newest = n - 1
      BY <2>1 DEF RingInv, RingMirrorsLog
    <3> QED BY <1>1, <2>1, <3>1, <3>2 DEF wrapped, written, oldest_slot
  <2>3. ASSUME NEW p \in 0 .. written - 1
        PROVE  /\ SlotOf(p) = SlotFor(RecordAt(p))
               /\ RecordAt(p) \in 1 .. n /\ Retained(RecordAt(p))
    <3>1. RecordAt(p) = p + 1 /\ 0 + p = p /\ (p + 1) - 1 = p
      BY <1>1, <2>2 DEF RecordAt
    <3> QED BY <1>1, <1>2, <2>2, <3>1 DEF SlotOf, SlotFor, Retained
  <2> QED BY <1>2, <2>2, <2>3
<1>3. CASE n >= OBSERVATION_NUM
  <2>1. SlotFor(n + 1) = SlotFor(n - OBSERVATION_NUM + 1)
    <3>1. n - OBSERVATION_NUM \in Int /\ (n - OBSERVATION_NUM) + 1 * OBSERVATION_NUM = n
      BY <1>1
    <3>2. n % OBSERVATION_NUM = (n - OBSERVATION_NUM) % OBSERVATION_NUM
      <4>1. \A a, k \in Int : (a + k * OBSERVATION_NUM) % OBSERVATION_NUM = a % OBSERVATION_NUM
        BY <1>1, ModPeriod
      <4>2. 1 \in Int
        OBVIOUS
      <4> QED BY <3>1, <4>1, <4>2, Zenon
    <3>3. (n + 1) - 1 = n /\ (n - OBSERVATION_NUM + 1) - 1 = n - OBSERVATION_NUM
      BY <1>1
    <3> QED BY <3>2, <3>3 DEF SlotFor
  <2>2. wrapped
    <3>1. n - OBSERVATION_NUM + 1 \in 1 .. n /\ Retained(n - OBSERVATION_NUM + 1)
      BY <1>1, <1>3 DEF Retained
    <3>2. slots[after_newest].timestamp = log[n - OBSERVATION_NUM + 1].timestamp
      BY <1>1, <2>1, <3>1 DEF RingInv, RingMirrorsLog
    <3> QED BY <3>1, <3>2, RecordTypes DEF wrapped
  <2>3. ASSUME NEW p \in 0 .. written - 1
        PROVE  /\ SlotOf(p) = SlotFor(RecordAt(p))
               /\ RecordAt(p) \in 1 .. n /\ Retained(RecordAt(p))
    <3>1. written = OBSERVATION_NUM /\ oldest_slot = SlotFor(n - OBSERVATION_NUM + 1)
      BY <1>1, <2>1, <2>2 DEF written, oldest_slot
    <3>2. RecordAt(p) = n - OBSERVATION_NUM + 1 + p
      BY <3>1 DEF RecordAt
    <3>3. ((((n - OBSERVATION_NUM + 1) - 1) % OBSERVATION_NUM) + p) % OBSERVATION_NUM
            = ((n - OBSERVATION_NUM + 1) - 1 + p) % OBSERVATION_NUM
      <4>1. \A a, b \in Int : ((a % OBSERVATION_NUM) + b) % OBSERVATION_NUM
                                = (a + b) % OBSERVATION_NUM
        BY <1>1, ModAdd
      <4>2. (n - OBSERVATION_NUM + 1) - 1 \in Int /\ p \in Int
        BY <1>1, <3>1
      <4> QED BY <4>1, <4>2, Zenon
    <3>4. (n - OBSERVATION_NUM + 1) - 1 + p = (n - OBSERVATION_NUM + 1 + p) - 1
      BY <1>1, <3>1
    <3> QED BY <1>1, <1>3, <3>1, <3>2, <3>3, <3>4 DEF SlotOf, SlotFor, Retained
  <2> QED BY <1>1, <1>3, <2>2, <2>3 DEF written
<1> QED BY <1>1, <1>2, <1>3

LEMMA RecordsOrdered ==
  RingInv => \A i, j \in 1 .. Len(log) : i < j => log[i].timestamp < log[j].timestamp
<1> SUFFICES ASSUME RingInv, NEW i \in 1 .. Len(log), NEW j \in 1 .. Len(log), i < j
             PROVE  log[i].timestamp < log[j].timestamp
  OBVIOUS
<1>1. log[i].timestamp + (j - i) * OBSERVATION_UPDATE_DURATION <= log[j].timestamp
  BY DEF RingInv, RecordsSpaced
<1>2. j - i \in Nat \ {0} /\ OBSERVATION_UPDATE_DURATION \in Nat \ {0}
  BY RecordTypes, RingConstants
<1>3. (j - i) * OBSERVATION_UPDATE_DURATION \in Nat \ {0}
  BY <1>2
<1> QED BY <1>1, <1>3, RecordTypes

LEMMA EntriesRead ==
  RingInv =>
    /\ written \in 1 .. Len(log) /\ written <= OBSERVATION_NUM
    /\ \A p \in 0 .. written - 1 :
         /\ Entry(p) = slots[SlotFor(RecordAt(p))]
         /\ Entry(p).timestamp = log[RecordAt(p)].timestamp
         /\ Entry(p).timestamp \in 1 .. MaxTime /\ Entry(p).cumulative \in Cumulative
    /\ RecordAt(written - 1) = Len(log)
<1> HAVE RingInv
<1>1. written \in 1 .. Len(log) /\ written <= OBSERVATION_NUM
  BY RingLaidOut, RecordTypes, RingConstants
<1>2. ASSUME NEW p \in 0 .. written - 1
      PROVE  /\ Entry(p) = slots[SlotFor(RecordAt(p))]
             /\ Entry(p).timestamp = log[RecordAt(p)].timestamp
             /\ Entry(p).timestamp \in 1 .. MaxTime /\ Entry(p).cumulative \in Cumulative
  <2>1. /\ SlotOf(p) = SlotFor(RecordAt(p))
        /\ RecordAt(p) \in 1 .. Len(log) /\ Retained(RecordAt(p))
    BY RingLaidOut
  <2>2. SlotFor(RecordAt(p)) \in Slot
    BY <2>1, SlotForFacts
  <2>3. slots[SlotFor(RecordAt(p))] \in [timestamp : Nat, cumulative : Cumulative]
    BY <2>2, RecordTypes
  <2>4. log[RecordAt(p)].timestamp \in 1 .. MaxTime
    BY <2>1, RecordTypes
  <2> QED BY <2>1, <2>3, <2>4 DEF Entry, RingInv, RingMirrorsLog
<1>3. RecordAt(written - 1) = Len(log)
  BY <1>1, RecordTypes DEF RecordAt
<1> QED BY <1>1, <1>2, <1>3

(* Everything the reader checks of a segment holds of every segment of a   *)
(* ring that the pool wrote; what it computes is what was credited.        *)
LEMMA SegmentsRead ==
  RingInv =>
    \A p \in Segments :
      /\ RecordAt(p) \in 2 .. Len(log) /\ RecordAt(p) - 1 = RecordAt(p - 1)
      /\ Retained(RecordAt(p) - 1)
      /\ opens(p) = log[RecordAt(p) - 1].timestamp
      /\ closes(p) = log[RecordAt(p)].timestamp
      /\ opens(p) \in Nat /\ closes(p) \in Nat /\ opens(p) < closes(p)
      /\ delta(p) = log[RecordAt(p)].tick * (closes(p) - opens(p))
      /\ delta(p) % (closes(p) - opens(p)) = 0
      /\ segment_tick(p) = log[RecordAt(p)].tick
      /\ Entry(p).cumulative = Wrapping(Entry(p - 1).cumulative + delta(p))
<1> HAVE RingInv
<1> TAKE p \in Segments
<1> DEFINE i == RecordAt(p)
           seconds == log[i].timestamp - log[i - 1].timestamp
<1>1. /\ written \in 1 .. Len(log) /\ Len(log) \in Nat /\ p \in 1 .. written - 1
      /\ i \in 2 .. Len(log) /\ i - 1 = RecordAt(p - 1)
  BY EntriesRead, RecordTypes, SMTT(40) DEF Segments, RecordAt
<1>2. Retained(i - 1)
  BY <1>1, RingLaidOut
<1>3. opens(p) = log[i - 1].timestamp /\ closes(p) = log[i].timestamp
  BY <1>1, EntriesRead DEF opens, closes
<1>4. log[i - 1].timestamp \in 1 .. MaxTime /\ log[i].timestamp \in 1 .. MaxTime /\ log[i].tick \in Ticks
  BY <1>1, RecordTypes, SMTT(40)
<1>5. seconds \in 1 .. MaxTime
  <2>1. log[i - 1].timestamp < log[i].timestamp
    <3>1. i - 1 \in 1 .. Len(log) /\ i \in 1 .. Len(log) /\ i - 1 < i
      BY <1>1
    <3> HIDE DEF i
    <3> QED BY <3>1, RecordsOrdered
  <2> DEFINE opened == log[i - 1].timestamp
             closed == log[i].timestamp
  <2>2. opened \in 1 .. MaxTime /\ closed \in 1 .. MaxTime /\ opened < closed /\ MaxTime \in Nat
    BY <1>4, <2>1, RecordTypes
  <2>3. closed - opened \in 1 .. MaxTime
    <3> HIDE DEF opened, closed
    <3> QED BY <2>2
  <2> QED BY <2>3
<1>6. log[i].tick * seconds \in Cumulative
  <2> HIDE DEF seconds
  <2> QED BY <1>4, <1>5, CreditFits
<1>7. Entry(p).cumulative = Wrapping(Entry(p - 1).cumulative + log[i].tick * seconds)
  BY <1>1, <1>2, EntriesRead DEF RingInv, RingMirrorsLog
<1>8. delta(p) = log[i].tick * seconds
  <2> DEFINE c == Entry(p - 1).cumulative
             d == log[i].tick * seconds
  <2>1. c \in Int /\ d \in Int /\ c \in Cumulative
    <3>1. p - 1 \in 0 .. written - 1
      BY <1>1
    <3>2. c \in Cumulative
      BY <3>1, EntriesRead
    <3>3. d \in Cumulative
      BY <1>6
    <3> QED BY <3>2, <3>3, RecordTypes
  <2>2. delta(p) = Wrapping(Wrapping(c + d) - Wrapping(c))
    BY <1>7, <2>1, WrappingSmall DEF delta
  <2> HIDE DEF c, d
  <2>3. Wrapping(Wrapping(c + d) - Wrapping(c)) = Wrapping((c + d) - c)
    BY <2>1, WrappingDifference
  <2>4. (c + d) - c = d
    BY <2>1
  <2> QED BY <1>6, <2>2, <2>3, <2>4, WrappingSmall DEF d
<1>9. delta(p) \div seconds = log[i].tick /\ delta(p) % seconds = 0
  <2>1. log[i].tick \in Int /\ seconds \in Nat \ {0}
    BY <1>1, <1>5, RecordTypes
  <2> HIDE DEF i, seconds
  <2> QED BY <1>8, <2>1, ExactDiv
<1>10. opens(p) \in Nat /\ closes(p) \in Nat /\ opens(p) < closes(p)
  BY <1>3, <1>4, <1>5
<1> HIDE DEF i
<1> QED BY <1>1, <1>2, <1>3, <1>7, <1>8, <1>9, <1>10 DEF segment_tick, i

-----------------------------------------------------------------------------
(* The two boundaries of a readable window.                                *)

LEMMA MinIs ==
  ASSUME NEW S \in SUBSET Int, NEW x \in S, \A y \in S : x <= y
  PROVE  Min(S) = x
<1>1. Min(S) \in S /\ \A y \in S : Min(S) <= y
  BY DEF Min
<1>2. Min(S) \in Int /\ x \in Int /\ Min(S) <= x /\ x <= Min(S)
  BY <1>1
<1> QED BY <1>2

(* Some segment is the first to close after an instant, or at it, unless   *)
(* the ring ends before.                                                   *)
LEMMA FirstToClose ==
  RingInv => \A instant \in Nat :
    Entry(0).timestamp <= instant /\ instant < Entry(written - 1).timestamp =>
      \E p \in Segments : /\ opens(p) <= instant /\ instant < closes(p)
                          /\ \A q \in Segments : q < p => closes(q) <= instant
<1> HAVE RingInv
<1> TAKE instant \in Nat
<1> HAVE Entry(0).timestamp <= instant /\ instant < Entry(written - 1).timestamp
<1> DEFINE After == {p \in Segments : instant < closes(p)}
<1>1. written \in Nat \ {0} /\ Segments = 1 .. written - 1
  BY EntriesRead, RecordTypes DEF Segments
<1>2. written - 1 \in After
  <2>1. written # 1
    <3>1. Entry(0).timestamp \in Nat
      BY <1>1, EntriesRead, RecordTypes
    <3> QED BY <3>1
  <2> QED BY <1>1, <2>1 DEF closes
<1>3. PICK p \in After : \A q \in After : p <= q
  <2> After \in SUBSET Nat /\ After # {}
    BY <1>1, <1>2
  <2> HIDE DEF After
  <2> QED BY LeastNatural
<1>4. \A q \in Segments : q < p => closes(q) <= instant
  <2> SUFFICES ASSUME NEW q \in Segments, q < p PROVE closes(q) <= instant
    OBVIOUS
  <2>1. q \in Int /\ p \in Int
    BY <1>1
  <2>2. closes(q) \in Nat
    BY SegmentsRead
  <2>3. q \notin After
    <3> HIDE DEF After
    <3> QED BY <1>3, <2>1
  <2> QED BY <2>2, <2>3
<1>5. opens(p) <= instant
  <2>1. CASE p = 1
    BY <2>1 DEF opens
  <2>2. CASE p # 1
    <3>1. p - 1 \in Segments /\ p - 1 < p
      BY <1>1, <2>2
    <3> QED BY <1>4, <3>1 DEF opens, closes
  <2> QED BY <2>1, <2>2
<1> QED BY <1>3, <1>4, <1>5

LEMMA StartRead ==
  RingInv => \A from, to \in Nat, limits \in Limits : Readable(from, to, limits) =>
    \E p \in Segments : /\ opens(p) <= from /\ from < closes(p)
                        /\ start_boundary(from) = boundary_at(p, from)
<1> HAVE RingInv
<1> TAKE from, to \in Nat, limits \in Limits
<1> HAVE Readable(from, to, limits)
<1>1. Entry(0).timestamp <= from /\ from < Entry(written - 1).timestamp
  <2>1. Entry(written - 1).timestamp \in Int
    BY EntriesRead, RecordTypes
  <2> QED BY <2>1 DEF Readable
<1>2. PICK p \in Segments : /\ opens(p) <= from /\ from < closes(p)
                            /\ \A q \in Segments : q < p => closes(q) <= from
  BY <1>1, FirstToClose
<1>3. Min({q \in Segments : Covers(q, from)}) = p
  <2> DEFINE S == {q \in Segments : Covers(q, from)}
  <2>1. Segments \subseteq Int /\ \A q \in Segments : opens(q) \in Nat /\ closes(q) \in Nat
    BY SegmentsRead DEF Segments
  <2>2. S \in SUBSET Int /\ p \in S
    <3>1. Covers(p, from)
      BY <1>2, <2>1 DEF Covers
    <3> QED BY <2>1, <3>1
  <2>3. \A q \in S : p <= q
    BY <1>2, <2>1 DEF Covers
  <2> HIDE DEF S
  <2>4. Min(S) = p
    BY <2>2, <2>3, MinIs
  <2> QED BY <2>4 DEF S
<1> QED BY <1>2, <1>3 DEF start_boundary

LEMMA EndRead ==
  RingInv => \A from, to \in Nat, limits \in Limits : Readable(from, to, limits) =>
    \E p \in Segments : /\ opens(p) < to /\ to <= closes(p)
                        /\ end_boundary(to) = IF to < closes(p) THEN boundary_at(p, to)
                                                                ELSE boundary_at_newest(p)
<1> HAVE RingInv
<1> TAKE from, to \in Nat, limits \in Limits
<1> HAVE Readable(from, to, limits)
<1>1. to - 1 \in Nat /\ Entry(0).timestamp <= to - 1 /\ to - 1 < Entry(written - 1).timestamp
  <2>1. Entry(written - 1).timestamp \in Int /\ Entry(0).timestamp \in Int
    <3>1. written - 1 \in 0 .. written - 1 /\ 0 \in 0 .. written - 1
      BY EntriesRead, RecordTypes
    <3> QED BY <3>1, EntriesRead, RecordTypes
  <2> QED BY <2>1 DEF Readable
<1>2. PICK p \in Segments : /\ opens(p) <= to - 1 /\ to - 1 < closes(p)
                            /\ \A q \in Segments : q < p => closes(q) <= to - 1
  BY <1>1, FirstToClose
<1>3. Segments \subseteq Int /\ \A q \in Segments : opens(q) \in Nat /\ closes(q) \in Nat
  BY SegmentsRead DEF Segments
<1>4. opens(p) < to /\ to <= closes(p) /\ \A q \in Segments : q < p => closes(q) < to
  BY <1>2, <1>3
<1>5. Min({q \in Segments : Covers(q, to) \/ closes(q) = to}) = p
  <2> DEFINE S == {q \in Segments : Covers(q, to) \/ closes(q) = to}
  <2>1. S \in SUBSET Int /\ p \in S
    <3>1. Covers(p, to) \/ closes(p) = to
      BY <1>3, <1>4 DEF Covers
    <3> QED BY <1>3, <3>1
  <2>2. \A q \in S : p <= q
    BY <1>3, <1>4 DEF Covers
  <2> HIDE DEF S
  <2>3. Min(S) = p
    BY <2>1, <2>2, MinIs
  <2> QED BY <2>3 DEF S
<1>6. Covers(p, to) <=> to < closes(p)
  BY <1>3, <1>4 DEF Covers
<1> QED BY <1>4, <1>5, <1>6 DEF end_boundary

-----------------------------------------------------------------------------
(* The ticks credited to each second, and their sum.                       *)

LEMMA CreditedUntil ==
  credited_until = [instant \in Nat |->
    IF instant = 0 THEN 0 ELSE credited_until[instant - 1] + Credited(instant)]
<1> DEFINE Add(total, instant) == total + Credited(instant)
<1>1. NatInductiveDefHypothesis(credited_until, 0, Add)
  BY DEF NatInductiveDefHypothesis, credited_until
<1>2. NatInductiveDefConclusion(credited_until, 0, Add)
  BY <1>1, NatInductiveDef
<1> QED BY <1>2 DEF NatInductiveDefConclusion

LEMMA CreditedStep ==
  ASSUME NEW instant \in Nat
  PROVE  /\ credited_until[0] = 0
         /\ credited_until[instant + 1] = credited_until[instant] + Credited(instant + 1)
<1>1. credited_until[0] = 0
  BY CreditedUntil
<1>2. instant + 1 \in Nat /\ instant + 1 # 0 /\ (instant + 1) - 1 = instant
  OBVIOUS
<1>3. credited_until[instant + 1] = credited_until[(instant + 1) - 1] + Credited(instant + 1)
  BY <1>2, CreditedUntil
<1> QED BY <1>1, <1>2, <1>3

(* A second within a segment is credited that segment's tick.              *)
LEMMA CreditedInSegment ==
  RingInv => \A p \in Segments, instant \in Nat :
    opens(p) <= instant /\ instant < closes(p) => Credited(instant) = segment_tick(p)
<1> HAVE RingInv
<1> TAKE p \in Segments, instant \in Nat
<1> HAVE opens(p) <= instant /\ instant < closes(p)
<1> DEFINE i == RecordAt(p)
           Closed == {k \in 1 .. Len(log) : log[k].timestamp > instant}
<1>1. /\ i \in 2 .. Len(log) /\ segment_tick(p) = log[i].tick
      /\ log[i - 1].timestamp <= instant /\ instant < log[i].timestamp
  BY SegmentsRead
<1> HIDE DEF i
<1>2. i \in Closed
  BY <1>1, RecordTypes
<1>3. ASSUME NEW k \in Closed PROVE i <= k
  <2> SUFFICES ASSUME k < i PROVE FALSE
    BY <1>1
  <2>1. k \in 1 .. Len(log) /\ i - 1 \in 1 .. Len(log) /\ Len(log) \in Nat /\ k <= i - 1
    BY <1>1, RecordTypes
  <2>2. log[k].timestamp <= log[i - 1].timestamp
    BY <2>1, RecordsOrdered, RecordTypes
  <2>3. log[k].timestamp \in Int /\ log[i - 1].timestamp \in Int
    BY <2>1, RecordTypes
  <2> QED BY <1>1, <2>2, <2>3
<1>4. Min(Closed) = i
  <2> Closed \in SUBSET Int
    OBVIOUS
  <2> HIDE DEF Closed
  <2> QED BY <1>2, <1>3, MinIs
<1> QED BY <1>1, <1>4 DEF Credited

(* Whatever a recorded second is credited is a tick of the pool's.         *)
LEMMA CreditedTick ==
  RingInv => \A instant \in Nat :
    instant < log[Len(log)].timestamp => Credited(instant) \in Ticks
<1> HAVE RingInv
<1> TAKE instant \in Nat
<1> HAVE instant < log[Len(log)].timestamp
<1> DEFINE Closed == {k \in 1 .. Len(log) : log[k].timestamp > instant}
<1>1. Len(log) \in Closed
  BY RecordTypes
<1>2. PICK i \in Closed : \A k \in Closed : i <= k
  <2> Closed \in SUBSET Nat /\ Closed # {}
    BY <1>1
  <2> HIDE DEF Closed
  <2> QED BY LeastNatural
<1>3. Min(Closed) = i
  <2> Closed \in SUBSET Int
    OBVIOUS
  <2> HIDE DEF Closed
  <2> QED BY <1>2, MinIs
<1> QED BY <1>2, <1>3, RecordTypes DEF Credited

(* So the sums are integers, and over a stretch of seconds they change by  *)
(* at most as much as a cumulative can hold.                               *)
LEMMA CreditedInt ==
  RingInv => \A instant \in 0 .. log[Len(log)].timestamp - 1 : credited_until[instant] \in Int
<1> HAVE RingInv
<1> DEFINE last == log[Len(log)].timestamp - 1
           S == {instant \in Nat : instant <= last => credited_until[instant] \in Int}
<1>1. last \in Nat
  BY RecordTypes
<1>2. 0 \in S
  BY CreditedUntil
<1>3. ASSUME NEW instant \in 0 .. last - 1, instant \in S
      PROVE  instant + 1 \in S
  <2>1. instant \in Nat /\ instant + 1 \in Nat /\ instant + 1 <= last /\ instant <= last
    BY <1>1, <1>3
  <2>2. Credited(instant + 1) \in Int
    BY <1>1, <2>1, CreditedTick, RecordTypes
  <2>3. credited_until[instant] \in Int
    BY <1>3, <2>1
  <2>4. credited_until[instant + 1] \in Int
    <3> HIDE DEF S, last
    <3> QED BY <2>1, <2>2, <2>3, CreditedStep
  <2> QED BY <2>1, <2>4
<1>4. 0 .. last \subseteq S
  <2> HIDE DEF S, last
  <2> QED BY <1>1, <1>2, <1>3, IntervalInduction
<1> QED BY <1>1, <1>4

LEMMA CreditedBound ==
  RingInv =>
    \A from \in 1 .. MaxTime, to \in 1 .. MaxTime : from < to /\ to <= log[Len(log)].timestamp =>
      credited_until[to - 1] - credited_until[from - 1] \in Cumulative
<1> HAVE RingInv
<1> TAKE from \in 1 .. MaxTime, to \in 1 .. MaxTime
<1> HAVE from < to /\ to <= log[Len(log)].timestamp
<1> DEFINE before == credited_until[from - 1]
           Sum(t) == credited_until[t] - before
           S == {t \in Nat : /\ -((t - (from - 1)) * CumulativeSpan) <= Sum(t) * MaxTime
                             /\ Sum(t) * MaxTime <= (t - (from - 1)) * (CumulativeSpan - 1)}
<1>1. /\ log[Len(log)].timestamp \in Nat /\ from - 1 \in Nat /\ to - 1 \in Nat
      /\ MaxTime \in Nat \ {0} /\ CumulativeSpan \in Nat \ {0}
      /\ \A t \in from - 1 .. to - 1 : t \in Nat /\ credited_until[t] \in Int
  BY RecordTypes, CreditedInt, RingConstants
<1>2. from - 1 \in S
  BY <1>1
<1>3. ASSUME NEW t \in from - 1 .. (to - 1) - 1, t \in S
      PROVE  t + 1 \in S
  <2> DEFINE c == Credited(t + 1)
             s == Sum(t)
             d == t - (from - 1)
  <2>1. t \in Nat /\ t + 1 \in Nat /\ t + 1 < log[Len(log)].timestamp /\ t \in from - 1 .. to - 1
    BY <1>1
  <2>2. c \in Int /\ -CumulativeSpan <= c * MaxTime /\ c * MaxTime <= CumulativeSpan - 1
    <3>1. c \in Ticks
      BY <2>1, CreditedTick
    <3> HIDE DEF c
    <3> QED BY <3>1, RecordTypes, RingConstants
  <2>3. s \in Int /\ d \in Nat
    BY <1>1, <2>1
  <2>4. Sum(t + 1) = s + c /\ (t + 1) - (from - 1) = d + 1
    <3>1. credited_until[t + 1] = credited_until[t] + c
      BY <2>1, CreditedStep
    <3> HIDE DEF c
    <3> QED BY <1>1, <2>1, <2>2, <3>1
  <2>5. -(d * CumulativeSpan) <= s * MaxTime /\ s * MaxTime <= d * (CumulativeSpan - 1)
    BY <1>3
  <2> HIDE DEF c, s, d
  <2>6. (s + c) * MaxTime = s * MaxTime + c * MaxTime
    BY <1>1, <2>2, <2>3
  <2>7. /\ (d + 1) * CumulativeSpan = d * CumulativeSpan + CumulativeSpan
        /\ (d + 1) * (CumulativeSpan - 1) = d * (CumulativeSpan - 1) + (CumulativeSpan - 1)
    BY <1>1, <2>3
  <2>8. -((d + 1) * CumulativeSpan) <= (s + c) * MaxTime
        /\ (s + c) * MaxTime <= (d + 1) * (CumulativeSpan - 1)
    BY <1>1, <2>2, <2>3, <2>5, <2>6, <2>7
  <2> HIDE DEF Sum
  <2> QED BY <2>1, <2>4, <2>8
<1>4. to - 1 \in S
  <2>1. from - 1 .. to - 1 \subseteq S
    <3> HIDE DEF S
    <3>1. from - 1 \in Int /\ to - 1 \in Int
      BY <1>1
    <3>2. \A t \in from - 1 .. (to - 1) - 1 : t \in S => t + 1 \in S
      BY <1>3
    <3> DEFINE first == from - 1
               last == to - 1
    <3> HIDE DEF first, last
    <3>3. first \in Int /\ last \in Int /\ first \in S
          /\ \A t \in first .. last - 1 : t \in S => t + 1 \in S
      BY <1>2, <3>1, <3>2 DEF first, last
    <3>4. first .. last \subseteq S
      BY <3>3, IntervalInduction
    <3> QED BY <3>4 DEF first, last
  <2> HIDE DEF S
  <2> QED BY <1>1, <2>1
<1> DEFINE total == Sum(to - 1)
           m == (to - 1) - (from - 1)
<1>5. total \in Int /\ m \in 0 .. MaxTime
  BY <1>1
<1>6. -(m * CumulativeSpan) <= total * MaxTime /\ total * MaxTime <= m * (CumulativeSpan - 1)
  BY <1>4
<1>7. total \in Cumulative
  <2> HIDE DEF total, m
  <2>1. m * CumulativeSpan <= MaxTime * CumulativeSpan
        /\ m * (CumulativeSpan - 1) <= MaxTime * (CumulativeSpan - 1)
    BY <1>1, <1>5
  <2>2. -(MaxTime * CumulativeSpan) <= total * MaxTime /\ total * MaxTime <= MaxTime * (CumulativeSpan - 1)
    BY <1>1, <1>5, <1>6, <2>1
  <2>3. -CumulativeSpan <= total /\ total <= CumulativeSpan - 1
    BY <1>1, <1>5, <2>2
  <2> QED BY <1>1, <1>5, <2>3 DEF Cumulative
<1> QED BY <1>7

(* Within a segment the sum grows by its tick every second.                *)
LEMMA SegmentSum ==
  RingInv => \A p \in Segments, instant \in Nat :
    opens(p) <= instant /\ instant <= closes(p) =>
      /\ credited_until[instant - 1] \in Int
      /\ credited_until[instant - 1] =
           credited_until[opens(p) - 1] + segment_tick(p) * (instant - opens(p))
<1> HAVE RingInv
<1> TAKE p \in Segments, instant \in Nat
<1> HAVE opens(p) <= instant /\ instant <= closes(p)
<1> DEFINE o == opens(p)
           c == closes(p)
           step == segment_tick(p)
           S == {t \in Nat : credited_until[t - 1] = credited_until[o - 1] + step * (t - o)}
<1>1. o \in 1 .. MaxTime /\ c \in 1 .. MaxTime /\ MaxTime \in Nat /\ step \in Int
      /\ c <= log[Len(log)].timestamp
  <2>1. RecordAt(p) \in 2 .. Len(log) /\ Len(log) \in Nat
    BY SegmentsRead, RecordTypes
  <2>2. RecordAt(p) = Len(log) \/ RecordAt(p) < Len(log)
    BY <2>1
  <2>3. /\ o = log[RecordAt(p) - 1].timestamp /\ c = log[RecordAt(p)].timestamp
        /\ step = log[RecordAt(p)].tick
    BY SegmentsRead
  <2>4. c \in 1 .. MaxTime /\ step \in Int /\ o \in 1 .. MaxTime /\ log[Len(log)].timestamp \in 1 .. MaxTime
    BY <2>1, <2>3, RecordTypes, SMTT(40)
  <2>5. c <= log[Len(log)].timestamp
    BY <2>1, <2>2, <2>3, <2>4, RecordsOrdered, RecordTypes, SMTT(40)
  <2> QED BY <2>4, <2>5, RecordTypes
<1>2. \A t \in o .. c : t \in Nat /\ t - 1 \in Nat /\ credited_until[t - 1] \in Int
  <2> HIDE DEF o, c
  <2> QED BY <1>1, CreditedInt, RecordTypes
<1>3. \A t \in o .. c - 1 : Credited(t) = step
  BY <1>1, CreditedInSegment
<1>4. o <= instant /\ instant <= c
  OBVIOUS
<1> HIDE DEF o, c, step
<1>5. o \in S
  BY <1>1, <1>2, <1>4
<1>6. ASSUME NEW t \in o .. c - 1, t \in S
      PROVE  t + 1 \in S
  <2>1. t - 1 \in Nat /\ (t - 1) + 1 = t /\ (t + 1) - 1 = t /\ t + 1 \in Nat
        /\ credited_until[t - 1] \in Int /\ credited_until[o - 1] \in Int
    BY <1>1, <1>2, <1>4
  <2>2. credited_until[t] = credited_until[t - 1] + step
    BY <1>1, <1>3, <2>1, CreditedStep
  <2>3. credited_until[t - 1] = credited_until[o - 1] + step * (t - o)
    BY <1>6
  <2>4. step * ((t + 1) - o) = step * (t - o) + step
    BY <1>1, <2>1
  <2>5. credited_until[t] = credited_until[o - 1] + step * ((t + 1) - o)
    BY <1>1, <2>1, <2>2, <2>3, <2>4
  <2> QED BY <2>1, <2>5
<1>7. o .. c \subseteq S
  <2> HIDE DEF S
  <2>1. o \in Int /\ c \in Int
    BY <1>1
  <2> QED BY <1>5, <1>6, <2>1, IntervalInduction
<1>8. instant \in S /\ instant \in o .. c
  BY <1>1, <1>4, <1>7
<1> QED BY <1>2, <1>8 DEF o, step

(* The cumulative of every record still in the ring is a sum of credited   *)
(* ticks, counted from one common origin and wrapped.                      *)
LEMMA CumulativesAgree ==
  RingInv => \E origin \in Int : \A p \in 0 .. written - 1 :
    Entry(p).cumulative = Wrapping(origin + credited_until[Entry(p).timestamp - 1])
<1> HAVE RingInv
<1> DEFINE sum(p) == credited_until[Entry(p).timestamp - 1]
           origin == Entry(0).cumulative - sum(0)
           S == {p \in Int : Entry(p).cumulative = Wrapping(origin + sum(p))}
<1>1. /\ written \in Nat \ {0} /\ Segments = 1 .. written - 1
      /\ \A p \in 0 .. written - 1 : /\ Entry(p).cumulative \in Cumulative
                                     /\ Entry(p).cumulative \in Int /\ sum(p) \in Int
  <2>1. written \in Nat \ {0} /\ Segments = 1 .. written - 1
    BY EntriesRead, RecordTypes DEF Segments
  <2>2. ASSUME NEW p \in 0 .. written - 1 PROVE sum(p) \in Int
    <3>1. RecordAt(p) \in 1 .. Len(log) /\ Entry(p).timestamp = log[RecordAt(p)].timestamp
      BY RingLaidOut, EntriesRead
    <3>2. RecordAt(p) = Len(log) \/ RecordAt(p) < Len(log)
      BY <3>1, RecordTypes
    <3>3. log[RecordAt(p)].timestamp <= log[Len(log)].timestamp
      <4>1. CASE RecordAt(p) = Len(log)
        BY <4>1, RecordTypes
      <4>2. CASE RecordAt(p) < Len(log)
        <5>1. Len(log) \in 1 .. Len(log)
          BY RecordTypes
        <5>2. log[RecordAt(p)].timestamp < log[Len(log)].timestamp
          BY <3>1, <4>2, <5>1, RecordsOrdered
        <5> QED BY <3>1, <5>1, <5>2, RecordTypes
      <4> QED BY <3>2, <4>1, <4>2
    <3>4. Entry(p).timestamp - 1 \in 0 .. log[Len(log)].timestamp - 1
      BY <3>1, <3>3, RecordTypes
    <3> QED BY <3>4, CreditedInt
  <2> QED BY <2>1, <2>2, EntriesRead, RecordTypes
<1>2. origin \in Int /\ 0 \in 0 .. written - 1
  BY <1>1
<1>3. 0 \in S
  <2>1. origin + sum(0) = Entry(0).cumulative
    BY <1>1, <1>2
  <2> QED BY <1>1, <1>2, <2>1, WrappingSmall
<1>4. ASSUME NEW q \in 0 .. (written - 1) - 1, q \in S
      PROVE  q + 1 \in S
  <2> DEFINE p == q + 1
             a == origin + sum(q)
             d == delta(p)
  <2>1. p \in Segments /\ p - 1 = q /\ q \in 0 .. written - 1 /\ p \in 0 .. written - 1
    BY <1>1
  <2>2. Entry(p).cumulative = Wrapping(Entry(q).cumulative + d)
    BY <2>1, SegmentsRead
  <2>3. Entry(q).cumulative = Wrapping(a)
    BY <1>4
  <2>4. sum(p) = sum(q) + d /\ d \in Int
    <3>1. opens(p) = Entry(q).timestamp /\ closes(p) = Entry(p).timestamp
      BY <2>1 DEF opens, closes
    <3>2. /\ opens(p) \in Nat /\ closes(p) \in Nat /\ opens(p) < closes(p)
          /\ d = segment_tick(p) * (closes(p) - opens(p)) /\ segment_tick(p) \in Int
      <4>1. RecordAt(p) \in 1 .. Len(log) /\ segment_tick(p) = log[RecordAt(p)].tick
        BY <2>1, SegmentsRead
      <4>2. segment_tick(p) \in Int
        BY <4>1, RecordTypes
      <4> QED BY <2>1, <4>1, <4>2, SegmentsRead
    <3>3. credited_until[closes(p) - 1] =
            credited_until[opens(p) - 1] + segment_tick(p) * (closes(p) - opens(p))
      BY <2>1, <3>2, SegmentSum
    <3> QED BY <3>1, <3>2, <3>3
  <2>5. a \in Int /\ sum(q) \in Int /\ origin + sum(p) = a + d
    <3>1. sum(q) \in Int
      BY <1>1, <2>1
    <3> HIDE DEF origin, sum, d
    <3> QED BY <1>2, <2>4, <3>1
  <2> HIDE DEF a, d, sum, origin
  <2>6. Wrapping(Wrapping(a) + d) = Wrapping(a + d)
    BY <2>4, <2>5, WrappingAdd
  <2> QED BY <2>1, <2>2, <2>3, <2>5, <2>6
<1>5. 0 .. written - 1 \subseteq S
  <2>1. 0 \in Int /\ written - 1 \in Int
    BY <1>1
  <2> HIDE DEF S
  <2> QED BY <1>3, <1>4, <2>1, IntervalInduction
<1> HIDE DEF origin
<1> QED BY <1>2, <1>5

(* So is what the reader interpolates, at any second.                      *)
LEMMA InterpolatedSum ==
  RingInv => \E origin \in Int :
    \A p \in Segments, instant \in Nat : opens(p) <= instant /\ instant <= closes(p) =>
      /\ boundary_at(p, instant).interpolated = Wrapping(origin + credited_until[instant - 1])
      /\ instant = closes(p) => boundary_at_newest(p).interpolated =
                                  Wrapping(origin + credited_until[instant - 1])
<1> HAVE RingInv
<1>1. PICK origin \in Int : \A p \in 0 .. written - 1 :
        Entry(p).cumulative = Wrapping(origin + credited_until[Entry(p).timestamp - 1])
  BY CumulativesAgree
<1> WITNESS origin \in Int
<1> TAKE p \in Segments, instant \in Nat
<1> HAVE opens(p) <= instant /\ instant <= closes(p)
<1>2. p \in 0 .. written - 1 /\ p - 1 \in 0 .. written - 1
  BY EntriesRead, RecordTypes DEF Segments
<1> DEFINE a == origin + credited_until[opens(p) - 1]
           d == segment_tick(p) * (instant - opens(p))
<1>3. /\ credited_until[opens(p) - 1] \in Int
      /\ credited_until[instant - 1] = credited_until[opens(p) - 1] + d
      /\ d \in Int
  <2>1. opens(p) \in Nat /\ segment_tick(p) \in Int /\ opens(p) <= opens(p) /\ opens(p) <= closes(p)
    BY SegmentsRead, RecordTypes
  <2> QED BY <2>1, SegmentSum
<1>4. Entry(p - 1).cumulative = Wrapping(a)
  BY <1>1, <1>2 DEF opens
<1>5. Wrapping(Wrapping(a) + d) = Wrapping(origin + credited_until[instant - 1])
  <2>1. a \in Int /\ origin + credited_until[instant - 1] = a + d
    <3> HIDE DEF d
    <3> QED BY <1>3
  <2> HIDE DEF a, d
  <2> QED BY <1>3, <2>1, WrappingAdd
<1>6. boundary_at(p, instant).interpolated = Wrapping(origin + credited_until[instant - 1])
  BY <1>4, <1>5 DEF boundary_at
<1>7. instant = closes(p) => boundary_at_newest(p).interpolated =
                               Wrapping(origin + credited_until[instant - 1])
  BY <1>1, <1>2 DEF boundary_at_newest, closes
<1> QED BY <1>6, <1>7

LEMMA AverageRead == RingInv => AverageExact
<1> HAVE RingInv
<1> SUFFICES ASSUME NEW from \in 1 .. MaxTime, NEW to \in 1 .. MaxTime, from < to,
                    NEW limits \in Limits, Readable(from, to, limits)
             PROVE  LET total   == credited_until[to - 1] - credited_until[from - 1]
                        seconds == to - from
                        average == average_tick(from, to)
                    IN  average * seconds <= total /\ total < (average + 1) * seconds
  BY DEF AverageExact, Windows
<1> DEFINE total   == credited_until[to - 1] - credited_until[from - 1]
           seconds == to - from
<1>1. from \in Nat /\ to \in Nat /\ seconds \in Nat \ {0}
  BY RecordTypes
<1>2. PICK origin \in Int :
        \A p \in Segments, instant \in Nat : opens(p) <= instant /\ instant <= closes(p) =>
          /\ boundary_at(p, instant).interpolated = Wrapping(origin + credited_until[instant - 1])
          /\ instant = closes(p) => boundary_at_newest(p).interpolated =
                                      Wrapping(origin + credited_until[instant - 1])
  BY InterpolatedSum
<1>3. PICK p \in Segments : /\ opens(p) <= from /\ from < closes(p)
                            /\ start_boundary(from) = boundary_at(p, from)
  BY <1>1, StartRead
<1>4. PICK q \in Segments : /\ opens(q) < to /\ to <= closes(q)
                            /\ end_boundary(to) = IF to < closes(q) THEN boundary_at(q, to)
                                                                    ELSE boundary_at_newest(q)
  BY <1>1, EndRead
<1>5. /\ opens(p) \in Nat /\ closes(p) \in Nat /\ opens(q) \in Nat /\ closes(q) \in Nat
      /\ from <= closes(p) /\ opens(q) <= to /\ (to < closes(q) \/ to = closes(q))
  BY <1>1, <1>3, <1>4, SegmentsRead
<1>6. /\ start_boundary(from).interpolated = Wrapping(origin + credited_until[from - 1])
      /\ end_boundary(to).interpolated = Wrapping(origin + credited_until[to - 1])
  BY <1>1, <1>2, <1>3, <1>4, <1>5
<1>7. to <= log[Len(log)].timestamp
  <2>1. Entry(written - 1).timestamp = log[Len(log)].timestamp
    BY EntriesRead, RecordTypes, SMTT(40)
  <2> QED BY <2>1 DEF Readable
<1>8. total \in Cumulative /\ total \in Int
  BY <1>7, CreditedBound, RecordTypes
<1>9. credited_until[from - 1] \in Int /\ credited_until[to - 1] \in Int
  <2>1. /\ from - 1 \in 0 .. log[Len(log)].timestamp - 1
        /\ to - 1 \in 0 .. log[Len(log)].timestamp - 1
    BY <1>1, <1>7, RecordTypes
  <2> QED BY <2>1, CreditedInt
<1>10. Wrapping(end_boundary(to).interpolated - start_boundary(from).interpolated) = total
  <2> DEFINE a == origin + credited_until[to - 1]
             b == origin + credited_until[from - 1]
  <2>1. a \in Int /\ b \in Int /\ a - b = total
    BY <1>9
  <2> HIDE DEF a, b, total
  <2>2. Wrapping(Wrapping(a) - Wrapping(b)) = Wrapping(a - b)
    BY <2>1, WrappingDifference
  <2> QED BY <1>6, <1>8, <2>1, <2>2, WrappingSmall DEF a, b
<1>11. average_tick(from, to) = total \div seconds
  BY <1>10 DEF average_tick, floor_div
<1> HIDE DEF total, seconds
<1>12. (total \div seconds) * seconds <= total /\ total < (total \div seconds + 1) * seconds
  BY <1>1, <1>8, FloorDiv
<1> QED BY <1>11, <1>12 DEF total, seconds

(* An average that is given is the mean, rounded down, of the ticks the    *)
(* records credit to the seconds of its window: for every ring size and    *)
(* every history of swaps, overwritten and wrapped as often as it likes    *)
(* (raydium_twap).                                                         *)
THEOREM AveragesThePath == Spec => []AverageExact
  BY RingInvariant, AverageRead, PTL

-----------------------------------------------------------------------------
(* What a step can change of what is read.                                 *)

LEMMA StepExtends ==
  RingInv /\ [Next]_vars =>
    /\ Len(log) \in Nat \ {0} /\ Len(log') \in {Len(log), Len(log) + 1}
    /\ \A i \in 1 .. Len(log) : log'[i] = log[i]
    /\ \A i \in 1 .. Len(log) : Retained(i)' => slots'[SlotFor(i)] = slots[SlotFor(i)]
    /\ Len(log') = Len(log) => log' = log
    /\ Len(log') = Len(log) + 1 => /\ log'[Len(log')].timestamp = now
                                   /\ log[Len(log)].timestamp < now
<1> HAVE RingInv /\ [Next]_vars
<1>1. CASE UNCHANGED <<slots, newest, log>>
  BY <1>1, RecordTypes
<1>2. ASSUME NEW next_tick \in Ticks, Recorded(next_tick)
      PROVE  /\ Len(log) \in Nat \ {0} /\ Len(log') = Len(log) + 1
             /\ \A i \in 1 .. Len(log) : log'[i] = log[i]
             /\ \A i \in 1 .. Len(log) : Retained(i)' => slots'[SlotFor(i)] = slots[SlotFor(i)]
             /\ log'[Len(log')].timestamp = now /\ log[Len(log)].timestamp < now
  <2>1. /\ Len(log) \in Nat \ {0} /\ Len(log') = Len(log) + 1
        /\ \A i \in 1 .. Len(log) : log'[i] = log[i]
        /\ log'[Len(log')].timestamp = now
    BY <1>2, AppendedLog
  <2>2. \A i \in 1 .. Len(log) : Retained(i)' => slots'[SlotFor(i)] = slots[SlotFor(i)]
    <3>1. \A i \in 1 .. Len(log) : Retained(i)' => SlotFor(i) \in Slot /\ SlotFor(i) # SlotFor(Len(log) + 1)
      BY <1>2, RetainedElsewhere
    <3>2. slots \in [Slot -> [timestamp : Nat, cumulative : Cumulative]]
      BY RecordTypes
    <3> QED BY <1>2, <3>1, <3>2 DEF Recorded
  <2>3. log[Len(log)].timestamp \in Nat /\ now \in Nat
    BY <2>1, RecordTypes
  <2>4. log[Len(log)].timestamp < now
    BY <1>2, <2>3, RingConstants DEF Recorded
  <2> QED BY <2>1, <2>2, <2>4
<1>3. ASSUME NEW next_tick \in Ticks, Swap(next_tick)
      PROVE  Recorded(next_tick) \/ UNCHANGED <<slots, newest, log>>
  BY <1>3, SwapCases
<1>4. \/ UNCHANGED <<slots, newest, log>>
      \/ \E next_tick \in Ticks : Recorded(next_tick)
  BY <1>3 DEF Next, Tick, vars
<1> QED BY <1>1, <1>2, <1>4

(* A boundary, told by the record that closes its segment.                 *)
BoundaryIn(i, instant) ==
  [index |-> SlotFor(i - 1), next_index |-> SlotFor(i),
   observed_at |-> log[i - 1].timestamp, next_observed_at |-> log[i].timestamp,
   interpolated |-> Wrapping(slots[SlotFor(i - 1)].cumulative
                               + log[i].tick * (instant - log[i - 1].timestamp))]
BoundaryAfter(i) ==
  [index |-> SlotFor(i), next_index |-> SlotFor(i),
   observed_at |-> log[i].timestamp, next_observed_at |-> log[i].timestamp,
   interpolated |-> slots[SlotFor(i)].cumulative]

StartsIn(i, from) ==
  /\ log[i - 1].timestamp <= from /\ from < log[i].timestamp
  /\ start_boundary(from) = BoundaryIn(i, from)
EndsIn(i, to) ==
  /\ log[i - 1].timestamp < to /\ to <= log[i].timestamp
  /\ end_boundary(to) = IF to < log[i].timestamp THEN BoundaryIn(i, to) ELSE BoundaryAfter(i)

LEMMA BoundariesByRecord ==
  RingInv => \A from, to \in Nat, limits \in Limits : Readable(from, to, limits) =>
    /\ \E i \in 2 .. Len(log) : Retained(i - 1) /\ StartsIn(i, from)
    /\ \E i \in 2 .. Len(log) : Retained(i - 1) /\ EndsIn(i, to)
<1> HAVE RingInv
<1> TAKE from, to \in Nat, limits \in Limits
<1> HAVE Readable(from, to, limits)
<1>1. ASSUME NEW p \in Segments, NEW instant \in Nat
      PROVE  /\ boundary_at(p, instant) = BoundaryIn(RecordAt(p), instant)
             /\ boundary_at_newest(p) = BoundaryAfter(RecordAt(p))
  <2>1. /\ p \in 0 .. written - 1 /\ p - 1 \in 0 .. written - 1
        /\ RecordAt(p) - 1 = RecordAt(p - 1)
    BY SegmentsRead, EntriesRead, RecordTypes, SMTT(40) DEF Segments
  <2>2. /\ SlotOf(p) = SlotFor(RecordAt(p)) /\ SlotOf(p - 1) = SlotFor(RecordAt(p) - 1)
        /\ Entry(p) = slots[SlotFor(RecordAt(p))]
        /\ Entry(p - 1) = slots[SlotFor(RecordAt(p) - 1)]
    BY <2>1, RingLaidOut, EntriesRead
  <2> QED BY <2>2, SegmentsRead DEF boundary_at, boundary_at_newest, BoundaryIn, BoundaryAfter
<1>2. PICK p \in Segments : /\ opens(p) <= from /\ from < closes(p)
                            /\ start_boundary(from) = boundary_at(p, from)
  BY StartRead
<1>3. PICK q \in Segments : /\ opens(q) < to /\ to <= closes(q)
                            /\ end_boundary(to) = IF to < closes(q) THEN boundary_at(q, to)
                                                                    ELSE boundary_at_newest(q)
  BY EndRead
<1>4. StartsIn(RecordAt(p), from) /\ EndsIn(RecordAt(q), to)
  BY <1>1, <1>2, <1>3, SegmentsRead DEF StartsIn, EndsIn
<1> QED BY <1>4, SegmentsRead

LEMMA ReadingKept ==
  RingInv /\ RingInv' /\ [Next]_vars =>
    \A from, to \in Nat, limits \in Limits :
      Readable(from, to, limits) /\ Readable(from, to, limits)' =>
        start_boundary(from)' = start_boundary(from) /\ end_boundary(to)' = end_boundary(to)
<1>1. (RingInv => \A from, to \in Nat, limits \in Limits : Readable(from, to, limits) =>
         /\ \E i \in 2 .. Len(log) : Retained(i - 1) /\ StartsIn(i, from)
         /\ \E i \in 2 .. Len(log) : Retained(i - 1) /\ EndsIn(i, to))'
  BY BoundariesByRecord, PTL
<1>2. (RingInv => /\ \A a \in 1 .. Len(log) : log[a].timestamp \in 1 .. MaxTime
                  /\ \A a, b \in 1 .. Len(log) : a < b => log[a].timestamp < log[b].timestamp)'
  <2>1. RingInv => /\ \A a \in 1 .. Len(log) : log[a].timestamp \in 1 .. MaxTime
                   /\ \A a, b \in 1 .. Len(log) : a < b => log[a].timestamp < log[b].timestamp
    BY RecordTypes, RecordsOrdered
  <2> QED BY <2>1, PTL
<1> SUFFICES ASSUME RingInv, RingInv', [Next]_vars, NEW from \in Nat, NEW to \in Nat, NEW limits \in Limits,
                    Readable(from, to, limits), Readable(from, to, limits)'
             PROVE  start_boundary(from)' = start_boundary(from) /\ end_boundary(to)' = end_boundary(to)
  OBVIOUS
<1> DEFINE n == Len(log)
<1>3. /\ n \in Nat \ {0} /\ Len(log') \in {n, n + 1}
      /\ \A i \in 1 .. n : log'[i] = log[i]
      /\ \A i \in 1 .. n : Retained(i)' => slots'[SlotFor(i)] = slots[SlotFor(i)]
  BY StepExtends
<1>4. /\ \A a \in 2 .. n : a \in 1 .. n /\ a - 1 \in 1 .. n
      /\ \A a \in 1 .. n : a \in 1 .. Len(log')
      /\ \A a \in 2 .. Len(log') : a \in 1 .. Len(log') /\ a - 1 \in 1 .. Len(log')
  BY <1>3
<1>5. PICK i \in 2 .. n : StartsIn(i, from)
  BY BoundariesByRecord
<1>6. PICK j \in 2 .. n : EndsIn(j, to)
  BY BoundariesByRecord
<1>7. PICK k \in 2 .. Len(log') : Retained(k - 1)' /\ StartsIn(k, from)'
  BY <1>1
<1>8. PICK m \in 2 .. Len(log') : Retained(m - 1)' /\ EndsIn(m, to)'
  BY <1>1
<1> DEFINE at(a) == log'[a].timestamp
<1>9. /\ at(i - 1) <= from /\ from < at(i)
      /\ at(j - 1) < to /\ to <= at(j)
  BY <1>3, <1>4, <1>5, <1>6 DEF StartsIn, EndsIn
<1>10. /\ at(k - 1) <= from /\ from < at(k)
       /\ at(m - 1) < to /\ to <= at(m)
  BY <1>7, <1>8 DEF StartsIn, EndsIn
<1>11. /\ \A a \in 1 .. Len(log') : at(a) \in Int
       /\ \A a, b \in 1 .. Len(log') : a < b => at(a) < at(b)
  BY <1>2, SMTT(40)
<1>12. k = i /\ m = j
  <2> HIDE DEF at
  <2>1. ASSUME NEW a \in 2 .. Len(log'), NEW b \in 2 .. Len(log'), a < b
        PROVE  at(a) <= at(b - 1)
    <3> DEFINE c == b - 1
    <3>1. a \in 1 .. Len(log') /\ c \in 1 .. Len(log') /\ (a = c \/ a < c)
      BY <1>4, <2>1
    <3> HIDE DEF c
    <3>2. at(a) \in Int /\ at(c) \in Int /\ (at(a) = at(c) \/ at(a) < at(c))
      BY <1>11, <3>1
    <3>3. at(a) <= at(c)
      BY <3>2
    <3> QED BY <3>3 DEF c
  <2>2. /\ i \in 2 .. Len(log') /\ j \in 2 .. Len(log') /\ k \in 2 .. Len(log') /\ m \in 2 .. Len(log')
        /\ i \in Int /\ j \in Int /\ k \in Int /\ m \in Int
    BY <1>3, <1>5, <1>6, <1>7, <1>8
  <2>3. /\ at(i) \in Int /\ at(i - 1) \in Int /\ at(j) \in Int /\ at(j - 1) \in Int
        /\ at(k) \in Int /\ at(k - 1) \in Int /\ at(m) \in Int /\ at(m - 1) \in Int
    BY <1>4, <1>11, <2>2
  <2>4. ~(k < i) /\ ~(i < k) /\ ~(m < j) /\ ~(j < m)
    <3>1. /\ k < i => at(k) <= at(i - 1)
          /\ i < k => at(i) <= at(k - 1)
          /\ m < j => at(m) <= at(j - 1)
          /\ j < m => at(j) <= at(m - 1)
      BY <2>1, <2>2
    <3>0. from \in Int /\ to \in Int
      OBVIOUS
    <3>2. ~(at(k) <= at(i - 1))
      BY <1>9, <1>10, <2>3, <3>0, KeptApart, Zenon
    <3>3. ~(at(i) <= at(k - 1))
      BY <1>9, <1>10, <2>3, <3>0, KeptApart, Zenon
    <3>4. ~(at(m) <= at(j - 1))
      BY <1>9, <1>10, <2>3, <3>0, KeptApart, Zenon
    <3>5. ~(at(j) <= at(m - 1))
      BY <1>9, <1>10, <2>3, <3>0, KeptApart, Zenon
    <3> QED BY <3>1, <3>2, <3>3, <3>4, <3>5, Zenon
  <2> QED BY <2>2, <2>4
<1>13. ASSUME NEW a \in 2 .. n, Retained(a - 1)', NEW instant \in Nat
       PROVE  /\ log'[a] = log[a] /\ log'[a - 1] = log[a - 1]
              /\ BoundaryIn(a, instant)' = BoundaryIn(a, instant)
              /\ BoundaryAfter(a)' = BoundaryAfter(a)
  <2>1. a \in 1 .. n /\ a - 1 \in 1 .. n
    BY <1>4
  <2>2. Retained(a)'
    BY <1>3, <1>13, RingConstants DEF Retained
  <2>3. /\ log'[a] = log[a] /\ log'[a - 1] = log[a - 1]
        /\ slots'[SlotFor(a)] = slots[SlotFor(a)] /\ slots'[SlotFor(a - 1)] = slots[SlotFor(a - 1)]
    BY <1>3, <1>13, <2>1, <2>2
  <2> QED BY <2>3 DEF BoundaryIn, BoundaryAfter, SlotFor
<1> QED BY <1>5, <1>6, <1>7, <1>8, <1>12, <1>13 DEF StartsIn, EndsIn

(* Whoever takes a snapshot, and whenever: what raydium_twap reads of a    *)
(* window does not change while the window can be read.                    *)
THEOREM SnapshotsAgree == Spec => ReadingStable
<1>1. RingInv /\ RingInv' /\ [Next]_vars =>
        \A w \in Windows, l \in Limits :
          Readable(w[1], w[2], l) /\ Readable(w[1], w[2], l)' =>
            /\ start_boundary(w[1])' = start_boundary(w[1])
            /\ end_boundary(w[2])' = end_boundary(w[2])
  BY ReadingKept, RingConstants DEF Windows
<1> QED BY <1>1, RingInvariant, PTL DEF Spec, ReadingStable

-----------------------------------------------------------------------------
(* Whether a window can be read, told by the records alone.                *)

ReadableByRecords(from, to, limits) ==
  /\ from < to /\ written >= 2
  /\ log[RecordAt(0)].timestamp <= from /\ to <= log[Len(log)].timestamp
  /\ \A i \in RecordAt(0) + 1 .. Len(log) :
       Earlier(log[i].timestamp, to) - Later(log[i - 1].timestamp, from) <= limits.max_segment
  /\ Cardinality({i \in RecordAt(0) + 1 .. Len(log) : log[i].timestamp \in from .. to - 1})
       >= limits.min_observations

LEMMA ReadableIs ==
  RingInv => \A from, to \in Nat, limits \in Limits :
    Readable(from, to, limits) <=> ReadableByRecords(from, to, limits)
<1> SUFFICES ASSUME RingInv, NEW from \in Nat, NEW to \in Nat, NEW limits \in Limits
             PROVE  Readable(from, to, limits) <=> ReadableByRecords(from, to, limits)
  OBVIOUS
<1>1. /\ written \in 1 .. Len(log) /\ Len(log) \in Nat /\ written \in Nat
      /\ RecordAt(0) \in Int /\ RecordAt(0) + written - 1 = Len(log)
      /\ \A p \in Int : RecordAt(p) = RecordAt(0) + p
  BY EntriesRead, RecordTypes DEF RecordAt
<1>2. /\ \A p \in 0 .. written - 1 : Entry(p).timestamp = log[RecordAt(p)].timestamp
                                     /\ Entry(p).timestamp \in 1 .. MaxTime
      /\ RecordAt(written - 1) = Len(log)
  BY EntriesRead
<1>3. /\ 0 \in 0 .. written - 1 /\ written - 1 \in 0 .. written - 1
      /\ \A p \in 0 .. written - 1 : Entry(p).timestamp # 0
  <2>1. written \in Nat \ {0}
    BY <1>1
  <2>2. ASSUME NEW p \in 0 .. written - 1 PROVE Entry(p).timestamp # 0
    BY <1>2
  <2> QED BY <2>1, <2>2
<1>4. \A p \in Segments :
        /\ opens(p) = log[RecordAt(p) - 1].timestamp /\ closes(p) = log[RecordAt(p)].timestamp
        /\ opens(p) < closes(p) /\ delta(p) % (closes(p) - opens(p)) = 0
        /\ segment_tick(p) = log[RecordAt(p)].tick
  BY SegmentsRead
<1>5. \A p \in Segments : RecordAt(p) = RecordAt(0) + p /\ RecordAt(p) \in RecordAt(0) + 1 .. Len(log)
  <2> DEFINE o == RecordAt(0)
  <2>1. o \in Int /\ written \in Nat /\ o + written - 1 = Len(log) /\ \A p \in Int : RecordAt(p) = o + p
    BY <1>1
  <2> HIDE DEF o
  <2>2. ASSUME NEW p \in 1 .. written - 1
        PROVE  RecordAt(p) = o + p /\ RecordAt(p) \in o + 1 .. Len(log)
    <3>1. RecordAt(p) = o + p
      BY <2>1
    <3> QED BY <2>1, <3>1
  <2> QED BY <2>2 DEF Segments, o
<1>6. \A p \in Segments : segment_tick(p) \in -TickSpan .. TickSpan - 1
  <2>1. ASSUME NEW p \in Segments PROVE log[RecordAt(p)].tick \in Ticks
    <3>1. RecordAt(p) \in 1 .. Len(log)
      BY SegmentsRead, RecordTypes
    <3> QED BY <3>1, RecordTypes
  <2> QED BY <1>4, <2>1, RingConstants
<1>7. \A i \in RecordAt(0) + 1 .. Len(log) :
        \E p \in Segments : RecordAt(p) = i
  <2> DEFINE o == RecordAt(0)
  <2>1. o \in Int /\ written \in Nat /\ o + written - 1 = Len(log) /\ \A p \in Int : RecordAt(p) = o + p
    BY <1>1
  <2> HIDE DEF o
  <2>2. ASSUME NEW i \in o + 1 .. Len(log)
        PROVE  i - o \in Segments /\ RecordAt(i - o) = i
    <3>1. i - o \in 1 .. written - 1 /\ i - o \in Int /\ o + (i - o) = i
      BY <2>1
    <3> QED BY <2>1, <3>1 DEF Segments
  <2> QED BY <2>2 DEF o
<1> DEFINE Inside  == {p \in Segments : closes(p) \in from .. to - 1}
           Within  == {i \in RecordAt(0) + 1 .. Len(log) : log[i].timestamp \in from .. to - 1}
<1>8. Cardinality(Inside) = Cardinality(Within)
  <2>1. IsFiniteSet(Inside)
    <3>1. 1 \in Int /\ written - 1 \in Int /\ Inside \in SUBSET (1 .. written - 1)
      BY <1>1 DEF Segments
    <3>2. IsFiniteSet(1 .. written - 1)
      BY <3>1, FS_Interval
    <3> QED BY <3>1, <3>2, FS_Subset
  <2>2. [p \in Inside |-> RecordAt(p)] \in Bijection(Inside, Within)
    <3> DEFINE f == [p \in Inside |-> RecordAt(p)]
    <3>1. f \in [Inside -> Within]
      BY <1>5, <1>4
    <3>2. \A p, q \in Inside : f[p] = f[q] => p = q
      <4>1. RecordAt(0) \in Int /\ \A p \in Inside : p \in Int /\ f[p] = RecordAt(0) + p
        BY <1>1, <1>5 DEF Segments
      <4> HIDE DEF f, Inside
      <4> QED BY <4>1
    <3>3. \A i \in Within : \E p \in Inside : f[p] = i
      BY <1>4, <1>7
    <3> QED BY <3>1, <3>2, <3>3 DEF Bijection, Injection, Surjection, IsInjective
  <2> QED BY <2>1, <2>2, FS_Bijection DEF ExistsBijection
<1>9. (\A p \in Segments : overlap(p, from, to) <= limits.max_segment)
      <=> \A i \in RecordAt(0) + 1 .. Len(log) :
            Earlier(log[i].timestamp, to) - Later(log[i - 1].timestamp, from) <= limits.max_segment
  <2>1. \A p \in Segments :
          overlap(p, from, to) = Earlier(log[RecordAt(p)].timestamp, to)
                                   - Later(log[RecordAt(p) - 1].timestamp, from)
    BY <1>4 DEF overlap
  <2> QED BY <1>5, <1>7, <2>1
<1>10. Readable(from, to, limits) <=>
        /\ from < to /\ written >= 2
        /\ from >= Entry(0).timestamp /\ to <= Entry(written - 1).timestamp
        /\ \A p \in Segments : overlap(p, from, to) <= limits.max_segment
        /\ Cardinality(Inside) >= limits.min_observations
  BY <1>3, <1>4, <1>6 DEF Readable, observations_inside
<1>11. (from >= Entry(0).timestamp /\ to <= Entry(written - 1).timestamp)
       <=> log[RecordAt(0)].timestamp <= from /\ to <= log[Len(log)].timestamp
  BY <1>2, <1>3
<1> QED BY <1>8, <1>9, <1>10, <1>11 DEF ReadableByRecords

(* A new record may push out the oldest, and then the one that becomes the *)
(* oldest is a whole guaranteed history old.                               *)
LEMMA WindowOutlasts ==
  RingInv /\ RingInv' /\ [Next]_vars =>
    \A from, to \in Nat, limits \in Limits :
      Readable(from, to, limits) /\ ~Readable(from, to, limits)' => now - from >= GUARANTEED_HISTORY
<1>1. (RingInv => \A from, to \in Nat, limits \in Limits :
         Readable(from, to, limits) <=> ReadableByRecords(from, to, limits))'
  BY ReadableIs, PTL
<1>2. (RingInv => /\ written = IF Len(log) < OBSERVATION_NUM THEN Len(log) ELSE OBSERVATION_NUM
                  /\ Len(log) \in Nat \ {0}
                  /\ \A i \in 1 .. Len(log) : log[i].timestamp \in 1 .. MaxTime
                  /\ \A i, j \in 1 .. Len(log) : i < j => log[i].timestamp < log[j].timestamp)'
  <2>1. RingInv => /\ written = IF Len(log) < OBSERVATION_NUM THEN Len(log) ELSE OBSERVATION_NUM
                   /\ Len(log) \in Nat \ {0}
                   /\ \A i \in 1 .. Len(log) : log[i].timestamp \in 1 .. MaxTime
                   /\ \A i, j \in 1 .. Len(log) : i < j => log[i].timestamp < log[j].timestamp
    BY RingLaidOut, RecordTypes, RecordsOrdered
  <2> QED BY <2>1, PTL
<1> SUFFICES ASSUME RingInv, RingInv', [Next]_vars, NEW from \in Nat, NEW to \in Nat, NEW limits \in Limits,
                    ReadableByRecords(from, to, limits), now - from < GUARANTEED_HISTORY
             PROVE  ReadableByRecords(from, to, limits)'
  <2>1. RingInv => now \in Int /\ GUARANTEED_HISTORY \in Int
    <3>1. OBSERVATION_NUM - 1 \in Int /\ OBSERVATION_UPDATE_DURATION \in Int
      BY RingConstants
    <3>2. GUARANTEED_HISTORY \in Int
      BY <3>1 DEF GUARANTEED_HISTORY
    <3> QED BY <3>2, RecordTypes
  <2> QED BY <1>1, <2>1, ReadableIs
<1> DEFINE n == Len(log)
           o == RecordAt(0)
           at(i) == log'[i].timestamp
<1>3. /\ n \in Nat \ {0} /\ Len(log') \in {n, n + 1}
      /\ \A i \in 1 .. n : log'[i] = log[i]
      /\ Len(log') = n => log' = log
      /\ Len(log') = n + 1 => at(n + 1) = now
  BY StepExtends
<1>4. /\ written = (IF n < OBSERVATION_NUM THEN n ELSE OBSERVATION_NUM)
      /\ written' = IF Len(log') < OBSERVATION_NUM THEN Len(log') ELSE OBSERVATION_NUM
      /\ OBSERVATION_NUM \in Nat \ {0, 1} /\ OBSERVATION_UPDATE_DURATION \in Nat \ {0}
  BY <1>2, RingLaidOut, RingConstants
<1>5. o = n - written + 1 /\ RecordAt(0)' = Len(log') - written' + 1
  BY <1>3, <1>4, SMTT(40) DEF RecordAt
<1>6. CASE Len(log') = n
  BY <1>3, <1>4, <1>5, <1>6, ZenonT(60) DEF ReadableByRecords, Earlier, Later
<1>7. CASE Len(log') = n + 1
  <2>1. /\ at(n + 1) = now /\ \A i \in 1 .. n : at(i) = log[i].timestamp
        /\ \A i \in 1 .. n + 1 : at(i) \in Nat
        /\ \A i, j \in 1 .. n + 1 : i < j => at(i) < at(j)
    BY <1>2, <1>3, <1>7
  <2> DEFINE p == RecordAt(0)'
  <2>2. /\ o \in 1 .. n /\ p \in o .. o + 1 /\ p \in 1 .. n /\ written >= 2 /\ written' >= 2
        /\ p = o + 1 => p = n + 2 - OBSERVATION_NUM
    <3>1. written >= 2
      BY DEF ReadableByRecords
    <3> HIDE DEF n, o, p
    <3>2. o = n - written + 1 /\ p = (n + 1) - written' + 1
      BY <1>5, <1>7 DEF p
    <3>3. /\ n \in Nat \ {0} /\ OBSERVATION_NUM \in Nat \ {0, 1}
          /\ written = IF n < OBSERVATION_NUM THEN n ELSE OBSERVATION_NUM
          /\ written' = IF n + 1 < OBSERVATION_NUM THEN n + 1 ELSE OBSERVATION_NUM
      BY <1>3, <1>4, <1>7
    <3>4. CASE n < OBSERVATION_NUM
      <4>1. written = n /\ written' = n + 1
        BY <3>3, <3>4
      <4>2. o = 1 /\ p = 1
        BY <3>2, <3>3, <4>1
      <4> QED BY <3>1, <3>3, <4>1, <4>2
    <3>5. CASE ~(n < OBSERVATION_NUM)
      <4>1. written = OBSERVATION_NUM /\ written' = OBSERVATION_NUM /\ n >= OBSERVATION_NUM
        BY <3>3, <3>5
      <4>2. o = n - OBSERVATION_NUM + 1 /\ p = n + 2 - OBSERVATION_NUM
        BY <3>2, <3>3, <4>1
      <4> QED BY <3>1, <3>3, <4>1, <4>2
    <3> QED BY <3>4, <3>5
  <2>3. /\ from < to /\ at(o) <= from /\ to <= at(n) /\ n \in Nat \ {0}
        /\ \A i \in o + 1 .. n : Earlier(at(i), to) - Later(at(i - 1), from) <= limits.max_segment
        /\ Cardinality({i \in o + 1 .. n : at(i) \in from .. to - 1}) >= limits.min_observations
    <3>1. \A i \in o + 1 .. n : i \in 1 .. n /\ i - 1 \in 1 .. n
      BY <1>3, <2>2
    <3>2. {i \in o + 1 .. n : at(i) \in from .. to - 1}
            = {i \in o + 1 .. n : log[i].timestamp \in from .. to - 1}
      BY <2>1, <3>1
    <3>3. /\ from < to /\ log[o].timestamp <= from /\ to <= log[n].timestamp
          /\ \A i \in o + 1 .. n :
               Earlier(log[i].timestamp, to) - Later(log[i - 1].timestamp, from) <= limits.max_segment
          /\ Cardinality({i \in o + 1 .. n : log[i].timestamp \in from .. to - 1})
               >= limits.min_observations
      BY DEF ReadableByRecords
    <3>4. n \in 1 .. n /\ o \in 1 .. n
      BY <1>3, <2>2
    <3> HIDE DEF o, n
    <3>5. at(o) <= from /\ to <= at(n)
      BY <2>1, <3>3, <3>4
    <3>6. \A i \in o + 1 .. n : at(i) = log[i].timestamp /\ at(i - 1) = log[i - 1].timestamp
      BY <2>1, <3>1
    <3> HIDE DEF at
    <3> QED BY <1>3, <3>2, <3>3, <3>5, <3>6
  <2>4. p = o + 1 => at(p) < from
    <3>1. at(p) + (n + 1 - p) * OBSERVATION_UPDATE_DURATION <= at(n + 1)
      BY <1>3, <1>7, <2>2, SMTT(40) DEF RingInv, RecordsSpaced
    <3>2. p = o + 1 => n + 1 - p = OBSERVATION_NUM - 1
      BY <1>3, <1>4, <2>2
    <3>3. now - from < (OBSERVATION_NUM - 1) * OBSERVATION_UPDATE_DURATION
      BY DEF GUARANTEED_HISTORY
    <3>4. /\ now \in Int /\ at(p) \in Int /\ at(n + 1) = now
          /\ (OBSERVATION_NUM - 1) * OBSERVATION_UPDATE_DURATION \in Int
      BY <1>3, <1>4, <2>1, <2>2, SMTT(40)
    <3> QED BY <3>1, <3>2, <3>3, <3>4
  <2> HIDE DEF at, p, o, n
  <2>5. at(p) <= from /\ to <= at(n + 1)
    <3>1. at(n) < at(n + 1) /\ at(n) \in Nat /\ at(n + 1) \in Nat /\ at(p) \in Nat /\ at(o) \in Nat
      BY <2>1, <2>2, <2>3
    <3> QED BY <2>2, <2>3, <2>4, <3>1
  <2>6. \A i \in p + 1 .. n + 1 : Earlier(at(i), to) - Later(at(i - 1), from) <= limits.max_segment
    <3>1. CASE p + 1 <= n + 1
      <4> SUFFICES ASSUME NEW i \in p + 1 .. n + 1
                   PROVE  Earlier(at(i), to) - Later(at(i - 1), from) <= limits.max_segment
        OBVIOUS
      <4>1. CASE i \in o + 1 .. n
        BY <2>3, <4>1
      <4>2. CASE i = n + 1
        <5>1. i - 1 = n /\ at(n) < at(n + 1) /\ at(n) \in Nat /\ at(n + 1) \in Nat
          BY <2>1, <2>3, <4>2
        <5>2. limits.max_segment \in Nat
          BY RingConstants
        <5> QED BY <2>3, <4>2, <5>1, <5>2 DEF Earlier, Later
      <4> QED BY <2>2, <2>3, <4>1, <4>2
    <3> QED BY <2>2, <2>3, <3>1
  <2>7. {i \in p + 1 .. n + 1 : at(i) \in from .. to - 1} = {i \in o + 1 .. n : at(i) \in from .. to - 1}
    <3>1. \A i \in o + 1 .. p : ~(at(i) \in from .. to - 1)
      <4>1. \A i \in o + 1 .. p : i = p /\ p = o + 1
        BY <2>2, <2>3
      <4>2. at(p) \in Nat
        BY <2>1, <2>2, <2>3
      <4> QED BY <2>4, <4>1, <4>2
    <3>2. ~(at(n + 1) \in from .. to - 1)
      BY <2>1, <2>3, <2>5
    <3> QED BY <2>2, <2>3, <3>1, <3>2
  <2>8. Len(log') = n + 1 /\ written' >= 2 /\ p = RecordAt(0)'
    BY <1>7, <2>2 DEF n, p
  <2> QED BY <2>3, <2>5, <2>6, <2>7, <2>8 DEF ReadableByRecords, at, Earlier, Later
<1> QED BY <1>3, <1>6, <1>7

(* A step makes a readable window unreadable only once the guaranteed      *)
(* history of the ring has passed since the window began: for every size   *)
(* and pace of the ring (GUARANTEED_HISTORY, raydium_twap).                *)
THEOREM GraceReadable == Spec => WindowKept
<1>1. RingInv /\ RingInv' /\ [Next]_vars =>
        \A w \in Windows, l \in Limits :
          Readable(w[1], w[2], l) /\ ~Readable(w[1], w[2], l)' =>
            now - w[1] >= GUARANTEED_HISTORY
  BY WindowOutlasts, RingConstants DEF Windows
<1> QED BY <1>1, RingInvariant, PTL DEF Spec, WindowKept

=============================================================================
