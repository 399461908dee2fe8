--------------------------- MODULE EdgeWorkerProofs ---------------------------
(***************************************************************************)
(* What the Edge Worker and its neighbours count and report: the lookups   *)
(* of the limiter, the generated answers of the API service, and the rows  *)
(* of the progress page.                                                   *)
(***************************************************************************)
EXTENDS EnrichmentBatch, WebQuota, ProgressPage, Integers, FoldTheorems

-------------------------------------------------------------------------------
(***************************************************************************)
(* The limiter keeps its quota for every limit, bucket, clock and length   *)
(* of a behaviour.                                                         *)
(***************************************************************************)

\* The clock runs through days, and the history agrees with it.
ClockOK ==
    /\ clock.day <= clock.now
    /\ quota.day <= clock.day /\ quota.refilled <= clock.now
    /\ \A s \in 0 .. clock.now : byTick[s] <= leased
    /\ \A d \in 0 .. clock.day : byDay[d] <= leased
    /\ \A d \in 0 .. clock.day - 1 : byDay[d] <= byDay[d + 1]

\* The row counts what was leased since its day began, and nothing since then.
CountOK ==
    /\ quota.used = LeasedOn(quota.day)
    /\ \A d \in quota.day + 1 .. clock.day : byDay[d] = leased


LInv ==
    /\ LTypeOK /\ ClockOK /\ CountOK
    /\ DailyQuota
    /\ \A s \in 0 .. clock.now :
          Price(LeasedSince(s)) + Tokens <= Capacity + (clock.now - s)
    /\ NothingWithheld

-----------------------------------------------------------------------------
(* Arithmetic.                                                             *)

\* CeilDiv rounds up, by less than one divisor.
LEMMA CeilDivRoundsUp ==
    ASSUME NEW a \in Nat, NEW b \in Nat \ {0}
    PROVE  /\ CeilDiv(a, b) \in Nat
           /\ CeilDiv(a, b) * b >= a
           /\ CeilDiv(a, b) * b - b < a
  <1> DEFINE q == CeilDiv(a, b)
  <1>1. q \in Int /\ b * q <= a + b - 1 /\ a + b - 1 < b * q + b
    BY DEF CeilDiv
  <1>2. q \in Nat
    BY <1>1
  <1>3. QED
    BY <1>1, <1>2

\* The price is additive.
LEMMA PriceSum ==
    ASSUME NEW a \in Int, NEW b \in Int
    PROVE  Price(a + b) = Price(a) + Price(b) /\ Price(a) \in Int
  BY LimiterConstants DEF Price

LEMMA PriceNat == ASSUME NEW a \in Nat PROVE Price(a) \in Nat
  BY LimiterConstants DEF Price

LEMMA CapacityNat == Capacity \in Nat
  BY LimiterConstants DEF Capacity

\* The types, value by value.
LEMMA TypeFacts ==
    ASSUME LTypeOK
    PROVE  /\ clock.now \in Nat /\ clock.day \in Nat /\ clock.now <= MaxTime
           /\ clock.day <= MaxTime /\ clock.tick \in Nat /\ clock.tick < DayLength
           /\ quota.day \in Nat /\ quota.used \in 0 .. DailyLimit
           /\ quota.tokens \in 0 .. Capacity /\ quota.refilled \in Nat
           /\ leased \in Nat
           /\ \A t \in 0 .. clock.now : byTick[t] \in Nat
           /\ \A d \in 0 .. MaxTime : byDay[d] \in Nat
  <1>1. /\ clock.now \in Time /\ clock.day \in Time /\ clock.tick \in 0 .. DayLength - 1
        /\ leased \in Nat
    BY DEF LTypeOK
  <1>2. /\ quota.day \in Time /\ quota.used \in 0 .. DailyLimit
        /\ quota.tokens \in 0 .. Capacity /\ quota.refilled \in Time
    BY DEF LTypeOK
  <1>3. \A t \in Time : byTick[t] \in Nat /\ byDay[t] \in Nat
    BY DEF LTypeOK
  <1>4. \A t \in 0 .. clock.now : t \in Time
    BY <1>1, LimiterConstants DEF Time
  <1>5. QED
    BY <1>1, <1>2, <1>3, <1>4, LimiterConstants DEF Time

\* The refilled bucket is a bucket.
LEMMA TokensType ==
    ASSUME LTypeOK, ClockOK
    PROVE  Tokens \in 0 .. Capacity /\ Elapsed \in Nat
  <1>1. Elapsed \in Nat
    BY TypeFacts DEF ClockOK, Elapsed
  <1>2. quota.tokens + Elapsed \in Nat /\ Capacity \in Nat
    BY <1>1, TypeFacts, CapacityNat
  <1>3. QED
    BY <1>1, <1>2 DEF Tokens, AtMost

\* The used part of the day is what the history says.
LEMMA UsedToday ==
    ASSUME LTypeOK, ClockOK, CountOK
    PROVE  Used = LeasedOn(clock.day) /\ Used \in 0 .. DailyLimit
  <1>1. CASE quota.day = clock.day
    BY <1>1 DEF Used, CountOK, LTypeOK
  <1>2. CASE quota.day # clock.day
    <2>1. clock.day \in quota.day + 1 .. clock.day
      BY <1>2 DEF LTypeOK, ClockOK, Time
    <2>2. byDay[clock.day] = leased
      BY <2>1 DEF CountOK
    <2>3. QED
      BY <1>2, <2>2, LimiterConstants DEF Used, LeasedOn, LTypeOK
  <1>3. QED
    BY <1>1, <1>2

-----------------------------------------------------------------------------
(* The invariant.                                                          *)

LEMMA LimiterInit == LInit => LInv
  <1> SUFFICES ASSUME LInit PROVE LInv
    OBVIOUS
  <1>1. LTypeOK
    BY LimiterConstants, CapacityNat DEF LInit, LTypeOK, Time
  <1>2. ClockOK /\ CountOK
    BY LimiterConstants DEF LInit, ClockOK, CountOK, LeasedOn, Time
  <1>3. DailyQuota
    BY LimiterConstants DEF LInit, DailyQuota, LeasedOn, Time
  <1>4. Tokens = Capacity
    BY CapacityNat DEF LInit, Tokens, AtMost, Elapsed
  <1>5. \A s \in 0 .. clock.now : s = 0 /\ LeasedSince(s) = 0 /\ Price(LeasedSince(s)) = 0
    BY LimiterConstants DEF LInit, LeasedSince, Price, Time
  <1>6. 0 \in 0 .. clock.now /\ clock.now = 0
    BY DEF LInit
  <1>7. NothingWithheld
    BY <1>1, <1>2, <1>4, <1>5, <1>6, CapacityNat, UsedToday DEF NothingWithheld
  <1>8. QED
    BY <1>1, <1>2, <1>3, <1>4, <1>5, <1>6, <1>7, CapacityNat DEF LInv

\* A handler that takes `cost` tokens that are there.
LEMMA SettleInv ==
    ASSUME LInv, NEW cost \in Nat, Settle(cost), leased' = leased + cost,
           UNCHANGED <<clock, byTick, byDay>>,
           Price(cost) <= Tokens, Used + cost <= DailyLimit
    PROVE  LInv'
  <1>1. /\ LTypeOK /\ ClockOK /\ CountOK /\ clock' = clock
        /\ byTick' = byTick /\ byDay' = byDay
    BY DEF LInv
  <1>2. /\ Tokens \in 0 .. Capacity /\ Used \in 0 .. DailyLimit
        /\ Used = LeasedOn(clock.day)
    BY <1>1, TokensType, UsedToday
  <1>3. Price(cost) \in Nat /\ Capacity \in Nat
    BY PriceNat, CapacityNat
  <1>4. /\ quota'.day = clock.day /\ quota'.used = Used + cost
        /\ quota'.tokens = Tokens - Price(cost) /\ quota'.refilled = clock.now
    BY DEF Settle
  <1>5. LTypeOK'
    BY <1>1, <1>2, <1>3 DEF LTypeOK, Settle, Capacity
  <1>6. ClockOK'
    <2>1. /\ leased' \in Nat /\ leased <= leased' /\ leased \in Nat
      BY <1>1, TypeFacts
    <2>2. (\A s \in 0 .. clock.now : byTick[s] <= leased)'
      BY <1>1, <2>1, TypeFacts DEF ClockOK
    <2>3. (\A d \in 0 .. clock.day : byDay[d] <= leased)'
      <3>1. \A d \in 0 .. clock.day : byDay[d] \in Nat
        <4>1. \A d \in 0 .. clock.day : d \in 0 .. MaxTime
          BY <1>1, TypeFacts, LimiterConstants
        <4>2. QED
          BY <1>1, <4>1, TypeFacts
      <3>2. QED
        BY <1>1, <2>1, <3>1 DEF ClockOK
    <2>4. QED
      BY <1>1, <1>4, <2>2, <2>3, TypeFacts DEF ClockOK
  <1>7. LeasedOn(clock.day)' = LeasedOn(clock.day) + cost
    BY <1>1 DEF LeasedOn, LTypeOK
  <1>8. CountOK'
    <2>1. quota'.used = LeasedOn(quota.day)'
      BY <1>1, <1>2, <1>4, <1>7 DEF LeasedOn
    <2>2. quota'.day + 1 .. clock'.day = {}
      BY <1>1, <1>4 DEF LTypeOK, Time
    <2>3. QED
      BY <2>1, <2>2 DEF CountOK
  <1>9. DailyQuota'
    <2> SUFFICES ASSUME NEW d \in 0 .. clock.day PROVE LeasedOn(d)' <= DailyLimit
      BY <1>1 DEF DailyQuota
    <2>1. CASE d = clock.day
      BY <1>2, <1>7, <2>1
    <2>2. CASE d # clock.day
      BY <1>1, <2>2 DEF LeasedOn, LInv, DailyQuota
    <2>3. QED
      BY <2>1, <2>2
  <1>10. Tokens' = Tokens - Price(cost)
    <2>1. Elapsed' = 0 /\ quota'.tokens + 0 = Tokens - Price(cost)
      BY <1>1, <1>2, <1>3, <1>4, TypeFacts DEF Elapsed
    <2>2. Tokens - Price(cost) \in Nat /\ Tokens - Price(cost) <= Capacity
      BY <1>2, <1>3
    <2>3. Tokens' = IF quota'.tokens + Elapsed' > Capacity THEN Capacity
                    ELSE quota'.tokens + Elapsed'
      BY <1>3, <2>1, <2>2 DEF Tokens, AtMost, Capacity
    <2>4. QED
      BY <1>3, <2>1, <2>2, <2>3
  <1>11. \A s \in 0 .. clock.now :
            /\ LeasedSince(s) \in Int
            /\ Price(LeasedSince(s))' = Price(LeasedSince(s)) + Price(cost)
            /\ Price(LeasedSince(s)) \in Int
    <2> SUFFICES ASSUME NEW s \in 0 .. clock.now
                 PROVE  /\ LeasedSince(s) \in Int
                        /\ Price(LeasedSince(s))' = Price(LeasedSince(s)) + Price(cost)
                        /\ Price(LeasedSince(s)) \in Int
      OBVIOUS
    <2>1. LeasedSince(s) \in Int /\ LeasedSince(s)' = LeasedSince(s) + cost
      BY <1>1, TypeFacts DEF LeasedSince
    <2>2. Price(LeasedSince(s) + cost) = Price(LeasedSince(s)) + Price(cost)
          /\ Price(LeasedSince(s)) \in Int
      BY <2>1, PriceSum
    <2>3. QED
      BY <2>1, <2>2 DEF Price
  <1>12. \A s \in 0 .. clock.now :
            (Price(LeasedSince(s)) + Tokens)' = Price(LeasedSince(s)) + Tokens
    BY <1>2, <1>3, <1>10, <1>11
  <1>13. (\A s \in 0 .. clock.now :
            Price(LeasedSince(s)) + Tokens <= Capacity + (clock.now - s))'
    BY <1>1, <1>12 DEF LInv, Capacity
  <1>14. NothingWithheld'
    <2>1. Used' = LeasedOn(clock.day)'
      BY <1>1, <1>2, <1>4, <1>7 DEF Used
    <2>2. PICK s \in 0 .. clock.now :
             Price(LeasedSince(s)) + Tokens = Capacity + (clock.now - s)
      BY DEF LInv, NothingWithheld
    <2>3. QED
      BY <1>1, <1>12, <2>1, <2>2 DEF NothingWithheld, Capacity
  <1>15. QED
    BY <1>5, <1>6, <1>8, <1>9, <1>13, <1>14 DEF LInv

\* Time passes: the bucket gains a tick's worth, or is full.
LEMMA TickInv == LInv /\ Tick => LInv'
  <1> SUFFICES ASSUME LInv, Tick PROVE LInv'
    OBVIOUS
  <1>1. LTypeOK /\ ClockOK /\ CountOK
    BY DEF LInv
  <1>2. /\ quota' = quota /\ leased' = leased
        /\ clock.now < MaxTime /\ clock.now \in Nat /\ clock'.now = clock.now + 1
        /\ clock.day \in Nat /\ clock'.day \in Nat
        /\ clock'.day = clock.day \/ clock'.day = clock.day + 1
        /\ clock' \in [now : Time, day : Time, tick : 0 .. DayLength - 1]
    <2>1. /\ clock.now \in Nat /\ clock.day \in Nat /\ clock.day <= clock.now
          /\ clock.now < MaxTime /\ clock.tick \in 0 .. DayLength - 1
          /\ DayLength \in Nat \ {0}
      BY <1>1, TypeFacts, LimiterConstants DEF Tick, ClockOK
    <2>2. clock = [now |-> clock.now, day |-> clock.day, tick |-> clock.tick]
      BY <1>1 DEF LTypeOK
    <2>3. \/ clock' = [now |-> clock.now + 1, day |-> clock.day + 1, tick |-> 0]
          \/ /\ clock' = [now |-> clock.now + 1, day |-> clock.day, tick |-> clock.tick + 1]
             /\ clock.tick + 1 # DayLength
      BY <2>2 DEF Tick
    <2>4. /\ clock.now + 1 \in Time /\ clock.day \in Time /\ clock.day + 1 \in Time
          /\ 0 \in 0 .. DayLength - 1
          /\ clock.tick + 1 # DayLength => clock.tick + 1 \in 0 .. DayLength - 1
      BY <2>1, LimiterConstants DEF Time
    <2>5. quota' = quota /\ leased' = leased
      BY DEF Tick
    <2>6. QED
      BY <2>1, <2>3, <2>4, <2>5
  <1>3. /\ byTick' = [byTick EXCEPT ![clock.now + 1] = leased]
        /\ byDay' = IF clock'.day = clock.day THEN byDay
                          ELSE [byDay EXCEPT ![clock.day + 1] = leased]
        /\ byTick' \in [Time -> Nat] /\ byDay' \in [Time -> Nat]
    BY <1>1, <1>2 DEF Tick, LTypeOK
  <1>4. LTypeOK'
    BY <1>1, <1>2, <1>3 DEF LTypeOK, Capacity
  <1>5. /\ \A s \in 0 .. clock.now : byTick'[s] = byTick[s]
        /\ byTick'[clock.now + 1] = leased
    BY <1>1, <1>2, <1>3 DEF LTypeOK, Time
  <1>6. /\ \A d \in 0 .. clock.day : byDay'[d] = byDay[d]
        /\ clock'.day = clock.day + 1 => byDay'[clock.day + 1] = leased
    <2>1. /\ clock.day + 1 \in Time /\ \A d \in 0 .. clock.day : d \in Time /\ d # clock.day + 1
      BY <1>1, <1>2, TypeFacts, LimiterConstants DEF ClockOK, Time
    <2>2. byDay \in [Time -> Nat]
      BY <1>1 DEF LTypeOK
    <2>3. QED
      BY <1>2, <1>3, <2>1, <2>2
  <1>7. ClockOK'
    <2>1. clock'.day <= clock'.now /\ quota'.day <= clock'.day
          /\ quota'.refilled <= clock'.now
      BY <1>1, <1>2, TypeFacts DEF ClockOK
    <2>2. (\A s \in 0 .. clock.now : byTick[s] <= leased)'
      <3> SUFFICES ASSUME NEW s \in 0 .. clock.now + 1 PROVE byTick'[s] <= leased
        BY <1>2
      <3>1. CASE s \in 0 .. clock.now
        BY <1>1, <1>5, <3>1 DEF ClockOK
      <3>2. CASE s = clock.now + 1
        BY <1>1, <1>5, <3>2, TypeFacts
      <3>3. QED
        BY <1>2, <3>1, <3>2
    <2>3. (\A d \in 0 .. clock.day : byDay[d] <= leased)'
      <3> SUFFICES ASSUME NEW d \in 0 .. clock'.day PROVE byDay'[d] <= leased
        BY <1>2
      <3>1. CASE d \in 0 .. clock.day
        BY <1>1, <1>6, <3>1 DEF ClockOK
      <3>2. CASE d = clock.day + 1 /\ clock'.day = clock.day + 1
        BY <1>1, <1>6, <3>2, TypeFacts
      <3>3. QED
        BY <1>2, <3>1, <3>2
    <2>4. (\A d \in 0 .. clock.day - 1 : byDay[d] <= byDay[d + 1])'
      <3> SUFFICES ASSUME NEW d \in 0 .. clock'.day - 1 PROVE byDay'[d] <= byDay'[d + 1]
        OBVIOUS
      <3>1. CASE d \in 0 .. clock.day - 1
        <4>1. d \in 0 .. clock.day /\ d + 1 \in 0 .. clock.day
          BY <1>2, <3>1
        <4>2. QED
          BY <1>1, <1>6, <3>1, <4>1 DEF ClockOK
      <3>2. CASE d = clock.day /\ clock'.day = clock.day + 1
        <4>1. d \in 0 .. clock.day
          BY <1>2, <3>2
        <4>2. QED
          BY <1>1, <1>6, <3>2, <4>1 DEF ClockOK
      <3>3. QED
        BY <1>2, <3>1, <3>2
    <2>5. QED
      BY <2>1, <2>2, <2>3, <2>4 DEF ClockOK
  <1>8. \A d \in 0 .. clock.day : LeasedOn(d)' = LeasedOn(d)
    BY <1>1, <1>2, <1>6 DEF LeasedOn, LTypeOK
  <1>9. clock'.day = clock.day + 1 => \A d : d = clock.day + 1 => LeasedOn(d)' = 0
    BY <1>1, <1>2, <1>6, TypeFacts DEF LeasedOn
  <1>10. CountOK'
    <2>1. quota.day \in 0 .. clock.day
      BY <1>1 DEF LTypeOK, ClockOK, Time
    <2>2. quota'.used = LeasedOn(quota.day)'
      BY <1>1, <1>2, <1>8, <2>1 DEF CountOK, LeasedOn
    <2>3. \A d \in quota.day + 1 .. clock'.day : byDay'[d] = leased
      BY <1>1, <1>2, <1>6, <2>1 DEF CountOK
    <2>4. QED
      BY <1>2, <2>2, <2>3 DEF CountOK
  <1>11. DailyQuota'
    <2> SUFFICES ASSUME NEW d \in 0 .. clock'.day PROVE LeasedOn(d)' <= DailyLimit
      BY DEF DailyQuota
    <2>1. CASE d \in 0 .. clock.day
      BY <1>8, <2>1 DEF LInv, DailyQuota
    <2>2. CASE d = clock.day + 1 /\ clock'.day = clock.day + 1
      BY <1>9, <2>2, LimiterConstants
    <2>3. QED
      BY <1>2, <2>1, <2>2
  <1>12. /\ Tokens \in 0 .. Capacity /\ Elapsed \in Nat /\ Capacity \in Nat
         /\ Tokens' = Tokens + 1 \/ Tokens' = Capacity
         /\ Tokens' <= Tokens + 1 /\ Tokens' <= Capacity
    <2>1. Elapsed \in Nat /\ Elapsed' = Elapsed + 1 /\ quota'.tokens = quota.tokens
      BY <1>1, <1>2, TypeFacts DEF Elapsed, ClockOK
    <2>2. quota.tokens \in Nat /\ Capacity \in Nat /\ Tokens \in 0 .. Capacity
      BY <1>1, TypeFacts, TokensType, CapacityNat
    <2>3. Tokens = IF quota.tokens + Elapsed < Capacity THEN quota.tokens + Elapsed
                   ELSE Capacity
      BY <2>2 DEF Tokens, AtMost
    <2>4. Tokens' = IF quota.tokens + Elapsed + 1 < Capacity
                    THEN quota.tokens + Elapsed + 1 ELSE Capacity
      BY <2>1, <2>2 DEF Tokens, AtMost, Capacity
    <2>5. QED
      BY <2>1, <2>2, <2>3, <2>4
  <1>13. /\ \A s \in 0 .. clock.now : LeasedSince(s)' = LeasedSince(s)
                /\ Price(LeasedSince(s))' = Price(LeasedSince(s))
                /\ Price(LeasedSince(s)) \in Int
         /\ \A s : s = clock.now + 1 => Price(LeasedSince(s))' = 0
    <2>1. ASSUME NEW s \in 0 .. clock.now
          PROVE  LeasedSince(s)' = LeasedSince(s) /\ LeasedSince(s) \in Int
      BY <1>1, <1>2, <1>5, TypeFacts DEF LeasedSince
    <2>2. \A s : s = clock.now + 1 => LeasedSince(s)' = 0
      BY <1>1, <1>2, <1>5, TypeFacts DEF LeasedSince
    <2>3. QED
      BY <2>1, <2>2, PriceSum, LimiterConstants DEF Price
  <1>14. (\A s \in 0 .. clock.now :
            Price(LeasedSince(s)) + Tokens <= Capacity + (clock.now - s))'
    <2> SUFFICES ASSUME NEW s \in 0 .. clock.now + 1
                 PROVE  Price(LeasedSince(s))' + Tokens' <= Capacity + (clock.now + 1 - s)
      BY <1>2 DEF Capacity
    <2>1. CASE s \in 0 .. clock.now
      BY <1>2, <1>12, <1>13, <2>1 DEF LInv
    <2>2. CASE s = clock.now + 1
      BY <1>2, <1>12, <1>13, <2>2
    <2>3. QED
      BY <1>2, <2>1, <2>2
  <1>15. NothingWithheld'
    <2>1. Used' = LeasedOn(clock.day)'
      <3>1. leased' \in Nat /\ quota'.day \in Nat /\ clock'.day \in Nat
            /\ quota'.day <= clock'.day
        BY <1>1, <1>2, <1>7, TypeFacts DEF ClockOK
      <3>2. CASE quota'.day = clock'.day
        BY <1>10, <3>2 DEF Used, CountOK
      <3>3. CASE quota'.day # clock'.day
        <4>1. clock'.day \in quota'.day + 1 .. clock'.day
          BY <3>1, <3>3
        <4>2. byDay'[clock'.day] = leased'
          BY <1>10, <4>1 DEF CountOK
        <4>3. \A n, m : n \in Nat /\ m = n => n - m = 0
          OBVIOUS
        <4>4. Used' = 0
          BY <3>3 DEF Used
        <4>5. QED
          BY <3>1, <4>2, <4>3, <4>4 DEF LeasedOn
      <3>4. QED
        BY <3>2, <3>3
    <2>2. CASE Tokens' = Capacity
      <3> DEFINE s == clock.now + 1
      <3>1. s \in 0 .. clock'.now
        BY <1>2
      <3>2. \A r : r = s => (Price(LeasedSince(r)))' + Tokens' = Capacity' + (clock'.now - r)
        BY <1>2, <1>12, <1>13, <2>2 DEF Capacity
      <3>3. QED
        BY <2>1, <3>1, <3>2, <1>2 DEF NothingWithheld
    <2>3. CASE Tokens' = Tokens + 1
      <3>1. PICK s \in 0 .. clock.now :
               Price(LeasedSince(s)) + Tokens = Capacity + (clock.now - s)
        BY DEF LInv, NothingWithheld
      <3>2. s \in 0 .. clock'.now
        BY <1>2
      <3>3. (Price(LeasedSince(s)))' + Tokens' = Capacity' + (clock'.now - s)
        BY <1>2, <1>12, <1>13, <2>3, <3>1 DEF Capacity
      <3>4. QED
        BY <2>1, <3>2, <3>3 DEF NothingWithheld
    <2>4. QED
      BY <1>12, <2>2, <2>3
  <1>16. QED
    BY <1>4, <1>7, <1>10, <1>11, <1>14, <1>15 DEF LInv

\* A lease is granted only when its tokens are there.
LEMMA GrantInv == ASSUME LInv, NEW cost \in 1 .. Burst, Grant(cost) PROVE LInv'
  <1>1. cost \in Nat /\ Price(cost) \in Nat
    BY PriceNat
  <1>2. /\ Tokens \in 0 .. Capacity /\ Used \in 0 .. DailyLimit /\ Capacity \in Nat
    BY TokensType, UsedToday, CapacityNat DEF LInv
  <1>3. Used + cost <= DailyLimit
    <2>1. SUFFICES ASSUME Used + cost > DailyLimit PROVE FALSE
      BY <1>1, <1>2, LimiterConstants
    <2>2. DayLength - clock.tick \in Nat /\ DayLength - clock.tick > 0
      BY TypeFacts, LimiterConstants DEF LInv
    <2>3. CeilDiv(DayLength - clock.tick, TicksPerSecond) * TicksPerSecond > 0
      BY <2>2, CeilDivRoundsUp, LimiterConstants
    <2>4. CeilDiv(DayLength - clock.tick, TicksPerSecond) # 0
      BY <2>3, LimiterConstants
    <2>5. QED
      BY <2>1, <2>4 DEF Grant, RetryAfter, SecondsToMidnight
  <1>4. Price(cost) <= Tokens
    <2>1. SUFFICES ASSUME Tokens < Price(cost) PROVE FALSE
      BY <1>1, <1>2
    <2>2. Price(cost) - Tokens \in Nat /\ Price(cost) - Tokens > 0
      BY <1>1, <1>2, <2>1
    <2>3. CeilDiv(Price(cost) - Tokens, TicksPerSecond) * TicksPerSecond > 0
      BY <2>2, CeilDivRoundsUp, LimiterConstants
    <2>4. CeilDiv(Price(cost) - Tokens, TicksPerSecond) # 0
      BY <2>3, LimiterConstants
    <2>5. QED
      BY <1>2, <1>3, <2>1, <2>4, LimiterConstants DEF Grant, RetryAfter
  <1>5. QED
    BY <1>1, <1>3, <1>4, SettleInv DEF Grant

\* A refused lease and a status request store the refill and take nothing.
LEMMA SettleNothingInv ==
    ASSUME LInv, Settle(0), UNCHANGED <<clock, history>>
    PROVE  LInv'
  <1>1. /\ Tokens \in 0 .. Capacity /\ Used \in 0 .. DailyLimit
        /\ leased \in Nat /\ Capacity \in Nat
    BY TokensType, UsedToday, CapacityNat, TypeFacts DEF LInv
  <1>2. Price(0) = 0
    BY LimiterConstants DEF Price
  <1>3. Price(0) <= Tokens /\ Used + 0 <= DailyLimit /\ leased' = leased + 0
    BY <1>1, <1>2, LimiterConstants DEF history
  <1>4. QED
    BY <1>3, SettleInv DEF history

LEMMA LimiterStep == LInv /\ [LNext]_lvars => LInv'
  <1> SUFFICES ASSUME LInv, [LNext]_lvars PROVE LInv'
    OBVIOUS
  <1>1. CASE Tick
    BY <1>1, TickInv
  <1>2. CASE ReadStatus
    BY <1>2, SettleNothingInv DEF ReadStatus
  <1>3. ASSUME NEW cost \in 1 .. Burst, Grant(cost) PROVE LInv'
    BY <1>3, GrantInv
  <1>4. ASSUME NEW cost \in 1 .. Burst, Refuse(cost) PROVE LInv'
    BY <1>4, SettleNothingInv DEF Refuse
  <1>5. CASE UNCHANGED lvars
    BY <1>5 DEF lvars, history, LInv, LTypeOK, ClockOK, CountOK, DailyQuota, LeasedOn,
                NothingWithheld, LeasedSince, Tokens, Used, Elapsed, Price, Capacity,
                AtMost, Time
  <1>6. QED
    BY <1>1, <1>2, <1>3, <1>4, <1>5 DEF LNext

-----------------------------------------------------------------------------
(* Theorems.                                                               *)

(* The strengthened invariant of the limiter: the types, the history and the
   row agree, and every window is within the bucket. *)
THEOREM LimiterInvariant == LSpec => []LInv
  BY LimiterInit, LimiterStep, PTL DEF LSpec

(* The row and the clock keep their types: the used count never passes the
   daily limit and the bucket never overflows or goes below zero. *)
THEOREM LimiterTypes == LSpec => []LTypeOK
  <1>1. LInv => LTypeOK
    BY DEF LInv
  <1>2. QED
    BY <1>1, LimiterInvariant, PTL

(* DatamuseRateLimiter.lease: no UTC day ever has more than the daily limit. *)
THEOREM DailyQuotaHolds == LSpec => []DailyQuota
  <1>1. LInv => DailyQuota
    BY DEF LInv
  <1>2. QED
    BY <1>1, LimiterInvariant, PTL

(* DatamuseRateLimiter.lease: the token bucket bounds every window of time. *)
THEOREM BurstBoundHolds == LSpec => []BurstBound
  <1>1. LInv => BurstBound
    <2> SUFFICES ASSUME LInv, NEW s \in 0 .. clock.now
                 PROVE  Price(LeasedSince(s)) <= Capacity + (clock.now - s)
      BY DEF BurstBound
    <2>1. /\ Tokens \in 0 .. Capacity /\ Capacity \in Nat /\ clock.now \in Nat
          /\ LeasedSince(s) \in Int
      BY TokensType, CapacityNat, TypeFacts DEF LInv, LeasedSince
    <2>2. Price(LeasedSince(s)) \in Int
      BY <2>1, PriceSum
    <2>3. Price(LeasedSince(s)) + Tokens <= Capacity + (clock.now - s)
      BY DEF LInv
    <2>4. QED
      BY <2>1, <2>2, <2>3
  <1>2. QED
    BY <1>1, LimiterInvariant, PTL

(* DatamuseRateLimiter: a granted lease breaks neither the daily nor the burst limit. *)
THEOREM WithinQuotaHolds == LSpec => []WithinQuota
  <1>1. DailyQuota /\ BurstBound => WithinQuota
    BY DEF WithinQuota
  <1>2. QED
    BY <1>1, DailyQuotaHolds, BurstBoundHolds, PTL

(* DatamuseRateLimiter: refusals and status requests cost no client a token. *)
THEOREM NothingWithheldHolds == LSpec => []NothingWithheld
  <1>1. LInv => NothingWithheld
    BY DEF LInv
  <1>2. QED
    BY <1>1, LimiterInvariant, PTL

(* The Retry-After of a refusal is neither too short nor a second too long. *)
THEOREM RetryAfterHolds == LSpec => []RetryAfterIsEnough
  <1>1. LInv => RetryAfterIsEnough
    <2> SUFFICES ASSUME LInv, NEW cost \in 1 .. Burst, RetryAfter(cost) > 0
                 PROVE  LET wait == RetryAfter(cost) * TicksPerSecond
                        IN IF Used + cost > DailyLimit
                           THEN clock.tick + wait >= DayLength
                           ELSE /\ Tokens + wait >= Price(cost)
                                /\ Tokens + wait - TicksPerSecond < Price(cost)
      BY DEF RetryAfterIsEnough
    <2>1. /\ Tokens \in 0 .. Capacity /\ Capacity \in Nat /\ Price(cost) \in Nat
          /\ clock.tick \in Nat /\ clock.tick < DayLength
      BY TokensType, CapacityNat, TypeFacts, PriceNat DEF LInv
    <2>2. CASE Used + cost > DailyLimit
      <3>1. RetryAfter(cost) = CeilDiv(DayLength - clock.tick, TicksPerSecond)
        BY <2>2 DEF RetryAfter, SecondsToMidnight
      <3>2. DayLength - clock.tick \in Nat
        BY <2>1, LimiterConstants
      <3>3. RetryAfter(cost) * TicksPerSecond >= DayLength - clock.tick
            /\ RetryAfter(cost) \in Nat
        BY <3>1, <3>2, CeilDivRoundsUp, LimiterConstants
      <3>4. RetryAfter(cost) * TicksPerSecond \in Nat
        BY <3>3, LimiterConstants
      <3>5. QED
        BY <2>1, <2>2, <3>3, <3>4, LimiterConstants
    <2>3. CASE ~(Used + cost > DailyLimit)
      <3>1. Tokens < Price(cost)
        BY <2>3 DEF RetryAfter
      <3>2. RetryAfter(cost) = CeilDiv(Price(cost) - Tokens, TicksPerSecond)
        BY <2>3, <3>1 DEF RetryAfter
      <3>3. Price(cost) - Tokens \in Nat
        BY <2>1, <3>1
      <3>4. /\ RetryAfter(cost) * TicksPerSecond >= Price(cost) - Tokens
            /\ RetryAfter(cost) * TicksPerSecond - TicksPerSecond < Price(cost) - Tokens
            /\ RetryAfter(cost) \in Nat
        BY <3>2, <3>3, CeilDivRoundsUp, LimiterConstants
      <3>5. RetryAfter(cost) * TicksPerSecond \in Nat
        BY <3>4, LimiterConstants
      <3>6. QED
        BY <2>1, <2>3, <3>4, <3>5, LimiterConstants
    <2>4. QED
      BY <2>2, <2>3
  <1>2. QED
    BY <1>1, LimiterInvariant, PTL

(* DatamuseRateLimiter: a refusal takes nothing, and its Retry-After is true. *)
THEOREM HonestRefusalsHold == LSpec => []HonestRefusals
  <1>1. NothingWithheld /\ RetryAfterIsEnough => HonestRefusals
    BY DEF HonestRefusals
  <1>2. QED
    BY <1>1, NothingWithheldHolds, RetryAfterHolds, PTL

-------------------------------------------------------------------------------
(***************************************************************************)
(* The daily quota holds for every number of visitors, threads and slots,  *)
(* and every limit.                                                        *)
(*                                                                         *)
(* The count a thread has read stays that of the row, because it has the   *)
(* write lock; so each commit adds one to the row, and the remainder it    *)
(* reports is below those reported before.                                 *)
(***************************************************************************)

\* A thread that has counted has the lock, and the row is as it read it.
CountIsCurrent ==
    \A t \in Thread :
        IsAt(t, "counted") => writer = t /\ threads[t].number = usage[threads[t].account]

\* No remainder is below what the row leaves.
RemaindersAbove ==
    \A t \in Holders :
        threads[t].number + usage[threads[t].account] >= LimitOf(threads[t].account)

WithinLimit == \A account \in Account : usage[account] <= LimitOf(account)
Covered == \A account \in Account :
              answered[account] + Cardinality(Owed(account)) <= usage[account]
Distinct ==
    \A t, u \in Holders :
        threads[t].account = threads[u].account /\ threads[t].number = threads[u].number
        => t = u
SlotsKept == permits + Cardinality(Generating) = Slots

QInv ==
    /\ QTypeOK /\ CountIsCurrent /\ RemaindersAbove
    /\ WithinLimit /\ Covered /\ Distinct /\ SlotsKept

-----------------------------------------------------------------------------
(* What a step of one thread changes.                                      *)

Requests ==
    [pc : {"free", "asked", "counted", "paid", "generating"},
     account : Account \cup {NoAccount}, number : Nat]

LEMMA LimitNat == \A account \in Account : LimitOf(account) \in Nat
  BY QuotaConstants DEF LimitOf, Account

LEMMA CountsAreNumbers ==
    /\ \A account : IsFiniteSet(Owed(account)) /\ Cardinality(Owed(account)) \in Nat
    /\ IsFiniteSet(Generating) /\ Cardinality(Generating) \in Nat
  <1>1. \A S \in SUBSET Thread : IsFiniteSet(S) /\ Cardinality(S) \in Nat
    BY QuotaConstants, FS_Subset, FS_CardinalityType
  <1>2. \A account : Owed(account) \in SUBSET Thread
    BY DEF Owed
  <1>3. Generating \in SUBSET Thread
    BY DEF Generating
  <1>4. QED
    BY <1>1, <1>2, <1>3

\* The thread t becomes r: its place among those that owe and that generate.
LEMMA ThreadStep ==
    ASSUME threads \in [Thread -> Requests], NEW t \in Thread, NEW r \in Requests,
           threads' = [threads EXCEPT ![t] = r]
    PROVE  /\ threads' \in [Thread -> Requests] /\ threads'[t] = r
           /\ \A u \in Thread \ {t} : threads'[u] = threads[u]
           /\ \A account : Owed(account)' =
                 IF r.pc = "paid" /\ r.account = account
                 THEN Owed(account) \cup {t} ELSE Owed(account) \ {t}
           /\ Generating' =
                 IF r.pc = "generating" THEN Generating \cup {t} ELSE Generating \ {t}
           /\ Holders' =
                 IF r.pc \in {"paid", "generating"} THEN Holders \cup {t} ELSE Holders \ {t}
  <1>1. /\ threads' \in [Thread -> Requests] /\ threads'[t] = r
        /\ \A u \in Thread \ {t} : threads'[u] = threads[u]
    OBVIOUS
  <1>2. ASSUME NEW account
        PROVE  Owed(account)' = IF r.pc = "paid" /\ r.account = account
                                THEN Owed(account) \cup {t} ELSE Owed(account) \ {t}
    BY <1>1 DEF Owed, IsAt
  <1>3. Generating' = IF r.pc = "generating" THEN Generating \cup {t} ELSE Generating \ {t}
    BY <1>1 DEF Generating, IsAt
  <1>4. Holders' = IF r.pc \in {"paid", "generating"} THEN Holders \cup {t} ELSE Holders \ {t}
    BY <1>1 DEF Holders, IsAt
  <1>5. QED
    BY <1>1, <1>2, <1>3, <1>4

\* A step that lends nobody anything: the thread is freed, waits or counts.
LEMMA QuietStep ==
    ASSUME QTypeOK, RemaindersAbove, WithinLimit, Covered, Distinct,
           NEW t \in Thread, NEW r \in Requests,
           r.pc \notin {"paid", "generating"},
           threads' = [threads EXCEPT ![t] = r],
           usage' = usage
    PROVE  /\ RemaindersAbove' /\ WithinLimit' /\ Distinct'
           /\ \A account \in Account :
                 Cardinality(Owed(account)') =
                     IF t \in Owed(account) THEN Cardinality(Owed(account)) - 1
                     ELSE Cardinality(Owed(account))
           /\ Cardinality(Generating') =
                 IF IsAt(t, "generating") THEN Cardinality(Generating) - 1
                 ELSE Cardinality(Generating)
  <1>1. threads \in [Thread -> Requests]
    BY DEF QTypeOK, Requests
  <1>2. /\ \A u \in Thread \ {t} : threads'[u] = threads[u]
        /\ \A account : Owed(account)' = Owed(account) \ {t}
        /\ Generating' = Generating \ {t} /\ Holders' = Holders \ {t}
    BY <1>1, ThreadStep
  <1>3. RemaindersAbove'
    BY <1>2 DEF RemaindersAbove, Holders
  <1>4. Distinct'
    BY <1>2 DEF Distinct, Holders
  <1>5. WithinLimit'
    BY DEF WithinLimit
  <1>6. \A account \in Account :
           Cardinality(Owed(account)') = IF t \in Owed(account) THEN Cardinality(Owed(account)) - 1
                                         ELSE Cardinality(Owed(account))
    BY <1>2, CountsAreNumbers, FS_RemoveElement
  <1>7. Cardinality(Generating') = IF IsAt(t, "generating") THEN Cardinality(Generating) - 1
                                   ELSE Cardinality(Generating)
    <2>1. t \in Generating <=> IsAt(t, "generating")
      BY DEF Generating
    <2>2. QED
      BY <1>2, <2>1, CountsAreNumbers, FS_RemoveElement
  <1>8. QED
    BY <1>3, <1>4, <1>5, <1>6, <1>7

-----------------------------------------------------------------------------
LEMMA InitInv == QuotaInit => QInv
  <1> SUFFICES ASSUME QuotaInit PROVE QInv
    OBVIOUS
  <1>1. threads = [t \in Thread |-> Unused] /\ Unused \in Requests /\ Unused.pc = "free"
    BY DEF QuotaInit, Unused, Request, Requests
  <1>2. QTypeOK
    BY <1>1, QuotaConstants DEF QuotaInit, QTypeOK, Day, Requests, IsAt
  <1>3. Holders = {} /\ Generating = {} /\ \A account : Owed(account) = {}
    BY <1>1 DEF Holders, Generating, Owed, IsAt
  <1>4. CountIsCurrent
    BY <1>1 DEF CountIsCurrent, IsAt
  <1>5. RemaindersAbove /\ Distinct
    BY <1>3 DEF RemaindersAbove, Distinct
  <1>6. WithinLimit /\ Covered
    BY <1>3, LimitNat, FS_EmptySet DEF WithinLimit, Covered, QuotaInit
  <1>7. SlotsKept
    BY <1>3, FS_EmptySet, QuotaConstants DEF SlotsKept, QuotaInit
  <1>8. QED
    BY <1>2, <1>4, <1>5, <1>6, <1>7 DEF QInv

-----------------------------------------------------------------------------
(* One lemma per kind of step.                                             *)

\* The steps that end without an answer, or only prepare the payment.
LEMMA QuietInv ==
    ASSUME QInv, NEW t \in Thread,
           \/ Arrive(t) \/ Count(t) \/ GiveUp(t) \/ RollBack(t) \/ Busy(t)
    PROVE  QInv'
  <1>1. threads \in [Thread -> Requests] /\ threads[t] \in Requests
    BY DEF QInv, QTypeOK, Requests
  <1>2. PICK r \in Requests :
           /\ threads' = [threads EXCEPT ![t] = r]
           /\ r.pc \in {"free", "asked", "counted"}
           /\ r.pc # "free" => r.account \in Account
           /\ r.pc = "counted" => /\ Count(t) /\ r.number = usage[r.account]
    <2>1. CASE GiveUp(t) \/ RollBack(t) \/ Busy(t)
      <3>1. Unused \in Requests /\ Unused.pc = "free"
        BY DEF Unused, Request, Requests
      <3>2. QED
        BY <2>1, <3>1 DEF GiveUp, RollBack, Busy, Freed
    <2>2. CASE Arrive(t)
      <3>1. PICK v \in Visitor, k \in Kind :
               threads' = [threads EXCEPT ![t] = Request("asked", <<today, v, k>>, 0)]
        BY <2>2 DEF Arrive
      <3>2. <<today, v, k>> \in Account
        BY DEF Account, QInv, QTypeOK
      <3> DEFINE r == Request("asked", <<today, v, k>>, 0)
      <3>3. r \in Requests /\ r.pc = "asked" /\ r.account \in Account
        BY <3>2 DEF Request, Requests
      <3>4. threads' = [threads EXCEPT ![t] = r]
        BY <3>1
      <3> HIDE DEF r
      <3>5. QED
        BY <3>3, <3>4
    <2>3. CASE Count(t)
      <3>1. threads[t].account \in Account
        BY <2>3 DEF Count, IsAt, QInv, QTypeOK
      <3>2. threads' = [threads EXCEPT ![t] =
                          Request("counted", threads[t].account, usage[threads[t].account])]
        BY <1>1, <2>3 DEF Count
      <3>3. usage[threads[t].account] \in Nat
        BY <3>1 DEF QInv, QTypeOK
      <3> DEFINE r == Request("counted", threads[t].account, usage[threads[t].account])
      <3>4. r \in Requests
        BY <3>1, <3>3 DEF Request, Requests
      <3>5. r.pc = "counted" /\ r.account = threads[t].account /\ r.number = usage[r.account]
        BY DEF Request
      <3> HIDE DEF r
      <3>6. threads' = [threads EXCEPT ![t] = r]
        BY <3>2 DEF r
      <3>7. QED
        BY <2>3, <3>1, <3>4, <3>5, <3>6
    <2>4. QED
      BY <2>1, <2>2, <2>3
  <1>3. /\ usage' = usage /\ answered' = answered /\ permits' = permits /\ today' = today
        /\ ~IsAt(t, "generating")
    BY <1>1 DEF Arrive, Count, GiveUp, RollBack, Busy, IsAt
  <1>4. /\ threads' \in [Thread -> Requests] /\ threads'[t] = r
        /\ \A u \in Thread \ {t} : threads'[u] = threads[u]
    BY <1>1, <1>2, ThreadStep
  <1>5. writer' \in Thread \cup {Nobody}
    BY DEF Arrive, Count, GiveUp, RollBack, Busy, QInv, QTypeOK
  <1>6. QTypeOK'
    BY <1>2, <1>3, <1>4, <1>5 DEF QInv, QTypeOK, Requests, IsAt
  <1>7. CountIsCurrent'
    <2>1. ASSUME NEW u \in Thread, IsAt(u, "counted")'
          PROVE  writer' = u /\ threads'[u].number = usage'[threads'[u].account]
      <3>1. CASE u = t
        BY <1>2, <1>3, <1>4, <2>1, <3>1 DEF IsAt, Count
      <3>2. CASE u # t
        <4>1. writer = u /\ threads[u].number = usage[threads[u].account]
          BY <1>4, <2>1, <3>2 DEF IsAt, QInv, CountIsCurrent
        <4>2. writer' = writer
          BY <1>1, <3>2, <4>1, QuotaConstants
             DEF Arrive, Count, GiveUp, RollBack, Busy, QInv, CountIsCurrent
        <4>3. QED
          BY <1>3, <1>4, <3>2, <4>1, <4>2
      <3>3. QED
        BY <3>1, <3>2
    <2>2. QED
      BY <2>1 DEF CountIsCurrent
  <1>8. /\ RemaindersAbove' /\ WithinLimit' /\ Distinct'
        /\ \A account \in Account :
              Cardinality(Owed(account)') =
                  IF t \in Owed(account) THEN Cardinality(Owed(account)) - 1
                  ELSE Cardinality(Owed(account))
        /\ Cardinality(Generating') = Cardinality(Generating)
    <2>1. r.pc \notin {"paid", "generating"}
      BY <1>2
    <2>2. /\ QTypeOK /\ RemaindersAbove /\ WithinLimit /\ Covered /\ Distinct
          /\ threads' = [threads EXCEPT ![t] = r] /\ usage' = usage
      BY <1>2, <1>3 DEF QInv
    <2>3. QED
      BY <1>3, <2>1, <2>2, QuietStep
  <1>9. Covered'
    <2>1. ASSUME NEW account \in Account
          PROVE  answered'[account] + Cardinality(Owed(account)') <= usage'[account]
      <3>1. /\ answered[account] \in Nat /\ usage[account] \in Nat
            /\ answered[account] + Cardinality(Owed(account)) <= usage[account]
        BY DEF QInv, QTypeOK, Covered
      <3>2. Cardinality(Owed(account)) \in Nat
        BY CountsAreNumbers
      <3>3. QED
        BY <1>3, <1>8, <3>1, <3>2
    <2>2. QED
      BY <2>1 DEF Covered
  <1>10. SlotsKept'
    BY <1>3, <1>8 DEF SlotsKept, QInv
  <1>11. QED
    BY <1>6, <1>7, <1>8, <1>9, <1>10 DEF QInv

\* The payment: one more in the row, owed to one more thread, at a remainder
\* below all others of the account.
LEMMA CommitInv ==
    ASSUME QInv, NEW t \in Thread, Commit(t)
    PROVE  QInv'
  <1> DEFINE acc == threads[t].account
             left == LimitOf(acc) - (usage[acc] + 1)
             r == Request("paid", acc, left)
  <1>1. threads \in [Thread -> Requests]
    BY DEF QInv, QTypeOK, Requests
  <1>2. acc \in Account /\ threads[t].number = usage[acc] /\ writer = t
    BY DEF Commit, IsAt, QInv, QTypeOK, CountIsCurrent
  <1>3. usage[acc] \in Nat /\ LimitOf(acc) \in Nat
    BY <1>2, LimitNat DEF QInv, QTypeOK
  <1>4. /\ usage[acc] + 1 <= LimitOf(acc) /\ left \in Nat
        /\ usage' = [usage EXCEPT ![acc] = usage[acc] + 1]
        /\ threads' = [threads EXCEPT ![t] = r]
        /\ answered' = answered /\ permits' = permits /\ today' = today /\ writer' = Nobody
    BY <1>2, <1>3 DEF Commit
  <1>5. r \in Requests /\ r.pc = "paid" /\ r.account = acc /\ r.number = left
    BY <1>2, <1>4 DEF Requests, Request
  <1> HIDE DEF acc, left, r
  <1>6. /\ threads' \in [Thread -> Requests] /\ threads'[t] = r
        /\ \A u \in Thread \ {t} : threads'[u] = threads[u]
        /\ \A account : Owed(account)' = IF account = acc THEN Owed(account) \cup {t}
                                        ELSE Owed(account) \ {t}
        /\ Generating' = Generating \ {t} /\ Holders' = Holders \cup {t}
    <2>1. threads' = [threads EXCEPT ![t] = r]
      BY <1>4
    <2>2. /\ threads' \in [Thread -> Requests] /\ threads'[t] = r
          /\ \A u \in Thread \ {t} : threads'[u] = threads[u]
          /\ \A account : Owed(account)' =
                IF r.pc = "paid" /\ r.account = account
                THEN Owed(account) \cup {t} ELSE Owed(account) \ {t}
          /\ Generating' = IF r.pc = "generating" THEN Generating \cup {t} ELSE Generating \ {t}
          /\ Holders' = IF r.pc \in {"paid", "generating"} THEN Holders \cup {t} ELSE Holders \ {t}
      BY <1>1, <1>5, <2>1, ThreadStep
    <2> QED
      BY <1>5, <2>2
  <1>7. t \notin Holders /\ t \notin Generating /\ \A account : t \notin Owed(account)
    BY DEF Commit, IsAt, Holders, Generating, Owed
  <1>8. /\ usage' \in [Account -> Nat]
        /\ \A account \in Account :
              usage'[account] = IF account = acc THEN usage[account] + 1 ELSE usage[account]
    BY <1>2, <1>3, <1>4 DEF QInv, QTypeOK
  <1>9. QTypeOK'
    BY <1>2, <1>4, <1>5, <1>6, <1>8 DEF QInv, QTypeOK, Requests, IsAt
  <1>10. CountIsCurrent'
    <2>1. \A u \in Thread : ~IsAt(u, "counted")'
      BY <1>2, <1>5, <1>6, QuotaConstants DEF IsAt, QInv, CountIsCurrent
    <2>2. QED
      BY <2>1 DEF CountIsCurrent
  <1>11. WithinLimit'
    BY <1>3, <1>4, <1>8 DEF WithinLimit, QInv
  <1>12. ASSUME NEW u \in Holders
         PROVE  /\ u \in Thread /\ threads'[u] = threads[u]
                /\ threads[u].account \in Account /\ threads[u].number \in Nat
                /\ threads[u].number + usage[threads[u].account] >= LimitOf(threads[u].account)
    BY <1>1, <1>6, <1>7, <1>12 DEF Holders, IsAt, QInv, QTypeOK, RemaindersAbove, Requests
  <1>13. RemaindersAbove'
    <2>1. ASSUME NEW u \in Holders'
          PROVE  threads'[u].number + usage'[threads'[u].account] >= LimitOf(threads'[u].account)
      <3>1. CASE u = t
        BY <1>2, <1>3, <1>5, <1>6, <1>8, <3>1 DEF left
      <3>2. CASE u # t
        <4>1. u \in Holders
          BY <1>6, <2>1, <3>2
        <4>2. usage[threads[u].account] \in Nat /\ usage'[threads[u].account] \in Nat
              /\ usage'[threads[u].account] >= usage[threads[u].account]
          BY <1>8, <1>12, <4>1 DEF QInv, QTypeOK
        <4>3. QED
          BY <1>12, <4>1, <4>2, LimitNat
      <3>3. QED
        BY <3>1, <3>2
    <2>2. QED
      BY <2>1 DEF RemaindersAbove
  <1>14. Distinct'
    <2>1. ASSUME NEW u \in Holders, threads[u].account = acc
          PROVE  threads[u].number # left
      BY <1>2, <1>3, <1>12, <2>1 DEF left
    <2>2. QED
      BY <1>5, <1>6, <1>12, <2>1 DEF Distinct, QInv
  <1>15. Covered'
    <2>1. ASSUME NEW account \in Account
          PROVE  answered'[account] + Cardinality(Owed(account)') <= usage'[account]
      <3>1. Cardinality(Owed(account)') =
               IF account = acc THEN Cardinality(Owed(account)) + 1 ELSE Cardinality(Owed(account))
        BY <1>6, <1>7, CountsAreNumbers, FS_AddElement, FS_RemoveElement
      <3>2. answered[account] \in Nat /\ usage[account] \in Nat
            /\ answered[account] + Cardinality(Owed(account)) <= usage[account]
        BY DEF QInv, QTypeOK, Covered
      <3>3. QED
        BY <1>4, <1>8, <3>1, <3>2, CountsAreNumbers
    <2>2. QED
      BY <2>1 DEF Covered
  <1>16. SlotsKept'
    <2>1. Generating' = Generating
      BY <1>6, <1>7
    <2>2. QED
      BY <1>4, <2>1 DEF SlotsKept, QInv
  <1>17. QED
    BY <1>9, <1>10, <1>11, <1>13, <1>14, <1>15, <1>16 DEF QInv

\* What was owed is answered, or not: the thread is free again.
LEMMA AnswerInv ==
    ASSUME QInv, NEW t \in Thread, AnswerLookup(t)
    PROVE  QInv'
  <1> DEFINE acc == threads[t].account
  <1>1. threads \in [Thread -> Requests]
    BY DEF QInv, QTypeOK, Requests
  <1>2. /\ Unused \in Requests /\ Unused.pc = "free"
        /\ threads' = [threads EXCEPT ![t] = Unused]
    BY DEF Unused, Request, Requests, AnswerLookup, Freed
  <1>3. /\ usage' = usage /\ permits' = permits /\ today' = today /\ writer' = writer
        /\ IsAt(t, "paid") /\ ~IsAt(t, "generating") /\ acc \in Account /\ t \in Owed(acc)
    BY DEF AnswerLookup, IsAt, Owed, QInv, QTypeOK
  <1>4. /\ answered' \in [Account -> Nat]
        /\ \A account \in Account :
              answered'[account] <= IF account = acc THEN answered[account] + 1
                                    ELSE answered[account]
    BY <1>3 DEF AnswerLookup, QInv, QTypeOK
  <1>5. /\ threads' \in [Thread -> Requests] /\ threads'[t] = Unused
        /\ \A u \in Thread \ {t} : threads'[u] = threads[u]
    BY <1>1, <1>2, ThreadStep
  <1> HIDE DEF acc
  <1>6. /\ RemaindersAbove' /\ WithinLimit' /\ Distinct'
        /\ \A account \in Account :
              Cardinality(Owed(account)') =
                  IF t \in Owed(account) THEN Cardinality(Owed(account)) - 1
                  ELSE Cardinality(Owed(account))
        /\ Cardinality(Generating') = Cardinality(Generating)
    <2>1. QTypeOK /\ RemaindersAbove /\ WithinLimit /\ Covered /\ Distinct
      BY DEF QInv
    <2>2. Unused.pc \notin {"paid", "generating"}
      BY <1>2
    <2>3. QED
      BY <1>2, <1>3, <2>1, <2>2, QuietStep
  <1>7. QTypeOK'
    BY <1>2, <1>3, <1>4, <1>5 DEF QInv, QTypeOK, Requests, IsAt
  <1>8. CountIsCurrent'
    BY <1>2, <1>3, <1>5 DEF QInv, CountIsCurrent, IsAt
  <1>9. Covered'
    <2>1. ASSUME NEW account \in Account
          PROVE  answered'[account] + Cardinality(Owed(account)') <= usage'[account]
      <3>1. /\ answered[account] \in Nat /\ usage[account] \in Nat
            /\ answered'[account] \in Nat
            /\ answered[account] + Cardinality(Owed(account)) <= usage[account]
        BY <1>4 DEF QInv, QTypeOK, Covered
      <3>2. Cardinality(Owed(account)) \in Nat
        BY CountsAreNumbers
      <3>3. QED
        BY <1>3, <1>4, <1>6, <3>1, <3>2
    <2>2. QED
      BY <2>1 DEF Covered
  <1>10. SlotsKept'
    BY <1>3, <1>6 DEF SlotsKept, QInv
  <1>11. QED
    BY <1>6, <1>7, <1>8, <1>9, <1>10 DEF QInv

\* What was owed is being generated, in a slot.
LEMMA GenerateInv ==
    ASSUME QInv, NEW t \in Thread, Generate(t)
    PROVE  QInv'
  <1> DEFINE acc == threads[t].account
             r == [threads[t] EXCEPT !.pc = "generating"]
  <1>1. threads \in [Thread -> Requests] /\ threads[t] \in Requests
    BY DEF QInv, QTypeOK, Requests
  <1>2. /\ r \in Requests /\ r.pc = "generating" /\ r.account = acc
        /\ r.number = threads[t].number
        /\ threads' = [threads EXCEPT ![t] = r]
    BY <1>1 DEF Requests, Generate
  <1>3. /\ usage' = usage /\ today' = today /\ writer' = writer
        /\ permits \in Nat \ {0} /\ permits' = permits - 1
        /\ acc \in Account /\ t \in Owed(acc) /\ t \in Holders /\ t \notin Generating
    BY DEF Generate, IsAt, Owed, Holders, Generating, QInv, QTypeOK
  <1>4. /\ answered' \in [Account -> Nat]
        /\ \A account \in Account :
              answered'[account] = IF account = acc THEN answered[account] + 1
                                   ELSE answered[account]
    BY <1>3 DEF Generate, QInv, QTypeOK
  <1> HIDE DEF acc, r
  <1>5. /\ threads' \in [Thread -> Requests] /\ threads'[t] = r
        /\ \A u \in Thread \ {t} : threads'[u] = threads[u]
        /\ \A account : Owed(account)' = Owed(account) \ {t}
        /\ Generating' = Generating \cup {t} /\ Holders' = Holders \cup {t}
    BY <1>1, <1>2, ThreadStep
  <1>6. \A u \in Thread : /\ threads'[u].account = threads[u].account
                         /\ threads'[u].number = threads[u].number
    BY <1>2, <1>5 DEF acc
  <1>7. Holders' = Holders /\ Holders \subseteq Thread
    BY <1>3, <1>5 DEF Holders
  <1>8. RemaindersAbove' /\ Distinct'
    BY <1>3, <1>6, <1>7 DEF RemaindersAbove, Distinct, QInv
  <1>9. WithinLimit'
    BY <1>3 DEF WithinLimit, QInv
  <1>10. QTypeOK'
    BY <1>2, <1>3, <1>4, <1>5 DEF QInv, QTypeOK, Requests, IsAt
  <1>11. CountIsCurrent'
    BY <1>2, <1>3, <1>5 DEF QInv, CountIsCurrent, IsAt
  <1>12. Covered'
    <2>1. ASSUME NEW account \in Account
          PROVE  answered'[account] + Cardinality(Owed(account)') <= usage'[account]
      <3>1. /\ answered[account] \in Nat /\ usage[account] \in Nat
            /\ answered[account] + Cardinality(Owed(account)) <= usage[account]
        BY DEF QInv, QTypeOK, Covered
      <3>2. Cardinality(Owed(account)) \in Nat
        BY CountsAreNumbers
      <3>3. Cardinality(Owed(account)') = IF t \in Owed(account) THEN Cardinality(Owed(account)) - 1
                                          ELSE Cardinality(Owed(account))
        BY <1>5, CountsAreNumbers, FS_RemoveElement
      <3>4. QED
        BY <1>3, <1>4, <3>1, <3>2, <3>3
    <2>2. QED
      BY <2>1 DEF Covered
  <1>13. SlotsKept'
    <2>1. Cardinality(Generating') = Cardinality(Generating) + 1
      BY <1>3, <1>5, CountsAreNumbers, FS_AddElement
    <2>2. QED
      BY <1>3, <2>1, CountsAreNumbers, QuotaConstants DEF SlotsKept, QInv
  <1>14. QED
    BY <1>8, <1>9, <1>10, <1>11, <1>12, <1>13 DEF QInv

\* The slot comes back.
LEMMA ReleaseInv ==
    ASSUME QInv, NEW t \in Thread, Release(t)
    PROVE  QInv'
  <1>1. threads \in [Thread -> Requests]
    BY DEF QInv, QTypeOK, Requests
  <1>2. /\ Unused \in Requests /\ Unused.pc = "free"
        /\ threads' = [threads EXCEPT ![t] = Unused]
    BY DEF Unused, Request, Requests, Release, Freed
  <1>3. /\ usage' = usage /\ answered' = answered /\ today' = today /\ writer' = writer
        /\ permits \in Nat /\ permits' = permits + 1
        /\ IsAt(t, "generating") /\ \A account : t \notin Owed(account)
    BY DEF Release, IsAt, Owed, QInv, QTypeOK
  <1>4. /\ threads' \in [Thread -> Requests] /\ threads'[t] = Unused
        /\ \A u \in Thread \ {t} : threads'[u] = threads[u]
    BY <1>1, <1>2, ThreadStep
  <1>5. /\ RemaindersAbove' /\ WithinLimit' /\ Distinct'
        /\ \A account \in Account : Cardinality(Owed(account)') = Cardinality(Owed(account))
        /\ Cardinality(Generating') = Cardinality(Generating) - 1
    <2>1. QTypeOK /\ RemaindersAbove /\ WithinLimit /\ Covered /\ Distinct
      BY DEF QInv
    <2>2. Unused.pc \notin {"paid", "generating"}
      BY <1>2
    <2>3. QED
      BY <1>2, <1>3, <2>1, <2>2, QuietStep
  <1>6. QTypeOK'
    BY <1>2, <1>3, <1>4 DEF QInv, QTypeOK, Requests, IsAt
  <1>7. CountIsCurrent'
    BY <1>2, <1>3, <1>4 DEF QInv, CountIsCurrent, IsAt
  <1>8. Covered'
    BY <1>3, <1>5 DEF Covered, QInv
  <1>9. SlotsKept'
    BY <1>3, <1>5, CountsAreNumbers, QuotaConstants DEF SlotsKept, QInv
  <1>10. QED
    BY <1>5, <1>6, <1>7, <1>8, <1>9 DEF QInv

\* A restart frees every thread and slot, and keeps the rows.
LEMMA RestartInv == QInv /\ Restart => QInv'
  <1> SUFFICES ASSUME QInv, Restart PROVE QInv'
    OBVIOUS
  <1>1. threads' = [t \in Thread |-> Unused] /\ Unused \in Requests /\ Unused.pc = "free"
    BY DEF Restart, Unused, Request, Requests
  <1>2. QTypeOK'
    BY <1>1, QuotaConstants DEF Restart, QInv, QTypeOK, Requests, IsAt
  <1>3. Holders' = {} /\ Generating' = {} /\ \A account : Owed(account)' = {}
    BY <1>1 DEF Holders, Generating, Owed, IsAt
  <1>4. CountIsCurrent'
    BY <1>1 DEF CountIsCurrent, IsAt
  <1>5. RemaindersAbove' /\ Distinct' /\ WithinLimit'
    BY <1>3 DEF RemaindersAbove, Distinct, WithinLimit, Restart, QInv
  <1>6. Covered'
    <2>1. ASSUME NEW account \in Account
          PROVE  answered'[account] + Cardinality(Owed(account)') <= usage'[account]
      <3>1. /\ answered[account] \in Nat /\ usage[account] \in Nat
            /\ answered[account] + Cardinality(Owed(account)) <= usage[account]
        BY DEF QInv, QTypeOK, Covered
      <3>2. Cardinality(Owed(account)) \in Nat /\ Cardinality(Owed(account)') = 0
        BY <1>3, CountsAreNumbers, FS_EmptySet
      <3>3. answered' = answered /\ usage' = usage
        BY DEF Restart
      <3>4. QED
        BY <3>1, <3>2, <3>3
    <2>2. QED
      BY <2>1 DEF Covered
  <1>7. SlotsKept'
    BY <1>3, FS_EmptySet, QuotaConstants DEF SlotsKept, Restart
  <1>8. QED
    BY <1>2, <1>4, <1>5, <1>6, <1>7 DEF QInv

LEMMA MidnightInv == QInv /\ (Midnight \/ UNCHANGED quotaVars) => QInv'
  <1> SUFFICES ASSUME QInv, Midnight \/ UNCHANGED quotaVars PROVE QInv'
    OBVIOUS
  <1>1. /\ UNCHANGED <<usage, writer, threads, permits, answered>> /\ today' \in Day
    BY QuotaConstants DEF Midnight, quotaVars, Day, QInv, QTypeOK
  <1>2. Holders' = Holders /\ Generating' = Generating /\ \A account : Owed(account)' = Owed(account)
    BY <1>1 DEF Holders, Generating, Owed, IsAt
  <1>3. QTypeOK' /\ CountIsCurrent'
    BY <1>1 DEF QInv, QTypeOK, CountIsCurrent, IsAt
  <1>4. RemaindersAbove' /\ Distinct' /\ WithinLimit' /\ Covered' /\ SlotsKept'
    BY <1>1, <1>2 DEF RemaindersAbove, Distinct, WithinLimit, Covered, SlotsKept, QInv
  <1>5. QED
    BY <1>3, <1>4 DEF QInv

-----------------------------------------------------------------------------
(* Theorems.                                                               *)

\* Whatever requests, midnight and restarts interleave, each thread that counts
\* alone has the lock and each payment is matched by the row.
THEOREM QuotaInvariant == QuotaSpec => []QInv
  <1>1. QuotaInit => QInv
    BY InitInv
  <1>2. QInv /\ [QuotaNext]_quotaVars => QInv'
    BY QuietInv, CommitInv, AnswerInv, GenerateInv, ReleaseInv, RestartInv, MidnightInv
       DEF QuotaNext
  <1>3. QED
    BY <1>1, <1>2, PTL DEF QuotaSpec

\* The answers and documents of every account and day were paid for, one by one
\* and within the limit, and no slot is lost (consume_quota and web_generate).
THEOREM AnswersArePaid == QuotaSpec => []EveryAnswerIsPaid
  <1>1. QInv => EveryAnswerIsPaid
    BY DEF QInv, WithinLimit, Covered, Distinct, SlotsKept, EveryAnswerIsPaid
  <1>2. QED
    BY <1>1, QuotaInvariant, PTL

-------------------------------------------------------------------------------
(***************************************************************************)
(* A page that says `ready` is right, for any number of hosts, candidates, *)
(* datasets and changes.                                                   *)
(*                                                                         *)
(* Counts say which dataset they speak of, and no dataset comes back.  As  *)
(* long as that dataset is there, a candidate that had no gap when its     *)
(* rows were counted has none; it does not matter which candidate has been *)
(* linked meanwhile, since the counts also say whose rows were counted.    *)
(* The invariant carries this from the scan over the snapshot to the       *)
(* answer, where the dataset is compared for the last time.                *)
(***************************************************************************)

\* What counts of a shard claim of a host while its dataset is the counted one.
Holds(h, s, counts) ==
    /\ counts.dataset <= dataset[h]
    /\ counts.dataset = dataset[h] /\ ~counts.open => <<counts.digest, s>> \in complete[h]

ScansHold ==
    \A h \in Host :
        /\ scan[h].pc # "off" => scan[h].dataset <= dataset[h]
        /\ scan[h].pc \in {"counted", "same"} => Holds(h, scan[h].shard, scan[h])

SnapshotsHold ==
    \A h \in Host, s \in Shard : snapshot[h][s].kept => Holds(h, s, snapshot[h][s])

\* Before the dataset is compared the counts hold of it; from then on what they
\* say of gaps is known to be right.
AnswersHold ==
    \A h \in Host :
        /\ answer[h].pc = "dataset" => Holds(h, answer[h].shard, answer[h].counts)
        /\ answer[h].pc \in {"candidate", "digest", "again"} =>
              (~answer[h].counts.open => answer[h].true)
        /\ answer[h].pc = "answered" /\ answer[h].counted =>
              (~answer[h].open => answer[h].true)

PInv == PTypeOK /\ ScansHold /\ SnapshotsHold /\ AnswersHold /\ ReadyIsTrue

-----------------------------------------------------------------------------
(* What the type invariant says of a record by its `pc`.                   *)

\* A scan under way has noted its files, and one that has counted has counts.
LEMMA ScanFields ==
    ASSUME NEW x \in Scan
    PROVE  /\ x.pc \in {"off", "stated", "counted", "same"}
           /\ x.pc = "off" => x = NoScan
           /\ x.pc # "off" => x.shard \in Shard /\ x.dataset \in Nat /\ x.candidate \in Candidate
           /\ x.pc \in {"counted", "same"} => x.digest \in Candidate /\ x.open \in BOOLEAN
  BY DEF Scan, NoScan

\* Only counts are kept, and they have every field.
LEMMA CountsFields ==
    ASSUME NEW x \in Counts \cup {NoCounts}
    PROVE  /\ x.kept \in BOOLEAN
           /\ x.kept => /\ x \in Counts /\ x.dataset \in Nat /\ x.digest \in Candidate
                        /\ x.open \in BOOLEAN
  <1>1. CASE x \in Counts
    BY <1>1 DEF Counts
  <1>2. CASE x = NoCounts
    <2>1. x.kept = FALSE
      BY <1>2 DEF NoCounts
    <2> QED
      BY <2>1
  <1> QED
    BY <1>1, <1>2

\* The stages of an answer and what it carries in each.
LEMMA AnswerFields ==
    ASSUME NEW x \in Answer
    PROVE  /\ x.pc \in {"none", "asked", "failed", "dataset", "candidate", "digest",
                        "again", "answered"}
           /\ x.pc \in {"dataset", "candidate", "digest", "again"} =>
                 /\ x.shard \in Shard /\ x.counts \in Counts
                 /\ x.counts.dataset \in Nat /\ x.counts.digest \in Candidate
                 /\ x.counts.open \in BOOLEAN
           /\ x.pc \in {"candidate", "digest", "again"} => x.true \in BOOLEAN
           /\ x.pc = "answered" =>
                 /\ x.shard \in Shard /\ x.counted \in BOOLEAN
                 /\ x.counted => /\ x.digest \in Candidate /\ x.open \in BOOLEAN
                                 /\ x.true \in BOOLEAN
  <1>1. CASE x \in {NoAnswer, Asked, Failed}
    BY <1>1 DEF NoAnswer, Asked, Failed
  <1>2. CASE \E s \in Shard : x = Plain(s)
    BY <1>2 DEF Plain
  <1>3. CASE x \in [pc : {"dataset"}, shard : Shard, counts : Counts]
    BY <1>3 DEF Counts
  <1>4. CASE x \in [pc : {"candidate", "digest", "again"}, shard : Shard, counts : Counts,
                    true : BOOLEAN]
    BY <1>4 DEF Counts
  <1>5. CASE x \in [pc : {"answered"}, shard : Shard, counted : {TRUE}, digest : Candidate,
                    open : BOOLEAN, true : BOOLEAN]
    BY <1>5
  <1> QED
    BY <1>1, <1>2, <1>3, <1>4, <1>5 DEF Answer

-----------------------------------------------------------------------------
(* The invariant holds at first.                                           *)

LEMMA PageInit == PInit => PInv
  <1> SUFFICES ASSUME PInit PROVE PInv
    OBVIOUS
  <1>1. PTypeOK
    <2>1. NoScan \in Scan /\ NoAnswer \in Answer
      BY DEF Scan, Answer
    <2> QED
      BY <2>1 DEF PInit, PTypeOK, NoPage
  <1>2. ScansHold /\ SnapshotsHold /\ AnswersHold /\ ReadyIsTrue
    BY DEF PInit, ScansHold, SnapshotsHold, AnswersHold, ReadyIsTrue, NoScan, NoCounts,
           NoAnswer, NoPage
  <1> QED
    BY <1>1, <1>2 DEF PInv

-----------------------------------------------------------------------------
(* What changes under the programs.                                        *)

\* If nothing but the files changes, no dataset comes back and no gap opens in
\* one, all counts hold as before.
LEMMA CountsLast ==
    ASSUME PInv, PTypeOK', UNCHANGED <<scan, snapshot, answer, page>>,
           \A h \in Host : \/ dataset'[h] > dataset[h]
                           \/ dataset'[h] = dataset[h] /\ complete[h] \subseteq complete'[h]
    PROVE  PInv'
  <1>1. ASSUME NEW h \in Host, NEW s, NEW counts, counts.dataset \in Nat, Holds(h, s, counts)
        PROVE  counts.dataset <= dataset'[h]
               /\ (counts.dataset = dataset'[h] /\ ~counts.open =>
                      <<counts.digest, s>> \in complete'[h])
    <2>1. dataset[h] \in Nat /\ dataset'[h] \in Nat
      BY DEF PInv, PTypeOK
    <2> QED
      BY <1>1, <2>1 DEF Holds
  <1>2. ScansHold'
    <2> SUFFICES ASSUME NEW h \in Host
                 PROVE  /\ scan[h].pc # "off" => scan[h].dataset <= dataset'[h]
                        /\ scan[h].pc \in {"counted", "same"} =>
                              /\ scan[h].dataset <= dataset'[h]
                              /\ scan[h].dataset = dataset'[h] /\ ~scan[h].open =>
                                    <<scan[h].digest, scan[h].shard>> \in complete'[h]
      BY DEF ScansHold, Holds
    <2>1. scan[h] \in Scan /\ dataset[h] \in Nat /\ dataset'[h] \in Nat
      BY DEF PInv, PTypeOK
    <2>2. scan[h].pc # "off" => scan[h].dataset \in Nat /\ scan[h].dataset <= dataset'[h]
      BY <2>1, ScanFields DEF PInv, ScansHold
    <2> QED
      BY <1>1, <2>2 DEF PInv, ScansHold
  <1>3. SnapshotsHold'
    <2> SUFFICES ASSUME NEW h \in Host, NEW s \in Shard, snapshot[h][s].kept
                 PROVE  /\ snapshot[h][s].dataset <= dataset'[h]
                        /\ snapshot[h][s].dataset = dataset'[h] /\ ~snapshot[h][s].open =>
                              <<snapshot[h][s].digest, s>> \in complete'[h]
      BY DEF SnapshotsHold, Holds
    <2>1. snapshot[h][s] \in Counts \cup {NoCounts}
      BY DEF PInv, PTypeOK
    <2>2. snapshot[h][s].dataset \in Nat
      BY <2>1, CountsFields
    <2> QED
      BY <1>1, <2>2 DEF PInv, SnapshotsHold
  <1>4. AnswersHold'
    <2> SUFFICES ASSUME NEW h \in Host, answer[h].pc = "dataset"
                 PROVE  LET counts == answer[h].counts
                        IN /\ counts.dataset <= dataset'[h]
                           /\ counts.dataset = dataset'[h] /\ ~counts.open =>
                                 <<counts.digest, answer[h].shard>> \in complete'[h]
      BY DEF PInv, AnswersHold, Holds
    <2>1. answer[h] \in Answer
      BY DEF PInv, PTypeOK
    <2>2. answer[h].counts.dataset \in Nat
      BY <2>1, AnswerFields
    <2> QED
      BY <1>1, <2>2 DEF PInv, AnswersHold
  <1>5. ReadyIsTrue'
    BY DEF PInv, ReadyIsTrue
  <1> QED
    BY <1>2, <1>3, <1>4, <1>5 DEF PInv

LEMMA FilesChange ==
    ASSUME PInv, NEW h \in Host, Relink(h) \/ ReplaceDataset(h) \/ FillGaps(h)
    PROVE  PInv'
  <1>1. CASE Relink(h)
    <2>1. PTypeOK'
      BY <1>1 DEF PInv, PTypeOK, Relink, Change, Event
    <2> QED
      BY <1>1, <2>1, CountsLast DEF Relink, Change, PInv, PTypeOK
  <1>2. CASE ReplaceDataset(h)
    <2>1. PTypeOK'
      BY <1>2 DEF PInv, PTypeOK, ReplaceDataset, Change, Event
    <2>2. \A k \in Host : \/ dataset'[k] > dataset[k]
                          \/ dataset'[k] = dataset[k] /\ complete[k] \subseteq complete'[k]
      BY <1>2 DEF PInv, PTypeOK, ReplaceDataset
    <2> QED
      BY <1>2, <2>1, <2>2, CountsLast DEF ReplaceDataset, Change
  <1>3. CASE FillGaps(h)
    <2>1. PICK s \in Serves[h] : complete' = [complete EXCEPT ![h] = @ \cup {<<link[h], s>>}]
      BY <1>3 DEF FillGaps
    <2>2. s \in Shard /\ link[h] \in Candidate
      BY <1>3, <2>1, PageConstants DEF FillGaps, PInv, PTypeOK
    <2>3. PTypeOK'
      BY <1>3, <2>1, <2>2 DEF PInv, PTypeOK, FillGaps
    <2>4. \A k \in Host : dataset'[k] = dataset[k] /\ complete[k] \subseteq complete'[k]
      BY <1>3, <2>1 DEF PInv, PTypeOK, FillGaps
    <2> QED
      BY <1>3, <2>3, <2>4, CountsLast DEF FillGaps
  <1> QED
    BY <1>1, <1>2, <1>3

-----------------------------------------------------------------------------
(* The scans of a host.                                                    *)

\* A scan may go on to a state that holds of its host.
LEMMA ScanMoves ==
    ASSUME PInv, NEW h \in Host, NEW next \in Scan, Scanning(h, next), UNCHANGED snapshot,
           events' \in [Host -> Nat],
           next.pc # "off" => next.dataset <= dataset[h],
           next.pc \in {"counted", "same"} => Holds(h, next.shard, next)
    PROVE  PInv'
  <1>1. /\ UNCHANGED <<link, dataset, complete, snapshot, answer, page>>
        /\ scan' = [scan EXCEPT ![h] = next]
    BY DEF Scanning, files
  <1>2. PTypeOK'
    BY <1>1 DEF PInv, PTypeOK
  <1>3. ScansHold'
    BY <1>1 DEF PInv, PTypeOK, ScansHold, Holds
  <1>4. SnapshotsHold' /\ AnswersHold' /\ ReadyIsTrue'
    BY <1>1 DEF PInv, SnapshotsHold, AnswersHold, ReadyIsTrue, Holds
  <1> QED
    BY <1>2, <1>3, <1>4 DEF PInv

LEMMA ScanStarts ==
    ASSUME PInv, NEW h \in Host, NEW s \in Shard, StartScan(h, s)
    PROVE  PInv'
  <1> DEFINE next == [pc |-> "stated", shard |-> s, dataset |-> dataset[h],
                      candidate |-> link[h]]
  <1>1. link[h] \in Candidate /\ dataset[h] \in Nat
    BY DEF StartScan, PInv, PTypeOK
  <1>2. next \in Scan /\ next.pc = "stated" /\ next.dataset <= dataset[h]
    BY <1>1 DEF Scan
  <1>3. events' \in [Host -> Nat]
    BY DEF StartScan, Event, PInv, PTypeOK
  <1>4. Scanning(h, next) /\ UNCHANGED snapshot
    BY DEF StartScan
  <1> HIDE DEF next
  <1> QED
    BY <1>2, <1>3, <1>4, ScanMoves

\* The count is right for the dataset that is there when it is made.
LEMMA ScanCounts ==
    ASSUME PInv, NEW h \in Host, CountGaps(h)
    PROVE  PInv'
  <1> DEFINE open == <<link[h], scan[h].shard>> \notin complete[h]
             next == Counting(h, "counted", link[h], open)
  <1>1. /\ scan[h] \in Scan /\ link[h] \in Candidate /\ scan[h].pc = "stated"
        /\ Scanning(h, next) /\ UNCHANGED <<snapshot, events>> /\ events \in [Host -> Nat]
    BY DEF CountGaps, PInv, PTypeOK
  <1>2. /\ scan[h].shard \in Shard /\ scan[h].dataset \in Nat /\ scan[h].candidate \in Candidate
        /\ scan[h].dataset <= dataset[h]
    BY <1>1, ScanFields DEF PInv, ScansHold
  <1>3. /\ next \in Scan /\ next.pc = "counted" /\ next.dataset = scan[h].dataset
        /\ next.shard = scan[h].shard /\ next.digest = link[h] /\ next.open = open
    BY <1>1, <1>2 DEF Scan, Counting
  <1>4. Holds(h, next.shard, next)
    BY <1>2, <1>3 DEF Holds
  <1> HIDE DEF next
  <1> QED
    BY <1>1, <1>2, <1>3, <1>4, ScanMoves

LEMMA ScanCompares ==
    ASSUME PInv, NEW h \in Host, SameDataset(h)
    PROVE  PInv'
  <1> DEFINE next == Counting(h, "same", scan[h].digest, scan[h].open)
  <1>1. /\ scan[h] \in Scan /\ scan[h].pc = "counted"
        /\ Scanning(h, next) /\ UNCHANGED <<snapshot, events>> /\ events \in [Host -> Nat]
    BY DEF SameDataset, PInv, PTypeOK
  <1>2. /\ scan[h].shard \in Shard /\ scan[h].dataset \in Nat /\ scan[h].candidate \in Candidate
        /\ scan[h].digest \in Candidate /\ scan[h].open \in BOOLEAN
        /\ Holds(h, scan[h].shard, scan[h])
    BY <1>1, ScanFields DEF PInv, ScansHold
  <1>3. /\ next \in Scan /\ next.pc = "same" /\ next.dataset = scan[h].dataset
        /\ next.shard = scan[h].shard /\ next.digest = scan[h].digest
        /\ next.open = scan[h].open
    BY <1>2 DEF Scan, Counting
  <1>4. Holds(h, next.shard, next)
    BY <1>2, <1>3 DEF Holds
  <1> HIDE DEF next
  <1> QED
    BY <1>1, <1>3, <1>4, ScanMoves DEF Holds

LEMMA ScanIsDropped ==
    ASSUME PInv, NEW h \in Host, DropScan(h)
    PROVE  PInv'
  <1>1. /\ NoScan \in Scan /\ NoScan.pc = "off" /\ Scanning(h, NoScan)
        /\ UNCHANGED <<snapshot, events>> /\ events \in [Host -> Nat]
    BY DEF DropScan, Scan, NoScan, PInv, PTypeOK
  <1> QED
    BY <1>1, ScanMoves

\* What is kept is what the scan has counted.
LEMMA ScanIsKept ==
    ASSUME PInv, NEW h \in Host, KeepCounts(h)
    PROVE  PInv'
  <1> DEFINE kept == [kept |-> TRUE, dataset |-> scan[h].dataset,
                      candidate |-> scan[h].candidate, digest |-> scan[h].digest,
                      open |-> scan[h].open]
             s == scan[h].shard
  <1>1. /\ snapshot' = [snapshot EXCEPT ![h][s] = kept]
        /\ scan' = [scan EXCEPT ![h] = NoScan]
        /\ UNCHANGED <<link, dataset, complete, events, answer, page>>
    BY DEF KeepCounts, Scanning, files
  <1>2. /\ s \in Shard /\ scan[h].dataset \in Nat /\ scan[h].candidate \in Candidate
        /\ scan[h].digest \in Candidate /\ scan[h].open \in BOOLEAN
        /\ Holds(h, s, scan[h])
    BY ScanFields DEF KeepCounts, PInv, PTypeOK, ScansHold
  <1>3. /\ kept \in Counts /\ kept.dataset = scan[h].dataset /\ kept.digest = scan[h].digest
        /\ kept.open = scan[h].open
    BY <1>2 DEF Counts
  <1>4. Holds(h, s, kept)
    BY <1>2, <1>3 DEF Holds
  <1> HIDE DEF kept, s
  <1>5. NoScan \in Scan /\ NoScan.pc = "off"
    BY DEF Scan, NoScan
  <1>6. PTypeOK'
    BY <1>1, <1>2, <1>3, <1>5 DEF PInv, PTypeOK
  <1>7. ScansHold'
    BY <1>1, <1>5 DEF PInv, PTypeOK, ScansHold, Holds
  <1>8. SnapshotsHold'
    <2> SUFFICES ASSUME NEW k \in Host, NEW t \in Shard, snapshot'[k][t].kept
                 PROVE  Holds(k, t, snapshot'[k][t])
      BY <1>1 DEF SnapshotsHold, Holds
    <2>1. CASE k = h /\ t = s
      BY <1>1, <1>4, <2>1 DEF PInv, PTypeOK
    <2>2. CASE ~(k = h /\ t = s)
      <3>1. snapshot'[k][t] = snapshot[k][t]
        BY <1>1, <2>2 DEF PInv, PTypeOK
      <3> QED
        BY <3>1 DEF PInv, SnapshotsHold
    <2> QED
      BY <2>1, <2>2
  <1>9. AnswersHold' /\ ReadyIsTrue'
    BY <1>1 DEF PInv, AnswersHold, ReadyIsTrue, Holds
  <1> QED
    BY <1>6, <1>7, <1>8, <1>9 DEF PInv

LEMMA CountsExpire ==
    ASSUME PInv, NEW h \in Host, NEW s \in Shard, Outdate(h, s)
    PROVE  PInv'
  <1>1. /\ snapshot' = [snapshot EXCEPT ![h][s] = NoCounts]
        /\ UNCHANGED <<link, dataset, complete, events, scan, answer, page>>
    BY DEF Outdate, files
  <1>2. NoCounts.kept = FALSE
    BY DEF NoCounts
  <1>3. PTypeOK'
    BY <1>1 DEF PInv, PTypeOK
  <1>4. SnapshotsHold'
    <2> SUFFICES ASSUME NEW k \in Host, NEW t \in Shard, snapshot'[k][t].kept
                 PROVE  Holds(k, t, snapshot'[k][t])
      BY <1>1 DEF SnapshotsHold, Holds
    <2>1. snapshot'[k][t] = IF k = h /\ t = s THEN NoCounts ELSE snapshot[k][t]
      BY <1>1 DEF PInv, PTypeOK
    <2>2. snapshot'[k][t] = snapshot[k][t]
      BY <1>2, <2>1
    <2> QED
      BY <2>2 DEF PInv, SnapshotsHold
  <1>5. ScansHold' /\ AnswersHold' /\ ReadyIsTrue'
    BY <1>1 DEF PInv, ScansHold, AnswersHold, ReadyIsTrue, Holds
  <1> QED
    BY <1>3, <1>4, <1>5 DEF PInv

-----------------------------------------------------------------------------
(* The API of a host.                                                      *)

\* What an answer in some state vouches for.
Vouches(h, x) ==
    /\ x.pc = "dataset" => Holds(h, x.shard, x.counts)
    /\ x.pc \in {"candidate", "digest", "again"} => (~x.counts.open => x.true)
    /\ x.pc = "answered" /\ x.counted => (~x.open => x.true)

\* A request may go on to a state that vouches for what it should.
LEMMA AnswerMoves ==
    ASSUME PInv, NEW h \in Host, NEW next \in Answer, Answering(h, next), Vouches(h, next)
    PROVE  PInv'
  <1>1. /\ UNCHANGED <<link, dataset, complete, events, scan, snapshot, page>>
        /\ answer' = [answer EXCEPT ![h] = next]
    BY DEF Answering, files
  <1>2. PTypeOK'
    BY <1>1 DEF PInv, PTypeOK
  <1>3. AnswersHold'
    BY <1>1 DEF PInv, PTypeOK, AnswersHold, Vouches, Holds
  <1>4. ScansHold' /\ SnapshotsHold' /\ ReadyIsTrue'
    BY <1>1 DEF PInv, ScansHold, SnapshotsHold, ReadyIsTrue, Holds
  <1> QED
    BY <1>2, <1>3, <1>4 DEF PInv

\* An answer without counts and a failure vouch for nothing.
LEMMA NothingVouched ==
    /\ Failed \in Answer /\ \A h : Vouches(h, Failed)
    /\ \A s \in Shard : Plain(s) \in Answer /\ \A h : Vouches(h, Plain(s))
  <1>1. Failed \in Answer /\ Failed.pc = "failed"
    BY DEF Answer, Failed
  <1>2. ASSUME NEW s \in Shard
        PROVE  Plain(s) \in Answer /\ Plain(s).pc = "answered" /\ Plain(s).counted = FALSE
    BY DEF Answer, Plain
  <1>3. ASSUME NEW s \in Shard, NEW h PROVE Vouches(h, Plain(s))
    BY <1>2 DEF Vouches
  <1>4. ASSUME NEW h PROVE Vouches(h, Failed)
    BY <1>1 DEF Vouches
  <1> QED
    BY <1>1, <1>2, <1>3, <1>4

LEMMA AnswerReads ==
    ASSUME PInv, NEW h \in Host, ReadCounts(h)
    PROVE  PInv'
  <1>1. PICK s \in Serves[h] :
          Answering(h, IF ~snapshot[h][s].kept THEN Plain(s)
                       ELSE [pc |-> "dataset", shard |-> s, counts |-> snapshot[h][s]])
    BY DEF ReadCounts, NewestProgress
  <1>2. s \in Shard /\ snapshot[h][s] \in Counts \cup {NoCounts}
    BY <1>1, PageConstants DEF PInv, PTypeOK
  <1>3. CASE ~snapshot[h][s].kept
    BY <1>1, <1>2, <1>3, NothingVouched, AnswerMoves
  <1>4. CASE snapshot[h][s].kept
    <2> DEFINE next == [pc |-> "dataset", shard |-> s, counts |-> snapshot[h][s]]
    <2>1. snapshot[h][s] \in Counts
      BY <1>2, <1>4, CountsFields
    <2>2. next \in Answer /\ next.pc = "dataset" /\ next.shard = s /\ next.counts = snapshot[h][s]
      BY <1>2, <2>1 DEF Answer
    <2>3. Holds(h, s, snapshot[h][s])
      BY <1>2, <1>4 DEF PInv, SnapshotsHold
    <2>4. Answering(h, next)
      BY <1>1, <1>4
    <2> HIDE DEF next
    <2>5. Vouches(h, next)
      BY <2>2, <2>3 DEF Vouches
    <2> QED
      BY <2>2, <2>4, <2>5, AnswerMoves
  <1> QED
    BY <1>3, <1>4

\* A check that fails leaves a plain answer.
LEMMA AnswerChecks ==
    ASSUME PInv, NEW h \in Host, NEW here \in {"dataset", "candidate", "digest", "again"},
           NEW next, NEW passes, Check(h, here, next, passes),
           passes => next \in Answer /\ Vouches(h, next)
    PROVE  PInv'
  <1>1. answer[h] \in Answer /\ answer[h].pc = here
    BY DEF Check, PInv, PTypeOK
  <1>2. answer[h].shard \in Shard
    BY <1>1, AnswerFields
  <1>3. CASE passes
    BY <1>3, AnswerMoves DEF Check
  <1>4. CASE ~passes
    BY <1>2, <1>4, AnswerMoves, NothingVouched DEF Check
  <1> QED
    BY <1>3, <1>4

\* A request that is being validated has all it needs for the next check.
LEMMA ValidatingFields ==
    ASSUME PInv, NEW h \in Host, answer[h].pc \in {"dataset", "candidate", "digest", "again"},
           NEW pc \in {"candidate", "digest", "again"}, NEW true \in BOOLEAN,
           ~answer[h].counts.open => true
    PROVE  Validating(h, pc, true) \in Answer /\ Vouches(h, Validating(h, pc, true))
  <1> DEFINE next == Validating(h, pc, true)
  <1>1. answer[h].shard \in Shard /\ answer[h].counts \in Counts
    BY AnswerFields DEF PInv, PTypeOK
  <1>2. next \in Answer /\ next.pc = pc /\ next.counts = answer[h].counts /\ next.true = true
    BY <1>1 DEF Answer, Validating
  <1> HIDE DEF next
  <1>3. Vouches(h, next)
    BY <1>2 DEF Vouches
  <1> QED
    BY <1>2, <1>3 DEF next

\* The counted dataset is there: what the counts say of gaps is so.
LEMMA DatasetCompared ==
    ASSUME PInv, NEW h \in Host, CheckDataset(h)
    PROVE  PInv'
  <1> DEFINE true == <<answer[h].counts.digest, answer[h].shard>> \in complete[h]
             passes == dataset[h] = answer[h].counts.dataset
  <1>1. answer[h].pc = "dataset" /\ Check(h, "dataset", Validating(h, "candidate", true), passes)
    BY DEF CheckDataset, Check
  <1>2. passes => (~answer[h].counts.open => true)
    BY <1>1 DEF PInv, AnswersHold, Holds
  <1>3. true \in BOOLEAN
    OBVIOUS
  <1> HIDE DEF true
  <1>4. ASSUME passes
        PROVE  /\ Validating(h, "candidate", true) \in Answer
               /\ Vouches(h, Validating(h, "candidate", true))
    BY <1>1, <1>2, <1>3, <1>4, ValidatingFields
  <1> HIDE DEF passes
  <1> QED
    BY <1>1, <1>4, AnswerChecks

LEMMA CandidateCompared ==
    ASSUME PInv, NEW h \in Host, CheckCandidate(h) \/ CheckDigest(h)
    PROVE  PInv'
  <1>1. /\ answer[h].pc \in {"candidate", "digest"} /\ answer[h].true \in BOOLEAN
        /\ ~answer[h].counts.open => answer[h].true
    BY AnswerFields DEF CheckCandidate, CheckDigest, Check, PInv, PTypeOK, AnswersHold
  <1>2. \A pc \in {"candidate", "digest", "again"} :
           /\ Validating(h, pc, answer[h].true) \in Answer
           /\ Vouches(h, Validating(h, pc, answer[h].true))
    BY <1>1, ValidatingFields
  <1> QED
    BY <1>2, AnswerChecks DEF CheckCandidate, CheckDigest

LEMMA AnswerGiven ==
    ASSUME PInv, NEW h \in Host, CheckAgain(h)
    PROVE  PInv'
  <1> DEFINE next == [pc |-> "answered", shard |-> answer[h].shard, counted |-> TRUE,
                      digest |-> answer[h].counts.digest, open |-> answer[h].counts.open,
                      true |-> answer[h].true]
             passes == link[h] = answer[h].counts.candidate
  <1>1. Check(h, "again", next, passes) /\ answer[h].pc = "again"
    BY DEF CheckAgain, Check
  <1>2. /\ answer[h].shard \in Shard /\ answer[h].true \in BOOLEAN
        /\ answer[h].counts.digest \in Candidate /\ answer[h].counts.open \in BOOLEAN
        /\ ~answer[h].counts.open => answer[h].true
    BY <1>1, AnswerFields DEF PInv, PTypeOK, AnswersHold
  <1>3. /\ next \in Answer /\ next.pc = "answered" /\ next.open = answer[h].counts.open
        /\ next.true = answer[h].true
    BY <1>2 DEF Answer
  <1> HIDE DEF next, passes
  <1>4. Vouches(h, next)
    BY <1>2, <1>3 DEF Vouches
  <1> QED
    BY <1>1, <1>3, <1>4, AnswerChecks

LEMMA AnswerLost ==
    ASSUME PInv, NEW h \in Host, LoseAnswer(h)
    PROVE  PInv'
  BY NothingVouched, AnswerMoves DEF LoseAnswer

-----------------------------------------------------------------------------
(* The Worker.                                                             *)

LEMMA HostsAsked ==
    ASSUME PInv, Ask
    PROVE  PInv'
  <1>1. /\ UNCHANGED <<link, dataset, complete, events, scan, snapshot, page>>
        /\ answer' = [h \in Host |-> Asked]
    BY DEF Ask, files
  <1>2. Asked \in Answer /\ Asked.pc = "asked"
    BY DEF Answer, Asked
  <1>3. PTypeOK' /\ AnswersHold'
    BY <1>1, <1>2 DEF PInv, PTypeOK, AnswersHold
  <1>4. ScansHold' /\ SnapshotsHold' /\ ReadyIsTrue'
    BY <1>1 DEF PInv, ScansHold, SnapshotsHold, ReadyIsTrue, Holds
  <1> QED
    BY <1>3, <1>4 DEF PInv

\* The page is ready only on answers with counts of one full candidate, none of
\* which leaves a gap, for every shard.
LEMMA PageIsTrue ==
    ASSUME PInv, AllShards
    PROVE  /\ Combined.ready \in BOOLEAN
           /\ Combined.ready => Combined.true /\ \E c \in Full : Combined.digests = {c}
  <1> DEFINE ready == Digests \subseteq Full /\ \A h \in Host : ~answer[h].open
             true == \A s \in Shard : \E h \in Host : answer[h].shard = s /\ answer[h].true
  <1>1. CASE ~Available
    <2>1. Combined = [shown |-> TRUE, ready |-> FALSE]
      BY <1>1 DEF Combined
    <2>2. Combined.ready = FALSE
      BY <2>1
    <2> QED
      BY <2>2
  <1>2. CASE Available
    <2>1. Combined = [shown |-> TRUE, ready |-> ready, digests |-> Digests, true |-> true]
      BY <1>2 DEF Combined
    <2>2. ASSUME ready PROVE true
      <3>1. \A h \in Host : answer[h].pc = "answered" /\ answer[h].counted /\ ~answer[h].open
        BY <1>2, <2>2 DEF AllShards, Available, Counted
      <3>2. \A h \in Host : answer[h].true
        BY <3>1 DEF PInv, AnswersHold
      <3> QED
        BY <3>2 DEF AllShards
    <2>3. ASSUME ready PROVE \E c \in Full : Digests = {c}
      BY <1>2, <2>3 DEF Available
    <2> HIDE DEF ready, true
    <2>4. Combined.ready = ready /\ Combined.true = true /\ Combined.digests = Digests
      BY <2>1
    <2>5. ready \in BOOLEAN
      BY DEF ready
    <2> QED
      BY <2>2, <2>3, <2>4, <2>5
  <1> QED
    BY <1>1, <1>2

LEMMA PageCombined ==
    ASSUME PInv, Combine
    PROVE  PInv'
  <1>1. /\ UNCHANGED <<link, dataset, complete, events, scan, snapshot>>
        /\ answer' = [h \in Host |-> NoAnswer]
        /\ page' = IF AllShards THEN Combined ELSE NoPage
    BY DEF Combine, files
  <1>2. NoAnswer \in Answer /\ NoAnswer.pc = "none" /\ NoPage.ready = FALSE
    BY DEF Answer, NoAnswer, NoPage
  <1>3. page'.ready \in BOOLEAN /\ ReadyIsTrue'
    <2>1. CASE AllShards
      BY <1>1, <2>1, PageIsTrue DEF ReadyIsTrue
    <2>2. CASE ~AllShards
      <3>1. page'.ready = FALSE
        BY <1>1, <1>2, <2>2
      <3> QED
        BY <3>1 DEF ReadyIsTrue
    <2> QED
      BY <2>1, <2>2
  <1>4. PTypeOK' /\ AnswersHold'
    BY <1>1, <1>2, <1>3 DEF PInv, PTypeOK, AnswersHold
  <1>5. ScansHold' /\ SnapshotsHold'
    BY <1>1 DEF PInv, ScansHold, SnapshotsHold, Holds
  <1> QED
    BY <1>3, <1>4, <1>5 DEF PInv

LEMMA PageExpires ==
    ASSUME PInv, Expire
    PROVE  PInv'
  <1>1. UNCHANGED <<link, dataset, complete, events, scan, snapshot, answer>> /\ page' = NoPage
    BY DEF Expire, files
  <1>2. page'.ready = FALSE
    BY <1>1 DEF NoPage
  <1>3. PTypeOK' /\ ReadyIsTrue'
    BY <1>1, <1>2 DEF PInv, PTypeOK, ReadyIsTrue
  <1>4. ScansHold' /\ SnapshotsHold' /\ AnswersHold'
    BY <1>1 DEF PInv, ScansHold, SnapshotsHold, AnswersHold, Holds
  <1> QED
    BY <1>3, <1>4 DEF PInv

-----------------------------------------------------------------------------
(* The theorems.                                                           *)

\* Every step keeps the invariant: of the files, of the scans, of the answers
\* and of the page.
LEMMA PageStep ==
    ASSUME PInv, [PNext]_pvars
    PROVE  PInv'
  <1>1. CASE Ask \/ Combine \/ Expire
    BY <1>1, HostsAsked, PageCombined, PageExpires
  <1>2. ASSUME NEW h \in Host, Relink(h) \/ ReplaceDataset(h) \/ FillGaps(h)
        PROVE  PInv'
    BY <1>2, FilesChange
  <1>3. ASSUME NEW h \in Host, ScanStep(h)
        PROVE  PInv'
    BY <1>3, ScanStarts, CountsExpire, ScanCounts, ScanCompares, ScanIsKept, ScanIsDropped
       DEF ScanStep
  <1>4. ASSUME NEW h \in Host, ApiStep(h)
        PROVE  PInv'
    BY <1>4, AnswerReads, DatasetCompared, CandidateCompared, AnswerGiven, AnswerLost
       DEF ApiStep
  <1>5. CASE UNCHANGED pvars
    BY <1>5 DEF pvars, files, PInv, PTypeOK, ScansHold, SnapshotsHold, AnswersHold,
                ReadyIsTrue, Holds
  <1> QED
    BY <1>1, <1>2, <1>3, <1>4, <1>5 DEF PNext

\* Counts that are kept or being checked hold of the dataset they were made of,
\* whatever is activated, rolled back or replaced (write_quality_snapshot and
\* validate_top20k_quality_snapshot).
THEOREM PageInvariant == PSpec => []PInv
  <1>1. PInv /\ [PNext]_pvars => PInv'
    BY PageStep
  <1> QED
    BY PageInit, <1>1, PTL DEF PSpec

\* What the progress page of the Worker declares ready is complete
\* (combinedProgressResponse).
THEOREM ReadyPagesAreTrue == PSpec => []ReadyIsTrue
  <1>1. PInv => ReadyIsTrue
    BY DEF PInv
  <1> QED
    BY PageInvariant, <1>1, PTL

-------------------------------------------------------------------------------
(***************************************************************************)
(* What the invocations of the batch have sent is within what the limiter  *)
(* has leased to them, for every set of batches and terms and every quota. *)
(***************************************************************************)

AtSet == {"none", "cached", "dictionary", "waiting", "granted"} \cup Settled
ServeSet ==
    [pc : {"idle", "serving"}, lease : {"none", "asked", "granted", "refused"},
     at : [Term -> AtSet], dictionary : [Term -> {"none", "ok", "down"}],
     cost : [Term -> 0 .. MaxCost]]

\* Of the terms of an invocation that have a lease to spend, what they will send.
Ready(s, b) == {t \in TermsOf[b] : s.at[t] = "granted"}
Owes(s, b) == SumFunctionOnSet(s.cost, Ready(s, b))

\* Where the terms of an invocation are, by what has become of its lease: it is
\* asked for when all that are missing wait for it, and not again.
InPhase(s, b) ==
    /\ s.pc = "idle" => \A t \in Term : s.at[t] = "none"
    /\ s.lease = "none" =>
          \A t \in Term : s.at[t] \in {"none", "cached", "dictionary", "waiting"}
    /\ s.lease = "asked" => \A t \in Term : s.at[t] \in {"none", "cached", "waiting"}
    /\ s.lease \in {"granted", "refused"} =>
          \A t \in Term : s.at[t] \in {"none", "cached", "granted"} \cup Settled
    /\ \A t \in Term \ TermsOf[b] : s.at[t] = "none"

WInv ==
    /\ DOMAIN serving = Batch
    /\ \A b \in Batch : serving[b] \in ServeSet /\ InPhase(serving[b], b)
    /\ sent \in Nat /\ leased \in Nat
    /\ sent + Promised <= leased

LEMMA ServeFacts ==
    ASSUME NEW b \in Batch, NEW s \in ServeSet
    PROVE  /\ IsFiniteSet(TermsOf[b]) /\ TermsOf[b] \subseteq Term
           /\ \A t \in Term : s.cost[t] \in 0 .. MaxCost /\ s.cost[t] \in Nat
           /\ Owes(s, b) \in Nat
  <1>1. IsFiniteSet(TermsOf[b]) /\ TermsOf[b] \subseteq Term
    BY BatchConstants, FS_Subset
  <1>2. \A t \in Term : s.cost[t] \in 0 .. MaxCost /\ s.cost[t] \in Nat
    BY DEF ServeSet, MaxCost
  <1>3. IsFiniteSet(Ready(s, b))
    BY <1>1, FS_Subset DEF Ready
  <1>4. QED
    BY <1>1, <1>2, <1>3, SumRemove DEF Owes, Ready

\* All that is promised, if `sv` is what each batch is at.
OwedAll(sv) == SumFunctionOnSet([b \in Batch |-> Owes(sv[b], b)], Batch)

LEMMA PromisedIsOwed == Promised = OwedAll(serving) /\ Promised' = OwedAll(serving')
  BY DEF Promised, SumFunction, OwedAll, CostOf, Granted, Owes, Ready

LEMMA OwedChange ==
    ASSUME NEW old, NEW new, NEW b \in Batch,
           \A x \in Batch : old[x] \in ServeSet /\ new[x] \in ServeSet,
           \A x \in Batch \ {b} : new[x] = old[x]
    PROVE  /\ OwedAll(old) \in Nat /\ OwedAll(new) \in Nat
           /\ OwedAll(new) - Owes(new[b], b) = OwedAll(old) - Owes(old[b], b)
  <1> DEFINE e == [x \in Batch |-> Owes(new[x], x)]
             f == [x \in Batch |-> Owes(old[x], x)]
  <1>1. \A x \in Batch : e[x] \in Nat /\ f[x] \in Nat
    BY ServeFacts
  <1>2. \A x \in Batch \ {b} : e[x] = f[x]
    OBVIOUS
  <1>3. IsFiniteSet(Batch)
    BY BatchConstants
  <1>4. /\ OwedAll(old) = SumFunctionOnSet(f, Batch) /\ OwedAll(new) = SumFunctionOnSet(e, Batch)
        /\ e[b] = Owes(new[b], b) /\ f[b] = Owes(old[b], b)
    BY DEF OwedAll
  <1> HIDE DEF e, f
  <1>5. SumFunctionOnSet(e, Batch) - e[b] = SumFunctionOnSet(f, Batch) - f[b]
    BY <1>1, <1>2, <1>3, SumChange
  <1>6. SumFunctionOnSet(e, Batch) \in Nat /\ SumFunctionOnSet(f, Batch) \in Nat
    BY <1>1, <1>3, SumRemove
  <1>7. QED
    BY <1>4, <1>5, <1>6

\* A step of one invocation: nothing is promised beyond what is leased.
LEMMA BatchStep ==
    ASSUME WInv, NEW b \in Batch, NEW old, old = serving[b], NEW new \in ServeSet,
           InPhase(new, b), serving' = [serving EXCEPT ![b] = new],
           sent' \in Nat, leased' \in Nat,
           sent' + Owes(new, b) - leased' <= sent + Owes(old, b) - leased
    PROVE  WInv'
  <1>1. /\ DOMAIN serving' = Batch /\ serving'[b] = new
        /\ \A x \in Batch \ {b} : serving'[x] = serving[x]
    BY DEF WInv
  <1>2. \A x \in Batch : serving[x] \in ServeSet /\ serving'[x] \in ServeSet
    BY <1>1 DEF WInv
  <1>3. /\ OwedAll(serving) \in Nat /\ OwedAll(serving') \in Nat
        /\ OwedAll(serving') - Owes(new, b) = OwedAll(serving) - Owes(old, b)
    BY <1>1, <1>2, OwedChange
  <1>4. Owes(new, b) \in Nat /\ Owes(old, b) \in Nat
    BY <1>2, ServeFacts
  <1>5. sent + OwedAll(serving) <= leased /\ sent \in Nat /\ leased \in Nat
    BY PromisedIsOwed DEF WInv
  <1>6. sent' + OwedAll(serving') <= leased'
    BY <1>3, <1>4, <1>5
  <1>7. \A x \in Batch : InPhase(serving'[x], x)
    BY <1>1 DEF WInv
  <1>8. QED
    BY <1>1, <1>2, <1>6, <1>7, PromisedIsOwed DEF WInv, InPhase

ServeFields == {"pc", "lease", "at", "dictionary", "cost"}

LEMMA ServeShape ==
    ASSUME NEW s, s = [field \in ServeFields |-> s[field]],
           s.pc \in {"idle", "serving"}, s.lease \in {"none", "asked", "granted", "refused"},
           s.at \in [Term -> AtSet], s.dictionary \in [Term -> {"none", "ok", "down"}],
           s.cost \in [Term -> 0 .. MaxCost]
    PROVE  s \in ServeSet
  BY DEF ServeSet, ServeFields

LEMMA IdleFacts ==
    ASSUME NEW b \in Batch
    PROVE  Idle \in ServeSet /\ InPhase(Idle, b) /\ Owes(Idle, b) = 0
  <1>1. Idle \in ServeSet
    BY DEF Idle, ServeSet, AtSet, MaxCost
  <1>2. InPhase(Idle, b)
    BY BatchConstants DEF Idle, InPhase
  <1>3. Ready(Idle, b) = {}
    BY BatchConstants DEF Idle, Ready
  <1>4. QED
    BY <1>1, <1>2, <1>3, SumEmpty DEF Owes

LEMMA BatchInit == WInit => WInv
  <1> SUFFICES ASSUME WInit PROVE WInv
    OBVIOUS
  <1>1. serving = [b \in Batch |-> Idle] /\ sent = 0 /\ leased = 0
    BY DEF WInit, LInit
  <1>2. \A b \in Batch : serving[b] \in ServeSet /\ InPhase(serving[b], b)
    BY <1>1, IdleFacts
  <1> DEFINE f == [b \in Batch |-> Owes(serving[b], b)]
  <1>3. \A b \in Batch : f[b] \in 0 .. 0
    BY <1>1, IdleFacts
  <1>4. OwedAll(serving) = SumFunctionOnSet(f, Batch)
    BY DEF OwedAll
  <1>5. SumFunctionOnSet(f, Batch) = 0
    <2> HIDE DEF f
    <2>1. IsFiniteSet(Batch) /\ Cardinality(Batch) \in Nat
      BY BatchConstants, FS_CardinalityType
    <2>2. SumFunctionOnSet(f, Batch) <= 0 * Cardinality(Batch)
      BY <1>3, <2>1, SumBound
    <2>3. SumFunctionOnSet(f, Batch) \in Nat
      <3>1. \A b \in Batch : f[b] \in Nat
        BY <1>3
      <3>2. QED
        BY <2>1, <3>1, SumRemove
    <2>4. QED
      BY <2>1, <2>2, <2>3
  <1>6. QED
    BY <1>1, <1>2, <1>4, <1>5, PromisedIsOwed DEF WInv

LEMMA PostStep == ASSUME WInv, NEW b \in Batch, Post(b) PROVE WInv'
  <1>1. PICK old : old = serving[b]
    OBVIOUS
  <1>2. old \in ServeSet /\ InPhase(old, b) /\ old.pc = "idle"
    BY <1>1 DEF WInv, Post
  <1>3. PICK hits : serving' = [serving EXCEPT ![b] =
              [Idle EXCEPT !.pc = "serving",
                 !.at = [t \in Term |-> IF t \notin TermsOf[b] THEN "none"
                                        ELSE IF t \in hits THEN "cached" ELSE "dictionary"]]]
    BY DEF Post
  <1>4. PICK new : new = [Idle EXCEPT !.pc = "serving",
                 !.at = [t \in Term |-> IF t \notin TermsOf[b] THEN "none"
                                        ELSE IF t \in hits THEN "cached" ELSE "dictionary"]]
    OBVIOUS
  <1>5. new \in ServeSet
    BY <1>4, IdleFacts DEF ServeSet, AtSet, Idle
  <1>6. /\ new.pc = "serving" /\ new.lease = "none"
        /\ \A t \in Term : new.at[t] \in {"none", "cached", "dictionary"}
        /\ \A t \in Term \ TermsOf[b] : new.at[t] = "none"
    BY <1>4 DEF Idle
  <1>7. InPhase(new, b)
    BY <1>6 DEF InPhase
  <1>8. Ready(new, b) = {} /\ Ready(old, b) = {}
    BY <1>2, <1>6, BatchConstants DEF Ready, InPhase
  <1>9. Owes(new, b) = 0 /\ Owes(old, b) = 0
    BY <1>8, SumEmpty DEF Owes
  <1>10. sent' = sent /\ leased' = leased /\ sent \in Nat /\ leased \in Nat
    BY DEF Post, lvars, history, WInv
  <1>11. serving' = [serving EXCEPT ![b] = new]
    BY <1>3, <1>4
  <1>12. sent' + Owes(new, b) - leased' <= sent + Owes(old, b) - leased
    BY <1>9, <1>10
  <1>13. QED
    BY <1>1, <1>5, <1>7, <1>10, <1>11, <1>12, BatchStep

\* At most one request for each of the four names.
LEMMA NamesCost ==
    ASSUME NEW needs, NEW found PROVE Cardinality(DatamuseNames(needs, found)) \in 0 .. MaxCost
  <1> DEFINE all == {"related", "exact", "synonyms", "antonyms"}
  <1>1. all = ((({"related"} \cup {"exact"}) \cup {"synonyms"}) \cup {"antonyms"})
    OBVIOUS
  <1>2. IsFiniteSet({"related"}) /\ Cardinality({"related"}) = 1
    BY FS_Singleton
  <1>3. /\ IsFiniteSet({"related"} \cup {"exact"})
        /\ Cardinality({"related"} \cup {"exact"}) = 2
    BY <1>2, FS_AddElement
  <1>4. /\ IsFiniteSet(({"related"} \cup {"exact"}) \cup {"synonyms"})
        /\ Cardinality(({"related"} \cup {"exact"}) \cup {"synonyms"}) = 3
    BY <1>3, FS_AddElement
  <1>5. IsFiniteSet(all) /\ Cardinality(all) = 4
    BY <1>1, <1>4, FS_AddElement
  <1>6. DatamuseNames(needs, found) \in SUBSET all
    BY DEF DatamuseNames
  <1> HIDE DEF all
  <1>7. QED
    BY <1>5, <1>6, FS_Subset, FS_CardinalityType DEF MaxCost

LEMMA RegisterStep == ASSUME WInv, NEW b \in Batch, NEW t \in Term, Register(b, t) PROVE WInv'
  <1>1. PICK old : old = serving[b]
    OBVIOUS
  <1>2. old \in ServeSet /\ InPhase(old, b) /\ old.at[t] = "dictionary"
    BY <1>1 DEF WInv, Register
  <1>3. PICK last : last = \A u \in Missing(b) \ {t} : serving[b].at[u] = "waiting"
    OBVIOUS
  <1>4. PICK name \in {"none", "ok", "down"}, cost \in 0 .. MaxCost :
           serving' = [serving EXCEPT ![b].at[t] = "waiting", ![b].dictionary[t] = name,
                         ![b].cost[t] = cost, ![b].lease = IF last THEN "asked" ELSE @]
    <2>0. PICK needs : needs = NeedsOf[b][t]
      OBVIOUS
    <2>1. PICK found \in SUBSET (needs \cap DictionaryNeeds), up \in BOOLEAN :
             serving' = [serving EXCEPT
                 ![b].at[t] = "waiting",
                 ![b].dictionary[t] = IF needs \cap DictionaryNeeds = {} THEN "none"
                                      ELSE IF up THEN "ok" ELSE "down",
                 ![b].cost[t] = Cardinality(DatamuseNames(needs, found)),
                 ![b].lease = IF last THEN "asked" ELSE @]
      BY <1>3, <2>0 DEF Register
    <2>2. PICK cost \in 0 .. MaxCost : cost = Cardinality(DatamuseNames(needs, found))
      BY NamesCost
    <2>3. PICK name \in {"none", "ok", "down"} :
                 name = IF needs \cap DictionaryNeeds = {} THEN "none"
                        ELSE IF up THEN "ok" ELSE "down"
      OBVIOUS
    <2>4. QED
      BY <2>1, <2>2, <2>3
  <1>5. PICK new : new = [old EXCEPT !.at[t] = "waiting", !.dictionary[t] = name,
                            !.cost[t] = cost, !.lease = IF last THEN "asked" ELSE @]
    OBVIOUS
  <1>6. serving' = [serving EXCEPT ![b] = new]
    BY <1>1, <1>4, <1>5 DEF WInv
  <1>7. /\ new.pc = old.pc /\ new.at = [old.at EXCEPT ![t] = "waiting"]
        /\ new.dictionary = [old.dictionary EXCEPT ![t] = name]
        /\ new.cost = [old.cost EXCEPT ![t] = cost]
        /\ new.lease = IF last THEN "asked" ELSE old.lease
        /\ new = [field \in ServeFields |-> new[field]]
    BY <1>2, <1>5 DEF ServeSet, ServeFields
  <1>8. new \in ServeSet
    <2>1. /\ new.pc \in {"idle", "serving"}
          /\ new.lease \in {"none", "asked", "granted", "refused"}
          /\ new.at \in [Term -> AtSet]
      BY <1>2, <1>7 DEF ServeSet, AtSet
    <2>2. new.dictionary \in [Term -> {"none", "ok", "down"}] /\ new.cost \in [Term -> 0 .. MaxCost]
      BY <1>2, <1>7 DEF ServeSet
    <2>3. QED
      BY <1>7, <2>1, <2>2, ServeShape
  <1>9. old.lease = "none" /\ old.pc = "serving" /\ t \in TermsOf[b]
    BY <1>2 DEF InPhase, ServeSet, Settled
  <1>10. \A u \in Term : new.at[u] = IF u = t THEN "waiting" ELSE old.at[u]
    BY <1>2, <1>7 DEF ServeSet
  <1>11. last => \A u \in Term : new.at[u] \in {"none", "cached", "waiting"}
    <2>1. ASSUME last, NEW u \in Term PROVE new.at[u] \in {"none", "cached", "waiting"}
      <3>1. u \in TermsOf[b] \/ old.at[u] = "none"
        BY <1>2 DEF InPhase
      <3>2. u = t \/ old.at[u] \in {"none", "cached", "waiting"}
        BY <1>1, <1>3, <2>1, <3>1 DEF Missing
      <3>3. QED
        BY <1>10, <3>2
    <2>2. QED
      BY <2>1
  <1>12. InPhase(new, b)
    BY <1>2, <1>7, <1>9, <1>10, <1>11 DEF InPhase
  <1>13. Ready(new, b) = {} /\ Ready(old, b) = {}
    BY <1>2, <1>9, <1>10, BatchConstants DEF Ready, InPhase
  <1>14. Owes(new, b) = 0 /\ Owes(old, b) = 0
    BY <1>13, SumEmpty DEF Owes
  <1>15. sent' = sent /\ leased' = leased /\ sent \in Nat /\ leased \in Nat
    BY DEF Register, lvars, history, WInv
  <1>16. sent' + Owes(new, b) - leased' <= sent + Owes(old, b) - leased
    BY <1>14, <1>15
  <1>17. QED
    BY <1>1, <1>6, <1>8, <1>12, <1>15, <1>16, BatchStep

\* A batch never asks for more than a full bucket holds.
LEMMA TotalBound ==
    ASSUME WInv, NEW b \in Batch PROVE TotalCost(b) \in 0 .. Burst
  <1>1. PICK s \in ServeSet : s = serving[b]
    BY DEF WInv
  <1>2. PICK missing \in SUBSET TermsOf[b] : missing = Missing(b)
    BY DEF Missing
  <1>3. IsFiniteSet(missing) /\ Cardinality(missing) <= Cardinality(TermsOf[b])
    BY ServeFacts, FS_Subset
  <1>4. Cardinality(missing) \in Nat /\ Cardinality(TermsOf[b]) \in Nat
    BY <1>3, ServeFacts, FS_CardinalityType
  <1>5. \A t \in missing : s.cost[t] \in 0 .. 4 /\ s.cost[t] \in Nat
    BY ServeFacts DEF MaxCost
  <1>6. SumFunctionOnSet(s.cost, missing) <= 4 * Cardinality(missing)
    BY <1>3, <1>5, SumBound
  <1>7. SumFunctionOnSet(s.cost, missing) \in Nat
    BY <1>3, <1>5, SumRemove
  <1>8. 4 * Cardinality(TermsOf[b]) <= Burst /\ Burst \in Nat
    BY BatchConstants, LimiterConstants DEF MaxCost
  <1>9. TotalCost(b) = SumFunctionOnSet(s.cost, missing)
    BY <1>1, <1>2 DEF TotalCost, CostOf
  <1>10. QED
    BY <1>3, <1>4, <1>6, <1>7, <1>8, <1>9

\* What a batch owes when its lease is resolved.
LEMMA ResolveFacts ==
    ASSUME WInv, NEW b \in Batch, serving[b].lease = "asked",
           NEW granted \in BOOLEAN, Resolve(b, granted)
    PROVE  \E new \in ServeSet :
              /\ serving' = [serving EXCEPT ![b] = new] /\ InPhase(new, b)
              /\ Owes(serving[b], b) = 0
              /\ Owes(new, b) = IF granted THEN TotalCost(b) ELSE 0
  <1>1. PICK old : old = serving[b]
    OBVIOUS
  <1>2. old \in ServeSet /\ InPhase(old, b) /\ old.lease = "asked"
    BY <1>1 DEF WInv
  <1>3. PICK at : at = [t \in Term |-> IF old.at[t] # "waiting" THEN old.at[t]
                                   ELSE IF granted \/ old.cost[t] = 0
                                   THEN "granted" ELSE "denied"]
    OBVIOUS
  <1>4. PICK new : new = [old EXCEPT !.lease = IF granted THEN "granted" ELSE "refused", !.at = at]
    OBVIOUS
  <1>5. serving' = [serving EXCEPT ![b] = new]
    BY <1>1, <1>3, <1>4 DEF Resolve, WInv
  <1>6. /\ new.pc = old.pc /\ new.dictionary = old.dictionary /\ new.cost = old.cost
        /\ new.at = at /\ new.lease = IF granted THEN "granted" ELSE "refused"
        /\ new = [field \in ServeFields |-> new[field]]
    BY <1>2, <1>4 DEF ServeSet, ServeFields
  <1>7. \A t \in Term : old.at[t] \in {"none", "cached", "waiting"}
    BY <1>2 DEF InPhase
  <1>8. new \in ServeSet
    <2>1. at \in [Term -> AtSet]
      BY <1>3, <1>7 DEF AtSet, Settled
    <2>2. QED
      BY <1>2, <1>6, <2>1, ServeShape DEF ServeSet
  <1>9. InPhase(new, b)
    BY <1>2, <1>3, <1>6, <1>7 DEF InPhase, Settled
  <1>10. Ready(old, b) = {}
    BY <1>7, BatchConstants DEF Ready
  <1>11. Ready(new, b) = {t \in TermsOf[b] : old.at[t] = "waiting" /\ (granted \/ old.cost[t] = 0)}
    <2>1. \A t \in TermsOf[b] : new.at[t] = IF old.at[t] # "waiting" THEN old.at[t]
                     ELSE IF granted \/ old.cost[t] = 0 THEN "granted" ELSE "denied"
      BY <1>2, <1>3, <1>6, ServeFacts
    <2>2. \A t \in TermsOf[b] : old.at[t] # "granted"
      BY <1>2, <1>7, ServeFacts
    <2>3. QED
      BY <2>1, <2>2 DEF Ready
  <1>12. CASE granted
    <2>1. Ready(new, b) = Missing(b)
      BY <1>1, <1>7, <1>11, <1>12, BatchConstants DEF Missing
    <2>2. Owes(new, b) = TotalCost(b)
      BY <1>1, <1>6, <2>1 DEF Owes, TotalCost, CostOf
    <2>3. QED
      BY <1>1, <1>5, <1>8, <1>9, <1>10, <1>12, <2>2, SumEmpty DEF Owes
  <1>13. CASE ~granted
    <2>1. PICK ready \in SUBSET TermsOf[b] : ready = Ready(new, b)
      BY DEF Ready
    <2>2. \A t \in ready : old.cost[t] \in 0 .. 0 /\ old.cost[t] \in Nat
      BY <1>11, <1>13, <2>1
    <2>3. IsFiniteSet(ready) /\ Cardinality(ready) \in Nat
      BY <1>2, ServeFacts, FS_Subset, FS_CardinalityType
    <2>4. SumFunctionOnSet(old.cost, ready) <= 0 * Cardinality(ready)
      BY <2>2, <2>3, SumBound
    <2>5. SumFunctionOnSet(old.cost, ready) \in Nat
      BY <2>2, <2>3, SumRemove
    <2>6. Owes(new, b) = 0
      BY <1>6, <2>1, <2>3, <2>4, <2>5 DEF Owes
    <2>7. QED
      BY <1>1, <1>5, <1>8, <1>9, <1>10, <1>13, <2>6, SumEmpty DEF Owes
  <1>14. QED
    BY <1>12, <1>13

LEMMA LeaseStep == ASSUME WInv, NEW b \in Batch, Lease(b) PROVE WInv'
  <1>1. serving[b].lease = "asked"
    BY DEF Lease
  <1>2. PICK total : total = TotalCost(b)
    OBVIOUS
  <1>3. total \in 0 .. Burst /\ Burst \in Nat /\ leased \in Nat /\ sent \in Nat
    BY <1>2, TotalBound, LimiterConstants DEF WInv
  <1>4. PICK granted \in BOOLEAN :
            Resolve(b, granted) /\ leased' \in Nat /\ leased' >= leased + IF granted THEN total ELSE 0
    <2>1. CASE total = 0
      <3>1. Resolve(b, TRUE) /\ leased' = leased
        BY <1>2, <2>1 DEF Lease, lvars, history
      <3>2. leased' \in Nat /\ leased' >= leased + IF TRUE THEN total ELSE 0
        BY <1>3, <2>1, <3>1
      <3>3. QED
        BY <3>1, <3>2
    <2>2. CASE total # 0
      <3>1. \/ Grant(total) /\ \E arrives \in BOOLEAN : Resolve(b, arrives)
            \/ Refuse(total) /\ Resolve(b, FALSE)
            \/ Resolve(b, FALSE) /\ UNCHANGED lvars
        BY <1>2, <2>2 DEF Lease
      <3>2. CASE Grant(total) /\ \E arrives \in BOOLEAN : Resolve(b, arrives)
        <4>1. leased' = leased + total
          BY <3>2 DEF Grant
        <4>2. PICK arrives \in BOOLEAN : Resolve(b, arrives)
          BY <3>2
        <4>3. leased' >= leased + IF arrives THEN total ELSE 0
          BY <1>3, <4>1
        <4>4. leased' \in Nat
          BY <1>3, <4>1
        <4>5. QED
          BY <4>2, <4>3, <4>4
      <3>3. CASE Resolve(b, FALSE) /\ leased' = leased
        <4>1. leased' \in Nat /\ leased' >= leased + IF FALSE THEN total ELSE 0
          BY <1>3, <3>3
        <4>2. QED
          BY <3>3, <4>1
      <3>4. QED
        BY <3>1, <3>2, <3>3 DEF Refuse, lvars, history
    <2>3. QED
      BY <2>1, <2>2
  <1>5. PICK new \in ServeSet :
              /\ serving' = [serving EXCEPT ![b] = new] /\ InPhase(new, b)
              /\ Owes(serving[b], b) = 0
              /\ Owes(new, b) = IF granted THEN TotalCost(b) ELSE 0
    BY <1>1, <1>4, ResolveFacts
  <1>6. PICK old : old = serving[b] /\ Owes(old, b) = 0
    BY <1>5
  <1>7. sent' = sent
    BY <1>4 DEF Resolve
  <1>8. sent' + Owes(new, b) - leased' <= sent + Owes(old, b) - leased
    BY <1>2, <1>3, <1>4, <1>5, <1>6, <1>7
  <1>9. QED
    BY <1>3, <1>4, <1>5, <1>6, <1>7, <1>8, BatchStep

LEMMA FetchStep == ASSUME WInv, NEW b \in Batch, NEW t \in Term, Fetch(b, t) PROVE WInv'
  <1>1. PICK old : old = serving[b]
    OBVIOUS
  <1>2. old \in ServeSet /\ InPhase(old, b) /\ old.at[t] = "granted"
    BY <1>1 DEF WInv, Fetch
  <1>3. PICK outcome \in {"ok", "failed"} : serving' = [serving EXCEPT ![b].at[t] = outcome]
    BY DEF Fetch
  <1>4. PICK new : new = [old EXCEPT !.at[t] = outcome]
    OBVIOUS
  <1>5. serving' = [serving EXCEPT ![b] = new]
    BY <1>1, <1>3, <1>4 DEF WInv
  <1>6. /\ new.pc = old.pc /\ new.dictionary = old.dictionary /\ new.cost = old.cost
        /\ new.at = [old.at EXCEPT ![t] = outcome] /\ new.lease = old.lease
        /\ new = [field \in ServeFields |-> new[field]]
    BY <1>2, <1>4 DEF ServeSet, ServeFields
  <1>7. new \in ServeSet
    <2>1. new.at \in [Term -> AtSet]
      BY <1>2, <1>6 DEF ServeSet, AtSet, Settled
    <2>2. QED
      BY <1>2, <1>6, <2>1, ServeShape DEF ServeSet
  <1>8. \A u \in Term : new.at[u] = IF u = t THEN outcome ELSE old.at[u]
    BY <1>2, <1>6 DEF ServeSet
  <1>9. old.lease \in {"granted", "refused"} /\ old.pc = "serving" /\ t \in TermsOf[b]
    BY <1>2 DEF InPhase, ServeSet, Settled
  <1>10. InPhase(new, b)
    BY <1>2, <1>6, <1>8, <1>9 DEF InPhase, Settled
  <1>11. /\ t \in Ready(old, b) /\ Ready(new, b) = Ready(old, b) \ {t}
         /\ IsFiniteSet(Ready(old, b)) /\ Ready(old, b) \subseteq Term
    <2>1. TermsOf[b] \subseteq Term /\ IsFiniteSet(TermsOf[b])
      BY <1>2, ServeFacts
    <2>2. IsFiniteSet(Ready(old, b))
      BY <2>1, FS_Subset DEF Ready
    <2>3. QED
      BY <1>2, <1>8, <1>9, <2>1, <2>2 DEF Ready
  <1>12. Owes(old, b) = old.cost[t] + Owes(new, b)
    <2>1. PICK ready : ready = Ready(old, b)
      OBVIOUS
    <2>2. \A u \in ready : old.cost[u] \in Nat
      BY <1>2, <1>11, <2>1, ServeFacts
    <2>3. SumFunctionOnSet(old.cost, ready)
            = old.cost[t] + SumFunctionOnSet(old.cost, ready \ {t})
      BY <1>11, <2>1, <2>2, SumRemove
    <2>4. QED
      BY <1>6, <1>11, <2>1, <2>3 DEF Owes
  <1>13. /\ sent' = sent + old.cost[t] /\ leased' = leased
         /\ sent \in Nat /\ leased \in Nat
    BY <1>1 DEF Fetch, lvars, history, WInv
  <1>14. old.cost[t] \in Nat /\ Owes(new, b) \in Nat
    BY <1>2, <1>7, ServeFacts
  <1>15. sent' + Owes(new, b) - leased' <= sent + Owes(old, b) - leased /\ sent' \in Nat
    BY <1>12, <1>13, <1>14
  <1>16. QED
    BY <1>1, <1>5, <1>7, <1>10, <1>13, <1>15, BatchStep

LEMMA EndStep == ASSUME WInv, NEW b \in Batch, Reply(b) \/ Cancel(b) PROVE WInv'
  <1>1. PICK old \in ServeSet : old = serving[b] /\ InPhase(old, b)
    BY DEF WInv
  <1>2. serving' = [serving EXCEPT ![b] = Idle] /\ leased' = leased
    BY DEF Reply, Cancel, lvars, history
  <1>3. PICK begun \in SUBSET Ready(old, b) : sent' = sent + SumFunctionOnSet(old.cost, begun)
    <2>1. CASE Reply(b)
      <3>1. sent' = sent /\ sent \in Nat
        BY <2>1 DEF Reply, WInv
      <3>2. SumFunctionOnSet(old.cost, {}) = 0
        BY SumEmpty
      <3>3. QED
        BY <3>1, <3>2
    <2>2. CASE Cancel(b)
      BY <1>1, <2>2 DEF Cancel, CostOf, Granted, Ready
    <2>3. QED
      BY <2>1, <2>2
  <1>4. /\ Idle \in ServeSet /\ InPhase(Idle, b) /\ Owes(Idle, b) = 0
    BY IdleFacts
  <1>5. PICK ready : ready = Ready(old, b)
    OBVIOUS
  <1>6. IsFiniteSet(ready) /\ \A t \in ready : old.cost[t] \in Nat
    <2>1. IsFiniteSet(TermsOf[b]) /\ TermsOf[b] \subseteq Term /\ ready \in SUBSET TermsOf[b]
      BY <1>5, ServeFacts DEF Ready
    <2>2. IsFiniteSet(ready)
      BY <2>1, FS_Subset
    <2>3. QED
      BY <2>1, <2>2, ServeFacts
  <1>7. SumFunctionOnSet(old.cost, begun) <= SumFunctionOnSet(old.cost, ready)
    BY <1>3, <1>5, <1>6, SumPart
  <1>8. SumFunctionOnSet(old.cost, begun) \in Nat
    <2>1. IsFiniteSet(begun) /\ \A t \in begun : old.cost[t] \in Nat
      BY <1>3, <1>5, <1>6, FS_Subset
    <2>2. QED
      BY <2>1, SumRemove
  <1>9. Owes(old, b) = SumFunctionOnSet(old.cost, ready) /\ Owes(old, b) \in Nat
    BY <1>5, ServeFacts DEF Owes
  <1>10. sent \in Nat /\ leased \in Nat
    BY DEF WInv
  <1>11. sent' + Owes(Idle, b) - leased' <= sent + Owes(old, b) - leased /\ sent' \in Nat
    BY <1>2, <1>3, <1>4, <1>7, <1>8, <1>9, <1>10
  <1>12. QED
    BY <1>1, <1>2, <1>4, <1>10, <1>11, BatchStep

(* What the invocations have sent and will send is leased, and a lease is asked for
   when all terms that are missing wait for it, and once (Register and Lease of
   enrichmentDictionaryBatch): for every number of batches, terms and needs. *)
THEOREM BatchInvariant == Spec => []WInv
  <1>1. WInv /\ [Next]_vars => WInv'
    <2>1. SUFFICES ASSUME WInv, [Next]_vars PROVE WInv'
      OBVIOUS
    <2>2. CASE Limiter \/ UNCHANGED vars
      <3>1. UNCHANGED <<serving, sent, leased>>
        BY <2>2 DEF Limiter, Tick, ReadStatus, wvars, vars, lvars, history
      <3>2. OwedAll(serving') = OwedAll(serving)
        BY <3>1
      <3>3. QED
        BY <2>1, <3>1, <3>2, PromisedIsOwed DEF WInv, InPhase
    <2>3. QED
      BY <2>1, <2>2, PostStep, RegisterStep, LeaseStep, FetchStep, EndStep DEF Next, Serve
  <1>2. QED
    BY <1>1, BatchInit, PTL DEF Spec

(* The Worker fails closed: no request to Datamuse is sent or about to be sent that
   the limiter has not leased, and no lease is asked for that a full bucket would
   refuse (leaseDatamuseQuota of worker/dictionary-edge.js). *)
THEOREM NothingIsSentUnleased == Spec => []NothingUnleased
  <1>1. WInv => NothingUnleased
    <2>1. ASSUME WInv PROVE NothingUnleased
      <3>1. \A b \in Batch : TotalCost(b) \in 0 .. Burst
        BY <2>1, TotalBound
      <3>2. QED
        BY <2>1, <3>1, LimiterConstants DEF WInv, NothingUnleased
    <2>2. QED
      BY <2>1
  <1>2. QED
    BY <1>1, BatchInvariant, PTL

===============================================================================
