--------------------------- MODULE DatamuseLimiter ---------------------------
(***************************************************************************)
(* DatamuseRateLimiter of worker/dictionary-edge.js: the one Durable       *)
(* Object that leases requests to Datamuse to every Worker instance.  A    *)
(* lease is granted within a daily limit (UTC) and a token bucket that     *)
(* holds `Burst` tokens and gains one per second.                          *)
(*                                                                         *)
(* The object runs one handler at a time and a handler does not await      *)
(* between reading and writing its row, so each request is one action.  A  *)
(* restart of the object finds its row (INSERT OR IGNORE) and is no step.  *)
(* Time is counted in ticks, and tokens in ticks worth of refill, so that  *)
(* the fractions of a token that Date.now() produces are kept.             *)
(***************************************************************************)
EXTENDS Naturals

CONSTANTS DailyLimit,       \* datamuseDailyLimit
          Burst,            \* datamuseBurstCapacity
          TicksPerSecond,   \* resolution of the clock
          DayLength,        \* ticks per UTC day
          MaxTime           \* bound: ticks

ASSUME LimiterConstants ==
    /\ DailyLimit \in Nat /\ Burst \in Nat /\ MaxTime \in Nat
    /\ TicksPerSecond \in Nat \ {0} /\ DayLength \in Nat \ {0}

VARIABLES clock,     \* now, the UTC day, and ticks since midnight
          quota,     \* the row of datamuse_quota
          leased,    \* history: requests leased so far,
          byTick,    \* before a tick,
          byDay      \* and before a day began

history == <<leased, byTick, byDay>>
lvars == <<clock, quota, history>>

Time == 0 .. MaxTime
Capacity == Burst * TicksPerSecond
Price(cost) == cost * TicksPerSecond
AtMost(limit, n) == IF n < limit THEN n ELSE limit
CeilDiv(a, b) == (a + b - 1) \div b

LInit ==
    /\ clock = [now |-> 0, day |-> 0, tick |-> 0]
    /\ quota = [day |-> 0, used |-> 0, tokens |-> Capacity, refilled |-> 0]
    /\ leased = 0
    /\ byTick = [t \in Time |-> 0] /\ byDay = [d \in Time |-> 0]

-----------------------------------------------------------------------------
(* What the row is worth now.                                              *)

Elapsed == clock.now - quota.refilled

\* Faulty: the refill is not capped.
TokensUncapped == quota.tokens + Elapsed

Tokens == AtMost(Capacity, quota.tokens + Elapsed)

Used == IF quota.day = clock.day THEN quota.used ELSE 0

SecondsToMidnight == CeilDiv(DayLength - clock.tick, TicksPerSecond)

\* Faulty: the day is checked before the cost is added to it.
RetryAfterLate(cost) ==
    IF Used >= DailyLimit THEN SecondsToMidnight
    ELSE IF Tokens < Price(cost)
    THEN CeilDiv(Price(cost) - Tokens, TicksPerSecond)
    ELSE 0

\* Faulty: the wait is rounded down.
RetryAfterFloor(cost) ==
    IF Used + cost > DailyLimit THEN SecondsToMidnight
    ELSE IF Tokens < Price(cost)
    THEN (Price(cost) - Tokens) \div TicksPerSecond
    ELSE 0

\* Seconds that a lease has to wait, 0 if it is granted.
RetryAfter(cost) ==
    IF Used + cost > DailyLimit THEN SecondsToMidnight
    ELSE IF Tokens < Price(cost)
    THEN CeilDiv(Price(cost) - Tokens, TicksPerSecond)
    ELSE 0

\* Faulty: a refusal starts the refill of a token anew.
SettleTruncates(cost) ==
    quota' = [day |-> clock.day, used |-> Used + cost, refilled |-> clock.now,
              tokens |-> ((Tokens - Price(cost)) \div TicksPerSecond) * TicksPerSecond]

\* The UPDATE of a handler that takes `cost` tokens: 0 for GET /status and for
\* a refused lease.
Settle(cost) ==
    quota' = [day |-> clock.day, used |-> Used + cost,
              tokens |-> Tokens - Price(cost), refilled |-> clock.now]

-----------------------------------------------------------------------------
\* POST /lease with an integer cost from 1 to Burst; any other is a 400 that
\* reads nothing.
Grant(cost) ==
    /\ cost \in 1 .. Burst /\ RetryAfter(cost) = 0
    /\ Settle(cost)
    /\ leased' = leased + cost
    /\ UNCHANGED <<clock, byTick, byDay>>

Refuse(cost) ==
    /\ cost \in 1 .. Burst /\ RetryAfter(cost) > 0
    /\ Settle(0)
    /\ UNCHANGED <<clock, history>>

\* GET /status
ReadStatus ==
    /\ Settle(0)
    /\ UNCHANGED <<clock, history>>

Tick ==
    /\ clock.now < MaxTime
    /\ clock' = IF clock.tick + 1 = DayLength
                THEN [now |-> clock.now + 1, day |-> clock.day + 1, tick |-> 0]
                ELSE [clock EXCEPT !.now = @ + 1, !.tick = @ + 1]
    /\ byTick' = [byTick EXCEPT ![clock'.now] = leased]
    /\ byDay' = IF clock'.day = clock.day THEN byDay
                ELSE [byDay EXCEPT ![clock'.day] = leased]
    /\ UNCHANGED <<quota, leased>>

LNext == Tick \/ ReadStatus \/ \E cost \in 1 .. Burst : Grant(cost) \/ Refuse(cost)

LSpec == LInit /\ [][LNext]_lvars

-----------------------------------------------------------------------------
(* Properties.                                                             *)

LTypeOK ==
    /\ clock \in [now : Time, day : Time, tick : 0 .. DayLength - 1]
    /\ quota \in [day : Time, used : 0 .. DailyLimit, tokens : 0 .. Capacity,
                  refilled : Time]
    /\ leased \in Nat
    /\ byTick \in [Time -> Nat] /\ byDay \in [Time -> Nat]

(* No more than the daily limit is leased on any UTC day, the day that is over
   included, however requests, refusals and midnight interleave. *)
LeasedOn(d) == (IF d = clock.day THEN leased ELSE byDay[d + 1]) - byDay[d]
DailyQuota == \A d \in 0 .. clock.day : LeasedOn(d) <= DailyLimit

(* In no window of time, wherever it starts, is more leased than a full bucket
   and what the window refills. *)
LeasedSince(s) == leased - byTick[s]
BurstBound == \A s \in 0 .. clock.now :
                 Price(LeasedSince(s)) <= Capacity + (clock.now - s)

(* What is leased is within both limits. *)
WithinQuota == DailyQuota /\ BurstBound

(* Nothing is withheld: what the bucket lacks was really leased in some window,
   and the day counts its own leases only. Refusals and status requests cost
   no refill, and a client that keeps asking is not starved by its refusals. *)
NothingWithheld ==
    /\ \E s \in 0 .. clock.now :
          Price(LeasedSince(s)) + Tokens = Capacity + (clock.now - s)
    /\ Used = LeasedOn(clock.day)

(* Retry-After is enough: when it is over, the day has changed or the tokens
   are there; a second less would not do. *)
RetryAfterIsEnough ==
    \A cost \in 1 .. Burst :
        LET wait == RetryAfter(cost) * TicksPerSecond
        IN RetryAfter(cost) > 0 =>
              IF Used + cost > DailyLimit
              THEN clock.tick + wait >= DayLength
              ELSE /\ Tokens + wait >= Price(cost)
                   /\ Tokens + wait - TicksPerSecond < Price(cost)

(* A refusal takes nothing from anyone, and says truly how long it lasts. *)
HonestRefusals == NothingWithheld /\ RetryAfterIsEnough
=============================================================================
