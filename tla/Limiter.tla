------------------------------- MODULE Limiter -------------------------------
(***************************************************************************)
(* internal/server/limiter.go: requests are counted per key in windows     *)
(* that begin with a key's first request, in a table of limited size, from *)
(* which expired entries are removed from time to time. A request brings   *)
(* the limit and the window that its handler read from the settings, where *)
(* the administrator may have changed both since: any of Rates.            *)
(***************************************************************************)
EXTENDS Integers, FiniteSets, Functions

CONSTANTS Keys,        \* hashes of API tokens, or addresses
          Rates,       \* the values of rateLimit, its max and its window (windowMs)
          Minute,
          MaxEntries,  \* maxLimiterEntries
          MaxTime,     \* bound: on the clock
          MaxAsked     \* bound: on all requests

ASSUME LimiterAssumption ==
    /\ Rates \subseteq [max : Nat \ {0}, window : Nat \ {0}]
    /\ Minute \in Nat \ {0} /\ MaxEntries \in Nat \ {0}
    /\ MaxTime \in Nat /\ MaxAsked \in Nat
    /\ IsFiniteSet(Keys) /\ IsFiniteSet(Rates)

Times == 0..MaxTime

VARIABLES
    now,
    limiter,  \* the buckets of the keys it knows, and when it was last cleaned
    asked,    \* history: how often a key asked, at each time and with each rate
    granted   \* history: how often it was let in, at each time and with each rate

limiterVars == <<now, limiter, asked, granted>>

LimiterInit ==
    /\ now = 0 /\ limiter = [buckets |-> <<>>, lastCleanup |-> 0]
    /\ asked = [a \in Keys \X Times \X Rates |-> 0]
    /\ granted = [g \in Keys \X Times \X Rates |-> 0]

Expired(bucket, window) == now - bucket.start >= window

Interval(window) == IF window < Minute THEN window ELSE Minute

\* (a plausible bug) Expired entries are kept.
NotCleaned(window) == limiter

\* (a plausible bug) The whole table is dropped.
Emptied(window) ==
    IF now - limiter.lastCleanup >= Interval(window)
    THEN [buckets |-> <<>>, lastCleanup |-> now] ELSE limiter

\* The limiter after the clean-up that a request begins with when it is due: by the window
\* of the request, whatever the windows of those that began the buckets.
Cleaned(window) ==
    IF now - limiter.lastCleanup >= Interval(window)
    THEN [buckets |-> Restrict(limiter.buckets,
              {k \in DOMAIN limiter.buckets : ~Expired(limiter.buckets[k], window)}),
          lastCleanup |-> now]
    ELSE limiter

Full(key, window) ==
    LET known == DOMAIN Cleaned(window).buckets
    IN  key \notin known /\ Cardinality(known) >= MaxEntries

\* The bucket of a key with this request, the first of its window or one more.
Counted(key, window) ==
    LET buckets == Cleaned(window).buckets
    IN  IF key \in DOMAIN buckets /\ ~Expired(buckets[key], window)
        THEN [buckets[key] EXCEPT !.count = @ + 1]
        ELSE [start |-> now, count |-> 1]

\* A key that has no room is refused and not counted; a counted one may be refused.
Refuse(key, window) ==
    /\ Full(key, window)
    /\ limiter' = Cleaned(window)
    /\ UNCHANGED granted

Count(key, rate) ==
    /\ ~Full(key, rate.window)
    /\ limiter' = [Cleaned(rate.window) EXCEPT !.buckets =
                      [k \in DOMAIN @ \cup {key} |->
                          IF k = key THEN Counted(key, rate.window) ELSE @[k]]]
    /\ \/ /\ Counted(key, rate.window).count <= rate.max
          /\ granted' = [granted EXCEPT ![<<key, now, rate>>] = @ + 1]
       \/ Counted(key, rate.window).count > rate.max /\ UNCHANGED granted

\* allow, under the limiter's lock.
Allow(key, rate) ==
    /\ Refuse(key, rate.window) \/ Count(key, rate)
    /\ asked' = [asked EXCEPT ![<<key, now, rate>>] = @ + 1]
    /\ UNCHANGED now

Tick ==
    /\ now < MaxTime /\ now' = now + 1
    /\ UNCHANGED <<limiter, asked, granted>>

TotalAsked == SumFunctionOnSet(asked, Keys \X Times \X Rates)

LimiterNext ==
    \/ Tick
    \/ TotalAsked < MaxAsked /\ \E key \in Keys, rate \in Rates : Allow(key, rate)

LimiterSpec == LimiterInit /\ [][LimiterNext]_limiterVars

-----------------------------------------------------------------------------

\* The variables have their types, and the table its limit of entries (limiter.go:18).
LimiterTypeOK ==
    /\ now \in Times /\ limiter.lastCleanup \in 0..now
    /\ DOMAIN limiter.buckets \subseteq Keys /\ Cardinality(DOMAIN limiter.buckets) <= MaxEntries
    /\ \A k \in DOMAIN limiter.buckets :
         limiter.buckets[k] \in [start : 0..now, count : 1..MaxAsked]
    /\ asked \in [Keys \X Times \X Rates -> Nat]
    /\ granted \in [Keys \X Times \X Rates -> Nat]

\* So many ticks from first on.
Stretch(first, ticks) == {t \in Times : first <= t /\ t < first + ticks}

\* Some key asked at t with this rate.
Brought(rate, t) == \E key \in Keys : asked[<<key, t, rate>>] > 0

\* In any stretch of a window in which no request, of any key, brought a shorter one, a key
\* is let in at most 2 * m - 1 times under limits of m or less, though windows are fixed,
\* limit and window change, and entries come and go: a stretch that reaches into two
\* buckets misses the first request of one (limiter.go:37). It is the windows brought
\* within the stretch that count, not those of before (server.go:763).
BudgetKept ==
    \A rate \in Rates, first \in 0..now :
        LET stretch == Stretch(first, rate.window)
        IN  (\A r \in Rates, t \in stretch : Brought(r, t) => r.window >= rate.window) =>
            \A key \in Keys :
                SumFunctionOnSet(granted, {key} \X stretch \X {r \in Rates : r.max <= rate.max})
                    <= 2 * rate.max - 1

\* How often a key asked in the last so many ticks.
AsksOf(key, ticks) ==
    SumFunctionOnSet(asked, {key} \X {t \in Times : t > now - ticks /\ t <= now} \X Rates)

\* The rates by which the table may have been cleaned last, as a request sees it: its own,
\* and those brought since a clean-up was due at the latest.
CleanedBy(rate) ==
    {r \in Rates : \/ r = rate
                   \/ \E t \in Times : t > now - Interval(rate.window) /\ Brought(r, t)}

\* A key is refused only for a reason: it asked as often as its limit within its window, or
\* as many keys as the table holds asked within the time in which entries stay: the window
\* they were last cleaned by, which may be an older and longer one than the request's, and
\* the time to the next clean-up (limiter.go:24, limiter.go:34).
RefusedForCause ==
    [][granted' = granted => \A key \in Keys, rate \in Rates :
         asked'[<<key, now, rate>>] > asked[<<key, now, rate>>] =>
            \/ AsksOf(key, rate.window) >= rate.max
            \/ \E r \in CleanedBy(rate) :
                 Cardinality({k \in Keys : AsksOf(k, r.window + Interval(rate.window)) > 0})
                     >= MaxEntries
      ]_limiterVars

=============================================================================
