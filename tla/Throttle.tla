------------------------------ MODULE Throttle ------------------------------
(***************************************************************************)
(* The throttle of gc/gc.go that paces the copier of a compaction: after   *)
(* every record it sleeps for as long as the copy is ahead of rate bytes a *)
(* second.  Bytes and durations are signed 64-bit numbers in the code, and *)
(* numbers in -Half .. Half - 1 here; a duration counts ticks, Second of   *)
(* them to the second.  A rate of 0 means no limit: pace then returns at   *)
(* once and changes nothing.                                               *)
(***************************************************************************)
EXTENDS Integers

CONSTANTS
    Rates,      \* bytes per second
    Second,     \* time.Second, in ticks
    Half,       \* 2^63
    Records,    \* sizes of copied records
    MaxTicks    \* bound: how long the copy is watched

\* The rates for which a remainder times time.Second fits: below 9.2 GB/s.
ASSUME RatesAssumption ==
    /\ Rates \subseteq Nat \ {0}
    /\ \A r \in Rates : r * Second < Half

\* A duration fits, too: no copy takes 292 years.
ASSUME TicksAssumption ==
    \A n \in Records : MaxTicks + n * Second < Half

VARIABLES
    rate,       \* t.rate
    copied,     \* t.bytes
    elapsed,    \* time since t.start
    wakeAt      \* when the last call of pace returns

throttleVars == <<rate, copied, elapsed, wakeAt>>

\* int64 arithmetic.
Wrap(x) == ((x + Half) % (2 * Half)) - Half

\* Multiplying first.
MutantThrottleOwed(n, r) == Wrap(n * Second) \div r

ThrottleOwed(n, r) ==
    Wrap(Wrap((n \div r) * Second) + Wrap((n % r) * Second) \div r)

\* pace, after a record of n bytes; the copier is back from the last call.
Pace(n) ==
    /\ elapsed >= wakeAt
    /\ copied' = Wrap(copied + n)
    /\ LET ahead == ThrottleOwed(copied', rate) - elapsed
       IN  wakeAt' = IF ahead > 0 THEN elapsed + ahead ELSE elapsed
    /\ UNCHANGED <<rate, elapsed>>

\* Time passes.
PaceTick ==
    /\ elapsed < MaxTicks
    /\ elapsed' = elapsed + 1
    /\ UNCHANGED <<rate, copied, wakeAt>>

ThrottleInit ==
    /\ rate \in Rates
    /\ copied = 0
    /\ elapsed = 0
    /\ wakeAt = 0

ThrottleNext == PaceTick \/ \E n \in Records : Pace(n)

-----------------------------------------------------------------------------
\* Whenever the copier goes on, the bytes it has copied in the whole cycle took
\* as long as the cap says, in exact arithmetic: "n*1e9 overflows int64 past
\* ~8.6 GiB" (throttleOwed), and a negative debt would lift the cap for the
\* rest of a long compaction.
CapHolds == elapsed >= wakeAt => elapsed >= (copied * Second) \div rate

=============================================================================
