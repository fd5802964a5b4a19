----------------------------- MODULE RateLimiter -----------------------------
(***************************************************************************)
(* The per-tool rate limiter of the tool handlers                          *)
(* (internal/security/limits.go): a sliding window over the times of the   *)
(* calls it has admitted, under a mutex.  A tool's slice of times is       *)
(* modelled as the set of the positions, in the history of admitted calls, *)
(* of the times it holds; the code uses only how many of them are recent.  *)
(***************************************************************************)
EXTENDS Integers, Sequences, FiniteSets

CONSTANTS Tools,     \* tool names
          MaxHits,   \* the first argument of NewRateLimiter (100)
          Window,    \* the second one, in ticks of the clock (60)
          Second,    \* ticks of the clock in a second (10^9: time.Duration
                     \* counts nanoseconds)
          MaxTime,   \* bound: ticks
          MaxCalls   \* bound: admitted calls per tool

ASSUME LimitsAssumption == MaxHits \in Nat /\ Window \in Nat \ {0}
ASSUME ClockAssumption == Second \in Nat \ {0} /\ MaxTime \in Nat /\ MaxCalls \in Nat

VARIABLES now,       \* the clock
          when,      \* history: when[t][i] is the time of t's i-th admitted call
          hits       \* hits[t]: the positions of the times kept for t

vars == <<now, when, hits>>

Init ==
  /\ now = 0
  /\ when = [t \in Tools |-> <<>>]
  /\ hits = [t \in Tools |-> {}]

\* Slip: the expired times are still counted.
SlipNoExpiry(t) == hits[t]

\* Slip: a time is dropped one tick too early.
SlipEarlyExpiry(t) == {i \in hits[t] : when[t][i] > now - Window + 1}

\* The times after the cutoff.
Valid(t) == {i \in hits[t] : when[t][i] > now - Window}

\* Slip: the recent times are not thinned out when they are stored.
SlipKeepAll(t) ==
  /\ Cardinality(Valid(t)) < MaxHits
  /\ Len(when[t]) < MaxCalls
  /\ when' = [when EXCEPT ![t] = Append(@, now)]
  /\ hits' = [hits EXCEPT ![t] = @ \cup {Len(when[t]) + 1}]
  /\ UNCHANGED now

\* Allow returns nil: the recent times and the present one are stored.
Admit(t) ==
  /\ Cardinality(Valid(t)) < MaxHits
  /\ Len(when[t]) < MaxCalls
  /\ when' = [when EXCEPT ![t] = Append(@, now)]
  /\ hits' = [hits EXCEPT ![t] = Valid(t) \cup {Len(when[t]) + 1}]
  /\ UNCHANGED now

\* Allow returns an error, and stores nothing.
Refused(t) == Cardinality(Valid(t)) >= MaxHits

Tick == now < MaxTime /\ now' = now + 1 /\ UNCHANGED <<when, hits>>

Next == (\E t \in Tools : Admit(t)) \/ Tick

Spec == Init /\ [][Next]_vars

-----------------------------------------------------------------------------
(* Properties *)

TypeOK ==
  /\ now \in 0..MaxTime
  /\ when \in [Tools -> Seq(Nat)]
  /\ hits \in [Tools -> SUBSET Nat]

\* No stretch of span ticks holds more than MaxHits admitted calls of a tool.
AtMostMaxHitsIn(span) ==
  \A t \in Tools : \A i \in 1..Len(when[t]) :
    i + MaxHits <= Len(when[t]) => when[t][i + MaxHits] >= when[t][i] + span

\* Whatever the clock does between the calls, any window of the limiter's
\* width holds at most MaxHits admitted calls (Allow).
WindowBound == AtMostMaxHitsIn(Window)

\* A tool is refused exactly when it had MaxHits calls in the last window: the
\* thinned-out slice decides as the whole history would, refused calls are not
\* counted (Allow).
RefusedExactlyWhenFull ==
  \A t \in Tools :
    Refused(t) <=> Cardinality({i \in 1..Len(when[t]) : when[t][i] > now - Window}) >= MaxHits

\* A tool's slice never grows past MaxHits times (Allow stores valid alone).
MemoryBounded == \A t \in Tools : Cardinality(hits[t]) <= MaxHits

\* src/docs/SECURITY.md:65: "A per-tool rate limiter prevents abuse (100
\* requests/minute by default)"; the comment of server.go:33 says the same.
\* In ticks the minute is Window seconds: the argument 60 read as seconds.
PerMinuteBound == AtMostMaxHitsIn(Window * Second)

=============================================================================
