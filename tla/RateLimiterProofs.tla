-------------------------- MODULE RateLimiterProofs --------------------------
(***************************************************************************)
(* Proofs about RateLimiter, for any tools, limit, width and clock.        *)
(***************************************************************************)
EXTENDS RateLimiter, FiniteSetTheorems, TLAPS

\* The history is in the order of the clock.
Sorted ==
  \A t \in Tools :
    /\ \A i \in 1..Len(when[t]) : when[t][i] <= now
    /\ \A i, j \in 1..Len(when[t]) : i <= j => when[t][i] <= when[t][j]

\* What has been dropped is out of the window.
Kept ==
  \A t \in Tools :
    /\ hits[t] \subseteq 1..Len(when[t])
    /\ \A i \in 1..Len(when[t]) : i \notin hits[t] => when[t][i] <= now - Window

IInv == TypeOK /\ Sorted /\ Kept /\ WindowBound /\ MemoryBounded

LEMMA RecentAreValid ==
  ASSUME IInv, NEW t \in Tools
  PROVE  /\ Valid(t) = {i \in 1..Len(when[t]) : when[t][i] > now - Window}
         /\ Valid(t) \subseteq 1..Len(when[t])
         /\ IsFiniteSet(Valid(t))
         /\ Cardinality(Valid(t)) \in Nat
<1>1. Valid(t) = {i \in 1..Len(when[t]) : when[t][i] > now - Window}
  BY LimitsAssumption DEF IInv, TypeOK, Kept, Valid
<1>2. Valid(t) \in SUBSET (1..Len(when[t]))
  BY <1>1
<1>3. IsFiniteSet(1..Len(when[t]))
  BY FS_Interval DEF IInv, TypeOK
<1>4. IsFiniteSet(Valid(t))
  BY <1>2, <1>3, FS_Subset
<1> QED BY <1>1, <1>2, <1>4, FS_CardinalityType

LEMMA InitInv == Init => IInv
<1> SUFFICES ASSUME Init PROVE IInv
  OBVIOUS
<1>1. TypeOK
  BY ClockAssumption DEF Init, TypeOK
<1>2. Sorted /\ Kept /\ WindowBound
  BY LimitsAssumption DEF Init, Sorted, Kept, WindowBound, AtMostMaxHitsIn
<1>3. MemoryBounded
  BY FS_EmptySet, LimitsAssumption DEF Init, MemoryBounded
<1> QED BY <1>1, <1>2, <1>3 DEF IInv

LEMMA AdmitInv ==
  ASSUME IInv, NEW t \in Tools, Admit(t)
  PROVE  IInv'
<1> DEFINE n == Len(when[t])
<1>1. /\ n \in Nat /\ now \in Nat /\ when[t] \in Seq(Nat)
      /\ when' = [when EXCEPT ![t] = Append(when[t], now)]
      /\ hits' = [hits EXCEPT ![t] = Valid(t) \cup {n + 1}]
      /\ now' = now
  BY ClockAssumption DEF IInv, TypeOK, Admit
<1>2. /\ Len(when'[t]) = n + 1
      /\ \A i \in 1..n : when'[t][i] = when[t][i]
      /\ when'[t][n + 1] = now
      /\ \A u \in Tools : u # t => when'[u] = when[u] /\ hits'[u] = hits[u]
      /\ hits'[t] = Valid(t) \cup {n + 1}
  BY <1>1 DEF IInv, TypeOK
<1>3. TypeOK'
  <2>1. when' \in [Tools -> Seq(Nat)]
    BY <1>1 DEF IInv, TypeOK
  <2>2. Valid(t) \cup {n + 1} \in SUBSET Nat
    BY <1>1, RecentAreValid
  <2> QED BY <1>1, <2>1, <2>2 DEF IInv, TypeOK
<1>4. Sorted'
  BY <1>1, <1>2 DEF IInv, Sorted
<1>5. Kept'
  <2>1. ASSUME NEW i \in 1..Len(when'[t]), i \notin hits'[t]
        PROVE  when'[t][i] <= now - Window
    <3>1. i \in 1..n /\ i \notin Valid(t)
      BY <1>1, <1>2, <2>1
    <3>2. when[t][i] \in Nat
      BY <1>1, <3>1
    <3> QED BY <1>1, <1>2, <3>1, <3>2, RecentAreValid, LimitsAssumption
  <2>2. hits'[t] \subseteq 1..Len(when'[t])
    BY <1>1, <1>2, RecentAreValid
  <2> QED BY <1>1, <1>2, <2>1, <2>2 DEF IInv, Kept
\* The call MaxHits before the new one is out of the window: else it and all
\* after it were valid, which is one call too many for the guard.
<1>6. ASSUME NEW i \in 1..n, i + MaxHits = n + 1
      PROVE  when[t][i] <= now - Window
  <2> SUFFICES ASSUME when[t][i] > now - Window PROVE FALSE
    BY <1>1, LimitsAssumption
  <2>1. i..n \subseteq Valid(t)
    <3> SUFFICES ASSUME NEW j \in i..n PROVE j \in Valid(t)
      OBVIOUS
    <3>1. j \in 1..n /\ when[t][i] <= when[t][j] /\ when[t][i] \in Nat /\ when[t][j] \in Nat
      BY <1>1 DEF IInv, Sorted
    <3>2. when[t][j] > now - Window
      BY <1>1, <3>1, LimitsAssumption
    <3>3. Valid(t) = {k \in 1..Len(when[t]) : when[t][k] > now - Window}
      BY RecentAreValid
    <3> QED BY <3>1, <3>2, <3>3
  <2>2. Cardinality(i..n) = MaxHits
    <3>1. i \in Int /\ n \in Int /\ i <= n + 1 /\ n - i + 1 = MaxHits
      BY <1>1, <1>6, LimitsAssumption
    <3> HIDE DEF n
    <3>2. Cardinality(i..n) = IF i > n THEN 0 ELSE n - i + 1
      BY <3>1, FS_Interval
    <3> QED BY <3>1, <3>2
  <2>3. Cardinality(i..n) <= Cardinality(Valid(t))
    BY <2>1, RecentAreValid, FS_Subset
  <2> QED BY <2>2, <2>3, RecentAreValid, LimitsAssumption DEF Admit
<1>7. WindowBound'
  <2> SUFFICES ASSUME NEW u \in Tools, NEW i \in 1..Len(when'[u]),
                      i + MaxHits <= Len(when'[u])
               PROVE  when'[u][i + MaxHits] >= when'[u][i] + Window
    BY DEF WindowBound, AtMostMaxHitsIn
  <2>1. CASE u # t
    BY <1>2, <2>1 DEF IInv, WindowBound, AtMostMaxHitsIn
  <2>2. CASE u = t /\ i + MaxHits <= n
    <3>1. i \in 1..n /\ i + MaxHits \in 1..n
      BY <1>1, <1>2, <2>2, LimitsAssumption
    <3> QED BY <1>2, <2>2, <3>1 DEF IInv, WindowBound, AtMostMaxHitsIn
  <2>3. CASE u = t /\ i + MaxHits = n + 1
    <3>1. MaxHits # 0
      BY RecentAreValid, LimitsAssumption DEF Admit
    <3>2. i \in 1..n
      BY <1>1, <1>2, <2>3, <3>1, LimitsAssumption
    <3>3. when[t][i] <= now - Window /\ when[t][i] \in Nat
      BY <1>1, <1>6, <2>3, <3>2
    <3> QED BY <1>1, <1>2, <2>3, <3>2, <3>3, LimitsAssumption
  <2> QED BY <1>1, <1>2, <2>1, <2>2, <2>3, LimitsAssumption
<1>8. MemoryBounded'
  <2>1. n + 1 \notin Valid(t)
    BY <1>1, RecentAreValid
  <2>2. Cardinality(hits'[t]) = Cardinality(Valid(t)) + 1
    BY <1>2, <2>1, RecentAreValid, FS_AddElement
  <2>3. Cardinality(hits'[t]) <= MaxHits
    BY <2>2, RecentAreValid, LimitsAssumption DEF Admit
  <2> QED BY <1>2, <2>3 DEF IInv, MemoryBounded
<1> QED BY <1>3, <1>4, <1>5, <1>7, <1>8 DEF IInv

LEMMA TickInv ==
  ASSUME IInv, Tick
  PROVE  IInv'
<1>1. TypeOK'
  BY ClockAssumption DEF IInv, TypeOK, Tick
<1>2. \A t \in Tools : \A i \in 1..Len(when[t]) : when[t][i] \in Nat
  BY DEF IInv, TypeOK
<1>3. now \in Nat /\ now' = now + 1 /\ UNCHANGED <<when, hits>>
  BY ClockAssumption DEF IInv, TypeOK, Tick
<1>4. Sorted' /\ Kept'
  BY <1>2, <1>3, LimitsAssumption DEF IInv, Sorted, Kept
<1>5. WindowBound' /\ MemoryBounded'
  BY <1>3 DEF IInv, WindowBound, AtMostMaxHitsIn, MemoryBounded
<1> QED BY <1>1, <1>4, <1>5 DEF IInv

LEMMA Invariance == Spec => []IInv
<1>1. IInv /\ [Next]_vars => IInv'
  <2> SUFFICES ASSUME IInv, [Next]_vars PROVE IInv'
    OBVIOUS
  <2>1. CASE UNCHANGED vars
    BY <2>1 DEF IInv, TypeOK, Sorted, Kept, WindowBound, AtMostMaxHitsIn, MemoryBounded, vars
  <2> QED BY <2>1, AdmitInv, TickInv DEF Next
<1> QED BY <1>1, InitInv, PTL DEF Spec

-----------------------------------------------------------------------------
(* Theorems *)

\* Any window of the configured width holds at most MaxHits admitted calls of
\* a tool (Allow).
THEOREM WindowHolds == Spec => []WindowBound
<1>1. IInv => WindowBound
  BY DEF IInv
<1> QED BY <1>1, Invariance, PTL

\* A tool's slice of times stays bounded (Allow).
THEOREM MemoryHolds == Spec => []MemoryBounded
<1>1. IInv => MemoryBounded
  BY DEF IInv
<1> QED BY <1>1, Invariance, PTL

\* A tool is refused exactly when it has used up the present window: dropping
\* old times never changes a decision (Allow).
THEOREM RefusalsJustified == Spec => []RefusedExactlyWhenFull
<1>1. IInv => RefusedExactlyWhenFull
  BY RecentAreValid DEF RefusedExactlyWhenFull, Refused
<1> QED BY <1>1, Invariance, PTL

=============================================================================
